-------------------------------- MODULE Bootstrap --------------------------------
(***************************************************************************)
(* What every start of the backend does before it listens: fill the cache  *)
(* of abilities, seed the roles, the permissions, the administrator and    *)
(* the templates, fill the cache again.  No step is in a transaction, and  *)
(* several instances may start at once, of different releases.  Beside     *)
(* them administrators edit roles and users through an instance that       *)
(* listens, and the guard looks abilities up.                              *)
(***************************************************************************)
EXTENDS Naturals, FiniteSets

CONSTANTS
    Instances,
    Releases,     \* the versions of roles.config.ts
    Types,        \* the role types; a seeded role is named for its type
    Admin,        \* the role type that has an administrator
    Permissions,  \* pairs of an action and a subject; "edit" is needed to edit the directory
    PermissionsOf,\* PermissionsOf[v]: the pairs of type and permission v seeds
    RoleIds,      \* the ids of role rows (bounds the model)
    Names,        \* the names roles are given
    People,       \* the ids of user rows (bounds the model)
    Emails,
    AdminEmail,   \* admin.email of the configuration
    Texts,        \* the names of the notification and mail templates
    MaxEdits,     \* edits by administrators (bounds the model)
    Missing

ASSUME BootstrapAssumption ==
    /\ Admin \in Types /\ "edit" \in Permissions /\ Types \subseteq Names /\ AdminEmail \in Emails
    /\ PermissionsOf \in [Releases -> SUBSET (Types \X Permissions)]
    /\ MaxEdits \in Nat
    /\ IsFiniteSet(Types) /\ IsFiniteSet(Permissions)
    /\ Missing \notin RoleIds \cup Texts \cup Releases \cup Permissions

VARIABLES
    role,        \* user_role: name, type and deletedAt of each row, or Missing
    person,      \* user: email, roleId and deletedAt of each row, or Missing
    permission,  \* role_permission: how many rows there are of each pair
    text,        \* notification_template and mail_template
    boot,        \* boot[i]: the step of an instance, and what it has read
    ability,     \* abilityCache of each instance
    edits,
    past         \* (history) see Past

directory == <<role, person>>
bootVars == <<directory, permission, text, boot, ability, edits, past>>

-----------------------------------------------------------------------------
Role == [name : Names, type : Types, deleted : BOOLEAN]
Person == [email : Emails, role : RoleIds, deleted : BOOLEAN]
BootSteps == {"down", "fill", "roles", "insert_roles", "count", "delete", "insert", "admin",
              "create_admin", "refill", "texts", "insert_text", "listening", "refused"}
Boot == [step : BootSteps,
         release : Releases \cup {Missing}, todo : SUBSET (Types \cup Texts),
         picked : RoleIds \cup Texts \cup {Missing}]
Down == [step |-> "down", release |-> Missing, todo |-> {}, picked |-> Missing]
ASSUME MissingIsNoRow == Missing \notin Role /\ Missing \notin Person

\* alone: the starts since which nobody else has acted; misread: the instances
\* that have read the permissions while they were being seeded; cut: a start
\* ended with roles left to insert; crossed: one seeding of permissions has met
\* another, or ended in the middle.
Past == [alone : SUBSET Instances, misread : SUBSET Instances, cut : BOOLEAN,
         crossed : BOOLEAN]
Empty == [t \in Types |-> {Missing}]

BootTypeOK ==
    /\ role \in [RoleIds -> Role \cup {Missing}]
    /\ person \in [People -> Person \cup {Missing}]
    /\ permission \in [Types \X Permissions -> 0 .. Cardinality(Instances)]
    /\ text \subseteq Texts
    /\ boot \in [Instances -> Boot]
    /\ ability \in [Instances -> [Types -> (SUBSET Permissions) \cup {{Missing}}]]
    /\ edits \in 0 .. MaxEdits
    /\ past \in Past

-----------------------------------------------------------------------------
(* The tables *)

RoleRows == {r \in RoleIds : role[r] # Missing}
LiveRoles == {r \in RoleRows : ~role[r].deleted}
\* findByType takes the oldest; which one does not matter.
FindByType(type) == {r \in LiveRoles : role[r].type = type}
LivePeople == {u \in People : person[u] # Missing /\ ~person[u].deleted}

\* user_role.name is unique, and uniq_user_email too: deleted rows count.
NameTaken(name) == \E r \in RoleRows : role[r].name = name
EmailTaken(email) == \E u \in People : person[u] # Missing /\ person[u].email = email

\* findIdWithRoleType: that the role is deleted does not matter.
HasPersonOf(type) == \E u \in LivePeople : role[person[u].role].type = type

\* The database numbers new rows; which number does not matter.
AddRole(name, type) ==
    LET r == CHOOSE r \in RoleIds : role[r] = Missing IN
    /\ RoleRows # RoleIds
    /\ ~NameTaken(name)
    /\ role' = [role EXCEPT ![r] = [name |-> name, type |-> type, deleted |-> FALSE]]

AddPerson(email, r) ==
    LET u == CHOOSE u \in People : person[u] = Missing IN
    /\ \E free \in People : person[free] = Missing
    /\ ~EmailTaken(email)
    /\ person' = [person EXCEPT ![u] = [email |-> email, role |-> r, deleted |-> FALSE]]

DeleteAllPermissions == permission' = [g \in Types \X Permissions |-> 0]

\* createMany is one INSERT, and the table has no unique key.
CreatePermissions(rows) ==
    permission' = [g \in Types \X Permissions |-> permission[g] + IF g \in rows THEN 1 ELSE 0]

\* The rows of a pair are numbered, to count them.
PermissionRows == UNION {{g} \X (1 .. permission[g]) : g \in Types \X Permissions}
CountPermissions == Cardinality(PermissionRows)

-----------------------------------------------------------------------------
(* Abilities *)

\* Mutant of RowsOf: the query leaves the role type out.
RowsOfAnyone(type) == {p \in Permissions : \E t \in Types : permission[<<t, p>>] > 0}

RowsOf(type) == {p \in Permissions : permission[<<type, p>>] > 0}

\* The rows of somebody who is between deleting and inserting are not there.
Torn == past.crossed \/ \E j \in Instances : boot[j].step = "insert"
Reading(i, history) ==
    IF Torn THEN [history EXCEPT !.misread = @ \cup {i}] ELSE history

\* fillAbilities leaves a role without rows as it is, and swallows an error.
Fill(i, cache) ==
    \E read \in BOOLEAN : ability' = [ability EXCEPT ![i] =
        [t \in Types |-> IF read /\ RowsOf(t) # {} THEN RowsOf(t) ELSE cache[t]]]

\* getAbilityForRole misses.  Query and assignment are one step: an answer that
\* comes late overwrites nothing but the answer to the same question.
RefreshAbility(i, t) ==
    /\ boot[i].step = "listening"
    /\ ability[i][t] = {Missing}
    /\ ability' = [ability EXCEPT ![i][t] = RowsOf(t)]
    /\ past' = Reading(i, past)
    /\ UNCHANGED <<directory, permission, text, boot, edits>>

-----------------------------------------------------------------------------
(* A start *)

OnlyMe(i) == [past EXCEPT !.alone = @ \cap {i}]
BootStep(i, from, to) ==
    /\ boot[i].step = from
    /\ boot' = [boot EXCEPT ![i].step = to]
\* The exception reaches main.ts, and nothing listens.
Refuse(i) == boot' = [boot EXCEPT ![i] = [Down EXCEPT !.step = "refused"]]

\* A new process: its cache is empty.
Start(i, v) ==
    /\ boot[i].step \in {"down", "refused"}
    /\ boot' = [boot EXCEPT ![i] = [step |-> "fill", release |-> v, todo |-> {},
                                    picked |-> Missing]]
    /\ ability' = [ability EXCEPT ![i] = Empty]
    /\ past' = [past EXCEPT !.alone = {i}, !.misread = @ \ {i}]
    /\ UNCHANGED <<directory, permission, text, edits>>

\* PoliciesService.onModuleInit: before MigrationModule's, which imports its module.
FillFirst(i) ==
    /\ BootStep(i, "fill", "roles")
    /\ Fill(i, Empty)
    /\ past' = Reading(i, OnlyMe(i))
    /\ UNCHANGED <<directory, permission, text, edits>>

\* shouldRoleSeedRoles: a failed query too is a reason to seed.
CheckRoles(i) ==
    /\ \/ BootStep(i, "roles", "count") /\ LiveRoles # {}
       \/ /\ boot[i].step = "roles"
          /\ boot' = [boot EXCEPT ![i] = [@ EXCEPT !.step = "insert_roles", !.todo = Types]]
    /\ past' = OnlyMe(i)
    /\ UNCHANGED <<directory, permission, text, ability, edits>>

\* One row of seedRoles, which asks for all of them at once.
InsertRole(i, t) ==
    LET left == boot[i].todo \ {t} IN
    /\ boot[i].step = "insert_roles" /\ t \in boot[i].todo
    /\ \/ /\ AddRole(t, t)
          /\ boot' = [boot EXCEPT ![i] = [@ EXCEPT
                 !.step = IF left = {} THEN "count" ELSE "insert_roles", !.todo = left]]
          /\ past' = OnlyMe(i)
       \/ /\ NameTaken(t)
          /\ Refuse(i)
          /\ past' = [OnlyMe(i) EXCEPT !.cut = TRUE]
          /\ UNCHANGED role
    /\ UNCHANGED <<person, permission, text, ability, edits>>

\* Mutant of NeedsPermissions: seed when the table is empty.
NeedsFirstPermissions(v) == CountPermissions = 0

\* shouldRolePermissionsSeed compares two counts.
NeedsPermissions(v) == CountPermissions # Cardinality(PermissionsOf[v])

\* ... and takes a failed query for a yes.
CheckPermissions(i) ==
    /\ \/ BootStep(i, "count", "delete")
       \/ BootStep(i, "count", "admin") /\ ~NeedsPermissions(boot[i].release)
    /\ past' = OnlyMe(i)
    /\ UNCHANGED <<directory, permission, text, ability, edits>>

DeletePermissions(i) ==
    /\ BootStep(i, "delete", "insert")
    /\ DeleteAllPermissions
    /\ past' = [OnlyMe(i) EXCEPT !.crossed = \E j \in Instances : boot[j].step = "insert"]
    /\ UNCHANGED <<directory, text, ability, edits>>

InsertPermissions(i) ==
    /\ BootStep(i, "insert", "admin")
    /\ CreatePermissions(PermissionsOf[boot[i].release])
    /\ past' = OnlyMe(i)
    /\ UNCHANGED <<directory, text, ability, edits>>

\* fillAdminUserId: findIdWithRoleType, then findByType.
CheckAdmin(i) ==
    /\ \/ BootStep(i, "admin", "refill") /\ HasPersonOf(Admin)
       \/ /\ boot[i].step = "admin" /\ ~HasPersonOf(Admin)
          /\ \/ \E r \in FindByType(Admin) :
                  boot' = [boot EXCEPT ![i] = [@ EXCEPT !.step = "create_admin", !.picked = r]]
             \/ FindByType(Admin) = {} /\ Refuse(i)
    /\ past' = OnlyMe(i)
    /\ UNCHANGED <<directory, permission, text, ability, edits>>

CreateAdmin(i) ==
    /\ boot[i].step = "create_admin"
    /\ \/ /\ AddPerson(AdminEmail, boot[i].picked)
          /\ boot' = [boot EXCEPT ![i] = [@ EXCEPT !.step = "refill", !.picked = Missing]]
       \/ EmailTaken(AdminEmail) /\ Refuse(i) /\ UNCHANGED person
    /\ past' = OnlyMe(i)
    /\ UNCHANGED <<role, permission, text, ability, edits>>

\* refreshAllAbilities.
Refill(i) ==
    /\ boot[i].step = "refill"
    /\ boot' = [boot EXCEPT ![i] = [@ EXCEPT !.step = "texts", !.todo = Texts]]
    /\ Fill(i, Empty)
    /\ past' = Reading(i, [OnlyMe(i) EXCEPT !.misread = @ \ {i}])
    /\ UNCHANGED <<directory, permission, text, edits>>

\* The templates of notifications, and then those of mails.
CheckText(i, x) ==
    /\ boot[i].step = "texts" /\ x \in boot[i].todo
    /\ boot' = [boot EXCEPT ![i] = [@ EXCEPT !.todo = boot[i].todo \ {x},
                                             !.step = IF x \in text THEN "texts" ELSE "insert_text",
                                             !.picked = IF x \in text THEN Missing ELSE x]]
    /\ past' = OnlyMe(i)
    /\ UNCHANGED <<directory, permission, text, ability, edits>>

InsertText(i) ==
    LET x == boot[i].picked IN
    /\ boot[i].step = "insert_text"
    /\ IF x \in text
       THEN Refuse(i) /\ UNCHANGED text
       ELSE /\ text' = text \cup {x}
            /\ boot' = [boot EXCEPT ![i] = [@ EXCEPT !.step = "texts", !.picked = Missing]]
    /\ past' = OnlyMe(i)
    /\ UNCHANGED <<directory, permission, ability, edits>>

Listen(i) ==
    /\ boot[i].todo = {}
    /\ BootStep(i, "texts", "listening")
    /\ past' = OnlyMe(i)
    /\ UNCHANGED <<directory, permission, text, ability, edits>>

\* An instance is stopped, or dies.
Stop(i) ==
    /\ boot[i].step \notin {"down", "refused"}
    /\ boot' = [boot EXCEPT ![i] = Down]
    /\ ability' = [ability EXCEPT ![i] = Empty]
    /\ past' = [alone |-> {}, misread |-> past.misread \ {i},
                cut |-> past.cut \/ boot[i].step = "insert_roles",
                crossed |-> past.crossed \/ boot[i].step = "insert"]
    /\ UNCHANGED <<directory, permission, text, edits>>

-----------------------------------------------------------------------------
(* Administrators, through an instance that listens *)

\* PoliciesGuard, on the ability its instance has for the type of the token's role.
Allows(i, type, p) == p \in ability[i][type]

Editing ==
    /\ edits < MaxEdits
    /\ \E i \in Instances : boot[i].step = "listening" /\ Allows(i, Admin, "edit")
    /\ edits' = edits + 1
    /\ past' = [past EXCEPT !.alone = {}]
    /\ UNCHANGED <<permission, text, boot, ability>>

CreateRole == \E name \in Names, type \in Types :
    AddRole(name, type) /\ Editing /\ UNCHANGED person

UpdateRole(r) == \E name \in Names, type \in Types :
    /\ Editing
    /\ r \in LiveRoles
    /\ name = role[r].name \/ ~NameTaken(name)
    /\ role' = [role EXCEPT ![r] = [@ EXCEPT !.name = name, !.type = type]]
    /\ UNCHANGED person

DeleteRole(r) ==
    /\ Editing
    /\ r \in LiveRoles
    /\ role' = [role EXCEPT ![r].deleted = TRUE]
    /\ UNCHANGED person

\* The checks of the handler let more through than the unique key does, and the
\* role may be deleted after its check.
CreatePerson == \E email \in Emails, r \in RoleRows :
    AddPerson(email, r) /\ Editing /\ UNCHANGED role

\* The UPDATE does not look at deletedAt: the user may be deleted after the read.
UpdatePerson(u) == \E email \in Emails, r \in RoleRows :
    /\ Editing
    /\ person[u] # Missing
    /\ email = person[u].email \/ ~EmailTaken(email)
    /\ person' = [person EXCEPT ![u] = [@ EXCEPT !.email = email, !.role = r]]
    /\ UNCHANGED role

DeletePerson(u) ==
    /\ Editing
    /\ u \in LivePeople
    /\ person' = [person EXCEPT ![u].deleted = TRUE]
    /\ UNCHANGED role

-----------------------------------------------------------------------------
BootInit ==
    /\ role = [r \in RoleIds |-> Missing]
    /\ person = [u \in People |-> Missing]
    /\ permission = [g \in Types \X Permissions |-> 0]
    /\ text = {}
    /\ boot = [i \in Instances |-> Down]
    /\ ability = [i \in Instances |-> Empty]
    /\ edits = 0
    /\ past = [alone |-> {}, misread |-> {}, cut |-> FALSE, crossed |-> FALSE]

BootNext ==
    \/ \E i \in Instances :
          \/ FillFirst(i) \/ CheckRoles(i) \/ CheckPermissions(i) \/ DeletePermissions(i)
          \/ InsertPermissions(i) \/ CheckAdmin(i) \/ CreateAdmin(i) \/ Refill(i)
          \/ InsertText(i) \/ Listen(i) \/ Stop(i)
          \/ \E v \in Releases : Start(i, v)
          \/ \E t \in Types : InsertRole(i, t) \/ RefreshAbility(i, t)
          \/ \E x \in Texts : CheckText(i, x)
    \/ CreateRole \/ CreatePerson
    \/ \E r \in RoleIds : UpdateRole(r) \/ DeleteRole(r)
    \/ \E u \in People : UpdatePerson(u) \/ DeletePerson(u)

BootSpec == BootInit /\ [][BootNext]_bootVars

-----------------------------------------------------------------------------
(* Properties *)

\* PoliciesGuard asks the ability of an instance, which is filled from a table
\* that starts of other releases delete and fill again beside it: an ability
\* allows nothing that no release grants to the role, and is exactly what one
\* release grants, unless the instance has read while somebody was seeding.
AbilitiesRight == \A i \in Instances, t \in Types :
    LET granted == {{p \in Permissions : <<t, p>> \in PermissionsOf[v]} : v \in Releases} IN
    ability[i][t] # {Missing} =>
        IF i \in past.misread
        THEN ability[i][t] \subseteq UNION granted
        ELSE ability[i][t] \in granted

\* A start that nothing disturbs repairs what earlier ones left behind, whoever
\* died or collided where: as many permissions as its release has, an
\* administrator, every template, and abilities that agree with the table.
BootRepairs == \A i \in past.alone :
    boot[i].step = "listening" =>
        /\ CountPermissions = Cardinality(PermissionsOf[boot[i].release])
        /\ HasPersonOf(Admin)
        /\ text = Texts
        /\ \A t \in Types : ability[i][t] \in {{Missing}, RowsOf(t)}

\* Roles are not repaired: with one live role no start inserts the others.  So
\* whoever listens has all the roles, unless a start ended between two rows or
\* another is still there.
RolesComplete ==
    (\E i \in Instances : boot[i].step = "listening") =>
        \/ Cardinality(RoleRows) >= Cardinality(Types)
        \/ past.cut
        \/ \E j \in Instances : boot[j].step = "insert_roles"

\* What the seeding services leave, however starts meet and end.
SeedingRight == BootRepairs /\ RolesComplete

\* README.md:163 "Re-running seeding is idempotent - it only inserts when the
\* corresponding table is empty": a start that nothing disturbs is not refused,
\* unless an earlier one has left the roles incomplete, or the administrator role
\* is gone (then it says so: admin.roleNotFound).
SeedingIdempotent == \A i \in past.alone :
    boot[i].step = "refused" =>
        past.cut \/ FindByType(Admin) = {}
=============================================================================
