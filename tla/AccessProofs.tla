------------------------------ MODULE AccessProofs ------------------------------
(***************************************************************************)
(* Proofs about AccessVersion, for any number of roles and of requests of  *)
(* any kind, and any failures of Redis; and about Bootstrap, for any       *)
(* instances and releases that start, meet and end at any step.            *)
(***************************************************************************)
EXTENDS AccessVersion, Bootstrap, FiniteSetTheorems, TLAPS

-----------------------------------------------------------------------------
(* Bootstrap: the inductive invariant *)

\* What an instance has done already, by its step.
Unseeded == {"down", "fill", "roles", "insert_roles", "count", "delete", "refused"}
HasPermissions == {"admin", "create_admin", "refill", "texts", "insert_text", "listening"}
HasAdmin == {"refill", "texts", "insert_text", "listening"}
HasAbilities == {"texts", "insert_text", "listening"}
HasRoles == {"count", "delete", "insert"} \cup HasPermissions

\* The locals of a start fit its step.
StartFits(i) ==
    /\ boot[i].step \notin {"down", "refused"} => boot[i].release \in Releases
    /\ boot[i].step = "insert_roles" => boot[i].todo \subseteq Types
    /\ boot[i].step \in {"texts", "insert_text"} => boot[i].todo \subseteq Texts
    /\ boot[i].step = "create_admin" => boot[i].picked \in RoleIds
    /\ boot[i].step = "insert_text" => boot[i].picked \in Texts

BootFits ==
    /\ role \in [RoleIds -> Role \cup {Missing}]
    /\ person \in [People -> Person \cup {Missing}]
    /\ permission \in [Types \X Permissions -> Nat]
    /\ text \subseteq Texts
    /\ boot \in [Instances -> Boot]
    /\ ability \in [Instances -> [Types -> (SUBSET Permissions) \cup {{Missing}}]]
    /\ past \in Past
    /\ \A i \in Instances : StartFits(i)

\* The table of permissions: rows that some release grants; of one release exactly, unless
\* somebody seeds them, starts have met there or one has ended there.
NoRows == \A g \in Types \X Permissions : permission[g] = 0
SeededBy(v) == \A g \in Types \X Permissions : permission[g] > 0 <=> g \in PermissionsOf[v]
RowsAreGranted ==
    \A g \in Types \X Permissions : permission[g] > 0 => \E v \in Releases : g \in PermissionsOf[v]
SeederIsAlone ==
    ~past.crossed => \A i \in Instances : boot[i].step = "insert" =>
        NoRows /\ \A j \in Instances : boot[j].step = "insert" => i = j
OneReleaseRules ==
    ~Torn => \/ \E v \in Releases : SeededBy(v)
             \/ NoRows /\ \A i \in Instances : boot[i].step \in Unseeded

\* The rows of roles: a start that inserts them has enough left to insert.
RolesFit ==
    /\ IsFiniteSet(RoleRows)
    /\ \A i \in Instances : boot[i].step = "insert_roles" =>
          Cardinality(RoleRows) + Cardinality(boot[i].todo) >= Cardinality(Types)
    /\ RoleRows # {} => \/ Cardinality(RoleRows) >= Cardinality(Types)
                        \/ past.cut
                        \/ \E j \in Instances : boot[j].step = "insert_roles"
    /\ \A i \in Instances : boot[i].step \in HasRoles => RoleRows # {}

\* A start that nothing disturbs has, at each step, done what the steps before promise.
Repairs(i) ==
    /\ boot[i].step = "insert" => NoRows
    /\ boot[i].step \in HasPermissions =>
          CountPermissions = Cardinality(PermissionsOf[boot[i].release])
    /\ boot[i].step = "create_admin" => boot[i].picked \in FindByType(Admin)
    /\ boot[i].step \in HasAdmin => HasPersonOf(Admin)
    /\ boot[i].step = "texts" => Texts \ boot[i].todo \subseteq text
    /\ boot[i].step = "insert_text" => Texts \ (boot[i].todo \cup {boot[i].picked}) \subseteq text
    /\ boot[i].step = "listening" => text = Texts
    /\ boot[i].step \in HasAbilities => \A t \in Types : ability[i][t] \in {{Missing}, RowsOf(t)}
AloneRepairs == \A i \in past.alone : Repairs(i)

BootInductive ==
    /\ BootFits
    /\ RowsAreGranted /\ SeederIsAlone /\ OneReleaseRules
    /\ AbilitiesRight
    /\ RolesFit
    /\ AloneRepairs

-----------------------------------------------------------------------------
(* Bootstrap: the history *)

\* What a start that acts does to the history: it ends the peace of the others.
LEMMA OnlyMeFits ==
    ASSUME past \in Past, NEW i \in Instances
    PROVE  /\ OnlyMe(i) \in Past
           /\ OnlyMe(i).alone = past.alone \cap {i} /\ OnlyMe(i).misread = past.misread
           /\ OnlyMe(i).cut = past.cut /\ OnlyMe(i).crossed = past.crossed
BY DEF OnlyMe, Past

\* A reading is remembered as misread while permissions are being seeded.
LEMMA ReadingFits ==
    ASSUME NEW i \in Instances, NEW h \in Past
    PROVE  /\ Reading(i, h) \in Past
           /\ Reading(i, h).alone = h.alone /\ Reading(i, h).cut = h.cut
           /\ Reading(i, h).crossed = h.crossed
           /\ h.misread \subseteq Reading(i, h).misread
           /\ Reading(i, h).misread \subseteq h.misread \cup {i}
           /\ Torn => i \in Reading(i, h).misread
<1>1. PICK m : m = h.misread \cup {i}
  OBVIOUS
<1>2. PICK k : k = [h EXCEPT !.misread = m]
  OBVIOUS
<1>3. /\ k \in Past /\ k.alone = h.alone /\ k.cut = h.cut /\ k.crossed = h.crossed
      /\ k.misread = m
  BY <1>1, <1>2 DEF Past
<1>4. Reading(i, h) = IF Torn THEN k ELSE h
  BY <1>1, <1>2 DEF Reading
<1>5. CASE Torn
  BY <1>1, <1>3, <1>4, <1>5
<1>6. CASE ~Torn
  BY <1>4, <1>6
<1> QED
  BY <1>5, <1>6

-----------------------------------------------------------------------------
(* Bootstrap: the tables *)

\* What the tables say depends on nothing else.
LEMMA TablesStand ==
    /\ UNCHANGED permission => /\ CountPermissions' = CountPermissions
                               /\ (NoRows' <=> NoRows)
                               /\ \A t \in Types : RowsOf(t)' = RowsOf(t)
                               /\ \A v \in Releases : SeededBy(v)' <=> SeededBy(v)
    /\ UNCHANGED role => RoleRows' = RoleRows /\ FindByType(Admin)' = FindByType(Admin)
    /\ UNCHANGED <<role, person>> => (HasPersonOf(Admin)' <=> HasPersonOf(Admin))
<1>1. ASSUME UNCHANGED permission
      PROVE  /\ CountPermissions' = CountPermissions
             /\ NoRows' <=> NoRows
             /\ \A t \in Types : RowsOf(t)' = RowsOf(t)
             /\ \A v \in Releases : SeededBy(v)' <=> SeededBy(v)
  <2>1. CountPermissions' = CountPermissions
    BY <1>1 DEF CountPermissions, PermissionRows
  <2>2. NoRows' <=> NoRows
    BY <1>1 DEF NoRows
  <2>3. \A t \in Types : RowsOf(t)' = RowsOf(t)
    BY <1>1 DEF RowsOf
  <2>4. \A v \in Releases : SeededBy(v)' <=> SeededBy(v)
    BY <1>1 DEF SeededBy
  <2> QED
    BY <2>1, <2>2, <2>3, <2>4
<1>2. UNCHANGED role => RoleRows' = RoleRows /\ FindByType(Admin)' = FindByType(Admin)
  BY DEF RoleRows, FindByType, LiveRoles
<1>3. UNCHANGED <<role, person>> => (HasPersonOf(Admin)' <=> HasPersonOf(Admin))
  BY DEF HasPersonOf, LivePeople
<1> QED
  BY <1>1, <1>2, <1>3

\* A new row of a role is one more.
LEMMA RoleIsAdded ==
    ASSUME role \in [RoleIds -> Role \cup {Missing}], IsFiniteSet(RoleRows),
           NEW name \in Names, NEW type \in Types, AddRole(name, type)
    PROVE  /\ role' \in [RoleIds -> Role \cup {Missing}]
           /\ IsFiniteSet(RoleRows') /\ RoleRows' # {}
           /\ Cardinality(RoleRows) \in Nat
           /\ Cardinality(RoleRows') = Cardinality(RoleRows) + 1
<1>1. PICK r : r = CHOOSE k \in RoleIds : role[k] = Missing
  OBVIOUS
<1>2. r \in RoleIds /\ role[r] = Missing
  <2>1. \E k \in RoleIds : role[k] = Missing
    BY DEF AddRole, RoleRows
  <2> QED
    BY <1>1, <2>1
<1>3. PICK new : new = [name |-> name, type |-> type, deleted |-> FALSE]
  OBVIOUS
<1>4. new \in Role /\ new # Missing
  <2>1. new \in Role
    BY <1>3 DEF Role
  <2> QED
    BY <2>1, MissingIsNoRow
<1>5. role' = [role EXCEPT ![r] = new]
  BY <1>1, <1>3 DEF AddRole
<1>6. role' \in [RoleIds -> Role \cup {Missing}]
  BY <1>4, <1>5
<1>7. RoleRows' = RoleRows \cup {r} /\ r \notin RoleRows
  BY <1>2, <1>4, <1>5 DEF RoleRows
<1> QED
  BY <1>6, <1>7, FS_AddElement, FS_CardinalityType

\* A new user is somebody of the type that its role has.
LEMMA PersonIsAdded ==
    ASSUME person \in [People -> Person \cup {Missing}],
           NEW email \in Emails, NEW r \in RoleIds, AddPerson(email, r), UNCHANGED role
    PROVE  /\ person' \in [People -> Person \cup {Missing}]
           /\ role[r].type = Admin => HasPersonOf(Admin)'
<1>1. PICK u : u = CHOOSE k \in People : person[k] = Missing
  OBVIOUS
<1>2. u \in People /\ person[u] = Missing
  BY <1>1 DEF AddPerson
<1>3. PICK new : new = [email |-> email, role |-> r, deleted |-> FALSE]
  OBVIOUS
<1>4. new \in Person /\ new # Missing /\ new.role = r /\ ~new.deleted
  <2>1. new \in Person
    BY <1>3 DEF Person
  <2> QED
    BY <1>3, <2>1, MissingIsNoRow
<1>5. person' = [person EXCEPT ![u] = new]
  BY <1>1, <1>3 DEF AddPerson
<1>6. person' \in [People -> Person \cup {Missing}]
  BY <1>4, <1>5
<1>7. person'[u] = new /\ u \in LivePeople'
  BY <1>2, <1>4, <1>5 DEF LivePeople
<1>8. role[r].type = Admin => HasPersonOf(Admin)'
  BY <1>4, <1>7 DEF HasPersonOf
<1> QED
  BY <1>6, <1>8

\* An empty table has no rows to count, and one that has each row of a set once has as many.
LEMMA RowsAreCounted ==
    /\ NoRows => CountPermissions = 0
    /\ \A S \in SUBSET (Types \X Permissions) :
          (\A g \in Types \X Permissions : permission[g] = IF g \in S THEN 1 ELSE 0)
              => CountPermissions = Cardinality(S)
<1>1. NoRows => CountPermissions = 0
  <2> SUFFICES ASSUME NoRows PROVE CountPermissions = 0
    OBVIOUS
  <2>1. \A g \in Types \X Permissions : 1 .. permission[g] = {}
    BY DEF NoRows
  <2>2. PermissionRows = {}
    BY <2>1 DEF PermissionRows
  <2> QED
    BY <2>2, FS_EmptySet DEF CountPermissions
<1>2. ASSUME NEW S \in SUBSET (Types \X Permissions),
             \A g \in Types \X Permissions : permission[g] = IF g \in S THEN 1 ELSE 0
      PROVE  CountPermissions = Cardinality(S)
  <2>1. IsFiniteSet(S)
    <3>1. IsFiniteSet(Types) /\ IsFiniteSet(Permissions)
      BY BootstrapAssumption
    <3> QED
      BY <3>1, FS_Product, FS_Subset
  <2>2. \A g \in Types \X Permissions : 1 .. permission[g] = IF g \in S THEN {1} ELSE {}
    <3>1. 1 .. 1 = {1} /\ 1 .. 0 = {}
      OBVIOUS
    <3>2. ASSUME NEW g \in Types \X Permissions
          PROVE  1 .. permission[g] = IF g \in S THEN {1} ELSE {}
      <4>1. CASE g \in S
        <5>1. permission[g] = 1
          BY <1>2, <3>2, <4>1
        <5> QED
          BY <3>1, <4>1, <5>1
      <4>2. CASE g \notin S
        <5>1. permission[g] = 0
          BY <1>2, <3>2, <4>2
        <5> QED
          BY <3>1, <4>2, <5>1
      <4> QED
        BY <4>1, <4>2
    <3> QED
      BY <3>2
  <2>3. PermissionRows = {<<g, 1>> : g \in S}
    <3>1. ASSUME NEW x \in PermissionRows PROVE x \in {<<g, 1>> : g \in S}
      <4>1. PICK g \in Types \X Permissions : x \in {g} \X (1 .. permission[g])
        BY <3>1 DEF PermissionRows
      <4>2. g \in S /\ x \in {g} \X {1}
        BY <2>2, <4>1, Zenon
      <4> QED
        BY <4>2
    <3>2. ASSUME NEW g \in S PROVE <<g, 1>> \in PermissionRows
      <4>1. g \in Types \X Permissions /\ 1 \in 1 .. permission[g]
        BY <2>2, <3>2
      <4>2. <<g, 1>> \in {g} \X (1 .. permission[g])
        BY <4>1
      <4> QED
        BY <4>1, <4>2 DEF PermissionRows
    <3> QED
      BY <3>1, <3>2
  <2>4. PICK f : f = [g \in S |-> <<g, 1>>]
    OBVIOUS
  <2>5. f \in Bijection(S, PermissionRows)
    BY <2>3, <2>4 DEF Bijection, Injection, Surjection, IsInjective
  <2>6. ExistsBijection(S, PermissionRows)
    BY <2>5 DEF ExistsBijection
  <2> QED
    BY <2>1, <2>6, FS_Bijection DEF CountPermissions
<1> QED
  BY <1>1, <1>2

LEMMA RowsAreCountedThen ==
    (\A S \in SUBSET (Types \X Permissions) :
        (\A g \in Types \X Permissions : permission[g] = IF g \in S THEN 1 ELSE 0)
            => CountPermissions = Cardinality(S))'
<1>1. \A S \in SUBSET (Types \X Permissions) :
        (\A g \in Types \X Permissions : permission[g] = IF g \in S THEN 1 ELSE 0)
            => CountPermissions = Cardinality(S)
  BY RowsAreCounted
<1> QED
  BY <1>1, PTL

-----------------------------------------------------------------------------
(* Bootstrap: what a step leaves standing *)

\* Nobody begins or ends to seed permissions, or it shows in the history.
LEMMA PermissionsStand ==
    ASSUME BootInductive, UNCHANGED permission,
           ~past'.crossed => /\ ~past.crossed
                             /\ \A j \in Instances :
                                    boot'[j].step = "insert" <=> boot[j].step = "insert",
           \/ \E v \in Releases : SeededBy(v)
           \/ \A j \in Instances : boot[j].step \in Unseeded => boot'[j].step \in Unseeded
    PROVE  RowsAreGranted' /\ SeederIsAlone' /\ OneReleaseRules'
<1>1. RowsAreGranted /\ SeederIsAlone /\ OneReleaseRules
  BY DEF BootInductive
<1>2. (NoRows' <=> NoRows) /\ \A v \in Releases : SeededBy(v)' <=> SeededBy(v)
  BY TablesStand
<1>3. RowsAreGranted'
  BY <1>1 DEF RowsAreGranted
<1>4. SeederIsAlone'
  BY <1>1, <1>2 DEF SeederIsAlone
<1>5. OneReleaseRules'
  <2>1. ~Torn' => ~Torn
    BY DEF Torn
  <2> QED
    BY <1>1, <1>2, <2>1 DEF OneReleaseRules
<1> QED
  BY <1>3, <1>4, <1>5

\* What a release grants to a role.
GrantedTo(t) == {{p \in Permissions : <<t, p>> \in PermissionsOf[v]} : v \in Releases}

LEMMA AbilitiesMeaning ==
    AbilitiesRight <=> \A i \in Instances, t \in Types :
        ability[i][t] # {Missing} =>
            IF i \in past.misread THEN ability[i][t] \subseteq UNION GrantedTo(t)
            ELSE ability[i][t] \in GrantedTo(t)
BY DEF AbilitiesRight, GrantedTo

LEMMA AbilitiesMeaningThen ==
    AbilitiesRight' <=> \A i \in Instances, t \in Types :
        ability'[i][t] # {Missing} =>
            IF i \in past'.misread THEN ability'[i][t] \subseteq UNION GrantedTo(t)
            ELSE ability'[i][t] \in GrantedTo(t)
BY DEF AbilitiesRight, GrantedTo

\* An instance keeps its abilities, or has none any more.
LEMMA AbilitiesStand ==
    ASSUME AbilitiesRight,
           \A j \in Instances :
              \/ ability'[j] = Empty
              \/ ability'[j] = ability[j] /\ (j \in past.misread => j \in past'.misread)
    PROVE  AbilitiesRight'
<1> SUFFICES ASSUME NEW i \in Instances, NEW t \in Types, ability'[i][t] # {Missing}
             PROVE  IF i \in past'.misread THEN ability'[i][t] \subseteq UNION GrantedTo(t)
                    ELSE ability'[i][t] \in GrantedTo(t)
  BY AbilitiesMeaningThen
<1>1. ability'[i] # Empty
  BY DEF Empty
<1>2. ability'[i] = ability[i] /\ (i \in past.misread => i \in past'.misread)
  BY <1>1
<1>3. IF i \in past.misread THEN ability[i][t] \subseteq UNION GrantedTo(t)
      ELSE ability[i][t] \in GrantedTo(t)
  BY <1>2, AbilitiesMeaning
<1> QED
  BY <1>2, <1>3

\* What is read of the permissions of a role: nothing that no release grants; and what one
\* release grants, unless they are being seeded.
LEMMA WhatIsRead ==
    ASSUME BootInductive, NEW t \in Types
    PROVE  /\ RowsOf(t) \subseteq UNION GrantedTo(t)
           /\ RowsOf(t) \subseteq Permissions /\ RowsOf(t) # {Missing}
           /\ ~Torn /\ (\/ RowsOf(t) # {}
                        \/ \E i \in Instances : boot[i].step \notin Unseeded)
                 => RowsOf(t) \in GrantedTo(t)
<1>1. BootFits /\ RowsAreGranted /\ OneReleaseRules
  BY DEF BootInductive
<1>2. \A p \in Permissions : permission[<<t, p>>] \in Nat
  BY <1>1 DEF BootFits
<1>3. RowsOf(t) \subseteq UNION GrantedTo(t)
  <2> SUFFICES ASSUME NEW p \in RowsOf(t) PROVE p \in UNION GrantedTo(t)
    OBVIOUS
  <2>1. p \in Permissions /\ permission[<<t, p>>] > 0 /\ <<t, p>> \in Types \X Permissions
    BY DEF RowsOf
  <2>2. PICK v \in Releases : <<t, p>> \in PermissionsOf[v]
    BY <1>1, <2>1 DEF RowsAreGranted
  <2>3. p \in {k \in Permissions : <<t, k>> \in PermissionsOf[v]}
    BY <2>1, <2>2
  <2> QED
    BY <2>3 DEF GrantedTo
<1>4. RowsOf(t) \subseteq Permissions /\ RowsOf(t) # {Missing}
  BY BootstrapAssumption DEF RowsOf
<1>5. ASSUME NEW v \in Releases, SeededBy(v) PROVE RowsOf(t) \in GrantedTo(t)
  <2>1. RowsOf(t) = {p \in Permissions : <<t, p>> \in PermissionsOf[v]}
    BY <1>5 DEF RowsOf, SeededBy
  <2> QED
    BY <2>1 DEF GrantedTo
<1>6. NoRows => RowsOf(t) = {}
  <2> SUFFICES ASSUME NoRows, NEW p \in RowsOf(t) PROVE FALSE
    OBVIOUS
  <2>1. permission[<<t, p>>] = 0 /\ permission[<<t, p>>] > 0
    BY DEF NoRows, RowsOf
  <2> QED
    BY <2>1
<1> QED
  BY <1>1, <1>3, <1>4, <1>5, <1>6 DEF OneReleaseRules

\* No role is added, and nobody is cut off among them unseen.
LEMMA RolesStand ==
    ASSUME RolesFit, RoleRows' = RoleRows, past.cut => past'.cut,
           \A j \in Instances :
              /\ boot'[j].step \in HasRoles => boot[j].step \in HasRoles \/ RoleRows # {}
              /\ boot'[j].step = "insert_roles" =>
                    \/ boot'[j].todo = Types
                    \/ boot[j].step = "insert_roles" /\ boot'[j].todo = boot[j].todo
              /\ boot[j].step = "insert_roles" => boot'[j].step = "insert_roles" \/ past'.cut
    PROVE  RolesFit'
<1>1. Cardinality(RoleRows) \in Nat /\ Cardinality(Types) \in Nat
  BY FS_CardinalityType, BootstrapAssumption DEF RolesFit
<1>2. ASSUME NEW j \in Instances, boot'[j].step = "insert_roles"
      PROVE  Cardinality(RoleRows)' + Cardinality(boot'[j].todo) >= Cardinality(Types)
  <2>1. CASE boot'[j].todo = Types
    BY <1>1, <2>1
  <2>2. CASE boot[j].step = "insert_roles" /\ boot'[j].todo = boot[j].todo
    BY <2>2 DEF RolesFit
  <2> QED
    BY <1>2, <2>1, <2>2
<1>3. RoleRows' # {} => \/ Cardinality(RoleRows') >= Cardinality(Types)
                        \/ past'.cut
                        \/ \E j \in Instances : boot'[j].step = "insert_roles"
  BY DEF RolesFit
<1>4. \A j \in Instances : boot'[j].step \in HasRoles => RoleRows' # {}
  BY DEF RolesFit
<1> QED
  BY <1>2, <1>3, <1>4 DEF RolesFit

\* A start acts, without adding a role or touching permissions.
LEMMA StartMoves ==
    ASSUME BootInductive, NEW i \in Instances, NEW b \in Boot,
           boot' = [boot EXCEPT ![i] = b],
           UNCHANGED <<role, permission>>,
           person' \in [People -> Person \cup {Missing}], text' \subseteq Texts,
           ability' \in [Instances -> [Types -> (SUBSET Permissions) \cup {{Missing}}]],
           AbilitiesRight',
           past' \in Past, past'.alone \subseteq {i}, past.cut => past'.cut,
           ~past'.crossed => ~past.crossed /\ boot[i].step # "insert",
           b.step # "insert",
           b.step \in Unseeded \/ boot[i].step \notin Unseeded \/ \E v \in Releases : SeededBy(v),
           b.step \in HasRoles => boot[i].step \in HasRoles \/ RoleRows # {},
           b.step = "insert_roles" => b.todo = Types,
           boot[i].step = "insert_roles" => past'.cut,
           StartFits(i)', i \in past'.alone => Repairs(i)'
    PROVE  BootInductive'
<1>1. BootFits /\ RolesFit /\ OneReleaseRules
  BY DEF BootInductive
<1>2. /\ boot' \in [Instances -> Boot] /\ boot'[i] = b
      /\ \A j \in Instances : j # i => boot'[j] = boot[j]
  BY <1>1 DEF BootFits
<1>3. BootFits'
  <2>1. \A j \in Instances : StartFits(j)'
    <3>1. ASSUME NEW j \in Instances, j # i PROVE StartFits(j)'
      BY <1>1, <1>2, <3>1 DEF BootFits, StartFits
    <3> QED
      BY <3>1
  <2> QED
    BY <1>1, <1>2, <2>1 DEF BootFits
<1>4. RowsAreGranted' /\ SeederIsAlone' /\ OneReleaseRules'
  <2>1. ~past'.crossed => \A j \in Instances :
            boot'[j].step = "insert" <=> boot[j].step = "insert"
    BY <1>2
  <2>2. CASE b.step \in Unseeded \/ \E v \in Releases : SeededBy(v)
    BY <1>2, <2>1, <2>2, PermissionsStand
  <2>3. CASE b.step \notin Unseeded /\ boot[i].step \notin Unseeded
    <3>1. \A j \in Instances : boot[j].step \in Unseeded => boot'[j].step \in Unseeded
      BY <1>2, <2>3
    <3> QED
      BY <2>1, <3>1, PermissionsStand
  <2> QED
    BY <2>2, <2>3
<1>5. RolesFit'
  <2>1. RoleRows' = RoleRows
    BY TablesStand
  <2> QED
    BY <1>1, <1>2, <2>1, RolesStand
<1>6. AloneRepairs'
  BY DEF AloneRepairs
<1> QED
  BY <1>3, <1>4, <1>5, <1>6 DEF BootInductive

-----------------------------------------------------------------------------
(* Bootstrap: the steps of a start *)

\* Typing, taken apart once.
LEMMA StartTyped ==
    ASSUME BootInductive, NEW i \in Instances
    PROVE  /\ boot[i] \in Boot /\ boot[i].step \in BootSteps
           /\ boot[i].release \in Releases \cup {Missing}
           /\ boot[i].todo \in SUBSET (Types \cup Texts)
           /\ boot[i].picked \in RoleIds \cup Texts \cup {Missing}
           /\ StartFits(i)
           /\ role \in [RoleIds -> Role \cup {Missing}]
           /\ person \in [People -> Person \cup {Missing}]
           /\ permission \in [Types \X Permissions -> Nat]
           /\ text \subseteq Texts
           /\ boot \in [Instances -> Boot]
           /\ ability \in [Instances -> [Types -> (SUBSET Permissions) \cup {{Missing}}]]
           /\ past \in Past
           /\ RolesFit /\ AbilitiesRight
           /\ OnlyMe(i) \in Past
           /\ OnlyMe(i).alone = past.alone \cap {i} /\ OnlyMe(i).misread = past.misread
           /\ OnlyMe(i).cut = past.cut /\ OnlyMe(i).crossed = past.crossed
           /\ i \in past.alone => Repairs(i)
<1>1. /\ BootFits /\ RolesFit /\ AbilitiesRight /\ AloneRepairs
  BY DEF BootInductive
<1>2. boot[i] \in Boot /\ past \in Past
  BY <1>1 DEF BootFits
<1>3. /\ boot[i].step \in BootSteps
      /\ boot[i].release \in Releases \cup {Missing}
      /\ boot[i].todo \in SUBSET (Types \cup Texts)
      /\ boot[i].picked \in RoleIds \cup Texts \cup {Missing}
  BY <1>2 DEF Boot
<1> QED
  BY <1>1, <1>2, <1>3, OnlyMeFits DEF BootFits, AloneRepairs

\* A start goes on, with what it had.
LEMMA BootStepGoes ==
    ASSUME BootInductive, NEW i \in Instances, NEW from, NEW to \in BootSteps,
           BootStep(i, from, to)
    PROVE  \E b \in Boot :
              /\ boot' = [boot EXCEPT ![i] = b] /\ boot'[i] = b
              /\ b.step = to /\ b.release = boot[i].release
              /\ b.todo = boot[i].todo /\ b.picked = boot[i].picked
<1>1. boot[i] \in Boot /\ boot \in [Instances -> Boot]
  BY StartTyped
<1>2. PICK b : b = [boot[i] EXCEPT !.step = to]
  OBVIOUS
<1>3. /\ b \in Boot /\ b.step = to /\ b.release = boot[i].release
      /\ b.todo = boot[i].todo /\ b.picked = boot[i].picked
  BY <1>1, <1>2 DEF Boot
<1>4. boot' = [boot EXCEPT ![i] = b]
  BY <1>2 DEF BootStep
<1>5. boot'[i] = b
  BY <1>1, <1>4
<1> QED
  BY <1>3, <1>4, <1>5

LEMMA EmptyFits ==
    /\ \A t \in Types : Empty[t] = {Missing}
    /\ Empty \in [Types -> (SUBSET Permissions) \cup {{Missing}}]
<1>1. \A t \in Types : Empty[t] = {Missing}
  BY DEF Empty
<1>2. {Missing} \in (SUBSET Permissions) \cup {{Missing}}
  OBVIOUS
<1>3. PICK e : e = {Missing}
  OBVIOUS
<1>4. e \in (SUBSET Permissions) \cup {{Missing}} /\ Empty = [t \in Types |-> e]
  BY <1>2, <1>3 DEF Empty
<1> QED
  BY <1>1, <1>4

LEMMA DownIsBoot ==
    ASSUME NEW to \in BootSteps, NEW v \in Releases \cup {Missing}
    PROVE  [step |-> to, release |-> v, todo |-> {}, picked |-> Missing] \in Boot
BY DEF Boot

\* A start is refused, and nothing listens.
LEMMA RefuseGoes ==
    ASSUME BootInductive, NEW i \in Instances, Refuse(i)
    PROVE  \E b \in Boot : /\ boot' = [boot EXCEPT ![i] = b] /\ boot'[i] = b
                           /\ b.step = "refused"
<1>1. PICK b : b = [step |-> "refused", release |-> Missing, todo |-> {}, picked |-> Missing]
  OBVIOUS
<1>2. b \in Boot /\ b.step = "refused"
  BY <1>1, DownIsBoot DEF BootSteps
<1>3. b = [Down EXCEPT !.step = "refused"]
  BY <1>1 DEF Down
<1>4. boot' = [boot EXCEPT ![i] = b] /\ boot'[i] = b
  BY <1>2, <1>3, StartTyped DEF Refuse
<1> QED
  BY <1>2, <1>4

LEMMA RefuseKeeps ==
    ASSUME BootInductive, NEW i \in Instances, Refuse(i), boot[i].step # "insert",
           UNCHANGED <<directory, permission, text, ability>>,
           past' \in Past, past'.alone \subseteq {i}, past'.misread = past.misread,
           past'.crossed = past.crossed, past.cut => past'.cut,
           boot[i].step = "insert_roles" => past'.cut
    PROVE  BootInductive'
<1>1. PICK b \in Boot : /\ boot' = [boot EXCEPT ![i] = b] /\ boot'[i] = b
                        /\ b.step = "refused"
  BY RefuseGoes
<1>2. UNCHANGED <<role, person>>
  BY DEF directory
<1>3. AbilitiesRight'
  BY StartTyped, AbilitiesStand
<1>4. StartFits(i)'
  BY <1>1 DEF StartFits
<1>5. Repairs(i)'
  BY <1>1 DEF Repairs, HasPermissions, HasAdmin, HasAbilities
<1>6. b.step \in Unseeded /\ b.step \notin HasRoles /\ b.step # "insert_roles" /\ b.step # "insert"
  BY <1>1 DEF Unseeded, HasRoles, HasPermissions
<1> QED
  BY <1>1, <1>2, <1>3, <1>4, <1>5, <1>6, StartTyped, StartMoves

\* A new process begins.
LEMMA StartKeeps ==
    ASSUME BootInductive, NEW i \in Instances, NEW v \in Releases, Start(i, v)
    PROVE  BootInductive'
<1>1. PICK b : b = [step |-> "fill", release |-> v, todo |-> {}, picked |-> Missing]
  OBVIOUS
<1>2. b \in Boot /\ b.step = "fill" /\ b.release = v
  BY <1>1, DownIsBoot DEF BootSteps
<1>3. boot' = [boot EXCEPT ![i] = b]
  BY <1>1 DEF Start
<1>4. boot'[i] = b
  BY <1>2, <1>3, StartTyped
<1>5. /\ past' \in Past /\ past'.alone = {i} /\ past'.misread = past.misread \ {i}
      /\ past'.cut = past.cut /\ past'.crossed = past.crossed
  BY StartTyped DEF Start, Past
<1>6. /\ ability' = [ability EXCEPT ![i] = Empty] /\ UNCHANGED <<role, person, permission, text>>
      /\ boot[i].step \in {"down", "refused"}
  BY DEF Start, directory
<1>7. Empty \in [Types -> (SUBSET Permissions) \cup {{Missing}}]
  BY EmptyFits
<1>8. ability' \in [Instances -> [Types -> (SUBSET Permissions) \cup {{Missing}}]]
  BY <1>6, <1>7, StartTyped
<1>9. AbilitiesRight'
  BY <1>5, <1>6, StartTyped, AbilitiesStand
<1>10. StartFits(i)'
  BY <1>2, <1>4 DEF StartFits
<1>11. Repairs(i)'
  BY <1>2, <1>4 DEF Repairs, HasPermissions, HasAdmin, HasAbilities
<1>12. b.step \in Unseeded /\ b.step \notin HasRoles
  BY <1>2 DEF Unseeded, HasRoles, HasPermissions
<1> QED
  BY <1>2, <1>3, <1>4, <1>5, <1>6, <1>8, <1>9, <1>10, <1>11, <1>12, StartTyped, StartMoves

\* A process ends; that it did so among the roles, or between deleting permissions and
\* inserting them, is remembered.
LEMMA StopKeeps ==
    ASSUME BootInductive, NEW i \in Instances, Stop(i)
    PROVE  BootInductive'
<1>1. PICK b : b = [step |-> "down", release |-> Missing, todo |-> {}, picked |-> Missing]
  OBVIOUS
<1>2. b \in Boot /\ b.step = "down" /\ b = Down
  BY <1>1, DownIsBoot DEF BootSteps, Down
<1>3. boot' = [boot EXCEPT ![i] = b] /\ boot'[i] = b
  BY <1>2, StartTyped DEF Stop
<1>4. /\ past'.alone = {} /\ past'.misread = past.misread \ {i}
      /\ past'.cut <=> past.cut \/ boot[i].step = "insert_roles"
      /\ past'.crossed <=> past.crossed \/ boot[i].step = "insert"
  BY DEF Stop
<1>5. past' \in Past
  <2>1. /\ past' = [alone |-> {}, misread |-> past'.misread, cut |-> past'.cut,
                    crossed |-> past'.crossed]
        /\ past'.cut \in BOOLEAN /\ past'.crossed \in BOOLEAN
    BY StartTyped DEF Stop, Past
  <2>2. past'.misread \in SUBSET Instances
    BY <1>4, StartTyped DEF Past
  <2> QED
    BY <2>1, <2>2 DEF Past
<1>6. /\ ability' = [ability EXCEPT ![i] = Empty] /\ UNCHANGED <<role, person, permission, text>>
  BY DEF Stop, directory
<1>7. Empty \in [Types -> (SUBSET Permissions) \cup {{Missing}}]
  BY EmptyFits
<1>8. ability' \in [Instances -> [Types -> (SUBSET Permissions) \cup {{Missing}}]]
  BY <1>6, <1>7, StartTyped
<1>9. AbilitiesRight'
  BY <1>4, <1>6, StartTyped, AbilitiesStand
<1>10. StartFits(i)'
  BY <1>2, <1>3 DEF StartFits
<1>11. b.step \in Unseeded /\ b.step \notin HasRoles
  BY <1>2 DEF Unseeded, HasRoles, HasPermissions
<1> QED
  BY <1>2, <1>3, <1>4, <1>5, <1>6, <1>8, <1>9, <1>10, <1>11, StartTyped, StartMoves

\* The cache is filled from the table: what is read is granted, and what is not stays unknown.
LEMMA FillFits ==
    ASSUME BootInductive, NEW i \in Instances, Fill(i, Empty), UNCHANGED permission,
           past' \in Past,
           \A j \in Instances : j # i /\ j \in past.misread => j \in past'.misread,
           Torn => i \in past'.misread
    PROVE  /\ ability' \in [Instances -> [Types -> (SUBSET Permissions) \cup {{Missing}}]]
           /\ AbilitiesRight'
           /\ \A t \in Types : ability'[i][t] \in {{Missing}, RowsOf(t)'}
<1>1. PICK read \in BOOLEAN : ability' = [ability EXCEPT ![i] =
          [t \in Types |-> IF read /\ RowsOf(t) # {} THEN RowsOf(t) ELSE Empty[t]]]
  BY DEF Fill
<1>2. PICK new : new = [t \in Types |-> IF read /\ RowsOf(t) # {} THEN RowsOf(t) ELSE Empty[t]]
  OBVIOUS
<1>3. \A t \in Types : \/ new[t] = {Missing}
                       \/ new[t] = RowsOf(t) /\ RowsOf(t) # {}
  BY <1>2 DEF Empty
<1>4. new \in [Types -> (SUBSET Permissions) \cup {{Missing}}]
  <2>1. ASSUME NEW t \in Types
        PROVE  (IF read /\ RowsOf(t) # {} THEN RowsOf(t) ELSE Empty[t])
                   \in (SUBSET Permissions) \cup {{Missing}}
    <3>1. Empty[t] \in (SUBSET Permissions) \cup {{Missing}}
      BY EmptyFits
    <3>2. RowsOf(t) \in (SUBSET Permissions) \cup {{Missing}}
      BY WhatIsRead
    <3> QED
      BY <3>1, <3>2
  <2> QED
    BY <1>2, <2>1
<1>5. ability' = [ability EXCEPT ![i] = new]
  BY <1>1, <1>2
<1>6. /\ ability' \in [Instances -> [Types -> (SUBSET Permissions) \cup {{Missing}}]]
      /\ ability'[i] = new /\ \A j \in Instances : j # i => ability'[j] = ability[j]
  BY <1>4, <1>5, StartTyped
<1>7. AbilitiesRight'
  <2> SUFFICES ASSUME NEW j \in Instances, NEW t \in Types, ability'[j][t] # {Missing}
               PROVE  IF j \in past'.misread THEN ability'[j][t] \subseteq UNION GrantedTo(t)
                      ELSE ability'[j][t] \in GrantedTo(t)
    BY AbilitiesMeaningThen
  <2>1. CASE j = i
    <3>1. ability'[j][t] = RowsOf(t) /\ RowsOf(t) # {}
      BY <1>3, <1>6, <2>1
    <3>2. RowsOf(t) \subseteq UNION GrantedTo(t) /\ (~Torn => RowsOf(t) \in GrantedTo(t))
      BY <3>1, WhatIsRead
    <3> QED
      BY <2>1, <3>1, <3>2
  <2>2. CASE j # i
    <3>1. ability'[j][t] = ability[j][t] /\ (j \in past.misread => j \in past'.misread)
      BY <1>6, <2>2
    <3>2. IF j \in past.misread THEN ability[j][t] \subseteq UNION GrantedTo(t)
          ELSE ability[j][t] \in GrantedTo(t)
      BY <3>1, StartTyped, AbilitiesMeaning
    <3> QED
      BY <3>1, <3>2
  <2> QED
    BY <2>1, <2>2
<1>8. \A t \in Types : RowsOf(t)' = RowsOf(t)
  BY TablesStand
<1> QED
  BY <1>3, <1>6, <1>7, <1>8

LEMMA FillFirstKeeps ==
    ASSUME BootInductive, NEW i \in Instances, FillFirst(i)
    PROVE  BootInductive'
<1>1. PICK b \in Boot : /\ boot' = [boot EXCEPT ![i] = b] /\ boot'[i] = b
                        /\ b.step = "roles" /\ b.release = boot[i].release
  BY BootStepGoes DEF FillFirst, BootSteps
<1>2. /\ UNCHANGED <<role, person, permission, text>> /\ boot[i].step = "fill"
      /\ Fill(i, Empty) /\ past' = Reading(i, OnlyMe(i))
  BY DEF FillFirst, BootStep, directory
<1>3. /\ past' \in Past /\ past'.alone = past.alone \cap {i} /\ past'.cut = past.cut
      /\ past'.crossed = past.crossed /\ past.misread \subseteq past'.misread
      /\ Torn => i \in past'.misread
  BY <1>2, StartTyped, ReadingFits
<1>4. /\ ability' \in [Instances -> [Types -> (SUBSET Permissions) \cup {{Missing}}]]
      /\ AbilitiesRight'
  BY <1>2, <1>3, FillFits
<1>5. StartFits(i)'
  BY <1>1, <1>2, StartTyped DEF StartFits
<1>6. Repairs(i)'
  BY <1>1 DEF Repairs, HasPermissions, HasAdmin, HasAbilities
<1>7. b.step \in Unseeded /\ b.step \notin HasRoles
  BY <1>1 DEF Unseeded, HasRoles, HasPermissions
<1> QED
  BY <1>1, <1>2, <1>3, <1>4, <1>5, <1>6, <1>7, StartTyped, StartMoves

LEMMA RefillKeeps ==
    ASSUME BootInductive, NEW i \in Instances, Refill(i)
    PROVE  BootInductive'
<1>1. PICK b : b = [boot[i] EXCEPT !.step = "texts", !.todo = Texts]
  OBVIOUS
<1>2. b \in Boot /\ b.step = "texts" /\ b.release = boot[i].release /\ b.todo = Texts
  <2>1. "texts" \in BootSteps /\ Texts \in SUBSET (Types \cup Texts) /\ boot[i] \in Boot
    BY StartTyped DEF BootSteps
  <2> QED
    BY <1>1, <2>1 DEF Boot
<1>3. boot' = [boot EXCEPT ![i] = b]
  BY <1>1 DEF Refill
<1>4. boot'[i] = b
  BY <1>3, StartTyped
<1>5. /\ UNCHANGED <<role, person, permission, text>> /\ boot[i].step = "refill"
      /\ Fill(i, Empty)
  BY DEF Refill, directory
<1>6. PICK h : h = [OnlyMe(i) EXCEPT !.misread = @ \ {i}]
  OBVIOUS
<1>7. /\ h \in Past /\ h.alone = past.alone \cap {i} /\ h.cut = past.cut
      /\ h.crossed = past.crossed /\ h.misread = past.misread \ {i}
  BY <1>6, StartTyped DEF Past
<1>8. past' = Reading(i, h)
  BY <1>6 DEF Refill
<1>9. /\ past' \in Past /\ past'.alone = past.alone \cap {i} /\ past'.cut = past.cut
      /\ past'.crossed = past.crossed /\ past.misread \ {i} \subseteq past'.misread
      /\ Torn => i \in past'.misread
  BY <1>7, <1>8, ReadingFits
<1>10. /\ ability' \in [Instances -> [Types -> (SUBSET Permissions) \cup {{Missing}}]]
       /\ AbilitiesRight'
       /\ \A t \in Types : ability'[i][t] \in {{Missing}, RowsOf(t)'}
  BY <1>5, <1>9, FillFits
<1>11. StartFits(i)'
  BY <1>2, <1>4, <1>5, StartTyped DEF StartFits
<1>12. ASSUME i \in past'.alone PROVE Repairs(i)'
  <2>1. Repairs(i)
    BY <1>9, <1>12, StartTyped
  <2>2. CountPermissions' = CountPermissions /\ (HasPersonOf(Admin)' <=> HasPersonOf(Admin))
    BY <1>5, TablesStand
  <2> QED
    BY <1>2, <1>4, <1>5, <1>10, <2>1, <2>2
       DEF Repairs, HasPermissions, HasAdmin, HasAbilities
<1>13. b.step \notin Unseeded /\ boot[i].step \notin Unseeded /\ boot[i].step \in HasRoles
  BY <1>2, <1>5 DEF Unseeded, HasRoles, HasPermissions
<1> QED
  BY <1>2, <1>3, <1>5, <1>9, <1>10, <1>11, <1>12, <1>13, StartTyped, StartMoves

\* The sets of steps that the proofs split cases on.
LEMMA StepSets ==
    /\ Unseeded \cap HasPermissions = {} /\ "insert" \notin Unseeded
    /\ HasAbilities \subseteq HasAdmin /\ HasAdmin \subseteq HasPermissions
    /\ HasPermissions \subseteq HasRoles /\ HasRoles \subseteq BootSteps
    /\ Unseeded \subseteq BootSteps
BY DEF Unseeded, HasPermissions, HasAdmin, HasAbilities, HasRoles, BootSteps

LEMMA CheckRolesKeeps ==
    ASSUME BootInductive, NEW i \in Instances, CheckRoles(i)
    PROVE  BootInductive'
<1>1. /\ UNCHANGED <<role, person, permission, text, ability>> /\ boot[i].step = "roles"
      /\ past' = OnlyMe(i)
  BY DEF CheckRoles, BootStep, directory
<1>2. AbilitiesRight'
  BY <1>1, StartTyped, AbilitiesStand
<1>3. CASE BootStep(i, "roles", "count") /\ LiveRoles # {}
  <2>1. PICK b \in Boot : /\ boot' = [boot EXCEPT ![i] = b] /\ boot'[i] = b
                          /\ b.step = "count" /\ b.release = boot[i].release
    BY <1>3, BootStepGoes DEF BootSteps
  <2>2. RoleRows # {}
    BY <1>3 DEF LiveRoles
  <2>3. StartFits(i)'
    BY <1>1, <2>1, StartTyped DEF StartFits
  <2>4. Repairs(i)'
    BY <2>1 DEF Repairs, HasPermissions, HasAdmin, HasAbilities
  <2>5. b.step \in Unseeded
    BY <2>1 DEF Unseeded
  <2> QED
    BY <1>1, <1>2, <2>1, <2>2, <2>3, <2>4, <2>5, StartTyped, StartMoves
<1>4. CASE boot' = [boot EXCEPT ![i] = [@ EXCEPT !.step = "insert_roles", !.todo = Types]]
  <2>1. PICK b : b = [boot[i] EXCEPT !.step = "insert_roles", !.todo = Types]
    OBVIOUS
  <2>2. b \in Boot /\ b.step = "insert_roles" /\ b.release = boot[i].release /\ b.todo = Types
    <3>1. "insert_roles" \in BootSteps /\ Types \in SUBSET (Types \cup Texts) /\ boot[i] \in Boot
      BY StartTyped DEF BootSteps
    <3> QED
      BY <2>1, <3>1 DEF Boot
  <2>3. boot' = [boot EXCEPT ![i] = b]
    BY <1>4, <2>1
  <2>4. boot'[i] = b
    BY <2>3, StartTyped
  <2>5. StartFits(i)'
    BY <1>1, <2>2, <2>4, StartTyped DEF StartFits
  <2>6. Repairs(i)'
    BY <2>2, <2>4 DEF Repairs, HasPermissions, HasAdmin, HasAbilities
  <2>7. b.step \in Unseeded /\ b.step \notin HasRoles
    BY <2>2 DEF Unseeded, HasRoles, HasPermissions
  <2> QED
    BY <1>1, <1>2, <2>2, <2>3, <2>5, <2>6, <2>7, StartTyped, StartMoves
<1> QED
  BY <1>3, <1>4 DEF CheckRoles

\* A role more, or a name that is taken already.
LEMMA InsertRoleKeeps ==
    ASSUME BootInductive, NEW i \in Instances, NEW t \in Types, InsertRole(i, t)
    PROVE  BootInductive'
<1>1. /\ UNCHANGED <<person, permission, text, ability>> /\ boot[i].step = "insert_roles"
      /\ t \in boot[i].todo
  BY DEF InsertRole
<1>2. CASE Refuse(i) /\ past' = [OnlyMe(i) EXCEPT !.cut = TRUE] /\ UNCHANGED role
  <2>1. /\ past' \in Past /\ past'.alone = past.alone \cap {i} /\ past'.misread = past.misread
        /\ past'.cut = TRUE /\ past'.crossed = past.crossed
    BY <1>2, StartTyped DEF Past
  <2> QED
    BY <1>1, <1>2, <2>1, RefuseKeeps DEF directory
<1>3. CASE /\ AddRole(t, t)
           /\ boot' = [boot EXCEPT ![i] = [@ EXCEPT
                  !.step = IF boot[i].todo \ {t} = {} THEN "count" ELSE "insert_roles",
                  !.todo = boot[i].todo \ {t}]]
           /\ past' = OnlyMe(i)
  <2>1. PICK left : left = boot[i].todo \ {t}
    OBVIOUS
  <2>2. PICK to : to = IF left = {} THEN "count" ELSE "insert_roles"
    OBVIOUS
  <2>3. PICK b : b = [boot[i] EXCEPT !.step = to, !.todo = left]
    OBVIOUS
  <2>4. /\ to \in BootSteps /\ left \in SUBSET (Types \cup Texts) /\ boot[i] \in Boot
        /\ to \in {"count", "insert_roles"} /\ (to = "count" => left = {})
    BY <1>1, <2>1, <2>2, StartTyped DEF BootSteps
  <2>5. b \in Boot /\ b.step = to /\ b.release = boot[i].release /\ b.todo = left
    BY <2>3, <2>4 DEF Boot
  <2>6. boot' = [boot EXCEPT ![i] = b]
    BY <1>3, <2>1, <2>2, <2>3
  <2>7. /\ boot' \in [Instances -> Boot] /\ boot'[i] = b
        /\ \A j \in Instances : j # i => boot'[j] = boot[j]
    BY <2>5, <2>6, StartTyped
  <2>8. /\ role' \in [RoleIds -> Role \cup {Missing}]
        /\ IsFiniteSet(RoleRows') /\ RoleRows' # {}
        /\ Cardinality(RoleRows) \in Nat
        /\ Cardinality(RoleRows') = Cardinality(RoleRows) + 1
    BY <1>3, StartTyped, BootstrapAssumption, RoleIsAdded DEF RolesFit
  <2>9. \A j \in Instances : StartFits(j)'
    <3>1. ASSUME NEW j \in Instances, j # i PROVE StartFits(j)'
      BY <2>7, <3>1, StartTyped DEF StartFits
    <3>2. boot[i].todo \subseteq Types
      BY <1>1, StartTyped DEF StartFits
    <3>3. StartFits(i)'
      BY <1>1, <2>1, <2>4, <2>5, <2>7, <3>2, StartTyped DEF StartFits
    <3> QED
      BY <3>1, <3>3
  <2>10. BootFits'
    BY <1>1, <1>3, <2>7, <2>8, <2>9, StartTyped DEF BootFits
  <2>11. to \in Unseeded
    BY <2>4 DEF Unseeded
  <2>12. RowsAreGranted' /\ SeederIsAlone' /\ OneReleaseRules'
    <3>1. \A j \in Instances : boot'[j].step = "insert" <=> boot[j].step = "insert"
      BY <1>1, <2>4, <2>5, <2>7
    <3>2. \A j \in Instances : boot[j].step \in Unseeded => boot'[j].step \in Unseeded
      BY <2>5, <2>7, <2>11
    <3>3. past'.crossed = past.crossed
      BY <1>3, StartTyped
    <3> QED
      BY <1>1, <3>1, <3>2, <3>3, PermissionsStand
  <2>13. AbilitiesRight'
    BY <1>1, <1>3, StartTyped, AbilitiesStand
  <2>14. /\ IsFiniteSet(boot[i].todo) /\ IsFiniteSet(left)
         /\ Cardinality(boot[i].todo) = Cardinality(left) + 1
         /\ Cardinality(left) \in Nat /\ Cardinality(boot[i].todo) \in Nat
         /\ Cardinality(Types) \in Nat
    <3>1. boot[i].todo \subseteq Types /\ IsFiniteSet(Types)
      BY <1>1, StartTyped, BootstrapAssumption DEF StartFits
    <3>2. IsFiniteSet(boot[i].todo)
      BY <3>1, FS_Subset
    <3>3. IsFiniteSet(left) /\ Cardinality(left) = Cardinality(boot[i].todo) - 1
      BY <1>1, <2>1, <3>2, FS_RemoveElement
    <3>4. /\ Cardinality(left) \in Nat /\ Cardinality(boot[i].todo) \in Nat
          /\ Cardinality(Types) \in Nat
      BY <3>1, <3>2, <3>3, FS_CardinalityType
    <3> QED
      BY <3>2, <3>3, <3>4
  <2>15. Cardinality(RoleRows) + Cardinality(boot[i].todo) >= Cardinality(Types)
    BY <1>1, StartTyped DEF RolesFit
  <2>16. Cardinality(RoleRows') + Cardinality(left) >= Cardinality(Types)
    BY <2>8, <2>14, <2>15
  <2>17. RolesFit'
    <3>1. ASSUME NEW j \in Instances, boot'[j].step = "insert_roles"
          PROVE  Cardinality(RoleRows') + Cardinality(boot'[j].todo) >= Cardinality(Types)
      <4>1. CASE j = i
        BY <2>5, <2>7, <2>16, <4>1
      <4>2. CASE j # i
        <5>1. boot[j].step = "insert_roles" /\ boot'[j].todo = boot[j].todo
          BY <2>7, <3>1, <4>2
        <5>2. Cardinality(RoleRows) + Cardinality(boot[j].todo) >= Cardinality(Types)
          BY <5>1, StartTyped DEF RolesFit
        <5>3. Cardinality(boot[j].todo) \in Nat
          <6>1. boot[j].todo \subseteq Types /\ IsFiniteSet(Types)
            BY <5>1, StartTyped, BootstrapAssumption DEF StartFits
          <6> QED
            BY <6>1, FS_Subset, FS_CardinalityType
        <5> QED
          BY <2>8, <2>14, <5>1, <5>2, <5>3
      <4> QED
        BY <4>1, <4>2
    <3>2. \/ Cardinality(RoleRows') >= Cardinality(Types)
          \/ \E j \in Instances : boot'[j].step = "insert_roles"
      <4>1. CASE to = "insert_roles"
        BY <2>5, <2>7, <4>1
      <4>2. CASE to = "count"
        <5>1. Cardinality(left) = 0
          BY <2>4, <4>2, FS_EmptySet
        <5> QED
          BY <2>8, <2>14, <2>16, <5>1
      <4> QED
        BY <2>4, <4>1, <4>2
    <3> QED
      BY <2>8, <3>1, <3>2 DEF RolesFit
  <2>18. AloneRepairs'
    <3>1. past'.alone \subseteq {i}
      BY <1>3, StartTyped
    <3>2. Repairs(i)'
      BY <2>4, <2>5, <2>7 DEF Repairs, HasPermissions, HasAdmin, HasAbilities
    <3> QED
      BY <3>1, <3>2 DEF AloneRepairs
  <2> QED
    BY <2>10, <2>12, <2>13, <2>17, <2>18 DEF BootInductive
<1> QED
  BY <1>2, <1>3 DEF InsertRole

\* A start that counts as many permissions as its release has skips their seeding: the table
\* may be another's all the same, but it is not empty, or the release grants nothing.
LEMMA CheckPermissionsKeeps ==
    ASSUME BootInductive, NEW i \in Instances, CheckPermissions(i)
    PROVE  BootInductive'
<1>1. /\ UNCHANGED <<role, person, permission, text, ability>> /\ boot[i].step = "count"
      /\ past' = OnlyMe(i)
  BY DEF CheckPermissions, BootStep, directory
<1>2. AbilitiesRight'
  BY <1>1, StartTyped, AbilitiesStand
<1>3. CASE BootStep(i, "count", "delete")
  <2>1. PICK b \in Boot : /\ boot' = [boot EXCEPT ![i] = b] /\ boot'[i] = b
                          /\ b.step = "delete" /\ b.release = boot[i].release
    BY <1>3, BootStepGoes DEF BootSteps
  <2>2. StartFits(i)'
    BY <1>1, <2>1, StartTyped DEF StartFits
  <2>3. Repairs(i)'
    BY <2>1 DEF Repairs, HasPermissions, HasAdmin, HasAbilities
  <2>4. b.step \in Unseeded /\ boot[i].step \in HasRoles
    BY <1>1, <2>1 DEF Unseeded, HasRoles
  <2> QED
    BY <1>1, <1>2, <2>1, <2>2, <2>3, <2>4, StartTyped, StartMoves
<1>4. CASE BootStep(i, "count", "admin") /\ ~NeedsPermissions(boot[i].release)
  <2>1. PICK b \in Boot : /\ boot' = [boot EXCEPT ![i] = b] /\ boot'[i] = b
                          /\ b.step = "admin" /\ b.release = boot[i].release
    BY <1>4, BootStepGoes DEF BootSteps
  <2>2. boot[i].release \in Releases
    BY <1>1, StartTyped DEF StartFits
  <2>3. StartFits(i)'
    BY <1>1, <2>1, <2>2 DEF StartFits
  <2>4. CountPermissions = Cardinality(PermissionsOf[boot[i].release])
    BY <1>4 DEF NeedsPermissions
  <2>5. Repairs(i)'
    <3>1. CountPermissions' = CountPermissions
      BY <1>1, TablesStand
    <3> QED
      BY <2>1, <2>4, <3>1 DEF Repairs, HasPermissions, HasAdmin, HasAbilities
  <2>6. boot[i].step \in HasRoles /\ b.step # "insert_roles"
    BY <1>1, <2>1 DEF HasRoles
  <2>7. NoRows => SeededBy(boot[i].release)
    <3> SUFFICES ASSUME NoRows PROVE SeededBy(boot[i].release)
      OBVIOUS
    <3>1. Cardinality(PermissionsOf[boot[i].release]) = 0
      BY <2>4, RowsAreCounted
    <3>2. IsFiniteSet(PermissionsOf[boot[i].release])
      <4>1. IsFiniteSet(Types \X Permissions)
        BY BootstrapAssumption, FS_Product
      <4>2. PermissionsOf[boot[i].release] \subseteq Types \X Permissions
        BY <2>2, BootstrapAssumption
      <4> QED
        BY <4>1, <4>2, FS_Subset
    <3>3. PermissionsOf[boot[i].release] = {}
      BY <3>1, <3>2, FS_EmptySet
    <3> QED
      BY <3>3 DEF SeededBy, NoRows
  <2>8. \/ \E v \in Releases : SeededBy(v)
        \/ Torn
    BY <2>2, <2>7 DEF BootInductive, OneReleaseRules
  <2>9. CASE \E v \in Releases : SeededBy(v)
    BY <1>1, <1>2, <2>1, <2>3, <2>5, <2>6, <2>9, StartTyped, StartMoves
  <2>10. CASE Torn
    <3>1. /\ \A j \in Instances : j # i => boot'[j] = boot[j]
          /\ boot' \in [Instances -> Boot]
      BY <2>1, StartTyped
    <3>2. past' \in Past /\ past'.crossed = past.crossed /\ past'.alone \subseteq {i}
          /\ past'.cut = past.cut
      BY <1>1, StartTyped
    <3>3. BootFits'
      <4>1. \A j \in Instances : StartFits(j)'
        <5>1. ASSUME NEW j \in Instances, j # i PROVE StartFits(j)'
          BY <3>1, <5>1, StartTyped DEF StartFits
        <5> QED
          BY <2>3, <5>1
      <4> QED
        BY <1>1, <3>1, <3>2, <4>1, StartTyped DEF BootFits
    <3>4. \A j \in Instances : boot'[j].step = "insert" <=> boot[j].step = "insert"
      BY <1>1, <2>1, <3>1
    <3>5. NoRows' <=> NoRows
      BY <1>1, TablesStand
    <3>6. RowsAreGranted' /\ SeederIsAlone'
      BY <1>1, <3>2, <3>4, <3>5 DEF BootInductive, RowsAreGranted, SeederIsAlone
    <3>7. OneReleaseRules'
      BY <2>10, <3>2, <3>4 DEF OneReleaseRules, Torn
    <3>8. RolesFit'
      <4>1. RoleRows' = RoleRows
        BY <1>1, TablesStand
      <4> QED
        BY <1>1, <2>1, <2>6, <3>1, <3>2, <4>1, StartTyped, RolesStand
    <3>9. AloneRepairs'
      BY <2>5, <3>2 DEF AloneRepairs
    <3> QED
      BY <1>2, <3>3, <3>6, <3>7, <3>8, <3>9 DEF BootInductive
  <2> QED
    BY <2>8, <2>9, <2>10
<1> QED
  BY <1>3, <1>4 DEF CheckPermissions

\* Deleting all permissions begins to seed them.
LEMMA DeletePermissionsKeeps ==
    ASSUME BootInductive, NEW i \in Instances, DeletePermissions(i)
    PROVE  BootInductive'
<1>1. PICK b \in Boot : /\ boot' = [boot EXCEPT ![i] = b] /\ boot'[i] = b
                        /\ b.step = "insert" /\ b.release = boot[i].release
  BY BootStepGoes DEF DeletePermissions, BootSteps
<1>2. /\ UNCHANGED <<role, person, text, ability>> /\ boot[i].step = "delete"
      /\ permission' = [g \in Types \X Permissions |-> 0]
      /\ past' = [OnlyMe(i) EXCEPT !.crossed = \E j \in Instances : boot[j].step = "insert"]
  BY DEF DeletePermissions, DeleteAllPermissions, BootStep, directory
<1>3. /\ past' \in Past /\ past'.alone = past.alone \cap {i} /\ past'.misread = past.misread
      /\ past'.cut = past.cut
      /\ past'.crossed <=> \E j \in Instances : boot[j].step = "insert"
  BY <1>2, StartTyped DEF Past
<1>4. /\ boot' \in [Instances -> Boot]
      /\ \A j \in Instances : j # i => boot'[j] = boot[j]
  BY <1>1, StartTyped
<1>5. NoRows' /\ permission' \in [Types \X Permissions -> Nat]
  BY <1>2 DEF NoRows
<1>6. BootFits'
  <2>1. \A j \in Instances : StartFits(j)'
    <3>1. ASSUME NEW j \in Instances, j # i PROVE StartFits(j)'
      BY <1>4, <3>1, StartTyped DEF StartFits
    <3>2. StartFits(i)'
      BY <1>1, <1>2, StartTyped DEF StartFits
    <3> QED
      BY <3>1, <3>2
  <2> QED
    BY <1>2, <1>3, <1>4, <1>5, <2>1, StartTyped DEF BootFits
<1>7. RowsAreGranted'
  BY <1>5 DEF RowsAreGranted, NoRows
<1>8. SeederIsAlone'
  BY <1>1, <1>3, <1>4, <1>5 DEF SeederIsAlone
<1>9. OneReleaseRules'
  BY <1>1 DEF OneReleaseRules, Torn
<1>10. AbilitiesRight'
  BY <1>2, <1>3, StartTyped, AbilitiesStand
<1>11. RolesFit'
  <2>1. RoleRows' = RoleRows
    BY <1>2, TablesStand
  <2>2. boot[i].step \in HasRoles
    BY <1>2 DEF HasRoles
  <2> QED
    BY <1>1, <1>2, <1>3, <1>4, <2>1, <2>2, StartTyped, RolesStand
<1>12. AloneRepairs'
  <2>1. Repairs(i)'
    BY <1>1, <1>5 DEF Repairs, HasPermissions, HasAdmin, HasAbilities
  <2> QED
    BY <1>3, <2>1 DEF AloneRepairs
<1> QED
  BY <1>6, <1>7, <1>8, <1>9, <1>10, <1>11, <1>12 DEF BootInductive

\* Inserting them ends it.  Whoever seeded alone finds the table empty, and leaves in it what
\* its release grants.
LEMMA InsertPermissionsKeeps ==
    ASSUME BootInductive, NEW i \in Instances, InsertPermissions(i)
    PROVE  BootInductive'
<1>1. PICK b \in Boot : /\ boot' = [boot EXCEPT ![i] = b] /\ boot'[i] = b
                        /\ b.step = "admin" /\ b.release = boot[i].release
  BY BootStepGoes DEF InsertPermissions, BootSteps
<1>2. PICK rows : rows = PermissionsOf[boot[i].release]
  OBVIOUS
<1>3. /\ UNCHANGED <<role, person, text, ability>> /\ boot[i].step = "insert"
      /\ permission' = [g \in Types \X Permissions |->
                           permission[g] + IF g \in rows THEN 1 ELSE 0]
      /\ past' = OnlyMe(i)
  BY <1>2 DEF InsertPermissions, CreatePermissions, BootStep, directory
<1>4. boot[i].release \in Releases /\ rows \in SUBSET (Types \X Permissions)
  BY <1>2, <1>3, StartTyped, BootstrapAssumption DEF StartFits
<1>5. /\ past' \in Past /\ past'.alone = past.alone \cap {i} /\ past'.misread = past.misread
      /\ past'.cut = past.cut /\ past'.crossed = past.crossed
  BY <1>3, StartTyped
<1>6. /\ boot' \in [Instances -> Boot]
      /\ \A j \in Instances : j # i => boot'[j] = boot[j]
  BY <1>1, StartTyped
<1>7. \A g \in Types \X Permissions :
         /\ permission[g] \in Nat /\ permission'[g] \in Nat
         /\ permission'[g] > 0 <=> permission[g] > 0 \/ g \in rows
         /\ permission[g] = 0 => permission'[g] = IF g \in rows THEN 1 ELSE 0
  BY <1>3, StartTyped
<1>8. permission' \in [Types \X Permissions -> Nat]
  BY <1>3, <1>7
<1>9. BootFits'
  <2>1. \A j \in Instances : StartFits(j)'
    <3>1. ASSUME NEW j \in Instances, j # i PROVE StartFits(j)'
      BY <1>6, <3>1, StartTyped DEF StartFits
    <3>2. StartFits(i)'
      BY <1>1, <1>4 DEF StartFits
    <3> QED
      BY <3>1, <3>2
  <2> QED
    BY <1>3, <1>5, <1>6, <1>8, <2>1, StartTyped DEF BootFits
<1>10. RowsAreGranted'
  <2>1. RowsAreGranted
    BY DEF BootInductive
  <2> QED
    BY <1>2, <1>4, <1>7, <2>1 DEF RowsAreGranted
<1>11. ~past.crossed => /\ NoRows
                        /\ \A j \in Instances : boot[j].step = "insert" => i = j
  BY <1>3 DEF BootInductive, SeederIsAlone
<1>12. SeederIsAlone'
  BY <1>1, <1>5, <1>6, <1>11 DEF SeederIsAlone
<1>13. PICK v \in Releases : v = boot[i].release
  BY <1>4
<1>14. OneReleaseRules'
  <2>1. NoRows => SeededBy(v)'
    BY <1>2, <1>7, <1>13 DEF NoRows, SeededBy
  <2>2. ~Torn' => NoRows
    BY <1>5, <1>11 DEF Torn
  <2> QED
    BY <2>1, <2>2 DEF OneReleaseRules
<1>15. AbilitiesRight'
  BY <1>3, <1>5, StartTyped, AbilitiesStand
<1>16. RolesFit'
  <2>1. RoleRows' = RoleRows
    BY <1>3, TablesStand
  <2>2. boot[i].step \in HasRoles
    BY <1>3 DEF HasRoles
  <2> QED
    BY <1>1, <1>3, <1>5, <1>6, <2>1, <2>2, StartTyped, RolesStand
<1>17. ASSUME i \in past'.alone PROVE Repairs(i)'
  <2>1. NoRows
    BY <1>3, <1>5, <1>17, StartTyped DEF Repairs
  <2>2. \A g \in Types \X Permissions : permission'[g] = IF g \in rows THEN 1 ELSE 0
    BY <1>7, <2>1 DEF NoRows
  <2>3. CountPermissions' = Cardinality(rows)
    BY <1>4, <2>2, RowsAreCountedThen
  <2> QED
    BY <1>1, <1>2, <2>3 DEF Repairs, HasPermissions, HasAdmin, HasAbilities
<1>18. AloneRepairs'
  BY <1>5, <1>17 DEF AloneRepairs
<1> QED
  BY <1>9, <1>10, <1>12, <1>14, <1>15, <1>16, <1>18 DEF BootInductive

\* There is somebody of the administrators' type, or the role to create him with is found.
LEMMA CheckAdminKeeps ==
    ASSUME BootInductive, NEW i \in Instances, CheckAdmin(i)
    PROVE  BootInductive'
<1>1. /\ UNCHANGED <<role, person, permission, text, ability>> /\ boot[i].step = "admin"
      /\ past' = OnlyMe(i)
  BY DEF CheckAdmin, BootStep, directory
<1>2. AbilitiesRight'
  BY <1>1, StartTyped, AbilitiesStand
<1>3. boot[i].step \in HasRoles /\ boot[i].step \notin Unseeded
  BY <1>1 DEF HasRoles, HasPermissions, Unseeded
<1>4. /\ CountPermissions' = CountPermissions /\ (HasPersonOf(Admin)' <=> HasPersonOf(Admin))
      /\ FindByType(Admin)' = FindByType(Admin)
  BY <1>1, TablesStand
<1>5. i \in past'.alone => CountPermissions = Cardinality(PermissionsOf[boot[i].release])
  BY <1>1, StartTyped DEF Repairs, HasPermissions
<1>6. CASE BootStep(i, "admin", "refill") /\ HasPersonOf(Admin)
  <2>1. PICK b \in Boot : /\ boot' = [boot EXCEPT ![i] = b] /\ boot'[i] = b
                          /\ b.step = "refill" /\ b.release = boot[i].release
    BY <1>6, BootStepGoes DEF BootSteps
  <2>2. StartFits(i)'
    BY <1>1, <2>1, StartTyped DEF StartFits
  <2>3. i \in past'.alone => Repairs(i)'
    BY <1>4, <1>5, <1>6, <2>1 DEF Repairs, HasPermissions, HasAdmin, HasAbilities
  <2> QED
    BY <1>1, <1>2, <1>3, <2>1, <2>2, <2>3, StartTyped, StartMoves
<1>7. ASSUME NEW r \in FindByType(Admin),
             boot' = [boot EXCEPT ![i] = [@ EXCEPT !.step = "create_admin", !.picked = r]]
      PROVE  BootInductive'
  <2>1. r \in RoleIds
    BY DEF FindByType, LiveRoles, RoleRows
  <2>2. PICK b : b = [boot[i] EXCEPT !.step = "create_admin", !.picked = r]
    OBVIOUS
  <2>3. /\ b \in Boot /\ b.step = "create_admin" /\ b.release = boot[i].release
        /\ b.picked = r
    <3>1. "create_admin" \in BootSteps /\ boot[i] \in Boot
      BY StartTyped DEF BootSteps
    <3> QED
      BY <2>1, <2>2, <3>1 DEF Boot
  <2>4. boot' = [boot EXCEPT ![i] = b]
    BY <1>7, <2>2
  <2>5. boot'[i] = b
    BY <2>3, <2>4, StartTyped
  <2>6. StartFits(i)'
    BY <1>1, <2>1, <2>3, <2>5, StartTyped DEF StartFits
  <2>7. i \in past'.alone => Repairs(i)'
    BY <1>4, <1>5, <2>3, <2>5 DEF Repairs, HasPermissions, HasAdmin, HasAbilities
  <2> QED
    BY <1>1, <1>2, <1>3, <2>3, <2>4, <2>6, <2>7, StartTyped, StartMoves
<1>8. CASE Refuse(i)
  BY <1>1, <1>8, StartTyped, RefuseKeeps DEF directory
<1> QED
  BY <1>6, <1>7, <1>8 DEF CheckAdmin

LEMMA CreateAdminKeeps ==
    ASSUME BootInductive, NEW i \in Instances, CreateAdmin(i)
    PROVE  BootInductive'
<1>1. /\ UNCHANGED <<role, permission, text, ability>> /\ boot[i].step = "create_admin"
      /\ past' = OnlyMe(i)
  BY DEF CreateAdmin
<1>2. AbilitiesRight'
  BY <1>1, StartTyped, AbilitiesStand
<1>3. CASE /\ AddPerson(AdminEmail, boot[i].picked)
           /\ boot' = [boot EXCEPT ![i] = [@ EXCEPT !.step = "refill", !.picked = Missing]]
  <2>1. PICK b : b = [boot[i] EXCEPT !.step = "refill", !.picked = Missing]
    OBVIOUS
  <2>2. b \in Boot /\ b.step = "refill" /\ b.release = boot[i].release
    <3>1. "refill" \in BootSteps /\ boot[i] \in Boot
      BY StartTyped DEF BootSteps
    <3> QED
      BY <2>1, <3>1 DEF Boot
  <2>3. boot' = [boot EXCEPT ![i] = b]
    BY <1>3, <2>1
  <2>4. boot'[i] = b
    BY <2>2, <2>3, StartTyped
  <2>5. PICK r \in RoleIds : r = boot[i].picked
    BY <1>1, StartTyped DEF StartFits
  <2>6. /\ person' \in [People -> Person \cup {Missing}]
        /\ role[r].type = Admin => HasPersonOf(Admin)'
    <3>1. AddPerson(AdminEmail, r)
      BY <1>3, <2>5
    <3>2. AdminEmail \in Emails
      BY BootstrapAssumption
    <3> QED
      BY <1>1, <3>1, <3>2, StartTyped, PersonIsAdded
  <2>7. StartFits(i)'
    BY <1>1, <2>2, <2>4, StartTyped DEF StartFits
  <2>8. ASSUME i \in past'.alone PROVE Repairs(i)'
    <3>1. Repairs(i)
      BY <1>1, <2>8, StartTyped
    <3>2. role[r].type = Admin
      BY <1>1, <2>5, <3>1 DEF Repairs, FindByType
    <3>3. CountPermissions' = CountPermissions
      BY <1>1, TablesStand
    <3>4. CountPermissions = Cardinality(PermissionsOf[boot[i].release])
      BY <1>1, <3>1 DEF Repairs, HasPermissions
    <3> QED
      BY <2>2, <2>4, <2>6, <3>2, <3>3, <3>4 DEF Repairs, HasPermissions, HasAdmin, HasAbilities
  <2>9. boot[i].step \in HasRoles /\ boot[i].step \notin Unseeded
    BY <1>1 DEF HasRoles, HasPermissions, Unseeded
  <2> QED
    BY <1>1, <1>2, <2>2, <2>3, <2>6, <2>7, <2>8, <2>9, StartTyped, StartMoves
<1>4. CASE Refuse(i) /\ UNCHANGED person
  BY <1>1, <1>4, StartTyped, RefuseKeeps DEF directory
<1> QED
  BY <1>3, <1>4 DEF CreateAdmin

\* The templates that are not left to look for are there.
LEMMA CheckTextKeeps ==
    ASSUME BootInductive, NEW i \in Instances, NEW x \in Texts, CheckText(i, x)
    PROVE  BootInductive'
<1>1. /\ UNCHANGED <<role, person, permission, text, ability>> /\ boot[i].step = "texts"
      /\ x \in boot[i].todo /\ past' = OnlyMe(i)
  BY DEF CheckText, directory
<1>2. PICK left : left = boot[i].todo \ {x}
  OBVIOUS
<1>3. PICK to : to = IF x \in text THEN "texts" ELSE "insert_text"
  OBVIOUS
<1>4. PICK k : k = IF x \in text THEN Missing ELSE x
  OBVIOUS
<1>5. PICK b : b = [boot[i] EXCEPT !.todo = left, !.step = to, !.picked = k]
  OBVIOUS
<1>6. /\ b \in Boot /\ b.step = to /\ b.release = boot[i].release /\ b.todo = left
      /\ b.picked = k
  <2>1. /\ to \in BootSteps /\ left \in SUBSET (Types \cup Texts)
        /\ k \in RoleIds \cup Texts \cup {Missing} /\ boot[i] \in Boot
    BY <1>2, <1>3, <1>4, StartTyped DEF BootSteps
  <2> QED
    BY <1>5, <2>1 DEF Boot
<1>7. boot' = [boot EXCEPT ![i] = b]
  BY <1>2, <1>3, <1>4, <1>5 DEF CheckText
<1>8. boot'[i] = b
  BY <1>6, <1>7, StartTyped
<1>9. to \in {"texts", "insert_text"}
  BY <1>3
<1>10. boot[i].todo \subseteq Texts /\ boot[i].release \in Releases
  BY <1>1, StartTyped DEF StartFits
<1>11. StartFits(i)'
  BY <1>2, <1>3, <1>4, <1>6, <1>8, <1>9, <1>10 DEF StartFits
<1>12. ASSUME i \in past'.alone PROVE Repairs(i)'
  <2>1. Repairs(i)
    BY <1>1, <1>12, StartTyped
  <2>2. /\ CountPermissions = Cardinality(PermissionsOf[boot[i].release])
        /\ HasPersonOf(Admin) /\ Texts \ boot[i].todo \subseteq text
        /\ \A t \in Types : ability[i][t] \in {{Missing}, RowsOf(t)}
    BY <1>1, <2>1 DEF Repairs, HasPermissions, HasAdmin, HasAbilities
  <2>3. /\ CountPermissions' = CountPermissions
        /\ HasPersonOf(Admin)' <=> HasPersonOf(Admin)
        /\ \A t \in Types : RowsOf(t)' = RowsOf(t)
    BY <1>1, TablesStand
  <2>4. to = "texts" => Texts \ left \subseteq text
    BY <1>2, <1>3, <2>2
  <2>5. to = "insert_text" => Texts \ (left \cup {k}) \subseteq text
    BY <1>2, <1>3, <1>4, <2>2
  <2> QED
    BY <1>1, <1>6, <1>8, <1>9, <2>2, <2>3, <2>4, <2>5
       DEF Repairs, HasPermissions, HasAdmin, HasAbilities
<1>13. AbilitiesRight'
  BY <1>1, StartTyped, AbilitiesStand
<1>14. /\ boot[i].step \in HasRoles /\ boot[i].step \notin Unseeded
       /\ b.step # "insert" /\ b.step # "insert_roles"
  BY <1>1, <1>6, <1>9 DEF HasRoles, HasPermissions, Unseeded
<1> QED
  BY <1>1, <1>6, <1>7, <1>11, <1>12, <1>13, <1>14, StartTyped, StartMoves

LEMMA InsertTextKeeps ==
    ASSUME BootInductive, NEW i \in Instances, InsertText(i)
    PROVE  BootInductive'
<1>1. /\ UNCHANGED <<role, person, permission, ability>> /\ boot[i].step = "insert_text"
      /\ past' = OnlyMe(i)
  BY DEF InsertText, directory
<1>2. PICK x : x = boot[i].picked
  OBVIOUS
<1>3. x \in Texts
  BY <1>1, <1>2, StartTyped DEF StartFits
<1>4. AbilitiesRight'
  BY <1>1, StartTyped, AbilitiesStand
<1>5. CASE x \in text
  <2>1. Refuse(i) /\ UNCHANGED text
    BY <1>2, <1>5 DEF InsertText
  <2> QED
    BY <1>1, <2>1, StartTyped, RefuseKeeps DEF directory
<1>6. CASE x \notin text
  <2>1. /\ text' = text \cup {x}
        /\ boot' = [boot EXCEPT ![i] = [@ EXCEPT !.step = "texts", !.picked = Missing]]
    BY <1>2, <1>6 DEF InsertText
  <2>2. PICK b : b = [boot[i] EXCEPT !.step = "texts", !.picked = Missing]
    OBVIOUS
  <2>3. /\ b \in Boot /\ b.step = "texts" /\ b.release = boot[i].release
        /\ b.todo = boot[i].todo
    <3>1. "texts" \in BootSteps /\ boot[i] \in Boot
      BY StartTyped DEF BootSteps
    <3> QED
      BY <2>2, <3>1 DEF Boot
  <2>4. boot' = [boot EXCEPT ![i] = b]
    BY <2>1, <2>2
  <2>5. boot'[i] = b
    BY <2>3, <2>4, StartTyped
  <2>6. text' \subseteq Texts
    BY <1>3, <2>1, StartTyped
  <2>7. StartFits(i)'
    BY <1>1, <2>3, <2>5, StartTyped DEF StartFits
  <2>8. ASSUME i \in past'.alone PROVE Repairs(i)'
    <3>1. Repairs(i)
      BY <1>1, <2>8, StartTyped
    <3>2. /\ CountPermissions = Cardinality(PermissionsOf[boot[i].release])
          /\ HasPersonOf(Admin) /\ Texts \ (boot[i].todo \cup {x}) \subseteq text
          /\ \A t \in Types : ability[i][t] \in {{Missing}, RowsOf(t)}
      BY <1>1, <1>2, <3>1 DEF Repairs, HasPermissions, HasAdmin, HasAbilities
    <3>3. /\ CountPermissions' = CountPermissions
          /\ HasPersonOf(Admin)' <=> HasPersonOf(Admin)
          /\ \A t \in Types : RowsOf(t)' = RowsOf(t)
      BY <1>1, TablesStand
    <3>4. Texts \ b.todo \subseteq text'
      BY <2>1, <2>3, <3>2
    <3> QED
      BY <1>1, <2>3, <2>5, <3>2, <3>3, <3>4
         DEF Repairs, HasPermissions, HasAdmin, HasAbilities
  <2>9. boot[i].step \in HasRoles /\ boot[i].step \notin Unseeded
    BY <1>1 DEF HasRoles, HasPermissions, Unseeded
  <2> QED
    BY <1>1, <1>4, <2>3, <2>4, <2>6, <2>7, <2>8, <2>9, StartTyped, StartMoves
<1> QED
  BY <1>5, <1>6

LEMMA ListenKeeps ==
    ASSUME BootInductive, NEW i \in Instances, Listen(i)
    PROVE  BootInductive'
<1>1. /\ UNCHANGED <<role, person, permission, text, ability>> /\ boot[i].step = "texts"
      /\ boot[i].todo = {} /\ past' = OnlyMe(i) /\ BootStep(i, "texts", "listening")
  BY DEF Listen, BootStep, directory
<1>2. PICK b \in Boot : /\ boot' = [boot EXCEPT ![i] = b] /\ boot'[i] = b
                        /\ b.step = "listening" /\ b.release = boot[i].release
  BY <1>1, BootStepGoes DEF BootSteps
<1>3. StartFits(i)'
  BY <1>1, <1>2, StartTyped DEF StartFits
<1>4. ASSUME i \in past'.alone PROVE Repairs(i)'
  <2>1. Repairs(i)
    BY <1>1, <1>4, StartTyped
  <2>2. /\ CountPermissions = Cardinality(PermissionsOf[boot[i].release])
        /\ HasPersonOf(Admin) /\ text = Texts
        /\ \A t \in Types : ability[i][t] \in {{Missing}, RowsOf(t)}
    BY <1>1, <2>1, StartTyped DEF Repairs, HasPermissions, HasAdmin, HasAbilities
  <2>3. /\ CountPermissions' = CountPermissions
        /\ HasPersonOf(Admin)' <=> HasPersonOf(Admin)
        /\ \A t \in Types : RowsOf(t)' = RowsOf(t)
    BY <1>1, TablesStand
  <2> QED
    BY <1>1, <1>2, <2>2, <2>3 DEF Repairs, HasPermissions, HasAdmin, HasAbilities
<1>5. AbilitiesRight'
  BY <1>1, StartTyped, AbilitiesStand
<1>6. boot[i].step \in HasRoles /\ boot[i].step \notin Unseeded
  BY <1>1 DEF HasRoles, HasPermissions, Unseeded
<1> QED
  BY <1>1, <1>2, <1>3, <1>4, <1>5, <1>6, StartTyped, StartMoves

-----------------------------------------------------------------------------
(* Bootstrap: the guard, and administrators *)

\* The guard asks for an ability its instance does not know.
LEMMA RefreshAbilityKeeps ==
    ASSUME BootInductive, NEW i \in Instances, NEW t \in Types, RefreshAbility(i, t)
    PROVE  BootInductive'
<1>1. /\ UNCHANGED <<role, person, permission, text, boot>> /\ boot[i].step = "listening"
      /\ ability' = [ability EXCEPT ![i][t] = RowsOf(t)] /\ past' = Reading(i, past)
  BY DEF RefreshAbility, directory
<1>2. /\ past' \in Past /\ past'.alone = past.alone /\ past'.cut = past.cut
      /\ past'.crossed = past.crossed /\ past.misread \subseteq past'.misread
      /\ past'.misread \subseteq past.misread \cup {i}
      /\ Torn => i \in past'.misread
  BY <1>1, StartTyped, ReadingFits
<1>3. /\ RowsOf(t) \subseteq UNION GrantedTo(t) /\ RowsOf(t) \subseteq Permissions
      /\ ~Torn => RowsOf(t) \in GrantedTo(t)
  <2>1. boot[i].step \notin Unseeded
    BY <1>1 DEF Unseeded
  <2> QED
    BY <2>1, WhatIsRead
<1>4. PICK new : new = [ability[i] EXCEPT ![t] = RowsOf(t)]
  OBVIOUS
<1>5. /\ new \in [Types -> (SUBSET Permissions) \cup {{Missing}}]
      /\ new[t] = RowsOf(t) /\ \A k \in Types : k # t => new[k] = ability[i][k]
  BY <1>3, <1>4, StartTyped
<1>6. ability' = [ability EXCEPT ![i] = new]
  BY <1>1, <1>4
<1>7. /\ ability' \in [Instances -> [Types -> (SUBSET Permissions) \cup {{Missing}}]]
      /\ ability'[i] = new /\ \A j \in Instances : j # i => ability'[j] = ability[j]
  BY <1>5, <1>6, StartTyped
<1>8. BootFits'
  <2>1. \A j \in Instances : StartFits(j)'
    BY <1>1, StartTyped DEF StartFits
  <2> QED
    BY <1>1, <1>2, <1>7, <2>1, StartTyped DEF BootFits
<1>9. RowsAreGranted' /\ SeederIsAlone' /\ OneReleaseRules'
  BY <1>1, <1>2, PermissionsStand
<1>10. AbilitiesRight'
  <2> SUFFICES ASSUME NEW j \in Instances, NEW k \in Types, ability'[j][k] # {Missing}
               PROVE  IF j \in past'.misread THEN ability'[j][k] \subseteq UNION GrantedTo(k)
                      ELSE ability'[j][k] \in GrantedTo(k)
    BY AbilitiesMeaningThen
  <2>1. CASE j = i /\ k = t
    BY <1>2, <1>3, <1>5, <1>7, <2>1
  <2>2. CASE j # i \/ k # t
    <3>1. ability'[j][k] = ability[j][k] /\ (j \in past.misread => j \in past'.misread)
      BY <1>2, <1>5, <1>7, <2>2
    <3>2. IF j \in past.misread THEN ability[j][k] \subseteq UNION GrantedTo(k)
          ELSE ability[j][k] \in GrantedTo(k)
      BY <3>1, StartTyped, AbilitiesMeaning
    <3>3. ability[j][k] \in GrantedTo(k) => ability[j][k] \subseteq UNION GrantedTo(k)
      OBVIOUS
    <3> QED
      BY <3>1, <3>2, <3>3
  <2> QED
    BY <2>1, <2>2
<1>11. RolesFit'
  <2>1. RoleRows' = RoleRows
    BY <1>1, TablesStand
  <2> QED
    BY <1>1, <1>2, <2>1, StartTyped, RolesStand
<1>12. AloneRepairs'
  <2> SUFFICES ASSUME NEW j \in past.alone PROVE Repairs(j)'
    BY <1>2 DEF AloneRepairs
  <2>1. j \in Instances
    BY StartTyped DEF Past
  <2>2. Repairs(j)
    BY <2>1, StartTyped
  <2>3. /\ CountPermissions' = CountPermissions /\ (NoRows' <=> NoRows)
        /\ HasPersonOf(Admin)' <=> HasPersonOf(Admin)
        /\ FindByType(Admin)' = FindByType(Admin)
        /\ \A k \in Types : RowsOf(k)' = RowsOf(k)
    BY <1>1, TablesStand
  <2>4. ASSUME NEW k \in Types, ability[j][k] \in {{Missing}, RowsOf(k)}
        PROVE  ability'[j][k] \in {{Missing}, RowsOf(k)}
    BY <1>5, <1>7, <2>1, <2>4
  <2>5. boot[j].step \in HasAbilities =>
            \A k \in Types : ability'[j][k] \in {{Missing}, RowsOf(k)'}
    BY <2>2, <2>3, <2>4 DEF Repairs
  <2> QED
    BY <1>1, <2>2, <2>3, <2>5 DEF Repairs
<1> QED
  BY <1>8, <1>9, <1>10, <1>11, <1>12 DEF BootInductive

\* An administrator edits the directory, and the peace of every start is over.
LEMMA EditKeeps ==
    ASSUME BootInductive, UNCHANGED <<permission, text, boot, ability>>,
           past' = [past EXCEPT !.alone = {}],
           role' \in [RoleIds -> Role \cup {Missing}],
           person' \in [People -> Person \cup {Missing}],
           RoleRows' = RoleRows \/ RolesFit'
    PROVE  BootInductive'
<1>1. BootFits /\ RolesFit /\ AbilitiesRight
  BY DEF BootInductive
<1>2. /\ past' \in Past /\ past'.alone = {} /\ past'.misread = past.misread
      /\ past'.cut = past.cut /\ past'.crossed = past.crossed
  BY <1>1 DEF BootFits, Past
<1>3. BootFits'
  <2>1. \A j \in Instances : StartFits(j)'
    BY <1>1 DEF BootFits, StartFits
  <2> QED
    BY <1>1, <1>2, <2>1 DEF BootFits
<1>4. RowsAreGranted' /\ SeederIsAlone' /\ OneReleaseRules'
  BY <1>2, PermissionsStand
<1>5. AbilitiesRight'
  BY <1>1, <1>2, AbilitiesStand
<1>6. RolesFit'
  <2>1. CASE RoleRows' = RoleRows
    BY <1>1, <1>2, <2>1, RolesStand
  <2> QED
    BY <2>1
<1>7. AloneRepairs'
  BY <1>2 DEF AloneRepairs
<1> QED
  BY <1>3, <1>4, <1>5, <1>6, <1>7 DEF BootInductive

\* Whoever is allowed to edit is allowed it by an instance that listens: it found roles.
LEMMA EditingMeans ==
    ASSUME BootInductive, Editing
    PROVE  /\ UNCHANGED <<permission, text, boot, ability>>
           /\ past' = [past EXCEPT !.alone = {}]
           /\ RoleRows # {}
           /\ BootFits /\ RolesFit
           /\ role \in [RoleIds -> Role \cup {Missing}]
           /\ person \in [People -> Person \cup {Missing}]
<1>1. BootFits /\ RolesFit
  BY DEF BootInductive
<1>2. PICK i \in Instances : boot[i].step = "listening"
  BY DEF Editing
<1>3. boot[i].step \in HasRoles
  BY <1>2 DEF HasRoles, HasPermissions
<1>4. RoleRows # {}
  BY <1>1, <1>3 DEF RolesFit
<1> QED
  BY <1>1, <1>4 DEF Editing, BootFits

LEMMA CreateRoleKeeps ==
    ASSUME BootInductive, CreateRole
    PROVE  BootInductive'
<1>1. PICK name \in Names, type \in Types : AddRole(name, type)
  BY DEF CreateRole
<1>2. Editing /\ UNCHANGED person
  BY DEF CreateRole
<1>3. /\ UNCHANGED <<permission, text, boot, ability>> /\ past' = [past EXCEPT !.alone = {}]
      /\ RoleRows # {} /\ BootFits /\ RolesFit
      /\ role \in [RoleIds -> Role \cup {Missing}]
      /\ person \in [People -> Person \cup {Missing}]
  BY <1>2, EditingMeans
<1>4. /\ role' \in [RoleIds -> Role \cup {Missing}]
      /\ IsFiniteSet(RoleRows') /\ RoleRows' # {}
      /\ Cardinality(RoleRows) \in Nat
      /\ Cardinality(RoleRows') = Cardinality(RoleRows) + 1
  BY <1>1, <1>3, RoleIsAdded DEF RolesFit
<1>5. Cardinality(Types) \in Nat
  BY BootstrapAssumption, FS_CardinalityType
<1>6. past'.cut = past.cut
  BY <1>3 DEF BootFits, Past
<1>7. RolesFit'
  <2>1. ASSUME NEW j \in Instances, boot[j].step = "insert_roles"
        PROVE  Cardinality(RoleRows') + Cardinality(boot[j].todo) >= Cardinality(Types)
    <3>1. Cardinality(RoleRows) + Cardinality(boot[j].todo) >= Cardinality(Types)
      BY <1>3, <2>1 DEF RolesFit
    <3>2. Cardinality(boot[j].todo) \in Nat
      <4>1. boot[j].todo \subseteq Types
        BY <1>3, <2>1 DEF BootFits, StartFits
      <4> QED
        BY <4>1, BootstrapAssumption, FS_Subset, FS_CardinalityType
    <3> QED
      BY <1>4, <1>5, <3>1, <3>2
  <2>2. \/ Cardinality(RoleRows) >= Cardinality(Types)
        \/ past.cut
        \/ \E j \in Instances : boot[j].step = "insert_roles"
    BY <1>3 DEF RolesFit
  <2>3. Cardinality(RoleRows) >= Cardinality(Types)
            => Cardinality(RoleRows') >= Cardinality(Types)
    BY <1>4, <1>5
  <2> QED
    BY <1>3, <1>4, <1>6, <2>1, <2>2, <2>3 DEF RolesFit
<1> QED
  BY <1>2, <1>3, <1>4, <1>7, EditKeeps

\* A row that is changed stays a row.
LEMMA RoleIsChanged ==
    ASSUME role \in [RoleIds -> Role \cup {Missing}], NEW r \in RoleRows, NEW new \in Role,
           role' = [role EXCEPT ![r] = new]
    PROVE  role' \in [RoleIds -> Role \cup {Missing}] /\ RoleRows' = RoleRows
<1>1. r \in RoleIds /\ role[r] # Missing /\ new # Missing
  BY MissingIsNoRow DEF RoleRows
<1> QED
  BY <1>1 DEF RoleRows

LEMMA UpdateRoleKeeps ==
    ASSUME BootInductive, NEW r \in RoleIds, UpdateRole(r)
    PROVE  BootInductive'
<1>1. PICK name \in Names, type \in Types :
          role' = [role EXCEPT ![r] = [@ EXCEPT !.name = name, !.type = type]]
  BY DEF UpdateRole
<1>2. Editing /\ r \in LiveRoles /\ UNCHANGED person
  BY DEF UpdateRole
<1>3. /\ UNCHANGED <<permission, text, boot, ability>> /\ past' = [past EXCEPT !.alone = {}]
      /\ role \in [RoleIds -> Role \cup {Missing}]
      /\ person \in [People -> Person \cup {Missing}]
  BY <1>2, EditingMeans
<1>4. r \in RoleRows /\ role[r] \in Role
  BY <1>2, <1>3 DEF LiveRoles, RoleRows
<1>5. PICK new : new = [role[r] EXCEPT !.name = name, !.type = type]
  OBVIOUS
<1>6. new \in Role
  BY <1>4, <1>5 DEF Role
<1>7. role' = [role EXCEPT ![r] = new]
  BY <1>1, <1>5
<1>8. role' \in [RoleIds -> Role \cup {Missing}] /\ RoleRows' = RoleRows
  BY <1>3, <1>4, <1>6, <1>7, RoleIsChanged
<1> QED
  BY <1>2, <1>3, <1>8, EditKeeps

LEMMA DeleteRoleKeeps ==
    ASSUME BootInductive, NEW r \in RoleIds, DeleteRole(r)
    PROVE  BootInductive'
<1>1. Editing /\ r \in LiveRoles /\ UNCHANGED person
      /\ role' = [role EXCEPT ![r].deleted = TRUE]
  BY DEF DeleteRole
<1>2. /\ UNCHANGED <<permission, text, boot, ability>> /\ past' = [past EXCEPT !.alone = {}]
      /\ role \in [RoleIds -> Role \cup {Missing}]
      /\ person \in [People -> Person \cup {Missing}]
  BY <1>1, EditingMeans
<1>3. r \in RoleRows /\ role[r] \in Role
  BY <1>1, <1>2 DEF LiveRoles, RoleRows
<1>4. PICK new : new = [role[r] EXCEPT !.deleted = TRUE]
  OBVIOUS
<1>5. new \in Role
  BY <1>3, <1>4 DEF Role
<1>6. role' = [role EXCEPT ![r] = new]
  BY <1>1, <1>4
<1>7. role' \in [RoleIds -> Role \cup {Missing}] /\ RoleRows' = RoleRows
  BY <1>2, <1>3, <1>5, <1>6, RoleIsChanged
<1> QED
  BY <1>1, <1>2, <1>7, EditKeeps

LEMMA CreatePersonKeeps ==
    ASSUME BootInductive, CreatePerson
    PROVE  BootInductive'
<1>1. PICK email \in Emails, r \in RoleRows : AddPerson(email, r)
  BY DEF CreatePerson
<1>2. Editing /\ UNCHANGED role
  BY DEF CreatePerson
<1>3. /\ UNCHANGED <<permission, text, boot, ability>> /\ past' = [past EXCEPT !.alone = {}]
      /\ role \in [RoleIds -> Role \cup {Missing}]
      /\ person \in [People -> Person \cup {Missing}]
  BY <1>2, EditingMeans
<1>4. r \in RoleIds
  BY DEF RoleRows
<1>5. person' \in [People -> Person \cup {Missing}]
  BY <1>1, <1>2, <1>3, <1>4, PersonIsAdded
<1>6. RoleRows' = RoleRows
  BY <1>2, TablesStand
<1> QED
  BY <1>2, <1>3, <1>5, <1>6, EditKeeps

LEMMA UpdatePersonKeeps ==
    ASSUME BootInductive, NEW u \in People, UpdatePerson(u)
    PROVE  BootInductive'
<1>1. PICK email \in Emails, r \in RoleRows :
          person' = [person EXCEPT ![u] = [@ EXCEPT !.email = email, !.role = r]]
  BY DEF UpdatePerson
<1>2. Editing /\ person[u] # Missing /\ UNCHANGED role
  BY DEF UpdatePerson
<1>3. /\ UNCHANGED <<permission, text, boot, ability>> /\ past' = [past EXCEPT !.alone = {}]
      /\ role \in [RoleIds -> Role \cup {Missing}]
      /\ person \in [People -> Person \cup {Missing}]
  BY <1>2, EditingMeans
<1>4. r \in RoleIds /\ person[u] \in Person
  BY <1>2, <1>3 DEF RoleRows
<1>5. PICK new : new = [person[u] EXCEPT !.email = email, !.role = r]
  OBVIOUS
<1>6. new \in Person
  BY <1>4, <1>5 DEF Person
<1>7. person' = [person EXCEPT ![u] = new]
  BY <1>1, <1>5
<1>8. person' \in [People -> Person \cup {Missing}]
  BY <1>3, <1>6, <1>7
<1>9. RoleRows' = RoleRows
  BY <1>2, TablesStand
<1> QED
  BY <1>2, <1>3, <1>8, <1>9, EditKeeps

LEMMA DeletePersonKeeps ==
    ASSUME BootInductive, NEW u \in People, DeletePerson(u)
    PROVE  BootInductive'
<1>1. Editing /\ u \in LivePeople /\ UNCHANGED role
      /\ person' = [person EXCEPT ![u].deleted = TRUE]
  BY DEF DeletePerson
<1>2. /\ UNCHANGED <<permission, text, boot, ability>> /\ past' = [past EXCEPT !.alone = {}]
      /\ role \in [RoleIds -> Role \cup {Missing}]
      /\ person \in [People -> Person \cup {Missing}]
  BY <1>1, EditingMeans
<1>3. person[u] \in Person
  BY <1>1, <1>2 DEF LivePeople
<1>4. PICK new : new = [person[u] EXCEPT !.deleted = TRUE]
  OBVIOUS
<1>5. new \in Person
  BY <1>3, <1>4 DEF Person
<1>6. person' = [person EXCEPT ![u] = new]
  BY <1>1, <1>4
<1>7. person' \in [People -> Person \cup {Missing}]
  BY <1>2, <1>5, <1>6
<1>8. RoleRows' = RoleRows
  BY <1>1, TablesStand
<1> QED
  BY <1>1, <1>2, <1>7, <1>8, EditKeeps

-----------------------------------------------------------------------------
(* Bootstrap: the theorems *)

LEMMA BootInitKeeps == BootInit => BootInductive
<1> SUFFICES ASSUME BootInit PROVE BootInductive
  OBVIOUS
<1>1. Down \in Boot
  BY DownIsBoot DEF Down, BootSteps
<1>2. \A i \in Instances : boot[i] = Down /\ boot[i].step = "down" /\ ability[i] = Empty
  BY DEF BootInit, Down
<1>3. BootFits
  <2>1. past \in Past
    BY DEF BootInit, Past
  <2>2. \A i \in Instances : StartFits(i)
    BY <1>2 DEF StartFits
  <2>3. ability \in [Instances -> [Types -> (SUBSET Permissions) \cup {{Missing}}]]
    BY EmptyFits DEF BootInit
  <2>4. /\ role \in [RoleIds -> Role \cup {Missing}] /\ person \in [People -> Person \cup {Missing}]
        /\ permission \in [Types \X Permissions -> Nat] /\ text \subseteq Texts
        /\ boot \in [Instances -> Boot]
    BY <1>1 DEF BootInit
  <2> QED
    BY <2>1, <2>2, <2>3, <2>4 DEF BootFits
<1>4. NoRows /\ RowsAreGranted
  BY DEF BootInit, NoRows, RowsAreGranted
<1>5. SeederIsAlone
  BY <1>2 DEF SeederIsAlone
<1>6. OneReleaseRules
  BY <1>2, <1>4 DEF OneReleaseRules, Unseeded
<1>7. AbilitiesRight
  BY <1>2, EmptyFits DEF AbilitiesRight
<1>8. RolesFit
  <2>1. RoleRows = {}
    BY DEF BootInit, RoleRows
  <2> QED
    BY <1>2, <2>1, FS_EmptySet DEF RolesFit, HasRoles, HasPermissions
<1>9. AloneRepairs
  BY DEF BootInit, AloneRepairs
<1> QED
  BY <1>3, <1>4, <1>5, <1>6, <1>7, <1>8, <1>9 DEF BootInductive

LEMMA BootNextKeeps == BootInductive /\ [BootNext]_bootVars => BootInductive'
<1> SUFFICES ASSUME BootInductive, [BootNext]_bootVars PROVE BootInductive'
  OBVIOUS
<1>1. ASSUME NEW i \in Instances,
             \/ FillFirst(i) \/ CheckRoles(i) \/ CheckPermissions(i) \/ DeletePermissions(i)
             \/ InsertPermissions(i) \/ CheckAdmin(i) \/ CreateAdmin(i) \/ Refill(i)
             \/ InsertText(i) \/ Listen(i) \/ Stop(i)
      PROVE  BootInductive'
  BY <1>1, FillFirstKeeps, CheckRolesKeeps, CheckPermissionsKeeps, DeletePermissionsKeeps,
     InsertPermissionsKeeps, CheckAdminKeeps, CreateAdminKeeps, RefillKeeps, InsertTextKeeps,
     ListenKeeps, StopKeeps
<1>2. ASSUME NEW i \in Instances, NEW v \in Releases, Start(i, v) PROVE BootInductive'
  BY <1>2, StartKeeps
<1>3. ASSUME NEW i \in Instances, NEW t \in Types, InsertRole(i, t) \/ RefreshAbility(i, t)
      PROVE  BootInductive'
  BY <1>3, InsertRoleKeeps, RefreshAbilityKeeps
<1>4. ASSUME NEW i \in Instances, NEW x \in Texts, CheckText(i, x) PROVE BootInductive'
  BY <1>4, CheckTextKeeps
<1>5. CASE CreateRole \/ CreatePerson
  BY <1>5, CreateRoleKeeps, CreatePersonKeeps
<1>6. ASSUME NEW r \in RoleIds, UpdateRole(r) \/ DeleteRole(r) PROVE BootInductive'
  BY <1>6, UpdateRoleKeeps, DeleteRoleKeeps
<1>7. ASSUME NEW u \in People, UpdatePerson(u) \/ DeletePerson(u) PROVE BootInductive'
  BY <1>7, UpdatePersonKeeps, DeletePersonKeeps
<1>8. CASE UNCHANGED bootVars
  <2>1. UNCHANGED <<role, person, permission, text, boot, ability, past>>
    BY <1>8 DEF bootVars, directory
  <2>2. BootFits /\ RolesFit /\ AbilitiesRight /\ AloneRepairs
    BY DEF BootInductive
  <2>3. BootFits'
    BY <2>1, <2>2 DEF BootFits, StartFits
  <2>4. RowsAreGranted' /\ SeederIsAlone' /\ OneReleaseRules'
    BY <2>1, PermissionsStand
  <2>5. AbilitiesRight'
    BY <2>1, <2>2, AbilitiesStand
  <2>6. RolesFit'
    BY <2>1, <2>2, TablesStand, RolesStand
  <2>7. AloneRepairs'
    <3>1. /\ CountPermissions' = CountPermissions /\ (NoRows' <=> NoRows)
          /\ HasPersonOf(Admin)' <=> HasPersonOf(Admin)
          /\ FindByType(Admin)' = FindByType(Admin)
          /\ \A k \in Types : RowsOf(k)' = RowsOf(k)
      BY <2>1, TablesStand
    <3> QED
      BY <2>1, <2>2, <3>1 DEF AloneRepairs, Repairs
  <2> QED
    BY <2>3, <2>4, <2>5, <2>6, <2>7 DEF BootInductive
<1> QED
  BY <1>1, <1>2, <1>3, <1>4, <1>5, <1>6, <1>7, <1>8 DEF BootNext

\* However starts of any releases meet, end and begin again, and whatever administrators
\* edit beside them, the tables, the caches and the locals of every start fit together.
THEOREM BootInvariance == BootSpec => []BootInductive
BY BootInitKeeps, BootNextKeeps, PTL DEF BootSpec

\* PoliciesService answers the guard from a cache that is filled from a table which starts
\* empty and fill again beside it: it allows a role nothing that no release grants it, and
\* exactly what one release grants, unless it was read while somebody was seeding.
THEOREM AbilitiesAreRight == BootSpec => []AbilitiesRight
<1>1. BootInductive => AbilitiesRight
  BY DEF BootInductive
<1> QED
  BY <1>1, BootInvariance, PTL

\* MigrationModule and PoliciesService.onModuleInit: a start that nothing disturbs repairs
\* what earlier ones left, and whoever listens has all the roles, unless a start was cut off
\* among them.
THEOREM SeedingRepairs == BootSpec => []SeedingRight
<1>1. BootInductive => SeedingRight
  <2> SUFFICES ASSUME BootInductive PROVE BootRepairs /\ RolesComplete
    BY DEF SeedingRight
  <2>1. BootRepairs
    <3> SUFFICES ASSUME NEW i \in past.alone, boot[i].step = "listening"
                 PROVE  /\ CountPermissions = Cardinality(PermissionsOf[boot[i].release])
                        /\ HasPersonOf(Admin) /\ text = Texts
                        /\ \A t \in Types : ability[i][t] \in {{Missing}, RowsOf(t)}
      BY DEF BootRepairs
    <3>1. Repairs(i)
      BY DEF BootInductive, AloneRepairs
    <3> QED
      BY <3>1 DEF Repairs, HasPermissions, HasAdmin, HasAbilities
  <2>2. RolesComplete
    <3> SUFFICES ASSUME NEW i \in Instances, boot[i].step = "listening"
                 PROVE  \/ Cardinality(RoleRows) >= Cardinality(Types)
                        \/ past.cut
                        \/ \E j \in Instances : boot[j].step = "insert_roles"
      BY DEF RolesComplete
    <3>1. boot[i].step \in HasRoles
      BY DEF HasRoles, HasPermissions
    <3>2. RolesFit
      BY DEF BootInductive
    <3> QED
      BY <3>1, <3>2 DEF RolesFit
  <2> QED
    BY <2>1, <2>2
<1> QED
  BY <1>1, BootInvariance, PTL

-----------------------------------------------------------------------------
(* Access tokens: every proof rests on the constants being what they are *)

USE AccessVersionAssumption

-----------------------------------------------------------------------------
(* Updates *)

\* A request that ends keeps nothing.
LEMMA NothingKept == NoLocals \in Locals
BY DEF NoLocals, Locals

LEMMA FinishTypes ==
    ASSUME Inductive, NEW p \in Requests, Finish(p)
    PROVE  pc' \in [Requests -> Steps] /\ local' \in [Requests -> Locals]
BY NothingKept DEF Inductive, TypeOK, Finish, Goto, Steps

LEMMA UpdateReadStep ==
    ASSUME Inductive, NEW p \in Requests, UpdateRead(p)
    PROVE  Inductive'
<1>1. TypeOK'
  <2>1. [NoLocals EXCEPT !.read = row] \in Locals
    BY DEF Inductive, TypeOK, NoLocals, Locals
  <2> QED BY <2>1 DEF Inductive, TypeOK, UpdateRead, Begin, Goto, Steps
<1>2. LocalsFit'
  BY DEF Inductive, TypeOK, LocalsFit, Carries, BumpOwed, BumpDue, UpdateRead, Begin, Goto,
     NoLocals
<1>3. CurrentTokensAreCurrent'
  BY DEF Inductive, TypeOK, CurrentTokensAreCurrent, BumpOwed, BumpDue, UpdateRead,
     Begin, Goto
<1>4. CacheNeverAhead'
  BY DEF Inductive, TypeOK, CacheNeverAhead, UpdateRead
<1>5. (\A t \in tokens : t.version <= row.version)'
  BY DEF Inductive, TypeOK, UpdateRead
<1>6. InvalidatedStaysInvalid'
  BY DEF Inductive, TypeOK, CacheNeverAhead, InvalidatedStaysInvalid, UpdateRead
<1> QED BY <1>1, <1>2, <1>3, <1>4, <1>5, <1>6 DEF Inductive

\* A change of role or `blocked` leaves a bump owed, or one that was missed;
\* otherwise nothing has changed.
LEMMA UpdateWriteStep ==
    ASSUME Inductive, NEW p \in Requests, UpdateWrite(p)
    PROVE  Inductive'
<1> DEFINE step(payload) == IF Changes(local[p].read, payload) THEN "bump_clear" ELSE "idle"
<1>0. PICK payload \in Payload :
         /\ row' = [row EXCEPT
                      !.role = IF payload.role = None THEN @ ELSE payload.role,
                      !.blocked = IF payload.blocked = None THEN @ ELSE payload.blocked]
         /\ Goto(p, step(payload))
         /\ unbumped' = (unbumped \/ (/\ ~Changes(local[p].read, payload)
                                      /\ Crossed(p) /\ row' # row))
  BY DEF UpdateWrite
<1>1. /\ pc[p] = "update_write" /\ local' = [local EXCEPT ![p] = NoLocals]
      /\ UNCHANGED <<cache, tokens, announced, lapsed>>
  BY DEF UpdateWrite
<1>2. row \in UserRow /\ row' \in UserRow /\ row'.version = row.version
  BY <1>0 DEF Inductive, TypeOK, UserRow, Payload
<1>3. unbumped' \in BOOLEAN
  <2>1. unbumped \in BOOLEAN BY DEF Inductive, TypeOK
  <2> HIDE DEF Crossed
  <2> QED BY <1>0, <2>1
<1>4. /\ pc' \in [Requests -> Steps] /\ local' \in [Requests -> Locals]
      /\ pc'[p] = step(payload)
      /\ \A q \in Requests \ {p} : pc'[q] = pc[q] /\ local'[q] = local[q]
  BY <1>0, <1>1, NothingKept DEF Inductive, TypeOK, Goto, Steps, BumpDue
<1>5. \/ BumpOwed'
      \/ ~BumpOwed /\ row'.role = row.role /\ row'.blocked = row.blocked
  <2>1. CASE Changes(local[p].read, payload)
    BY <1>4, <2>1 DEF BumpOwed, BumpDue
  <2>2. CASE ~Changes(local[p].read, payload)
    <3>1. ~BumpOwed' => ~BumpOwed
      BY <1>0, <1>1, <1>4 DEF BumpOwed, BumpDue
    <3>2. \/ unbumped'
          \/ row'.role = row.role /\ row'.blocked = row.blocked
      <4>1. CASE Crossed(p)
        BY <1>0, <2>2, <4>1
      <4>2. CASE ~Crossed(p)
        BY <1>0, <1>2, <2>2, <4>2 DEF Crossed, Changes, UserRow
      <4> QED BY <4>1, <4>2
    <3> QED BY <3>1, <3>2 DEF BumpOwed
  <2> QED BY <2>1, <2>2
<1>6. TypeOK' BY <1>1, <1>2, <1>3, <1>4 DEF Inductive, TypeOK
<1>7. LocalsFit'
  BY <1>1, <1>2, <1>4, <1>5 DEF Inductive, LocalsFit, Carries
<1>8. CurrentTokensAreCurrent'
  BY <1>1, <1>2, <1>5 DEF Inductive, CurrentTokensAreCurrent
<1>9. CacheNeverAhead' /\ InvalidatedStaysInvalid'
  BY <1>1, <1>2 DEF Inductive, CacheNeverAhead, InvalidatedStaysInvalid
<1>10. (\A t \in tokens : t.version <= row.version)'
  BY <1>1, <1>2 DEF Inductive
<1> QED BY <1>6, <1>7, <1>8, <1>9, <1>10 DEF Inductive

LEMMA BumpClearStep ==
    ASSUME Inductive, NEW p \in Requests, BumpClear(p)
    PROVE  Inductive'
<1>1. TypeOK'
  BY DEF Inductive, TypeOK, BumpClear, ClearCachedVersion, RedisFails,
     Goto, Steps, BumpDue
<1>2. LocalsFit'
  BY DEF Inductive, TypeOK, LocalsFit, Carries, BumpOwed, BumpDue, BumpClear, Goto
<1>3. CurrentTokensAreCurrent'
  BY DEF Inductive, TypeOK, CurrentTokensAreCurrent, BumpOwed, BumpDue, BumpClear,
     Goto
<1>4. CacheNeverAhead'
  BY DEF Inductive, TypeOK, CacheNeverAhead, BumpClear, ClearCachedVersion, RedisFails
<1>5. (\A t \in tokens : t.version <= row.version)'
  BY DEF Inductive, TypeOK, BumpClear
<1>6. InvalidatedStaysInvalid'
  BY DEF Inductive, TypeOK, CacheNeverAhead, InvalidatedStaysInvalid,
     BumpClear, ClearCachedVersion, RedisFails
<1> QED BY <1>1, <1>2, <1>3, <1>4, <1>5, <1>6 DEF Inductive

\* Every token issued or about to be is older than the new version.
LEMMA BumpIncrementStep ==
    ASSUME Inductive, NEW p \in Requests, BumpIncrement(p)
    PROVE  Inductive'
<1>1. TypeOK'
  <2>1. row.version + 1 \in Versions
    BY DEF Inductive, TypeOK, BumpIncrement, UserRow, Versions
  <2>2. row' \in UserRow
    BY <2>1 DEF Inductive, TypeOK, BumpIncrement, UserRow
  <2>3. local' \in [Requests -> Locals]
    <3>1. ASSUME NEW q \in Requests
          PROVE  [local[q] EXCEPT !.late = @ \/ Carries(q)] \in Locals
      <4>1. local[q] \in Locals /\ (local[q].late \/ Carries(q)) \in BOOLEAN
        BY Zenon DEF Inductive, TypeOK, Carries
      <4>2. PICK b \in BOOLEAN : b = (local[q].late \/ Carries(q))
        BY <4>1, Zenon
      <4>3. [local[q] EXCEPT !.late = b] \in Locals
        BY <4>1 DEF Locals
      <4> QED
        BY <4>2, <4>3, Zenon
    <3>2. [local[p] EXCEPT !.version = row.version + 1] \in Locals
      BY <2>1 DEF Inductive, TypeOK, Locals
    <3> QED
      BY <3>1, <3>2 DEF BumpIncrement
  <2> QED BY <2>2, <2>3 DEF Inductive, TypeOK, BumpIncrement, Goto, Steps
<1>2. LocalsFit'
  <2>1. /\ row'.version = row.version + 1 /\ row.version \in Nat \ {0}
        /\ row'.role = row.role /\ row'.blocked = row.blocked
    BY DEF Inductive, TypeOK, BumpIncrement, UserRow, Versions
  <2>2. /\ pc[p] = "bump_increment" /\ pc'[p] = "bump_set"
        /\ local'[p].version = row'.version
    BY <2>1 DEF Inductive, TypeOK, BumpIncrement, Goto, Locals
  <2>3. ASSUME NEW q \in Requests, q # p
        PROVE  /\ pc'[q] = pc[q] /\ (Carries(q)' <=> Carries(q))
               /\ local'[q].read = local[q].read /\ local'[q].version = local[q].version
               /\ Carries(q) => local'[q].late
    <3>1. pc'[q] = pc[q]
      BY <2>3 DEF Inductive, TypeOK, BumpIncrement, Goto
    <3>2. local'[q] = [local[q] EXCEPT !.late = @ \/ Carries(q)] /\ local[q] \in Locals
      BY <2>3 DEF Inductive, TypeOK, BumpIncrement
    <3>3. PICK b \in BOOLEAN : b = (local[q].late \/ Carries(q))
      BY Zenon DEF Carries
    <3>4. local'[q] = [local[q] EXCEPT !.late = b]
      BY <3>2, <3>3, Zenon
    <3>5. Carries(q)' <=> Carries(q)
      BY <3>1 DEF Carries
    <3>6. Carries(q) => b
      BY <3>3, Zenon
    <3> QED
      BY <3>1, <3>2, <3>4, <3>5, <3>6 DEF Locals
  <2>4. \A q \in Requests : pc[q] = "issue_sign" => local[q].read.version <= row.version
    BY DEF Inductive, LocalsFit
  <2> QED
    BY <2>1, <2>2, <2>3, <2>4
       DEF Inductive, TypeOK, LocalsFit, Carries, UserRow, Versions
<1>3. CurrentTokensAreCurrent'
  BY DEF Inductive, TypeOK, CurrentTokensAreCurrent, BumpIncrement, UserRow,
     Versions
<1>4. CacheNeverAhead'
  BY DEF Inductive, TypeOK, CacheNeverAhead, BumpIncrement, UserRow, Versions
<1>5. (\A t \in tokens : t.version <= row.version)'
  BY DEF Inductive, TypeOK, BumpIncrement, UserRow, Versions, AccessToken
<1>6. InvalidatedStaysInvalid'
  BY DEF Inductive, TypeOK, CacheNeverAhead, InvalidatedStaysInvalid, BumpIncrement
<1> QED BY <1>1, <1>2, <1>3, <1>4, <1>5, <1>6 DEF Inductive

\* SET writes a version, and that is the row's unless a bump has overtaken it.
LEMMA CacheVersionFacts ==
    ASSUME Inductive, NEW p \in Requests, pc[p] \in {"check_set", "bump_set"},
           CacheVersion(p)
    PROVE  /\ cache' = local[p].version
           /\ cache' \in 1 .. row.version
           /\ cache' \in Versions
           /\ lapsed' \in Lapses
           /\ lapsed' # "none" \/ cache' = row.version
<1>1. /\ cache' = local[p].version /\ lapsed' \in Lapses
      /\ lapsed' = "none" => ~local[p].late
  BY DEF CacheVersion, Lapses
<1>2. local[p].version \in 1 .. row.version /\ row.version \in Versions
  BY DEF Inductive, TypeOK, LocalsFit, UserRow
<1>3. ~local[p].late => local[p].version = row.version
  BY DEF Inductive, LocalsFit, Carries
<1> QED BY <1>1, <1>2, <1>3 DEF Versions

LEMMA BumpSetStep ==
    ASSUME Inductive, NEW p \in Requests, BumpSet(p)
    PROVE  Inductive'
<1>1. TypeOK'
  <2>1. pc[p] = "bump_set" BY DEF BumpSet
  <2>2. CASE CacheVersion(p) /\ Announce(local[p].version) /\ Finish(p)
    <3>1. announced' \in Versions
      BY <2>1, <2>2, CacheVersionFacts DEF Inductive, TypeOK, Announce
    <3> QED BY <2>1, <2>2, <3>1, CacheVersionFacts, FinishTypes
               DEF Inductive, TypeOK, BumpSet
  <2>3. CASE RedisFails("set") /\ Goto(p, "bump_retract") /\ UNCHANGED <<announced, local, lapsed>>
    BY <2>3 DEF Inductive, TypeOK, BumpSet, RedisFails, Goto, Steps
  <2> QED BY <2>2, <2>3 DEF BumpSet
<1>2. LocalsFit'
  BY DEF Inductive, TypeOK, LocalsFit, Carries, BumpOwed, BumpDue, BumpSet, Goto, Finish
<1>3. CurrentTokensAreCurrent'
  BY DEF Inductive, TypeOK, CurrentTokensAreCurrent, BumpOwed, BumpDue, BumpSet,
     Goto, Finish
<1>4. CacheNeverAhead'
  BY DEF Inductive, TypeOK, LocalsFit, CacheNeverAhead, BumpSet, CacheVersion, RedisFails,
     Announce
<1>5. (\A t \in tokens : t.version <= row.version)'
  BY DEF Inductive, TypeOK, BumpSet
<1>6. InvalidatedStaysInvalid'
  <2>1. pc[p] = "bump_set" BY DEF BumpSet
  <2>2. CASE CacheVersion(p)
    <3>1. /\ cache' = row.version \/ lapsed' # "none"
          /\ row' = row
      BY <2>1, <2>2, CacheVersionFacts DEF BumpSet
    <3>2. announced' <= row'.version /\ announced' \in Nat /\ row'.version \in Nat
      BY <1>1, <1>4 DEF TypeOK, UserRow, Versions, CacheNeverAhead
    <3> QED
      BY <3>1, <3>2 DEF InvalidatedStaysInvalid
  <2>3. CASE UNCHANGED <<cache, announced, lapsed>>
    BY <2>3 DEF Inductive, InvalidatedStaysInvalid
  <2> QED BY <2>2, <2>3 DEF BumpSet, RedisFails
<1> QED BY <1>1, <1>2, <1>3, <1>4, <1>5, <1>6 DEF Inductive

LEMMA BumpRetractStep ==
    ASSUME Inductive, NEW p \in Requests, BumpRetract(p)
    PROVE  Inductive'
<1>1. TypeOK'
  <2>1. local[p].version \in Versions
    BY DEF Inductive, TypeOK, LocalsFit, BumpRetract, UserRow, Versions
  <2>2. announced' \in Versions
    BY <2>1 DEF Inductive, TypeOK, BumpRetract, Announce
  <2>3. cache' \in Versions \cup {None} /\ lapsed' \in Lapses
    BY DEF Inductive, TypeOK, BumpRetract, ClearCachedVersion, RedisFails, Lapses
  <2> QED BY <2>2, <2>3, FinishTypes DEF Inductive, TypeOK, BumpRetract
<1>2. LocalsFit'
  BY DEF Inductive, TypeOK, LocalsFit, Carries, BumpOwed, BumpDue, BumpRetract, Goto, Finish
<1>3. CurrentTokensAreCurrent'
  BY DEF Inductive, TypeOK, CurrentTokensAreCurrent, BumpOwed, BumpDue, BumpRetract,
     Goto, Finish
<1>4. CacheNeverAhead'
  BY DEF Inductive, TypeOK, LocalsFit, CacheNeverAhead, BumpRetract,
     ClearCachedVersion, RedisFails, Announce
<1>5. (\A t \in tokens : t.version <= row.version)'
  BY DEF Inductive, TypeOK, BumpRetract
<1>6. InvalidatedStaysInvalid'
  BY DEF Inductive, TypeOK, CacheNeverAhead, InvalidatedStaysInvalid,
     BumpRetract, ClearCachedVersion, RedisFails
<1> QED BY <1>1, <1>2, <1>3, <1>4, <1>5, <1>6 DEF Inductive

-----------------------------------------------------------------------------
(* Unlocking and deleting *)

LEMMA UnlockReadStep ==
    ASSUME Inductive, NEW p \in Requests, UnlockRead(p)
    PROVE  Inductive'
<1>1. TypeOK'
  BY DEF Inductive, TypeOK, UnlockRead, Begin, Goto, NoLocals, Steps,
     Locals
<1>2. LocalsFit'
  BY DEF Inductive, TypeOK, LocalsFit, Carries, BumpOwed, BumpDue, UnlockRead, Begin, Goto
<1>3. CurrentTokensAreCurrent'
  BY DEF Inductive, TypeOK, CurrentTokensAreCurrent, BumpOwed, BumpDue, UnlockRead,
     Begin, Goto
<1>4. CacheNeverAhead'
  BY DEF Inductive, TypeOK, CacheNeverAhead, UnlockRead
<1>5. (\A t \in tokens : t.version <= row.version)'
  BY DEF Inductive, TypeOK, UnlockRead
<1>6. InvalidatedStaysInvalid'
  BY DEF Inductive, TypeOK, CacheNeverAhead, InvalidatedStaysInvalid, UnlockRead
<1> QED BY <1>1, <1>2, <1>3, <1>4, <1>5, <1>6 DEF Inductive

\* Unlocking needs no bump: no token of the version is a blocked user's.
LEMMA UnlockWriteStep ==
    ASSUME Inductive, NEW p \in Requests, UnlockWrite(p)
    PROVE  Inductive'
<1>1. TypeOK'
  BY DEF Inductive, TypeOK, UnlockWrite, Goto, Finish, NoLocals, UserRow,
     AccessToken, Versions, Steps, BumpDue, Locals
<1>2. LocalsFit'
  <2>1. /\ row'.version = row.version /\ row'.role = row.role /\ ~row'.blocked
        /\ BumpOwed => BumpOwed'
    BY DEF Inductive, TypeOK, UserRow, UnlockWrite, Finish, Goto, BumpOwed, BumpDue
  <2>2. pc'[p] = "idle"
    BY DEF Inductive, TypeOK, UnlockWrite, Finish, Goto
  <2>3. ASSUME NEW q \in Requests \ {p}
        PROVE  pc'[q] = pc[q] /\ local'[q] = local[q]
    BY DEF Inductive, TypeOK, UnlockWrite, Finish, Goto
  <2> QED BY <2>1, <2>2, <2>3 DEF Inductive, LocalsFit, Carries
<1>3. CurrentTokensAreCurrent'
  BY <1>1 DEF Inductive, TypeOK, UserRow, CurrentTokensAreCurrent, BumpOwed, BumpDue,
     UnlockWrite, Goto, Finish
<1>4. CacheNeverAhead'
  BY DEF Inductive, TypeOK, CacheNeverAhead, UnlockWrite
<1>5. (\A t \in tokens : t.version <= row.version)'
  BY DEF Inductive, TypeOK, UnlockWrite
<1>6. InvalidatedStaysInvalid'
  BY DEF Inductive, TypeOK, CacheNeverAhead, InvalidatedStaysInvalid, UnlockWrite
<1> QED BY <1>1, <1>2, <1>3, <1>4, <1>5, <1>6 DEF Inductive

LEMMA DeleteStep ==
    ASSUME Inductive, Delete
    PROVE  Inductive'
<1>1. TypeOK'
  BY DEF Inductive, TypeOK, Delete, UserRow, AccessToken, Versions, Steps, BumpDue,
     Locals
<1>2. LocalsFit'
  BY DEF Inductive, TypeOK, LocalsFit, Carries, BumpOwed, Delete
<1>3. CurrentTokensAreCurrent'
  BY DEF Inductive, TypeOK, CurrentTokensAreCurrent, BumpOwed, Delete
<1>4. CacheNeverAhead'
  BY DEF Inductive, TypeOK, CacheNeverAhead, Delete
<1>5. (\A t \in tokens : t.version <= row.version)'
  BY DEF Inductive, TypeOK, Delete
<1>6. InvalidatedStaysInvalid'
  BY DEF Inductive, TypeOK, CacheNeverAhead, InvalidatedStaysInvalid, Delete
<1> QED BY <1>1, <1>2, <1>3, <1>4, <1>5, <1>6 DEF Inductive

-----------------------------------------------------------------------------
(* Issuing and checking tokens *)

LEMMA IssueReadStep ==
    ASSUME Inductive, NEW p \in Requests, IssueRead(p)
    PROVE  Inductive'
<1>1. TypeOK'
  BY DEF Inductive, TypeOK, IssueRead, Begin, Goto, NoLocals, Steps,
     Locals
<1>2. LocalsFit'
  BY DEF Inductive, TypeOK, LocalsFit, Carries, BumpOwed, BumpDue, IssueRead, Begin, Goto,
     UserRow, Versions
<1>3. CurrentTokensAreCurrent'
  BY DEF Inductive, TypeOK, CurrentTokensAreCurrent, BumpOwed, BumpDue, IssueRead,
     Begin, Goto
<1>4. CacheNeverAhead'
  BY DEF Inductive, TypeOK, CacheNeverAhead, IssueRead
<1>5. (\A t \in tokens : t.version <= row.version)'
  BY DEF Inductive, TypeOK, IssueRead
<1>6. InvalidatedStaysInvalid'
  BY DEF Inductive, TypeOK, CacheNeverAhead, InvalidatedStaysInvalid, IssueRead
<1> QED BY <1>1, <1>2, <1>3, <1>4, <1>5, <1>6 DEF Inductive

\* A token is as current as the row it was signed from.
LEMMA IssueSignStep ==
    ASSUME Inductive, NEW p \in Requests, IssueSign(p)
    PROVE  Inductive'
<1>1. TypeOK'
  BY FinishTypes DEF Inductive, TypeOK, LocalsFit, IssueSign, UserRow, AccessToken
<1>2. LocalsFit'
  BY DEF Inductive, TypeOK, LocalsFit, Carries, BumpOwed, IssueSign, Goto, Finish
<1>3. CurrentTokensAreCurrent'
  BY DEF Inductive, TypeOK, LocalsFit, CurrentTokensAreCurrent, BumpOwed, BumpDue,
     IssueSign, Goto, Finish
<1>4. CacheNeverAhead'
  BY DEF Inductive, TypeOK, CacheNeverAhead, IssueSign
<1>5. (\A t \in tokens : t.version <= row.version)'
  BY DEF Inductive, TypeOK, LocalsFit, IssueSign
<1>6. InvalidatedStaysInvalid'
  BY DEF Inductive, TypeOK, CacheNeverAhead, InvalidatedStaysInvalid, IssueSign
<1> QED BY <1>1, <1>2, <1>3, <1>4, <1>5, <1>6 DEF Inductive

LEMMA CheckMissStep ==
    ASSUME Inductive, NEW p \in Requests, CheckMiss(p)
    PROVE  Inductive'
<1>1. TypeOK'
  BY DEF Inductive, TypeOK, CheckMiss, Begin, Goto, NoLocals, Steps,
     Locals
<1>2. LocalsFit'
  BY DEF Inductive, TypeOK, LocalsFit, Carries, BumpOwed, BumpDue, CheckMiss, Begin, Goto
<1>3. CurrentTokensAreCurrent'
  BY DEF Inductive, TypeOK, CurrentTokensAreCurrent, BumpOwed, BumpDue, CheckMiss,
     Begin, Goto
<1>4. CacheNeverAhead'
  BY DEF Inductive, TypeOK, CacheNeverAhead, CheckMiss
<1>5. (\A t \in tokens : t.version <= row.version)'
  BY DEF Inductive, TypeOK, CheckMiss
<1>6. InvalidatedStaysInvalid'
  BY DEF Inductive, TypeOK, CacheNeverAhead, InvalidatedStaysInvalid, CheckMiss
<1> QED BY <1>1, <1>2, <1>3, <1>4, <1>5, <1>6 DEF Inductive

LEMMA CheckReadStep ==
    ASSUME Inductive, NEW p \in Requests, CheckRead(p)
    PROVE  Inductive'
<1>1. TypeOK'
  <2>1. CASE row.deleted
    BY <2>1, FinishTypes DEF Inductive, TypeOK, CheckRead
  <2>2. CASE ~row.deleted
    <3>1. local' \in [Requests -> Locals]
      BY <2>2 DEF Inductive, TypeOK, CheckRead, UserRow, Locals
    <3> QED BY <2>2, <3>1 DEF Inductive, TypeOK, CheckRead, Goto, Steps
  <2> QED BY <2>1, <2>2
<1>2. LocalsFit'
  BY DEF Inductive, TypeOK, LocalsFit, Carries, BumpOwed, BumpDue, CheckRead, Goto, Finish,
     UserRow, Versions, Locals
<1>3. CurrentTokensAreCurrent'
  BY DEF Inductive, TypeOK, CurrentTokensAreCurrent, BumpOwed, BumpDue, CheckRead,
     Goto, Finish
<1>4. CacheNeverAhead'
  BY DEF Inductive, TypeOK, CacheNeverAhead, CheckRead
<1>5. (\A t \in tokens : t.version <= row.version)'
  BY DEF Inductive, TypeOK, CheckRead
<1>6. InvalidatedStaysInvalid'
  BY DEF Inductive, TypeOK, CacheNeverAhead, InvalidatedStaysInvalid, CheckRead
<1> QED BY <1>1, <1>2, <1>3, <1>4, <1>5, <1>6 DEF Inductive

\* A restored version may be out of date, and is never ahead.
LEMMA CheckSetStep ==
    ASSUME Inductive, NEW p \in Requests, CheckSet(p)
    PROVE  Inductive'
<1>1. TypeOK'
  <2>1. cache' \in Versions \cup {None} /\ lapsed' \in Lapses
    BY CacheVersionFacts DEF Inductive, TypeOK, CheckSet, RedisFails
  <2> QED BY <2>1, FinishTypes DEF Inductive, TypeOK, CheckSet
<1>2. LocalsFit'
  BY DEF Inductive, TypeOK, LocalsFit, Carries, BumpOwed, BumpDue, CheckSet, Goto, Finish
<1>3. CurrentTokensAreCurrent'
  BY DEF Inductive, TypeOK, CurrentTokensAreCurrent, BumpOwed, BumpDue, CheckSet,
     Goto, Finish
<1>4. CacheNeverAhead'
  BY DEF Inductive, TypeOK, LocalsFit, CacheNeverAhead, CheckSet, CacheVersion, RedisFails
<1>5. (\A t \in tokens : t.version <= row.version)'
  BY DEF Inductive, TypeOK, CheckSet
<1>6. InvalidatedStaysInvalid'
  <2>1. CASE CacheVersion(p)
    <3>1. /\ cache' = row.version \/ lapsed' # "none"
          /\ row' = row
      BY <2>1, CacheVersionFacts DEF CheckSet
    <3>2. announced' <= row'.version /\ announced' \in Nat /\ row'.version \in Nat
      BY <1>1, <1>4 DEF TypeOK, UserRow, Versions, CacheNeverAhead
    <3> QED
      BY <3>1, <3>2 DEF InvalidatedStaysInvalid
  <2>2. CASE UNCHANGED <<cache, announced, lapsed>>
    BY <2>2 DEF Inductive, InvalidatedStaysInvalid
  <2> QED BY <2>1, <2>2 DEF CheckSet, RedisFails
<1> QED BY <1>1, <1>2, <1>3, <1>4, <1>5, <1>6 DEF Inductive

-----------------------------------------------------------------------------
(* Crashes and evictions *)

LEMMA DieStep ==
    ASSUME Inductive, NEW p \in Requests, Die(p)
    PROVE  Inductive'
<1>1. TypeOK'
  BY DEF Inductive, TypeOK, Die, Goto, Finish, NoLocals, Steps, Locals
<1>2. LocalsFit'
  BY DEF Inductive, TypeOK, LocalsFit, Carries, BumpOwed, BumpDue, Die, Goto,
     Finish, NoLocals, UserRow, Versions, Locals
<1>3. CurrentTokensAreCurrent'
  BY DEF Inductive, TypeOK, LocalsFit, CurrentTokensAreCurrent, BumpOwed,
     BumpDue, Die, Goto, Finish, NoLocals, UserRow, AccessToken,
     Versions, Locals
<1>4. CacheNeverAhead'
  BY DEF Inductive, TypeOK, CacheNeverAhead, Die
<1>5. (\A t \in tokens : t.version <= row.version)'
  BY DEF Inductive, TypeOK, Die
<1>6. InvalidatedStaysInvalid'
  BY DEF Inductive, TypeOK, CacheNeverAhead, InvalidatedStaysInvalid, Die
<1> QED BY <1>1, <1>2, <1>3, <1>4, <1>5, <1>6 DEF Inductive

LEMMA EvictStep ==
    ASSUME Inductive, Evict
    PROVE  Inductive'
<1>1. TypeOK'
  BY DEF Inductive, TypeOK, Evict
<1>2. LocalsFit'
  BY DEF Inductive, TypeOK, LocalsFit, Carries, BumpOwed, Evict
<1>3. CurrentTokensAreCurrent'
  BY DEF Inductive, TypeOK, CurrentTokensAreCurrent, BumpOwed, Evict
<1>4. CacheNeverAhead'
  BY DEF Inductive, TypeOK, CacheNeverAhead, Evict
<1>5. (\A t \in tokens : t.version <= row.version)'
  BY DEF Inductive, TypeOK, Evict
<1>6. InvalidatedStaysInvalid'
  BY DEF Inductive, TypeOK, CacheNeverAhead, InvalidatedStaysInvalid, Evict
<1> QED BY <1>1, <1>2, <1>3, <1>4, <1>5, <1>6 DEF Inductive

-----------------------------------------------------------------------------
(* The invariant *)

LEMMA InitInductive == Init => Inductive
<1> SUFFICES ASSUME Init PROVE Inductive OBVIOUS
<1>1. TypeOK
  <2>1. 1 \in Versions BY DEF Versions
  <2>2. row \in UserRow BY <2>1 DEF Init, UserRow
  <2>3. cache \in Versions \cup {None} /\ announced \in Versions BY <2>1 DEF Init
  <2> QED BY <2>2, <2>3, NothingKept DEF Init, TypeOK, Steps, Lapses
<1>2. LocalsFit BY DEF Init, LocalsFit, Carries
<1>3. CurrentTokensAreCurrent BY DEF Init, CurrentTokensAreCurrent
<1>4. CacheNeverAhead BY DEF Init, CacheNeverAhead
<1>5. InvalidatedStaysInvalid BY DEF Init, InvalidatedStaysInvalid
<1> QED BY <1>1, <1>2, <1>3, <1>4, <1>5 DEF Init, Inductive

LEMMA NextInductive == Inductive /\ [Next]_vars => Inductive'
<1> SUFFICES ASSUME Inductive, [Next]_vars PROVE Inductive' OBVIOUS
<1>1. ASSUME NEW p \in Requests,
             UpdateRead(p) \/ UpdateWrite(p) \/ UnlockRead(p) \/ UnlockWrite(p)
      PROVE  Inductive'
  BY <1>1, UpdateReadStep, UpdateWriteStep, UnlockReadStep, UnlockWriteStep
<1>2. ASSUME NEW p \in Requests,
             BumpClear(p) \/ BumpIncrement(p) \/ BumpSet(p) \/ BumpRetract(p)
      PROVE  Inductive'
  BY <1>2, BumpClearStep, BumpIncrementStep, BumpSetStep, BumpRetractStep
<1>3. ASSUME NEW p \in Requests,
             IssueRead(p) \/ IssueSign(p) \/ CheckMiss(p) \/ CheckRead(p) \/ CheckSet(p)
      PROVE  Inductive'
  BY <1>3, IssueReadStep, IssueSignStep, CheckMissStep, CheckReadStep, CheckSetStep
<1>4. ASSUME NEW p \in Requests, Die(p) PROVE Inductive' BY <1>4, DieStep
<1>5. CASE Delete \/ Evict BY <1>5, DeleteStep, EvictStep
<1>6. CASE UNCHANGED vars
  BY <1>6 DEF vars, Inductive, TypeOK, LocalsFit, Carries, CurrentTokensAreCurrent, BumpOwed,
     CacheNeverAhead, InvalidatedStaysInvalid
<1> QED BY <1>1, <1>2, <1>3, <1>4, <1>5, <1>6 DEF Next

\* The inductive invariant holds in every reachable state.
THEOREM Invariance == Spec => []Inductive
BY InitInductive, NextInductive, PTL DEF Spec

\* A token of the current version carries the current role of a user who is not
\* blocked, but for the exceptions it names: CurrentTokensAreCurrent.
THEOREM RolesAreCurrent == Spec => []CurrentTokensAreCurrent
BY Invariance, PTL DEF Inductive

\* The cache accepts no token that was announced to be invalid, but for a check or a bump
\* overtaken by a later bump, or a Redis that refuses SET and DEL: InvalidatedStaysInvalid.
THEOREM InvalidationLasts == Spec => []InvalidatedStaysInvalid
BY Invariance, PTL DEF Inductive
=============================================================================
