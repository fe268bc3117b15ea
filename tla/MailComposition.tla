--------------------------- MODULE MailComposition ---------------------------
(***************************************************************************)
(* What a mail is made of: the rows of `mail_template`, who seeds and      *)
(* edits them, who asks for a mail, the links in it, and what MailService  *)
(* sends.  How a mail's job is queued, lost and retried is the module      *)
(* MailDelivery.                                                           *)
(*                                                                         *)
(* Every step below is one query of a request, a worker or a start of the  *)
(* backend; nothing is in a transaction, and all of them can stop between  *)
(* two steps.  No code dispatches the commands on templates, nor the       *)
(* request for a magic link: MaxEdits = 0 and Purposes without "magic" are *)
(* the program as it is.                                                   *)
(***************************************************************************)
EXTENDS Naturals, Sequences, SequencesExt

CONSTANTS
    Instances,  \* instances of the backend that start and seed
    Producers,  \* requests, event handlers and jobs that want a mail
    Senders,    \* workers of the queue `mail`
    Letters,    \* the ids of mails (bounds the model)
    Rows,       \* the ids of rows of mail_template (bounds the model)
    Seeded,     \* the names of the seeded templates, in their order
    OnDisk,     \* the names NAME for which there is a file options/templates/NAME.hbs
    Purposes,   \* what mails are wanted for
    MaxEdits,   \* commands on templates (bounds the model)
    Nothing

ASSUME MailCompositionAssumption ==
    /\ MaxEdits \in Nat
    /\ Purposes \subseteq {"welcome", "forgot", "admin", "magic", "locked", "notify"}
    /\ Nothing \notin Letters \cup Rows
    /\ Seeded \in Seq(ToSet(Seeded))

VARIABLES
    template,  \* mail_template: name, content, isActive and deletedAt, or Nothing
    links,     \* password_reset_token and magic_link_token: the link and its minutes
    mail,      \* mail: see Letter, or Nothing
    jobs,      \* the mails whose job waits in the queue
    producer,  \* producer[p]: what for, which mail, the step, the template found
    sender,    \* sender[w]: the mail w is sending, and what it made of it
    seeding,   \* seeding[i]: the step of a start, and the names it still has to look at
    edits

compositionVars == <<template, links, mail, jobs, producer, sender, seeding, edits>>

-----------------------------------------------------------------------------
(* mail_template *)

Names == ToSet(Seeded)
Template == [name : Names, content : BOOLEAN, active : BOOLEAN, deleted : BOOLEAN]

TemplateRows == {r \in Rows : template[r] # Nothing}

\* findByName: at most one row, and not a deleted one.
FindByName(name) == {r \in TemplateRows : template[r].name = name /\ ~template[r].deleted}

\* Mutant of NameTaken: the index leaves deleted rows out.
NameTakenAlive(name) == FindByName(name) # {}

\* IDX_mail_template_name is unique; deleted rows count.
NameTaken(name) == \E r \in TemplateRows : template[r].name = name

\* isActive defaults to true.  The database numbers the row.
CreateTemplate(name, content, active) ==
    LET r == CHOOSE r \in Rows : template[r] = Nothing IN
    /\ TemplateRows # Rows
    /\ ~NameTaken(name)
    /\ template' = [template EXCEPT ![r] = [name |-> name, content |-> content,
                                            active |-> active, deleted |-> FALSE]]

\* What is not in the payload stays; a deleted row is not found.
UpdateTemplate(r, content, active) ==
    /\ ~template[r].deleted
    /\ template' = [template EXCEPT ![r] = [@ EXCEPT !.content = content, !.active = active]]

DeleteTemplate(r) == template' = [template EXCEPT ![r].deleted = TRUE]

\* The commands of TemplateService.  One that is refused changes nothing.
Edit ==
    /\ edits < MaxEdits
    /\ edits' = edits + 1
    /\ \/ \E name \in Names, active \in BOOLEAN : CreateTemplate(name, TRUE, active)
       \/ \E r \in TemplateRows : \/ \E active \in BOOLEAN : UpdateTemplate(r, TRUE, active)
                                  \/ DeleteTemplate(r)
    /\ UNCHANGED <<links, mail, jobs, producer, sender, seeding>>

-----------------------------------------------------------------------------
(* Seeding: a loop over the names, at every start *)

Seeding == [step : {"down", "find", "create", "up", "refused"}, todo : Seq(Names)]
Down == [step |-> "down", todo |-> <<>>]

Boot(i) ==
    /\ seeding[i].step \in {"down", "refused"}
    /\ seeding' = [seeding EXCEPT ![i] = [step |-> "find", todo |-> Seeded]]
    /\ UNCHANGED <<template, links, mail, jobs, producer, sender, edits>>

\* Mutant of SeedNext: what is there already ends the loop.
SeedNextUntilFound(todo, found) ==
    CASE todo = <<>> -> [step |-> "up", todo |-> <<>>]
      [] todo # <<>> /\ found -> [step |-> "up", todo |-> <<>>]
      [] OTHER -> [step |-> "create", todo |-> todo]

SeedNext(todo, found) ==
    CASE todo = <<>> -> [step |-> "up", todo |-> <<>>]
      [] todo # <<>> /\ found -> [step |-> "find", todo |-> Tail(todo)]
      [] OTHER -> [step |-> "create", todo |-> todo]

SeedFind(i) == LET todo == seeding[i].todo IN
    /\ seeding[i].step = "find"
    /\ seeding' = [seeding EXCEPT ![i] =
                     SeedNext(todo, todo # <<>> /\ FindByName(Head(todo)) # {})]
    /\ UNCHANGED <<template, links, mail, jobs, producer, sender, edits>>

\* Without content, and active.  A taken name is an error, which nobody catches: the
\* instance does not start.
SeedCreate(i) == LET name == Head(seeding[i].todo) IN
    /\ seeding[i].step = "create"
    /\ IF NameTaken(name)
       THEN /\ seeding' = [seeding EXCEPT ![i] = [Down EXCEPT !.step = "refused"]]
            /\ UNCHANGED template
       ELSE /\ CreateTemplate(name, FALSE, TRUE)
            /\ seeding' = [seeding EXCEPT ![i] = [step |-> "find", todo |-> Tail(@.todo)]]
    /\ UNCHANGED <<links, mail, jobs, producer, sender, edits>>

\* The instance stops, at any step.
Stop(i) ==
    /\ seeding[i].step # "down"
    /\ seeding' = [seeding EXCEPT ![i] = Down]
    /\ UNCHANGED <<template, links, mail, jobs, producer, sender, edits>>

-----------------------------------------------------------------------------
(* Who wants a mail *)

\* The templates: MailTemplateType, and two names given as strings.
TemplateFor(purpose) ==
    CASE purpose = "welcome" -> "welcome"
      [] purpose \in {"forgot", "admin"} -> "reset-password"
      [] purpose = "magic" -> "magic-link-login"
      [] purpose \in {"locked", "notify"} -> "notification"

\* How long the token is valid, in minutes.
Lifetime(purpose) ==
    CASE purpose = "forgot" -> 60 [] purpose = "admin" -> 24 * 60 [] purpose = "magic" -> 10
      [] OTHER -> 0

HasLink(purpose) == purpose \in {"forgot", "admin", "magic"}

\* What the context says of it: expiryMinutes.
SaidLifetime(purpose) ==
    CASE purpose = "forgot" -> 60 [] purpose = "admin" -> 1440
      [] purpose = "magic" -> (10 * 60000) \div 60000 [] OTHER -> 0

Letter == [purpose : Purposes, template : Rows, status : {"pending", "sent", "failed"},
           error : {"", "templateNotFound", "templateInactive", "templateFileNotFound", "smtp"},
           rendered : Rows \cup {Nothing}]
\* No row is the value of a missing one.
ASSUME NothingIsNoTemplate == Nothing \notin Template /\ Nothing \notin Letter

NoErrand == [step |-> "rest", purpose |-> Nothing, letter |-> Nothing, found |-> Nothing]

\* Mutant of FirstStep: the token is left to a later step.
FirstStepFind(purpose) == "find"

FirstStep(purpose) == IF HasLink(purpose) THEN "token" ELSE "find"

\* A user is created, asks for a link, is locked out; an administrator resets a
\* password; a notification is dispatched.  Without the user there is no mail.
Want(p, purpose, m) ==
    /\ producer[p] = NoErrand
    /\ mail[m] = Nothing
    /\ \A q \in Producers : producer[q].letter # m
    /\ producer' = [producer EXCEPT ![p] = [NoErrand EXCEPT
                        !.step = FirstStep(purpose), !.purpose = purpose, !.letter = m]]
    /\ UNCHANGED <<template, links, mail, jobs, sender, seeding, edits>>

StoreToken(p) ==
    /\ producer[p].step = "token"
    /\ links' = links \cup {[letter |-> producer[p].letter,
                             minutes |-> Lifetime(producer[p].purpose)]}
    /\ producer' = [producer EXCEPT ![p].step = "find"]
    /\ UNCHANGED <<template, mail, jobs, sender, seeding, edits>>

\* MailRepository.create and queueMail look the template up by its name.  That it is
\* active does not matter here; without it the mail is refused.
FindTemplate(p) == LET found == FindByName(TemplateFor(producer[p].purpose)) IN
    /\ producer[p].step = "find"
    /\ producer' = [producer EXCEPT ![p] =
            IF found = {} THEN NoErrand
            ELSE [@ EXCEPT !.step = "insert", !.found = CHOOSE r \in found : TRUE]]
    /\ UNCHANGED <<template, links, mail, jobs, sender, seeding, edits>>

InsertMail(p) ==
    /\ producer[p].step = "insert"
    /\ mail' = [mail EXCEPT ![producer[p].letter] =
            [purpose |-> producer[p].purpose, template |-> producer[p].found,
             status |-> "pending", error |-> "", rendered |-> Nothing]]
    /\ producer' = [producer EXCEPT ![p].step = "add"]
    /\ UNCHANGED <<template, links, jobs, sender, seeding, edits>>

AddJob(p) ==
    /\ producer[p].step = "add"
    /\ jobs' = jobs \cup {producer[p].letter}
    /\ producer' = [producer EXCEPT ![p] = NoErrand]
    /\ UNCHANGED <<template, links, mail, sender, seeding, edits>>

\* A query or the queue fails, or the process stops.  The handlers of events and of
\* a lock log the error, the others answer with it.
GiveUp(p) ==
    /\ producer[p] # NoErrand
    /\ producer' = [producer EXCEPT ![p] = NoErrand]
    /\ UNCHANGED <<template, links, mail, jobs, sender, seeding, edits>>

-----------------------------------------------------------------------------
(* MailService.sendMail *)

Unsent == [letter |-> Nothing, row |-> Nothing, error |-> ""]

\* The template is looked up again, by its name; content in the row comes before the
\* file of that name.
Compose(name) == LET found == FindByName(name) r == CHOOSE r \in found : TRUE IN
    CASE found = {} -> [row |-> Nothing, error |-> "templateNotFound"]
      [] found # {} /\ ~template[r].active -> [row |-> Nothing, error |-> "templateInactive"]
      [] found # {} /\ template[r].active /\ ~template[r].content /\ name \notin OnDisk
            -> [row |-> Nothing, error |-> "templateFileNotFound"]
      [] OTHER -> [row |-> r, error |-> ""]

TakeJob(w, m) ==
    /\ sender[w] = Unsent
    /\ m \in jobs
    /\ jobs' = jobs \ {m}
    /\ LET made == Compose(TemplateFor(mail[m].purpose)) IN
       sender' = [sender EXCEPT ![w] = [letter |-> m, row |-> made.row, error |-> made.error]]
    /\ UNCHANGED <<template, links, mail, producer, seeding, edits>>

\* The server takes the mail and it is SENT; or it is FAILED.
Finish(w, smtp) == LET m == sender[w].letter IN
    /\ m # Nothing
    /\ mail' = [mail EXCEPT ![m] =
            IF sender[w].error = "" /\ smtp
            THEN [@ EXCEPT !.status = "sent", !.rendered = sender[w].row]
            ELSE [@ EXCEPT !.status = "failed",
                           !.error = IF sender[w].error = "" THEN "smtp" ELSE sender[w].error]]
    /\ sender' = [sender EXCEPT ![w] = Unsent]
    /\ UNCHANGED <<template, links, jobs, producer, seeding, edits>>

-----------------------------------------------------------------------------
CompositionInit ==
    /\ template = [r \in Rows |-> Nothing]
    /\ links = {}
    /\ mail = [m \in Letters |-> Nothing]
    /\ jobs = {}
    /\ producer = [p \in Producers |-> NoErrand]
    /\ sender = [w \in Senders |-> Unsent]
    /\ seeding = [i \in Instances |-> Down]
    /\ edits = 0

CompositionNext ==
    \/ Edit
    \/ \E i \in Instances : Boot(i) \/ SeedFind(i) \/ SeedCreate(i) \/ Stop(i)
    \/ \E p \in Producers :
          \/ \E purpose \in Purposes, m \in Letters : Want(p, purpose, m)
          \/ StoreToken(p) \/ FindTemplate(p) \/ InsertMail(p) \/ AddJob(p) \/ GiveUp(p)
    \/ \E w \in Senders :
          \/ \E m \in jobs : TakeJob(w, m)
          \/ \E smtp \in BOOLEAN : Finish(w, smtp)

CompositionSpec == CompositionInit /\ [][CompositionNext]_compositionVars

-----------------------------------------------------------------------------
(* Properties *)

\* A mail is rendered from the template its row refers to, although the producer and
\* the worker each look it up by its name, and it may be deleted and its name given
\* again in between.
RenderedFromItsTemplate ==
    \A m \in Letters : mail[m] # Nothing /\ mail[m].status = "sent" =>
        mail[m].rendered = mail[m].template

\* A link that is on its way, or was sent, is stored, and is valid as long as its
\* mail says, wherever the request stopped.
LinksHold ==
    \A m \in Letters : mail[m] # Nothing /\ HasLink(mail[m].purpose) =>
        [letter |-> m, minutes |-> SaidLifetime(mail[m].purpose)] \in links

\* A start that has come to its end leaves a row of every seeded name, whatever an
\* earlier start that was cut off, another start or an edit has left.
SeedingIsComplete ==
    (\E i \in Instances : seeding[i].step = "up") => \A name \in Names : NameTaken(name)

\* What the documentation says: templates are stored in Postgres (not the filesystem)
\* and seeded at boot.  So no password reset fails for want of a file.
ResetMailNeedsNoFile ==
    \A m \in Letters : mail[m] # Nothing /\ TemplateFor(mail[m].purpose) = "reset-password" =>
        mail[m].error # "templateFileNotFound"
=============================================================================
