--------------------------- MODULE CaptchaChallenges ---------------------------
(***************************************************************************)
(* Captcha challenges: the assets the generation worker prepares, the list *)
(* in Redis they wait in, the handler that hands one out as a challenge    *)
(* and the handler that verifies an answer.                                *)
(*                                                                         *)
(* A request is a handler in flight; between two of its queries any other  *)
(* request may run, and it may die.  ioredis sends a command again when    *)
(* the connection breaks before the answer, so LPUSH and RPOP may take     *)
(* effect twice.                                                           *)
(***************************************************************************)
EXTENDS Naturals, Sequences, FiniteSets, SequencesExt

CONSTANTS
    Assets,      \* the assets that can be generated (bounds the model)
    Challenges,  \* the challenges that can be created (bounds the model)
    Requests,    \* the requests that can be in flight together
    MaxAttempts, \* captcha.maxAttemptsPerChallenge
    None

ASSUME CaptchaAssumption ==
    /\ MaxAttempts \in Nat \ {0}
    /\ IsFiniteSet(Requests)
    /\ None \notin Assets \cup Challenges

VARIABLES
    asset,      \* asset[a]: status, usedCount and if expiresAt is over
    generated,  \* assets inserted and not pushed yet
    pool,       \* the Redis list; LPUSH to its head, RPOP from its end
    astray,     \* assets that are in no list although nobody has reserved them
    challenge,  \* challenge[c]: status, asset, attemptsCount, if expiresAt is over
    answers,    \* answers[c]: rows of captcha_attempt
    request     \* request[q]: the step of a handler, what it has read, and (history)
                \* if another request has closed the challenge since it was read

vars == <<asset, generated, pool, astray, challenge, answers, request>>

-----------------------------------------------------------------------------
Counts == 0 .. MaxAttempts + Cardinality(Requests) - 1
Asset == [status : {"absent", "available", "reserved", "used"},
          uses : Nat, expired : BOOLEAN]
Challenge == [status : {"absent", "pending", "passed", "failed", "expired"},
              asset : Assets \cup {None}, attempts : Counts, expired : BOOLEAN]
Resting == [step |-> "resting", asset |-> None, challenge |-> None,
            seen |-> 0, verdict |-> "open", late |-> FALSE]
Request == [step : {"resting", "pop", "reserve", "create", "judge", "count",
                    "record", "close", "use", "expire"},
            asset : Assets \cup {None}, challenge : Challenges \cup {None},
            seen : Counts, verdict : {"open", "passed", "failed"}, late : BOOLEAN]

\* Every variable has its type.
TypeOK ==
    /\ asset \in [Assets -> Asset]
    /\ generated \subseteq Assets
    /\ pool \in Seq(Assets)
    /\ astray \subseteq Assets
    /\ challenge \in [Challenges -> Challenge]
    /\ answers \in [Challenges -> Counts]
    /\ request \in [Requests -> Request]

Goto(q, step) == request' = [request EXCEPT ![q].step = step]
End(q) == request' = [request EXCEPT ![q] = Resting]

-----------------------------------------------------------------------------
(* Generation.  A batch that fails is run again and makes new assets. *)

Generate(a) ==
    /\ asset[a].status = "absent"
    /\ asset' = [asset EXCEPT ![a].status = "available"]
    /\ generated' = generated \cup {a}
    /\ UNCHANGED <<pool, astray, challenge, answers, request>>

\* pushAsset: once, twice when the command is sent again, or not at all.
Push(a) ==
    /\ a \in generated
    /\ generated' = generated \ {a}
    /\ \/ pool' \in {<<a>> \o pool, <<a, a>> \o pool} /\ UNCHANGED astray
       \/ astray' = astray \cup {a} /\ UNCHANGED pool
    /\ UNCHANGED <<asset, challenge, answers, request>>

-----------------------------------------------------------------------------
(* CreateCaptchaChallenge *)

Start(q) ==
    /\ request[q] = Resting
    /\ Goto(q, "pop")
    /\ UNCHANGED <<asset, generated, pool, astray, challenge, answers>>

\* popAsset; a pop whose answer is lost is sent again, and its asset goes astray.
Pop(q) ==
    /\ request[q].step = "pop"
    /\ \/ /\ pool = <<>>
          /\ End(q)
          /\ UNCHANGED <<pool, astray>>
       \/ /\ pool # <<>>
          /\ pool' = Front(pool)
          /\ \/ /\ request' = [request EXCEPT ![q] = [@ EXCEPT !.step = "reserve",
                                                               !.asset = Last(pool)]]
                /\ UNCHANGED astray
             \/ /\ astray' = astray \cup {Last(pool)}
                /\ UNCHANGED request
    /\ UNCHANGED <<asset, generated, challenge, answers>>

PopAgain(q) == request' = [request EXCEPT ![q] = [Resting EXCEPT !.step = "pop"]]

\* Mutant of Reserve: the status is not part of the condition.
ReserveAgain(q) == LET a == request[q].asset IN
    /\ request[q].step = "reserve"
    /\ IF ~asset[a].expired
       THEN asset' = [asset EXCEPT ![a].status = "reserved"] /\ Goto(q, "create")
       ELSE PopAgain(q) /\ UNCHANGED asset
    /\ UNCHANGED <<generated, pool, astray, challenge, answers>>

\* reserveAsset: an UPDATE on condition; when it changes nothing, the next one.
Reserve(q) == LET a == request[q].asset IN
    /\ request[q].step = "reserve"
    /\ IF asset[a].status = "available" /\ ~asset[a].expired
       THEN asset' = [asset EXCEPT ![a].status = "reserved"] /\ Goto(q, "create")
       ELSE PopAgain(q) /\ UNCHANGED asset
    /\ UNCHANGED <<generated, pool, astray, challenge, answers>>

CreateChallenge(q, c) ==
    /\ request[q].step = "create"
    /\ challenge[c].status = "absent"
    /\ challenge' = [challenge EXCEPT ![c] = [@ EXCEPT !.status = "pending",
                                                       !.asset = request[q].asset]]
    /\ End(q)
    /\ UNCHANGED <<asset, generated, pool, astray, answers>>

-----------------------------------------------------------------------------
(* VerifyCaptchaChallenge *)

\* The row was read and is not over: judge, or expire.
VerifyRow(c) == IF challenge[c].expired
    THEN [Resting EXCEPT !.step = "expire", !.challenge = c]
    ELSE [Resting EXCEPT !.step = "judge", !.challenge = c,
                         !.asset = challenge[c].asset, !.seen = challenge[c].attempts]

\* Mutant of VerifyRead: the status is not looked at.
VerifyReadAny(q, c) ==
    /\ request[q] = Resting
    /\ challenge[c].status # "absent"
    /\ challenge[c].expired \/ challenge[c].attempts < MaxAttempts
    /\ request' = [request EXCEPT ![q] = VerifyRow(c)]
    /\ UNCHANGED <<asset, generated, pool, astray, challenge, answers>>

\* findChallengeById, and the early returns: not found, closed, too many attempts.
VerifyRead(q, c) ==
    /\ request[q] = Resting
    /\ challenge[c].status = "pending"
    /\ challenge[c].expired \/ challenge[c].attempts < MaxAttempts
    /\ request' = [request EXCEPT ![q] = VerifyRow(c)]
    /\ UNCHANGED <<asset, generated, pool, astray, challenge, answers>>

\* completeChallenge, whatever the status is by now; q goes on as next, and the
\* others that have read the challenge are late.
Complete(q, status, next) == LET c == request[q].challenge IN
    /\ challenge' = [challenge EXCEPT ![c].status = status]
    /\ request' = [p \in Requests |->
                     IF p = q THEN next
                     ELSE [request[p] EXCEPT !.late = @ \/ request[p].challenge = c]]

VerifyExpire(q) ==
    /\ request[q].step = "expire"
    /\ Complete(q, "expired", Resting)
    /\ UNCHANGED <<asset, generated, pool, astray, answers>>

\* findAssetById; the answer is right or wrong, and if it is wrong the attempts
\* that were read tell whether it was the last.
VerifyJudge(q) ==
    /\ request[q].step = "judge"
    /\ IF asset[request[q].asset].status # "reserved" THEN End(q)
       ELSE \E verdict \in {"passed", IF request[q].seen + 1 < MaxAttempts
                                      THEN "open" ELSE "failed"} :
                request' = [request EXCEPT ![q] = [@ EXCEPT !.step = "count", !.verdict = verdict]]
    /\ UNCHANGED <<asset, generated, pool, astray, challenge, answers>>

\* incrementChallengeAttempts: the database adds one.
VerifyCount(q) ==
    /\ request[q].step = "count"
    /\ challenge' = [challenge EXCEPT ![request[q].challenge].attempts = @ + 1]
    /\ Goto(q, "record")
    /\ UNCHANGED <<asset, generated, pool, astray, answers>>

\* createAttempt
VerifyRecord(q) ==
    /\ request[q].step = "record"
    /\ answers' = [answers EXCEPT ![request[q].challenge] = @ + 1]
    /\ IF request[q].verdict = "open" THEN End(q) ELSE Goto(q, "close")
    /\ UNCHANGED <<asset, generated, pool, astray, challenge>>

VerifyClose(q) ==
    /\ request[q].step = "close"
    /\ Complete(q, request[q].verdict, [request[q] EXCEPT !.step = "use"])
    /\ UNCHANGED <<asset, generated, pool, astray, answers>>

\* markAssetUsed
VerifyUse(q) ==
    /\ request[q].step = "use"
    /\ asset' = [asset EXCEPT ![request[q].asset] =
                    [status |-> "used", uses |-> @.uses + 1, expired |-> @.expired]]
    /\ End(q)
    /\ UNCHANGED <<generated, pool, astray, challenge, answers>>

-----------------------------------------------------------------------------
(* Time and failures *)

\* A query fails or the process stops.
Die(q) ==
    /\ request[q] # Resting
    /\ End(q)
    /\ astray' = IF request[q].step = "reserve" THEN astray \cup {request[q].asset}
                                                ELSE astray
    /\ UNCHANGED <<asset, generated, pool, challenge, answers>>

\* expiresAt is over: of an asset, of a challenge.  Nobody reads it any more once
\* the asset is reserved or the challenge closed, so it is left alone then.
ExpireAsset(a) ==
    /\ asset[a].status = "available" /\ ~asset[a].expired
    /\ asset' = [asset EXCEPT ![a].expired = TRUE]
    /\ UNCHANGED <<generated, pool, astray, challenge, answers, request>>

ExpireChallenge(c) ==
    /\ challenge[c].status = "pending" /\ ~challenge[c].expired
    /\ challenge' = [challenge EXCEPT ![c].expired = TRUE]
    /\ UNCHANGED <<asset, generated, pool, astray, answers, request>>

-----------------------------------------------------------------------------
Init ==
    /\ asset = [a \in Assets |-> [status |-> "absent", uses |-> 0, expired |-> FALSE]]
    /\ generated = {}
    /\ pool = <<>>
    /\ astray = {}
    /\ challenge = [c \in Challenges |-> [status |-> "absent", asset |-> None,
                                          attempts |-> 0, expired |-> FALSE]]
    /\ answers = [c \in Challenges |-> 0]
    /\ request = [q \in Requests |-> Resting]

Next ==
    \/ \E a \in Assets : Generate(a) \/ Push(a) \/ ExpireAsset(a)
    \/ \E c \in Challenges : ExpireChallenge(c)
    \/ \E q \in Requests :
          \/ Start(q) \/ Pop(q) \/ Reserve(q)
          \/ \E c \in Challenges : CreateChallenge(q, c) \/ VerifyRead(q, c)
          \/ VerifyExpire(q) \/ VerifyJudge(q) \/ VerifyCount(q) \/ VerifyRecord(q)
          \/ VerifyClose(q) \/ VerifyUse(q) \/ Die(q)

Spec == Init /\ [][Next]_vars

-----------------------------------------------------------------------------
(* Properties *)

\* An asset is the image of one challenge at most, although the pool may hold it
\* twice.
OneChallengePerAsset ==
    /\ \A c, d \in Challenges :
          challenge[c].asset = challenge[d].asset /\ challenge[c].asset # None => c = d
    /\ \A q \in Requests, c \in Challenges :
          request[q].step = "create" => challenge[c].asset # request[q].asset

\* The requests whose answer to c is being judged and not counted yet.
Answering(c) == {q \in Requests : /\ request[q].challenge = c
                                  /\ request[q].step \in {"judge", "count"}}

\* Answers that were judged are counted, and concurrent requests gain at most one
\* answer each: attemptsCount stays below MaxAttempts plus the others in flight.
AnswersBounded ==
    \A c \in Challenges :
        /\ answers[c] <= challenge[c].attempts
        /\ challenge[c].attempts + Cardinality(Answering(c))
              <= MaxAttempts - 1 + Cardinality(Requests)

\* An asset that is good and that nobody has reserved can still be handed out:
\* it waits in the list, or is being pushed or reserved, or a command to the list
\* or a process was lost with it.
AvailableIsPooled ==
    \A a \in Assets : asset[a].status = "available" /\ ~asset[a].expired =>
        \/ a \in generated \cup ToSet(pool) \cup astray
        \/ \E q \in Requests : request[q].step = "reserve" /\ request[q].asset = a

\* A challenge that is open has its asset: verify never finds `asset.notReserved`
\* before somebody has closed the challenge.
OpenHasAsset ==
    \A c \in Challenges : challenge[c].status = "pending"
        => asset[challenge[c].asset].status = "reserved"

\* The pool and its challenges fit together, in all the interleavings of the handlers of
\* CreateCaptchaChallenge and VerifyCaptchaChallenge and whatever is lost between them.
ChallengesRight ==
    TypeOK /\ OneChallengePerAsset /\ AnswersBounded /\ OpenHasAsset /\ AvailableIsPooled

\* A challenge that was passed, failed or expired keeps its status (`closed`), and its
\* asset is used once (`maxUses`), unless a request that had read the challenge while it
\* was open closes it too.
ClosedOnce ==
    /\ [][\A c \in Challenges :
            /\ challenge[c].status \in {"passed", "failed", "expired"}
            /\ challenge'[c].status # challenge[c].status
            => \E q \in Requests : /\ request[q].late /\ request[q].challenge = c
                                  /\ request[q].step \in {"close", "expire"}]_vars
    /\ [][\A a \in Assets :
            asset[a].uses > 0 /\ asset'[a].uses # asset[a].uses
            => \E q \in Requests : /\ request[q].late /\ request[q].asset = a
                                  /\ request[q].step = "use"]_vars
=============================================================================
