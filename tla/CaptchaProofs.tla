------------------------------ MODULE CaptchaProofs ------------------------------
(***************************************************************************)
(* Proofs about captchas, for any numbers.  First CaptchaChallenges: the   *)
(* assets of the pool, the challenges and the requests in flight.  Then    *)
(* CaptchaAuthoring: what administrators do to configurations at the same  *)
(* time, that it implements ConfigHistory, and what the batches that fill  *)
(* the pool leave.  Then CaptchaAnswers: what the normaliser keeps of a    *)
(* text of any length.                                                     *)
(***************************************************************************)
EXTENDS CaptchaChallenges, CaptchaAuthoring, CaptchaAnswers, FiniteSetTheorems, SequenceTheorems,
        TLAPS

USE CaptchaAssumption

-----------------------------------------------------------------------------
(* The inductive invariant *)

\* The steps of a verify that has read a challenge.
Judging == {"judge", "count", "record", "close", "use"}
Closed == {"passed", "failed", "expired"}

\* A challenge has an asset from the moment it is created, and an asset that is being
\* or was handed out is no longer available; two requests never create with the same one.
AssetsTaken ==
    /\ \A c \in Challenges :
          /\ challenge[c].asset = None <=> challenge[c].status = "absent"
          /\ challenge[c].asset # None => asset[challenge[c].asset].status \in {"reserved", "used"}
    /\ \A q \in Requests : request[q].step = "create" =>
          /\ asset[request[q].asset].status = "reserved"
          /\ \A p \in Requests \ {q} :
                request[p].step = "create" => request[p].asset # request[q].asset

\* The locals of a request fit its step.
LocalsFit ==
    \A q \in Requests :
       /\ request[q].step \in {"reserve", "create"} =>
             request[q].asset # None /\ request[q].challenge = None
       /\ request[q].step \in Judging =>
             /\ request[q].challenge # None
             /\ challenge[request[q].challenge].asset = request[q].asset
             /\ request[q].asset # None
       /\ request[q].step = "expire" => request[q].challenge # None /\ request[q].asset = None
       /\ request[q].step \in {"resting", "pop"} =>
             request[q].challenge = None /\ request[q].asset = None
       /\ request[q].step \in {"close", "use"} => request[q].verdict # "open"
       /\ request[q].step = "expire" => challenge[request[q].challenge].status # "absent"

\* A request that is not late finds the challenge it has read still open; only the
\* one that closed it goes on to its asset, and the others are late.
OpenUnlessLate ==
    \A q \in Requests : request[q].challenge # None =>
        /\ request[q].step # "use" /\ ~request[q].late =>
              challenge[request[q].challenge].status = "pending"
        /\ request[q].step = "use" =>
              /\ challenge[request[q].challenge].status \in Closed
              /\ \A p \in Requests \ {q} :
                    request[p].challenge = request[q].challenge => request[p].late

\* Once an asset is used, whoever has read its challenge is late.
UsedAssets ==
    \A a \in Assets : asset[a].uses > 0 =>
        /\ asset[a].status = "used"
        /\ \A q \in Requests : request[q].asset = a /\ request[q].challenge # None
              => request[q].late

\* An answer that is recorded was counted: answers and those about to be recorded.
Recording(c) == {q \in Requests : request[q].challenge = c /\ request[q].step = "record"}
AnswersCounted ==
    \A c \in Challenges : answers[c] + Cardinality(Recording(c)) <= challenge[c].attempts

ChallengesInductive ==
    /\ ChallengesRight
    /\ AssetsTaken /\ LocalsFit /\ OpenUnlessLate /\ UsedAssets /\ AnswersCounted

\* What rows and locals refer to.
LEMMA Members ==
    ASSUME TypeOK
    PROVE  /\ \A c \in Challenges : challenge[c].asset \in Assets \cup {None}
           /\ \A q \in Requests : /\ request[q].asset \in Assets \cup {None}
                                  /\ request[q].challenge \in Challenges \cup {None}
BY DEF TypeOK, Challenge, Request

-----------------------------------------------------------------------------
(* Counting requests *)

\* Sets of requests are finite; a smaller one counts less, one that a request has left
\* counts one less at least, and one that a request has joined one more at most.
LEMMA CountRequests ==
    ASSUME NEW S, NEW T, S \subseteq Requests, T \subseteq Requests, NEW q \in Requests
    PROVE  /\ Cardinality(T) \in Nat
           /\ Cardinality(Requests) \in Nat
           /\ Cardinality(T) <= Cardinality(Requests)
           /\ S \subseteq T => Cardinality(S) <= Cardinality(T)
           /\ q \in T /\ S \subseteq T \ {q} => Cardinality(S) + 1 <= Cardinality(T)
           /\ S \subseteq T \cup {q} => Cardinality(S) <= Cardinality(T) + 1
<1>1. IsFiniteSet(S) /\ IsFiniteSet(T) BY FS_Subset
<1>2. Cardinality(S) \in Nat /\ Cardinality(T) \in Nat /\ Cardinality(Requests) \in Nat
  BY <1>1, FS_CardinalityType
<1>3. Cardinality(T) <= Cardinality(Requests) BY FS_Subset
<1>4. S \subseteq T => Cardinality(S) <= Cardinality(T) BY <1>1, FS_Subset
<1>5. ASSUME q \in T, S \subseteq T \ {q} PROVE Cardinality(S) + 1 <= Cardinality(T)
  <2>1. IsFiniteSet(T \ {q}) /\ Cardinality(T \ {q}) = Cardinality(T) - 1
    BY <1>1, <1>5, FS_RemoveElement
  <2>2. Cardinality(S) <= Cardinality(T \ {q}) BY <1>5, <2>1, FS_Subset
  <2> QED BY <1>2, <2>1, <2>2
<1>6. ASSUME S \subseteq T \cup {q} PROVE Cardinality(S) <= Cardinality(T) + 1
  <2>1. /\ IsFiniteSet(T \cup {q})
        /\ Cardinality(T \cup {q}) = Cardinality(T) \/ Cardinality(T \cup {q}) = Cardinality(T) + 1
    BY <1>1, FS_AddElement
  <2>2. Cardinality(S) <= Cardinality(T \cup {q}) BY <1>6, <2>1, FS_Subset
  <2> QED BY <1>2, <2>1, <2>2
<1> QED BY <1>2, <1>3, <1>4, <1>5, <1>6

\* The sets of requests that the invariant counts.
LEMMA CountedRequests ==
    \A c : /\ Answering(c) \subseteq Requests
           /\ Recording(c) \subseteq Requests
           /\ Answering(c)' \subseteq Requests
           /\ Recording(c)' \subseteq Requests
BY DEF Answering, Recording

\* The counts stay right for a challenge whose counted requests only get fewer.
LEMMA CountsKeptFor ==
    ASSUME ChallengesInductive, NEW c \in Challenges, answers'[c] = answers[c],
           challenge'[c].attempts = challenge[c].attempts,
           Answering(c)' \subseteq Answering(c), Recording(c)' \subseteq Recording(c)
    PROVE  /\ answers'[c] <= challenge'[c].attempts
           /\ challenge'[c].attempts + Cardinality(Answering(c)')
                 <= MaxAttempts - 1 + Cardinality(Requests)
           /\ answers'[c] + Cardinality(Recording(c)') <= challenge'[c].attempts
<1>1. /\ answers[c] \in Nat /\ challenge[c].attempts \in Nat
      /\ answers[c] <= challenge[c].attempts
      /\ challenge[c].attempts + Cardinality(Answering(c))
            <= MaxAttempts - 1 + Cardinality(Requests)
      /\ answers[c] + Cardinality(Recording(c)) <= challenge[c].attempts
  BY DEF ChallengesInductive, ChallengesRight, TypeOK, Challenge, Counts, AnswersBounded,
         AnswersCounted
<1>2. /\ Cardinality(Answering(c)') \in Nat /\ Cardinality(Answering(c)) \in Nat
      /\ Cardinality(Answering(c)') <= Cardinality(Answering(c))
      /\ Cardinality(Recording(c)') \in Nat /\ Cardinality(Recording(c)) \in Nat
      /\ Cardinality(Recording(c)') <= Cardinality(Recording(c))
  <2>1. IsFiniteSet(Answering(c)) /\ IsFiniteSet(Recording(c))
    BY CountedRequests, FS_Subset
  <2> QED BY <2>1, FS_Subset, FS_CardinalityType
<1>3. Cardinality(Requests) \in Nat BY FS_CardinalityType
<1> QED BY <1>1, <1>2, <1>3

\* A step that judges, counts and records no answer keeps all the counts right.
LEMMA CountsKept ==
    ASSUME ChallengesInductive, UNCHANGED answers,
           \A c \in Challenges : challenge'[c].attempts = challenge[c].attempts,
           \A c \in Challenges : Answering(c)' \subseteq Answering(c),
           \A c \in Challenges : Recording(c)' \subseteq Recording(c)
    PROVE  AnswersBounded' /\ AnswersCounted'
BY CountsKeptFor DEF AnswersBounded, AnswersCounted

\* A step that changes the counts of c alone keeps those of the others right.
LEMMA CountsOf ==
    ASSUME ChallengesInductive, NEW c \in Challenges,
           \A d \in Challenges : d # c =>
              /\ answers'[d] = answers[d] /\ challenge'[d].attempts = challenge[d].attempts
              /\ Answering(d)' \subseteq Answering(d) /\ Recording(d)' \subseteq Recording(d),
           answers'[c] <= challenge'[c].attempts,
           challenge'[c].attempts + Cardinality(Answering(c)')
              <= MaxAttempts - 1 + Cardinality(Requests),
           answers'[c] + Cardinality(Recording(c)') <= challenge'[c].attempts
    PROVE  AnswersBounded' /\ AnswersCounted'
BY CountsKeptFor DEF AnswersBounded, AnswersCounted

\* The counts before a step.
LEMMA CountsNow ==
    ASSUME ChallengesInductive, NEW c \in Challenges
    PROVE  /\ answers[c] \in Nat /\ challenge[c].attempts \in Nat
           /\ Cardinality(Answering(c)) \in Nat /\ Cardinality(Recording(c)) \in Nat
           /\ Cardinality(Answering(c)') \in Nat /\ Cardinality(Recording(c)') \in Nat
           /\ Cardinality(Requests) \in Nat
           /\ answers[c] <= challenge[c].attempts
           /\ challenge[c].attempts + Cardinality(Answering(c))
                 <= MaxAttempts - 1 + Cardinality(Requests)
           /\ answers[c] + Cardinality(Recording(c)) <= challenge[c].attempts
<1>1. /\ IsFiniteSet(Answering(c)) /\ IsFiniteSet(Recording(c))
      /\ IsFiniteSet(Answering(c)') /\ IsFiniteSet(Recording(c)')
  BY CountedRequests, FS_Subset
<1> QED BY <1>1, FS_CardinalityType DEF ChallengesInductive, ChallengesRight, TypeOK, Challenge,
           Counts, AnswersBounded, AnswersCounted

-----------------------------------------------------------------------------
(* Requests and the list *)

\* A request at rest.
LEMMA RestingFacts ==
    /\ Resting \in Request
    /\ Resting.step = "resting" /\ Resting.asset = None /\ Resting.challenge = None
    /\ Resting.verdict = "open" /\ Resting.seen = 0 /\ ~Resting.late
<1>1. 0 \in Counts
  <2>1. Cardinality(Requests) \in Nat BY FS_CardinalityType
  <2> QED BY <2>1 DEF Counts
<1> QED BY <1>1 DEF Resting, Request

\* What LPUSH does to the list, once or twice.
LEMMA PushedList ==
    ASSUME NEW a \in Assets, NEW s \in Seq(Assets)
    PROVE  /\ <<a>> \o s \in Seq(Assets) /\ <<a, a>> \o s \in Seq(Assets)
           /\ {a} \cup ToSet(s) \subseteq ToSet(<<a>> \o s)
           /\ {a} \cup ToSet(s) \subseteq ToSet(<<a, a>> \o s)
<1>1. ASSUME NEW t \in Seq(Assets), t # <<>>, \A i \in 1 .. Len(t) : t[i] = a
      PROVE  t \o s \in Seq(Assets) /\ {a} \cup ToSet(s) \subseteq ToSet(t \o s)
  <2>1. /\ t \o s \in Seq(Assets) /\ Len(t \o s) = Len(t) + Len(s)
        /\ \A i \in 1 .. Len(t) + Len(s) :
              (t \o s)[i] = IF i <= Len(t) THEN t[i] ELSE s[i - Len(t)]
    BY ConcatProperties
  <2>2. Len(t) \in Nat \ {0} /\ Len(s) \in Nat BY <1>1, EmptySeq, LenProperties
  <2>3. DOMAIN (t \o s) = 1 .. Len(t) + Len(s) /\ DOMAIN s = 1 .. Len(s)
    BY <2>1, LenProperties
  <2>4. a \in ToSet(t \o s)
    <3>1. 1 \in DOMAIN (t \o s) /\ (t \o s)[1] = a BY <1>1, <2>1, <2>2, <2>3
    <3> QED BY <3>1 DEF ToSet
  <2>5. ASSUME NEW b \in ToSet(s) PROVE b \in ToSet(t \o s)
    <3>1. PICK i \in 1 .. Len(s) : s[i] = b BY <2>3 DEF ToSet
    <3>2. Len(t) + i \in DOMAIN (t \o s) /\ (t \o s)[Len(t) + i] = b
      BY <2>1, <2>2, <2>3, <3>1
    <3> QED BY <3>2 DEF ToSet
  <2> QED BY <2>1, <2>4, <2>5
<1>2. /\ <<a>> \in Seq(Assets) /\ <<a>> # <<>> /\ \A i \in 1 .. Len(<<a>>) : <<a>>[i] = a
      /\ <<a, a>> \in Seq(Assets) /\ <<a, a>> # <<>>
      /\ \A i \in 1 .. Len(<<a, a>>) : <<a, a>>[i] = a
  OBVIOUS
<1> QED BY <1>1, <1>2

\* What RPOP does to the list.
LEMMA PoppedList ==
    ASSUME NEW s \in Seq(Assets), s # <<>>
    PROVE  /\ Front(s) \in Seq(Assets) /\ Last(s) \in Assets
           /\ ToSet(s) \subseteq ToSet(Front(s)) \cup {Last(s)}
<1>1. Len(s) \in Nat \ {0} /\ DOMAIN s = 1 .. Len(s) BY EmptySeq, LenProperties
<1>2. \A i \in 1 .. Len(s) : s[i] \in Assets BY ElementOfSeq
<1>3. Last(s) \in Assets BY <1>1, <1>2 DEF Last
<1>4. /\ Front(s) \in Seq(Assets) /\ Len(Front(s)) = Len(s) - 1
      /\ \A i \in 1 .. Len(s) - 1 : Front(s)[i] = s[i]
  <2>1. \A i \in 1 .. Len(s) - 1 : s[i] \in Assets BY <1>1, <1>2
  <2> QED BY <1>1, <2>1, SubSeqProperties DEF Front
<1>5. DOMAIN Front(s) = 1 .. Len(s) - 1 BY <1>4, LenProperties
<1>6. ASSUME NEW b \in ToSet(s) PROVE b \in ToSet(Front(s)) \cup {Last(s)}
  <2>1. PICK i \in Nat : 1 <= i /\ i <= Len(s) /\ s[i] = b BY <1>1 DEF ToSet
  <2>2. CASE i = Len(s) BY <2>1, <2>2 DEF Last
  <2>3. CASE i # Len(s)
    <3>1. i \in 1 .. Len(s) - 1
      <4> DEFINE n == Len(s)
      <4>1. n \in Nat BY <1>1
      <4>2. i <= n /\ i # n BY <2>1, <2>3
      <4> HIDE DEF n
      <4>3. i \in 1 .. n - 1 BY <2>1, <4>1, <4>2
      <4> QED BY <4>3 DEF n
    <3>2. i \in DOMAIN Front(s) /\ Front(s)[i] = b BY <1>4, <1>5, <2>1, <3>1
    <3> QED BY <3>2 DEF ToSet
  <2> QED BY <2>2, <2>3
<1> QED BY <1>3, <1>4, <1>6

-----------------------------------------------------------------------------
(* One lemma per step *)

\* A request that has to do with no challenge goes on: it rests, pops or has popped an asset.
LEMMA RequestMoves ==
    ASSUME ChallengesInductive, NEW q \in Requests, NEW r \in Request,
           request' = [request EXCEPT ![q] = r],
           r.step \in {"resting", "pop", "reserve"}, r.challenge = None,
           r.step = "reserve" <=> r.asset # None,
           UNCHANGED <<asset, generated, challenge, answers>>,
           pool' \in Seq(Assets), astray' \subseteq Assets,
           \A a \in ToSet(pool) \cup astray :
              a \in ToSet(pool') \cup astray' \/ (r.step = "reserve" /\ r.asset = a),
           LET a == request[q].asset IN request[q].step = "reserve" =>
              a \in astray' \/ asset[a].status # "available" \/ asset[a].expired
    PROVE  ChallengesInductive'
<1> USE RestingFacts DEF ChallengesInductive, ChallengesRight
<1>0. /\ request' \in [Requests -> Request] /\ request'[q] = r
      /\ \A p \in Requests : p # q => request'[p] = request[p]
  BY DEF TypeOK
<1>1. TypeOK' BY <1>0 DEF TypeOK
<1>2. AnswersBounded' /\ AnswersCounted'
  <2>1. \A d \in Challenges :
           /\ Answering(d)' \subseteq Answering(d)
           /\ Recording(d)' \subseteq Recording(d)
    BY <1>0 DEF Answering, Recording
  <2> QED BY <1>0, <2>1, CountsKept
<1>3. OneChallengePerAsset' BY <1>0 DEF TypeOK, OneChallengePerAsset, AssetsTaken, LocalsFit
<1>4. OpenHasAsset' BY <1>0 DEF TypeOK, OpenHasAsset, AssetsTaken
<1>5. AvailableIsPooled' BY <1>0 DEF TypeOK, AvailableIsPooled
<1>6. AssetsTaken' BY <1>0 DEF TypeOK, AssetsTaken, LocalsFit
<1>7. LocalsFit' BY <1>0 DEF TypeOK, LocalsFit, AssetsTaken, Judging
<1>8. OpenUnlessLate' BY <1>0 DEF TypeOK, LocalsFit, OpenUnlessLate, Judging, Closed
<1>9. UsedAssets' BY <1>0 DEF TypeOK, LocalsFit, UsedAssets, Judging
<1> QED BY <1>1, <1>2, <1>3, <1>4, <1>5, <1>6, <1>7, <1>8, <1>9

\* The steps of a request that has to do with no challenge.
LEMMA StartStep ==
    ASSUME ChallengesInductive, NEW q \in Requests, Start(q)
    PROVE  ChallengesInductive'
<1> DEFINE r == [request[q] EXCEPT !.step = "pop"]
<1>1. /\ r \in Request /\ r.step = "pop" /\ r.challenge = None /\ r.asset = None
      /\ request' = [request EXCEPT ![q] = r] /\ request[q].step = "resting"
  BY RestingFacts DEF Start, Goto, Request, Resting
<1>2. pool \in Seq(Assets) /\ astray \subseteq Assets
  BY DEF ChallengesInductive, ChallengesRight, TypeOK
<1> QED BY <1>1, <1>2, RequestMoves DEF Start

LEMMA PopStep ==
    ASSUME ChallengesInductive, NEW q \in Requests, Pop(q)
    PROVE  ChallengesInductive'
<1>1. pool \in Seq(Assets) /\ astray \subseteq Assets /\ request \in [Requests -> Request]
  BY DEF ChallengesInductive, ChallengesRight, TypeOK
<1>2. CASE pool = <<>> /\ End(q) /\ UNCHANGED <<pool, astray>>
  BY <1>1, <1>2, RestingFacts, RequestMoves DEF Pop, End
<1>3. CASE /\ pool # <<>> /\ pool' = Front(pool) /\ UNCHANGED astray
           /\ request' = [request EXCEPT ![q] = [@ EXCEPT !.step = "reserve", !.asset = Last(pool)]]
  <2> DEFINE r == [request[q] EXCEPT !.step = "reserve", !.asset = Last(pool)]
  <2>1. r \in Request /\ r.step = "reserve" /\ r.asset = Last(pool)
    BY <1>1, <1>3, PoppedList DEF Request
  <2>2. r.challenge = None
    BY <1>1 DEF Pop, ChallengesInductive, LocalsFit, Request
  <2>3. request' = [request EXCEPT ![q] = r] BY <1>1, <1>3 DEF Request
  <2>4. Last(pool) # None BY <1>1, <1>3, PoppedList
  <2> HIDE DEF r
  <2> QED BY <1>1, <1>3, <2>1, <2>2, <2>3, <2>4, PoppedList, RequestMoves DEF Pop
<1>4. CASE /\ pool # <<>> /\ pool' = Front(pool) /\ UNCHANGED request
           /\ astray' = astray \cup {Last(pool)}
  <2>1. request' = [request EXCEPT ![q] = request[q]] BY <1>1, <1>4
  <2>2. request[q] \in Request /\ request[q].challenge = None /\ request[q].asset = None
    BY <1>1 DEF Pop, ChallengesInductive, LocalsFit
  <2> QED BY <1>1, <1>4, <2>1, <2>2, PoppedList, RequestMoves DEF Pop
<1> QED BY <1>2, <1>3, <1>4 DEF Pop

LEMMA DieStep ==
    ASSUME ChallengesInductive, NEW q \in Requests, Die(q)
    PROVE  ChallengesInductive'
<1>1. /\ pool \in Seq(Assets) /\ astray \subseteq Assets
      /\ request[q].step = "reserve" => request[q].asset \in Assets
  BY DEF ChallengesInductive, ChallengesRight, TypeOK, Request, LocalsFit
<1>2. /\ astray \subseteq astray' /\ astray' \subseteq Assets
      /\ request[q].step = "reserve" => request[q].asset \in astray'
  BY <1>1 DEF Die
<1> QED BY <1>1, <1>2, RestingFacts, RequestMoves DEF Die, End

\* The asset popped is reserved.
LEMMA ReserveTakesStep ==
    ASSUME ChallengesInductive, NEW q \in Requests, Reserve(q),
           asset[request[q].asset].status = "available", ~asset[request[q].asset].expired
    PROVE  ChallengesInductive'
<1> USE RestingFacts DEF ChallengesInductive, ChallengesRight
<1> DEFINE a == request[q].asset
<1>a. /\ request[q].step = "reserve" /\ asset' = [asset EXCEPT ![a].status = "reserved"]
      /\ request' = [request EXCEPT ![q].step = "create"]
      /\ UNCHANGED <<generated, pool, astray, challenge, answers>>
  BY DEF Reserve, Goto
<1>b. a \in Assets /\ request[q].challenge = None
  BY <1>a DEF TypeOK, Request, LocalsFit
<1>c. /\ asset' \in [Assets -> Asset] /\ asset'[a].status = "reserved"
      /\ \A b \in Assets :
            /\ asset'[b].uses = asset[b].uses
            /\ asset'[b].expired = asset[b].expired
            /\ b # a => asset'[b] = asset[b]
  BY <1>a, <1>b DEF TypeOK, Asset
<1>d. /\ request' \in [Requests -> Request] /\ request'[q].step = "create"
      /\ request'[q].asset = a /\ request'[q].challenge = None
      /\ \A p \in Requests : p # q => request'[p] = request[p]
  BY <1>a, <1>b DEF TypeOK, Request
<1> HIDE DEF a
<1>1. TypeOK' BY <1>a, <1>b, <1>c, <1>d DEF TypeOK
<1>2. AnswersBounded' /\ AnswersCounted'
  <2>1. \A d \in Challenges :
           /\ Answering(d)' \subseteq Answering(d)
           /\ Recording(d)' \subseteq Recording(d)
    BY <1>a, <1>b, <1>c, <1>d DEF Answering, Recording
  <2> QED BY <1>a, <1>b, <1>c, <1>d, <2>1, CountsKept
<1>3. OneChallengePerAsset'
  BY <1>a, <1>b, <1>c, <1>d DEF TypeOK, OneChallengePerAsset, AssetsTaken, LocalsFit
<1>4. OpenHasAsset' BY <1>a, <1>b, <1>c, <1>d DEF TypeOK, OpenHasAsset, AssetsTaken
<1>5. AvailableIsPooled' BY <1>a, <1>b, <1>c, <1>d DEF TypeOK, AvailableIsPooled
<1>6. AssetsTaken' BY <1>a, <1>b, <1>c, <1>d DEF TypeOK, AssetsTaken, LocalsFit
<1>7. LocalsFit' BY <1>a, <1>b, <1>c, <1>d DEF TypeOK, LocalsFit, AssetsTaken, Judging
<1>8. OpenUnlessLate'
  BY <1>a, <1>b, <1>c, <1>d DEF TypeOK, LocalsFit, OpenUnlessLate, Judging, Closed
<1>9. UsedAssets' BY <1>a, <1>b, <1>c, <1>d DEF TypeOK, LocalsFit, UsedAssets, Judging
<1> QED BY <1>1, <1>2, <1>3, <1>4, <1>5, <1>6, <1>7, <1>8, <1>9

LEMMA ReserveStep ==
    ASSUME ChallengesInductive, NEW q \in Requests, Reserve(q)
    PROVE  ChallengesInductive'
<1> DEFINE a == request[q].asset
<1>1. CASE asset[a].status = "available" /\ ~asset[a].expired
  BY <1>1, ReserveTakesStep
<1>2. CASE ~(asset[a].status = "available" /\ ~asset[a].expired)
  <2> DEFINE r == [Resting EXCEPT !.step = "pop"]
  <2>1. r \in Request /\ r.step = "pop" /\ r.challenge = None /\ r.asset = None
    BY RestingFacts DEF Request, Resting
  <2>2. pool \in Seq(Assets) /\ astray \subseteq Assets
    BY DEF ChallengesInductive, ChallengesRight, TypeOK
  <2>3. request' = [request EXCEPT ![q] = r] /\ UNCHANGED asset
    BY <1>2 DEF Reserve, PopAgain
  <2> HIDE DEF r
  <2> QED BY <1>2, <2>1, <2>2, <2>3, RequestMoves DEF Reserve
<1> QED BY <1>1, <1>2

\* A challenge is created.
LEMMA CreateChallengeStep ==
    ASSUME ChallengesInductive, NEW q \in Requests, NEW c \in Challenges, CreateChallenge(q, c)
    PROVE  ChallengesInductive'
<1> USE RestingFacts DEF ChallengesInductive, ChallengesRight
<1> DEFINE a == request[q].asset
<1>a. /\ request[q].step = "create" /\ challenge[c].status = "absent"
      /\ UNCHANGED <<asset, generated, pool, astray, answers>>
  BY DEF CreateChallenge
<1>b. a \in Assets /\ challenge[c].asset = None
  BY <1>a DEF TypeOK, Request, LocalsFit, AssetsTaken
<1>c. /\ challenge' \in [Challenges -> Challenge]
      /\ challenge'[c].status = "pending" /\ challenge'[c].asset = a
      /\ \A d \in Challenges :
            /\ challenge'[d].attempts = challenge[d].attempts
            /\ d # c => challenge'[d] = challenge[d]
  BY <1>a, <1>b DEF CreateChallenge, TypeOK, Challenge
<1>d. /\ request' \in [Requests -> Request] /\ request'[q] = Resting
      /\ \A p \in Requests : p # q => request'[p] = request[p]
  BY DEF CreateChallenge, End, TypeOK
<1> HIDE DEF a
<1>e. /\ asset[a].status = "reserved"
      /\ \A d \in Challenges : challenge[d].asset # a
      /\ \A p \in Requests : request[p].step = "create" /\ p # q => request[p].asset # a
  BY <1>a DEF AssetsTaken, OneChallengePerAsset, a
<1>1. TypeOK' BY <1>a, <1>b, <1>c, <1>d, <1>e DEF TypeOK
<1>2. AnswersBounded' /\ AnswersCounted'
  <2>1. \A d \in Challenges :
           /\ Answering(d)' \subseteq Answering(d)
           /\ Recording(d)' \subseteq Recording(d)
    BY <1>a, <1>b, <1>c, <1>d, <1>e DEF Answering, Recording
  <2> QED BY <1>a, <1>b, <1>c, <1>d, <1>e, <2>1, CountsKept
<1>3. OneChallengePerAsset'
  BY <1>a, <1>b, <1>c, <1>d, <1>e, SMTT(30) DEF TypeOK, OneChallengePerAsset, AssetsTaken, LocalsFit
<1>4. OpenHasAsset' BY <1>a, <1>b, <1>c, <1>d, <1>e DEF TypeOK, OpenHasAsset, AssetsTaken
<1>5. AvailableIsPooled' BY <1>a, <1>b, <1>c, <1>d, <1>e DEF TypeOK, AvailableIsPooled
<1>6. AssetsTaken' BY <1>a, <1>b, <1>c, <1>d, <1>e DEF TypeOK, AssetsTaken, LocalsFit
<1>7. LocalsFit'
  BY <1>a, <1>b, <1>c, <1>d, <1>e, Members DEF TypeOK, LocalsFit, AssetsTaken, Judging
<1>8. OpenUnlessLate'
  BY <1>a, <1>b, <1>c, <1>d, <1>e, Members, SMTT(30)
  DEF TypeOK, LocalsFit, OpenUnlessLate, Judging, Closed
<1>9. UsedAssets' BY <1>a, <1>b, <1>c, <1>d, <1>e DEF TypeOK, LocalsFit, UsedAssets, Judging
<1> QED BY <1>1, <1>2, <1>3, <1>4, <1>5, <1>6, <1>7, <1>8, <1>9

\* A challenge is read, to be judged or closed because it is over.
LEMMA VerifyReadStep ==
    ASSUME ChallengesInductive, NEW q \in Requests, NEW c \in Challenges, VerifyRead(q, c)
    PROVE  ChallengesInductive'
<1> USE RestingFacts DEF ChallengesInductive, ChallengesRight
<1>a. /\ request[q] = Resting /\ challenge[c].status = "pending"
      /\ UNCHANGED <<asset, generated, pool, astray, challenge, answers>>
  BY DEF VerifyRead
<1>b. /\ challenge[c].asset \in Assets /\ asset[challenge[c].asset].status = "reserved"
      /\ challenge[c].attempts \in Counts
  BY <1>a DEF TypeOK, Challenge, AssetsTaken, OpenHasAsset
<1>c. /\ VerifyRow(c) \in Request /\ VerifyRow(c).challenge = c /\ ~VerifyRow(c).late
      /\ \/ VerifyRow(c).step = "expire" /\ VerifyRow(c).asset = None
         \/ /\ VerifyRow(c).step = "judge" /\ VerifyRow(c).asset = challenge[c].asset
            /\ challenge[c].attempts < MaxAttempts
  <2>1. CASE challenge[c].expired
    BY <2>1 DEF VerifyRow, Request, Resting
  <2>2. CASE ~challenge[c].expired
    BY <1>b, <2>2 DEF VerifyRead, VerifyRow, Request, Resting
  <2> QED BY <2>1, <2>2
<1>d. /\ request' \in [Requests -> Request] /\ request'[q] = VerifyRow(c)
      /\ \A p \in Requests : p # q => request'[p] = request[p]
  BY <1>c DEF VerifyRead, TypeOK
<1>e. \A a \in Assets : asset[a].uses > 0 => a # challenge[c].asset
  BY <1>b DEF UsedAssets
<1>f. \A p \in Requests :
         /\ request[p].challenge = c => request[p].step # "use"
         /\ request[p].challenge \in Challenges \cup {None}
  BY <1>a DEF TypeOK, Request, OpenUnlessLate, Closed
<1>1. TypeOK' BY <1>a, <1>b, <1>c, <1>d, <1>e, <1>f DEF TypeOK
<1>2. AnswersBounded' /\ AnswersCounted'
  <2>1. ASSUME NEW d \in Challenges PROVE Recording(d)' \subseteq Recording(d)
    BY <1>c, <1>d DEF Recording
  <2>2. ASSUME NEW d \in Challenges, d # c PROVE Answering(d)' \subseteq Answering(d)
    BY <1>c, <1>d, <2>2 DEF Answering
  <2>3. CASE VerifyRow(c).step = "judge"
    <3>1. challenge[c].attempts <= MaxAttempts - 1 /\ MaxAttempts \in Nat
      BY <1>b, <1>c, <2>3 DEF Counts
    <3>2. Cardinality(Answering(c)') <= Cardinality(Requests)
      BY CountRequests, CountedRequests
    <3>3. Cardinality(Recording(c)') <= Cardinality(Recording(c))
      BY <2>1, CountRequests, CountedRequests
    <3> QED BY <1>a, <2>1, <2>2, <3>1, <3>2, <3>3, CountsNow, CountsOf
  <2>4. CASE VerifyRow(c).step # "judge"
    <3>1. Answering(c)' \subseteq Answering(c) BY <1>c, <1>d, <2>4 DEF Answering
    <3> QED BY <1>a, <2>1, <2>2, <3>1, CountsKept
  <2> QED BY <2>3, <2>4
<1>3. OneChallengePerAsset'
  BY <1>a, <1>b, <1>c, <1>d, <1>e, <1>f DEF TypeOK, OneChallengePerAsset, AssetsTaken, LocalsFit
<1>4. OpenHasAsset' BY <1>a, <1>b, <1>c, <1>d, <1>e, <1>f DEF TypeOK, OpenHasAsset, AssetsTaken
<1>5. AvailableIsPooled' BY <1>a, <1>b, <1>c, <1>d, <1>e, <1>f DEF TypeOK, AvailableIsPooled
<1>6. AssetsTaken'
  <2>1. \A p \in Requests : request'[p].step = "create" => request'[p] = request[p]
    BY <1>c, <1>d
  <2> QED BY <1>a, <2>1 DEF AssetsTaken
<1>7. LocalsFit' BY <1>a, <1>b, <1>c, <1>d, <1>e, <1>f DEF TypeOK, LocalsFit, AssetsTaken, Judging
<1>8. OpenUnlessLate'
  BY <1>a, <1>b, <1>c, <1>d, <1>e, <1>f DEF TypeOK, LocalsFit, OpenUnlessLate, Judging, Closed
<1>9. UsedAssets' BY <1>a, <1>b, <1>c, <1>d, <1>e, <1>f DEF TypeOK, LocalsFit, UsedAssets, Judging
<1> QED BY <1>1, <1>2, <1>3, <1>4, <1>5, <1>6, <1>7, <1>8, <1>9

\* A challenge that is over is closed.
LEMMA VerifyExpireStep ==
    ASSUME ChallengesInductive, NEW q \in Requests, VerifyExpire(q)
    PROVE  ChallengesInductive'
<1> USE RestingFacts DEF ChallengesInductive, ChallengesRight
<1>0. request[q].step = "expire" BY DEF VerifyExpire
<1>p. PICK c \in Challenges : c = request[q].challenge
  BY <1>0 DEF TypeOK, Request, LocalsFit, Judging
<1>a. /\ request[q].step = "expire" /\ UNCHANGED <<asset, generated, pool, astray, answers>>
  BY <1>p DEF VerifyExpire
<1>b. c \in Challenges /\ challenge[c].status # "absent"
  BY <1>p, <1>a DEF TypeOK, Request, LocalsFit
<1>c. /\ challenge' \in [Challenges -> Challenge] /\ challenge'[c].status = "expired"
      /\ \A d \in Challenges :
            /\ challenge'[d].attempts = challenge[d].attempts
            /\ challenge'[d].asset = challenge[d].asset
            /\ d # c => challenge'[d] = challenge[d]
  BY <1>p, <1>b DEF VerifyExpire, Complete, TypeOK, Challenge
<1>d. request' \in [Requests -> Request] /\ request'[q] = Resting
  BY <1>p, ZenonT(40) DEF VerifyExpire, Complete, TypeOK, Request
<1>e. \A p \in Requests : p # q =>
         /\ request'[p].step = request[p].step /\ request'[p].asset = request[p].asset
         /\ request'[p].challenge = request[p].challenge
         /\ request'[p].verdict = request[p].verdict
         /\ request'[p].late <=> request[p].late \/ request[p].challenge = c
  BY <1>p DEF VerifyExpire, Complete, TypeOK, Request
<1>1. TypeOK' BY <1>p, <1>a, <1>b, <1>c, <1>d, <1>e DEF TypeOK
<1>2. AnswersBounded' /\ AnswersCounted'
  <2>1. \A d \in Challenges :
           /\ Answering(d)' \subseteq Answering(d)
           /\ Recording(d)' \subseteq Recording(d)
    BY <1>p, <1>a, <1>b, <1>c, <1>d, <1>e DEF Answering, Recording
  <2> QED BY <1>p, <1>a, <1>b, <1>c, <1>d, <1>e, <2>1, CountsKept
<1>3. OneChallengePerAsset'
  BY <1>p, <1>a, <1>b, <1>c, <1>d, <1>e DEF TypeOK, OneChallengePerAsset, AssetsTaken, LocalsFit
<1>4. OpenHasAsset' BY <1>p, <1>a, <1>b, <1>c, <1>d, <1>e DEF TypeOK, OpenHasAsset, AssetsTaken
<1>5. AvailableIsPooled' BY <1>p, <1>a, <1>b, <1>c, <1>d, <1>e DEF TypeOK, AvailableIsPooled
<1>6. AssetsTaken'
  BY <1>p, <1>a, <1>b, <1>c, <1>d, <1>e, SMTT(30) DEF TypeOK, AssetsTaken, LocalsFit
<1>7. LocalsFit'
  BY <1>p, <1>a, <1>b, <1>c, <1>d, <1>e, Members DEF TypeOK, LocalsFit, AssetsTaken, Judging
<1>8. OpenUnlessLate'
  BY <1>p, <1>a, <1>b, <1>c, <1>d, <1>e, Members
  DEF TypeOK, LocalsFit, OpenUnlessLate, Judging, Closed
<1>9. UsedAssets' BY <1>p, <1>a, <1>b, <1>c, <1>d, <1>e DEF TypeOK, LocalsFit, UsedAssets, Judging
<1> QED BY <1>1, <1>2, <1>3, <1>4, <1>5, <1>6, <1>7, <1>8, <1>9

\* An answer is judged, right or wrong, unless the asset was used meanwhile.
LEMMA JudgedStep ==
    ASSUME ChallengesInductive, NEW q \in Requests, request[q].step = "judge",
           NEW verdict \in {"open", "passed", "failed"},
           request' = [request EXCEPT ![q] = [@ EXCEPT !.step = "count", !.verdict = verdict]],
           UNCHANGED <<asset, generated, pool, astray, challenge, answers>>
    PROVE  ChallengesInductive'
<1> USE RestingFacts DEF ChallengesInductive, ChallengesRight
<1>a. /\ request' \in [Requests -> Request] /\ request'[q].step = "count"
      /\ request'[q].asset = request[q].asset /\ request'[q].late = request[q].late
      /\ request'[q].challenge = request[q].challenge
      /\ \A p \in Requests : p # q => request'[p] = request[p]
  BY DEF TypeOK, Request
<1>1. TypeOK' BY <1>a DEF TypeOK
<1>2. AnswersBounded' /\ AnswersCounted'
  <2>1. \A d \in Challenges :
           /\ Answering(d)' \subseteq Answering(d)
           /\ Recording(d)' \subseteq Recording(d)
    BY <1>a DEF Answering, Recording
  <2> QED BY <1>a, <2>1, CountsKept
<1>3. OneChallengePerAsset' BY <1>a DEF TypeOK, OneChallengePerAsset, AssetsTaken, LocalsFit
<1>4. OpenHasAsset' BY <1>a DEF TypeOK, OpenHasAsset, AssetsTaken
<1>5. AvailableIsPooled' BY <1>a DEF TypeOK, AvailableIsPooled
<1>6. AssetsTaken' BY <1>a DEF TypeOK, AssetsTaken, LocalsFit
<1>7. LocalsFit' BY <1>a DEF TypeOK, LocalsFit, AssetsTaken, Judging
<1>8. OpenUnlessLate' BY <1>a DEF TypeOK, LocalsFit, OpenUnlessLate, Judging, Closed
<1>9. UsedAssets' BY <1>a DEF TypeOK, LocalsFit, UsedAssets, Judging
<1> QED BY <1>1, <1>2, <1>3, <1>4, <1>5, <1>6, <1>7, <1>8, <1>9

LEMMA VerifyJudgeStep ==
    ASSUME ChallengesInductive, NEW q \in Requests, VerifyJudge(q)
    PROVE  ChallengesInductive'
<1>1. CASE End(q)
  <2>1. pool \in Seq(Assets) /\ astray \subseteq Assets
    BY DEF ChallengesInductive, ChallengesRight, TypeOK
  <2> QED BY <1>1, <2>1, RestingFacts, RequestMoves DEF VerifyJudge, End
<1>2. ASSUME NEW verdict \in {"passed", IF request[q].seen + 1 < MaxAttempts
                                        THEN "open" ELSE "failed"},
             request' = [request EXCEPT ![q] = [@ EXCEPT !.step = "count", !.verdict = verdict]]
      PROVE  ChallengesInductive'
  <2>1. verdict \in {"open", "passed", "failed"} BY <1>2
  <2> QED BY <1>2, <2>1, JudgedStep DEF VerifyJudge
<1> QED BY <1>1, <1>2 DEF VerifyJudge

\* An answer is counted: the request is counted among attempts and no longer among those to come.
LEMMA VerifyCountStep ==
    ASSUME ChallengesInductive, NEW q \in Requests, VerifyCount(q)
    PROVE  ChallengesInductive'
<1> USE RestingFacts DEF ChallengesInductive, ChallengesRight
<1>0. request[q].step = "count" BY DEF VerifyCount
<1>p. PICK c \in Challenges : c = request[q].challenge
  BY <1>0 DEF TypeOK, Request, LocalsFit, Judging
<1>a. /\ request[q].step = "count" /\ UNCHANGED <<asset, generated, pool, astray, answers>>
      /\ request' = [request EXCEPT ![q].step = "record"]
      /\ challenge' = [challenge EXCEPT ![c].attempts = @ + 1]
  BY <1>p DEF VerifyCount, Goto
<1>b. /\ c \in Challenges /\ request[q] \in Request
      /\ challenge[c] \in Challenge /\ challenge[c].attempts \in Nat
  BY <1>p, <1>a, CountsNow DEF TypeOK, Request, LocalsFit, Judging
<1>c. /\ request' \in [Requests -> Request] /\ request'[q].step = "record"
      /\ request'[q].asset = request[q].asset /\ request'[q].late = request[q].late
      /\ request'[q].challenge = c
      /\ \A p \in Requests : p # q => request'[p] = request[p]
  BY <1>p, <1>a, <1>b DEF TypeOK, Request
<1>d. /\ challenge'[c].attempts = challenge[c].attempts + 1
      /\ challenge'[c].status = challenge[c].status
      /\ challenge'[c].asset = challenge[c].asset
      /\ \A d \in Challenges : d # c => challenge'[d] = challenge[d]
  BY <1>a, <1>b DEF TypeOK, Challenge
<1>e. /\ Cardinality(Answering(c)') + 1 <= Cardinality(Answering(c))
      /\ Cardinality(Recording(c)') <= Cardinality(Recording(c)) + 1
  <2>1. q \in Answering(c) BY <1>p, <1>a DEF Answering
  <2>2. Answering(c)' \subseteq Answering(c) \ {q} BY <1>c DEF Answering
  <2>3. Recording(c)' \subseteq Recording(c) \cup {q} BY <1>c DEF Recording
  <2> QED BY <2>1, <2>2, <2>3, CountRequests, CountedRequests
<1>f. challenge' \in [Challenges -> Challenge]
  <2>1. challenge[c].attempts + 1 \in Counts
    BY <1>b, <1>e, CountsNow DEF Counts
  <2> QED BY <1>a, <1>b, <2>1 DEF TypeOK, Challenge
<1>1. TypeOK' BY <1>p, <1>a, <1>b, <1>c, <1>d, <1>f DEF TypeOK
<1>2. AnswersBounded' /\ AnswersCounted'
  <2>1. ASSUME NEW d \in Challenges, d # c
        PROVE  Answering(d)' \subseteq Answering(d) /\ Recording(d)' \subseteq Recording(d)
    BY <1>c, <2>1 DEF Answering, Recording
  <2> QED BY <1>a, <1>b, <1>d, <1>e, <2>1, CountsNow, CountsOf
<1>3. OneChallengePerAsset'
  BY <1>p, <1>a, <1>b, <1>c, <1>d, <1>f DEF TypeOK, OneChallengePerAsset, AssetsTaken, LocalsFit
<1>4. OpenHasAsset' BY <1>p, <1>a, <1>b, <1>c, <1>d, <1>f DEF TypeOK, OpenHasAsset, AssetsTaken
<1>5. AvailableIsPooled' BY <1>p, <1>a, <1>b, <1>c, <1>d, <1>f DEF TypeOK, AvailableIsPooled
<1>6. AssetsTaken'
  BY <1>p, <1>a, <1>b, <1>c, <1>d, <1>f, SMTT(30) DEF TypeOK, AssetsTaken, LocalsFit
<1>7. LocalsFit' BY <1>p, <1>a, <1>b, <1>c, <1>d, <1>f DEF TypeOK, LocalsFit, AssetsTaken, Judging
<1>8. OpenUnlessLate'
  BY <1>p, <1>a, <1>b, <1>c, <1>d, <1>f DEF TypeOK, LocalsFit, OpenUnlessLate, Judging, Closed
<1>9. UsedAssets' BY <1>p, <1>a, <1>b, <1>c, <1>d, <1>f DEF TypeOK, LocalsFit, UsedAssets, Judging
<1> QED BY <1>1, <1>2, <1>3, <1>4, <1>5, <1>6, <1>7, <1>8, <1>9

\* An answer is recorded, after it was counted.
LEMMA VerifyRecordStep ==
    ASSUME ChallengesInductive, NEW q \in Requests, VerifyRecord(q)
    PROVE  ChallengesInductive'
<1> USE RestingFacts DEF ChallengesInductive, ChallengesRight
<1>0. request[q].step = "record" BY DEF VerifyRecord
<1>p. PICK c \in Challenges : c = request[q].challenge
  BY <1>0 DEF TypeOK, Request, LocalsFit, Judging
<1>a. /\ request[q].step = "record" /\ UNCHANGED <<asset, generated, pool, astray, challenge>>
      /\ answers' = [answers EXCEPT ![c] = @ + 1]
  BY <1>p DEF VerifyRecord
<1>b. /\ c \in Challenges /\ request[q] \in Request /\ answers[c] \in Nat
  BY <1>p, <1>a, CountsNow DEF TypeOK, Request, LocalsFit, Judging
<1>c. /\ request' \in [Requests -> Request]
      /\ \/ request'[q] = Resting
         \/ /\ request'[q].step = "close" /\ request'[q].verdict # "open"
            /\ request'[q].asset = request[q].asset /\ request'[q].late = request[q].late
            /\ request'[q].challenge = c
      /\ \A p \in Requests : p # q => request'[p] = request[p]
  <2>1. CASE request[q].verdict = "open" /\ End(q)
    BY <1>p, <1>b, <2>1 DEF TypeOK, End
  <2>2. CASE request[q].verdict # "open" /\ Goto(q, "close")
    BY <1>p, <1>b, <2>2 DEF TypeOK, Goto, Request
  <2> QED BY <2>1, <2>2 DEF VerifyRecord
<1>d. /\ answers'[c] = answers[c] + 1
      /\ \A d \in Challenges : d # c => answers'[d] = answers[d]
  BY <1>a, <1>b DEF TypeOK
<1>e. /\ Cardinality(Recording(c)') + 1 <= Cardinality(Recording(c))
      /\ Cardinality(Answering(c)') <= Cardinality(Answering(c))
  <2>1. q \in Recording(c) BY <1>p, <1>a DEF Recording
  <2>2. Recording(c)' \subseteq Recording(c) \ {q} BY <1>c DEF Recording
  <2>3. Answering(c)' \subseteq Answering(c) BY <1>c DEF Answering
  <2> QED BY <2>1, <2>2, <2>3, CountRequests, CountedRequests
<1>f. answers' \in [Challenges -> Counts]
  <2>1. answers[c] + 1 \in Counts
    BY <1>b, <1>e, CountsNow DEF Counts
  <2> QED BY <1>a, <1>b, <2>1 DEF TypeOK
<1>1. TypeOK' BY <1>p, <1>a, <1>b, <1>c, <1>f DEF TypeOK
<1>2. AnswersBounded' /\ AnswersCounted'
  <2>1. ASSUME NEW d \in Challenges, d # c
        PROVE  Answering(d)' \subseteq Answering(d) /\ Recording(d)' \subseteq Recording(d)
    BY <1>c, <2>1 DEF Answering, Recording
  <2> QED BY <1>a, <1>b, <1>d, <1>e, <2>1, CountsNow, CountsOf
<1>3. OneChallengePerAsset'
  BY <1>p, <1>a, <1>b, <1>c, <1>f, SMTT(30) DEF TypeOK, OneChallengePerAsset, AssetsTaken, LocalsFit
<1>4. OpenHasAsset' BY <1>p, <1>a, <1>b, <1>c, <1>f DEF TypeOK, OpenHasAsset, AssetsTaken
<1>5. AvailableIsPooled' BY <1>p, <1>a, <1>b, <1>c, <1>f DEF TypeOK, AvailableIsPooled
<1>6. AssetsTaken' BY <1>p, <1>a, <1>b, <1>c, <1>f DEF TypeOK, AssetsTaken, LocalsFit
<1>7. LocalsFit' BY <1>p, <1>a, <1>b, <1>c, <1>f DEF TypeOK, LocalsFit, AssetsTaken, Judging
<1>8. OpenUnlessLate'
  BY <1>p, <1>a, <1>b, <1>c, <1>f, Members DEF TypeOK, LocalsFit, OpenUnlessLate, Judging, Closed
<1>9. UsedAssets'
  BY <1>p, <1>a, <1>b, <1>c, <1>f, Members DEF TypeOK, LocalsFit, UsedAssets, Judging
<1> QED BY <1>1, <1>2, <1>3, <1>4, <1>5, <1>6, <1>7, <1>8, <1>9

\* A challenge is closed, passed or failed; the others who have read it are late.
LEMMA VerifyCloseStep ==
    ASSUME ChallengesInductive, NEW q \in Requests, VerifyClose(q)
    PROVE  ChallengesInductive'
<1> USE RestingFacts DEF ChallengesInductive, ChallengesRight
<1>0. request[q].step = "close" BY DEF VerifyClose
<1>p. PICK c \in Challenges : c = request[q].challenge
  BY <1>0 DEF TypeOK, Request, LocalsFit, Judging
<1>a. /\ request[q].step = "close" /\ UNCHANGED <<asset, generated, pool, astray, answers>>
  BY <1>p DEF VerifyClose
<1>b. /\ c \in Challenges /\ challenge[c].status # "absent"
      /\ request[q].verdict \in {"passed", "failed"}
  BY <1>p, <1>a DEF TypeOK, Request, LocalsFit, AssetsTaken, Judging
<1>c. /\ challenge' \in [Challenges -> Challenge] /\ challenge'[c].status \in {"passed", "failed"}
      /\ \A d \in Challenges :
            /\ challenge'[d].attempts = challenge[d].attempts
            /\ challenge'[d].asset = challenge[d].asset
            /\ d # c => challenge'[d] = challenge[d]
  <2>1. challenge' = [challenge EXCEPT ![c].status = request[q].verdict]
    BY <1>p DEF VerifyClose, Complete
  <2> QED BY <1>b, <2>1, SMTT(30) DEF TypeOK, Challenge
<1>d. /\ request' \in [Requests -> Request] /\ request'[q].step = "use"
      /\ request'[q].asset = request[q].asset /\ request'[q].late = request[q].late
      /\ request'[q].challenge = c /\ request'[q].verdict = request[q].verdict
  BY <1>p, ZenonT(40) DEF VerifyClose, Complete, TypeOK, Request
<1>e. \A p \in Requests : p # q =>
         /\ request'[p].step = request[p].step /\ request'[p].asset = request[p].asset
         /\ request'[p].challenge = request[p].challenge
         /\ request'[p].verdict = request[p].verdict
         /\ request'[p].late <=> request[p].late \/ request[p].challenge = c
  BY <1>p DEF VerifyClose, Complete, TypeOK, Request
<1>f. \A p \in Requests : request[p].challenge \in Challenges \cup {None}
  BY DEF TypeOK, Request
<1>1. TypeOK' BY <1>p, <1>a, <1>b, <1>c, <1>d, <1>e, <1>f DEF TypeOK
<1>2. AnswersBounded' /\ AnswersCounted'
  <2>1. \A d \in Challenges :
           /\ Answering(d)' \subseteq Answering(d)
           /\ Recording(d)' \subseteq Recording(d)
    BY <1>p, <1>a, <1>b, <1>c, <1>d, <1>e, <1>f DEF Answering, Recording
  <2> QED BY <1>p, <1>a, <1>b, <1>c, <1>d, <1>e, <1>f, <2>1, CountsKept
<1>3. OneChallengePerAsset'
  <2>1. \A d \in Challenges : challenge'[d].asset = challenge[d].asset BY <1>c
  <2>2. \A p \in Requests : request'[p].step = "create" =>
           request[p].step = "create" /\ request'[p].asset = request[p].asset
    BY <1>d, <1>e
  <2> QED BY <2>1, <2>2 DEF OneChallengePerAsset
<1>4. OpenHasAsset'
  BY <1>p, <1>a, <1>b, <1>c, <1>d, <1>e, <1>f DEF TypeOK, OpenHasAsset, AssetsTaken
<1>5. AvailableIsPooled' BY <1>p, <1>a, <1>b, <1>c, <1>d, <1>e, <1>f DEF TypeOK, AvailableIsPooled
<1>6. AssetsTaken'
  BY <1>p, <1>a, <1>b, <1>c, <1>d, <1>e, <1>f, SMTT(30) DEF TypeOK, AssetsTaken, LocalsFit
<1>7. LocalsFit'
  BY <1>p, <1>a, <1>b, <1>c, <1>d, <1>e, <1>f DEF TypeOK, LocalsFit, AssetsTaken, Judging
<1>8. OpenUnlessLate'
  BY <1>p, <1>a, <1>b, <1>c, <1>d, <1>e, <1>f DEF TypeOK, LocalsFit, OpenUnlessLate, Judging, Closed
<1>9. UsedAssets'
  BY <1>p, <1>a, <1>b, <1>c, <1>d, <1>e, <1>f DEF TypeOK, LocalsFit, UsedAssets, Judging
<1> QED BY <1>1, <1>2, <1>3, <1>4, <1>5, <1>6, <1>7, <1>8, <1>9

\* An asset is used; whoever else has read its challenge is late.
LEMMA VerifyUseStep ==
    ASSUME ChallengesInductive, NEW q \in Requests, VerifyUse(q)
    PROVE  ChallengesInductive'
<1> USE RestingFacts DEF ChallengesInductive, ChallengesRight
<1> DEFINE a == request[q].asset
           c == request[q].challenge
<1>a. /\ request[q].step = "use" /\ UNCHANGED <<generated, pool, astray, challenge, answers>>
  BY DEF VerifyUse
<1>b. /\ a \in Assets /\ c \in Challenges /\ challenge[c].asset = a
      /\ challenge[c].status # "pending"
  BY <1>a DEF TypeOK, Request, LocalsFit, OpenUnlessLate, Judging, Closed
<1>c. /\ asset' \in [Assets -> Asset] /\ asset'[a].status = "used"
      /\ \A b \in Assets : b # a => asset'[b] = asset[b]
  BY <1>b DEF VerifyUse, TypeOK, Asset
<1>d. /\ request' \in [Requests -> Request] /\ request'[q] = Resting
      /\ \A p \in Requests : p # q => request'[p] = request[p]
  BY DEF VerifyUse, End, TypeOK
<1>e. \A d \in Challenges : d # c => challenge[d].asset # a
  BY <1>b DEF OneChallengePerAsset
<1>f. \A p \in Requests : request[p].asset = a /\ request[p].challenge # None /\ p # q
         => request[p].late
  <2>1. \A p \in Requests : request[p].challenge # None /\ request[p].asset # None
           => /\ request[p].challenge \in Challenges
              /\ challenge[request[p].challenge].asset = request[p].asset
    BY DEF TypeOK, Request, LocalsFit, Judging
  <2>2. \A p \in Requests : request[p].asset = a /\ request[p].challenge # None
           => request[p].challenge = c
    BY <1>b, <1>e, <2>1
  <2> QED BY <1>a, <1>b, <2>2 DEF OpenUnlessLate
<1>g. \A p \in Requests : request[p].step = "create" => request[p].asset # a
  BY <1>b DEF OneChallengePerAsset
<1> HIDE DEF a, c
<1>1. TypeOK' BY <1>a, <1>b, <1>c, <1>d, <1>e, <1>f, <1>g DEF TypeOK
<1>2. AnswersBounded' /\ AnswersCounted'
  <2>1. \A d \in Challenges :
           /\ Answering(d)' \subseteq Answering(d)
           /\ Recording(d)' \subseteq Recording(d)
    BY <1>a, <1>b, <1>c, <1>d, <1>e, <1>f, <1>g DEF Answering, Recording
  <2> QED BY <1>a, <1>b, <1>c, <1>d, <1>e, <1>f, <1>g, <2>1, CountsKept
<1>3. OneChallengePerAsset'
  BY <1>a, <1>b, <1>c, <1>d, <1>e, <1>f, <1>g
  DEF TypeOK, OneChallengePerAsset, AssetsTaken, LocalsFit
<1>4. OpenHasAsset'
  BY <1>a, <1>b, <1>c, <1>d, <1>e, <1>f, <1>g, Members DEF TypeOK, OpenHasAsset, AssetsTaken
<1>5. AvailableIsPooled' BY <1>a, <1>b, <1>c, <1>d, <1>e, <1>f, <1>g DEF TypeOK, AvailableIsPooled
<1>6. AssetsTaken'
  BY <1>a, <1>b, <1>c, <1>d, <1>e, <1>f, <1>g, Members DEF TypeOK, AssetsTaken, LocalsFit
<1>7. LocalsFit'
  BY <1>a, <1>b, <1>c, <1>d, <1>e, <1>f, <1>g DEF TypeOK, LocalsFit, AssetsTaken, Judging
<1>8. OpenUnlessLate'
  BY <1>a, <1>b, <1>c, <1>d, <1>e, <1>f, <1>g, SMTT(30)
  DEF TypeOK, LocalsFit, OpenUnlessLate, Judging, Closed
<1>9. UsedAssets'
  BY <1>a, <1>b, <1>c, <1>d, <1>e, <1>f, <1>g DEF TypeOK, LocalsFit, UsedAssets, Judging
<1> QED BY <1>1, <1>2, <1>3, <1>4, <1>5, <1>6, <1>7, <1>8, <1>9

\* Assets are generated.
LEMMA GenerateStep ==
    ASSUME ChallengesInductive, NEW a \in Assets, Generate(a)
    PROVE  ChallengesInductive'
<1> USE RestingFacts DEF ChallengesInductive, ChallengesRight
<1>a. /\ asset[a].status = "absent" /\ generated' = generated \cup {a}
      /\ UNCHANGED <<pool, astray, challenge, answers, request>>
  BY DEF Generate
<1>b. /\ asset' \in [Assets -> Asset] /\ asset'[a].status = "available"
      /\ asset'[a].uses = asset[a].uses
      /\ \A b \in Assets : b # a => asset'[b] = asset[b]
  BY DEF Generate, TypeOK, Asset
<1>1. TypeOK' BY <1>a, <1>b DEF TypeOK
<1>2. AnswersBounded' /\ AnswersCounted'
  <2>1. \A d \in Challenges :
           /\ Answering(d)' \subseteq Answering(d)
           /\ Recording(d)' \subseteq Recording(d)
    BY <1>a, <1>b DEF Answering, Recording
  <2> QED BY <1>a, <1>b, <2>1, CountsKept
<1>3. OneChallengePerAsset' BY <1>a, <1>b DEF TypeOK, OneChallengePerAsset, AssetsTaken, LocalsFit
<1>4. OpenHasAsset' BY <1>a, <1>b, Members DEF TypeOK, OpenHasAsset, AssetsTaken
<1>5. AvailableIsPooled' BY <1>a, <1>b DEF TypeOK, AvailableIsPooled
<1>6. AssetsTaken' BY <1>a, <1>b, Members DEF TypeOK, AssetsTaken, LocalsFit
<1>7. LocalsFit' BY <1>a, <1>b DEF TypeOK, LocalsFit, AssetsTaken, Judging
<1>8. OpenUnlessLate' BY <1>a, <1>b DEF TypeOK, LocalsFit, OpenUnlessLate, Judging, Closed
<1>9. UsedAssets' BY <1>a, <1>b DEF TypeOK, LocalsFit, UsedAssets, Judging
<1> QED BY <1>1, <1>2, <1>3, <1>4, <1>5, <1>6, <1>7, <1>8, <1>9

\* Assets are pushed to the list, or lost.
LEMMA PushStep ==
    ASSUME ChallengesInductive, NEW a \in Assets, Push(a)
    PROVE  ChallengesInductive'
<1> USE RestingFacts DEF ChallengesInductive, ChallengesRight
<1>a. /\ generated' = generated \ {a}
      /\ UNCHANGED <<asset, challenge, answers, request>>
  BY DEF Push
<1>b. /\ pool' \in Seq(Assets) /\ astray' \subseteq Assets
      /\ ToSet(pool) \subseteq ToSet(pool') /\ astray \subseteq astray'
      /\ a \in ToSet(pool') \cup astray'
  <2>1. pool \in Seq(Assets) /\ astray \subseteq Assets BY DEF TypeOK
  <2>2. CASE pool' \in {<<a>> \o pool, <<a, a>> \o pool} /\ UNCHANGED astray
    BY <2>1, <2>2, PushedList
  <2>3. CASE astray' = astray \cup {a} /\ UNCHANGED pool BY <2>1, <2>3
  <2> QED BY <2>2, <2>3 DEF Push
<1>1. TypeOK' BY <1>a, <1>b DEF TypeOK
<1>2. AnswersBounded' /\ AnswersCounted'
  <2>1. \A d \in Challenges :
           /\ Answering(d)' \subseteq Answering(d)
           /\ Recording(d)' \subseteq Recording(d)
    BY <1>a, <1>b DEF Answering, Recording
  <2> QED BY <1>a, <1>b, <2>1, CountsKept
<1>3. OneChallengePerAsset' BY <1>a, <1>b DEF TypeOK, OneChallengePerAsset, AssetsTaken, LocalsFit
<1>4. OpenHasAsset' BY <1>a, <1>b DEF TypeOK, OpenHasAsset, AssetsTaken
<1>5. AvailableIsPooled' BY <1>a, <1>b DEF TypeOK, AvailableIsPooled
<1>6. AssetsTaken' BY <1>a, <1>b DEF TypeOK, AssetsTaken, LocalsFit
<1>7. LocalsFit' BY <1>a, <1>b DEF TypeOK, LocalsFit, AssetsTaken, Judging
<1>8. OpenUnlessLate' BY <1>a, <1>b DEF TypeOK, LocalsFit, OpenUnlessLate, Judging, Closed
<1>9. UsedAssets' BY <1>a, <1>b DEF TypeOK, LocalsFit, UsedAssets, Judging
<1> QED BY <1>1, <1>2, <1>3, <1>4, <1>5, <1>6, <1>7, <1>8, <1>9

\* An asset nobody has taken expires.
LEMMA ExpireAssetStep ==
    ASSUME ChallengesInductive, NEW a \in Assets, ExpireAsset(a)
    PROVE  ChallengesInductive'
<1> USE RestingFacts DEF ChallengesInductive, ChallengesRight
<1>a. UNCHANGED <<generated, pool, astray, challenge, answers, request>>
  BY DEF ExpireAsset
<1>b. /\ asset' \in [Assets -> Asset] /\ asset'[a].expired
      /\ \A b \in Assets :
            /\ asset'[b].status = asset[b].status /\ asset'[b].uses = asset[b].uses
            /\ b # a => asset'[b] = asset[b]
  BY DEF ExpireAsset, TypeOK, Asset
<1>1. TypeOK' BY <1>a, <1>b DEF TypeOK
<1>2. AnswersBounded' /\ AnswersCounted'
  <2>1. \A d \in Challenges :
           /\ Answering(d)' \subseteq Answering(d)
           /\ Recording(d)' \subseteq Recording(d)
    BY <1>a, <1>b DEF Answering, Recording
  <2> QED BY <1>a, <1>b, <2>1, CountsKept
<1>3. OneChallengePerAsset' BY <1>a, <1>b DEF TypeOK, OneChallengePerAsset, AssetsTaken, LocalsFit
<1>4. OpenHasAsset'
  <2>1. \A c \in Challenges : challenge[c].status = "pending" => challenge[c].asset \in Assets
    BY Members DEF AssetsTaken
  <2> QED BY <1>a, <1>b, <2>1 DEF OpenHasAsset
<1>5. AvailableIsPooled' BY <1>a, <1>b DEF TypeOK, AvailableIsPooled
<1>6. AssetsTaken' BY <1>a, <1>b, Members DEF TypeOK, AssetsTaken, LocalsFit
<1>7. LocalsFit' BY <1>a, <1>b DEF TypeOK, LocalsFit, AssetsTaken, Judging
<1>8. OpenUnlessLate' BY <1>a, <1>b DEF TypeOK, LocalsFit, OpenUnlessLate, Judging, Closed
<1>9. UsedAssets' BY <1>a, <1>b DEF TypeOK, LocalsFit, UsedAssets, Judging
<1> QED BY <1>1, <1>2, <1>3, <1>4, <1>5, <1>6, <1>7, <1>8, <1>9

\* A challenge expires.
LEMMA ExpireChallengeStep ==
    ASSUME ChallengesInductive, NEW c \in Challenges, ExpireChallenge(c)
    PROVE  ChallengesInductive'
<1> USE RestingFacts DEF ChallengesInductive, ChallengesRight
<1>a. UNCHANGED <<asset, generated, pool, astray, answers, request>>
  BY DEF ExpireChallenge
<1>b. /\ challenge' \in [Challenges -> Challenge]
      /\ \A d \in Challenges :
            /\ challenge'[d].status = challenge[d].status
            /\ challenge'[d].asset = challenge[d].asset
            /\ challenge'[d].attempts = challenge[d].attempts
  BY DEF ExpireChallenge, TypeOK, Challenge
<1>1. TypeOK' BY <1>a, <1>b DEF TypeOK
<1>2. AnswersBounded' /\ AnswersCounted'
  <2>1. \A d \in Challenges :
           /\ Answering(d)' \subseteq Answering(d)
           /\ Recording(d)' \subseteq Recording(d)
    BY <1>a, <1>b DEF Answering, Recording
  <2> QED BY <1>a, <1>b, <2>1, CountsKept
<1>3. OneChallengePerAsset' BY <1>a, <1>b DEF TypeOK, OneChallengePerAsset, AssetsTaken, LocalsFit
<1>4. OpenHasAsset' BY <1>a, <1>b DEF TypeOK, OpenHasAsset, AssetsTaken
<1>5. AvailableIsPooled' BY <1>a, <1>b DEF TypeOK, AvailableIsPooled
<1>6. AssetsTaken' BY <1>a, <1>b DEF TypeOK, AssetsTaken, LocalsFit
<1>7. LocalsFit' BY <1>a, <1>b, Members DEF TypeOK, LocalsFit, AssetsTaken, Judging
<1>8. OpenUnlessLate' BY <1>a, <1>b, Members DEF TypeOK, LocalsFit, OpenUnlessLate, Judging, Closed
<1>9. UsedAssets' BY <1>a, <1>b DEF TypeOK, LocalsFit, UsedAssets, Judging
<1> QED BY <1>1, <1>2, <1>3, <1>4, <1>5, <1>6, <1>7, <1>8, <1>9

-----------------------------------------------------------------------------
(* The theorems *)

LEMMA InitChallenges == Init => ChallengesInductive
<1> SUFFICES ASSUME Init PROVE ChallengesInductive OBVIOUS
<1> USE RestingFacts DEF Init
<1>1. TypeOK
  <2>1. 0 \in Counts BY RestingFacts DEF Request
  <2>2. asset \in [Assets -> Asset] BY DEF Asset
  <2>3. challenge \in [Challenges -> Challenge] BY <2>1 DEF Challenge
  <2>4. pool \in Seq(Assets) BY EmptySeq
  <2> QED BY <2>1, <2>2, <2>3, <2>4 DEF TypeOK
<1>2. AnswersBounded /\ AnswersCounted
  <2> SUFFICES ASSUME NEW c \in Challenges
               PROVE  /\ Cardinality(Answering(c)) <= MaxAttempts - 1 + Cardinality(Requests)
                      /\ Cardinality(Recording(c)) = 0
    <3>1. \A c \in Challenges : answers[c] = 0 /\ challenge[c].attempts = 0 OBVIOUS
    <3>2. \A c \in Challenges :
             Cardinality(Answering(c)) \in Nat /\ Cardinality(Recording(c)) \in Nat
      BY CountedRequests, FS_Subset, FS_CardinalityType
    <3> QED BY <3>1, <3>2 DEF AnswersBounded, AnswersCounted
  <2>1. Answering(c) = {} /\ Recording(c) = {} BY DEF Answering, Recording
  <2>2. Cardinality(Requests) \in Nat /\ Cardinality({}) = 0 BY FS_CardinalityType, FS_EmptySet
  <2> QED BY <2>1, <2>2
<1>3. OneChallengePerAsset /\ OpenHasAsset /\ AvailableIsPooled
  BY DEF OneChallengePerAsset, OpenHasAsset, AvailableIsPooled
<1>4. AssetsTaken /\ LocalsFit BY DEF AssetsTaken, LocalsFit, Judging
<1>5. OpenUnlessLate /\ UsedAssets BY DEF OpenUnlessLate, UsedAssets
<1> QED BY <1>1, <1>2, <1>3, <1>4, <1>5 DEF ChallengesInductive, ChallengesRight

LEMMA StutterChallenges ==
    ASSUME ChallengesInductive, UNCHANGED vars
    PROVE  ChallengesInductive'
<1> USE DEF ChallengesInductive, ChallengesRight, vars
<1>1. TypeOK' BY DEF TypeOK
<1>2. AnswersBounded' /\ AnswersCounted'
  BY CountsKept DEF Answering, Recording
<1>3. OneChallengePerAsset' /\ OpenHasAsset' /\ AvailableIsPooled'
  BY DEF OneChallengePerAsset, OpenHasAsset, AvailableIsPooled
<1>4. AssetsTaken' /\ LocalsFit' BY DEF AssetsTaken, LocalsFit
<1>5. OpenUnlessLate' /\ UsedAssets' BY DEF OpenUnlessLate, UsedAssets
<1> QED BY <1>1, <1>2, <1>3, <1>4, <1>5

LEMMA NextChallenges == ChallengesInductive /\ [Next]_vars => ChallengesInductive'
<1> SUFFICES ASSUME ChallengesInductive, [Next]_vars PROVE ChallengesInductive' OBVIOUS
<1>1. ASSUME NEW a \in Assets, Generate(a) \/ Push(a) \/ ExpireAsset(a)
      PROVE  ChallengesInductive'
  BY <1>1, GenerateStep, PushStep, ExpireAssetStep
<1>2. ASSUME NEW c \in Challenges, ExpireChallenge(c) PROVE ChallengesInductive'
  BY <1>2, ExpireChallengeStep
<1>3. ASSUME NEW q \in Requests,
             \/ Start(q) \/ Pop(q) \/ Reserve(q) \/ Die(q)
             \/ \E c \in Challenges : CreateChallenge(q, c) \/ VerifyRead(q, c)
      PROVE  ChallengesInductive'
  BY <1>3, StartStep, PopStep, ReserveStep, DieStep, CreateChallengeStep, VerifyReadStep
<1>4. ASSUME NEW q \in Requests,
             \/ VerifyExpire(q) \/ VerifyJudge(q) \/ VerifyCount(q) \/ VerifyRecord(q)
             \/ VerifyClose(q) \/ VerifyUse(q)
      PROVE  ChallengesInductive'
  BY <1>4, VerifyExpireStep, VerifyJudgeStep, VerifyCountStep, VerifyRecordStep,
     VerifyCloseStep, VerifyUseStep
<1>5. CASE UNCHANGED vars BY <1>5, StutterChallenges
<1> QED BY <1>1, <1>2, <1>3, <1>4, <1>5 DEF Next

\* The inductive invariant holds in every reachable state.
THEOREM ChallengesInvariance == Spec => []ChallengesInductive
BY InitChallenges, NextChallenges, PTL DEF Spec

\* However handlers of CreateCaptchaChallenge and VerifyCaptchaChallenge interleave and
\* die, and whatever Redis does twice: no asset serves two challenges, answers are counted
\* and stay within MaxAttempts and those in flight, a challenge that is open has its asset,
\* and an asset that is good can still be handed out: ChallengesRight.
THEOREM ChallengesAreRight == Spec => []ChallengesRight
BY ChallengesInvariance, PTL DEF ChallengesInductive

\* A step that changes the status of a closed challenge is one of a late request.
LEMMA ClosedByLate ==
    ASSUME ChallengesInductive, [Next]_vars, NEW c \in Challenges,
           challenge[c].status \in Closed, challenge'[c].status # challenge[c].status
    PROVE  \E q \in Requests : /\ request[q].late /\ request[q].challenge = c
                              /\ request[q].step \in {"close", "expire"}
<1> USE DEF ChallengesInductive, ChallengesRight
<1>1. challenge' # challenge OBVIOUS
<1>2. challenge \in [Challenges -> Challenge] BY DEF TypeOK
<1>3. ASSUME NEW q \in Requests, VerifyExpire(q) \/ VerifyClose(q)
      PROVE  request[q].late /\ request[q].challenge = c /\ request[q].step \in {"close", "expire"}
  <2>1. request[q].step \in {"close", "expire"} BY <1>3 DEF VerifyExpire, VerifyClose
  <2>2. request[q].challenge = c
    BY <1>2, <1>3, <2>1 DEF VerifyExpire, VerifyClose, Complete, Challenge
  <2>3. c # None OBVIOUS
  <2> QED BY <2>1, <2>2, <2>3 DEF OpenUnlessLate, Closed, TypeOK, Request
<1>4. ASSUME NEW q \in Requests, NEW d \in Challenges, CreateChallenge(q, d) PROVE FALSE
  BY <1>2, <1>4 DEF CreateChallenge, Challenge, Closed
<1>5. ASSUME NEW d \in Challenges, ExpireChallenge(d) PROVE FALSE
  BY <1>2, <1>5 DEF ExpireChallenge, Challenge, Closed
<1>6. ASSUME NEW q \in Requests, VerifyCount(q) PROVE FALSE
  BY <1>2, <1>6 DEF VerifyCount, Challenge
<1>7. \/ \E q \in Requests : VerifyExpire(q) \/ VerifyClose(q) \/ VerifyCount(q)
      \/ \E q \in Requests, d \in Challenges : CreateChallenge(q, d)
      \/ \E d \in Challenges : ExpireChallenge(d)
  BY <1>1 DEF Next, vars, Generate, Push, ExpireAsset, Start, Pop, Reserve, VerifyRead,
     VerifyJudge, VerifyRecord, VerifyUse, Die
<1> QED BY <1>3, <1>4, <1>5, <1>6, <1>7

\* A step that uses an asset again is one of a late request.
LEMMA UsedByLate ==
    ASSUME ChallengesInductive, [Next]_vars, NEW a \in Assets,
           asset[a].uses > 0, asset'[a].uses # asset[a].uses
    PROVE  \E q \in Requests : /\ request[q].late /\ request[q].asset = a
                              /\ request[q].step = "use"
<1> USE DEF ChallengesInductive, ChallengesRight
<1>1. asset' # asset OBVIOUS
<1>2. asset \in [Assets -> Asset] BY DEF TypeOK
<1>3. ASSUME NEW q \in Requests, VerifyUse(q)
      PROVE  request[q].late /\ request[q].asset = a /\ request[q].step = "use"
  <2>1. request[q].step = "use" BY <1>3 DEF VerifyUse
  <2>2. request[q].asset = a BY <1>2, <1>3 DEF VerifyUse, Asset
  <2>3. request[q].challenge # None BY <2>1 DEF LocalsFit, Judging
  <2> QED BY <2>1, <2>2, <2>3 DEF UsedAssets
<1>4. ASSUME NEW b \in Assets, Generate(b) \/ ExpireAsset(b) PROVE FALSE
  BY <1>2, <1>4 DEF Generate, ExpireAsset, Asset
<1>5. ASSUME NEW q \in Requests, Reserve(q) PROVE FALSE
  BY <1>2, <1>5 DEF Reserve, Asset
<1>6. \/ \E q \in Requests : VerifyUse(q) \/ Reserve(q)
      \/ \E b \in Assets : Generate(b) \/ ExpireAsset(b)
  BY <1>1 DEF Next, vars, Push, ExpireChallenge, Start, Pop, CreateChallenge, VerifyRead,
     VerifyExpire, VerifyJudge, VerifyCount, VerifyRecord, VerifyClose, Die
<1> QED BY <1>3, <1>4, <1>5, <1>6

\* A challenge that was closed keeps its status and its asset is used once, unless a
\* request that had read the challenge while it was open closes it again: ClosedOnce.
THEOREM ClosedStaysClosed == Spec => ClosedOnce
<1>1. ASSUME ChallengesInductive, [Next]_vars
      PROVE  \A c \in Challenges :
                /\ challenge[c].status \in {"passed", "failed", "expired"}
                /\ challenge'[c].status # challenge[c].status
                => \E q \in Requests : /\ request[q].late /\ request[q].challenge = c
                                      /\ request[q].step \in {"close", "expire"}
  BY <1>1, ClosedByLate DEF Closed
<1>2. ASSUME ChallengesInductive, [Next]_vars
      PROVE  \A a \in Assets :
                asset[a].uses > 0 /\ asset'[a].uses # asset[a].uses
                => \E q \in Requests : /\ request[q].late /\ request[q].asset = a
                                      /\ request[q].step = "use"
  BY <1>2, UsedByLate
<1> QED BY <1>1, <1>2, ChallengesInvariance, PTL DEF Spec, ClosedOnce

USE CaptchaAuthoringAssumption

-----------------------------------------------------------------------------
(* The inductive invariant of the administration *)

AdminTypes ==
    /\ created \subseteq Templates
    /\ config \in [Configs -> Config \cup {Nothing}]
    /\ admin \in [Admins -> Admin]
    /\ alone \in [Templates -> BOOLEAN]

\* The version a draft has read is taken by now, or the next one.
DraftsFit ==
    \A p \in Admins : admin[p].step = "insert" =>
        /\ admin[p].template \in Templates
        /\ admin[p].version \in 1 .. Cardinality(ConfigsOf(admin[p].template)) + 1

\* An activation has a configuration of its template before it.
ActivationsFit ==
    \A p \in Admins : admin[p].step = "activate" =>
        /\ admin[p].template \in Templates
        /\ admin[p].config \in ConfigsOf(admin[p].template)

\* An activation that is alone has archived whatever was active, and leaves its own.
AloneFits ==
    \A t \in Templates : alone[t] =>
        /\ Activating(t) = {} => \E c \in Configs : ActiveConfigs(t) = {c}
        /\ \A p \in Activating(t) : Activating(t) = {p} /\ ActiveConfigs(t) = {}

AdministrationInductive ==
    AdminTypes /\ VersionsContiguous /\ DraftsFit /\ ActivationsFit /\ AloneFits

-----------------------------------------------------------------------------
(* Versions *)

\* The configurations of a template are a finite set, smaller than all the ids as long as
\* an id is free.
LEMMA CountConfigs ==
    ASSUME NEW t
    PROVE  /\ ConfigsOf(t) \subseteq Configs
           /\ IsFiniteSet(ConfigsOf(t))
           /\ Cardinality(ConfigsOf(t)) \in Nat /\ Cardinality(Configs) \in Nat
           /\ Cardinality(ConfigsOf(t)) <= Cardinality(Configs)
           /\ \A c \in Configs : c \notin ConfigsOf(t) =>
                 /\ Cardinality(ConfigsOf(t)) < Cardinality(Configs)
                 /\ Cardinality(ConfigsOf(t) \cup {c}) = Cardinality(ConfigsOf(t)) + 1
<1>1. ConfigsOf(t) \subseteq Configs BY DEF ConfigsOf
<1>2. IsFiniteSet(ConfigsOf(t)) BY <1>1, FS_Subset
<1>3. Cardinality(ConfigsOf(t)) \in Nat /\ Cardinality(Configs) \in Nat
  BY <1>2, FS_CardinalityType
<1>4. Cardinality(ConfigsOf(t)) <= Cardinality(Configs) BY <1>1, FS_Subset
<1>5. ASSUME NEW c \in Configs, c \notin ConfigsOf(t)
      PROVE  /\ Cardinality(ConfigsOf(t)) < Cardinality(Configs)
             /\ Cardinality(ConfigsOf(t) \cup {c}) = Cardinality(ConfigsOf(t)) + 1
  <2>1. Cardinality(ConfigsOf(t) \cup {c}) = Cardinality(ConfigsOf(t)) + 1
    BY <1>2, <1>5, FS_AddElement
  <2>2. Cardinality(ConfigsOf(t) \cup {c}) <= Cardinality(Configs) BY <1>1, FS_Subset
  <2> QED BY <1>3, <2>1, <2>2
<1> QED BY <1>1, <1>2, <1>3, <1>4, <1>5

\* The version that a draft reads, when the versions are contiguous, is their count and one.
LEMMA NextVersion ==
    ASSUME VersionsContiguous, NEW t \in Templates
    PROVE  NextConfigVersion(t) = Cardinality(ConfigsOf(t)) + 1
<1> DEFINE k == Cardinality(ConfigsOf(t))
<1>1. k \in Nat BY CountConfigs
<1>2. {config[c].version : c \in ConfigsOf(t)} = 1 .. k BY DEF VersionsContiguous
<1> HIDE DEF k
<1>3. Max(1 .. k \cup {0}) = k
  <2>1. k \in 1 .. k \cup {0} /\ \A y \in 1 .. k \cup {0} : k >= y BY <1>1
  <2>2. \A x \in 1 .. k \cup {0} : (\A y \in 1 .. k \cup {0} : x >= y) => x = k BY <1>1
  <2> QED BY <2>1, <2>2 DEF Max
<1> QED BY <1>2, <1>3 DEF NextConfigVersion, k

-----------------------------------------------------------------------------
(* One step of the administration *)

\* What configurations and requests hold.
LEMMA AdminMembers ==
    ASSUME AdminTypes
    PROVE  /\ \A c \in Configs : config[c] # Nothing => config[c] \in Config
           /\ \A c \in Configs : config[c] # Nothing =>
                 /\ config[c].template \in Templates
                 /\ config[c].version \in Versions
                 /\ config[c].status \in Statuses
           /\ \A p \in Admins : /\ admin[p].step \in {"rest", "insert", "activate"}
                                /\ admin[p].template \in Templates \cup {Nothing}
                                /\ admin[p].config \in Configs \cup {Nothing}
                                /\ admin[p].version \in 0 .. Cardinality(Configs) + 1
BY DEF AdminTypes, Config, Admin

\* A request that has ended is a request.
LEMMA RestingAdmin == AtRest \in Admin /\ AtRest.step = "rest"
<1>1. Cardinality(Configs) \in Nat BY FS_CardinalityType
<1> QED BY <1>1 DEF AtRest, Admin

\* A step that leaves the configurations as they are leaves their versions.
LEMMA SameVersions ==
    ASSUME VersionsContiguous, config' = config
    PROVE  /\ VersionsContiguous'
           /\ \A t : ConfigsOf(t)' = ConfigsOf(t) /\ ActiveConfigs(t)' = ActiveConfigs(t)
BY DEF VersionsContiguous, ConfigsOf, ActiveConfigs

\* A change of statuses alone leaves the versions and the templates.
LEMMA StatusesOnly ==
    ASSUME VersionsContiguous,
           \A c \in Configs :
               /\ config'[c] = Nothing <=> config[c] = Nothing
               /\ config[c] # Nothing => /\ config'[c].template = config[c].template
                                         /\ config'[c].version = config[c].version
    PROVE  VersionsContiguous' /\ \A t : ConfigsOf(t)' = ConfigsOf(t)
<1>1. \A t : ConfigsOf(t)' = ConfigsOf(t) BY DEF ConfigsOf
<1>2. ASSUME NEW t \in Templates
      PROVE  {config'[c].version : c \in ConfigsOf(t)'} = {config[c].version : c \in ConfigsOf(t)}
  <2>1. \A c \in ConfigsOf(t) : config'[c].version = config[c].version BY DEF ConfigsOf
  <2> QED BY <1>1, <2>1
<1> QED BY <1>1, <1>2 DEF VersionsContiguous

\* createTemplate.
LEMMA CreateTemplateStep ==
    ASSUME AdministrationInductive, NEW t \in Templates, CreateTemplate(t)
    PROVE  AdministrationInductive'
<1>1. AdminTypes' BY DEF AdministrationInductive, AdminTypes, CreateTemplate
<1>2. VersionsContiguous' /\ (\A u : ConfigsOf(u)' = ConfigsOf(u))
         /\ (\A u : ActiveConfigs(u)' = ActiveConfigs(u))
  BY SameVersions DEF AdministrationInductive, CreateTemplate
<1>3. \A u : Activating(u)' = Activating(u) BY DEF CreateTemplate, Activating
<1>4. admin' = admin /\ alone' = alone BY DEF CreateTemplate
<1> QED BY <1>1, <1>2, <1>3, <1>4
        DEF AdministrationInductive, DraftsFit, ActivationsFit, AloneFits

\* createConfig, up to the version it reads.
LEMMA DraftReadStep ==
    ASSUME AdministrationInductive, NEW p \in Admins, NEW t \in Templates, DraftRead(p, t)
    PROVE  AdministrationInductive'
<1> USE DEF AdministrationInductive
<1>a. /\ admin[p].step = "rest" /\ config' = config /\ alone' = alone /\ created' = created
      /\ admin' = [admin EXCEPT ![p] = [step |-> "insert", template |-> t,
             config |-> Nothing, version |-> NextConfigVersion(t)]]
  BY DEF DraftRead
<1>b. NextConfigVersion(t) = Cardinality(ConfigsOf(t)) + 1 BY NextVersion
<1>c. /\ NextConfigVersion(t) \in 1 .. Cardinality(ConfigsOf(t)) + 1
      /\ NextConfigVersion(t) \in 0 .. Cardinality(Configs) + 1
  BY <1>b, CountConfigs
<1>1. AdminTypes' BY <1>a, <1>c DEF AdminTypes, Admin
<1>2. VersionsContiguous' /\ (\A u : ConfigsOf(u)' = ConfigsOf(u))
         /\ (\A u : ActiveConfigs(u)' = ActiveConfigs(u))
  BY <1>a, SameVersions
<1>d. /\ admin'[p].step = "insert" /\ admin'[p].template = t
      /\ admin'[p].version = NextConfigVersion(t)
      /\ \A q \in Admins \ {p} : admin'[q] = admin[q]
  BY <1>a DEF AdminTypes
<1>3. \A u : Activating(u)' = Activating(u) BY <1>a, <1>d DEF Activating
<1>4. DraftsFit' BY <1>2, <1>c, <1>d DEF DraftsFit
<1>5. ActivationsFit' BY <1>2, <1>d DEF ActivationsFit
<1>6. AloneFits' BY <1>a, <1>2, <1>3 DEF AloneFits
<1> QED BY <1>1, <1>2, <1>4, <1>5, <1>6

\* A draft that is inserted is the next of its template, and one that is refused is not there.
LEMMA DraftInsertStep ==
    ASSUME AdministrationInductive, NEW p \in Admins, NEW c \in Configs, DraftInsert(p, c)
    PROVE  AdministrationInductive'
<1> USE DEF AdministrationInductive
<1>a. /\ admin[p].step = "insert" /\ alone' = alone /\ created' = created
      /\ admin' = [admin EXCEPT ![p] = AtRest] /\ config[c] = Nothing
  BY DEF DraftInsert
<1>b. PICK t \in Templates : t = admin[p].template BY <1>a DEF DraftsFit
<1>c. PICK v \in 1 .. Cardinality(ConfigsOf(t)) + 1 : v = admin[p].version
  BY <1>a, <1>b DEF DraftsFit
<1>d. /\ admin'[p].step = "rest" /\ \A q \in Admins \ {p} : admin'[q] = admin[q]
      /\ admin' \in [Admins -> Admin]
  BY <1>a, RestingAdmin DEF AdminTypes
<1>3. \A u : Activating(u)' = Activating(u) BY <1>a, <1>d DEF Activating
<1>4. CASE ~VersionFree(t, v)
  <2>1. config' = config BY <1>b, <1>c, <1>4 DEF DraftInsert
  <2>2. VersionsContiguous' /\ (\A u : ConfigsOf(u)' = ConfigsOf(u))
           /\ (\A u : ActiveConfigs(u)' = ActiveConfigs(u))
    BY <2>1, SameVersions
  <2>3. AdminTypes' BY <1>a, <1>d, <2>1 DEF AdminTypes
  <2>4. DraftsFit' BY <2>2, <1>d DEF DraftsFit
  <2>5. ActivationsFit' BY <2>2, <1>d DEF ActivationsFit
  <2>6. AloneFits' BY <1>a, <2>2, <1>3 DEF AloneFits
  <2> QED BY <2>2, <2>3, <2>4, <2>5, <2>6
<1>5. CASE VersionFree(t, v)
  <2> DEFINE k == Cardinality(ConfigsOf(t))
  <2>1. config' = [config EXCEPT ![c] = [template |-> t, version |-> v, status |-> "draft"]]
    BY <1>b, <1>c, <1>5 DEF DraftInsert
  <2>2. /\ config'[c] = [template |-> t, version |-> v, status |-> "draft"]
        /\ \A d \in Configs \ {c} : config'[d] = config[d]
    BY <2>1 DEF AdminTypes
  <2>3. v \in 1 .. k + 1 /\ v \notin 1 .. k
    BY <1>c, <1>5 DEF VersionFree, VersionsContiguous
  <2>4. c \notin ConfigsOf(t) BY <1>a DEF ConfigsOf
  <2>5. k \in Nat /\ Cardinality(Configs) \in Nat /\ k < Cardinality(Configs)
        /\ Cardinality(ConfigsOf(t) \cup {c}) = k + 1
    BY <2>4, CountConfigs
  <2>6. v = k + 1 /\ v \in Versions
    <3> HIDE DEF k
    <3> QED BY <2>3, <2>5 DEF Versions
  <2>n. config'[c] # Nothing
    <3>1. config'[c] \in Config BY <2>2, <2>6 DEF Config, Statuses
    <3> QED BY <3>1, NothingIsNoRow
  <2>7. /\ ConfigsOf(t)' = ConfigsOf(t) \cup {c}
        /\ \A u : u # t => ConfigsOf(u)' = ConfigsOf(u)
    BY <2>2, <2>n, <1>a DEF ConfigsOf
  <2>8. \A u : ActiveConfigs(u)' = ActiveConfigs(u)
    BY <2>2, <2>7, <1>a DEF ActiveConfigs, ConfigsOf
  <2>9. AdminTypes'
    <3>1. config'[c] \in Config BY <2>2, <2>6 DEF Config, Statuses
    <3> QED BY <1>a, <1>d, <2>1, <3>1 DEF AdminTypes
  <2>10. VersionsContiguous'
    <3>1. {config'[d].version : d \in ConfigsOf(t)'} = 1 .. Cardinality(ConfigsOf(t)')
      <4>1. \A d \in ConfigsOf(t) : config'[d].version = config[d].version
        BY <2>2, <2>4 DEF ConfigsOf
      <4>2. config'[c].version = k + 1 BY <2>2, <2>6
      <4>3. {config'[d].version : d \in ConfigsOf(t)'} = (1 .. k) \cup {k + 1}
        <5>1. {config[d].version : d \in ConfigsOf(t)} = 1 .. k BY DEF VersionsContiguous
        <5> QED BY <4>1, <4>2, <5>1, <2>7
      <4>4. (1 .. k) \cup {k + 1} = 1 .. k + 1
        <5> HIDE DEF k
        <5> QED BY <2>5
      <4>5. Cardinality(ConfigsOf(t)') = k + 1 BY <2>5, <2>7
      <4> QED BY <4>3, <4>4, <4>5
    <3>2. ASSUME NEW u \in Templates, u # t
          PROVE  {config'[d].version : d \in ConfigsOf(u)'} = 1 .. Cardinality(ConfigsOf(u)')
      <4>1. ConfigsOf(u)' = ConfigsOf(u) BY <2>7, <3>2
      <4>2. \A d \in ConfigsOf(u) : config'[d].version = config[d].version
        BY <2>2, <1>a DEF ConfigsOf
      <4>3. {config[d].version : d \in ConfigsOf(u)} = 1 .. Cardinality(ConfigsOf(u))
        BY DEF VersionsContiguous
      <4> QED BY <4>1, <4>2, <4>3
    <3> QED BY <3>1, <3>2 DEF VersionsContiguous
  <2>11. DraftsFit'
    <3>1. \A u \in Templates :
             Cardinality(ConfigsOf(u)) \in Nat /\ Cardinality(ConfigsOf(u)') \in Nat
              /\ Cardinality(ConfigsOf(u)) <= Cardinality(ConfigsOf(u)')
      <4>1. ASSUME NEW u \in Templates, u # t
            PROVE  Cardinality(ConfigsOf(u)) \in Nat /\ ConfigsOf(u)' = ConfigsOf(u)
        BY <2>7, <4>1, CountConfigs
      <4>2. Cardinality(ConfigsOf(t)) = k /\ Cardinality(ConfigsOf(t)') = k + 1
        BY <2>5, <2>7
      <4> HIDE DEF k
      <4>3. k \in Nat /\ k + 1 \in Nat /\ k <= k + 1 BY <2>5
      <4>4. ASSUME NEW u \in Templates
            PROVE  /\ Cardinality(ConfigsOf(u)) \in Nat /\ Cardinality(ConfigsOf(u)') \in Nat
                   /\ Cardinality(ConfigsOf(u)) <= Cardinality(ConfigsOf(u)')
        <5>1. CASE u = t BY <5>1, <4>2, <4>3
        <5>2. CASE u # t
          <6>1. Cardinality(ConfigsOf(u)) \in Nat /\ ConfigsOf(u)' = ConfigsOf(u) BY <5>2, <4>1
          <6>2. Cardinality(ConfigsOf(u)') = Cardinality(ConfigsOf(u)) BY <6>1
          <6> QED BY <6>1, <6>2
        <5> QED BY <5>1, <5>2
      <4> QED BY <4>4
    <3>2. ASSUME NEW q \in Admins, admin'[q].step = "insert"
          PROVE  /\ admin'[q].template \in Templates
                 /\ admin'[q].version \in 1 .. Cardinality(ConfigsOf(admin[q].template)') + 1
      <4>1. q # p /\ admin'[q] = admin[q] BY <1>d, <3>2
      <4>2. PICK u \in Templates : u = admin'[q].template BY <3>2, <4>1 DEF DraftsFit
      <4>3. admin'[q].version \in 1 .. Cardinality(ConfigsOf(u)) + 1
        BY <3>2, <4>1, <4>2 DEF DraftsFit
      <4>4. admin'[q].version \in 1 .. Cardinality(ConfigsOf(u)') + 1 BY <3>1, <4>3
      <4> QED BY <4>2, <4>4
    <3> QED BY <3>2 DEF DraftsFit
  <2>12. ActivationsFit' BY <2>7, <1>d DEF ActivationsFit
  <2>13. AloneFits' BY <1>a, <2>8, <1>3 DEF AloneFits
  <2> QED BY <2>9, <2>10, <2>11, <2>12, <2>13
<1> QED BY <1>4, <1>5

\* The first half of an activation: nothing of the template is active, and another
\* activation that was in flight ends the time alone.
LEMMA ActivateArchiveStep ==
    ASSUME AdministrationInductive, NEW p \in Admins, NEW c \in Configs, ActivateArchive(p, c)
    PROVE  AdministrationInductive'
<1> USE DEF AdministrationInductive
<1>a. PICK t \in Templates : t = config[c].template
  BY AdminMembers DEF ActivateArchive
<1>b. /\ admin[p].step = "rest" /\ config[c] # Nothing /\ created' = created
      /\ config' = [d \in Configs |-> IF d \in ActiveConfigs(t)
                                      THEN [config[d] EXCEPT !.status = "archived"]
                                      ELSE config[d]]
      /\ admin' = [admin EXCEPT ![p] = [step |-> "activate", template |-> t, config |-> c,
                                        version |-> 0]]
      /\ alone' = [alone EXCEPT ![t] = Activating(t) = {}]
  BY <1>a DEF ActivateArchive
<1>c. /\ admin'[p].step = "activate" /\ admin'[p].template = t /\ admin'[p].config = c
      /\ \A q \in Admins \ {p} : admin'[q] = admin[q]
  BY <1>b DEF AdminTypes
<1>d. \A d \in Configs : config'[d] # config[d] =>
          /\ d \in ActiveConfigs(t) /\ config[d] # Nothing
          /\ config'[d] = [config[d] EXCEPT !.status = "archived"]
          /\ config'[d] \in Config /\ config'[d] # Nothing
          /\ config'[d].template = config[d].template
          /\ config'[d].version = config[d].version
          /\ config'[d].status = "archived"
  BY <1>b, NothingIsNoRow DEF ActiveConfigs, ConfigsOf, Config, Statuses, AdminTypes
<1>e. \A d \in ActiveConfigs(t) : config'[d].status = "archived"
  BY <1>b, NothingIsNoRow DEF ActiveConfigs, ConfigsOf, Config, Statuses, AdminTypes
<1>1. AdminTypes'
  <2>1. config' \in [Configs -> Config \cup {Nothing}] BY <1>b, <1>d DEF AdminTypes
  <2>2. [step |-> "activate", template |-> t, config |-> c, version |-> 0] \in Admin
    <3>1. Cardinality(Configs) \in Nat BY FS_CardinalityType
    <3> QED BY <3>1 DEF Admin
  <2> QED BY <1>b, <2>1, <2>2 DEF AdminTypes
<1>2. VersionsContiguous' /\ \A u : ConfigsOf(u)' = ConfigsOf(u)
  <2>1. \A d \in Configs :
            /\ config'[d] = Nothing <=> config[d] = Nothing
            /\ config[d] # Nothing => /\ config'[d].template = config[d].template
                                      /\ config'[d].version = config[d].version
    BY <1>d
  <2> QED BY <2>1, StatusesOnly
<1>3. DraftsFit' BY <1>2, <1>c DEF DraftsFit
<1>4. ActivationsFit'
  <2>1. c \in ConfigsOf(t) BY <1>a, <1>b DEF ConfigsOf
  <2> QED BY <1>2, <1>c, <2>1 DEF ActivationsFit
<1>5. AloneFits'
  <2>1. ActiveConfigs(t)' = {}
    <3>1. ConfigsOf(t)' = ConfigsOf(t) BY <1>2
    <3>2. \A d \in ConfigsOf(t) : config'[d].status # "active"
      BY <1>d, <1>e DEF ActiveConfigs, ConfigsOf
    <3> QED BY <3>1, <3>2 DEF ActiveConfigs
  <2>2. Activating(t)' = Activating(t) \cup {p} BY <1>b, <1>c DEF Activating
  <2>3. ASSUME NEW u \in Templates, u # t
        PROVE  Activating(u)' = Activating(u) /\ ActiveConfigs(u)' = ActiveConfigs(u)
    <3>1. Activating(u)' = Activating(u) BY <1>b, <1>c, <2>3 DEF Activating
    <3>2. \A d \in ConfigsOf(u) : config'[d] = config[d]
      BY <1>d, <2>3 DEF ActiveConfigs, ConfigsOf
    <3> QED BY <3>1, <3>2, <1>2 DEF ActiveConfigs
  <2>4. alone'[t] <=> Activating(t) = {} BY <1>b DEF AdminTypes
  <2>5. \A u \in Templates \ {t} : alone'[u] = alone[u] BY <1>b DEF AdminTypes
  <2> QED BY <2>1, <2>2, <2>3, <2>4, <2>5 DEF AloneFits
<1> QED BY <1>1, <1>2, <1>3, <1>4, <1>5

\* The second half: the configuration is active, and the only one if the activation was alone.
LEMMA ActivateSetStep ==
    ASSUME AdministrationInductive, NEW p \in Admins, ActivateSet(p)
    PROVE  AdministrationInductive'
<1> USE DEF AdministrationInductive
<1>a. PICK c \in Configs : c = admin[p].config
  BY DEF ActivateSet, ActivationsFit, ConfigsOf
<1>b. PICK t \in Templates : t = admin[p].template /\ c \in ConfigsOf(t)
  BY <1>a DEF ActivateSet, ActivationsFit
<1>c. /\ admin[p].step = "activate" /\ created' = created /\ alone' = alone
      /\ config' = [config EXCEPT ![c].status = "active"]
      /\ admin' = [admin EXCEPT ![p] = AtRest]
  BY <1>a DEF ActivateSet
<1>d. /\ admin'[p].step = "rest" /\ \A q \in Admins \ {p} : admin'[q] = admin[q]
      /\ admin' \in [Admins -> Admin]
  BY <1>c, RestingAdmin DEF AdminTypes
<1>e. /\ config[c] # Nothing /\ config[c].template = t /\ config[c] \in Config
      /\ config'[c] = [config[c] EXCEPT !.status = "active"]
      /\ \A d \in Configs \ {c} : config'[d] = config[d]
  BY <1>b, <1>c, AdminMembers DEF AdminTypes, ConfigsOf
<1>f. /\ config'[c] \in Config /\ config'[c] # Nothing /\ config'[c].status = "active"
      /\ config'[c].template = t /\ config'[c].version = config[c].version
  BY <1>e, NothingIsNoRow DEF Config, Statuses
<1>1. AdminTypes'
  <2>1. config' \in [Configs -> Config \cup {Nothing}] BY <1>c, <1>e, <1>f DEF AdminTypes
  <2> QED BY <1>c, <1>d, <2>1 DEF AdminTypes
<1>2. VersionsContiguous' /\ \A u : ConfigsOf(u)' = ConfigsOf(u)
  <2>1. \A d \in Configs :
            /\ config'[d] = Nothing <=> config[d] = Nothing
            /\ config[d] # Nothing => /\ config'[d].template = config[d].template
                                      /\ config'[d].version = config[d].version
    BY <1>e, <1>f
  <2> QED BY <2>1, StatusesOnly
<1>3. DraftsFit' BY <1>2, <1>d DEF DraftsFit
<1>4. ActivationsFit' BY <1>2, <1>d DEF ActivationsFit
<1>5. AloneFits'
  <2>1. ActiveConfigs(t)' = ActiveConfigs(t) \cup {c}
    <3>1. ConfigsOf(t)' = ConfigsOf(t) /\ c \in ConfigsOf(t) BY <1>2, <1>b
    <3>2. \A d \in ConfigsOf(t) \ {c} : config'[d] = config[d] BY <1>e DEF ConfigsOf
    <3> QED BY <3>1, <3>2, <1>f DEF ActiveConfigs
  <2>2. p \in Activating(t) /\ Activating(t)' = Activating(t) \ {p}
    BY <1>b, <1>c, <1>d DEF Activating
  <2>3. ASSUME NEW u \in Templates, u # t
        PROVE  Activating(u)' = Activating(u) /\ ActiveConfigs(u)' = ActiveConfigs(u)
    <3>1. Activating(u)' = Activating(u) BY <1>b, <1>c, <1>d, <2>3 DEF Activating
    <3>2. \A d \in ConfigsOf(u) : config'[d] = config[d] BY <1>e, <2>3 DEF ConfigsOf
    <3> QED BY <3>1, <3>2, <1>2 DEF ActiveConfigs
  <2>4. alone[t] => Activating(t)' = {} /\ ActiveConfigs(t)' = {c}
    BY <2>1, <2>2 DEF AloneFits
  <2>5. alone' = alone BY <1>c
  <2>6. \A u \in Templates \ {t} : alone'[u] =>
            /\ Activating(u)' = {} => \E d \in Configs : ActiveConfigs(u)' = {d}
            /\ \A q \in Activating(u)' : Activating(u)' = {q} /\ ActiveConfigs(u)' = {}
    BY <2>3, <2>5 DEF AloneFits
  <2> QED BY <2>4, <2>5, <2>6 DEF AloneFits
<1> QED BY <1>1, <1>2, <1>3, <1>4, <1>5

\* A request that fails or dies leaves everything; an activation is not alone any more.
LEMMA AdminDieStep ==
    ASSUME AdministrationInductive, NEW p \in Admins, AdminDie(p)
    PROVE  AdministrationInductive'
<1> USE DEF AdministrationInductive
<1>a. /\ created' = created /\ config' = config
      /\ admin' = [admin EXCEPT ![p] = AtRest]
      /\ alone' = IF admin[p].step = "activate"
                  THEN [alone EXCEPT ![admin[p].template] = FALSE] ELSE alone
  BY DEF AdminDie
<1>b. /\ admin'[p].step = "rest" /\ \A q \in Admins \ {p} : admin'[q] = admin[q]
      /\ admin' \in [Admins -> Admin]
  BY <1>a, RestingAdmin DEF AdminTypes
<1>c. /\ alone' \in [Templates -> BOOLEAN]
      /\ \A u \in Templates : alone'[u] => alone[u] /\ p \notin Activating(u)
  BY <1>a DEF AdminTypes, Activating
<1>1. AdminTypes' BY <1>a, <1>b, <1>c DEF AdminTypes
<1>2. VersionsContiguous' /\ (\A u : ConfigsOf(u)' = ConfigsOf(u))
         /\ (\A u : ActiveConfigs(u)' = ActiveConfigs(u))
  BY <1>a, SameVersions
<1>3. DraftsFit' BY <1>2, <1>b DEF DraftsFit
<1>4. ActivationsFit' BY <1>2, <1>b DEF ActivationsFit
<1>5. AloneFits'
  <2>1. \A u : p \notin Activating(u) => Activating(u)' = Activating(u)
    BY <1>b DEF Activating
  <2> QED BY <1>2, <1>c, <2>1 DEF AloneFits
<1> QED BY <1>1, <1>2, <1>3, <1>4, <1>5

\* What the workers and the clock do, and a step that does nothing.
LEMMA AuthoringUnchanged ==
    ASSUME AdministrationInductive, UNCHANGED authoring
    PROVE  AdministrationInductive'
<1>1. created' = created /\ config' = config /\ admin' = admin /\ alone' = alone
  BY DEF authoring
<1>2. VersionsContiguous' /\ (\A u : ConfigsOf(u)' = ConfigsOf(u))
         /\ (\A u : ActiveConfigs(u)' = ActiveConfigs(u))
  BY <1>1, SameVersions DEF AdministrationInductive
<1>3. \A u : Activating(u)' = Activating(u) BY <1>1 DEF Activating
<1> QED BY <1>1, <1>2, <1>3
        DEF AdministrationInductive, AdminTypes, DraftsFit, ActivationsFit, AloneFits

-----------------------------------------------------------------------------
(* The theorems of the administration *)

\* The inductive invariant of createTemplate, createConfig and activateConfig, whatever
\* steps of other requests and of the workers come in between.
THEOREM AdministrationInvariance == AuthoringSpec => []AdministrationInductive
<1>1. AuthoringInit => AdministrationInductive
  <2> SUFFICES ASSUME AuthoringInit PROVE AdministrationInductive OBVIOUS
  <2>1. \A t : ConfigsOf(t) = {} BY DEF AuthoringInit, ConfigsOf
  <2>2. AdminTypes BY RestingAdmin DEF AuthoringInit, AdminTypes
  <2>3. VersionsContiguous
    <3>1. ASSUME NEW t \in Templates
          PROVE  {config[c].version : c \in ConfigsOf(t)} = 1 .. Cardinality(ConfigsOf(t))
      <4>1. {config[c].version : c \in ConfigsOf(t)} = {} BY <2>1
      <4>2. Cardinality(ConfigsOf(t)) = 0 BY <2>1, FS_EmptySet
      <4>3. 1 .. 0 = {} OBVIOUS
      <4> QED BY <4>1, <4>2, <4>3
    <3> QED BY <3>1 DEF VersionsContiguous
  <2>4. DraftsFit /\ ActivationsFit BY RestingAdmin DEF AuthoringInit, DraftsFit, ActivationsFit
  <2>5. AloneFits BY DEF AuthoringInit, AloneFits
  <2> QED BY <2>2, <2>3, <2>4, <2>5 DEF AdministrationInductive
<1>2. AdministrationInductive /\ [AuthoringNext]_authoringVars => AdministrationInductive'
  <2> SUFFICES ASSUME AdministrationInductive, [AuthoringNext]_authoringVars
               PROVE  AdministrationInductive'
    OBVIOUS
  <2>1. CASE Administer
    <3>1. ASSUME NEW t \in Templates, CreateTemplate(t) PROVE AdministrationInductive'
      BY <3>1, CreateTemplateStep
    <3>2. ASSUME NEW p \in Admins, NEW t \in Templates, DraftRead(p, t)
          PROVE  AdministrationInductive'
      BY <3>2, DraftReadStep
    <3>3. ASSUME NEW p \in Admins, NEW c \in Configs, DraftInsert(p, c)
          PROVE  AdministrationInductive'
      BY <3>3, DraftInsertStep
    <3>4. ASSUME NEW p \in Admins, NEW c \in Configs, ActivateArchive(p, c)
          PROVE  AdministrationInductive'
      BY <3>4, ActivateArchiveStep
    <3>5. ASSUME NEW p \in Admins, ActivateSet(p) PROVE AdministrationInductive'
      BY <3>5, ActivateSetStep
    <3>6. ASSUME NEW p \in Admins, AdminDie(p) PROVE AdministrationInductive'
      BY <3>6, AdminDieStep
    <3> QED BY <2>1, <3>1, <3>2, <3>3, <3>4, <3>5, <3>6 DEF Administer
  <2>2. CASE Produce
    <3>1. UNCHANGED authoring
      BY <2>2 DEF Produce, Enqueue, BatchTake, BatchDraw, PutPicture, CreateAsset, PushAsset,
                  BatchFail, BatchStall, Tick
    <3> QED BY <3>1, AuthoringUnchanged
  <2>3. CASE UNCHANGED authoringVars
    BY <2>3, AuthoringUnchanged DEF authoringVars
  <2> QED BY <2>1, <2>2, <2>3 DEF AuthoringNext
<1> QED BY <1>1, <1>2, PTL DEF AuthoringSpec

\* The configurations of every template are numbered without a gap or a double, for any
\* number of administrators whose drafts read the same maximum.
THEOREM VersionsAreContiguous == AuthoringSpec => []VersionsContiguous
<1>1. AdministrationInductive => VersionsContiguous BY DEF AdministrationInductive
<1> QED BY <1>1, AdministrationInvariance, PTL

\* Where the last activation met no other and did not die, at most one configuration of
\* the template is active, and exactly one once it has ended.
THEOREM OneConfigIsActive == AuthoringSpec => []OneActiveConfig
<1>1. AdministrationInductive => OneActiveConfig
  <2> SUFFICES ASSUME AdministrationInductive, NEW t \in Templates, alone[t]
               PROVE  /\ Cardinality(ActiveConfigs(t)) <= 1
                      /\ Activating(t) = {} => ActiveConfigs(t) # {}
    BY DEF OneActiveConfig
  <2>1. \/ ActiveConfigs(t) = {} /\ Activating(t) # {}
        \/ \E c \in Configs : ActiveConfigs(t) = {c}
    BY DEF AdministrationInductive, AloneFits
  <2>2. \A c : Cardinality({c}) = 1 BY FS_Singleton
  <2>3. Cardinality({}) = 0 BY FS_EmptySet
  <2> QED BY <2>1, <2>2, <2>3
<1> QED BY <1>1, AdministrationInvariance, PTL

\* What the requests of administrators leave: contiguous versions, and one configuration in
\* force where activations do not meet (createConfig and activateConfig).
THEOREM ConfigsAreRight == AuthoringSpec => []ConfigsRight
<1>1. VersionsContiguous /\ OneActiveConfig => ConfigsRight BY DEF ConfigsRight
<1> QED BY <1>1, VersionsAreContiguous, OneConfigIsActive, PTL

-----------------------------------------------------------------------------
(* CaptchaAuthoring implements ConfigHistory *)

\* No two configurations of a template have the same version: they are as many as the versions.
LEMMA VersionsDiffer ==
    ASSUME VersionsContiguous, NEW t \in Templates,
           NEW c \in ConfigsOf(t), NEW d \in ConfigsOf(t), config[c].version = config[d].version
    PROVE  c = d
<1>1. IsFiniteSet(ConfigsOf(t)) /\ Cardinality(ConfigsOf(t)) \in Nat BY CountConfigs
<1>2. PICK C, N : C = ConfigsOf(t) /\ N = 1 .. Cardinality(C) OBVIOUS
<1>3. {config[e].version : e \in C} = N BY <1>2 DEF VersionsContiguous
<1>4. PICK f : f = [e \in C |-> config[e].version] OBVIOUS
<1>5. f \in Surjection(C, N)
  <2>1. f \in [C -> N] BY <1>3, <1>4
  <2>2. \A n \in N : \E e \in C : f[e] = n BY <1>3, <1>4
  <2> QED BY <2>1, <2>2 DEF Surjection
<1>6. Cardinality(C) = Cardinality(N)
  <2>1. 1 \in Int /\ Cardinality(C) \in Int /\ Cardinality(C) \in Nat BY <1>1, <1>2
  <2> QED BY <1>2, <2>1, FS_Interval
<1>7. f \in Injection(C, N) BY <1>1, <1>2, <1>5, <1>6, FS_SurjSameCardinalityImpliesInj
<1>8. \A a, b \in C : f[a] = f[b] => a = b BY <1>7 DEF Injection, IsInjective
<1> QED BY <1>2, <1>4, <1>8

\* In order: the configuration in the place of its version, and no other.
OrderFits ==
    \A t \in Templates :
        /\ DOMAIN InOrder(t) = 1 .. Cardinality(ConfigsOf(t))
        /\ \A v \in DOMAIN InOrder(t) :
              InOrder(t)[v] \in ConfigsOf(t) /\ config[InOrder(t)[v]].version = v
        /\ \A c \in ConfigsOf(t) :
              config[c].version \in DOMAIN InOrder(t) /\ InOrder(t)[config[c].version] = c
        /\ InOrder(t) \in Seq(Configs)

LEMMA InOrderFits == VersionsContiguous => OrderFits
<1> SUFFICES ASSUME VersionsContiguous, NEW t \in Templates
             PROVE  /\ DOMAIN InOrder(t) = 1 .. Cardinality(ConfigsOf(t))
                    /\ \A v \in DOMAIN InOrder(t) :
                          InOrder(t)[v] \in ConfigsOf(t) /\ config[InOrder(t)[v]].version = v
                    /\ \A c \in ConfigsOf(t) :
                          /\ config[c].version \in DOMAIN InOrder(t)
                          /\ InOrder(t)[config[c].version] = c
                    /\ InOrder(t) \in Seq(Configs)
  BY DEF OrderFits
<1>1. PICK k \in Nat : k = Cardinality(ConfigsOf(t)) BY CountConfigs
<1>2. {config[c].version : c \in ConfigsOf(t)} = 1 .. k BY <1>1 DEF VersionsContiguous
<1>3. DOMAIN InOrder(t) = 1 .. k BY <1>1 DEF InOrder
<1>4. ASSUME NEW v \in 1 .. k
      PROVE  InOrder(t)[v] \in ConfigsOf(t) /\ config[InOrder(t)[v]].version = v
  <2>1. \E c \in ConfigsOf(t) : config[c].version = v BY <1>2
  <2>2. InOrder(t)[v] = CHOOSE c \in ConfigsOf(t) : config[c].version = v
    BY <1>1 DEF InOrder
  <2> QED BY <2>1, <2>2
<1>5. ASSUME NEW c \in ConfigsOf(t)
      PROVE  config[c].version \in 1 .. k /\ InOrder(t)[config[c].version] = c
  <2>1. config[c].version \in 1 .. k BY <1>2
  <2> QED BY <1>4, <2>1, VersionsDiffer
<1>6. InOrder(t) \in [1 .. k -> Configs]
  <2>1. \A v \in 1 .. k : InOrder(t)[v] \in Configs BY <1>4, CountConfigs
  <2> QED BY <1>1, <2>1 DEF InOrder
<1>7. InOrder(t) \in Seq(Configs) BY <1>6
<1> QED BY <1>1, <1>3, <1>4, <1>5, <1>7

\* What is listed of a template is what it has.
LEMMA ListedConfigs ==
    ASSUME OrderFits, NEW t \in Templates
    PROVE  History!Listed(t) = ConfigsOf(t)
<1>1. History!Listed(t) = {InOrder(t)[v] : v \in DOMAIN InOrder(t)} BY DEF History!Listed
<1>2. \A v \in DOMAIN InOrder(t) : InOrder(t)[v] \in ConfigsOf(t) BY DEF OrderFits
<1>3. \A c \in ConfigsOf(t) : \E v \in DOMAIN InOrder(t) : InOrder(t)[v] = c
  BY DEF OrderFits
<1> QED BY <1>1, <1>2, <1>3

\* The active configurations, of all templates.
InForce == {c \in Configs : config[c] # Nothing /\ config[c].status = "active"}

\* Where no version changes and no configuration is new, the lists stay.
LEMMA OrderStays ==
    ASSUME OrderFits, OrderFits', NEW t \in Templates, ConfigsOf(t)' = ConfigsOf(t),
           \A c \in ConfigsOf(t) : config'[c].version = config[c].version
    PROVE  InOrder(t)' = InOrder(t)
<1>1. PICK k \in Nat : k = Cardinality(ConfigsOf(t)) /\ k = Cardinality(ConfigsOf(t)')
  BY CountConfigs
<1>2. DOMAIN InOrder(t) = 1 .. k /\ DOMAIN InOrder(t)' = 1 .. k BY <1>1 DEF OrderFits
<1>3. ASSUME NEW v \in 1 .. k PROVE InOrder(t)'[v] = InOrder(t)[v]
  <2>1. PICK c \in ConfigsOf(t) : c = InOrder(t)[v] /\ config[c].version = v
    BY <1>2 DEF OrderFits
  <2>2. c \in ConfigsOf(t)' /\ config'[c].version = v BY <2>1
  <2> QED BY <2>1, <2>2, SMTT(20) DEF OrderFits
<1>4. /\ InOrder(t) = [v \in 1 .. k |-> InOrder(t)[v]]
      /\ InOrder(t)' = [v \in 1 .. k |-> InOrder(t)'[v]]
  BY <1>1 DEF InOrder
<1> QED BY <1>3, <1>4

\* A step that leaves the configurations as they are.
LEMMA HistoryStutter ==
    ASSUME UNCHANGED config
    PROVE  UNCHANGED History!historyVars
<1>1. \A t : ConfigsOf(t)' = ConfigsOf(t) BY DEF ConfigsOf
<1>2. \A t \in Templates : InOrder(t)' = InOrder(t) BY <1>1 DEF InOrder
<1> QED BY <1>2 DEF History!historyVars

\* A draft that is inserted is the last of its list.
LEMMA HistoryDraft ==
    ASSUME AdministrationInductive, AdministrationInductive', OrderFits, OrderFits',
           NEW p \in Admins, NEW c \in Configs, DraftInsert(p, c)
    PROVE  [History!Next]_(History!historyVars)
<1> USE DEF AdministrationInductive
<1>1. CASE config' = config BY <1>1, HistoryStutter
<1>2. CASE config' # config
  <2>1. PICK t \in Templates : t = admin[p].template BY DEF DraftsFit, DraftInsert
  <2>v. PICK v : v = admin[p].version OBVIOUS
  <2>2. /\ config[c] = Nothing
        /\ config' = [config EXCEPT ![c] = [template |-> t, version |-> v, status |-> "draft"]]
    BY <1>2, <2>1, <2>v DEF DraftInsert
  <2>3. /\ config'[c] = [template |-> t, version |-> v, status |-> "draft"]
        /\ \A d \in Configs \ {c} : config'[d] = config[d]
    BY <2>2 DEF AdminTypes
  <2>4. config'[c] # Nothing BY <1>2, <2>2 DEF AdminTypes
  <2>5. /\ ConfigsOf(t)' = ConfigsOf(t) \cup {c}
        /\ \A u : u # t => ConfigsOf(u)' = ConfigsOf(u)
        /\ \A u : c \notin ConfigsOf(u)
    BY <2>2, <2>3, <2>4 DEF ConfigsOf
  <2>6. PICK k \in Nat : k = Cardinality(ConfigsOf(t)) /\ Cardinality(ConfigsOf(t)') = k + 1
    BY <2>5, CountConfigs
  <2>7. \A u \in Templates : u # t => InOrder(u)' = InOrder(u)
    <3>1. ASSUME NEW u \in Templates, u # t PROVE InOrder(u)' = InOrder(u)
      <4>1. \A d \in ConfigsOf(u) : config'[d].version = config[d].version
        BY <2>3, <2>5 DEF ConfigsOf
      <4> QED BY <2>5, <3>1, <4>1, OrderStays
    <3> QED BY <3>1
  <2>8. /\ DOMAIN InOrder(t) = 1 .. k /\ InOrder(t) \in Seq(Configs)
        /\ DOMAIN InOrder(t)' = 1 .. k + 1 /\ InOrder(t)' \in Seq(Configs)
    BY <2>6 DEF OrderFits
  <2>9. ASSUME NEW w \in 1 .. k PROVE InOrder(t)'[w] = InOrder(t)[w]
    <3>1. PICK d \in ConfigsOf(t) : d = InOrder(t)[w] /\ config[d].version = w
      BY <2>8 DEF OrderFits
    <3>2. d \in ConfigsOf(t)' /\ config'[d].version = w BY <2>3, <2>5, <3>1 DEF ConfigsOf
    <3> QED BY <3>1, <3>2 DEF OrderFits
  <2>10. InOrder(t)'[k + 1] = c
    <3>1. k + 1 \in DOMAIN InOrder(t)' BY <2>8
    <3>2. PICK d \in ConfigsOf(t)' : d = InOrder(t)'[k + 1] /\ config'[d].version = k + 1
      BY <3>1 DEF OrderFits
    <3>3. ASSUME d \in ConfigsOf(t) PROVE FALSE
      <4>1. config[d].version = k + 1 BY <2>3, <2>5, <3>2, <3>3 DEF ConfigsOf
      <4>2. config[d].version \in 1 .. k BY <2>8, <3>3 DEF OrderFits
      <4> QED BY <4>1, <4>2
    <3> QED BY <2>5, <3>2, <3>3
  <2>11. InOrder(t)' = Append(InOrder(t), c)
    <3>1. Len(InOrder(t)) = k /\ Len(InOrder(t)') = k + 1 BY <2>8
    <3>2. /\ Append(InOrder(t), c) \in Seq(Configs) /\ Len(Append(InOrder(t), c)) = k + 1
          /\ \A w \in 1 .. k : Append(InOrder(t), c)[w] = InOrder(t)[w]
          /\ Append(InOrder(t), c)[k + 1] = c
      BY <2>8, <3>1, AppendProperties
    <3>3. \A w \in 1 .. k + 1 : w \in 1 .. k \/ w = k + 1 BY <2>6
    <3>4. \A w \in 1 .. k + 1 : InOrder(t)'[w] = Append(InOrder(t), c)[w]
      BY <2>9, <2>10, <3>2, <3>3
    <3> QED BY <2>8, <3>1, <3>2, <3>4, SeqEqual
  <2>12. [u \in Templates |-> InOrder(u)]'
            = [[u \in Templates |-> InOrder(u)] EXCEPT ![t] = Append(InOrder(t), c)]
    BY <2>7, <2>11
  <2>13. InForce' = InForce BY <2>2, <2>3 DEF InForce
  <2>14. \A u \in Templates : c \notin History!Listed(u) BY <2>5, ListedConfigs
  <2>15. History!Draft(t, c) BY <2>12, <2>13, <2>14 DEF History!Draft, InForce
  <2> QED BY <2>15 DEF History!Next
<1> QED BY <1>1, <1>2

\* Only what is in force of the template is archived.
LEMMA HistoryArchive ==
    ASSUME AdministrationInductive, OrderFits, OrderFits',
           NEW p \in Admins, NEW c \in Configs, ActivateArchive(p, c)
    PROVE  History!Next
<1> USE DEF AdministrationInductive
<1>1. PICK t \in Templates : t = config[c].template
  BY AdminMembers DEF ActivateArchive
<1>2. config' = [d \in Configs |-> IF d \in ActiveConfigs(t)
                                   THEN [config[d] EXCEPT !.status = "archived"]
                                   ELSE config[d]]
  BY <1>1 DEF ActivateArchive
<1>3. ASSUME NEW d \in Configs
      PROVE  /\ config'[d] = Nothing <=> config[d] = Nothing
             /\ config[d] # Nothing => /\ config'[d].template = config[d].template
                                       /\ config'[d].version = config[d].version
             /\ d \in InForce' <=> d \in InForce /\ d \notin ConfigsOf(t)
  <2>1. CASE d \in ActiveConfigs(t)
    <3>1. d \in ConfigsOf(t) /\ config[d] # Nothing /\ config[d] \in Config
      BY <2>1, AdminMembers DEF ActiveConfigs, ConfigsOf
    <3>2. /\ config'[d].status = "archived" /\ config'[d].template = config[d].template
          /\ config'[d].version = config[d].version /\ config'[d] \in Config
      BY <1>2, <2>1, <3>1 DEF Config, Statuses
    <3>3. config'[d] # Nothing BY <3>2, NothingIsNoRow
    <3> QED BY <3>1, <3>2, <3>3 DEF InForce
  <2>2. CASE d \notin ActiveConfigs(t)
    <3>1. config'[d] = config[d] BY <1>2, <2>2
    <3>2. d \in InForce => d \notin ConfigsOf(t) BY <2>2 DEF InForce, ActiveConfigs
    <3> QED BY <3>1, <3>2 DEF InForce
  <2> QED BY <2>1, <2>2
<1>4. InForce' = InForce \ ConfigsOf(t) BY <1>3 DEF InForce
<1>5. \A u : ConfigsOf(u)' = ConfigsOf(u) BY <1>3 DEF ConfigsOf
<1>6. \A u \in Templates : InOrder(u)' = InOrder(u)
  <2>1. ASSUME NEW u \in Templates PROVE InOrder(u)' = InOrder(u)
    <3>1. \A d \in ConfigsOf(u) : config'[d].version = config[d].version
      BY <1>3 DEF ConfigsOf
    <3> QED BY <1>5, <3>1, OrderStays
  <2> QED BY <2>1
<1>7. History!Archive(t) BY <1>4, <1>6, ListedConfigs DEF History!Archive, InForce
<1> QED BY <1>7 DEF History!Next

\* What comes into force is on the list of the template.
LEMMA HistoryEnforce ==
    ASSUME AdministrationInductive, OrderFits, OrderFits', NEW p \in Admins, ActivateSet(p)
    PROVE  History!Next
<1> USE DEF AdministrationInductive
<1>1. PICK t \in Templates, c \in Configs : c = admin[p].config /\ c \in ConfigsOf(t)
  BY DEF ActivateSet, ActivationsFit, ConfigsOf
<1>2. config' = [config EXCEPT ![c].status = "active"] BY <1>1 DEF ActivateSet
<1>3. config[c] # Nothing /\ config[c] \in Config BY <1>1, AdminMembers DEF ConfigsOf
<1>4. /\ config'[c].status = "active" /\ config'[c].template = config[c].template
      /\ config'[c].version = config[c].version /\ config'[c] \in Config
      /\ \A d \in Configs \ {c} : config'[d] = config[d]
  BY <1>2, <1>3 DEF AdminTypes, Config, Statuses
<1>5. config'[c] # Nothing BY <1>4, NothingIsNoRow
<1>6. InForce' = InForce \cup {c} BY <1>4, <1>5 DEF InForce
<1>7. \A u : ConfigsOf(u)' = ConfigsOf(u) BY <1>3, <1>4, <1>5 DEF ConfigsOf
<1>8. \A u \in Templates : InOrder(u)' = InOrder(u)
  <2>1. ASSUME NEW u \in Templates PROVE InOrder(u)' = InOrder(u)
    <3>1. \A d \in ConfigsOf(u) : config'[d].version = config[d].version
      BY <1>4 DEF ConfigsOf
    <3> QED BY <1>7, <3>1, OrderStays
  <2> QED BY <2>1
<1>9. History!Enforce(t, c) BY <1>1, <1>6, <1>8, ListedConfigs DEF History!Enforce, InForce
<1> QED BY <1>9 DEF History!Next

LEMMA HistoryStep ==
    /\ AdministrationInductive /\ AdministrationInductive' /\ OrderFits /\ OrderFits'
    /\ [AuthoringNext]_authoringVars
    => [History!Next]_(History!historyVars)
<1> SUFFICES ASSUME AdministrationInductive, AdministrationInductive', OrderFits, OrderFits',
                    [AuthoringNext]_authoringVars
             PROVE  [History!Next]_(History!historyVars)
  OBVIOUS
<1>1. CASE Administer
  <2>1. ASSUME NEW t \in Templates, CreateTemplate(t) PROVE UNCHANGED config
    BY <2>1 DEF CreateTemplate
  <2>2. ASSUME NEW p \in Admins, NEW t \in Templates, DraftRead(p, t) PROVE UNCHANGED config
    BY <2>2 DEF DraftRead
  <2>3. ASSUME NEW p \in Admins, AdminDie(p) PROVE UNCHANGED config BY <2>3 DEF AdminDie
  <2> QED BY <1>1, <2>1, <2>2, <2>3, HistoryStutter, HistoryDraft, HistoryArchive,
             HistoryEnforce DEF Administer
<1>2. CASE Produce
  <2>1. UNCHANGED authoring
    BY <1>2 DEF Produce, Enqueue, BatchTake, BatchDraw, PutPicture, CreateAsset, PushAsset,
                BatchFail, BatchStall, Tick
  <2> QED BY <2>1, HistoryStutter DEF authoring
<1>3. CASE UNCHANGED authoringVars BY <1>3, HistoryStutter DEF authoringVars, authoring
<1> QED BY <1>1, <1>2, <1>3 DEF AuthoringNext

\* The refinement: with read-then-insert and activations in two UPDATEs, for any number of
\* administrators, the table is the lists of ConfigHistory.
THEOREM RefinesHistory == AuthoringSpec => ImplementsHistory
<1>1. AuthoringInit => History!Init
  <2> SUFFICES ASSUME AuthoringInit PROVE History!Init OBVIOUS
  <2>1. \A c \in Configs : config[c] = Nothing BY DEF AuthoringInit
  <2>2. \A t : ConfigsOf(t) = {} BY <2>1 DEF ConfigsOf
  <2>3. \A t : Cardinality(ConfigsOf(t)) = 0 BY <2>2, FS_EmptySet
  <2>4. ASSUME NEW t PROVE InOrder(t) = << >>
    <3>1. DOMAIN InOrder(t) = {} BY <2>3 DEF InOrder
    <3> QED BY <2>3 DEF InOrder
  <2> QED BY <2>1, <2>4 DEF History!Init
<1>2. AdministrationInductive => OrderFits BY InOrderFits DEF AdministrationInductive
<1> QED BY <1>1, <1>2, AdministrationInvariance, HistoryStep, PTL
        DEF AuthoringSpec, ImplementsHistory, History!HistorySpec

-----------------------------------------------------------------------------
(* The inductive invariant of the generation *)

Made(b) == {a \in Images : image[a] # Nothing /\ image[a].batch = b}
Pooled(b) == {a \in Made(b) : image[a].stage = "pooled"}
Retried(b) == batch[b].made > 0 \/ batch[b].stalled
Tries(b) == batch[b].made + (IF batch[b].stalled THEN 1 ELSE 0)
InHand(b) == IF batch[b].step = "draw" THEN 0 ELSE 1
Ended == {"done", "failed"}

GenerationTypes ==
    /\ batch \in [Batches -> Job]
    /\ image \in [Images -> Image \cup {Nothing}]
    /\ picture \in [ImageKeys -> Images \cup {Nothing}]
    /\ shelf \subseteq Templates \X Difficulties \X Images
    /\ clock \in 0 .. MaxTick

\* A job between two images, and one that has an image in hand.
JobFits(b) ==
    LET r == batch[b]
    IN /\ r.state = "absent" => r.made = 0 /\ ~r.stalled
       /\ r.state # "absent" => /\ r.config \in Configs /\ config[r.config] # Nothing
                                /\ r.difficulty \in Difficulties
       /\ r.state # "active" => r.step = "draw" /\ r.index = 0
       /\ r.step = "draw" <=> r.image = Nothing
       /\ r.step # "draw" =>
             /\ image[r.image] # Nothing /\ image[r.image].batch = b
             /\ image[r.image].stage = IF r.step = "push" THEN "row" ELSE "drawn"
       /\ r.state \notin Ended => r.made < BatchAttempts
       /\ r.state = "active" /\ Retried(b) => clock > r.since

\* What a job drew in the present try has a lower index than the next, and what it drew
\* in earlier tries an earlier time: that is why its keys differ.
KeysFit(b) ==
    /\ \A a \in Made(b) :
          /\ image[a].key[2] <= clock
          /\ batch[b].state \notin Ended =>
                \/ Retried(b) /\ image[a].key[2] <= batch[b].since
                \/ image[a].key[3] < batch[b].index + InHand(b)
    /\ \A a, o \in Made(b) : a # o => image[a].key # image[o].key

\* A try makes at most the count of the batch, and puts into the list what it has made.
CountsFit(b) ==
    /\ IsFiniteSet(Made(b))
    /\ batch[b].state \notin Ended =>
          Cardinality(Made(b)) <= Tries(b) * BatchSize + batch[b].index + InHand(b)
    /\ Cardinality(Made(b)) <= (BatchAttempts + 1) * BatchSize
    /\ batch[b].state = "active" => Cardinality(Pooled(b)) >= batch[b].index
    /\ batch[b].state = "done" => Cardinality(Pooled(b)) >= BatchSize

\* An image that has been put into the bucket.
Put(a) == image[a] # Nothing /\ \/ image[a].stage # "drawn"
                                \/ \E b \in Batches : batch[b].image = a /\ batch[b].step = "insert"
Shown(a) == \/ picture[image[a].key] = a
            \/ \E o \in Images \ {a} : /\ image[o] # Nothing /\ image[o].key = image[a].key
                                       /\ image[o].batch # image[a].batch
PicturesFit == \A a \in Images : Put(a) => Shown(a)

\* An entry of the list, and the images that have one.
EntryFits(e) ==
    LET a == e[3]
        b == image[a].batch
    IN /\ image[a] # Nothing /\ image[a].stage = "pooled" /\ batch[b].state # "absent"
       /\ e[1] = config[batch[b].config].template
       /\ e[2] = batch[b].difficulty
ShelfFits ==
    /\ \A e \in shelf : EntryFits(e)
    /\ \A a \in Images : image[a] # Nothing /\ image[a].stage = "pooled" =>
          \E e \in shelf : e[3] = a

GenerationInductive ==
    /\ GenerationTypes
    /\ \A b \in Batches : JobFits(b) /\ KeysFit(b) /\ CountsFit(b)
    /\ PicturesFit /\ ShelfFits

-----------------------------------------------------------------------------
(* Batches *)

\* More tries make more images.
LEMMA MoreTries ==
    ASSUME NEW m \in Nat, NEW n \in Nat, m <= n
    PROVE  m * BatchSize <= n * BatchSize /\ m * BatchSize \in Nat
OBVIOUS

\* One try more makes as many as the batch has.
LEMMA OneTry ==
    ASSUME NEW m \in Nat
    PROVE  (m + 1) * BatchSize = m * BatchSize + BatchSize
OBVIOUS

\* What jobs, images and entries hold.
LEMMA GenerationMembers ==
    ASSUME GenerationTypes
    PROVE  /\ \A b \in Batches :
                 /\ batch[b] \in Job
                 /\ batch[b].state \in {"absent", "queued", "active", "done", "failed"}
                 /\ batch[b].config \in Configs \cup {Nothing}
                 /\ batch[b].difficulty \in Difficulties \cup {Nothing}
                 /\ batch[b].made \in 0 .. BatchAttempts
                 /\ batch[b].stalled \in BOOLEAN
                 /\ batch[b].step \in {"draw", "put", "insert", "push"}
                 /\ batch[b].index \in 0 .. BatchSize - 1
                 /\ batch[b].image \in Images \cup {Nothing}
                 /\ batch[b].since \in 0 .. MaxTick
           /\ \A a \in Images : image[a] # Nothing =>
                 /\ image[a] \in Image
                 /\ image[a].stage \in {"drawn", "row", "pooled"}
                 /\ image[a].key \in ImageKeys
                 /\ image[a].key[2] \in 0 .. MaxTick
                 /\ image[a].key[3] \in 0 .. BatchSize - 1
                 /\ image[a].batch \in Batches
           /\ \A e \in shelf : e[1] \in Templates /\ e[2] \in Difficulties /\ e[3] \in Images
<1>1. \A b \in Batches : batch[b] \in Job BY DEF GenerationTypes
<1>2. \A a \in Images : image[a] # Nothing => image[a] \in Image BY DEF GenerationTypes
<1>3. \A k \in ImageKeys : k[2] \in 0 .. MaxTick /\ k[3] \in 0 .. BatchSize - 1 BY DEF ImageKeys
<1>4. \A e \in shelf : e[1] \in Templates /\ e[2] \in Difficulties /\ e[3] \in Images
  BY DEF GenerationTypes
<1> QED BY <1>1, <1>2, <1>3, <1>4 DEF Job, Image

\* The images of a job that have an entry are some of those it made.
LEMMA PooledCount ==
    ASSUME NEW b \in Batches, IsFiniteSet(Made(b))
    PROVE  /\ IsFiniteSet(Pooled(b)) /\ Cardinality(Pooled(b)) \in Nat
           /\ Cardinality(Made(b)) \in Nat
<1>1. Pooled(b) \subseteq Made(b) BY DEF Pooled
<1> QED BY <1>1, FS_Subset, FS_CardinalityType

\* A worker's step concerns its own job and the images of it.
OneJob(b) ==
    /\ config' = config /\ clock' = clock
    /\ batch' \in [Batches -> Job] /\ image' \in [Images -> Image \cup {Nothing}]
    /\ \A c \in Batches \ {b} : batch'[c] = batch[c]
    /\ \A a \in Images :
          \/ image'[a] = image[a]
          \/ image[a] = Nothing /\ image'[a].batch = b
          \/ /\ image[a] # Nothing /\ image[a].batch = b
             /\ image'[a] # Nothing /\ image'[a].batch = b /\ image'[a].key = image[a].key

\* The other jobs and their images stay as they are.
LEMMA OtherJobs ==
    ASSUME GenerationInductive, NEW b \in Batches, OneJob(b), NEW c \in Batches \ {b}
    PROVE  /\ JobFits(c)' /\ KeysFit(c)' /\ CountsFit(c)'
<1>1. JobFits(c) /\ KeysFit(c) /\ CountsFit(c) BY DEF GenerationInductive
<1>2. batch'[c] = batch[c] /\ config' = config /\ clock' = clock BY DEF OneJob
<1>3. Made(c)' = Made(c)
  <2>1. \A a \in Images : (image'[a] # Nothing /\ image'[a].batch = c)
                          <=> (image[a] # Nothing /\ image[a].batch = c)
    BY DEF OneJob
  <2> QED BY <2>1 DEF Made
<1>4. \A a \in Made(c) : image'[a] = image[a] BY DEF OneJob, Made
<1>5. Pooled(c)' = Pooled(c) BY <1>3, <1>4 DEF Pooled
<1>6. JobFits(c)'
  <2>1. batch[c].step # "draw" => batch[c].image \in Made(c)
    BY <1>1, GenerationMembers DEF JobFits, Made, GenerationInductive
  <2> QED BY <1>1, <1>2, <1>4, <2>1 DEF JobFits, Retried
<1>7. KeysFit(c)' BY <1>1, <1>2, <1>3, <1>4 DEF KeysFit, Retried, InHand
<1>8. CountsFit(c)' BY <1>1, <1>2, <1>3, <1>5 DEF CountsFit, Tries, InHand
<1> QED BY <1>6, <1>7, <1>8

\* What is shown stays shown as long as the bucket keeps it, whatever else is drawn.
LEMMA StaysShown ==
    ASSUME NEW b \in Batches, OneJob(b), picture' = picture, NEW a \in Images, Shown(a),
           image[a] # Nothing
    PROVE  Shown(a)'
<1>1. \A o \in Images : image[o] # Nothing =>
          image'[o] # Nothing /\ image'[o].key = image[o].key /\ image'[o].batch = image[o].batch
  BY DEF OneJob
<1> QED BY <1>1 DEF Shown

\* A job is queued, taken up, or ended with nothing in hand.
LEMMA JobOnly ==
    ASSUME GenerationInductive, NEW b \in Batches, OneJob(b),
           image' = image, picture' = picture, shelf' = shelf,
           JobFits(b)', KeysFit(b)', CountsFit(b)',
           batch'[b].step = "draw", batch'[b].state # "absent",
           \/ batch[b].state = "absent"
           \/ batch'[b].config = batch[b].config /\ batch'[b].difficulty = batch[b].difficulty
    PROVE  GenerationInductive'
<1>1. GenerationTypes' BY DEF GenerationInductive, GenerationTypes, OneJob
<1>2. \A c \in Batches : JobFits(c)' /\ KeysFit(c)' /\ CountsFit(c)'
  BY OtherJobs
<1>3. PicturesFit'
  <2>1. \A a \in Images : Put(a)' => Put(a) BY DEF Put, OneJob
  <2>2. ASSUME NEW a \in Images, Put(a)' PROVE Shown(a)'
    <3>1. Shown(a) /\ image[a] # Nothing
      BY <2>1, <2>2 DEF GenerationInductive, PicturesFit, Put
    <3> QED BY <3>1, StaysShown
  <2> QED BY <2>2 DEF PicturesFit
<1>4. ShelfFits'
  <2>1. ASSUME NEW e \in shelf PROVE EntryFits(e)'
    <3>1. EntryFits(e) /\ image[e[3]].batch \in Batches
      BY GenerationMembers DEF GenerationInductive, ShelfFits, EntryFits
    <3> QED BY <3>1 DEF EntryFits, OneJob
  <2> QED BY <2>1 DEF GenerationInductive, ShelfFits
<1> QED BY <1>1, <1>2, <1>3, <1>4 DEF GenerationInductive

\* A job before it is queued, and one that begins again.
LEMMA NoJobFacts ==
    /\ NoJob \in Job
    /\ NoJob.made = 0 /\ NoJob.stalled = FALSE /\ NoJob.step = "draw" /\ NoJob.index = 0
    /\ NoJob.image = Nothing
BY DEF NoJob, Job

LEMMA AgainFacts ==
    ASSUME NEW r \in Job
    PROVE  /\ Again(r) \in Job /\ Again(r).step = "draw" /\ Again(r).index = 0
           /\ Again(r).image = Nothing /\ Again(r).config = r.config
           /\ Again(r).difficulty = r.difficulty /\ Again(r).stalled = r.stalled
           /\ Again(r).made = r.made
<1>1. 0 \in 0 .. BatchSize - 1 OBVIOUS
<1>2. [r EXCEPT !.step = "draw"] \in Job BY DEF Job
<1>3. [r EXCEPT !.step = "draw", !.index = 0] \in Job BY <1>1, <1>2 DEF Job
<1>4. Again(r) \in Job BY <1>3 DEF Again, Job
<1> QED BY <1>4 DEF Again, Job

\* enqueue, by an administrator, of a configuration that is there.
LEMMA EnqueueStep ==
    ASSUME GenerationInductive, NEW b \in Batches, NEW c \in Configs, NEW d \in Difficulties,
           Enqueue(b, c, d)
    PROVE  GenerationInductive'
<1> DEFINE r == [NoJob EXCEPT !.state = "queued", !.config = c, !.difficulty = d]
<1>1. /\ batch[b].state = "absent" /\ config[c] # Nothing
      /\ batch' = [batch EXCEPT ![b] = r]
      /\ config' = config /\ clock' = clock /\ image' = image /\ picture' = picture
      /\ shelf' = shelf
  BY DEF Enqueue, authoring
<1>2. /\ r \in Job /\ r.state = "queued" /\ r.config = c /\ r.difficulty = d /\ r.made = 0
      /\ r.stalled = FALSE /\ r.step = "draw" /\ r.index = 0 /\ r.image = Nothing
  BY NoJobFacts DEF Job
<1>3. batch'[b] = r BY <1>1 DEF GenerationInductive, GenerationTypes
<1> HIDE DEF r
<1>4. OneJob(b) BY <1>1, <1>2 DEF GenerationInductive, GenerationTypes, OneJob
<1>5. JobFits(b) /\ KeysFit(b) /\ CountsFit(b) BY DEF GenerationInductive
<1>6. JobFits(b)' BY <1>1, <1>2, <1>3 DEF JobFits, Retried
<1>7. Made(b)' = Made(b) /\ Pooled(b)' = Pooled(b) BY <1>1 DEF Made, Pooled
<1>8. /\ batch[b].made = 0 /\ ~batch[b].stalled /\ batch[b].index = 0 /\ batch[b].image = Nothing
      /\ batch[b].state \notin Ended
  BY <1>1, <1>5 DEF JobFits, Ended
<1>9. \A a \in Made(b) : FALSE
  <2>1. SUFFICES ASSUME NEW a \in Made(b) PROVE FALSE OBVIOUS
  <2>2. a \in Images /\ image[a].key[3] \in 0 .. BatchSize - 1
    BY GenerationMembers DEF Made, GenerationInductive
  <2>3. InHand(b) = 0 BY <1>1, <1>5 DEF JobFits, InHand
  <2> QED BY <1>5, <1>8, <2>2, <2>3 DEF KeysFit, Retried
<1>10. KeysFit(b)' BY <1>7, <1>9 DEF KeysFit
<1>11. CountsFit(b)'
  <2>1. Cardinality(Made(b)) = 0 /\ IsFiniteSet(Made(b)) /\ Made(b) = {} BY <1>9, FS_EmptySet
  <2>2. (BatchAttempts + 1) * BatchSize \in Nat BY MoreTries
  <2>3. 0 * BatchSize = 0 BY MoreTries, OneTry
  <2> QED BY <1>2, <1>3, <1>7, <2>1, <2>2, <2>3 DEF CountsFit, Tries, InHand, Ended
<1> QED BY <1>1, <1>2, <1>3, <1>4, <1>6, <1>10, <1>11, JobOnly

\* The worker takes a job up: one that is tried again waits first.
LEMMA BatchTakeStep ==
    ASSUME GenerationInductive, NEW b \in Batches, BatchTake(b)
    PROVE  GenerationInductive'
<1>1. /\ batch[b].state = "queued"
      /\ Retried(b) => clock > batch[b].since
      /\ batch' = [batch EXCEPT ![b].state = "active"]
      /\ config' = config /\ clock' = clock /\ image' = image /\ picture' = picture
      /\ shelf' = shelf
  BY DEF BatchTake, authoring, Retried
<1>2. batch[b] \in Job BY GenerationMembers DEF GenerationInductive
<1>3. /\ batch'[b] \in Job /\ batch'[b].state = "active"
      /\ batch'[b].config = batch[b].config /\ batch'[b].difficulty = batch[b].difficulty
      /\ batch'[b].made = batch[b].made /\ batch'[b].stalled = batch[b].stalled
      /\ batch'[b].step = batch[b].step /\ batch'[b].index = batch[b].index
      /\ batch'[b].image = batch[b].image /\ batch'[b].since = batch[b].since
  BY <1>1, <1>2 DEF GenerationInductive, GenerationTypes, Job
<1>4. OneJob(b) BY <1>1, <1>3 DEF GenerationInductive, GenerationTypes, OneJob
<1>5. JobFits(b) /\ KeysFit(b) /\ CountsFit(b) BY DEF GenerationInductive
<1>6. batch[b].step = "draw" /\ batch[b].index = 0 BY <1>1, <1>5 DEF JobFits
<1>7. JobFits(b)' BY <1>1, <1>3, <1>5 DEF JobFits, Retried, Ended
<1>8. Made(b)' = Made(b) /\ Pooled(b)' = Pooled(b) BY <1>1 DEF Made, Pooled
<1>9. KeysFit(b)'
  BY <1>1, <1>3, <1>5, <1>8 DEF KeysFit, Retried, Ended, InHand
<1>10. CountsFit(b)'
  <2>1. Cardinality(Pooled(b)) \in Nat BY <1>5, PooledCount DEF CountsFit
  <2> QED BY <1>1, <1>3, <1>5, <1>6, <1>8, <2>1 DEF CountsFit, Tries, InHand, Ended
<1> QED BY <1>1, <1>3, <1>4, <1>6, <1>7, <1>9, <1>10, JobOnly

\* A job that fails or stalls begins again, or ends: what it made stays.
LEMMA Dropped ==
    ASSUME GenerationInductive, NEW b \in Batches, NEW r \in Job,
           batch[b].state = "active", batch' = [batch EXCEPT ![b] = r],
           config' = config, clock' = clock, image' = image, picture' = picture, shelf' = shelf,
           r.state \in {"queued", "failed"}, r.step = "draw", r.index = 0, r.image = Nothing,
           r.config = batch[b].config, r.difficulty = batch[b].difficulty, r.since = clock,
           r.made > 0 \/ r.stalled,
           \/ r.state = "failed"
           \/ /\ r.made < BatchAttempts
              /\ r.made + (IF r.stalled THEN 1 ELSE 0) = Tries(b) + 1
    PROVE  GenerationInductive'
<1>1. batch'[b] = r BY DEF GenerationInductive, GenerationTypes
<1>2. OneJob(b) BY DEF GenerationInductive, GenerationTypes, OneJob
<1>3. JobFits(b) /\ KeysFit(b) /\ CountsFit(b) BY DEF GenerationInductive
<1>4. /\ batch[b].made \in 0 .. BatchAttempts /\ batch[b].stalled \in BOOLEAN
      /\ batch[b].index \in 0 .. BatchSize - 1
  BY GenerationMembers DEF GenerationInductive
<1>5. JobFits(b)' BY <1>1, <1>3 DEF JobFits, Ended
<1>6. Made(b)' = Made(b) /\ Pooled(b)' = Pooled(b) BY DEF Made, Pooled
<1>7. KeysFit(b)' BY <1>1, <1>3, <1>6 DEF KeysFit, Retried
<1>8. CountsFit(b)'
  <2>1. Tries(b) \in Nat BY <1>4 DEF Tries
  <2>2. Cardinality(Made(b)) \in Nat BY <1>3, PooledCount DEF CountsFit
  <2>3. Cardinality(Made(b)) <= Tries(b) * BatchSize + batch[b].index + InHand(b)
    BY <1>3 DEF CountsFit, Ended
  <2>4. Tries(b) * BatchSize \in Nat /\ InHand(b) \in {0, 1} BY <2>1, MoreTries DEF InHand
  <2>5. Cardinality(Made(b)) <= (Tries(b) + 1) * BatchSize
    BY <1>4, <2>1, <2>2, <2>3, <2>4, OneTry
  <2>6. r.state # "failed" => Cardinality(Made(b)) <= Tries(b)' * BatchSize + 0 + 0
    <3>1. r.state # "failed" => Tries(b)' = Tries(b) + 1 BY <1>1 DEF Tries
    <3>2. (Tries(b) + 1) * BatchSize \in Nat BY <2>1, MoreTries
    <3> QED BY <2>5, <3>1, <3>2
  <2> QED BY <1>1, <1>3, <1>6, <2>6 DEF CountsFit, InHand, Ended
<1> QED BY <1>1, <1>2, <1>5, <1>7, <1>8, JobOnly

\* A step of the processor throws.
LEMMA BatchFailStep ==
    ASSUME GenerationInductive, NEW b \in Batches, BatchFail(b)
    PROVE  GenerationInductive'
<1> DEFINE g == Again(batch[b])
           m == batch[b].made + 1
           st == IF batch[b].made + 1 < BatchAttempts THEN "queued" ELSE "failed"
           r == [g EXCEPT !.since = clock, !.made = m, !.state = st]
<1>1. /\ batch[b].state = "active" /\ batch' = [batch EXCEPT ![b] = r]
      /\ config' = config /\ clock' = clock /\ image' = image /\ picture' = picture
      /\ shelf' = shelf
  BY DEF BatchFail, authoring
<1>2. batch[b] \in Job /\ clock \in 0 .. MaxTick /\ batch[b].made \in 0 .. BatchAttempts
      /\ batch[b].stalled \in BOOLEAN
  BY GenerationMembers DEF GenerationInductive, GenerationTypes
<1>3. batch[b].made < BatchAttempts
  BY <1>1 DEF GenerationInductive, JobFits, Ended
<1>4. /\ r \in Job /\ r.state = (IF batch[b].made + 1 < BatchAttempts THEN "queued" ELSE "failed")
      /\ r.step = "draw" /\ r.index = 0 /\ r.image = Nothing /\ r.config = batch[b].config
      /\ r.difficulty = batch[b].difficulty /\ r.since = clock /\ r.made = batch[b].made + 1
      /\ r.stalled = batch[b].stalled
  <2>1. m \in 0 .. BatchAttempts /\ st \in {"queued", "failed"} BY <1>2, <1>3
  <2>2. /\ g \in Job /\ g.step = "draw" /\ g.index = 0 /\ g.image = Nothing
        /\ g.config = batch[b].config /\ g.difficulty = batch[b].difficulty
        /\ g.stalled = batch[b].stalled
    BY <1>2, AgainFacts
  <2>3. m = batch[b].made + 1
        /\ st = (IF batch[b].made + 1 < BatchAttempts THEN "queued" ELSE "failed")
    OBVIOUS
  <2> HIDE DEF g, m, st
  <2>4. [g EXCEPT !.since = clock] \in Job BY <1>2, <2>2 DEF Job
  <2>5. [g EXCEPT !.since = clock, !.made = m] \in Job BY <1>2, <2>1, <2>4 DEF Job
  <2>6. /\ r \in Job /\ r.state = st /\ r.since = clock /\ r.step = g.step
        /\ r.index = g.index /\ r.image = g.image /\ r.config = g.config
        /\ r.difficulty = g.difficulty /\ r.made = m /\ r.stalled = g.stalled
    BY <1>2, <2>1, <2>2, <2>5, ZenonT(40) DEF Job
  <2> QED BY <2>2, <2>3, <2>6
<1> HIDE DEF r
<1>5. r.made + (IF r.stalled THEN 1 ELSE 0) = Tries(b) + 1 BY <1>2, <1>4 DEF Tries
<1>6. r.made > 0 BY <1>2, <1>4
<1> QED BY <1>1, <1>2, <1>4, <1>5, <1>6, Dropped

\* The worker dies and the queue finds the job stalled.
LEMMA BatchStallStep ==
    ASSUME GenerationInductive, NEW b \in Batches, BatchStall(b)
    PROVE  GenerationInductive'
<1> DEFINE g == Again(batch[b])
           st == IF batch[b].stalled THEN "failed" ELSE "queued"
           r == [g EXCEPT !.since = clock, !.stalled = TRUE, !.state = st]
<1>1. /\ batch[b].state = "active" /\ batch' = [batch EXCEPT ![b] = r]
      /\ config' = config /\ clock' = clock /\ image' = image /\ picture' = picture
      /\ shelf' = shelf
  BY DEF BatchStall, authoring
<1>2. batch[b] \in Job /\ clock \in 0 .. MaxTick /\ batch[b].made \in 0 .. BatchAttempts
      /\ batch[b].stalled \in BOOLEAN
  BY GenerationMembers DEF GenerationInductive, GenerationTypes
<1>3. batch[b].made < BatchAttempts
  BY <1>1 DEF GenerationInductive, JobFits, Ended
<1>4. /\ r \in Job /\ r.state = (IF batch[b].stalled THEN "failed" ELSE "queued")
      /\ r.step = "draw" /\ r.index = 0 /\ r.image = Nothing /\ r.config = batch[b].config
      /\ r.difficulty = batch[b].difficulty /\ r.since = clock /\ r.made = batch[b].made
      /\ r.stalled = TRUE
  <2>1. st \in {"queued", "failed"} OBVIOUS
  <2>2. /\ g \in Job /\ g.step = "draw" /\ g.index = 0 /\ g.image = Nothing
        /\ g.config = batch[b].config /\ g.difficulty = batch[b].difficulty
        /\ g.made = batch[b].made
    BY <1>2, AgainFacts
  <2>3. st = (IF batch[b].stalled THEN "failed" ELSE "queued") OBVIOUS
  <2> HIDE DEF g, st
  <2>4. [g EXCEPT !.since = clock] \in Job BY <1>2, <2>2 DEF Job
  <2>5. [g EXCEPT !.since = clock, !.stalled = TRUE] \in Job BY <1>2, <2>1, <2>4 DEF Job
  <2>6. /\ r \in Job /\ r.state = st /\ r.since = clock /\ r.step = g.step
        /\ r.index = g.index /\ r.image = g.image /\ r.config = g.config
        /\ r.difficulty = g.difficulty /\ r.made = g.made /\ r.stalled = TRUE
    BY <1>2, <2>1, <2>2, <2>5, ZenonT(40) DEF Job
  <2> QED BY <2>2, <2>3, <2>6
<1> HIDE DEF r
<1>5. r.state # "failed" => r.made + (IF r.stalled THEN 1 ELSE 0) = Tries(b) + 1
  BY <1>2, <1>4 DEF Tries
<1> QED BY <1>1, <1>3, <1>4, <1>5, Dropped

\* An image is drawn: its key is new among those of the job, since the job either has not
\* failed yet or has waited, and the index is the next.
LEMMA BatchDrawStep ==
    ASSUME GenerationInductive, NEW b \in Batches, NEW a \in Images, BatchDraw(b, a)
    PROVE  GenerationInductive'
<1> DEFINE k == <<batch[b].config, clock, batch[b].index>>
           row == [stage |-> "drawn", batch |-> b, key |-> k]
<1>1. /\ batch[b].state = "active" /\ batch[b].step = "draw" /\ image[a] = Nothing
      /\ image' = [image EXCEPT ![a] = row]
      /\ batch' = [batch EXCEPT ![b] = [@ EXCEPT !.step = "put", !.image = a]]
      /\ config' = config /\ clock' = clock /\ picture' = picture /\ shelf' = shelf
  BY DEF BatchDraw, authoring
<1>2. JobFits(b) /\ KeysFit(b) /\ CountsFit(b) BY DEF GenerationInductive
<1>3. /\ batch[b] \in Job /\ clock \in 0 .. MaxTick /\ batch[b].index \in 0 .. BatchSize - 1
      /\ batch[b].config \in Configs /\ batch[b].image = Nothing
      /\ batch[b].made \in 0 .. BatchAttempts /\ batch[b].stalled \in BOOLEAN
      /\ batch[b].since \in 0 .. MaxTick
  BY <1>1, <1>2, GenerationMembers DEF GenerationInductive, GenerationTypes, JobFits
<1>4. /\ batch'[b] \in Job /\ batch'[b].state = "active" /\ batch'[b].step = "put"
      /\ batch'[b].image = a
      /\ batch'[b].config = batch[b].config /\ batch'[b].difficulty = batch[b].difficulty
      /\ batch'[b].made = batch[b].made /\ batch'[b].stalled = batch[b].stalled
      /\ batch'[b].index = batch[b].index /\ batch'[b].since = batch[b].since
  BY <1>1, <1>3 DEF GenerationInductive, GenerationTypes, Job
<1>5. /\ k \in ImageKeys /\ k[2] = clock /\ k[3] = batch[b].index BY <1>3 DEF ImageKeys
<1> HIDE DEF k
<1>6. row \in Image /\ row # Nothing BY <1>5, NothingIsNoRow DEF Image
<1>7. /\ image'[a] = row /\ \A x \in Images \ {a} : image'[x] = image[x]
      /\ row.stage = "drawn" /\ row.batch = b /\ row.key = k
  BY <1>1 DEF GenerationInductive, GenerationTypes
<1> HIDE DEF row
<1>8. OneJob(b)
  BY <1>1, <1>4, <1>6, <1>7 DEF GenerationInductive, GenerationTypes, OneJob
<1>9. a \notin Made(b) /\ Made(b)' = Made(b) \cup {a} /\ Pooled(b)' = Pooled(b)
  <2>1. a \notin Made(b) BY <1>1 DEF Made
  <2>2. Made(b)' = Made(b) \cup {a} BY <1>6, <1>7 DEF Made
  <2>3. Pooled(b)' = Pooled(b)
    <3>1. \A x \in Made(b) : image'[x] = image[x] BY <1>7, <2>1 DEF Made
    <3>2. image'[a].stage # "pooled" BY <1>7
    <3>3. \A x \in Made(b)' : image'[x].stage = "pooled" <=> x \in Pooled(b)
      BY <2>1, <2>2, <3>1, <3>2 DEF Pooled
    <3>4. Pooled(b)' = {x \in Made(b)' : image'[x].stage = "pooled"} BY DEF Pooled
    <3>5. Pooled(b) \subseteq Made(b)' BY <2>2 DEF Pooled
    <3> QED BY <3>3, <3>4, <3>5
  <2> QED BY <2>1, <2>2, <2>3
<1>10. GenerationTypes'
  BY <1>1, <1>6, <1>8 DEF GenerationInductive, GenerationTypes, OneJob
<1>11. JobFits(b)'
  BY <1>1, <1>2, <1>4, <1>6, <1>7 DEF JobFits, Retried, Ended
<1>12. KeysFit(b)'
  <2>1. \A o \in Made(b) :
            /\ o \in Images \ {a} /\ image'[o] = image[o] /\ image[o].key[2] <= clock
            /\ image[o].key[2] \in 0 .. MaxTick /\ image[o].key[3] \in 0 .. BatchSize - 1
            /\ \/ Retried(b) /\ image[o].key[2] <= batch[b].since
               \/ image[o].key[3] < batch[b].index
    BY <1>1, <1>2, <1>3, <1>7, <1>9, GenerationMembers
       DEF KeysFit, Made, Ended, InHand, GenerationInductive
  <2>2. \A o \in Made(b) : image[o].key # k
    <3>1. Retried(b) => clock > batch[b].since BY <1>1, <1>2 DEF JobFits
    <3> QED BY <1>3, <1>5, <2>1, <3>1
  <2>3. \A o, x \in Made(b) : o # x => image[o].key # image[x].key BY <1>2 DEF KeysFit
  <2>4. \A o \in Made(b)' :
            /\ image'[o].key[2] <= clock
            /\ \/ Retried(b)' /\ image'[o].key[2] <= batch'[b].since
               \/ image'[o].key[3] < batch'[b].index + InHand(b)'
    BY <1>3, <1>4, <1>5, <1>7, <1>9, <2>1 DEF Retried, InHand
  <2>5. \A o, x \in Made(b)' : o # x => image'[o].key # image'[x].key
    BY <1>7, <1>9, <2>1, <2>2, <2>3
  <2> QED BY <1>1, <2>4, <2>5 DEF KeysFit
<1>13. CountsFit(b)'
  <2>1. IsFiniteSet(Made(b)) BY <1>2 DEF CountsFit
  <2>2. IsFiniteSet(Made(b)') /\ Cardinality(Made(b)') = Cardinality(Made(b)) + 1
    BY <1>9, <2>1, FS_AddElement
  <2>3. Cardinality(Made(b)) <= Tries(b) * BatchSize + batch[b].index
    <3>1. InHand(b) = 0 BY <1>1 DEF InHand
    <3>2. Tries(b) \in Nat BY <1>3 DEF Tries
    <3>3. Tries(b) * BatchSize \in Nat BY <3>2, MoreTries
    <3> QED BY <1>1, <1>2, <1>3, <3>1, <3>3 DEF CountsFit, Ended
  <2>4. Tries(b)' = Tries(b) /\ InHand(b)' = 1 BY <1>4 DEF Tries, InHand
  <2>5. Tries(b) \in Nat /\ Tries(b) <= BatchAttempts
    BY <1>1, <1>2, <1>3 DEF Tries, JobFits, Ended
  <2>6. /\ Tries(b) * BatchSize \in Nat /\ Tries(b) * BatchSize <= BatchAttempts * BatchSize
        /\ BatchAttempts * BatchSize \in Nat
        /\ (BatchAttempts + 1) * BatchSize = BatchAttempts * BatchSize + BatchSize
    BY <2>5, MoreTries, OneTry
  <2>7. Cardinality(Made(b)) \in Nat BY <2>1, PooledCount
  <2>8. Cardinality(Made(b)') <= Tries(b)' * BatchSize + batch'[b].index + InHand(b)'
    BY <1>3, <1>4, <2>2, <2>3, <2>4, <2>6, <2>7
  <2>9. Cardinality(Made(b)') <= (BatchAttempts + 1) * BatchSize
    BY <1>3, <2>2, <2>3, <2>6, <2>7
  <2>10. Cardinality(Pooled(b)') >= batch'[b].index BY <1>1, <1>2, <1>4, <1>9 DEF CountsFit
  <2> QED BY <1>4, <2>2, <2>8, <2>9, <2>10 DEF CountsFit
<1>14. PicturesFit'
  <2>1. ASSUME NEW x \in Images, Put(x)' PROVE Shown(x)'
    <3>1. x # a
      BY <1>4, <1>7, <1>1, <1>8, <2>1, GenerationMembers
      DEF Put, OneJob, GenerationInductive, JobFits
    <3>2. Put(x)
      BY <1>4, <1>7, <1>8, <2>1, <3>1 DEF Put, OneJob
    <3>3. Shown(x) /\ image[x] # Nothing
      BY <3>2 DEF GenerationInductive, PicturesFit, Put
    <3> QED BY <1>1, <1>8, <3>3, StaysShown
  <2> QED BY <2>1 DEF PicturesFit
<1>15. ShelfFits'
  <2>1. ASSUME NEW e \in shelf PROVE EntryFits(e)'
    <3>1. EntryFits(e) /\ image[e[3]].batch \in Batches /\ e[3] # a /\ e[3] \in Images
      BY <1>1, GenerationMembers DEF GenerationInductive, ShelfFits, EntryFits
    <3>2. image'[e[3]] = image[e[3]] BY <1>7, <3>1
    <3>3. \A c \in Batches : /\ batch'[c].config = batch[c].config
                             /\ batch'[c].difficulty = batch[c].difficulty
                             /\ batch'[c].state = batch[c].state
      BY <1>1, <1>4, <1>8 DEF OneJob
    <3> QED BY <1>1, <3>1, <3>2, <3>3 DEF EntryFits
  <2>2. \A x \in Images : image'[x] # Nothing /\ image'[x].stage = "pooled" => image'[x] = image[x]
    BY <1>7
  <2> QED BY <1>1, <2>1, <2>2 DEF GenerationInductive, ShelfFits
<1> QED BY <1>8, <1>10, <1>11, <1>12, <1>13, <1>14, <1>15, OtherJobs DEF GenerationInductive

\* The image in hand goes into the bucket: one it replaces is of another job.
LEMMA PutPictureStep ==
    ASSUME GenerationInductive, NEW b \in Batches, PutPicture(b)
    PROVE  GenerationInductive'
<1> DEFINE a == batch[b].image
<1>1. /\ batch[b].state = "active" /\ batch[b].step = "put"
      /\ picture' = [picture EXCEPT ![image[a].key] = a]
      /\ batch' = [batch EXCEPT ![b].step = "insert"]
      /\ config' = config /\ clock' = clock /\ image' = image /\ shelf' = shelf
  BY DEF PutPicture, authoring
<1>2. JobFits(b) /\ KeysFit(b) /\ CountsFit(b) BY DEF GenerationInductive
<1>3. batch[b] \in Job BY GenerationMembers DEF GenerationInductive
<1>4. /\ a \in Images /\ image[a] # Nothing /\ image[a].batch = b /\ image[a].stage = "drawn"
      /\ image[a].key \in ImageKeys
  BY <1>1, <1>2, GenerationMembers DEF GenerationInductive, JobFits
<1>5. /\ batch'[b] \in Job /\ batch'[b].state = "active" /\ batch'[b].step = "insert"
      /\ batch'[b].image = a
      /\ batch'[b].config = batch[b].config /\ batch'[b].difficulty = batch[b].difficulty
      /\ batch'[b].made = batch[b].made /\ batch'[b].stalled = batch[b].stalled
      /\ batch'[b].index = batch[b].index /\ batch'[b].since = batch[b].since
  BY <1>1, <1>3 DEF GenerationInductive, GenerationTypes, Job
<1> HIDE DEF a
<1>6. OneJob(b) BY <1>1, <1>5 DEF GenerationInductive, GenerationTypes, OneJob
<1>7. GenerationTypes' BY <1>1, <1>4, <1>6 DEF GenerationInductive, GenerationTypes, OneJob
<1>8. Made(b)' = Made(b) /\ Pooled(b)' = Pooled(b) BY <1>1 DEF Made, Pooled
<1>9. batch[b].image = a BY DEF a
<1>10. JobFits(b)' BY <1>1, <1>2, <1>4, <1>5, <1>9 DEF JobFits, Retried, Ended
<1>11. KeysFit(b)' BY <1>1, <1>2, <1>5, <1>8 DEF KeysFit, Retried, Ended, InHand
<1>12. CountsFit(b)' BY <1>1, <1>2, <1>5, <1>8 DEF CountsFit, Tries, InHand, Ended
<1>13. /\ picture'[image[a].key] = a
       /\ \A k \in ImageKeys : k # image[a].key => picture'[k] = picture[k]
  BY <1>1, <1>4 DEF GenerationInductive, GenerationTypes
<1>14. PicturesFit'
  <2>1. ASSUME NEW x \in Images, Put(x)' PROVE Shown(x)'
    <3>1. CASE x = a BY <1>1, <1>13, <3>1 DEF Shown
    <3>2. CASE x # a
      <4>1. Put(x) BY <1>1, <1>5, <1>6, <2>1, <3>2 DEF Put, OneJob
      <4>2. Shown(x) /\ image[x] # Nothing
        BY <4>1 DEF GenerationInductive, PicturesFit, Put
      <4>3. image[x].key \in ImageKeys BY <4>2, GenerationMembers DEF GenerationInductive
      <4>4. CASE image[x].key # image[a].key
        BY <1>1, <1>13, <4>2, <4>3, <4>4 DEF Shown
      <4>5. CASE image[x].key = image[a].key
        <5>1. image[x].batch # b
          BY <1>2, <1>4, <3>2, <4>2, <4>5 DEF KeysFit, Made
        <5> QED BY <1>1, <1>4, <3>2, <4>5, <5>1 DEF Shown
      <4> QED BY <4>4, <4>5
    <3> QED BY <3>1, <3>2
  <2> QED BY <2>1 DEF PicturesFit
<1>15. ShelfFits'
  <2>1. \A c \in Batches : /\ batch'[c].config = batch[c].config
                           /\ batch'[c].difficulty = batch[c].difficulty
                           /\ batch'[c].state = batch[c].state
    BY <1>1, <1>5, <1>6 DEF OneJob
  <2>2. ASSUME NEW e \in shelf PROVE EntryFits(e)'
    <3>1. EntryFits(e) /\ image[e[3]].batch \in Batches
      BY GenerationMembers DEF GenerationInductive, ShelfFits, EntryFits
    <3> QED BY <1>1, <2>1, <3>1 DEF EntryFits
  <2> QED BY <1>1, <2>2 DEF GenerationInductive, ShelfFits
<1> QED BY <1>6, <1>7, <1>10, <1>11, <1>12, <1>14, <1>15, OtherJobs DEF GenerationInductive

\* What the steps that change the stage of the image in hand have in common.
LEMMA SameImages ==
    ASSUME GenerationInductive, NEW b \in Batches, NEW a \in Images,
           image[a] # Nothing, image[a].batch = b,
           NEW st \in {"row", "pooled"}, image' = [image EXCEPT ![a].stage = st]
    PROVE  /\ image' \in [Images -> Image \cup {Nothing}]
           /\ image'[a] \in Image /\ image'[a] # Nothing
           /\ image'[a].stage = st /\ image'[a].batch = b /\ image'[a].key = image[a].key
           /\ \A x \in Images \ {a} : image'[x] = image[x]
           /\ Made(b)' = Made(b)
<1>1. image[a] \in Image BY GenerationMembers DEF GenerationInductive
<1>2. /\ image'[a] \in Image /\ image'[a].stage = st /\ image'[a].batch = b
      /\ image'[a].key = image[a].key
  BY <1>1 DEF GenerationInductive, GenerationTypes, Image
<1>3. image'[a] # Nothing BY <1>2, NothingIsNoRow
<1>4. \A x \in Images \ {a} : image'[x] = image[x] BY DEF GenerationInductive, GenerationTypes
<1>5. image' \in [Images -> Image \cup {Nothing}]
  BY <1>2, <1>4 DEF GenerationInductive, GenerationTypes
<1>6. \A x \in Images : image'[x] # Nothing /\ image'[x].batch = b
                        <=> image[x] # Nothing /\ image[x].batch = b
  BY <1>2, <1>3, <1>4
<1>7. Made(b)' = Made(b) BY <1>6 DEF Made
<1> QED BY <1>2, <1>3, <1>4, <1>5, <1>7

\* createAsset: the row, after the picture.
LEMMA CreateAssetStep ==
    ASSUME GenerationInductive, NEW b \in Batches, CreateAsset(b)
    PROVE  GenerationInductive'
<1> DEFINE a == batch[b].image
<1>1. /\ batch[b].state = "active" /\ batch[b].step = "insert"
      /\ image' = [image EXCEPT ![a].stage = "row"]
      /\ batch' = [batch EXCEPT ![b].step = "push"]
      /\ config' = config /\ clock' = clock /\ picture' = picture /\ shelf' = shelf
  BY DEF CreateAsset, authoring
<1>2. JobFits(b) /\ KeysFit(b) /\ CountsFit(b) BY DEF GenerationInductive
<1>3. batch[b] \in Job BY GenerationMembers DEF GenerationInductive
<1>4. a \in Images /\ image[a] # Nothing /\ image[a].batch = b /\ image[a].stage = "drawn"
  BY <1>1, <1>2, GenerationMembers DEF GenerationInductive, JobFits
<1>5. /\ batch'[b] \in Job /\ batch'[b].state = "active" /\ batch'[b].step = "push"
      /\ batch'[b].image = a
      /\ batch'[b].config = batch[b].config /\ batch'[b].difficulty = batch[b].difficulty
      /\ batch'[b].made = batch[b].made /\ batch'[b].stalled = batch[b].stalled
      /\ batch'[b].index = batch[b].index /\ batch'[b].since = batch[b].since
  BY <1>1, <1>3 DEF GenerationInductive, GenerationTypes, Job
<1>6. batch[b].image = a OBVIOUS
<1> HIDE DEF a
<1>7. /\ image' \in [Images -> Image \cup {Nothing}] /\ image'[a] # Nothing
      /\ image'[a].stage = "row" /\ image'[a].batch = b /\ image'[a].key = image[a].key
      /\ \A x \in Images \ {a} : image'[x] = image[x]
      /\ Made(b)' = Made(b)
  BY <1>1, <1>4, SameImages
<1>8. OneJob(b) BY <1>1, <1>4, <1>5, <1>7 DEF GenerationInductive, GenerationTypes, OneJob
<1>9. GenerationTypes' BY <1>1, <1>8 DEF GenerationInductive, GenerationTypes, OneJob
<1>10. Pooled(b)' = Pooled(b)
  <2>1. \A x \in Made(b) : image'[x].stage = "pooled" <=> image[x].stage = "pooled"
    BY <1>4, <1>7 DEF Made
  <2> QED BY <1>7, <2>1 DEF Pooled
<1>11. JobFits(b)' BY <1>1, <1>2, <1>5, <1>6, <1>7 DEF JobFits, Retried, Ended
<1>12. KeysFit(b)'
  <2>1. \A x \in Made(b) : image'[x].key = image[x].key BY <1>7 DEF Made
  <2> QED BY <1>1, <1>2, <1>5, <1>7, <2>1 DEF KeysFit, Retried, Ended, InHand
<1>13. CountsFit(b)' BY <1>1, <1>2, <1>5, <1>7, <1>10 DEF CountsFit, Tries, InHand, Ended
<1>14. PicturesFit'
  <2>1. ASSUME NEW x \in Images, Put(x)' PROVE Shown(x)'
    <3>1. Put(x)
      <4>1. Put(a) BY <1>1, <1>4, <1>6 DEF Put
      <4>2. x # a => Put(x) BY <1>5, <1>7, <1>8, <2>1 DEF Put, OneJob
      <4> QED BY <4>1, <4>2
    <3>2. Shown(x) /\ image[x] # Nothing BY <3>1 DEF GenerationInductive, PicturesFit, Put
    <3> QED BY <1>1, <1>8, <3>2, StaysShown
  <2> QED BY <2>1 DEF PicturesFit
<1>15. ShelfFits'
  <2>1. \A c \in Batches : /\ batch'[c].config = batch[c].config
                           /\ batch'[c].difficulty = batch[c].difficulty
                           /\ batch'[c].state = batch[c].state
    BY <1>1, <1>5, <1>8 DEF OneJob
  <2>2. ASSUME NEW e \in shelf PROVE EntryFits(e)'
    <3>1. EntryFits(e) /\ image[e[3]].batch \in Batches /\ e[3] # a /\ e[3] \in Images
      BY <1>4, GenerationMembers DEF GenerationInductive, ShelfFits, EntryFits
    <3>2. image'[e[3]] = image[e[3]] BY <1>7, <3>1
    <3> QED BY <1>1, <2>1, <3>1, <3>2 DEF EntryFits
  <2>3. \A x \in Images : image'[x] # Nothing /\ image'[x].stage = "pooled" => image'[x] = image[x]
    BY <1>7
  <2> QED BY <1>1, <2>2, <2>3 DEF GenerationInductive, ShelfFits
<1> QED BY <1>8, <1>9, <1>11, <1>12, <1>13, <1>14, <1>15, OtherJobs DEF GenerationInductive

\* pushAsset: an entry for the image that has its row, then the next image or the end.
LEMMA PushAssetStep ==
    ASSUME GenerationInductive, AdminTypes, NEW b \in Batches, PushAsset(b)
    PROVE  GenerationInductive'
<1> DEFINE a == batch[b].image
           entry == <<config[batch[b].config].template, batch[b].difficulty, a>>
           last == batch[b].index + 1 = BatchSize
           next == [batch[b] EXCEPT !.step = "draw", !.index = batch[b].index + 1,
                                    !.image = Nothing]
           end == [batch[b] EXCEPT !.state = "done", !.step = "draw", !.index = 0,
                                   !.image = Nothing]
<1>1. /\ batch[b].state = "active" /\ batch[b].step = "push"
      /\ shelf' = shelf \cup {entry}
      /\ image' = [image EXCEPT ![a].stage = "pooled"]
      /\ batch' = [batch EXCEPT ![b] = IF last THEN end ELSE next]
      /\ config' = config /\ clock' = clock /\ picture' = picture
  BY DEF PushAsset, authoring
<1>2. JobFits(b) /\ KeysFit(b) /\ CountsFit(b) BY DEF GenerationInductive
<1>3. /\ batch[b] \in Job /\ batch[b].index \in 0 .. BatchSize - 1
      /\ batch[b].made \in 0 .. BatchAttempts /\ batch[b].stalled \in BOOLEAN
  BY GenerationMembers DEF GenerationInductive
<1>4. a \in Images /\ image[a] # Nothing /\ image[a].batch = b /\ image[a].stage = "row"
  BY <1>1, <1>2, GenerationMembers DEF GenerationInductive, JobFits
<1>5. /\ batch'[b] \in Job /\ batch'[b].step = "draw" /\ batch'[b].image = Nothing
      /\ batch'[b].config = batch[b].config /\ batch'[b].difficulty = batch[b].difficulty
      /\ batch'[b].made = batch[b].made /\ batch'[b].stalled = batch[b].stalled
      /\ batch'[b].since = batch[b].since
      /\ last => batch'[b].state = "done" /\ batch'[b].index = 0
      /\ ~last => batch'[b].state = "active" /\ batch'[b].index = batch[b].index + 1
  <2>1. batch'[b] = IF last THEN end ELSE next
    BY <1>1 DEF GenerationInductive, GenerationTypes
  <2>2. CASE last
    <3>1. [batch[b] EXCEPT !.state = "done", !.step = "draw"] \in Job BY <1>3 DEF Job
    <3>2. 0 \in 0 .. BatchSize - 1 OBVIOUS
    <3>3. [batch[b] EXCEPT !.state = "done", !.step = "draw", !.index = 0] \in Job
      BY <3>1, <3>2 DEF Job
    <3>4. end \in Job BY <3>3 DEF Job
    <3>5. /\ end.state = "done" /\ end.step = "draw" /\ end.index = 0 /\ end.image = Nothing
          /\ end.config = batch[b].config /\ end.difficulty = batch[b].difficulty
          /\ end.made = batch[b].made /\ end.stalled = batch[b].stalled
          /\ end.since = batch[b].since
      BY <1>3 DEF Job
    <3>6. batch'[b] = end BY <2>1, <2>2
    <3> HIDE DEF end, last
    <3> QED BY <2>2, <3>4, <3>5, <3>6
  <2>3. CASE ~last
    <3>1. batch[b].index + 1 \in 0 .. BatchSize - 1 BY <1>3, <2>3
    <3>2. [batch[b] EXCEPT !.step = "draw", !.index = batch[b].index + 1] \in Job
      BY <1>3, <3>1 DEF Job
    <3>3. next \in Job BY <3>2 DEF Job
    <3>4. /\ next.state = batch[b].state /\ next.step = "draw"
          /\ next.index = batch[b].index + 1 /\ next.image = Nothing
          /\ next.config = batch[b].config /\ next.difficulty = batch[b].difficulty
          /\ next.made = batch[b].made /\ next.stalled = batch[b].stalled
          /\ next.since = batch[b].since
      BY <1>3 DEF Job
    <3>5. batch'[b] = next BY <2>1, <2>3
    <3> HIDE DEF next, last
    <3> QED BY <1>1, <2>3, <3>3, <3>4, <3>5
  <2> QED BY <2>2, <2>3
<1>6. batch[b].image = a OBVIOUS
<1>7. /\ entry \in Templates \X Difficulties \X Images
      /\ entry[1] = config[batch[b].config].template /\ entry[2] = batch[b].difficulty
      /\ entry[3] = a
  BY <1>1, <1>2, <1>4, AdminMembers DEF JobFits
<1>8. last <=> batch[b].index + 1 = BatchSize OBVIOUS
<1> HIDE DEF a, entry, last, next, end
<1>9. /\ image' \in [Images -> Image \cup {Nothing}] /\ image'[a] # Nothing
      /\ image'[a].stage = "pooled" /\ image'[a].batch = b /\ image'[a].key = image[a].key
      /\ \A x \in Images \ {a} : image'[x] = image[x]
      /\ Made(b)' = Made(b)
  BY <1>1, <1>4, SameImages, ZenonT(40)
<1>10. OneJob(b) BY <1>1, <1>4, <1>5, <1>9 DEF GenerationInductive, GenerationTypes, OneJob
<1>11. GenerationTypes'
  BY <1>1, <1>7, <1>10 DEF GenerationInductive, GenerationTypes, OneJob
<1>12. a \notin Pooled(b) /\ Pooled(b)' = Pooled(b) \cup {a}
  <2>1. a \notin Pooled(b) BY <1>4 DEF Pooled
  <2>2. a \in Made(b) BY <1>4 DEF Made
  <2>3. \A x \in Made(b) : image'[x].stage = "pooled" <=> x \in Pooled(b) \cup {a}
    BY <1>9, <2>1, <2>2 DEF Made, Pooled
  <2>4. Pooled(b)' = {x \in Made(b)' : image'[x].stage = "pooled"} BY DEF Pooled
  <2>5. Pooled(b) \cup {a} \subseteq Made(b) BY <2>2 DEF Pooled
  <2> QED BY <1>9, <2>1, <2>3, <2>4, <2>5
<1>13. JobFits(b)' BY <1>1, <1>2, <1>5 DEF JobFits, Retried, Ended
<1>14. KeysFit(b)'
  <2>1. \A x \in Made(b) : /\ image'[x].key = image[x].key
                           /\ image[x].key[3] \in 0 .. BatchSize - 1
    BY <1>9, GenerationMembers DEF Made, GenerationInductive
  <2>2. \A x \in Made(b) : image[x].key[2] <= clock BY <1>2 DEF KeysFit
  <2>3. ASSUME ~last, NEW x \in Made(b)
        PROVE  \/ Retried(b) /\ image[x].key[2] <= batch[b].since
               \/ image[x].key[3] < batch[b].index + 1
    BY <1>1, <1>2 DEF KeysFit, Ended, InHand
  <2>4. \A x, y \in Made(b) : x # y => image[x].key # image[y].key BY <1>2 DEF KeysFit
  <2>5. \A x, y \in Made(b)' : x # y => image'[x].key # image'[y].key BY <1>9, <2>1, <2>4
  <2>6. InHand(b)' = 0 /\ batch'[b].index \in 0 .. BatchSize - 1
    BY <1>5 DEF InHand, Job
  <2>7. \A x \in Made(b)' :
            /\ image'[x].key[2] <= clock'
            /\ batch'[b].state \notin Ended =>
                  \/ Retried(b)' /\ image'[x].key[2] <= batch'[b].since
                  \/ image'[x].key[3] < batch'[b].index + InHand(b)'
    BY <1>1, <1>3, <1>5, <1>9, <2>1, <2>2, <2>3, <2>6 DEF Retried, Ended
  <2> QED BY <2>5, <2>7 DEF KeysFit
<1>15. CountsFit(b)'
  <2>1. IsFiniteSet(Made(b)) /\ IsFiniteSet(Pooled(b)) /\ Cardinality(Pooled(b)) \in Nat
           /\ Cardinality(Made(b)) \in Nat
    BY <1>2, PooledCount DEF CountsFit
  <2>2. Cardinality(Pooled(b)') = Cardinality(Pooled(b)) + 1
    BY <1>12, <2>1, FS_AddElement
  <2>3. Cardinality(Pooled(b)) >= batch[b].index BY <1>1, <1>2 DEF CountsFit
  <2>4. /\ batch'[b].state = "active" => Cardinality(Pooled(b)') >= batch'[b].index
        /\ batch'[b].state = "done" => Cardinality(Pooled(b)') >= BatchSize
    BY <1>3, <1>5, <1>8, <2>1, <2>2, <2>3
  <2>5. Tries(b)' = Tries(b) /\ InHand(b) = 1 /\ InHand(b)' = 0
    BY <1>1, <1>5 DEF Tries, InHand
  <2>6. Tries(b) \in Nat /\ Tries(b) * BatchSize \in Nat
    <3>1. Tries(b) \in Nat BY <1>3 DEF Tries
    <3> QED BY <3>1, MoreTries
  <2>7. ~last => Cardinality(Made(b)') <= Tries(b)' * BatchSize + batch'[b].index + InHand(b)'
    <3>1. Cardinality(Made(b)) <= Tries(b) * BatchSize + batch[b].index + InHand(b)
      BY <1>1, <1>2 DEF CountsFit, Ended
    <3> QED BY <1>3, <1>5, <1>9, <2>1, <2>5, <2>6, <3>1
  <2>8. Cardinality(Made(b)') <= (BatchAttempts + 1) * BatchSize BY <1>2, <1>9 DEF CountsFit
  <2> QED BY <1>5, <1>9, <2>1, <2>4, <2>7, <2>8 DEF CountsFit, Ended
<1>16. PicturesFit'
  <2>1. ASSUME NEW x \in Images, Put(x)' PROVE Shown(x)'
    <3>1. Put(x)
      <4>1. Put(a) BY <1>4 DEF Put
      <4>2. x # a => Put(x) BY <1>5, <1>9, <1>10, <2>1 DEF Put, OneJob
      <4> QED BY <4>1, <4>2
    <3>2. Shown(x) /\ image[x] # Nothing BY <3>1 DEF GenerationInductive, PicturesFit, Put
    <3> QED BY <1>1, <1>10, <3>2, StaysShown
  <2> QED BY <2>1 DEF PicturesFit
<1>17. ShelfFits'
  <2>1. \A c \in Batches : /\ batch'[c].config = batch[c].config
                           /\ batch'[c].difficulty = batch[c].difficulty
                           /\ batch[c].state # "absent" => batch'[c].state # "absent"
    BY <1>1, <1>5, <1>10 DEF OneJob
  <2>2. ASSUME NEW e \in shelf PROVE EntryFits(e)'
    <3>1. EntryFits(e) /\ image[e[3]].batch \in Batches /\ e[3] # a /\ e[3] \in Images
      BY <1>4, GenerationMembers DEF GenerationInductive, ShelfFits, EntryFits
    <3>2. image'[e[3]] = image[e[3]] BY <1>9, <3>1
    <3> QED BY <1>1, <2>1, <3>1, <3>2 DEF EntryFits
  <2>3. ASSUME NEW e, e = entry PROVE EntryFits(e)'
    <3>1. e[3] = a /\ e[1] = config[batch[b].config].template /\ e[2] = batch[b].difficulty
      BY <1>7, <2>3
    <3>2. batch'[b].state # "absent" BY <1>5
    <3> QED BY <1>1, <1>5, <1>9, <3>1, <3>2 DEF EntryFits
  <2>4. \A x \in Images : image'[x] # Nothing /\ image'[x].stage = "pooled" =>
            \E e \in shelf' : e[3] = x
    <3>1. \A x \in Images \ {a} : image'[x] = image[x] BY <1>9
    <3> QED BY <1>1, <1>7, <3>1 DEF GenerationInductive, ShelfFits
  <2> QED BY <1>1, <2>2, <2>3, <2>4 DEF ShelfFits
<1> QED BY <1>10, <1>11, <1>13, <1>14, <1>15, <1>16, <1>17, OtherJobs DEF GenerationInductive

\* Time passes.
LEMMA TickStep ==
    ASSUME GenerationInductive, Tick
    PROVE  GenerationInductive'
<1>1. /\ clock < MaxTick /\ clock' = clock + 1
      /\ config' = config /\ batch' = batch /\ image' = image /\ picture' = picture
      /\ shelf' = shelf
  BY DEF Tick, authoring
<1>2. clock \in 0 .. MaxTick /\ clock' \in 0 .. MaxTick
  BY <1>1 DEF GenerationInductive, GenerationTypes
<1>3. GenerationTypes' BY <1>1, <1>2 DEF GenerationInductive, GenerationTypes
<1>4. ASSUME NEW b \in Batches PROVE JobFits(b)' /\ KeysFit(b)' /\ CountsFit(b)'
  <2>1. JobFits(b) /\ KeysFit(b) /\ CountsFit(b) BY DEF GenerationInductive
  <2>2. batch[b].since \in 0 .. MaxTick BY GenerationMembers DEF GenerationInductive
  <2>3. JobFits(b)' BY <1>1, <1>2, <2>1, <2>2 DEF JobFits, Retried
  <2>4. Made(b)' = Made(b) /\ Pooled(b)' = Pooled(b) BY <1>1 DEF Made, Pooled
  <2>5. KeysFit(b)'
    <3>1. \A a \in Made(b) : image[a].key[2] \in 0 .. MaxTick
      BY GenerationMembers DEF Made, GenerationInductive
    <3> QED BY <1>1, <1>2, <2>1, <2>4, <3>1 DEF KeysFit, Retried, InHand
  <2>6. CountsFit(b)' BY <1>1, <2>1, <2>4 DEF CountsFit, Tries, InHand
  <2> QED BY <2>3, <2>5, <2>6
<1>5. PicturesFit' BY <1>1 DEF GenerationInductive, PicturesFit, Put, Shown
<1>6. ShelfFits' BY <1>1 DEF GenerationInductive, ShelfFits, EntryFits
<1> QED BY <1>3, <1>4, <1>5, <1>6 DEF GenerationInductive

\* A configuration is never taken away, and keeps its template.
TemplatesStay ==
    \A c \in Configs : config[c] # Nothing =>
        config'[c] # Nothing /\ config'[c].template = config[c].template

\* What an administrator does to a template or a configuration meanwhile is nothing to the
\* batches, and nor is a step that does nothing.
LEMMA GenerationUnchanged ==
    ASSUME GenerationInductive, UNCHANGED generation, TemplatesStay
    PROVE  GenerationInductive'
<1>1. batch' = batch /\ image' = image /\ picture' = picture /\ shelf' = shelf /\ clock' = clock
  BY DEF generation
<1>2. GenerationTypes' BY <1>1 DEF GenerationInductive, GenerationTypes
<1>3. ASSUME NEW b \in Batches PROVE JobFits(b)' /\ KeysFit(b)' /\ CountsFit(b)'
  <2>1. JobFits(b) /\ KeysFit(b) /\ CountsFit(b) BY DEF GenerationInductive
  <2>2. JobFits(b)' BY <1>1, <2>1 DEF JobFits, Retried, TemplatesStay
  <2>3. Made(b)' = Made(b) /\ Pooled(b)' = Pooled(b) BY <1>1 DEF Made, Pooled
  <2>4. KeysFit(b)' BY <1>1, <2>1, <2>3 DEF KeysFit, Retried, InHand
  <2>5. CountsFit(b)' BY <1>1, <2>1, <2>3 DEF CountsFit, Tries, InHand
  <2> QED BY <2>2, <2>4, <2>5
<1>4. PicturesFit' BY <1>1 DEF GenerationInductive, PicturesFit, Put, Shown
<1>5. ShelfFits'
  <2>1. ASSUME NEW e \in shelf PROVE EntryFits(e)'
    <3>1. EntryFits(e) /\ image[e[3]].batch \in Batches
      BY GenerationMembers DEF GenerationInductive, ShelfFits, EntryFits
    <3>2. /\ batch[image[e[3]].batch].config \in Configs
          /\ config[batch[image[e[3]].batch].config] # Nothing
      BY <3>1 DEF GenerationInductive, JobFits, EntryFits
    <3> QED BY <1>1, <3>1, <3>2 DEF EntryFits, TemplatesStay
  <2> QED BY <1>1, <2>1 DEF GenerationInductive, ShelfFits
<1> QED BY <1>2, <1>3, <1>4, <1>5 DEF GenerationInductive

\* Administrators add configurations and change statuses.
LEMMA AdministerKeepsTemplates ==
    ASSUME AdminTypes, ActivationsFit, Administer
    PROVE  UNCHANGED generation /\ TemplatesStay
<1>1. ASSUME NEW t \in Templates, CreateTemplate(t) PROVE UNCHANGED generation /\ TemplatesStay
  BY <1>1 DEF CreateTemplate, TemplatesStay
<1>2. ASSUME NEW p \in Admins, NEW t \in Templates, DraftRead(p, t)
      PROVE  UNCHANGED generation /\ TemplatesStay
  BY <1>2 DEF DraftRead, TemplatesStay
<1>3. ASSUME NEW p \in Admins, NEW c \in Configs, DraftInsert(p, c)
      PROVE  UNCHANGED generation /\ TemplatesStay
  <2>1. config[c] = Nothing /\ UNCHANGED generation BY <1>3 DEF DraftInsert
  <2>2. \A d \in Configs \ {c} : config'[d] = config[d] BY <1>3 DEF DraftInsert, AdminTypes
  <2> QED BY <2>1, <2>2 DEF TemplatesStay
<1>4. ASSUME NEW p \in Admins, NEW c \in Configs, ActivateArchive(p, c)
      PROVE  UNCHANGED generation /\ TemplatesStay
  <2>1. /\ UNCHANGED generation
        /\ \A d \in Configs : config'[d] = IF d \in ActiveConfigs(config[c].template)
                                           THEN [config[d] EXCEPT !.status = "archived"]
                                           ELSE config[d]
    BY <1>4 DEF ActivateArchive
  <2>2. ASSUME NEW d \in Configs, config[d] # Nothing
        PROVE  config'[d] # Nothing /\ config'[d].template = config[d].template
    <3>1. config[d] \in Config BY <2>2, AdminMembers
    <3>2. /\ [config[d] EXCEPT !.status = "archived"] \in Config
          /\ [config[d] EXCEPT !.status = "archived"].template = config[d].template
      BY <3>1 DEF Config, Statuses
    <3> QED BY <2>1, <2>2, <3>2, NothingIsNoRow
  <2> QED BY <2>1, <2>2 DEF TemplatesStay
<1>5. ASSUME NEW p \in Admins, ActivateSet(p) PROVE UNCHANGED generation /\ TemplatesStay
  <2> DEFINE c == admin[p].config
  <2>1. /\ UNCHANGED generation /\ config' = [config EXCEPT ![c].status = "active"]
        /\ admin[p].step = "activate"
    BY <1>5 DEF ActivateSet
  <2>2. c \in Configs /\ config[c] # Nothing BY <2>1 DEF ActivationsFit, ConfigsOf
  <2>3. config[c] \in Config BY <2>2, AdminMembers
  <2>4. config'[c] \in Config /\ config'[c].template = config[c].template
    BY <2>1, <2>2, <2>3 DEF AdminTypes, Config, Statuses
  <2>5. \A d \in Configs \ {c} : config'[d] = config[d] BY <2>1 DEF AdminTypes
  <2> QED BY <2>1, <2>4, <2>5, NothingIsNoRow DEF TemplatesStay
<1>6. ASSUME NEW p \in Admins, AdminDie(p) PROVE UNCHANGED generation /\ TemplatesStay
  BY <1>6 DEF AdminDie, TemplatesStay
<1> QED BY <1>1, <1>2, <1>3, <1>4, <1>5, <1>6 DEF Administer

-----------------------------------------------------------------------------
(* The theorems of the generation *)

\* The inductive invariant of the batches: jobs of any number are tried again after failures
\* and dead workers, while administrators change what they read.
THEOREM GenerationInvariance ==
    AuthoringSpec => [](AdministrationInductive /\ GenerationInductive)
<1>1. AuthoringInit => GenerationInductive
  <2> SUFFICES ASSUME AuthoringInit PROVE GenerationInductive OBVIOUS
  <2>1. \A b : Made(b) = {} /\ Pooled(b) = {} BY DEF AuthoringInit, Made, Pooled
  <2>2. \A b \in Batches : batch[b] = NoJob BY DEF AuthoringInit
  <2>3. GenerationTypes BY NoJobFacts DEF AuthoringInit, GenerationTypes
  <2>4. ASSUME NEW b \in Batches PROVE JobFits(b) /\ KeysFit(b) /\ CountsFit(b)
    <3>1. NoJob.state = "absent" BY DEF NoJob
    <3>2. JobFits(b) BY <2>2, <3>1, NoJobFacts DEF JobFits, Retried
    <3>3. KeysFit(b) BY <2>1 DEF KeysFit
    <3>4. CountsFit(b)
      <4>1. Cardinality(Made(b)) = 0 /\ IsFiniteSet(Made(b)) BY <2>1, FS_EmptySet
      <4>2. 0 * BatchSize = 0 /\ (BatchAttempts + 1) * BatchSize \in Nat BY MoreTries, OneTry
      <4>3. Tries(b) = 0 /\ InHand(b) = 0 BY <2>2, NoJobFacts DEF Tries, InHand
      <4> QED BY <2>2, <3>1, <4>1, <4>2, <4>3, NoJobFacts DEF CountsFit
    <3> QED BY <3>2, <3>3, <3>4
  <2>5. PicturesFit BY DEF AuthoringInit, PicturesFit, Put
  <2>6. ShelfFits BY DEF AuthoringInit, ShelfFits
  <2> QED BY <2>3, <2>4, <2>5, <2>6 DEF GenerationInductive
<1>2. AdministrationInductive /\ GenerationInductive /\ [AuthoringNext]_authoringVars
         => GenerationInductive'
  <2> SUFFICES ASSUME AdministrationInductive, GenerationInductive,
                      [AuthoringNext]_authoringVars
               PROVE  GenerationInductive'
    OBVIOUS
  <2>1. CASE Administer
    BY <2>1, AdministerKeepsTemplates, GenerationUnchanged DEF AdministrationInductive
  <2>2. CASE Produce
    <3>1. ASSUME NEW b \in Batches, NEW c \in Configs, NEW d \in Difficulties, Enqueue(b, c, d)
          PROVE  GenerationInductive'
      BY <3>1, EnqueueStep
    <3>2. ASSUME NEW b \in Batches, NEW a \in Images, BatchDraw(b, a)
          PROVE  GenerationInductive'
      BY <3>2, BatchDrawStep
    <3>3. ASSUME NEW b \in Batches,
                 BatchTake(b) \/ PutPicture(b) \/ CreateAsset(b) \/ PushAsset(b)
                   \/ BatchFail(b) \/ BatchStall(b)
          PROVE  GenerationInductive'
      BY <3>3, BatchTakeStep, PutPictureStep, CreateAssetStep, PushAssetStep, BatchFailStep,
         BatchStallStep DEF AdministrationInductive
    <3> QED BY <2>2, <3>1, <3>2, <3>3, TickStep DEF Produce
  <2>3. CASE UNCHANGED authoringVars
    <3>1. UNCHANGED generation /\ config' = config
      BY <2>3 DEF authoringVars, authoring
    <3> QED BY <3>1, GenerationUnchanged DEF TemplatesStay
  <2> QED BY <2>1, <2>2, <2>3 DEF AuthoringNext
<1>3. AuthoringSpec => []AdministrationInductive BY AdministrationInvariance
<1> QED BY <1>1, <1>2, <1>3, PTL DEF AuthoringSpec

\* What the batches leave: a picture for each row is the one its answer was drawn for unless
\* another batch had the same key, and a batch that is done has its count in the list.
THEOREM GenerationIsRight == AuthoringSpec => []GenerationRight
<1>1. AdministrationInductive /\ GenerationInductive => GenerationRight
  <2> SUFFICES ASSUME AdministrationInductive, GenerationInductive PROVE GenerationRight
    OBVIOUS
  <2>1. AuthoringTypeOK
    BY DEF AdministrationInductive, AdminTypes, GenerationInductive, GenerationTypes,
           AuthoringTypeOK
  <2>2. PictureShowsAnswer
    BY DEF GenerationInductive, PicturesFit, Put, Shown, PictureShowsAnswer
  <2>3. ASSUME NEW e \in shelf
        PROVE  LET b == image[e[3]].batch
               IN /\ image[e[3]].stage = "pooled"
                  /\ e[1] = config[batch[b].config].template
                  /\ e[2] = batch[b].difficulty
    BY DEF GenerationInductive, ShelfFits, EntryFits
  <2>4. ASSUME NEW b \in Batches
        PROVE  /\ batch[b].state = "done" => Cardinality(Pooled(b)) >= BatchSize
               /\ Cardinality(Made(b)) <= (BatchAttempts + 1) * BatchSize
               /\ Pooled(b) = {e[3] : e \in {x \in shelf : image[x[3]].batch = b}}
    <3>1. \A e \in shelf : image[e[3]].batch = b => e[3] \in Pooled(b)
      BY GenerationMembers DEF GenerationInductive, ShelfFits, EntryFits, Pooled, Made
    <3>2. \A a \in Pooled(b) : \E e \in shelf : e[3] = a /\ image[e[3]].batch = b
      BY DEF GenerationInductive, ShelfFits, Pooled, Made
    <3> QED BY <3>1, <3>2 DEF GenerationInductive, CountsFit
  <2>5. BatchesKept BY <2>3, <2>4 DEF BatchesKept, Made, Pooled
  <2> QED BY <2>1, <2>2, <2>5 DEF GenerationRight
<1> QED BY <1>1, GenerationInvariance, PTL

-----------------------------------------------------------------------------
(* CaptchaAnswers: characters at chosen positions *)

\* Positions of a text, finitely many.
LEMMA Positions ==
    ASSUME NEW n \in Nat, NEW S \in SUBSET (1 .. n)
    PROVE  /\ IsFiniteSet(S) /\ Cardinality(S) \in Nat
           /\ \A i \in S : i \in Nat
<1>1. \A i \in 1 .. n : i \in Nat OBVIOUS
<1>2. IsFiniteSet(1 .. n) BY FS_Interval
<1>3. IsFiniteSet(S) BY <1>2, FS_Subset
<1> QED BY <1>1, <1>3, FS_CardinalityType

\* Positions have different places, in their order, from the first to the last.
LEMMA PlacesInOrder ==
    ASSUME NEW n \in Nat, NEW S \in SUBSET (1 .. n)
    PROVE  /\ \A i \in S : Place(S, i) \in 1 .. Cardinality(S)
           /\ \A i, j \in S : i < j => Place(S, i) < Place(S, j)
<1>1. IsFiniteSet(S) /\ Cardinality(S) \in Nat /\ \A i \in S : i \in Nat BY Positions
<1>2. ASSUME NEW i \in S PROVE Place(S, i) \in 1 .. Cardinality(S)
  <2>1. PICK T : T = {j \in S : j <= i} OBVIOUS
  <2>2. T \in SUBSET S /\ i \in T BY <1>1, <2>1
  <2>3. IsFiniteSet(T) /\ Cardinality(T) <= Cardinality(S) BY <1>1, <2>2, FS_Subset
  <2>4. Cardinality(T) \in Nat /\ Cardinality(T) # 0
    BY <2>2, <2>3, FS_CardinalityType, FS_EmptySet
  <2> QED BY <1>1, <2>1, <2>3, <2>4 DEF Place
<1>3. ASSUME NEW i \in S, NEW j \in S, i < j PROVE Place(S, i) < Place(S, j)
  <2>1. PICK T, U : T = {k \in S : k <= i} /\ U = {k \in S : k <= j} OBVIOUS
  <2>n. i \in Nat /\ j \in Nat BY <1>1
  <2>a. \A k \in T : k \in U BY <1>1, <1>3, <2>1, <2>n
  <2>b. j \in U /\ j \notin T BY <1>3, <2>1, <2>n
  <2>2. T \in SUBSET U /\ U \in SUBSET S /\ j \in U \ T BY <2>1, <2>a, <2>b
  <2>3. IsFiniteSet(U) BY <1>1, <2>2, FS_Subset
  <2>4. /\ Cardinality(T) <= Cardinality(U) /\ Cardinality(T) # Cardinality(U)
        /\ IsFiniteSet(T)
    BY <2>2, <2>3, FS_Subset
  <2>5. Cardinality(T) \in Nat /\ Cardinality(U) \in Nat BY <2>3, <2>4, FS_CardinalityType
  <2> QED BY <2>1, <2>4, <2>5 DEF Place
<1> QED BY <1>2, <1>3

\* Every place is somebody's: positions and places are as many.
LEMMA PlacesAreTaken ==
    ASSUME NEW n \in Nat, NEW S \in SUBSET (1 .. n)
    PROVE  /\ \A r \in 1 .. Cardinality(S) : At(S, r) \in S /\ Place(S, At(S, r)) = r
           /\ \A i \in S : At(S, Place(S, i)) = i
<1>1. IsFiniteSet(S) /\ Cardinality(S) \in Nat /\ \A i \in S : i \in Nat BY Positions
<1>2. PICK N : N = 1 .. Cardinality(S) OBVIOUS
<1>3. IsFiniteSet(N) /\ Cardinality(N) = Cardinality(S) BY <1>1, <1>2, FS_Interval
<1>4. PICK f : f = [i \in S |-> Place(S, i)] OBVIOUS
<1>5. f \in [S -> N] BY <1>2, <1>4, PlacesInOrder
<1>6. \A i, j \in S : Place(S, i) = Place(S, j) => i = j
  <2>1. \A i, j \in S : i < j \/ j < i \/ i = j BY <1>1
  <2>2. ASSUME NEW i \in S PROVE Place(S, i) \in Nat
    <3>1. Place(S, i) \in 1 .. Cardinality(S) BY PlacesInOrder
    <3> QED BY <1>1, <3>1
  <2>3. \A i, j \in S : i < j => Place(S, i) < Place(S, j) BY PlacesInOrder
  <2>4. ASSUME NEW i \in S, NEW j \in S, Place(S, i) = Place(S, j) PROVE i = j
    BY <2>1, <2>2, <2>3, <2>4
  <2> QED BY <2>4
<1>c. \A i, j \in S : f[i] = f[j] => i = j BY <1>4, <1>6
<1>7. f \in Injection(S, N) BY <1>5, <1>c DEF Injection, IsInjective
<1>8. f \in Surjection(S, N) BY <1>3, <1>7, FS_Injection
<1>9. \A r \in N : \E i \in S : Place(S, i) = r BY <1>4, <1>8 DEF Surjection
<1>a. \A r \in N : At(S, r) \in S /\ Place(S, At(S, r)) = r BY <1>9 DEF At
<1>b. \A i \in S : Place(S, i) \in N BY <1>2, PlacesInOrder
<1> QED BY <1>2, <1>6, <1>a, <1>b

\* A function between sets of positions that keeps the order and meets all of the second
\* takes the r-th position of the one to the r-th of the other.
LEMMA PlacesMove ==
    ASSUME NEW n \in Nat, NEW S \in SUBSET (1 .. n), NEW m \in Nat, NEW T \in SUBSET (1 .. m),
           NEW f \in [S -> T],
           \A i, j \in S : i < j => f[i] < f[j],
           \A k \in T : \E i \in S : f[i] = k
    PROVE  /\ Cardinality(S) = Cardinality(T)
           /\ \A r \in 1 .. Cardinality(S) : f[At(S, r)] = At(T, r)
<1>1. /\ IsFiniteSet(S) /\ Cardinality(S) \in Nat /\ \A i \in S : i \in Nat
      /\ \A k \in T : k \in Nat
  BY Positions
<1>2. \A i, j \in S : f[i] <= f[j] <=> i <= j
  <2>1. ASSUME NEW i \in S, NEW j \in S PROVE f[i] <= f[j] <=> i <= j
    <3>1. i \in Nat /\ j \in Nat /\ f[i] \in Nat /\ f[j] \in Nat BY <1>1
    <3>2. /\ i < j => f[i] < f[j]
          /\ j < i => f[j] < f[i]
          /\ i = j => f[i] = f[j]
      OBVIOUS
    <3> QED BY <3>1, <3>2
  <2> QED BY <2>1
<1>3. \A i, j \in S : f[i] = f[j] => i = j
  <2>1. ASSUME NEW i \in S, NEW j \in S, f[i] = f[j] PROVE i = j
    <3>1. i \in Nat /\ j \in Nat /\ f[i] \in Nat /\ f[j] \in Nat BY <1>1
    <3>2. i <= j /\ j <= i BY <1>2, <2>1, <3>1
    <3> QED BY <3>1, <3>2
  <2> QED BY <2>1
<1>4. ASSUME NEW A \in SUBSET S, NEW B \in SUBSET T,
             \A i \in S : i \in A <=> f[i] \in B
      PROVE  Cardinality(A) = Cardinality(B)
  <2>1. PICK g : g = [i \in A |-> f[i]] OBVIOUS
  <2>2. g \in [A -> B] BY <1>4, <2>1
  <2>3. \A i, j \in A : g[i] = g[j] => i = j BY <1>3, <2>1
  <2>4. \A k \in B : \E i \in A : g[i] = k BY <1>4, <2>1
  <2>5. g \in Bijection(A, B)
    BY <2>2, <2>3, <2>4 DEF Bijection, Injection, Surjection, IsInjective
  <2>6. ExistsBijection(A, B) BY <2>5 DEF ExistsBijection
  <2>7. IsFiniteSet(A) BY <1>1, FS_Subset
  <2> QED BY <2>6, <2>7, FS_Bijection
<1>5. Cardinality(S) = Cardinality(T)
  <2>1. \A i \in S : i \in S <=> f[i] \in T OBVIOUS
  <2> QED BY <1>4, <2>1
<1>6. ASSUME NEW i \in S PROVE Place(T, f[i]) = Place(S, i)
  <2>1. PICK A, B : A = {j \in S : j <= i} /\ B = {k \in T : k <= f[i]} OBVIOUS
  <2>2. \A j \in S : j \in A <=> f[j] \in B BY <1>2, <2>1
  <2>3. Cardinality(A) = Cardinality(B) BY <1>4, <2>1, <2>2
  <2> QED BY <2>1, <2>3 DEF Place
<1>7. ASSUME NEW r \in 1 .. Cardinality(S) PROVE f[At(S, r)] = At(T, r)
  <2>1. PICK i \in S : i = At(S, r) /\ Place(S, i) = r BY PlacesAreTaken
  <2>2. Place(T, f[i]) = r BY <1>6, <2>1
  <2>3. At(T, Place(T, f[i])) = f[i] BY PlacesAreTaken
  <2> QED BY <2>1, <2>2, <2>3
<1> QED BY <1>5, <1>7

\* The signs of a text survive when other characters are left out.
LEMMA SignsSurvive ==
    ASSUME NEW n \in Nat, NEW text, DOMAIN text = 1 .. n,
           NEW S \in SUBSET (1 .. n), SignsAt(text) \subseteq S
    PROVE  Signs(Chosen(text, S)) = Signs(text)
<1>1. /\ IsFiniteSet(S) /\ Cardinality(S) \in Nat /\ \A i \in S : i \in Nat BY Positions
<1>2. PICK v : v = Chosen(text, S) OBVIOUS
<1>3. DOMAIN v = 1 .. Cardinality(S) /\ \A r \in 1 .. Cardinality(S) : v[r] = text[At(S, r)]
  BY <1>2 DEF Chosen
<1>4. PICK Q, R : Q = SignsAt(v) /\ R = SignsAt(text) OBVIOUS
<1>5. Q \in SUBSET (1 .. Cardinality(S)) BY <1>3, <1>4 DEF SignsAt
<1>6. R \in SUBSET (1 .. n) /\ R \subseteq S BY <1>4 DEF SignsAt
<1>7. PICK f : f = [r \in Q |-> At(S, r)] OBVIOUS
<1>8. \A r \in Q : f[r] \in S /\ Place(S, f[r]) = r BY <1>5, <1>7, PlacesAreTaken
<1>9. f \in [Q -> R]
  <2>1. ASSUME NEW r \in Q PROVE f[r] \in R
    <3>1. v[r] = text[f[r]] BY <1>3, <1>5, <1>7
    <3> QED BY <1>4, <1>8, <2>1, <3>1 DEF SignsAt
  <2> QED BY <1>7, <2>1
<1>a. ASSUME NEW r \in Q, NEW q \in Q, r < q PROVE f[r] < f[q]
  <2>1. f[r] \in S /\ f[q] \in S /\ f[r] \in Nat /\ f[q] \in Nat BY <1>1, <1>8
  <2>2. Place(S, f[r]) = r /\ Place(S, f[q]) = q BY <1>8
  <2>3. r \in Nat /\ q \in Nat BY <1>1, <1>5
  <2>4. CASE f[r] = f[q] BY <1>a, <2>2, <2>3, <2>4
  <2>5. CASE f[q] < f[r]
    <3>1. Place(S, f[q]) < Place(S, f[r]) BY <2>1, <2>5, PlacesInOrder
    <3> QED BY <1>a, <2>2, <2>3, <3>1
  <2> QED BY <2>1, <2>4, <2>5
<1>b. ASSUME NEW k \in R PROVE \E r \in Q : f[r] = k
  <2>1. k \in S BY <1>6
  <2>2. PICK r : r = Place(S, k) OBVIOUS
  <2>3. r \in 1 .. Cardinality(S) /\ At(S, r) = k BY <2>1, <2>2, PlacesInOrder, PlacesAreTaken
  <2>4. v[r] = text[k] BY <1>3, <2>3
  <2>5. r \in Q BY <1>3, <1>4, <2>3, <2>4 DEF SignsAt
  <2> QED BY <1>7, <2>3, <2>5
<1>c. /\ Cardinality(Q) = Cardinality(R)
      /\ \A r \in 1 .. Cardinality(Q) : f[At(Q, r)] = At(R, r)
  <2>1. f \in [Q -> R] /\ \A i, j \in Q : i < j => f[i] < f[j] BY <1>9, <1>a
  <2>2. \A k \in R : \E i \in Q : f[i] = k BY <1>b
  <2>3. R \in SUBSET (1 .. n) /\ Cardinality(S) \in Nat BY <1>1, <1>6
  <2> QED BY <1>5, <2>1, <2>2, <2>3, PlacesMove, ZenonT(40)
<1>d. ASSUME NEW r \in 1 .. Cardinality(Q) PROVE v[At(Q, r)] = text[At(R, r)]
  <2>1. At(Q, r) \in Q BY <1>1, <1>5, PlacesAreTaken
  <2>2. v[At(Q, r)] = text[f[At(Q, r)]] BY <1>3, <1>5, <1>7, <2>1
  <2> QED BY <1>c, <2>2
<1> QED BY <1>2, <1>4, <1>c, <1>d DEF Signs, Chosen

\* A character as the hash sees it: characters that are read alike are the same.
LEMMA AlikeFolded ==
    /\ \A c, d \in Chars : Alike(c, d) <=> YoToE(ToLower(c)) = YoToE(ToLower(d))
    /\ \A c \in Chars : YoToE(ToLower(c)) \in Chars
    /\ \A c \in Chars : c \in Letters \cup Digits <=> YoToE(ToLower(c)) \in Letters \cup Digits
<1>1. /\ YoToE(ToLower("A")) = "a" /\ YoToE(ToLower("a")) = "a"
      /\ YoToE(ToLower("YO")) = "e" /\ YoToE(ToLower("yo")) = "e" /\ YoToE(ToLower("e")) = "e"
      /\ \A c \in {"9", Blank, "dot", "<"} : YoToE(ToLower(c)) = c
  BY DEF YoToE, ToLower, Capitals, Blank
<1>2. Chars = {"A", "a", "YO", "yo", "e", "9", Blank, "dot", "<"}
  BY DEF Chars, Letters, Digits
<1>3. \A c, d \in Chars : Alike(c, d) <=> YoToE(ToLower(c)) = YoToE(ToLower(d))
  BY <1>1, <1>2 DEF Alike, Blank
<1>4. \A c \in Chars : YoToE(ToLower(c)) \in Chars BY <1>1, <1>2
<1>5. \A c \in Chars : c \in Letters \cup Digits <=> YoToE(ToLower(c)) \in Letters \cup Digits
  BY <1>1, <1>2 DEF Letters, Digits, Blank
<1> QED BY <1>3, <1>4, <1>5

\* Chosen characters make a text again.
LEMMA ChosenIsText ==
    ASSUME NEW n \in Nat, NEW text \in [1 .. n -> Chars], NEW S \in SUBSET (1 .. n)
    PROVE  /\ Cardinality(S) \in Nat
           /\ Chosen(text, S) \in [1 .. Cardinality(S) -> Chars]
<1>1. Cardinality(S) \in Nat BY Positions
<1>2. \A r \in 1 .. Cardinality(S) : At(S, r) \in S BY PlacesAreTaken
<1>3. \A r \in 1 .. Cardinality(S) : text[At(S, r)] \in Chars BY <1>2
<1> QED BY <1>1, <1>3 DEF Chosen

LEMMA FoldIsText ==
    ASSUME NEW n \in Nat, NEW text \in [1 .. n -> Chars]
    PROVE  Fold(text) \in [1 .. n -> Chars] /\ Signs(Fold(text)) = Fold(Signs(text))
<1>1. /\ DOMAIN text = 1 .. n /\ DOMAIN Fold(text) = 1 .. n
      /\ \A i \in 1 .. n : Fold(text)[i] = YoToE(ToLower(text[i])) /\ text[i] \in Chars
  BY DEF Fold
<1>2. Fold(text) \in [1 .. n -> Chars] BY <1>1, AlikeFolded DEF Fold
<1>3. SignsAt(Fold(text)) = SignsAt(text) BY <1>1, AlikeFolded DEF SignsAt
<1>4. PICK S : S = SignsAt(text) OBVIOUS
<1>5. S \in SUBSET (1 .. n) BY <1>1, <1>4 DEF SignsAt
<1>6. \A r \in 1 .. Cardinality(S) : At(S, r) \in 1 .. n BY <1>5, PlacesAreTaken
<1>7. \A r \in 1 .. Cardinality(S) : Fold(text)[At(S, r)] = YoToE(ToLower(text[At(S, r)]))
  BY <1>1, <1>6
<1>8. Signs(Fold(text)) = [r \in 1 .. Cardinality(S) |-> Fold(text)[At(S, r)]]
  BY <1>3, <1>4 DEF Signs, Chosen
<1>9. /\ DOMAIN Signs(text) = 1 .. Cardinality(S)
      /\ \A r \in 1 .. Cardinality(S) : Signs(text)[r] = text[At(S, r)]
  BY <1>4 DEF Signs, Chosen
<1>a. Fold(Signs(text)) = [r \in 1 .. Cardinality(S) |-> YoToE(ToLower(text[At(S, r)]))]
  BY <1>9 DEF Fold
<1> QED BY <1>2, <1>7, <1>8, <1>a

\* Whatever the normaliser leaves out and changes, the signs stay, each of them as it is read.
LEMMA NormalizedSigns ==
    ASSUME NEW n \in Nat, NEW text \in [1 .. n -> Chars]
    PROVE  Signs(Normalize(text)) = Fold(Signs(text))
<1>1. PICK S : S = {i \in DOMAIN text :
                      \E j, k \in {h \in DOMAIN text : text[h] # Blank} : j <= i /\ i <= k}
  OBVIOUS
<1>2. Trim(text) = Chosen(text, S) BY <1>1 DEF Trim
<1>3. S \in SUBSET (1 .. n) BY <1>1
<1>4. SignsAt(text) \subseteq S
  <2>1. ASSUME NEW i \in SignsAt(text) PROVE i \in S
    <3>1. i \in 1 .. n /\ text[i] # Blank BY <2>1 DEF SignsAt, Letters, Digits, Blank
    <3>2. i <= i BY <3>1
    <3> QED BY <1>1, <3>1, <3>2
  <2> QED BY <2>1
<1>5. Signs(Trim(text)) = Signs(text) BY <1>2, <1>3, <1>4, SignsSurvive
<1>6. PICK m \in Nat : Trim(text) \in [1 .. m -> Chars] BY <1>2, <1>3, ChosenIsText
<1>7. PICK u : u = Fold(Trim(text)) OBVIOUS
<1>8. u \in [1 .. m -> Chars] /\ Signs(u) = Fold(Signs(text)) BY <1>5, <1>6, <1>7, FoldIsText
<1>9. PICK K : K = {i \in DOMAIN u : IsKept(u[i])} OBVIOUS
<1>10. K \in SUBSET (1 .. m) /\ SignsAt(u) \subseteq K
  BY <1>8, <1>9 DEF SignsAt, IsKept
<1>11. DropMarks(u) = Chosen(u, K) BY <1>9 DEF DropMarks
<1>12. Signs(DropMarks(u)) = Signs(u) BY <1>8, <1>10, <1>11, SignsSurvive
<1>13. PICK k \in Nat : DropMarks(u) \in [1 .. k -> Chars] BY <1>8, <1>10, <1>11, ChosenIsText
<1>14. PICK v : v = DropMarks(u) OBVIOUS
<1>15. PICK J : J = {i \in DOMAIN v : ~(i > 1 /\ v[i] = Blank /\ v[i - 1] = Blank)} OBVIOUS
<1>16. J \in SUBSET (1 .. k) /\ SignsAt(v) \subseteq J
  BY <1>13, <1>14, <1>15 DEF SignsAt, Letters, Digits, Blank
<1>17. JoinBlanks(v) = Chosen(v, J) BY <1>15 DEF JoinBlanks
<1>18. Signs(JoinBlanks(v)) = Signs(v) BY <1>13, <1>14, <1>16, <1>17, SignsSurvive
<1> QED BY <1>7, <1>8, <1>12, <1>14, <1>18 DEF Normalize

\* Who reads a text types what the normaliser sees alike: the blanks around it are trimmed.
LEMMA ReadersType ==
    ASSUME NEW n \in Nat, NEW text \in [1 .. n -> Chars],
           NEW m \in Nat, NEW typed \in [1 .. m -> Chars], Reads(typed, text)
    PROVE  Normalize(typed) = Normalize(text)
<1>1. Len(typed) = m /\ Len(text) = n /\ DOMAIN typed = 1 .. m /\ DOMAIN text = 1 .. n
  OBVIOUS
<1>2. PICK skipped \in 0 .. m - n :
         \A i \in 1 .. m : IF i - skipped \in 1 .. n THEN Alike(typed[i], text[i - skipped])
                                                     ELSE typed[i] = Blank
  BY <1>1 DEF Reads
<1>3. skipped \in Nat /\ skipped + n <= m BY <1>2
<1>4. \A i \in 1 .. n : i + skipped \in 1 .. m /\ (i + skipped) - skipped = i BY <1>3
<1>5. \A i \in 1 .. n : Alike(typed[i + skipped], text[i]) BY <1>2, <1>4
<1>6. \A c \in Chars : Alike(c, Blank) \/ Alike(Blank, c) => c = Blank BY DEF Alike, Blank
<1>7. PICK I, K : /\ I = {h \in DOMAIN text : text[h] # Blank}
                  /\ K = {h \in DOMAIN typed : typed[h] # Blank}
  OBVIOUS
<1>8. \A i \in 1 .. n : i \in I <=> i + skipped \in K
  <2>1. ASSUME NEW i \in 1 .. n PROVE i \in I <=> i + skipped \in K
    <3>1. text[i] \in Chars /\ typed[i + skipped] \in Chars BY <1>4
    <3>2. text[i] = Blank <=> typed[i + skipped] = Blank BY <1>5, <1>6, <3>1
    <3> QED BY <1>4, <1>7, <3>2
  <2> QED BY <2>1
<1>9. \A k \in K : k - skipped \in I
  <2>1. ASSUME NEW k \in K PROVE k - skipped \in I
    <3>1. k \in 1 .. m /\ typed[k] # Blank BY <1>7
    <3>2. k - skipped \in 1 .. n BY <1>2, <3>1
    <3>3. (k - skipped) + skipped = k BY <1>3, <3>1
    <3> QED BY <1>8, <3>2, <3>3
  <2> QED BY <2>1
<1>10. PICK S, T : /\ S = {i \in DOMAIN text : \E j, k \in I : j <= i /\ i <= k}
                   /\ T = {i \in DOMAIN typed : \E j, k \in K : j <= i /\ i <= k}
  OBVIOUS
<1>11. S \in SUBSET (1 .. n) /\ T \in SUBSET (1 .. m) BY <1>10
<1>12. PICK f : f = [i \in S |-> i + skipped] OBVIOUS
<1>13. f \in [S -> T]
  <2>1. ASSUME NEW i \in S PROVE i + skipped \in T
    <3>1. i \in 1 .. n BY <1>11
    <3>2. PICK j, k \in I : j <= i /\ i <= k BY <1>10
    <3>3. j \in 1 .. n /\ k \in 1 .. n BY <1>7
    <3>4. j + skipped \in K /\ k + skipped \in K BY <1>8, <3>3
    <3>5. j + skipped <= i + skipped /\ i + skipped <= k + skipped BY <1>3, <3>1, <3>2, <3>3
    <3> QED BY <1>4, <1>10, <3>1, <3>4, <3>5
  <2> QED BY <1>12, <2>1
<1>14. ASSUME NEW i \in S, NEW j \in S, i < j PROVE f[i] < f[j]
  <2>1. i \in Nat /\ j \in Nat BY <1>11
  <2> QED BY <1>3, <1>12, <1>14, <2>1
<1>15. ASSUME NEW t \in T PROVE \E i \in S : f[i] = t
  <2>1. t \in 1 .. m BY <1>11
  <2>2. PICK j, k \in K : j <= t /\ t <= k BY <1>10
  <2>3. j \in 1 .. m /\ k \in 1 .. m BY <1>7
  <2>4. j - skipped \in I /\ k - skipped \in I BY <1>9
  <2>5. j - skipped \in 1 .. n /\ k - skipped \in 1 .. n BY <1>7, <2>4
  <2>6. j - skipped <= t - skipped /\ t - skipped <= k - skipped BY <1>3, <2>1, <2>2, <2>3
  <2>7. t - skipped \in 1 .. n BY <1>3, <2>1, <2>3, <2>5, <2>6
  <2>8. t - skipped \in S BY <1>7, <1>10, <2>4, <2>6, <2>7
  <2>9. (t - skipped) + skipped = t BY <1>3, <2>1
  <2> QED BY <1>12, <2>8, <2>9
<1>16. /\ Cardinality(S) = Cardinality(T)
       /\ \A r \in 1 .. Cardinality(S) : f[At(S, r)] = At(T, r)
  <2>1. S \in SUBSET (1 .. n) /\ T \in SUBSET (1 .. m) BY <1>11
  <2>2. \A i, j \in S : i < j => f[i] < f[j] BY <1>14
  <2>3. \A t \in T : \E i \in S : f[i] = t BY <1>15
  <2> QED BY <1>13, <2>1, <2>2, <2>3, PlacesMove, ZenonT(40)
<1>17. Trim(text) = Chosen(text, S) /\ Trim(typed) = Chosen(typed, T)
  BY <1>7, <1>10 DEF Trim
<1>18. ASSUME NEW r \in 1 .. Cardinality(S)
       PROVE  YoToE(ToLower(typed[At(T, r)])) = YoToE(ToLower(text[At(S, r)]))
  <2>1. PICK i \in S : i = At(S, r) BY <1>11, PlacesAreTaken
  <2>2. At(T, r) = i + skipped BY <1>12, <1>16, <2>1
  <2>3. i \in 1 .. n BY <1>11
  <2>4. text[i] \in Chars /\ typed[i + skipped] \in Chars BY <1>4, <2>3
  <2> QED BY <1>5, <2>1, <2>2, <2>3, <2>4, AlikeFolded
<1>19. Fold(Trim(typed)) = Fold(Trim(text))
  <2>1. Fold(Trim(typed)) = [r \in 1 .. Cardinality(T) |-> YoToE(ToLower(typed[At(T, r)]))]
    BY <1>17 DEF Fold, Chosen
  <2>2. Fold(Trim(text)) = [r \in 1 .. Cardinality(S) |-> YoToE(ToLower(text[At(S, r)]))]
    BY <1>17 DEF Fold, Chosen
  <2> QED BY <1>16, <1>18, <2>1, <2>2
<1> QED BY <1>19 DEF Normalize

-----------------------------------------------------------------------------
(* CaptchaAnswers: the hash stored with a picture is that of its text, under the key of its day *)

IsDrawn(pair) ==
    \E n \in Nat : \E text \in [1 .. n -> Chars] :
        /\ pair.answer = text /\ pair.picture = RenderSvg(text)
        /\ pair.hash = HashAnswer(Normalize(text), pair.key)

AnswersInductive ==
    /\ setup.length \in Nat /\ setup.alphabet \subseteq Chars
    /\ drawn # Nil => IsDrawn(drawn)

\* Whatever is configured, a validated configuration can be drawn from.
LEMMA ConfigsAreDrawable ==
    ASSUME NEW c, c.length \in Int \cup {Nil}, c.alphabet \subseteq Chars
    PROVE  /\ ValidateConfig(c).length \in Nat
           /\ ValidateConfig(c).alphabet \subseteq Chars
<1>1. ShortestText \in Nat /\ LongestText \in Nat /\ UsualText \in Nat
  BY CaptchaAnswersAssumption
<1>2. PICK given : given = IF c.length = Nil THEN UsualText ELSE c.length OBVIOUS
<1>3. given \in Int BY <1>1, <1>2
<1>4. Clamp(c.length, ShortestText, LongestText, UsualText)
        = CASE given < ShortestText -> ShortestText [] given > LongestText -> LongestText
            [] OTHER -> given
  BY <1>2 DEF Clamp
<1>5. Clamp(c.length, ShortestText, LongestText, UsualText) \in Nat
  <2>1. CASE given < ShortestText
    <3>1. given > LongestText => ShortestText \in Nat /\ LongestText \in Nat BY <1>1
    <3> QED BY <1>1, <1>3, <1>4, <2>1
  <2>2. CASE ~(given < ShortestText) BY <1>1, <1>3, <1>4, <2>2
  <2> QED BY <2>1, <2>2
<1> QED BY <1>5, AlphabetsAreKnown DEF ValidateConfig

LEMMA AnswersBegin == AnswersInit => AnswersInductive
<1> SUFFICES ASSUME AnswersInit PROVE AnswersInductive
  OBVIOUS
<1>1. PICK c : c = [length |-> Nil, alphabet |-> UsualAlphabet, long |-> FALSE] OBVIOUS
<1>2. c.length \in Int \cup {Nil} /\ c.alphabet \subseteq Chars BY <1>1, AlphabetsAreKnown
<1> QED BY <1>1, <1>2, ConfigsAreDrawable DEF AnswersInit, AnswersInductive

LEMMA AnswersKept ==
    AnswersInductive /\ [AnswersNext]_answerVars => AnswersInductive'
<1> SUFFICES ASSUME AnswersInductive, [AnswersNext]_answerVars PROVE AnswersInductive'
  OBVIOUS
<1>1. ASSUME NEW given \in Given, Draft(given) PROVE AnswersInductive'
  <2>1. given.length \in Int \cup {Nil} /\ given.alphabet \subseteq Chars
    BY AlphabetsAreKnown, CaptchaAnswersAssumption DEF Given
  <2> QED BY <1>1, <2>1, ConfigsAreDrawable DEF Draft, AnswersInductive
<1>2. ASSUME DrawAsset PROVE AnswersInductive'
  <2>1. PICK c : c = ValidateConfig(setup) OBVIOUS
  <2>2. c.length \in Nat /\ c.alphabet \subseteq Chars
    BY <2>1, ConfigsAreDrawable DEF AnswersInductive
  <2>3. PICK text \in [1 .. c.length -> c.alphabet] :
           drawn' = [picture |-> RenderSvg(text), key |-> secret, answer |-> text,
                     hash |-> HashAnswer(Normalize(text), secret)]
    BY <1>2, <2>1 DEF DrawAsset
  <2>4. text \in [1 .. c.length -> Chars] BY <2>2
  <2>5. IsDrawn(drawn') BY <2>2, <2>3, <2>4 DEF IsDrawn
  <2> QED BY <1>2, <2>5 DEF DrawAsset, AnswersInductive
<1>3. ASSUME NEW key \in Secrets, Deploy(key) PROVE AnswersInductive'
  BY <1>3 DEF Deploy, AnswersInductive
<1>4. CASE UNCHANGED answerVars BY <1>4 DEF answerVars, AnswersInductive
<1> QED BY <1>1, <1>2, <1>3, <1>4 DEF AnswersNext

\* Texts the normaliser takes for the same have the same signs, each read as the other.
LEMMA SameSigns ==
    ASSUME NEW n \in Nat, NEW text \in [1 .. n -> Chars],
           NEW m \in Nat, NEW typed \in [1 .. m -> Chars],
           Normalize(typed) = Normalize(text)
    PROVE  /\ Len(Signs(typed)) = Len(Signs(text))
           /\ \A i \in DOMAIN Signs(text) : Alike(Signs(typed)[i], Signs(text)[i])
<1>1. Fold(Signs(typed)) = Fold(Signs(text)) BY NormalizedSigns
<1>2. PICK j \in Nat : Signs(typed) \in [1 .. j -> Chars]
  <2>1. SignsAt(typed) \in SUBSET (1 .. m) BY DEF SignsAt
  <2> QED BY <2>1, ChosenIsText DEF Signs
<1>3. PICK k \in Nat : Signs(text) \in [1 .. k -> Chars]
  <2>1. SignsAt(text) \in SUBSET (1 .. n) BY DEF SignsAt
  <2> QED BY <2>1, ChosenIsText DEF Signs
<1>4. /\ DOMAIN Fold(Signs(typed)) = 1 .. j /\ DOMAIN Fold(Signs(text)) = 1 .. k
      /\ \A i \in 1 .. j : Fold(Signs(typed))[i] = YoToE(ToLower(Signs(typed)[i]))
      /\ \A i \in 1 .. k : Fold(Signs(text))[i] = YoToE(ToLower(Signs(text)[i]))
  BY <1>2, <1>3 DEF Fold
<1>5. 1 .. j = 1 .. k BY <1>1, <1>4
<1>6. j = k BY <1>5
<1>7. ASSUME NEW i \in 1 .. k PROVE Alike(Signs(typed)[i], Signs(text)[i])
  <2>1. Signs(typed)[i] \in Chars /\ Signs(text)[i] \in Chars BY <1>2, <1>3, <1>6
  <2>2. YoToE(ToLower(Signs(typed)[i])) = YoToE(ToLower(Signs(text)[i]))
    BY <1>1, <1>4, <1>6
  <2> QED BY <2>1, <2>2, AlikeFolded
<1>8. Len(Signs(typed)) = j /\ Len(Signs(text)) = k /\ DOMAIN Signs(text) = 1 .. k
  BY <1>2, <1>3
<1> QED BY <1>6, <1>7, <1>8

LEMMA ReadingIsJudged == AnswersInductive => ReadingPasses
<1> SUFFICES ASSUME AnswersInductive, drawn # Nil, NEW typed \in Typings
             PROVE  LET passes == CompareAnswer(Normalize(typed), drawn.hash)
                        signs == Signs(drawn.answer)
                    IN /\ drawn.picture # Nil /\ secret = drawn.key /\ Reads(typed, drawn.picture)
                            => passes
                       /\ passes => /\ Len(Signs(typed)) = Len(signs)
                                    /\ \A i \in DOMAIN signs : Alike(Signs(typed)[i], signs[i])
  BY DEF ReadingPasses
<1>1. PICK n \in Nat : \E text \in [1 .. n -> Chars] :
         /\ drawn.answer = text /\ drawn.picture = RenderSvg(text)
         /\ drawn.hash = HashAnswer(Normalize(text), drawn.key)
  BY DEF AnswersInductive, IsDrawn
<1>2. PICK text \in [1 .. n -> Chars] :
         /\ drawn.answer = text /\ drawn.picture = RenderSvg(text)
         /\ drawn.hash = HashAnswer(Normalize(text), drawn.key)
  BY <1>1
<1>3. PICK m \in 1 .. LongestTyped : typed \in [1 .. m -> Chars] BY DEF Typings
<1>4. m \in Nat BY <1>3, CaptchaAnswersAssumption
<1>5. ASSUME drawn.picture # Nil, secret = drawn.key, Reads(typed, drawn.picture)
      PROVE  CompareAnswer(Normalize(typed), drawn.hash)
  <2>1. Reads(typed, text) BY <1>2, <1>5 DEF RenderSvg
  <2>2. Normalize(typed) = Normalize(text) BY <1>3, <1>4, <2>1, ReadersType
  <2> QED BY <1>2, <1>5, <2>2 DEF CompareAnswer
<1>6. ASSUME CompareAnswer(Normalize(typed), drawn.hash)
      PROVE  /\ Len(Signs(typed)) = Len(Signs(text))
             /\ \A i \in DOMAIN Signs(text) : Alike(Signs(typed)[i], Signs(text)[i])
  <2>1. <<Normalize(text), drawn.key>> = <<Normalize(typed), secret>>
    BY <1>2, <1>6 DEF CompareAnswer, HashAnswer
  <2>2. Normalize(typed) = Normalize(text) BY <2>1
  <2> QED BY <1>3, <1>4, <2>2, SameSigns
<1> QED BY <1>2, <1>5, <1>6

THEOREM AnswersInvariance == AnswersSpec => []AnswersInductive
<1> QED BY AnswersBegin, AnswersKept, PTL DEF AnswersSpec

\* In every state, whatever was configured, drawn and deployed: whoever types what a picture
\* shows passes, and whoever passes has typed its letters and digits in their order
\* (the generator, the normaliser and the hashing of captchas).
THEOREM ReadersPass == AnswersSpec => []ReadingPasses
<1> QED BY AnswersInvariance, ReadingIsJudged, PTL
=============================================================================
