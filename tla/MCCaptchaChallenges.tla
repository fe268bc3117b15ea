------------------------- MODULE MCCaptchaChallenges -------------------------
(***************************************************************************)
(* Captchas for TLC: the pool and its challenges, what administrators do,  *)
(* the batches that fill the pool, and one captcha from its configuration  *)
(* to the judgement.  What they share are the rows of assets and the list, *)
(* which CaptchaChallenges fills by Generate and Push, and the status of   *)
(* configurations; each part is explored alone, and not their product.     *)
(* The elements of each set are alike; a model value stands for an asset   *)
(* and an image, a challenge and a configuration, a request, an            *)
(* administrator and a batch.                                              *)
(***************************************************************************)
EXTENDS CaptchaChallenges, CaptchaAuthoring, CaptchaAnswers, TLC

VARIABLE part

Symmetry == Permutations(Assets) \cup Permutations(Challenges) \cup Permutations(Requests)

\* Beside the batches one configuration, and one administrator at a time: a batch looks at
\* no more of them than whether its configuration is active when it is queued.
GenerationNext ==
    /\ AuthoringNext
    /\ Cardinality({c \in Configs : config'[c] # Nothing}) <= 1
    /\ Cardinality({p \in Admins : admin'[p] # AtRest}) <= 1

CaptchaVars == <<vars, authoringVars, answerVars, part>>
CaptchaInit ==
    /\ Init /\ AuthoringInit /\ AnswersInit
    /\ part \in {"pool", "administration", "generation", "answers"}
    /\ part # "answers" => secret = "pepper"
CaptchaNext ==
    /\ UNCHANGED part
    /\ \/ part = "pool" /\ Next /\ UNCHANGED <<authoringVars, answerVars>>
       \/ part = "administration" /\ Administer /\ UNCHANGED <<vars, generation, answerVars>>
       \/ part = "generation" /\ GenerationNext /\ UNCHANGED <<vars, answerVars>>
       \/ part = "answers" /\ AnswersNext /\ UNCHANGED <<vars, authoringVars>>
CaptchaSpec == CaptchaInit /\ [][CaptchaNext]_CaptchaVars

\* Both cases and a blank; a mark, a digit and a blank; what no document may hold.
MCAlphabets == {{"a", "YO", "blank"}, {"dot", "9", "blank"}, {"dot", "<", "e"}}
=============================================================================
