---------------------------- MODULE CaptchaAnswers ----------------------------
(***************************************************************************)
(* One captcha from its configuration to the judgement of what is typed:   *)
(* the svg_text generator, the normalisation of answers and their HMAC.    *)
(* A character is one of a few that the code treats differently; the size, *)
(* the noise and the places of the characters in a picture are left out.   *)
(***************************************************************************)
EXTENDS Integers, Sequences, FiniteSets

CONSTANTS
    ShortestText,  \* the least length of an answer: 4
    LongestText,   \* the greatest: 10
    UsualText,     \* the length if none is configured: 6
    UsualAlphabet, \* the alphabet if none is configured: capitals and digits
    Alphabets,     \* alphabets that are configured, as sets of characters
    Secrets,       \* what the HMAC key may be
    LongestTyped,  \* the longest answer typed (bounds the model)
    Nil

ASSUME CaptchaAnswersAssumption ==
    {ShortestText, LongestText, UsualText, LongestTyped} \subseteq Nat

VARIABLES
    secret,  \* the HMAC key of the running process
    setup,   \* captcha_config.configJson
    drawn    \* the asset: its picture, the hash of its answer, (history) answer and key

answerVars == <<secret, setup, drawn>>

-----------------------------------------------------------------------------
Capitals == [A |-> "a", YO |-> "yo"]
Blank == "blank"
Letters == {"A", "a", "YO", "yo", "e"}
Digits == {"9"}
Chars == Letters \cup Digits \cup {Blank, "dot", "<"}
Typings == UNION {[1 .. n -> Chars] : n \in 1 .. LongestTyped}

ASSUME AlphabetsAreKnown == UsualAlphabet \subseteq Chars /\ \A a \in Alphabets : a \subseteq Chars

\* The characters at the positions of S, in their order: the r-th is at position At(S, r).
Place(S, i) == Cardinality({j \in S : j <= i})
At(S, r) == CHOOSE i \in S : Place(S, i) = r
Chosen(text, S) == [r \in 1 .. Cardinality(S) |-> text[At(S, r)]]

\* From the first character that is no blank to the last.
Trim(text) ==
    LET ink == {i \in DOMAIN text : text[i] # Blank}
    IN Chosen(text, {i \in DOMAIN text : \E j, k \in ink : j <= i /\ i <= k})

ToLower(c) == IF c \in DOMAIN Capitals THEN Capitals[c] ELSE c
YoToE(c) == IF c = "yo" THEN "e" ELSE c
Fold(text) == [i \in DOMAIN text |-> YoToE(ToLower(text[i]))]
IsKept(c) == c \in Letters \cup Digits \cup {Blank}
DropMarks(text) == Chosen(text, {i \in DOMAIN text : IsKept(text[i])})
JoinBlanks(text) ==
    Chosen(text, {i \in DOMAIN text : ~(i > 1 /\ text[i] = Blank /\ text[i - 1] = Blank)})

\* Mutant of Normalize: blanks are trimmed, and nothing else.
NormalizeBlanks(text) == Trim(text)

\* In this order: a mark that is dropped can leave a blank at the end.
Normalize(text) ==
    JoinBlanks(DropMarks(Fold(Trim(text))))

HashAnswer(normalized, key) == <<normalized, key>>
CompareAnswer(normalized, hash) == hash = HashAnswer(normalized, secret)

-----------------------------------------------------------------------------
Clamp(value, low, high, fallback) ==
    LET given == IF value = Nil THEN fallback ELSE value IN
    CASE given < low -> low [] given > high -> high [] OTHER -> given

\* An alphabet of fewer than eight code units is replaced.
ValidateConfig(c) ==
    [length |-> Clamp(c.length, ShortestText, LongestText, UsualText),
     alphabet |-> IF c.long THEN c.alphabet ELSE UsualAlphabet,
     long |-> TRUE]

\* A "<" is not escaped and makes the picture no document.
RenderSvg(text) == IF \E i \in DOMAIN text : text[i] = "<" THEN Nil ELSE text

Given == [length : {Nil} \cup (0 .. LongestText + 1), alphabet : Alphabets, long : BOOLEAN]
Draft(given) ==
    /\ setup' = ValidateConfig(given)
    /\ UNCHANGED <<secret, drawn>>

\* generate, which validates again, and the hash the processor stores.
DrawAsset ==
    LET c == ValidateConfig(setup)
    IN \E text \in [1 .. c.length -> c.alphabet] :
          /\ drawn' = [picture |-> RenderSvg(text), key |-> secret, answer |-> text,
                       hash |-> HashAnswer(Normalize(text), secret)]
          /\ UNCHANGED <<secret, setup>>

\* A deployment with other settings; the assets of the pool stay.
Deploy(key) ==
    /\ secret' = key
    /\ UNCHANGED <<setup, drawn>>

AnswersInit ==
    /\ secret \in Secrets
    /\ setup = ValidateConfig([length |-> Nil, alphabet |-> UsualAlphabet, long |-> FALSE])
    /\ drawn = Nil

AnswersNext ==
    \/ \E given \in Given : Draft(given)
    \/ DrawAsset
    \/ \E key \in Secrets : Deploy(key)

AnswersSpec == AnswersInit /\ [][AnswersNext]_answerVars

-----------------------------------------------------------------------------
(* What holds. *)

\* A character read as another one: in the other case, or e for yo.
Alike(c, d) == c = d \/ {c, d} \subseteq {"A", "a"} \/ {c, d} \subseteq {"YO", "yo", "e"}

\* The characters one after the other, and blanks around them.
Reads(typed, text) ==
    \E skipped \in 0 .. Len(typed) - Len(text) :
        \A i \in DOMAIN typed :
            IF i - skipped \in DOMAIN text THEN Alike(typed[i], text[i - skipped])
                                           ELSE typed[i] = Blank
SignsAt(text) == {i \in DOMAIN text : text[i] \in Letters \cup Digits}
Signs(text) == Chosen(text, SignsAt(text))

\* Whoever types the characters of a picture that can be shown passes, in either case,
\* with e for yo and with blanks around it, unless a deployment has changed the key
\* since; and whoever passes has typed its letters and digits, all of them and in their
\* order (the generator, the normaliser and the hashing of captchas).
ReadingPasses ==
    drawn # Nil => \A typed \in Typings :
        LET passes == CompareAnswer(Normalize(typed), drawn.hash)
            signs == Signs(drawn.answer)
        IN /\ drawn.picture # Nil /\ secret = drawn.key /\ Reads(typed, drawn.picture)
                 => passes
           /\ passes => /\ Len(Signs(typed)) = Len(signs)
                        /\ \A i \in DOMAIN signs : Alike(Signs(typed)[i], signs[i])
=============================================================================
