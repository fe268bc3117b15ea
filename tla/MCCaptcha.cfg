\* Two assets, challenges and requests in flight; or two configurations and administrators;
\* or two batches of two images, three images in all, that fail twice at most;
\* or one captcha after the other, of at most three characters.
SPECIFICATION CaptchaSpec
CONSTANTS
    a1 = a1
    a2 = a2
    a3 = a3
    c1 = c1
    c2 = c2
    q1 = q1
    q2 = q2
    Assets = {a1, a2}
    Challenges = {c1, c2}
    Requests = {q1, q2}
    MaxAttempts = 2
    None = None
    t1 = t1
    medium = medium
    Templates = {t1}
    Supported = {t1}
    Configs = {c1, c2}
    Difficulties = {medium}
    Admins = {q1, q2}
    Batches = {q1, q2}
    Images = {a1, a2, a3}
    BatchSize = 2
    BatchAttempts = 2
    MaxTick = 1
    Nothing = Nothing
    ShortestText = 1
    LongestText = 3
    UsualText = 2
    UsualAlphabet = {"9", "A"}
    Alphabets <- MCAlphabets
    Secrets = {"pepper", "new pepper"}
    LongestTyped = 3
    Nil = Nil
SYMMETRY Symmetry
INVARIANTS
    ChallengesRight
    ConfigsRight
    GenerationRight
    ReadingPasses
PROPERTIES
    ClosedOnce
    ImplementsHistory
CHECK_DEADLOCK FALSE
