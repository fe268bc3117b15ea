----------------------------- MODULE HttpPipeline -----------------------------
(***************************************************************************)
(* One HTTP request through the backend: the hooks of main.ts, the guards, *)
(* the interceptors and the validation pipe around the handler, the two    *)
(* translations (of answers by LanguageInterceptor, of errors by           *)
(* AllExceptionFilter) and the answer that leaves.  What a handler does is *)
(* abstract here: it returns some value or throws some exception.          *)
(***************************************************************************)
EXTENDS Naturals, Sequences, FiniteSets, SequencesExt

CONSTANTS
    TranslationKeys,           \* strings with the shape of a translation key
    Dictionary,     \* the keys each locale's JSON files translate
    Prose,          \* strings that are no keys: texts of HttpExceptions
    Internals,      \* texts of driver and programming errors (SQL, parameters)
    Submitted,      \* what clients send in the fields of a body
    MaxAsked,       \* bound: how many of its five places a request names a language in
    Absent          \* no header, no query parameter, nothing set (nullish in the code)

\* What the code and the framework word themselves: keys, and texts.
KeysUsed ==
    {"common.csrf.invalid", "common.auth.unauthorized", "common.auth.forbidden",
     "common.request.bad", "common.route.notFound", "common.server.internal",
     "common.server.unavailable", "common.db.uniqueViolation", "common.db.foreignKeyViolation",
     "common.db.notNullViolation", "common.db.constraintViolation", "common.db.dataError",
     "user.auth.tokenStale", "user.auth.accountLocked", "user.auth.invalidCredentials",
     "user.notFound", "file.fileRequired", "captcha.challenge.expired",
     "validation.IS_EMAIL", "validation.IS_STRING", "validation.MIN_LENGTH"}
TextsUsed ==
    {"Unauthorized", "Forbidden resource", "Cannot GET /", "Request body is too large",
     "ThrottlerException: Too Many Requests"}

ASSUME HttpPipelineAssumption ==
    /\ KeysUsed \subseteq TranslationKeys
    /\ Internals \cap (TranslationKeys \cup TextsUsed \cup Prose \cup {Absent}) = {}
    /\ TranslationKeys \cap (TextsUsed \cup {Absent}) = {}

Locales == {"en", "ru"}

\* The places a language is looked for, first to last (getRequestedLanguage).
Places == <<"x-language", "x-lang", "query.language", "query.lang", "accept-language">>

\* What such a place holds: the tags of a comma list, "" for a blank one; <<>> is
\* an empty header.
Headers == {<<>>, <<"">>, <<"", "en">>, <<"de", "en">>}

ASSUME NothingIsNoLanguage == Absent \notin Headers \cup {<<l>> : l \in Locales} \cup ToSet(Places)

VARIABLES
    fallback,   \* settings.language of the deployment, normalised
    req,        \* what the client sent, then what the server adds to it
    stage,      \* how far the request has come
    outcome,    \* what the stage before handed on: a value or an exception
    answer      \* what was sent back, Absent before

httpVars == <<fallback, req, stage, outcome, answer>>

(***************************************************************************)
(* I18nService.                                                            *)
(***************************************************************************)
\* Everything that is not English is Russian.
NormalizeLanguage(tag) == IF tag = "en" THEN "en" ELSE "ru"

\* The first element of a list that will do: what find, or a chain of ??, gives.
FirstThat(list, Does(_)) ==
    LET which == {i \in 1 .. Len(list) : Does(list[i])}
    IN  IF which = {} THEN Absent ELSE list[CHOOSE i \in which : \A j \in which : i <= j]

ResolveLanguage(header) ==
    IF header \in {Absent, <<>>} THEN fallback
    ELSE NormalizeLanguage(FirstThat(header, LAMBDA tag : tag # ""))

\* The locale whose dictionary gives the text; Absent when a key stays a key.
Lookup(key, language) ==
    IF key \in Dictionary[language] THEN language
    ELSE IF key \in Dictionary[fallback] THEN fallback ELSE Absent

Text(string, locale) == [string |-> string, locale |-> locale]

\* A string that is no key is its own translation.
Translate(string, header) ==
    Text(string, IF string \in TranslationKeys THEN Lookup(string, ResolveLanguage(header))
                 ELSE Absent)

(***************************************************************************)
(* Exceptions.  An HttpException carries its own text or key, what a login  *)
(* refused for the lock or the captcha adds, or the list of constraints    *)
(* the validation pipe found; any other Error is the database's, with the  *)
(* class of its SQLSTATE, or nobody's.                                     *)
(***************************************************************************)
HttpError(name, status, message) ==
    [http |-> TRUE, name |-> name, status |-> status, message |-> message, errors |-> <<>>,
     extras |-> {}, db |-> Absent]

\* UserLoginHandler: until when the account is locked, whether a captcha is asked for.
LoginRefusals ==
    {[HttpError("ForbiddenException", 403, "user.auth.accountLocked")
        EXCEPT !.extras = {"lockedUntil"}],
     [HttpError("UnauthorizedException", 401, "user.auth.invalidCredentials")
        EXCEPT !.extras = {"requiresCaptcha"}]}

SqlClasses == {"23505", "23503", "23502", "23", "22", "08", "none"}

InternalErrors ==
    [http : {FALSE}, name : {"Error"}, status : {500}, message : Internals, errors : {<<>>},
     extras : {{}}, db : SqlClasses \cup {Absent}]

\* The fields of a body that the pipe checks.
Fields == {"email", "password"}
Submissions == [Fields -> Submitted]

\* flattenValidationErrors: a failed constraint is its key, with the field and the value
\* that the client sent in it.
FailedConstraint(field, key, body) ==
    [message |-> key, args |-> [property |-> field, value |-> body[field]]]

\* createValidationException.  The message is an object, the first of the list: its key
\* is translated with its arguments and passes NormalizeFrameworkMessage as it is.
ValidationError(failed) ==
    [http |-> TRUE, name |-> "BadRequestException", status |-> 400,
     message |-> Head(failed).message, errors |-> failed, extras |-> {}, db |-> Absent]

\* mapPgCode
SqlError ==
    [c \in SqlClasses |->
        IF c = "23505" THEN [status |-> 409, message |-> "common.db.uniqueViolation"]
        ELSE IF c = "23503" THEN [status |-> 400, message |-> "common.db.foreignKeyViolation"]
        ELSE IF c = "23502" THEN [status |-> 400, message |-> "common.db.notNullViolation"]
        ELSE IF c = "23" THEN [status |-> 400, message |-> "common.db.constraintViolation"]
        ELSE IF c = "22" THEN [status |-> 400, message |-> "common.db.dataError"]
        ELSE IF c = "08" THEN [status |-> 503, message |-> "common.server.unavailable"]
        ELSE [status |-> 500, message |-> "common.server.internal"]]

\* Mutant of RawMessage: only what is recognised as the database's is replaced.
RawMessageOfUnknown(e) ==
    IF e.http \/ e.db = Absent THEN e.message ELSE SqlError[e.db].message

\* The first message of an HttpException; for any other, never its own text.
RawMessage(e) ==
    IF e.http THEN e.message
    ELSE IF e.db # Absent THEN SqlError[e.db].message ELSE "common.server.internal"

Status(e) == IF ~e.http /\ e.db # Absent THEN SqlError[e.db].status ELSE e.status

\* Texts the framework words itself become keys.
NormalizeFrameworkMessage(m, status) ==
    IF m = "Unauthorized" THEN "common.auth.unauthorized"
    ELSE IF m = "Forbidden resource" THEN "common.auth.forbidden"
    ELSE IF m = "Bad Request" THEN "common.request.bad"
    ELSE IF m = "Internal server error" THEN "common.server.internal"
    ELSE IF status = 404 /\ m = "Cannot GET /" THEN "common.route.notFound"
    ELSE m

\* The codes, the same by name of the exception and by status.
Codes ==
    {<<400, "BadRequestException", "BAD_REQUEST">>,
     <<401, "UnauthorizedException", "UNAUTHORIZED">>,
     <<403, "ForbiddenException", "FORBIDDEN">>, <<404, "NotFoundException", "NOT_FOUND">>,
     <<409, "ConflictException", "CONFLICT">>, <<429, "ThrottlerException", "TOO_MANY_REQUESTS">>,
     <<422, "UnprocessableEntityException", "UNPROCESSABLE_ENTITY">>,
     <<500, "InternalServerErrorException", "INTERNAL_SERVER_ERROR">>,
     <<503, "ServiceUnavailableException", "SERVICE_UNAVAILABLE">>}

\* Neither map knows 410 (GoneException) or 413 (a body too large).
ErrorCode(e, status) ==
    LET named == {c \in Codes : c[2] = e.name}
        found == IF named # {} THEN named ELSE {c \in Codes : c[1] = status}
    IN  IF found = {} THEN "INTERNAL_SERVER_ERROR" ELSE (CHOOSE c \in found : TRUE)[3]

-----------------------------------------------------------------------------
(***************************************************************************)
(* What reaches the pipeline, and what its parts may hand on.              *)
(***************************************************************************)
Asked ==
    {asked \in [ToSet(Places) -> Headers \cup {Absent}] :
        Cardinality({p \in ToSet(Places) : asked[p] # Absent}) <= MaxAsked}

\* Where the request goes: a route, none, or the API's documentation, which has a
\* password that the client sends or does not.
Targets == {"route", "unknown", "docs", "docs, password sent"}

GuardRefusals ==
    {HttpError("ThrottlerException", 429, "ThrottlerException: Too Many Requests"),
     HttpError("ForbiddenException", 403, "common.csrf.invalid"),
     HttpError("UnauthorizedException", 401, "Unauthorized"),
     HttpError("UnauthorizedException", 401, "user.auth.tokenStale"),
     HttpError("ForbiddenException", 403, "Forbidden resource")}

HandlerErrors ==
    {HttpError("NotFoundException", 404, "user.notFound"),
     HttpError("BadRequestException", 400, "file.fileRequired"),
     HttpError("GoneException", 410, "captcha.challenge.expired"),
     HttpError("HttpException", 413, "Request body is too large")}
    \cup LoginRefusals \cup InternalErrors

\* A handler's value: nothing, one object, a list or a page of them; its objects
\* are plain or instances of a class, and hold a message or none.
Values ==
    {[shape |-> "none", plain |-> TRUE, message |-> Absent]}
    \cup [shape : {"object", "list", "page"}, plain : BOOLEAN,
          message : TranslationKeys \cup Prose \cup {Absent}]

IdHeaders == {Absent, "safe id", "unsafe id"}

\* genReqId: a well-formed id of the client's is kept, else one is made.
GenReqId(header) == IF header = "safe id" THEN header ELSE "made id"

HttpInit ==
    /\ fallback \in Locales
    /\ req \in [asked : Asked, target : Targets, idHeader : IdHeaders, body : Submissions,
                    language : {Absent}, id : {Absent}]
    /\ stage = "sent"
    /\ outcome = Absent
    /\ answer = Absent

Throw(e) == stage' = "thrown" /\ outcome' = e

\* onRequest: the id is on the reply before anything can refuse the request; the
\* docs are refused without the filter.
OnRequest ==
    /\ stage = "sent"
    /\ req' = [req EXCEPT !.id = GenReqId(req.idHeader)]
    /\ IF req.target = "docs"
       THEN /\ stage' = "answered"
            /\ answer' = [id |-> req'.id, status |-> 401, code |-> Absent,
                          message |-> Text("Unauthorized", Absent), key |-> Absent,
                          errors |-> <<>>, extras |-> {}, envelope |-> Absent]
       ELSE stage' = "accepted" /\ UNCHANGED answer
    /\ UNCHANGED <<fallback, outcome>>

Route ==
    /\ stage = "accepted"
    /\ req.target \in {"route", "unknown"}
    /\ IF req.target = "unknown"
       THEN Throw(HttpError("NotFoundException", 404, "Cannot GET /"))
       ELSE stage' = "routed" /\ UNCHANGED outcome
    /\ UNCHANGED <<fallback, req, answer>>

\* Guards run before every interceptor: req.language is not there yet.
Guard ==
    /\ stage = "routed"
    /\ \/ \E e \in GuardRefusals : Throw(e)
       \/ stage' = "guarded" /\ UNCHANGED outcome
    /\ UNCHANGED <<fallback, req, answer>>

\* Mutant of RequestedLanguage: the standard header is looked at first.
AcceptLanguageFirst ==
    LET place == FirstThat(Reverse(Places), LAMBDA p : req.asked[p] # Absent)
    IN  IF place = Absent THEN Absent ELSE req.asked[place]

RequestedLanguage ==
    LET place == FirstThat(Places, LAMBDA p : req.asked[p] # Absent)
    IN  IF place = Absent THEN Absent ELSE req.asked[place]

\* LanguageInterceptor.intercept, on the way in.
Intercept ==
    /\ stage = "guarded"
    /\ req' = [req EXCEPT !.language = <<ResolveLanguage(RequestedLanguage)>>]
    /\ stage' = "intercepted"
    /\ UNCHANGED <<fallback, outcome, answer>>

\* One field fails a check, or another fails two.
FailedChecks(body) ==
    {<<FailedConstraint("email", "validation.IS_EMAIL", body)>>,
     <<FailedConstraint("password", "validation.IS_STRING", body),
       FailedConstraint("password", "validation.MIN_LENGTH", body)>>}

\* The pipe runs inside the interceptors.
Validate ==
    /\ stage = "intercepted"
    /\ \/ \E failed \in FailedChecks(req.body) : Throw(ValidationError(failed))
       \/ stage' = "valid" /\ UNCHANGED outcome
    /\ UNCHANGED <<fallback, req, answer>>

Handle ==
    /\ stage = "valid"
    /\ \/ \E e \in HandlerErrors : Throw(e)
       \/ \E v \in Values : stage' = "returned" /\ outcome' = v
    /\ UNCHANGED <<fallback, req, answer>>

\* TransformInterceptor: a page already has the envelope.
Envelope(v) ==
    IF v.shape = "none" THEN "null" ELSE IF v.shape = "page" THEN "own" ELSE "data"

\* TransformInterceptor, then translateMessages: messages of plain objects are
\* translated and keep their key beside the text, class instances go as they are.
Respond ==
    /\ stage = "returned"
    /\ LET translated == outcome.plain /\ outcome.message # Absent
       IN  answer' = [id |-> req.id, status |-> 200, code |-> Absent,
                      message |-> IF translated THEN Translate(outcome.message, req.language)
                                  ELSE Text(outcome.message, Absent),
                      key |-> IF translated /\ outcome.message \in TranslationKeys
                              THEN outcome.message ELSE Absent,
                      errors |-> <<>>, extras |-> {}, envelope |-> Envelope(outcome)]
    /\ stage' = "answered"
    /\ UNCHANGED <<fallback, req, outcome>>

\* The language of an error: the interceptor's, or the header's when it did not run.
ErrorLanguage ==
    IF req.language # Absent THEN req.language ELSE req.asked["accept-language"]

\* AllExceptionFilter.catch with its buildDetails.  The list of a validation error is sent
\* as it is, keys and arguments; only its first message is translated, and has no
\* messageKey.
Catch ==
    /\ stage = "thrown"
    /\ LET status     == Status(outcome)
           message    == NormalizeFrameworkMessage(RawMessage(outcome), status)
       IN  answer' = [id |-> req.id, status |-> status, code |-> ErrorCode(outcome, status),
                      message |-> Translate(message, ErrorLanguage),
                      key |-> IF message \in TranslationKeys /\ outcome.errors = <<>>
                              THEN message ELSE Absent,
                      errors |-> outcome.errors, extras |-> outcome.extras,
                      envelope |-> Absent]
    /\ stage' = "answered"
    /\ UNCHANGED <<fallback, req, outcome>>

HttpNext ==
    \/ OnRequest \/ Route \/ Guard \/ Intercept \/ Validate
    \/ Handle \/ Respond \/ Catch

HttpPipelineSpec == HttpInit /\ [][HttpNext]_httpVars

-----------------------------------------------------------------------------
\* Whatever fails, and at whatever stage, the client reads no text of a driver's or a
\* programming error and gets no id back that the server did not check.  The details say
\* of a validation error which constraints failed, by their keys, and hand every value
\* back to the client that sent it in that field (a password too); the end of a lock and
\* the captcha are told only to a login refused for them (all.exception.ts 132-151 and
\* 172-180, validation-exception.factory.ts 43-49, main.ts 45-47).
NothingLeaks ==
    answer # Absent =>
        /\ answer.message.string \notin Internals
        /\ answer.id \in {"safe id", "made id"}
        /\ \A e \in ToSet(answer.errors) :
              /\ e.message \in TranslationKeys
              /\ e.args.property \in Fields /\ e.args.value = req.body[e.args.property]
        /\ "lockedUntil" \in answer.extras => answer.key = "user.auth.accountLocked"
        /\ "requiresCaptcha" \in answer.extras => answer.key = "user.auth.invalidCredentials"

\* The language the client is owed: the first place that names one, but only
\* Accept-Language counts while no interceptor has run.
Owed ==
    LET heard == IF req.language = Absent THEN <<"accept-language">> ELSE Places
        named == {i \in 1..Len(heard) : req.asked[heard[i]] # Absent}
    IN  IF named = {} THEN fallback
        ELSE ResolveLanguage(
                 req.asked[heard[CHOOSE i \in named : \A j \in named : i <= j]])

\* A text is in the language owed to the client, whether a handler, the pipe or
\* the filter worded it, and a key is left untranslated only when that language
\* and the deployment's lack it or an instance of a class carries it.
AnswerInLanguage ==
    (answer # Absent /\ answer.message.string \in TranslationKeys) =>
        LET key == answer.message.string
        IN  IF answer.status = 200 /\ ~outcome.plain THEN answer.message.locale = Absent
            ELSE answer.message.locale =
                 IF key \in Dictionary[Owed] THEN Owed
                 ELSE IF key \in Dictionary[fallback] THEN fallback ELSE Absent
=============================================================================
