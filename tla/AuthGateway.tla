-------------------------------- MODULE AuthGateway --------------------------------
(***************************************************************************)
(* The HTTP side of authentication: one browser, several requests of it in *)
(* flight, the guards of the backend, the handlers that ask auth-service   *)
(* over gRPC and answer with cookies, tokens in the body, or both.  The    *)
(* tokens of one issue (access, refresh, csrf) are its number; 0 is none.  *)
(* What auth-service does inside is AuthSessions; here it is one step.     *)
(* A cookie without a path belongs to the directory of the route that set  *)
(* it: the browser sends it to the routes of authentication and no others, *)
(* and a page that lies elsewhere cannot read it.                          *)
(***************************************************************************)
EXTENDS Naturals, FiniteSets

CONSTANTS
    Calls,      \* the requests that can be in flight together
    Modes,      \* the values auth.mode may have
    MaxIssues   \* how many token pairs are issued (bounds the model)

ASSUME AuthGatewayAssumption ==
    /\ Modes \subseteq {"HYBRID", "COOKIES_ONLY", "RESPONSE_ONLY"}
    /\ MaxIssues \in Nat

VARIABLES
    config,     \* auth.mode, auth.csrf.enabled, and whether the script's page may read cookies
    jar,        \* the browser's cookies, all of them of the directory of the auth routes
    memory,     \* the tokens its script took from answers
    service,    \* auth-service: how many pairs it issued, the refresh tokens it accepts
    call,       \* call[p]: a request, what it carries, how far it is, its answer
    fate        \* (history) see Fate

gateVars == <<config, jar, memory, service, call, fate>>

-----------------------------------------------------------------------------
Issues == 1 .. MaxIssues
Tokens == [access : 0 .. MaxIssues, refresh : 0 .. MaxIssues, csrf : 0 .. MaxIssues]
NoTokens == [access |-> 0, refresh |-> 0, csrf |-> 0]
\* /auth/login, ..., /auth/change-password; "users" is a route elsewhere, POST /users.
AuthRoutes == {"login", "refresh", "logout", "me", "change", "forgot"}
Kinds == AuthRoutes \cup {"users"}
Safe == {"me"}                         \* a GET; all others are POSTs
NeedsUser == {"me", "change", "users"} \* behind JwtAuthGuard
MovesTokens == {"login", "refresh", "logout"}
Messages == {"ok", "csrf", "unauthorized", "throttled", "internal", "noToken",
             "refused", "tokenRevoked", "logoutFailed"}
\* cookies holds what Set-Cookie makes of the jar, or nothing.
Answer == [status : {200, 400, 401, 403, 429, 500}, message : Messages,
           cookies : {{}} \cup {{t} : t \in Tokens}, body : Tokens]
NoAnswer == [status |-> 200, message |-> "ok", cookies |-> {}, body |-> NoTokens]
Reasons == {"", "refused", "locked", "revoked", "weak", "failed"}
Result == [reason : Reasons, issue : 0 .. MaxIssues]
Call == [step : {"idle", "sent", "asking", "told", "profile", "answered"}, kind : Kinds,
         cookies : Tokens, body : Tokens, header : 0 .. MaxIssues,
         result : Result, answer : Answer]
Idle == [step |-> "idle", kind |-> "me", cookies |-> NoTokens, body |-> NoTokens,
         header |-> 0, result |-> [reason |-> "", issue |-> 0], answer |-> NoAnswer]
\* lost: the issues that never reached the browser; crossed: two requests that move
\* tokens were in flight together, or a login began with a session there; ended:
\* auth-service revoked the sessions itself; halved: a login failed after it had set
\* its cookies; left: the issues that the user has logged out of.
Fate == [lost : SUBSET Issues, crossed : BOOLEAN, ended : BOOLEAN, halved : BOOLEAN,
         left : SUBSET Issues]

GateTypeOK ==
    /\ config \in [mode : Modes, csrf : BOOLEAN, reads : BOOLEAN]
    /\ jar \in Tokens /\ memory \in Tokens
    /\ service \in [issued : 0 .. MaxIssues, live : SUBSET Issues]
    /\ call \in [Calls -> Call]
    /\ fate \in Fate

Step(p, from, to) == call[p].step = from /\ call' = [call EXCEPT ![p].step = to]
\* What a request carried is forgotten when nothing reads it any more.
Bare(step, kind, result, answer) ==
    [step |-> step, kind |-> kind, cookies |-> NoTokens, body |-> NoTokens, header |-> 0,
     result |-> result, answer |-> answer]
Respond(p, answer) ==
    call' = [call EXCEPT ![p] = Bare("answered", call[p].kind, call[p].result, answer)]
Plain(status, message) == [status |-> status, message |-> message,
                           cookies |-> {}, body |-> NoTokens]
Held == {jar.refresh, memory.refresh} \ {0}

-----------------------------------------------------------------------------
(* The browser *)

\* The script sends the tokens it knows as a bearer token and in the body, or not; it
\* reads the csrf token from the cookie, if it may, or takes the one it was told.
CsrfTokens == ({memory.csrf} \cup (IF config.reads THEN {jar.csrf} ELSE {})) \ {0}

Send(p, kind) == \E body \in {NoTokens, memory},
                     header \in IF CsrfTokens = {} THEN {0} ELSE CsrfTokens :
    /\ call[p].step = "idle"
    /\ call' = [call EXCEPT ![p] =
           [step |-> "sent", kind |-> kind,
            cookies |-> IF kind \in AuthRoutes THEN jar ELSE NoTokens, body |-> body,
            header |-> header, result |-> Idle.result, answer |-> NoAnswer]]
    /\ fate' = [fate EXCEPT !.crossed =
           \/ @
           \/ kind \in MovesTokens /\ \E q \in Calls :
                  call[q].step # "idle" /\ call[q].kind \in MovesTokens
           \/ kind = "login" /\ Held \cap service.live # {}]
    /\ UNCHANGED <<config, jar, memory, service>>

\* Set-Cookie is applied whatever the status; only a success is taken from a body,
\* and after a logout the script forgets what it knows.
Receive(p) ==
    LET answer == call[p].answer
    IN /\ call[p].step = "answered"
       /\ jar' \in IF answer.cookies = {} THEN {jar} ELSE answer.cookies
       /\ memory' = IF answer.message # "ok" THEN memory
                    ELSE IF call[p].kind = "logout" THEN NoTokens
                    ELSE IF call[p].kind \in {"login", "refresh"} THEN answer.body
                    ELSE memory
       /\ call' = [call EXCEPT ![p] = Idle]
       /\ UNCHANGED <<config, service, fate>>

\* The answer never arrives.
Lose(p) ==
    /\ call[p].step = "answered"
    /\ call' = [call EXCEPT ![p] = Idle]
    /\ fate' = [fate EXCEPT !.lost = @ \cup ({call[p].result.issue} \ {0}),
                            !.crossed = @ \/ call[p].kind = "logout"]
    /\ UNCHANGED <<config, jar, memory, service>>

-----------------------------------------------------------------------------
(* The guards, in their order *)

\* ThrottlerGuard counts per address and route, other clients' requests too.
Throttle(p) ==
    /\ call[p].step = "sent"
    /\ Respond(p, Plain(429, "throttled"))
    /\ UNCHANGED <<config, jar, memory, service, fate>>

PublicPaths == {"login", "refresh", "logout"}

\* The cookie and the header are compared with each other, not with what was issued.
CsrfAllows(p) ==
    \/ ~config.csrf
    \/ call[p].kind \in Safe \cup PublicPaths
    \/ call[p].cookies.csrf # 0 /\ call[p].header = call[p].cookies.csrf

CsrfGuard(p) ==
    /\ call[p].step = "sent"
    /\ ~CsrfAllows(p)
    /\ Respond(p, Plain(403, "csrf"))
    /\ UNCHANGED <<config, jar, memory, service, fate>>

\* The bearer token first, then the cookie.
AccessToken(p) ==
    IF call[p].body.access # 0 THEN call[p].body.access ELSE call[p].cookies.access

\* ... but the cookie first, then the body.
RefreshToken(p) ==
    IF call[p].cookies.refresh # 0 THEN call[p].cookies.refresh ELSE call[p].body.refresh

\* There is no token, or it is expired, or of another version (AccessVersion).
JwtAuthGuard(p) ==
    /\ call[p].step = "sent"
    /\ CsrfAllows(p)
    /\ call[p].kind \in NeedsUser
    /\ Respond(p, Plain(401, "unauthorized"))
    /\ UNCHANGED <<config, jar, memory, service, fate>>

-----------------------------------------------------------------------------
(* The controller *)

\* /auth/me, and any route elsewhere.
Serve(p) ==
    /\ call[p].step = "sent"
    /\ CsrfAllows(p)
    /\ call[p].kind \in {"me", "users"} /\ AccessToken(p) # 0
    /\ Respond(p, NoAnswer)
    /\ UNCHANGED <<config, jar, memory, service, fate>>

\* Without a token nothing is asked, and a logout clears nothing.
NoToken(p) ==
    /\ call[p].step = "sent"
    /\ RefreshToken(p) = 0
    /\ \/ call[p].kind = "refresh" /\ Respond(p, Plain(401, "noToken"))
       \/ call[p].kind = "logout" /\ Respond(p, Plain(200, "noToken"))
    /\ UNCHANGED <<config, jar, memory, service, fate>>

Ask(p) ==
    /\ Step(p, "sent", "asking")
    /\ CsrfAllows(p)
    /\ call[p].kind \in {"login", "refresh", "logout", "change", "forgot"}
    /\ call[p].kind \in {"refresh", "logout"} => RefreshToken(p) # 0
    /\ call[p].kind \in NeedsUser => AccessToken(p) # 0
    /\ UNCHANGED <<config, jar, memory, service, fate>>

-----------------------------------------------------------------------------
(* auth-service *)

Tell(p, reason, issue) ==
    /\ call[p].step = "asking"
    /\ call' = [call EXCEPT ![p] = Bare("told", call[p].kind,
                                 [reason |-> reason, issue |-> issue], NoAnswer)]
    /\ UNCHANGED <<config, jar, memory>>

IssuePair(p, live) ==
    /\ service.issued < MaxIssues
    /\ service' = [issued |-> service.issued + 1, live |-> live \cup {service.issued + 1}]
    /\ Tell(p, "", service.issued + 1)

ServiceLogin(p) ==
    /\ call[p].kind = "login"
    /\ \/ IssuePair(p, service.live) /\ UNCHANGED fate
       \/ \E reason \in {"refused", "locked"} :
             Tell(p, reason, 0) /\ UNCHANGED <<service, fate>>

\* A token that is not accepted any more ends all sessions; one that is may still be
\* refused: it is expired, or its user is.
ServiceRefresh(p) ==
    /\ call[p].kind = "refresh"
    /\ IF RefreshToken(p) \in service.live
       THEN \/ IssuePair(p, service.live \ {RefreshToken(p)}) /\ UNCHANGED fate
            \/ Tell(p, "refused", 0) /\ UNCHANGED <<service, fate>>
       ELSE /\ Tell(p, "revoked", 0)
            /\ service' = [service EXCEPT !.live = {}]
            /\ fate' = [fate EXCEPT !.ended = TRUE]

ServiceLogout(p) ==
    /\ call[p].kind = "logout"
    /\ Tell(p, IF RefreshToken(p) \in service.live THEN "" ELSE "failed", 0)
    /\ service' = [service EXCEPT !.live = @ \ {RefreshToken(p)}]
    /\ fate' = [fate EXCEPT !.left = @ \cup {RefreshToken(p)}]

ServiceChange(p) ==
    /\ call[p].kind = "change"
    /\ \/ /\ Tell(p, "", 0)
          /\ service' = [service EXCEPT !.live = {}]
          /\ fate' = [fate EXCEPT !.ended = TRUE]
       \/ \E reason \in {"refused", "weak"} :
             Tell(p, reason, 0) /\ UNCHANGED <<service, fate>>

ServiceForgot(p) ==
    /\ call[p].kind = "forgot"
    /\ Tell(p, "", 0)
    /\ UNCHANGED <<service, fate>>

\* The call fails, before it was carried out or after; nothing catches the error.
GrpcFail(p) ==
    /\ call[p].step \in {"asking", "told"}
    /\ Respond(p, Plain(500, "internal"))
    /\ fate' = [fate EXCEPT !.lost = @ \cup ({call[p].result.issue} \ {0}),
                            !.crossed = @ \/ call[p].kind = "logout"]
    /\ UNCHANGED <<config, jar, memory, service>>

-----------------------------------------------------------------------------
(* The handlers, after the answer of auth-service *)

\* Mutant of AuthCookies: the csrf cookie is left out.
AuthCookiesWithoutCsrf(n) ==
    IF config.mode = "RESPONSE_ONLY" THEN {}
    ELSE {[access |-> n, refresh |-> n, csrf |-> 0]}

\* setAuthCookies
AuthCookies(n) ==
    IF config.mode = "RESPONSE_ONLY" THEN {}
    ELSE {[access |-> n, refresh |-> n, csrf |-> IF config.csrf THEN n ELSE 0]}

\* setCookie is given no path, and clearCookie takes "/" for the one it is not given.
SetPath == "/api/v1/auth"
ClearPath == "/"

\* clearAuthCookies: the browser drops the cookies of the path that is named.
ClearCookies == IF ClearPath = SetPath THEN {NoTokens} ELSE {}

InBody(n) == IF config.mode = "COOKIES_ONLY" THEN 0 ELSE n

\* Every reason has its message and its status.
LoginStatus(reason) == IF reason = "locked" THEN 403 ELSE 401
RefreshStatus(reason) == IF reason = "revoked" THEN 403 ELSE 401
ChangeStatus(reason) == IF reason = "weak" THEN 400 ELSE 401

\* The cookies are set, and then the profile is read.
Login(p) ==
    LET r == call[p].result
    IN /\ call[p].step = "told" /\ call[p].kind = "login"
       /\ IF r.reason # ""
          THEN Respond(p, Plain(LoginStatus(r.reason), "refused"))
          ELSE call' = [call EXCEPT ![p] = [@ EXCEPT !.step = "profile",
                            !.answer = [NoAnswer EXCEPT !.cookies = AuthCookies(r.issue)]]]
       /\ UNCHANGED <<config, jar, memory, service, fate>>

\* If that fails, the error still carries the cookies.
Profile(p) ==
    LET n == call[p].result.issue
        cookies == call[p].answer.cookies
    IN /\ call[p].step = "profile"
       /\ \/ /\ Respond(p, [status |-> 200, message |-> "ok", cookies |-> cookies,
                            body |-> [access |-> InBody(n), refresh |-> InBody(n),
                                      csrf |-> IF config.csrf THEN InBody(n) ELSE 0]])
             /\ UNCHANGED fate
          \/ /\ Respond(p, [Plain(500, "internal") EXCEPT !.cookies = cookies])
             /\ fate' = [fate EXCEPT !.halved = TRUE, !.lost = IF cookies = {}
                                                              THEN @ \cup {n} ELSE @]
       /\ UNCHANGED <<config, jar, memory, service>>

\* Mutant of Refresh: the new pair is answered in the body only.
RefreshSetsNoCookies(p) ==
    LET r == call[p].result
        n == r.issue
    IN /\ call[p].step = "told" /\ call[p].kind = "refresh"
       /\ Respond(p, IF r.reason # ""
             THEN Plain(RefreshStatus(r.reason),
                        IF r.reason = "revoked" THEN "tokenRevoked" ELSE "refused")
             ELSE [status |-> 200, message |-> "ok", cookies |-> {},
                   body |-> [access |-> InBody(n), refresh |-> InBody(n), csrf |-> n]])
       /\ UNCHANGED <<config, jar, memory, service, fate>>

\* The csrf token is in every body.
Refresh(p) ==
    LET r == call[p].result
        n == r.issue
    IN /\ call[p].step = "told" /\ call[p].kind = "refresh"
       /\ Respond(p, IF r.reason # ""
             THEN Plain(RefreshStatus(r.reason),
                        IF r.reason = "revoked" THEN "tokenRevoked" ELSE "refused")
             ELSE [status |-> 200, message |-> "ok", cookies |-> AuthCookies(n),
                   body |-> [access |-> InBody(n), refresh |-> InBody(n), csrf |-> n]])
       /\ UNCHANGED <<config, jar, memory, service, fate>>

Logout(p) ==
    LET r == call[p].result
    IN /\ call[p].step = "told" /\ call[p].kind = "logout"
       /\ Respond(p, [Plain(200, IF r.reason = "" THEN "ok" ELSE "logoutFailed")
                         EXCEPT !.cookies = ClearCookies])
       /\ UNCHANGED <<config, jar, memory, service, fate>>

\* The cookies of the sessions that a changed password ends stay where they are.
ChangePassword(p) ==
    LET r == call[p].result
    IN /\ call[p].step = "told" /\ call[p].kind = "change"
       /\ Respond(p, IF r.reason = "" THEN NoAnswer
                     ELSE Plain(ChangeStatus(r.reason), "refused"))
       /\ UNCHANGED <<config, jar, memory, service, fate>>

ForgotPassword(p) ==
    /\ call[p].step = "told" /\ call[p].kind = "forgot"
    /\ Respond(p, NoAnswer)
    /\ UNCHANGED <<config, jar, memory, service, fate>>

-----------------------------------------------------------------------------
GateInit ==
    /\ config \in [mode : Modes, csrf : BOOLEAN, reads : BOOLEAN]
    /\ config.reads => config.csrf   \* there is nothing else for the script to read
    /\ jar = NoTokens /\ memory = NoTokens
    /\ service = [issued |-> 0, live |-> {}]
    /\ call = [p \in Calls |-> Idle]
    /\ fate = [lost |-> {}, crossed |-> FALSE, ended |-> FALSE, halved |-> FALSE,
               left |-> {}]

GateNext == \E p \in Calls :
    \/ \E kind \in Kinds : Send(p, kind)
    \/ Receive(p) \/ Lose(p) \/ Throttle(p) \/ CsrfGuard(p) \/ JwtAuthGuard(p)
    \/ Serve(p) \/ NoToken(p) \/ Ask(p)
    \/ ServiceLogin(p) \/ ServiceRefresh(p) \/ ServiceLogout(p) \/ ServiceChange(p)
    \/ ServiceForgot(p) \/ GrpcFail(p)
    \/ Login(p) \/ Profile(p) \/ Refresh(p) \/ Logout(p) \/ ChangePassword(p)
    \/ ForgotPassword(p)

GateSpec == GateInit /\ [][GateNext]_gateVars

-----------------------------------------------------------------------------
(* Properties *)

OnItsWay == {call[p].result.issue : p \in {q \in Calls : call[q].step # "idle"}}
Quiet == \A p \in Calls : call[p].step = "idle"

\* setAuthCookies, clearAuthCookies and the token of controller and handlers keep the
\* browser and auth-service in step, in every mode: a session that can be refreshed is
\* held by the browser or on its way to it, unless its answer was lost on the way; and
\* unless auth-service ended it, the session that the script of a browser at rest knows
\* is accepted, and that of its cookies is, or is one that the user has logged out of:
\* the cookies stay (clearAuthCookies names another path), and what they hold is over.
\* This is for a browser that does not let two calls that move tokens overtake each other.
SessionsHeld ==
    ~fate.crossed =>
        /\ service.live \subseteq Held \cup OnItsWay \cup fate.lost
        /\ Quiet /\ fate.lost = {} /\ ~fate.ended =>
              /\ memory.refresh \in service.live \cup {0}
              /\ jar.refresh \in service.live \cup fate.left \cup {0}

\* A browser whose script sends the csrf token back, from the cookie or from the body it
\* was told in, is only refused where its request is without the cookies of a session
\* (there is none, tokens are answered in bodies only, or the route is none of auth), or
\* when a login failed half-way and the script has not seen the token of its cookie.  A
\* script that may not read the cookie is refused as well while it was told no token:
\* after a login of COOKIES_ONLY, and after a logout, which leaves the cookie.
CsrfExplained == \A p \in Calls :
    call[p].step = "sent" /\ ~CsrfAllows(p) =>
        \/ call[p].cookies.access = 0 \/ fate.halved
        \/ /\ ~config.reads /\ call[p].header = 0
           /\ config.mode = "COOKIES_ONLY" \/ fate.left # {}
=============================================================================
