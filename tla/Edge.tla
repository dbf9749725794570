-------------------------------- MODULE Edge --------------------------------
(***************************************************************************)
(* The edge of the process: the middleware chains of server/http/router    *)
(* and the handlers of server/http/api they end in, and GetUserProfile of  *)
(* server/grpc behind its interceptor.  SayHello, the other unary method,  *)
(* calls no service and answers a greeting; it is left out.                *)
(*                                                                         *)
(* A chain is run as gin runs it: a middleware that calls Next stays on    *)
(* the stack and goes on when the rest returns, one that returns without   *)
(* Next lets the chain go on unless it aborted, and a panic unwinds the    *)
(* stack.  Requests share nothing here, so that one at a time is enough;   *)
(* what the services do is the subject of the other modules, and only what *)
(* they return is here.                                                    *)
(***************************************************************************)
EXTENDS Naturals, Sequences

CONSTANTS
    UserIds,    \* the positive ids a caller may carry
    None        \* no user

VARIABLES
    req,        \* the request: [route, origin, uid, role, has], or None
    phase,      \* "idle", "chain", "panic", "done" or "crashed"
    index,      \* the next function of the chain
    frames,     \* the middlewares that wait for Next, innermost last
    aborted,    \* whether the chain was aborted
    caller,     \* the user in the request's context
    resp,       \* [status, answers, id, identity]: answers counts what was written
    result,     \* what the service returned, and for whom it was called
    lines       \* the access, audit and panic lines logged

vars == <<req, phase, index, frames, aborted, caller, resp, result, lines>>

Roles == {"user", "admin"}
User == [uid : UserIds, role : Roles]

ASSUME NoneAssumption == None \notin UserIds /\ None \notin User

Origins == {"none", "allowed", "preflight", "refused"}
Results == {"none", "ok", "absent", "refused", "failed"}

\* What may hold of a request, or of the deployment it meets, by route.
Facets == [
    ping        |-> {},
    clerk       |-> {"svixHeaders", "body", "secret", "signed", "json", "created", "data"},
    callback    |-> {"noIdpError", "code", "state", "redirect"},
    getProfile  |-> {},
    putProfile  |-> {"json"},
    login       |-> {},
    currentUser |-> {},
    forward     |-> {"internal", "bearer"},
    unknown     |-> {},
    rpc         |-> {"positive"}]
Routes == DOMAIN Facets

Web == {"getProfile", "putProfile", "login"}
Guarded == Web \cup {"currentUser"}
Business == Guarded \cup {"clerk", "callback", "forward"}

\* A gRPC call has no origin, and only what reads a header is given one.
Requests ==
    UNION {[route : {r},
            origin : IF r = "rpc" THEN {"none"} ELSE Origins,
            uid : IF r \in Guarded THEN UserIds \cup {"invalid", None} ELSE {None},
            role : IF r \in Guarded THEN Roles \cup {None} ELSE {None},
            has : SUBSET Facets[r]] : r \in Routes}

-----------------------------------------------------------------------------
(* NewRouter.                                                              *)

\* Mutant: the request id is given after the origin was checked.
CorsFirst == <<"recovery", "otel", "cors", "responseId">>

Global == <<"recovery", "otel", "responseId", "cors">>

\* Mutant: the web routes only authenticate.
WebAnyRole == <<"requireAny">>

WebGroup == <<"requireUser">>

\* Mutant: callers are authenticated before the audit.
AdminAuditInside == <<"requireAny", "audit">>

AdminGroup == <<"audit", "requireAny">>

\* Mutant: the handler comes before the network is looked at.
ForwardOpen == <<"access", "handler", "internalNetwork">>

ForwardRoute == <<"access", "internalNetwork", "handler">>

\* What a route adds to the global middlewares.
RouteChain(r) ==
    CASE r \in {"ping", "rpc"} -> <<"handler">>
      [] r = "unknown"         -> <<>>
      [] r \in Web             -> <<"access">> \o WebGroup \o <<"handler">>
      [] r = "currentUser"     -> <<"access">> \o AdminGroup \o <<"handler">>
      [] r = "forward"         -> ForwardRoute
      [] OTHER                 -> <<"access", "handler">>

Chain == IF req.route = "rpc" THEN <<"rpcLog">> \o RouteChain("rpc")
                              ELSE Global \o RouteChain(req.route)

Has(facet) == facet \in req.has
Headers == [uid |-> req.uid, role |-> req.role]

-----------------------------------------------------------------------------
(* gin.                                                                    *)

Fresh(status) == [status |-> status, answers |-> 0, id |-> FALSE, identity |-> None]
Nothing == [is |-> "none", caller |-> None]

Init ==
    /\ req = None /\ phase = "idle"
    /\ index = 1 /\ frames = <<>> /\ aborted = FALSE
    /\ caller = None /\ resp = Fresh(200) /\ result = Nothing /\ lines = <<>>

Arrive(q) ==
    /\ phase = "idle"
    /\ req' = q
    /\ phase' = "chain"
    /\ resp' = Fresh(IF q.route = "unknown" THEN 404 ELSE 200)
    /\ UNCHANGED <<index, frames, aborted, caller, result, lines>>

Leave ==
    /\ phase \in {"done", "crashed"}
    /\ req' = None /\ phase' = "idle"
    /\ index' = 1 /\ frames' = <<>> /\ aborted' = FALSE
    /\ caller' = None /\ resp' = Fresh(200) /\ result' = Nothing /\ lines' = <<>>

Goes == phase = "chain" /\ ~aborted /\ index <= Len(Chain)
Entering(mw) == Goes /\ Chain[index] = mw

\* Next, and a return without Next.
Next_(mw) ==
    /\ index' = index + 1
    /\ frames' = Append(frames, mw)
    /\ UNCHANGED <<req, phase, aborted>>
Returns ==
    /\ index' = index + 1
    /\ UNCHANGED <<req, phase, frames, aborted>>

Written(code) == [resp EXCEPT !.status = code, !.answers = @ + 1]
AbortWith(code) ==
    /\ aborted' = TRUE
    /\ resp' = Written(code)
    /\ UNCHANGED <<req, phase, index, frames, caller, result, lines>>

\* The innermost middleware whose Next returned, and what it does then.
Top == frames[Len(frames)]
Back(mw) ==
    /\ phase = "chain" /\ ~Goes
    /\ frames # <<>> /\ Top = mw
    /\ frames' = SubSeq(frames, 1, Len(frames) - 1)
    /\ UNCHANGED <<req, phase, index, aborted, resp, result>>

Answered ==
    /\ phase = "chain" /\ ~Goes
    /\ frames = <<>>
    /\ phase' = "done"
    /\ UNCHANGED <<req, index, frames, aborted, caller, resp, result, lines>>

-----------------------------------------------------------------------------
(* The middlewares.                                                        *)

Enters ==
    \E mw \in {"recovery", "otel", "access", "audit", "rpcLog"} :
        /\ Entering(mw)
        /\ Next_(mw)
        /\ UNCHANGED <<caller, resp, result, lines>>

HTTPResponseIDMiddleware ==
    /\ Entering("responseId")
    /\ Next_("responseId")
    /\ resp' = [resp EXCEPT !.id = TRUE]
    /\ UNCHANGED <<caller, result, lines>>

Cors ==
    /\ Entering("cors")
    /\ \/ req.origin \in {"none", "allowed"}
          /\ Returns /\ UNCHANGED <<caller, resp, result, lines>>
       \/ req.origin = "preflight" /\ AbortWith(204)
       \/ req.origin = "refused" /\ AbortWith(403)

\* Mutant: the headers are taken as they are.
HeadersUnchecked == IF req.uid # None /\ req.role # None THEN Headers ELSE None

UserFromHeaders == IF Headers \in User THEN Headers ELSE None

\* An empty list of roles allows any.
Allowed(roles) == roles = {} \/ req.role \in roles

\* Mutant: the refusal is written and the chain not aborted.
RequireRoleWrites(mw, roles) ==
    /\ Entering(mw)
    /\ IF UserFromHeaders = None \/ ~Allowed(roles)
       THEN /\ resp' = Written(IF UserFromHeaders = None THEN 401 ELSE 403)
            /\ Returns
            /\ UNCHANGED <<caller, result, lines>>
       ELSE /\ caller' = UserFromHeaders
            /\ Next_(mw)
            /\ UNCHANGED <<resp, result, lines>>

RequireRole(mw, roles) ==
    /\ Entering(mw)
    /\ \/ UserFromHeaders = None /\ AbortWith(401)
       \/ UserFromHeaders # None /\ ~Allowed(roles) /\ AbortWith(403)
       \/ /\ UserFromHeaders # None /\ Allowed(roles)
          /\ caller' = UserFromHeaders
          /\ Next_(mw)
          /\ UNCHANGED <<resp, result, lines>>

RequireInternalNetwork ==
    /\ Entering("internalNetwork")
    /\ \/ /\ Has("internal")
          /\ Next_("internalNetwork")
          /\ UNCHANGED <<caller, resp, result, lines>>
       \/ ~Has("internal") /\ AbortWith(403)

Line(kind, user) == [kind |-> kind, status |-> resp.status, user |-> user]

AccessLog ==
    /\ Back("access")
    /\ lines' = Append(lines, Line("access", None))
    /\ UNCHANGED caller

\* The user of the context, or else what the headers claim.
AuditLog ==
    /\ Back("audit")
    /\ lines' = Append(lines, Line("audit", IF caller # None THEN caller
                                                            ELSE UserFromHeaders))
    /\ UNCHANGED caller

\* otelgin puts the context back that it found; the others do nothing.
OtherBack ==
    \E mw \in {"recovery", "otel", "responseId", "requireUser", "requireAny",
               "internalNetwork", "rpcLog"} :
        /\ Back(mw)
        /\ caller' = IF mw = "otel" THEN None ELSE caller
        /\ UNCHANGED lines

-----------------------------------------------------------------------------
(* The handlers.                                                           *)

Handling(routes) == Entering("handler") /\ req.route \in routes

Says(code) ==
    /\ Returns
    /\ resp' = Written(code)
    /\ UNCHANGED <<caller, result, lines>>

\* The service is called for a user, if the handler knows one, and returns is.
Calls(is, code) ==
    /\ Returns
    /\ result' = [is |-> is, caller |-> caller]
    /\ resp' = Written(code)
    /\ UNCHANGED <<caller, lines>>

\* The first of the checks that does not hold, and all of them.
FailsAt(checks, what) ==
    \E i \in DOMAIN checks :
        checks[i] = what /\ ~Has(what) /\ \A j \in 1..(i - 1) : Has(checks[j])
Holds(checks) == \A i \in DOMAIN checks : Has(checks[i])

Ping == Handling({"ping"}) /\ Says(200)

\* Mutant: the payload is read without its signature.
ClerkChecksUnsigned == <<"svixHeaders", "body", "secret", "json", "created", "data">>

ClerkChecks == <<"svixHeaders", "body", "secret", "signed", "json", "created", "data">>

ClerkCallback ==
    /\ Handling({"clerk"})
    /\ \/ \E c \in {"svixHeaders", "body", "signed", "json", "data"} :
            FailsAt(ClerkChecks, c) /\ Says(400)
       \/ FailsAt(ClerkChecks, "body") /\ Says(413)
       \/ FailsAt(ClerkChecks, "secret") /\ Says(500)
       \/ FailsAt(ClerkChecks, "created") /\ Says(200)
       \/ Holds(ClerkChecks) /\ (Calls("ok", 200) \/ Calls("failed", 500))

CallbackChecks == <<"noIdpError", "code", "state">>

SingpassCallback ==
    /\ Handling({"callback"})
    /\ \/ \E c \in {"noIdpError", "code", "state"} : FailsAt(CallbackChecks, c) /\ Says(400)
       \/ /\ Holds(CallbackChecks)
          /\ \/ Calls("ok", IF Has("redirect") THEN 302 ELSE 200)
             \/ Calls("absent", 400)
             \/ Calls("refused", 403)
             \/ Calls("failed", 500)

\* Mutant: no row is an empty profile.
GetProfileOrEmpty ==
    /\ Handling({"getProfile", "currentUser"})
    /\ Calls("ok", 200) \/ Calls("absent", 200) \/ Calls("failed", 500)

\* UserGetProfile and AdminGetCurrentUser.
GetProfile ==
    /\ Handling({"getProfile", "currentUser"})
    /\ IF caller = None THEN Says(401)
       ELSE Calls("ok", 200) \/ Calls("absent", 404) \/ Calls("failed", 500)

UserUpdateProfile ==
    /\ Handling({"putProfile"})
    /\ IF caller = None THEN Says(401)
       ELSE IF ~Has("json") THEN Says(400)
       ELSE \/ Calls("ok", 200) \/ Calls("absent", 404)
            \/ Calls("refused", 400) \/ Calls("failed", 500)

SingpassLogin ==
    /\ Handling({"login"})
    /\ IF caller = None THEN Says(401)
       ELSE Calls("ok", 200) \/ Calls("failed", 500)

\* What Authenticate makes of a bearer: its user, or none, because the token is not
\* valid, is bound to nobody, or the keys or the binding could not be read.
Authenticated ==
    {[is |-> "ok", caller |-> u] : u \in User} \cup
    {[is |-> is, caller |-> None] : is \in {"refused", "absent", "failed"}}

\* Mutant: a failure of this side is answered as one.
AuthForwardFails ==
    /\ Handling({"forward"})
    /\ Returns
    /\ \/ ~Has("bearer") /\ UNCHANGED <<result, resp>>
       \/ /\ Has("bearer")
          /\ \E to \in Authenticated :
                /\ result' = to
                /\ resp' = IF to.is = "failed" THEN Written(500)
                                               ELSE [resp EXCEPT !.identity = to.caller]
    /\ UNCHANGED <<caller, lines>>

\* Always 200 and no body; the headers only when the caller is authenticated.
AuthForward ==
    /\ Handling({"forward"})
    /\ Returns
    /\ \/ ~Has("bearer") /\ UNCHANGED <<result, resp>>
       \/ /\ Has("bearer")
          /\ \E to \in Authenticated :
                /\ result' = to
                /\ resp' = [resp EXCEPT !.identity = to.caller]
    /\ UNCHANGED <<caller, lines>>

\* GetUserProfile (gRPC): no error, and the ErrorCode in BaseInfo.
GetUserProfile ==
    /\ Handling({"rpc"})
    /\ \/ ~Has("positive") /\ Calls("refused", 3)
       \/ Has("positive") /\ (Calls("ok", 1) \/ Calls("absent", 2) \/ Calls("failed", 4))

\* A handler, or what it calls, panics before it answered.
Panics ==
    /\ Entering("handler")
    /\ phase' = "panic"
    /\ UNCHANGED <<req, index, frames, aborted, caller, resp, result, lines>>

\* Mutant: the access line is deferred.
UnwindLogs ==
    /\ phase = "panic" /\ frames # <<>> /\ Top # "recovery"
    /\ frames' = SubSeq(frames, 1, Len(frames) - 1)
    /\ lines' = IF Top = "access" THEN Append(lines, Line("access", None)) ELSE lines
    /\ caller' = IF Top = "otel" THEN None ELSE caller
    /\ UNCHANGED <<req, phase, index, aborted, resp, result>>

\* otelgin puts the context back as it is unwound; nothing else runs but recover.
Unwind ==
    /\ phase = "panic" /\ frames # <<>> /\ Top # "recovery"
    /\ frames' = SubSeq(frames, 1, Len(frames) - 1)
    /\ caller' = IF Top = "otel" THEN None ELSE caller
    /\ UNCHANGED <<req, phase, index, aborted, resp, result, lines>>

\* The line is written first, with the status as it was.
RecoveryMiddleware ==
    /\ phase = "panic" /\ frames # <<>> /\ Top = "recovery"
    /\ phase' = "chain" /\ frames' = <<>>
    /\ aborted' = TRUE
    /\ lines' = Append(lines, Line("panic", None))
    /\ resp' = Written(500)
    /\ UNCHANGED <<req, index, caller, result>>

\* Nothing recovers for a gRPC method: the process ends.
Crash ==
    /\ phase = "panic" /\ frames = <<>>
    /\ phase' = "crashed"
    /\ UNCHANGED <<req, index, frames, aborted, caller, resp, result, lines>>

-----------------------------------------------------------------------------

Middleware ==
    \/ Enters \/ HTTPResponseIDMiddleware \/ Cors
    \/ RequireRole("requireUser", {"user"}) \/ RequireRole("requireAny", {})
    \/ RequireInternalNetwork
    \/ AccessLog \/ AuditLog \/ OtherBack
    \/ RecoveryMiddleware \/ Unwind

Handler ==
    \/ Ping \/ ClerkCallback \/ SingpassCallback \/ GetProfile
    \/ UserUpdateProfile \/ SingpassLogin \/ AuthForward \/ GetUserProfile

Next ==
    \/ \E q \in Requests : Arrive(q)
    \/ Middleware \/ Handler \/ Panics \/ Answered \/ Crash
    \/ Leave

Spec == Init /\ [][Next]_vars

-----------------------------------------------------------------------------
(* Properties.                                                             *)

Done == phase = "done"
Panicked == \E i \in DOMAIN lines : lines[i].kind = "panic"
Logged(kinds) == {i \in DOMAIN lines : lines[i].kind \in kinds}
PastCors == req.origin \in {"none", "allowed"}

\* The shape of the state.
TypeOK ==
    /\ req \in Requests \cup {None}
    /\ phase \in {"idle", "chain", "panic", "done", "crashed"}
    /\ aborted \in BOOLEAN
    /\ caller \in User \cup {None}
    /\ resp.answers \in Nat /\ resp.id \in BOOLEAN
    /\ resp.identity \in User \cup {None}
    /\ result \in [is : Results, caller : User \cup {None}]
    /\ Len(lines) <= 2

\* A request is answered once at most, an HTTP one under its request id, and one
\* that gets past CORS to a business route leaves one closing line, whether it was
\* answered by its handler, refused by a middleware of the route or panicked; an
\* access line has the status that was answered.  What CORS answers itself leaves
\* none, and ping and unknown paths only when they panic.
OneAnswerOneLine ==
    /\ resp.answers <= 1
    /\ Done =>
        LET closing == Logged({"access", "panic"})
        IN  /\ req.route # "rpc" => resp.id
            /\ IF Panicked \/ (PastCors /\ req.route \in Business)
               THEN \E i \in DOMAIN lines : closing = {i}
               ELSE closing = {}
            /\ ~Panicked => \A i \in closing : lines[i].status = resp.status

\* Every request to an admin route that reached it and did not panic is audited
\* once, with the status answered and the identity its headers carry, also when
\* it is refused for want of one.
AuditedOnce ==
    Done /\ req.route = "currentUser" /\ PastCors /\ ~Panicked =>
        \E i \in DOMAIN lines :
            /\ Logged({"audit"}) = {i}
            /\ lines[i].status = resp.status /\ lines[i].user = UserFromHeaders

\* Nothing is done for anybody who was not verified, whatever was refused before:
\* on a guarded route a service acts for the user the headers name, on the web
\* routes for one with the role user; registration is asked for with a whole
\* user.created payload signed with the configured secret; a bearer is only looked
\* at for the internal network.
ActsForVerified ==
    req # None /\ result # Nothing =>
        /\ req.route \in Guarded => result.caller = UserFromHeaders
        /\ req.route \in Web => result.caller.role = "user"
        /\ req.route = "clerk" => Facets["clerk"] \subseteq req.has
        /\ req.route = "forward" => {"internal", "bearer"} \subseteq req.has

\* The status tells Clerk, Singpass or the client what became of the request, except
\* on /auth/forward.  Elsewhere 5xx is answered if and only if this side failed, and
\* on the other business routes a status below 400 only if the service did what was
\* asked, or there was nothing to do.  The internal network is answered 200 by
\* /auth/forward unless it panics, and only the identity headers say whether there is
\* a caller: one whose keys or binding could not be read is told as an unknown one.
AnswerTellsOutcome ==
    Done /\ req.route # "rpc" =>
        /\ resp.status >= 500 <=>
             \/ Panicked
             \/ result.is = "failed" /\ req.route # "forward"
             \/ /\ req.route = "clerk" /\ result = Nothing /\ PastCors
                /\ FailsAt(<<"svixHeaders", "body", "secret">>, "secret")
        /\ req.route \in Guarded \cup {"clerk", "callback"} /\ PastCors
             /\ resp.status < 400 =>
             result.is = "ok" \/ (req.route = "clerk" /\ ~Has("created"))
        /\ req.route = "forward" =>
             /\ PastCors /\ Has("internal") /\ ~Panicked => resp.status = 200
             /\ resp.identity # None <=> result.is = "ok"

=============================================================================
