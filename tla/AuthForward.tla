---------------------------- MODULE AuthForward ----------------------------
(***************************************************************************)
(* ForwardAuth beside registration: AuthForward                            *)
(* (server/http/api/auth_forward.go) and Authenticator                     *)
(* (server/auth/authenticator.go, jwks.go) resolve a Clerk token to an     *)
(* internal user through the mapping cache and table that CreateUser       *)
(* writes, so this module composes both on the shared stores.              *)
(*                                                                         *)
(* A forward is one in-flight request.  A token whose form or claims are   *)
(* refused is answered before any call is made and changes nothing; it is  *)
(* left out.  Every answer is 200: a forward that identifies its caller    *)
(* sets the headers, any other one does not.                               *)
(***************************************************************************)
EXTENDS UserRegistration

CONSTANTS
    Forwards,   \* forward requests that may run at the same time
    Keys,       \* the signing keys of Clerk
    Tokens      \* bearer tokens whose form and claims are accepted

\* genuine: the key kid signed it.
Token == [clerk : Clerks, kid : Keys, genuine : BOOLEAN]

ASSUME TokensAssumption == Tokens \subseteq Token

VARIABLES
    published,    \* the keys the JWKS URL serves now
    fwd,          \* per forward: [pc, token, row, since, bound]
    identified    \* history: the headers set so far, a set of [clerk, uid]

forwardVars == <<published, fwd, identified>>
allVars == <<vars, forwardVars>>

ForwardPCs == {"idle", "keys", "mapCache", "byClerk", "fill"}

Bound(c) == \E r \in mappings : r.clerk = c

\* row is the mapping read.  History: since, the keys served at some moment since
\* the request arrived, and bound, whether its subject had a mapping then.
Forwarding(pc, t, row, since, bound) ==
    [pc |-> pc, token |-> t, row |-> row, since |-> since, bound |-> bound]
IdleForward == Forwarding("idle", None, None, {}, FALSE)

ForwardInit ==
    /\ Init
    /\ \E k \in Keys : published = {k}
    /\ fwd = [f \in Forwards |-> IdleForward]
    /\ identified = {}

Proceeds(f, pc, row) ==
    /\ fwd' = [fwd EXCEPT ![f] = Forwarding(pc, @.token, row, @.since, @.bound)]
    /\ UNCHANGED <<published, identified>>

Anonymous(f) ==
    /\ fwd' = [fwd EXCEPT ![f] = IdleForward]
    /\ UNCHANGED <<published, identified>>

Identify(f, row) ==
    /\ fwd' = [fwd EXCEPT ![f] = IdleForward]
    /\ identified' = identified \cup {[clerk |-> fwd[f].token.clerk, uid |-> row.uid]}
    /\ UNCHANGED published

-----------------------------------------------------------------------------
(* AuthForward and verifyToken.  NewAuthenticator gives every request an   *)
(* empty key cache, so that publicKey always fetches.                      *)

StartForward(f, t) ==
    /\ fwd[f].pc = "idle"
    /\ fwd' = [fwd EXCEPT ![f] =
                 Forwarding("keys", t, None, published, Bound(t.clerk))]
    /\ UNCHANGED <<vars, published, identified>>

\* Mutant: the authenticator, and with it the key cache, is shared by requests.
FetchKeysShared(f) ==
    LET t == fwd[f].token
        cached == {fwd[g].token.kid :
                     g \in {x \in Forwards : fwd[x].pc \in {"mapCache", "byClerk", "fill"}}}
    IN  /\ fwd[f].pc = "keys"
        /\ IF t.kid \in published \cup cached /\ t.genuine
           THEN Proceeds(f, "mapCache", None)
           ELSE Anonymous(f)
        /\ UNCHANGED vars

FetchKeys(f) ==
    LET t == fwd[f].token
    IN  /\ fwd[f].pc = "keys"
        /\ IF t.kid \in published /\ t.genuine
           THEN Proceeds(f, "mapCache", None)
           ELSE Anonymous(f)
        /\ UNCHANGED vars

FetchKeysFails(f) ==
    /\ fwd[f].pc = "keys"
    /\ Anonymous(f)
    /\ UNCHANGED vars

-----------------------------------------------------------------------------
(* Authenticate: GetByClerkUserID, as in CreateUser.                       *)

ForwardHit(f) ==
    /\ fwd[f].pc = "mapCache"
    /\ \E r \in mapCache : r.clerk = fwd[f].token.clerk /\ Identify(f, r)
    /\ UNCHANGED vars

\* Mutant: a subject that is not cached is taken for unknown.
ForwardMissIsUnknown(f) ==
    /\ fwd[f].pc = "mapCache"
    /\ Anonymous(f)
    /\ UNCHANGED vars

ForwardMiss(f) ==
    /\ fwd[f].pc = "mapCache"
    /\ Proceeds(f, "byClerk", None)
    /\ UNCHANGED vars

\* Mutant: the row found is not handed to the cache.
ForwardFoundForgets(f) ==
    /\ fwd[f].pc = "byClerk"
    /\ \E r \in mappings : r.clerk = fwd[f].token.clerk /\ Proceeds(f, "fill", None)
    /\ UNCHANGED vars

ForwardFound(f) ==
    /\ fwd[f].pc = "byClerk"
    /\ \E r \in mappings : r.clerk = fwd[f].token.clerk /\ Proceeds(f, "fill", r)
    /\ UNCHANGED vars

ForwardUnknown(f) ==
    /\ fwd[f].pc = "byClerk"
    /\ ~Bound(fwd[f].token.clerk)
    /\ Anonymous(f)
    /\ UNCHANGED vars

ForwardFill(f) ==
    /\ fwd[f].pc = "fill"
    /\ SetMappingCache(fwd[f].row)
    /\ Identify(f, fwd[f].row)
    /\ UNCHANGED <<dbVars, profileCache, topicVars, faults, regVars>>

ForwardReadFails(f) ==
    /\ fwd[f].pc = "byClerk"
    /\ Fault
    /\ Anonymous(f)
    /\ UNCHANGED <<dbVars, mapCache, profileCache, topicVars, regVars>>

-----------------------------------------------------------------------------
(* Clerk, and the process.                                                 *)

RotateKeys(S) ==
    /\ S # published
    /\ published' = S
    /\ fwd' = [f \in Forwards |->
                 IF fwd[f].pc = "idle" THEN fwd[f]
                 ELSE [fwd[f] EXCEPT !.since = @ \cup S]]
    /\ UNCHANGED <<vars, identified>>

RestartAll ==
    /\ \/ \E h \in Handlers : ~At(h, "idle")
       \/ \E f \in Forwards : fwd[f].pc # "idle"
    /\ Fault
    /\ reg' = [h \in Handlers |-> Idle]
    /\ fwd' = [f \in Forwards |-> IdleForward]
    /\ UNCHANGED <<dbVars, mapCache, profileCache, topicVars, answers,
                   published, identified>>

-----------------------------------------------------------------------------

ForwardStep(f) ==
    \/ FetchKeys(f) \/ FetchKeysFails(f)
    \/ ForwardHit(f) \/ ForwardMiss(f)
    \/ ForwardFound(f) \/ ForwardUnknown(f) \/ ForwardFill(f)
    \/ ForwardReadFails(f)

RegistrationStep ==
    \/ \E h \in Handlers : Step(h) \/ Failure(h)
    \/ \E h \in Handlers, m \in Messages : Receive(h, m)
    \/ Expire

ForwardNext ==
    \/ RegistrationStep /\ UNCHANGED forwardVars
    \/ \E f \in Forwards : ForwardStep(f)
    \/ \E f \in Forwards, t \in Tokens : StartForward(f, t)
    \/ \E S \in SUBSET Keys \ {{}} : RotateKeys(S)
    \/ RestartAll

ForwardSpec == ForwardInit /\ [][ForwardNext]_allVars

-----------------------------------------------------------------------------
(* Properties.                                                             *)

Verified(f) == fwd[f].pc \in {"mapCache", "byClerk", "fill"}

\* The shape of the state this module adds.
ForwardTypeOK ==
    /\ published \subseteq Keys
    /\ fwd \in [Forwards -> [pc : ForwardPCs, token : Tokens \cup {None},
                            row : MappingRow \cup {None}, since : SUBSET Keys,
                            bound : BOOLEAN]]
    /\ \A f \in Forwards :
         /\ fwd[f].pc # "idle" => fwd[f].token \in Tokens
         /\ fwd[f].pc = "fill" => fwd[f].row \in MappingRow
    /\ identified \subseteq [clerk : Clerks, uid : UserId]

\* A token is only taken for genuine with a key that Clerk served while the
\* request ran: no request trusts a key another request fetched, so that a key
\* that was withdrawn before a request arrived is of no use to it.
VerifiedKeysCurrent ==
    \A f \in Forwards : Verified(f) =>
        fwd[f].token.genuine /\ fwd[f].token.kid \in fwd[f].since

\* The headers set for a Clerk subject name the one user it is bound to, whether
\* they came from the cache or the table, before, during or after the
\* registration of the subject, and whether or not that registration failed.
IdentifiedIsBound ==
    \A i \in identified : \E r \in mappings : r.clerk = i.clerk /\ r.uid = i.uid

\* A subject bound before its verified request arrived is never taken for
\* unknown: once it is verified only a fault ends the request without headers.
BoundIsIdentified ==
    [][\A f \in Forwards :
         Verified(f) /\ fwd[f].bound /\ fwd'[f].pc = "idle" /\ faults' = faults =>
           \E i \in identified' : i.clerk = fwd[f].token.clerk]_allVars

=============================================================================
