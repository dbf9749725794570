--------------------------- MODULE SingpassProxy ---------------------------
(***************************************************************************)
(* The Singpass proxy of a process: GetSingpassProxy, newSingpassProxy,    *)
(* GetAccessToken and GetUserInfo (server/proxy/singpass_proxy.go,         *)
(* singpass_userinfo.go, singpass_signing.go), built lazily by the first   *)
(* call of GetKYCService (server/service/kyc_service.go).                  *)
(*                                                                         *)
(* A caller is one login or callback.  The first one runs the function of  *)
(* the sync.Once, which fetches the key set of Singpass and then loads the *)
(* service's own keys; the others wait for it.  Either part may fail, is   *)
(* only logged, and is never tried again by this process.                  *)
(***************************************************************************)
EXTENDS Naturals

CONSTANTS
    Callers,        \* logins and callbacks that may run at the same time
    Logins,         \* those of them that only start a login
    SingpassKeys,   \* the keys Singpass signs user infos with
    None            \* no key

ASSUME LoginsAssumption == Logins \subseteq Callers
ASSUME NoneIsNoKey == None \notin SingpassKeys

VARIABLES
    once,       \* the sync.Once: "new", "running" or "done"
    proxy,      \* singpassProxyInstance: [signing, encryption, asp]
    aspKey,     \* the key Singpass signs with and serves now
    calls,      \* per caller: [pc, proxy, result]
    trouble     \* history: since the process started, a fetch or a load has
                \* failed or Singpass has changed its key

vars == <<once, proxy, aspKey, calls, trouble>>

CallerPCs == {"idle", "waiting", "jwks", "clientKeys", "return", "token", "userInfo"}
Results == {"none", "failed", "noClientKeys", "unreadable", "plain", "verified"}

Proxy == [signing : BOOLEAN, encryption : BOOLEAN, asp : SingpassKeys \cup {None}]
WithKeys(sig, enc, key) == [signing |-> sig, encryption |-> enc, asp |-> key]
NoProxy == WithKeys(FALSE, FALSE, None)

\* result is what the last call of the caller came to.
Call(pc, p, result) == [pc |-> pc, proxy |-> p, result |-> result]

Init ==
    /\ once = "new"
    /\ proxy = NoProxy
    /\ aspKey \in SingpassKeys
    /\ calls = [c \in Callers |-> Call("idle", NoProxy, "none")]
    /\ trouble = FALSE

At(c, pc) == calls[c].pc = pc
Becomes(c, to) == calls' = [calls EXCEPT ![c] = to]
Ends(c, result) == Becomes(c, Call("idle", NoProxy, result))

-----------------------------------------------------------------------------
(* GetSingpassProxy and newSingpassProxy. *)

\* Mutants: every caller that finds no instance builds one; an instance that is
\* being built is taken for built.
GetSingpassProxyUnsynchronised(c) ==
    /\ At(c, "idle")
    /\ IF once # "done"
       THEN once' = "running" /\ Becomes(c, Call("jwks", NoProxy, "none"))
       ELSE once' = once /\ Becomes(c, Call("waiting", NoProxy, "none"))
    /\ UNCHANGED <<proxy, aspKey, trouble>>

GetSingpassProxyUnguarded(c) ==
    /\ At(c, "idle")
    /\ IF once = "new"
       THEN once' = "running" /\ Becomes(c, Call("jwks", NoProxy, "none"))
       ELSE once' = once /\ Becomes(c, Call("return", proxy, "none"))
    /\ UNCHANGED <<proxy, aspKey, trouble>>

\* The first caller runs the function; Do makes the others wait until it returns.
GetSingpassProxy(c) ==
    /\ At(c, "idle")
    /\ IF once = "new"
       THEN once' = "running" /\ Becomes(c, Call("jwks", NoProxy, "none"))
       ELSE once' = once /\ Becomes(c, Call("waiting", NoProxy, "none"))
    /\ UNCHANGED <<proxy, aspKey, trouble>>

\* Mutant: a caller that waits goes on when the proxy is usable.
ProceedWhenUsable(c) ==
    /\ At(c, "waiting")
    /\ once = "done" /\ proxy.signing
    /\ Becomes(c, Call("return", proxy, "none"))
    /\ UNCHANGED <<once, proxy, aspKey, trouble>>

Proceed(c) ==
    /\ At(c, "waiting")
    /\ once = "done"
    /\ Becomes(c, Call("return", proxy, "none"))
    /\ UNCHANGED <<once, proxy, aspKey, trouble>>

\* Mutant: the key set is not kept.
FetchJWKSDropped(c) ==
    /\ At(c, "jwks")
    /\ Becomes(c, Call("clientKeys", WithKeys(FALSE, FALSE, None), "none"))
    /\ UNCHANGED <<once, proxy, aspKey, trouble>>

FetchJWKS(c) ==
    /\ At(c, "jwks")
    /\ Becomes(c, Call("clientKeys", WithKeys(FALSE, FALSE, aspKey), "none"))
    /\ UNCHANGED <<once, proxy, aspKey, trouble>>

FetchJWKSFails(c) ==
    /\ At(c, "jwks")
    /\ Becomes(c, Call("clientKeys", NoProxy, "none"))
    /\ trouble' = TRUE
    /\ UNCHANGED <<once, proxy, aspKey>>

Built(c, p) ==
    /\ proxy' = p
    /\ once' = "done"
    /\ Becomes(c, Call("return", p, "none"))

\* Mutant: the signing key is kept when there is no encryption key.
LoadClientKeysHalf(c) ==
    /\ At(c, "clientKeys")
    /\ \E sig, enc \in BOOLEAN :
         /\ Built(c, WithKeys(sig, sig /\ enc, calls[c].proxy.asp))
         /\ trouble' = (trouble \/ ~(sig /\ enc))
    /\ UNCHANGED aspKey

\* sig and enc: what the key set holds, neither when it cannot be fetched.  When
\* one of the two keys is missing, both stay nil.
LoadClientKeys(c) ==
    /\ At(c, "clientKeys")
    /\ \E sig, enc \in BOOLEAN :
         /\ Built(c, WithKeys(sig /\ enc, sig /\ enc, calls[c].proxy.asp))
         /\ trouble' = (trouble \/ ~(sig /\ enc))
    /\ UNCHANGED aspKey

\* GetKYCService has returned: a login needs nothing more of the proxy.
Return(c) ==
    /\ At(c, "return")
    /\ IF c \in Logins THEN Ends(c, "none")
                       ELSE Becomes(c, [calls[c] EXCEPT !.pc = "token"])
    /\ UNCHANGED <<once, proxy, aspKey, trouble>>

-----------------------------------------------------------------------------
(* GetAccessToken and GetUserInfo.                                         *)

GetAccessToken(c) ==
    /\ At(c, "token")
    /\ IF calls[c].proxy.signing
       THEN Becomes(c, [calls[c] EXCEPT !.pc = "userInfo"])
       ELSE Ends(c, "noClientKeys")
    /\ UNCHANGED <<once, proxy, aspKey, trouble>>

\* parseUserInfoResponse: an object is taken as it is.
GetPlainUserInfo(c) ==
    /\ At(c, "userInfo")
    /\ Ends(c, "plain")
    /\ UNCHANGED <<once, proxy, aspKey, trouble>>

\* decryptUserInfo: anything else is decrypted with the service's key and
\* verified with the key set as it was when the proxy was built.
GetSignedUserInfo(c) ==
    /\ At(c, "userInfo")
    /\ Ends(c, IF calls[c].proxy.encryption /\ calls[c].proxy.asp = aspKey
               THEN "verified" ELSE "unreadable")
    /\ UNCHANGED <<once, proxy, aspKey, trouble>>

\* Singpass answers an error, a body that is not what it should be, or nothing;
\* or the client id or the issuer is not configured.
SingpassFails(c) ==
    /\ calls[c].pc \in {"token", "userInfo"}
    /\ Ends(c, "failed")
    /\ UNCHANGED <<once, proxy, aspKey, trouble>>

-----------------------------------------------------------------------------

RotateSingpassKey(k) ==
    /\ k # aspKey
    /\ aspKey' = k
    /\ trouble' = TRUE
    /\ UNCHANGED <<once, proxy, calls>>

\* A new process: no proxy, nothing in flight.
Restart ==
    /\ once # "new"
    /\ once' = "new"
    /\ proxy' = NoProxy
    /\ calls' = [c \in Callers |-> Call("idle", NoProxy, "none")]
    /\ trouble' = FALSE
    /\ UNCHANGED aspKey

CallerStep(c) ==
    \/ Proceed(c)
    \/ FetchJWKS(c) \/ FetchJWKSFails(c)
    \/ LoadClientKeys(c) \/ Return(c) \/ GetAccessToken(c)
    \/ GetPlainUserInfo(c) \/ GetSignedUserInfo(c) \/ SingpassFails(c)

Next ==
    \/ \E c \in Callers : GetSingpassProxy(c) \/ CallerStep(c)
    \/ \E k \in SingpassKeys : RotateSingpassKey(k)
    \/ Restart

Spec == Init /\ [][Next]_vars

\* Fairness: a caller that runs is scheduled until it ends; the HTTP client
\* gives up on a call after its timeout, so that every call ends somehow.
FairSpec == Spec /\ \A c \in Callers : WF_vars(CallerStep(c))

-----------------------------------------------------------------------------
(* Properties.                                                             *)

Served(c) == calls[c].pc \in {"return", "token", "userInfo"}

\* The shape of the state; one caller at most is building.
TypeOK ==
    /\ once \in {"new", "running", "done"}
    /\ proxy \in Proxy
    /\ aspKey \in SingpassKeys
    /\ calls \in [Callers -> [pc : CallerPCs, proxy : Proxy, result : Results]]
    /\ trouble \in BOOLEAN
    /\ \A b, c \in Callers :
         {calls[b].pc, calls[c].pc} \subseteq {"jwks", "clientKeys"} => b = c

\* No caller ever goes on with a proxy that is not built, or with another one
\* than the rest of its process: not the callers that arrive during the build,
\* nor those it wakes.
OneProxyPerProcess ==
    \A c \in Callers : Served(c) => once = "done" /\ calls[c].proxy = proxy

\* An access token is only asked for when the service could decrypt what it is
\* good for: its two keys are loaded together or not at all.  The user info it
\* brings is only unreadable when something went wrong in the life of this
\* process: a fetch or a load failed, or Singpass changed its key.
TokenReadable ==
    \A c \in Callers :
        /\ At(c, "userInfo") => calls[c].proxy.encryption
        /\ calls[c].result = "unreadable" => trouble

\* Nobody waits for ever on the build: whatever fails in it, every login and
\* callback ends.
EveryCallEnds == \A c \in Callers : ~At(c, "idle") ~> At(c, "idle")

=============================================================================
