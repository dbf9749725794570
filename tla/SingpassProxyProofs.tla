------------------------ MODULE SingpassProxyProofs ------------------------
(***************************************************************************)
(* What holds of SingpassProxy for any number of logins and callbacks and  *)
(* any keys.                                                               *)
(***************************************************************************)
EXTENDS SingpassProxy, TLAPS

USE DEF At, Call, WithKeys

-----------------------------------------------------------------------------
(* Type correctness, with what keeps two callers from building: who builds *)
(* has set once to running.                                                *)

Building(c) == calls[c].pc \in {"jwks", "clientKeys"}

OneBuilder == \A c \in Callers : Building(c) => once = "running"

TypeInv == TypeOK /\ OneBuilder

LEMMA NoProxyType == NoProxy \in Proxy
  BY DEF NoProxy, Proxy

LEMMA TypeInit == Init => TypeInv
  <1>. SUFFICES ASSUME Init PROVE TypeInv
    OBVIOUS
  <1>1. \A c \in Callers : calls[c].pc = "idle"
    BY DEF Init
  <1>2. calls \in [Callers -> [pc : CallerPCs, proxy : Proxy, result : Results]]
    BY NoProxyType DEF Init, CallerPCs, Results
  <1>. QED
    BY <1>1, <1>2, NoProxyType DEF Init, TypeInv, TypeOK, OneBuilder, Building

\* A caller that does not build, and does not start to, leaves the builder alone.
LEMMA TypeMoves ==
    ASSUME TypeInv, NEW c \in Callers, ~Building(c),
           NEW pc \in CallerPCs \ {"jwks", "clientKeys"}, NEW p \in Proxy,
           NEW result \in Results,
           Becomes(c, [pc |-> pc, proxy |-> p, result |-> result]),
           UNCHANGED <<once, proxy, aspKey, trouble>>
    PROVE  TypeInv'
  BY DEF Becomes, TypeInv, TypeOK, OneBuilder, Building, CallerPCs, Results

LEMMA TypeStep == TypeInv /\ [Next]_vars => TypeInv'
  <1>. SUFFICES ASSUME TypeInv, [Next]_vars PROVE TypeInv'
    OBVIOUS
  <1>0. /\ NoProxy \in Proxy
        /\ \A c \in Callers : calls[c].proxy \in Proxy /\ calls[c].result \in Results
        /\ proxy \in Proxy
    BY NoProxyType DEF TypeInv, TypeOK
  <1>1. ASSUME NEW c \in Callers, GetSingpassProxy(c) PROVE TypeInv'
    <2>1. CASE once = "new"
      <3>1. \A b \in Callers : ~Building(b)
        BY <2>1 DEF TypeInv, OneBuilder
      <3>2. calls' \in [Callers -> [pc : CallerPCs, proxy : Proxy, result : Results]]
        BY <1>0, <1>1, <2>1
        DEF Becomes, GetSingpassProxy, TypeInv, TypeOK, CallerPCs, Results
      <3>3. \A b \in Callers \ {c} : ~Building(b)'
        BY <1>1, <2>1, <3>1 DEF Becomes, GetSingpassProxy, TypeInv, TypeOK, Building
      <3>. QED
        BY <1>1, <2>1, <3>2, <3>3
        DEF Becomes, GetSingpassProxy, TypeInv, TypeOK, OneBuilder, Building
    <2>2. CASE once # "new"
      BY <1>0, <1>1, <2>2, TypeMoves
      DEF GetSingpassProxy, Building, CallerPCs, Results
    <2>. QED BY <2>1, <2>2
  <1>2. ASSUME NEW c \in Callers, Proceed(c) PROVE TypeInv'
    BY <1>0, <1>2, TypeMoves DEF Proceed, Building, CallerPCs, Results
  <1>3. ASSUME NEW c \in Callers, FetchJWKS(c) PROVE TypeInv'
    <2>1. WithKeys(FALSE, FALSE, aspKey) \in Proxy
      BY DEF Proxy, TypeInv, TypeOK
    <2>. QED
      BY <1>3, <2>1
      DEF Becomes, FetchJWKS, TypeInv, TypeOK, OneBuilder, Building, CallerPCs, Results
  <1>4. ASSUME NEW c \in Callers, FetchJWKSFails(c) PROVE TypeInv'
    BY <1>0, <1>4
    DEF Becomes, FetchJWKSFails, TypeInv, TypeOK, OneBuilder, Building, CallerPCs, Results
  <1>5. ASSUME NEW c \in Callers, LoadClientKeys(c) PROVE TypeInv'
    <2>1. PICK sig \in BOOLEAN, enc \in BOOLEAN :
            /\ Built(c, WithKeys(sig /\ enc, sig /\ enc, calls[c].proxy.asp))
            /\ trouble' = (trouble \/ ~(sig /\ enc))
      BY <1>5 DEF LoadClientKeys
    <2>2. WithKeys(sig /\ enc, sig /\ enc, calls[c].proxy.asp) \in Proxy
      BY <1>0 DEF Proxy
    <2>3. trouble' \in BOOLEAN
      BY <2>1
    <2>4. \A b \in Callers \ {c} : ~Building(b)'
      BY <1>5, <2>1 DEF Becomes, LoadClientKeys, Built, TypeInv, TypeOK, Building, CallerPCs
    <2>. QED
      BY <1>5, <2>1, <2>2, <2>3, <2>4
      DEF Becomes, LoadClientKeys, Built, TypeInv, TypeOK, OneBuilder, Building, CallerPCs, Results
  <1>6. ASSUME NEW c \in Callers, Return(c) PROVE TypeInv'
    <2>1. CASE c \in Logins
      BY <1>0, <1>6, <2>1, TypeMoves DEF Ends, Return, Building, CallerPCs, Results
    <2>2. CASE c \notin Logins
      BY <1>6, <2>2
      DEF Becomes, Return, TypeInv, TypeOK, OneBuilder, Building, CallerPCs, Results
    <2>. QED BY <2>1, <2>2
  <1>7. ASSUME NEW c \in Callers, GetAccessToken(c) PROVE TypeInv'
    <2>1. CASE calls[c].proxy.signing
      BY <1>7, <2>1
      DEF Becomes, GetAccessToken, TypeInv, TypeOK, OneBuilder, Building, CallerPCs, Results
    <2>2. CASE ~calls[c].proxy.signing
      BY <1>0, <1>7, <2>2, TypeMoves DEF Ends, GetAccessToken, Building, CallerPCs, Results
    <2>. QED BY <2>1, <2>2
  <1>8. ASSUME NEW c \in Callers,
               GetPlainUserInfo(c) \/ GetSignedUserInfo(c) \/ SingpassFails(c)
        PROVE  TypeInv'
    <2>1. CASE GetPlainUserInfo(c)
      BY <1>0, <2>1, TypeMoves DEF Ends, GetPlainUserInfo, Building, CallerPCs, Results
    <2>2. CASE GetSignedUserInfo(c)
      BY <1>0, <2>2, TypeMoves DEF Ends, GetSignedUserInfo, Building, CallerPCs, Results
    <2>3. CASE SingpassFails(c)
      BY <1>0, <2>3, TypeMoves DEF Ends, SingpassFails, Building, CallerPCs, Results
    <2>. QED BY <1>8, <2>1, <2>2, <2>3
  <1>9. ASSUME NEW k \in SingpassKeys, RotateSingpassKey(k) PROVE TypeInv'
    BY <1>9 DEF RotateSingpassKey, TypeInv, TypeOK, OneBuilder, Building
  <1>10. CASE Restart
    BY <1>0, <1>10 DEF Restart, TypeInv, TypeOK, OneBuilder, Building, CallerPCs, Results
  <1>11. CASE UNCHANGED vars
    BY <1>11 DEF vars, TypeInv, TypeOK, OneBuilder, Building
  <1>. QED
    BY <1>1, <1>2, <1>3, <1>4, <1>5, <1>6, <1>7, <1>8, <1>9, <1>10, <1>11
    DEF Next, CallerStep

\* The state is well formed, and one caller at most builds the proxy, whoever
\* calls GetSingpassProxy first and however often the process restarts.
THEOREM TypeCorrect == Spec => []TypeOK
  BY TypeInit, TypeStep, PTL DEF Spec, TypeInv

-----------------------------------------------------------------------------
(* One proxy.                                                              *)

\* The two keys of the service are there together, and, as long as nothing went
\* wrong, so is the key Singpass signs with.
ProxyWhole ==
    /\ proxy.signing = proxy.encryption
    /\ once = "done" /\ ~trouble => proxy.encryption /\ proxy.asp = aspKey
    /\ \A c \in Callers : At(c, "clientKeys") /\ ~trouble => calls[c].proxy.asp = aspKey

ProxyInv == OneProxyPerProcess /\ ProxyWhole /\ TokenReadable

LEMMA ProxyInit == Init => ProxyInv
  BY DEF Init, NoProxy, ProxyInv, OneProxyPerProcess, ProxyWhole, TokenReadable, Served

\* A served caller that goes on with the proxy it has, or any caller that ends.
LEMMA ProxyMoves ==
    ASSUME TypeInv, ProxyInv, NEW c \in Callers, NEW pc, NEW p, NEW result,
           Becomes(c, [pc |-> pc, proxy |-> p, result |-> result]),
           pc # "clientKeys",
           pc \in {"return", "token", "userInfo"} => once = "done" /\ p = proxy,
           pc = "userInfo" => p.encryption,
           result = "unreadable" => trouble,
           UNCHANGED <<once, proxy, aspKey, trouble>>
    PROVE  ProxyInv'
  BY DEF Becomes, TypeInv, TypeOK, ProxyInv, OneProxyPerProcess, ProxyWhole,
         TokenReadable, Served

LEMMA ProxyStep == TypeInv /\ ProxyInv /\ [Next]_vars => ProxyInv'
  <1>. SUFFICES ASSUME TypeInv, ProxyInv, [Next]_vars PROVE ProxyInv'
    OBVIOUS
  <1>0. calls \in [Callers -> [pc : CallerPCs, proxy : Proxy, result : Results]]
    BY DEF TypeInv, TypeOK
  <1>a. /\ OneProxyPerProcess /\ ProxyWhole /\ TokenReadable
        /\ \A b \in Callers :
             /\ At(b, "userInfo") => calls[b].proxy.encryption
             /\ Served(b) => once = "done" /\ calls[b].proxy = proxy
             /\ calls[b].result = "unreadable" => trouble
    BY DEF ProxyInv, OneProxyPerProcess, TokenReadable
  <1>1. ASSUME NEW c \in Callers, GetSingpassProxy(c) PROVE ProxyInv'
    <2>1. CASE once = "new"
      <3>1. \A b \in Callers : ~Served(b)
        BY <1>a, <2>1
      <3>. QED
        BY <1>0, <1>a, <1>1, <2>1, <3>1
        DEF Becomes, GetSingpassProxy, ProxyInv, OneProxyPerProcess, ProxyWhole, TokenReadable, Served
    <2>2. CASE once # "new"
      BY <1>1, <2>2, ProxyMoves DEF GetSingpassProxy
    <2>. QED BY <2>1, <2>2
  <1>2. ASSUME NEW c \in Callers, Proceed(c) PROVE ProxyInv'
    BY <1>2, ProxyMoves DEF Proceed
  <1>3. ASSUME NEW c \in Callers, FetchJWKS(c) \/ FetchJWKSFails(c) PROVE ProxyInv'
    <2>1. CASE FetchJWKS(c)
      BY <1>0, <1>a, <2>1
      DEF Becomes, FetchJWKS, ProxyInv, OneProxyPerProcess, ProxyWhole, TokenReadable, Served
    <2>2. CASE FetchJWKSFails(c)
      BY <1>0, <1>a, <2>2
      DEF Becomes, FetchJWKSFails, ProxyInv, OneProxyPerProcess, ProxyWhole, TokenReadable, Served
    <2>. QED BY <1>3, <2>1, <2>2
  <1>4. ASSUME NEW c \in Callers, LoadClientKeys(c) PROVE ProxyInv'
    <2>1. PICK sig \in BOOLEAN, enc \in BOOLEAN :
            /\ Built(c, WithKeys(sig /\ enc, sig /\ enc, calls[c].proxy.asp))
            /\ trouble' = (trouble \/ ~(sig /\ enc))
      BY <1>4 DEF LoadClientKeys
    <2>2. \A b \in Callers : ~Served(b) /\ (b # c => ~At(b, "clientKeys"))
      <3>1. once = "running"
        BY <1>4 DEF LoadClientKeys, TypeInv, OneBuilder, Building
      <3>. QED
        BY <1>a, <1>4, <3>1 DEF LoadClientKeys, TypeInv, TypeOK
    <2>3. OneProxyPerProcess'
      BY <1>0, <2>1, <2>2 DEF Becomes, Built, OneProxyPerProcess, Served
    <2>4. TokenReadable'
      BY <1>0, <1>a, <2>1, <2>2 DEF Becomes, Built, TokenReadable, Served
    <2>5. ProxyWhole'
      BY <1>0, <1>a, <1>4, <2>1, <2>2 DEF Becomes, Built, LoadClientKeys, ProxyWhole
    <2>. QED BY <2>3, <2>4, <2>5 DEF ProxyInv
  <1>5. ASSUME NEW c \in Callers, Return(c) PROVE ProxyInv'
    <2>1. once = "done" /\ calls[c].proxy = proxy
      BY <1>a, <1>5 DEF Ends, Becomes, Return, Served
    <2>2. CASE c \in Logins
      BY <1>5, <2>2, ProxyMoves DEF Ends, Return
    <2>3. CASE c \notin Logins
      BY <1>0, <1>a, <1>5, <2>1, <2>3
      DEF Becomes, Return, ProxyInv, OneProxyPerProcess, ProxyWhole, TokenReadable, Served
    <2>. QED BY <2>2, <2>3
  <1>6. ASSUME NEW c \in Callers, GetAccessToken(c) PROVE ProxyInv'
    <2>1. once = "done" /\ calls[c].proxy = proxy /\ proxy.signing = proxy.encryption
      BY <1>a, <1>6 DEF Ends, Becomes, GetAccessToken, Served, ProxyWhole
    <2>2. CASE calls[c].proxy.signing
      BY <1>0, <1>a, <1>6, <2>1, <2>2
      DEF Becomes, GetAccessToken, ProxyInv, OneProxyPerProcess, ProxyWhole, TokenReadable, Served
    <2>3. CASE ~calls[c].proxy.signing
      BY <1>6, <2>3, ProxyMoves DEF Ends, GetAccessToken
    <2>. QED BY <2>2, <2>3
  <1>7. ASSUME NEW c \in Callers,
               GetPlainUserInfo(c) \/ GetSignedUserInfo(c) \/ SingpassFails(c)
        PROVE  ProxyInv'
    <2>1. CASE GetPlainUserInfo(c)
      BY <2>1, ProxyMoves DEF Ends, GetPlainUserInfo
    <2>2. CASE GetSignedUserInfo(c)
      <3>1. once = "done" /\ calls[c].proxy = proxy
        BY <1>a, <2>2 DEF Ends, Becomes, GetSignedUserInfo, Served
      <3>2. trouble \/ (proxy.encryption /\ proxy.asp = aspKey)
        BY <1>a, <3>1 DEF ProxyWhole
      <3>3. CASE calls[c].proxy.encryption /\ calls[c].proxy.asp = aspKey
        BY <2>2, <3>3, ProxyMoves DEF Ends, GetSignedUserInfo
      <3>4. CASE ~(calls[c].proxy.encryption /\ calls[c].proxy.asp = aspKey)
        <4>1. trouble
          BY <3>1, <3>2, <3>4
        <4>. QED BY <2>2, <3>4, <4>1, ProxyMoves DEF Ends, GetSignedUserInfo
      <3>. QED BY <3>3, <3>4
    <2>3. CASE SingpassFails(c)
      BY <2>3, ProxyMoves DEF Ends, SingpassFails
    <2>. QED BY <1>7, <2>1, <2>2, <2>3
  <1>8. ASSUME NEW k \in SingpassKeys, RotateSingpassKey(k) PROVE ProxyInv'
    BY <1>a, <1>8
    DEF RotateSingpassKey, ProxyInv, OneProxyPerProcess, ProxyWhole, TokenReadable, Served
  <1>9. CASE Restart
    BY <1>9
    DEF Restart, NoProxy, ProxyInv, OneProxyPerProcess, ProxyWhole, TokenReadable, Served
  <1>10. CASE UNCHANGED vars
    BY <1>a, <1>10
    DEF vars, ProxyInv, OneProxyPerProcess, ProxyWhole, TokenReadable, Served
  <1>. QED
    BY <1>1, <1>2, <1>3, <1>4, <1>5, <1>6, <1>7, <1>8, <1>9, <1>10 DEF Next, CallerStep

LEMMA ProxyAlways == Spec => []ProxyInv
  BY TypeInit, TypeStep, ProxyInit, ProxyStep, PTL DEF Spec

\* Every caller that goes on does so with the one proxy of its process, built.
THEOREM OneProxyAlways == Spec => []OneProxyPerProcess
  BY ProxyAlways, PTL DEF ProxyInv

\* No access token is asked for whose user info the service could not decrypt,
\* and one is only unreadable after a failed fetch or load, or a rotation.
THEOREM TokenAlwaysReadable == Spec => []TokenReadable
  BY ProxyAlways, PTL DEF ProxyInv

=============================================================================
