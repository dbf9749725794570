----------------------------- MODULE EdgeProofs -----------------------------
(***************************************************************************)
(* What holds of Edge for any set of user ids: every route, request and    *)
(* result of the services, on the way in, on the way out and in a panic.   *)
(***************************************************************************)
EXTENDS Edge, SequenceTheorems, TLAPS

-----------------------------------------------------------------------------
(* Stacks.                                                                 *)

LEMMA Pushed ==
    ASSUME NEW S, NEW s \in Seq(S), NEW x \in S
    PROVE  /\ Append(s, x) \in Seq(S)
           /\ Len(Append(s, x)) = Len(s) + 1
           /\ \A i \in 1..Len(s) : Append(s, x)[i] = s[i]
           /\ Append(s, x)[Len(s) + 1] = x
  OBVIOUS

LEMMA Popped ==
    ASSUME NEW S, NEW s \in Seq(S), s # <<>>
    PROVE  /\ Len(s) \in Nat \ {0}
           /\ SubSeq(s, 1, Len(s) - 1) \in Seq(S)
           /\ Len(SubSeq(s, 1, Len(s) - 1)) = Len(s) - 1
           /\ \A i \in 1..(Len(s) - 1) : SubSeq(s, 1, Len(s) - 1)[i] = s[i]
  <1>1. Len(s) \in Nat \ {0}
    BY EmptySeq
  <1>. DEFINE n == Len(s) - 1
  <1>2. n \in 0..Len(s)
    BY <1>1
  <1>. HIDE DEF n
  <1>3. /\ SubSeq(s, 1, n) \in Seq(S)
        /\ Len(SubSeq(s, 1, n)) = n
        /\ \A i \in 1..n : SubSeq(s, 1, n)[i] = s[i]
    BY <1>2
  <1>. QED BY <1>1, <1>3 DEF n

LEMMA NoneLeft ==
    ASSUME NEW S
    PROVE  /\ <<>> \in Seq(S) /\ Len(<<>>) = 0
           /\ \A s \in Seq(S) : Len(s) = 0 <=> s = <<>>
  OBVIOUS

-----------------------------------------------------------------------------
(* The chains.                                                             *)

\* What a chain is made of.
Fns == {"recovery", "otel", "responseId", "cors", "access", "audit", "requireUser",
        "requireAny", "internalNetwork", "rpcLog", "handler"}

\* The length of a route's chain.
Size(r) == IF r = "rpc" THEN 2
           ELSE IF r = "unknown" THEN 4
           ELSE IF r = "ping" THEN 5
           ELSE IF r \in {"clerk", "callback"} THEN 6
           ELSE IF r = "currentUser" THEN 8
           ELSE 7

\* The one of its functions that stands at i.
At(r, i) == IF i = Size(r) /\ r # "unknown" THEN "handler"
            ELSE IF r = "rpc" THEN "rpcLog"
            ELSE IF i = 1 THEN "recovery"
            ELSE IF i = 2 THEN "otel"
            ELSE IF i = 3 THEN "responseId"
            ELSE IF i = 4 THEN "cors"
            ELSE IF i = 5 THEN "access"
            ELSE IF r = "currentUser" THEN IF i = 6 THEN "audit" ELSE "requireAny"
            ELSE IF r = "forward" THEN "internalNetwork"
            ELSE "requireUser"

LEMMA RoutesAre ==
    /\ Routes = {"ping", "clerk", "callback", "getProfile", "putProfile", "login",
                 "currentUser", "forward", "unknown", "rpc"}
    /\ \A q \in Requests : q.route \in Routes
  BY DEF Routes, Facets, Requests

LEMMA ChainIs ==
    ASSUME req \in Requests
    PROVE  /\ Len(Chain) = Size(req.route)
           /\ \A i \in 1..Size(req.route) : Chain[i] = At(req.route, i)
  <1>1. CASE req.route \in Web
    BY <1>1 DEF Web, Chain, RouteChain, Global, WebGroup, Size, At
  <1>2. CASE req.route = "currentUser"
    BY <1>2 DEF Web, Chain, RouteChain, Global, AdminGroup, Size, At
  <1>3. CASE req.route = "forward"
    BY <1>3 DEF Web, Chain, RouteChain, Global, ForwardRoute, Size, At
  <1>4. CASE req.route \in {"clerk", "callback"}
    BY <1>4 DEF Web, Chain, RouteChain, Global, Size, At
  <1>5. CASE req.route = "ping"
    BY <1>5 DEF Web, Chain, RouteChain, Global, Size, At
  <1>6. CASE req.route = "unknown"
    BY <1>6 DEF Web, Chain, RouteChain, Global, Size, At
  <1>7. CASE req.route = "rpc"
    BY <1>7 DEF Web, Chain, RouteChain, Size, At
  <1>. QED BY <1>1, <1>2, <1>3, <1>4, <1>5, <1>6, <1>7, RoutesAre DEF Web

-----------------------------------------------------------------------------
(* The invariant.  A request is on its way in, panicking, on its way out,  *)
(* or has taken the process with it.                                       *)

\* The function that waits for Next as the k-th: cors never does.
Held(r, k) == At(r, IF k <= 3 THEN k ELSE k + 1)

\* How many functions wait when the next one is i, and how many may.
Depth(i) == IF i <= 4 THEN i - 1 ELSE i - 2
Deep(r) == IF r = "unknown" THEN 3 ELSE Depth(Size(r))

Stack ==
    /\ frames \in Seq(Fns)
    /\ Len(frames) <= Deep(req.route)
    /\ \A k \in 1..Len(frames) : frames[k] = Held(req.route, k)

Answers == [status : Nat, answers : Nat, id : BOOLEAN, identity : User \cup {None}]
Outcomes == [is : Results, caller : User \cup {None}]
Shape ==
    /\ aborted \in BOOLEAN
    /\ caller \in User \cup {None}
    /\ resp \in Answers
    /\ result \in Outcomes
    /\ index \in Nat \ {0}

\* Nothing was answered, done or logged.
Untouched ==
    /\ resp.answers = 0 /\ resp.identity = None
    /\ resp.status = IF req.route = "unknown" THEN 404 ELSE 200
    /\ result = Nothing /\ lines = <<>>

\* Whether the caller was authenticated before i.
Known(i) == (req.route \in Web /\ i > 6) \/ (req.route = "currentUser" /\ i > 7)

\* What every middleware before the next one has seen to.
Passed ==
    /\ req.route # "rpc" /\ index > 3 => resp.id
    /\ req.route # "rpc" /\ index > 4 => PastCors
    /\ IF Known(index)
       THEN /\ caller = UserFromHeaders /\ caller \in User
            /\ req.route \in Web => caller.role = "user"
       ELSE caller = None
    /\ req.route = "forward" /\ index > 6 => Has("internal")

GoingIn ==
    /\ phase = "chain" /\ ~aborted /\ index <= Size(req.route)
    /\ req \in Requests
    /\ Stack /\ Len(frames) = Depth(index)
    /\ Untouched /\ Passed

Panicking ==
    /\ phase = "panic" /\ ~aborted
    /\ req \in Requests /\ req.route # "unknown"
    /\ Stack /\ Untouched
    /\ req.route # "rpc" => resp.id /\ PastCors /\ frames # <<>>

\* Whether the secret is what a webhook fails at.
NoSecret == req.route = "clerk" /\ Has("svixHeaders") /\ Has("body") /\ ~Has("secret")

\* ActsForVerified and AnswerTellsOutcome, when nothing panicked.
Verified ==
    result # Nothing =>
        /\ req.route \in Guarded => result.caller = UserFromHeaders
        /\ req.route \in Web => result.caller.role = "user"
        /\ req.route = "clerk" => Facets["clerk"] \subseteq req.has
        /\ req.route = "forward" => {"internal", "bearer"} \subseteq req.has
Told ==
    req.route # "rpc" =>
        /\ resp.status >= 500 <=>
             \/ result.is = "failed" /\ req.route # "forward"
             \/ NoSecret /\ result = Nothing /\ PastCors
        /\ req.route \in Guarded \cup {"clerk", "callback"} /\ PastCors
             /\ resp.status < 400 =>
             result.is = "ok" \/ (req.route = "clerk" /\ ~Has("created"))
        /\ req.route = "forward" =>
             /\ PastCors /\ Has("internal") => resp.status = 200
             /\ resp.identity # None <=> result.is = "ok"

\* The lines of a request that left all but n of the functions that waited.
AuditLine == [kind |-> "audit", status |-> resp.status, user |-> UserFromHeaders]
AccessLine == [kind |-> "access", status |-> resp.status, user |-> None]
LinesAt(n) ==
    IF ~(PastCors /\ req.route \in Business) THEN <<>>
    ELSE IF req.route # "currentUser" THEN IF n >= 4 THEN <<>> ELSE <<AccessLine>>
    ELSE IF n >= 5 THEN <<>>
    ELSE IF n = 4 THEN <<AuditLine>> ELSE <<AuditLine, AccessLine>>

Out == phase = "done" \/ (phase = "chain" /\ (aborted \/ index > Size(req.route)))

GoingOut ==
    /\ Out
    /\ req \in Requests
    /\ Stack /\ (phase = "done" => frames = <<>>)
    /\ req.route # "rpc" /\ ~PastCors => Len(frames) <= 3
    /\ resp.answers <= 1 /\ (req.route # "rpc" => resp.id)
    /\ req.route = "currentUser" => caller \in {None, UserFromHeaders}
    /\ lines = LinesAt(Len(frames))
    /\ Verified /\ Told

PanicLine == [kind |-> "panic", status |-> 200, user |-> None]
Recovered ==
    /\ Out
    /\ req \in Requests /\ req.route \notin {"rpc", "unknown"}
    /\ frames = <<>>
    /\ resp.answers = 1 /\ resp.status = 500 /\ resp.id /\ resp.identity = None
    /\ result = Nothing /\ lines = <<PanicLine>>

Crashed ==
    /\ phase = "crashed"
    /\ req \in Requests /\ req.route = "rpc"
    /\ Untouched

Inv ==
    /\ Shape
    /\ Init \/ GoingIn \/ Panicking \/ GoingOut \/ Recovered \/ Crashed

LEMMA SizeIsNat == \A r : Size(r) \in Nat /\ Deep(r) \in Nat
  BY DEF Size, Deep, Depth

\* While the request is the same, so is what depends on it alone.
LEMMA SameRequest ==
    ASSUME UNCHANGED req
    PROVE  /\ Chain' = Chain /\ UserFromHeaders' = UserFromHeaders
           /\ PastCors' = PastCors /\ NoSecret' = NoSecret
           /\ \A f : Has(f)' = Has(f)
  BY DEF Chain, UserFromHeaders, Headers, PastCors, NoSecret, Has

\* The function entered stands where the request has come to.
LEMMA InIs ==
    ASSUME Inv, Goes
    PROVE  /\ GoingIn /\ index \in 1..Size(req.route)
           /\ Chain[index] = At(req.route, index)
  <1>1. GoingIn
    <2>1. CASE Init
      BY <2>1 DEF Init, Goes
    <2>2. CASE Panicking
      BY <2>2 DEF Panicking, Goes
    <2>3. CASE GoingOut \/ Recovered
      <3>1. req \in Requests /\ Len(Chain) = Size(req.route)
        BY <2>3, ChainIs DEF GoingOut, Recovered
      <3>. QED BY <2>3, <3>1, SizeIsNat DEF GoingOut, Recovered, Out, Goes, Inv, Shape
    <2>4. CASE Crashed
      BY <2>4 DEF Crashed, Goes
    <2>. QED BY <2>1, <2>2, <2>3, <2>4 DEF Inv
  <1>2. index \in 1..Size(req.route)
    BY <1>1, SizeIsNat DEF GoingIn, Inv, Shape
  <1>. QED BY <1>1, <1>2, ChainIs DEF GoingIn

LEMMA OutIs ==
    ASSUME Inv, phase = "chain", ~Goes
    PROVE  GoingOut \/ Recovered
  <1>1. CASE Init
    BY <1>1 DEF Init
  <1>2. CASE GoingIn
    BY <1>2, ChainIs DEF GoingIn, Goes
  <1>3. CASE Panicking
    BY <1>3 DEF Panicking
  <1>4. CASE Crashed
    BY <1>4 DEF Crashed
  <1>. QED BY <1>1, <1>2, <1>3, <1>4 DEF Inv

-----------------------------------------------------------------------------
(* On the way in.                                                          *)

\* A function that waits for the next one.
LEMMA Waits ==
    ASSUME Inv, NEW mw \in Fns \ {"cors", "handler"}, Entering(mw), Next_(mw), lines' = lines,
           result' = result, Shape', Untouched',
           req.route # "rpc" /\ index > 2 => resp'.id,
           IF Known(index + 1)
           THEN /\ caller' = UserFromHeaders /\ caller' \in User
                /\ req.route \in Web => caller'.role = "user"
           ELSE caller' = None,
           mw = "internalNetwork" => Has("internal")
    PROVE  Inv'
  <1>1. /\ GoingIn /\ index \in 1..Size(req.route) /\ At(req.route, index) = mw
        /\ req' = req /\ phase' = phase /\ aborted' = aborted /\ index' = index + 1
        /\ frames' = Append(frames, mw)
    BY InIs DEF Entering, Next_
  <1>2. req.route \in {"ping", "clerk", "callback", "getProfile", "putProfile", "login",
                       "currentUser", "forward", "unknown", "rpc"}
    BY <1>1, RoutesAre DEF GoingIn
  <1>3. /\ index # 4 \/ req.route = "rpc"
        /\ index < Size(req.route)
    BY <1>1, <1>2 DEF At, Size
  <1>4. index + 1 <= Size(req.route) /\ Depth(index + 1) = Depth(index) + 1
        /\ Depth(index) + 1 <= Deep(req.route) /\ Held(req.route, Depth(index) + 1) = mw
    BY <1>1, <1>2, <1>3 DEF At, Size, Depth, Deep, Held
  <1>5. Stack' /\ Len(frames') = Depth(index')
    BY <1>1, <1>4, Pushed DEF GoingIn, Stack
  <1>6. Passed'
    BY <1>1, <1>2, <1>3, SameRequest DEF GoingIn, Passed, Known, At, Size, Web
  <1>. QED BY <1>1, <1>4, <1>5, <1>6 DEF GoingIn, Inv

\* Where cors and the handler stand, and what is true there.
LEMMA AtCors ==
    ASSUME Inv, Entering("cors")
    PROVE  GoingIn /\ req.route # "rpc" /\ index = 4
  <1>1. GoingIn /\ index \in 1..Size(req.route) /\ At(req.route, index) = "cors"
    BY InIs DEF Entering
  <1>2. req.route # "rpc" /\ index = 4
    BY <1>1 DEF At, Size
  <1>. QED BY <1>1, <1>2

LEMMA AtHandler ==
    ASSUME Inv, Entering("handler")
    PROVE  /\ GoingIn /\ req.route # "unknown" /\ index = Size(req.route)
           /\ req.route # "rpc" => resp.id /\ PastCors /\ Len(frames) >= 3
           /\ req.route \in Guarded => caller = UserFromHeaders /\ caller \in User
           /\ req.route \in Web => caller.role = "user"
           /\ req.route = "forward" => Has("internal")
           /\ LinesAt(Len(frames)) = <<>>
  <1>1. GoingIn /\ index \in 1..Size(req.route) /\ At(req.route, index) = "handler"
    BY InIs DEF Entering
  <1>2. req.route \in {"ping", "clerk", "callback", "getProfile", "putProfile", "login",
                       "currentUser", "forward", "unknown", "rpc"}
    BY <1>1, RoutesAre DEF GoingIn
  <1>3. index = Size(req.route) /\ req.route # "unknown"
    BY <1>1, <1>2 DEF At, Size
  <1>4. req.route # "rpc" => resp.id /\ PastCors /\ Len(frames) >= 3
    BY <1>1, <1>2, <1>3 DEF GoingIn, Passed, Size, Depth
  <1>5. /\ req.route \in Guarded => caller = UserFromHeaders /\ caller \in User
        /\ req.route \in Web => caller.role = "user"
        /\ req.route = "forward" => Has("internal")
    BY <1>1, <1>2, <1>3 DEF GoingIn, Passed, Size, Guarded, Web, Known
  <1>6. LinesAt(Len(frames)) = <<>>
    BY <1>1, <1>2, <1>3 DEF GoingIn, Size, Depth, LinesAt, Business, Guarded, Web
  <1>. QED BY <1>1, <1>3, <1>4, <1>5, <1>6

\* The handler returns, and the request is on its way out.
LEMMA Finishes ==
    ASSUME Inv, Entering("handler"), Returns, lines' = lines, caller' = caller, Shape',
           resp'.answers <= 1, resp'.id = resp.id, Verified', Told'
    PROVE  Inv'
  <1>1. /\ GoingIn /\ req.route # "unknown" /\ index = Size(req.route)
        /\ req.route # "rpc" => resp.id /\ PastCors /\ Len(frames) >= 3
        /\ req.route \in Guarded => caller = UserFromHeaders
        /\ LinesAt(Len(frames)) = <<>>
    BY AtHandler
  <1>2. Out' /\ req' \in Requests /\ Stack' /\ frames' = frames /\ phase' = "chain" /\ req' = req
    BY <1>1, SizeIsNat DEF GoingIn, Returns, Out, Stack
  <1>3. LinesAt(Len(frames))' = <<>>
    BY <1>1, <1>2, SameRequest DEF LinesAt
  <1>4. lines' = LinesAt(Len(frames))'
    BY <1>1, <1>3 DEF GoingIn, Untouched
  <1>5. /\ req'.route # "rpc" /\ ~PastCors' => Len(frames') <= 3
        /\ req'.route # "rpc" => resp'.id
        /\ req'.route = "currentUser" => caller' \in {None, UserFromHeaders'}
    BY <1>1, <1>2, SameRequest DEF Guarded
  <1>6. GoingOut'
    BY <1>2, <1>4, <1>5 DEF GoingOut
  <1>. QED BY <1>6 DEF Inv

LEMMA PanicsKeeps ==
    ASSUME Inv, Panics
    PROVE  Inv'
  <1>1. /\ GoingIn /\ req.route # "unknown" /\ index = Size(req.route)
        /\ req.route # "rpc" => resp.id /\ PastCors /\ Len(frames) >= 3
    BY AtHandler DEF Panics
  <1>2. /\ phase' = "panic"
        /\ UNCHANGED <<req, index, frames, aborted, caller, resp, result, lines>>
    BY DEF Panics
  <1>3. Shape' /\ Stack' /\ Untouched'
    BY <1>1, <1>2 DEF Inv, Shape, GoingIn, Stack, Untouched
  <1>4. req.route # "rpc" => frames # <<>>
    BY <1>1, NoneLeft
  <1>5. Panicking'
    BY <1>1, <1>2, <1>3, <1>4, SameRequest DEF Panicking, GoingIn
  <1>. QED BY <1>3, <1>5 DEF Inv

LEMMA WrittenIs ==
    ASSUME Shape, NEW code \in Nat
    PROVE  /\ Written(code) \in Answers
           /\ Written(code).status = code /\ Written(code).answers = resp.answers + 1
           /\ Written(code).id = resp.id /\ Written(code).identity = resp.identity
  <1>1. resp \in Answers
    BY DEF Shape
  <1>2. resp.answers + 1 \in Nat
    BY <1>1 DEF Answers
  <1>. QED BY <1>1, <1>2 DEF Written, Answers

\* A middleware aborts the chain: cors, or one that refuses a caller.
LEMMA Aborts ==
    ASSUME Inv, Goes, NEW code \in 200..499, AbortWith(code), req.route # "rpc", index >= 4,
           req.route = "currentUser" => index # 6,
           req.route = "forward" /\ index # 4 => ~Has("internal"),
           IF index = 4 THEN ~PastCors
                        ELSE code >= 400 /\ index >= 6 /\ req.route # "clerk"
    PROVE  Inv'
  <1>1. GoingIn /\ index \in 1..Size(req.route)
    BY InIs
  <1>2. /\ req' = req /\ phase' = "chain" /\ aborted' = TRUE /\ frames' = frames
        /\ UNCHANGED <<index, caller, result, lines>> /\ resp' = Written(code)
    BY <1>1 DEF AbortWith, GoingIn
  <1>3. /\ Shape'
        /\ resp'.answers = 1 /\ resp'.status = code /\ resp'.id = resp.id
        /\ resp'.identity = None
    <2>1. /\ resp' \in Answers
          /\ resp'.status = code /\ resp'.answers = resp.answers + 1 /\ resp'.id = resp.id
          /\ resp'.identity = resp.identity
      BY <1>2, WrittenIs, code \in Nat DEF Inv
    <2>2. Shape'
      BY <1>2, <2>1 DEF Inv, Shape
    <2>. QED BY <1>1, <2>1, <2>2 DEF GoingIn, Untouched
  <1>4. Out' /\ req' \in Requests /\ Stack'
    BY <1>1, <1>2 DEF GoingIn, Out, Stack
  <1>5. resp.id
    <2>1. index \in Nat /\ index > 3
      BY <1>1, SizeIsNat
    <2>. QED BY <1>1, <2>1 DEF GoingIn, Passed
  <1>6. index = 4 => Len(frames) <= 3
    BY <1>1 DEF GoingIn, Depth
  <1>7. index # 4 => index >= 6 /\ PastCors /\ Len(frames) >= 4
    <2>. SUFFICES ASSUME index # 4
                  PROVE  index >= 6 /\ PastCors /\ Len(frames) >= 4
      OBVIOUS
    <2>1. index \in Nat /\ index >= 6
      BY <1>1, SizeIsNat
    <2>. QED BY <1>1, <2>1 DEF GoingIn, Depth, Passed
  <1>8. req.route = "currentUser" /\ index # 4 => Len(frames) >= 5
    BY <1>1 DEF GoingIn, Depth
  <1>9. lines' = LinesAt(Len(frames))'
    BY <1>1, <1>2, <1>6, <1>7, <1>8, SameRequest DEF LinesAt, GoingIn, Untouched
  <1>10. req.route = "currentUser" => caller' \in {None, UserFromHeaders'}
    BY <1>1, <1>2, SameRequest DEF GoingIn, Passed
  <1>11. result' = Nothing
    BY <1>1, <1>2 DEF GoingIn, Untouched
  <1>12. Verified'
    BY <1>11 DEF Verified
  <1>13. Told'
    <2>. SUFFICES ASSUME req.route # "rpc"
                  PROVE  Told'
      BY <1>2 DEF Told
    <2>1. ~(resp'.status >= 500) /\ result'.is # "failed"
      BY <1>3, <1>11 DEF Nothing
    <2>2. ~(NoSecret' /\ PastCors')
      BY <1>2, SameRequest DEF NoSecret
    <2>3. PastCors' => resp'.status >= 400
      BY <1>2, <1>3, SameRequest
    <2>4. /\ resp'.status >= 500 <=>
               \/ result'.is = "failed" /\ req'.route # "forward"
               \/ NoSecret' /\ result' = Nothing' /\ PastCors'
          /\ ~(PastCors' /\ resp'.status < 400)
      BY <1>3, <2>1, <2>2, <2>3
    <2>5. req'.route = "forward" /\ PastCors' => ~Has("internal")'
      BY <1>2, SameRequest
    <2>6. resp'.identity = None /\ result'.is # "ok"
      BY <1>3, <1>11 DEF Nothing
    <2>. QED BY <2>4, <2>5, <2>6 DEF Told
  <1>14. /\ req'.route # "rpc" /\ ~PastCors' => Len(frames') <= 3
         /\ req'.route # "rpc" => resp'.id
    <2>1. ~PastCors' => index = 4
      <3>1. PastCors' = PastCors
        BY <1>2, SameRequest
      <3>. QED BY <1>7, <3>1, Zenon
    <2>2. index = 4 => Len(frames') <= 3
      BY <1>2, <1>6
    <2>3. resp'.id
      BY <1>3, <1>5
    <2>. QED BY <2>1, <2>2, <2>3
  <1>15. GoingOut'
    BY <1>2, <1>3, <1>4, <1>9, <1>10, <1>12, <1>13, <1>14 DEF GoingOut
  <1>. QED BY <1>3, <1>15 DEF Inv

LEMMA EntersKeeps ==
    ASSUME Inv, Enters
    PROVE  Inv'
  <1>1. PICK mw \in {"recovery", "otel", "access", "audit", "rpcLog"} :
            Entering(mw) /\ Next_(mw) /\ UNCHANGED <<caller, resp, result, lines>>
    BY DEF Enters
  <1>2. /\ GoingIn /\ index \in 1..Size(req.route) /\ At(req.route, index) = mw
        /\ req' = req /\ index' = index + 1
    BY <1>1, InIs DEF Entering, Next_
  <1>3. req.route \in {"ping", "clerk", "callback", "getProfile", "putProfile", "login",
                       "currentUser", "forward", "unknown", "rpc"}
    BY <1>2, RoutesAre DEF GoingIn
  <1>4. /\ Known(index + 1) <=> Known(index)
        /\ req.route # "rpc" /\ index > 2 => index > 3
    BY <1>1, <1>2, <1>3 DEF At, Size, Known, Web
  <1>5. Shape' /\ Untouched'
    BY <1>1, <1>2 DEF Next_, Inv, Shape, GoingIn, Untouched
  <1>. QED BY <1>1, <1>2, <1>4, <1>5, Waits DEF GoingIn, Passed, Fns

LEMMA ResponseIDKeeps ==
    ASSUME Inv, HTTPResponseIDMiddleware
    PROVE  Inv'
  <1>1. /\ Entering("responseId") /\ Next_("responseId")
        /\ resp' = [resp EXCEPT !.id = TRUE] /\ UNCHANGED <<caller, result, lines>>
    BY DEF HTTPResponseIDMiddleware
  <1>2. /\ GoingIn /\ index \in 1..Size(req.route) /\ At(req.route, index) = "responseId"
        /\ req' = req /\ index' = index + 1
    BY <1>1, InIs DEF Entering, Next_
  <1>3. index = 3
    BY <1>2 DEF At, Size
  <1>4. Shape' /\ Untouched' /\ resp'.id
    <2>1. resp \in Answers
      BY DEF Inv, Shape
    <2>2. resp' \in Answers /\ resp'.id
      BY <1>1, <2>1 DEF Answers
    <2>3. /\ resp'.answers = resp.answers /\ resp'.status = resp.status
          /\ resp'.identity = resp.identity
      BY <1>1, <2>1 DEF Answers
    <2>4. Shape'
      BY <1>1, <1>2, <2>2 DEF Next_, Inv, Shape
    <2>. QED BY <1>1, <1>2, <2>2, <2>3, <2>4 DEF GoingIn, Untouched
  <1>5. caller' = None /\ ~Known(index + 1)
    BY <1>1, <1>2, <1>3 DEF GoingIn, Passed, Known
  <1>. QED BY <1>1, <1>4, <1>5, Waits DEF Fns

LEMMA CorsKeeps ==
    ASSUME Inv, Cors
    PROVE  Inv'
  <1>1. Entering("cors") /\ GoingIn /\ req.route # "rpc" /\ index = 4 /\ Goes
    BY AtCors DEF Cors, Entering
  <1>2. req.route \in {"ping", "clerk", "callback", "getProfile", "putProfile", "login",
                       "currentUser", "forward", "unknown", "rpc"}
    BY <1>1, RoutesAre DEF GoingIn
  <1>3. CASE PastCors /\ Returns /\ UNCHANGED <<caller, resp, result, lines>>
    <2>1. /\ index' = 5 /\ phase' = "chain"
          /\ UNCHANGED <<req, frames, aborted, caller, resp, result, lines>>
      BY <1>1, <1>3 DEF Returns, GoingIn, Inv, Shape
    <2>2. /\ Shape' /\ Stack' /\ Untouched'
          /\ PastCors' /\ resp.id /\ Len(frames) = 3 /\ caller = None
      <3>1. Shape'
        BY <2>1 DEF Inv, Shape
      <3>2. Stack' /\ Untouched'
        BY <1>1, <2>1 DEF GoingIn, Stack, Untouched
      <3>3. PastCors'
        BY <1>3, <2>1, SameRequest
      <3>4. resp.id /\ Len(frames) = 3 /\ caller = None
        BY <1>1 DEF GoingIn, Passed, Known, Depth
      <3>. QED BY <3>1, <3>2, <3>3, <3>4
    <2>3. CASE req.route = "unknown"
      <3>1. Out' /\ lines' = LinesAt(Len(frames))'
        BY <1>1, <2>1, <2>3 DEF Out, Size, LinesAt, Business, Guarded, Web, GoingIn, Untouched
      <3>2. Verified' /\ Told'
        BY <1>1, <2>1, <2>3, SameRequest
        DEF GoingIn, Untouched, Verified, Told, Guarded, Web, NoSecret, Nothing
      <3>3. req' \in Requests /\ phase' # "done" /\ req'.route # "currentUser"
        BY <1>1, <2>1, <2>3 DEF GoingIn
      <3>4. Len(frames') <= 3 /\ resp'.answers <= 1
        BY <2>1, <2>2 DEF Untouched
      <3>5. GoingOut'
        BY <2>1, <2>2, <3>1, <3>2, <3>3, <3>4 DEF GoingOut
      <3>. QED BY <2>2, <3>5 DEF Inv
    <2>4. CASE req.route # "unknown"
      <3>1. 5 <= Size(req.route) /\ Depth(5) = 3 /\ ~Known(5)
        BY <1>1, <1>2, <2>4 DEF Size, Depth, Known
      <3>2. Passed'
        BY <2>1, <2>2, <3>1 DEF Passed, Known
      <3>3. GoingIn'
        BY <1>1, <2>1, <2>2, <3>1, <3>2 DEF GoingIn
      <3>. QED BY <2>2, <3>3 DEF Inv
    <2>. QED BY <2>3, <2>4
  <1>4. CASE req.origin = "preflight" /\ AbortWith(204)
    BY <1>1, <1>4, Aborts, 204 \in 200..499 DEF PastCors
  <1>5. CASE req.origin = "refused" /\ AbortWith(403)
    BY <1>1, <1>5, Aborts, 403 \in 200..499 DEF PastCors
  <1>. QED BY <1>3, <1>4, <1>5 DEF Cors, PastCors

LEMMA RequireRoleKeeps ==
    ASSUME Inv, NEW mw, NEW roles,
           (mw = "requireUser" /\ roles = {"user"}) \/ (mw = "requireAny" /\ roles = {}),
           RequireRole(mw, roles)
    PROVE  Inv'
  <1>1. Entering(mw) /\ Goes /\ mw \in Fns \ {"cors", "handler"}
    BY DEF RequireRole, Entering, Fns
  <1>2. GoingIn /\ index \in 1..Size(req.route) /\ At(req.route, index) = mw
    BY <1>1, InIs DEF Entering
  <1>3. req.route \in {"ping", "clerk", "callback", "getProfile", "putProfile", "login",
                       "currentUser", "forward", "unknown", "rpc"}
    BY <1>2, RoutesAre DEF GoingIn
  <1>4. \/ mw = "requireUser" /\ req.route \in Web /\ index = 6
        \/ mw = "requireAny" /\ req.route = "currentUser" /\ index = 7
    BY <1>2, <1>3 DEF At, Size, Web
  <1>5. /\ req.route # "rpc" /\ req.route # "clerk" /\ index >= 6 /\ index >= 4 /\ index # 4
        /\ req.route = "currentUser" => index # 6
        /\ req.route # "forward"
    BY <1>4 DEF Web
  <1>6. CASE AbortWith(401)
    BY <1>1, <1>5, <1>6, Aborts, 401 \in 200..499, 401 >= 400
  <1>7. CASE AbortWith(403)
    BY <1>1, <1>5, <1>7, Aborts, 403 \in 200..499, 403 >= 400
  <1>8. CASE /\ UserFromHeaders # None /\ Allowed(roles)
             /\ caller' = UserFromHeaders
             /\ Next_(mw)
             /\ UNCHANGED <<resp, result, lines>>
    <2>1. caller' = UserFromHeaders /\ caller' \in User
      BY <1>8 DEF UserFromHeaders
    <2>2. req.route \in Web => caller'.role = "user"
      <3>1. SUFFICES ASSUME req.route \in Web
                     PROVE  caller'.role = "user"
        OBVIOUS
      <3>2. roles = {"user"}
        BY <1>4, <3>1 DEF Web
      <3>3. req.role = "user" /\ caller' = Headers
        BY <1>8, <3>2 DEF Allowed, UserFromHeaders
      <3>. QED BY <3>3 DEF Headers
    <2>3. Known(index + 1) /\ resp'.id
      BY <1>2, <1>4, <1>5, <1>8 DEF Known, GoingIn, Passed
    <2>4. Shape' /\ Untouched'
      BY <1>2, <1>8, <2>1 DEF Next_, Inv, Shape, GoingIn, Untouched
    <2>. QED BY <1>1, <1>4, <1>8, <2>1, <2>2, <2>3, <2>4, Waits
  <1>. QED BY <1>6, <1>7, <1>8 DEF RequireRole

LEMMA InternalNetworkKeeps ==
    ASSUME Inv, RequireInternalNetwork
    PROVE  Inv'
  <1>1. Entering("internalNetwork") /\ Goes /\ "internalNetwork" \in Fns \ {"cors", "handler"}
    BY DEF RequireInternalNetwork, Entering, Fns
  <1>2. GoingIn /\ index \in 1..Size(req.route) /\ At(req.route, index) = "internalNetwork"
    BY <1>1, InIs DEF Entering
  <1>3. req.route = "forward" /\ index = 6
    <2>1. req.route \in {"ping", "clerk", "callback", "getProfile", "putProfile", "login",
                         "currentUser", "forward", "unknown", "rpc"}
      BY <1>2, RoutesAre DEF GoingIn
    <2>. QED BY <1>2, <2>1 DEF At, Size
  <1>4. CASE ~Has("internal") /\ AbortWith(403)
    BY <1>1, <1>3, <1>4, Aborts, 403 \in 200..499, 403 >= 400
  <1>5. CASE /\ Has("internal") /\ Next_("internalNetwork")
             /\ UNCHANGED <<caller, resp, result, lines>>
    <2>1. ~Known(index + 1) /\ caller' = None /\ resp'.id
      BY <1>2, <1>3, <1>5 DEF Known, Web, GoingIn, Passed
    <2>2. Shape' /\ Untouched'
      BY <1>2, <1>5 DEF Next_, Inv, Shape, GoingIn, Untouched
    <2>. QED BY <1>1, <1>5, <2>1, <2>2, Waits
  <1>. QED BY <1>4, <1>5 DEF RequireInternalNetwork

-----------------------------------------------------------------------------
(* The handlers.                                                           *)

LEMMA WritesShape ==
    ASSUME Inv, Entering("handler"), Returns, NEW code \in Nat, resp' = Written(code),
           caller' = caller, result' \in Outcomes
    PROVE  /\ Shape'
           /\ resp'.answers = 1 /\ resp'.status = code /\ resp'.id = resp.id
           /\ resp'.identity = None
  <1>1. GoingIn
    BY AtHandler
  <1>2. /\ resp' \in Answers /\ resp'.status = code /\ resp'.answers = resp.answers + 1
        /\ resp'.id = resp.id /\ resp'.identity = resp.identity
    BY WrittenIs DEF Inv
  <1>3. index' \in Nat \ {0} /\ aborted' = aborted
    BY DEF Returns, Inv, Shape
  <1>4. Shape'
    BY <1>2, <1>3 DEF Inv, Shape
  <1>. QED BY <1>1, <1>2, <1>4 DEF GoingIn, Untouched

\* A handler answers without a service.
LEMMA SaysKeeps ==
    ASSUME Inv, Entering("handler"), NEW code \in Nat, Says(code),
           req.route \notin {"rpc", "forward"},
           code >= 500 <=> NoSecret,
           code < 400 /\ req.route \in Guarded \cup {"clerk", "callback"} =>
              req.route = "clerk" /\ ~Has("created")
    PROVE  Inv'
  <1>1. GoingIn /\ PastCors
    BY AtHandler
  <1>2. Returns /\ resp' = Written(code) /\ UNCHANGED <<req, caller, result, lines>>
    BY DEF Says, Returns
  <1>3. result' = Nothing /\ result' \in Outcomes
    BY <1>1, <1>2 DEF GoingIn, Untouched, Inv, Shape
  <1>4. Shape' /\ resp'.answers = 1 /\ resp'.status = code /\ resp'.id = resp.id
    BY <1>2, <1>3, WritesShape
  <1>5. Verified'
    BY <1>3 DEF Verified
  <1>6. Told'
    <2>1. resp'.status >= 500 <=>
            \/ result'.is = "failed" /\ req'.route # "forward"
            \/ NoSecret' /\ result' = Nothing' /\ PastCors'
      BY <1>1, <1>2, <1>3, <1>4, SameRequest DEF Nothing
    <2>2. req'.route \in Guarded \cup {"clerk", "callback"} /\ PastCors' /\ resp'.status < 400 =>
            result'.is = "ok" \/ (req'.route = "clerk" /\ ~Has("created")')
      BY <1>2, <1>4, SameRequest
    <2>. QED BY <1>2, <2>1, <2>2 DEF Told
  <1>. QED BY <1>2, <1>4, <1>5, <1>6, Finishes

\* A handler calls its service, which returns is.
LEMMA CallsKeeps ==
    ASSUME Inv, Entering("handler"), NEW is \in Results \ {"none"}, NEW code \in Nat,
           Calls(is, code), req.route # "forward",
           req.route = "clerk" => Facets["clerk"] \subseteq req.has,
           req.route # "rpc" => (code >= 500 <=> is = "failed") /\ (code < 400 => is = "ok")
    PROVE  Inv'
  <1>1. /\ GoingIn
        /\ req.route \in Guarded => caller = UserFromHeaders
        /\ req.route \in Web => caller.role = "user"
    BY AtHandler
  <1>2. /\ Returns /\ resp' = Written(code) /\ UNCHANGED <<req, caller, lines>>
        /\ result' = [is |-> is, caller |-> caller]
    BY DEF Calls, Returns
  <1>3. result' \in Outcomes /\ result' # Nothing /\ result'.is = is /\ result'.caller = caller
    BY <1>2 DEF Outcomes, Inv, Shape, Nothing
  <1>4. Shape' /\ resp'.answers = 1 /\ resp'.status = code /\ resp'.id = resp.id
    BY <1>2, <1>3, WritesShape
  <1>5. Verified'
    BY <1>1, <1>2, <1>3, SameRequest DEF Verified
  <1>6. Told'
    BY <1>2, <1>3, <1>4 DEF Told, Nothing
  <1>. QED BY <1>2, <1>4, <1>5, <1>6, Finishes

LEMMA AuthForwardKeeps ==
    ASSUME Inv, AuthForward
    PROVE  Inv'
  <1>1. Entering("handler") /\ req.route = "forward" /\ Returns /\ UNCHANGED <<req, caller, lines>>
    BY DEF AuthForward, Handling, Returns
  <1>2. /\ GoingIn /\ Has("internal") /\ result = Nothing
        /\ resp.answers = 0 /\ resp.status = 200 /\ resp.identity = None
    BY <1>1, AtHandler DEF GoingIn, Untouched
  <1>3. index' \in Nat \ {0} /\ aborted' = aborted
    BY <1>1 DEF Returns, Inv, Shape
  <1>4. CASE UNCHANGED <<result, resp>>
    <2>1. Shape' /\ Verified'
      BY <1>1, <1>2, <1>3, <1>4 DEF Inv, Shape, Verified
    <2>2. resp'.answers <= 1 /\ resp'.id = resp.id
      BY <1>2, <1>4
    <2>3. Told'
      BY <1>1, <1>2, <1>4, SameRequest DEF Told, Guarded, Web, NoSecret, Nothing
    <2>. QED BY <1>1, <2>1, <2>2, <2>3, Finishes
  <1>5. ASSUME Has("bearer"), NEW to \in Authenticated,
               result' = to, resp' = [resp EXCEPT !.identity = to.caller]
        PROVE  Inv'
    <2>1. to \in Outcomes /\ to.is # "none" /\ (to.caller # None <=> to.is = "ok")
      BY NoneAssumption DEF Authenticated, Outcomes, Results, User
    <2>2. resp \in Answers
      BY DEF Inv, Shape
    <2>3. /\ resp' \in Answers /\ resp'.answers = 0 /\ resp'.status = 200 /\ resp'.id = resp.id
          /\ resp'.identity = to.caller
      BY <1>2, <1>5, <2>1, <2>2 DEF Answers, Outcomes
    <2>4. Shape'
      BY <1>1, <1>3, <1>5, <2>1, <2>3 DEF Inv, Shape
    <2>5. {"internal", "bearer"} \subseteq req'.has
      BY <1>1, <1>2, <1>5 DEF Has
    <2>6. Verified'
      BY <1>1, <2>5 DEF Verified, Guarded, Web
    <2>7. Told'
      BY <1>1, <1>5, <2>1, <2>3 DEF Told, Guarded, Web, NoSecret
    <2>8. resp'.answers <= 1
      BY <2>3
    <2>. QED BY <1>1, <2>3, <2>4, <2>6, <2>7, <2>8, Finishes
  <1>. QED BY <1>4, <1>5 DEF AuthForward

\* What a webhook that fails a check, or none, has shown.
LEMMA ClerkFails ==
    ASSUME req.route = "clerk"
    PROVE  /\ FailsAt(ClerkChecks, "secret") <=> NoSecret
           /\ \A c \in {"svixHeaders", "body", "signed", "json", "created", "data"} :
                FailsAt(ClerkChecks, c) => ~NoSecret /\ ~Has(c)
           /\ Holds(ClerkChecks) => Facets["clerk"] \subseteq req.has /\ ~NoSecret
           /\ FailsAt(<<"svixHeaders", "body", "secret">>, "secret") <=> NoSecret
  <1>. DEFINE C == ClerkChecks
  <1>1. /\ DOMAIN C = 1..7
        /\ C[1] = "svixHeaders" /\ C[2] = "body" /\ C[3] = "secret" /\ C[4] = "signed"
        /\ C[5] = "json" /\ C[6] = "created" /\ C[7] = "data"
    BY DEF ClerkChecks
  <1>. HIDE DEF C
  <1>2. FailsAt(C, "secret") <=> NoSecret
    BY <1>1 DEF FailsAt, NoSecret
  <1>3. ASSUME NEW c \in {"svixHeaders", "body", "signed", "json", "created", "data"}, FailsAt(C, c)
        PROVE  ~NoSecret /\ ~Has(c)
    BY <1>1, <1>3 DEF FailsAt, NoSecret
  <1>4. Holds(C) => Facets["clerk"] \subseteq req.has /\ ~NoSecret
    BY <1>1 DEF Holds, NoSecret, Facets, Has
  <1>5. FailsAt(<<"svixHeaders", "body", "secret">>, "secret") <=> NoSecret
    BY DEF FailsAt, NoSecret
  <1>. QED BY <1>2, <1>3, <1>4, <1>5 DEF C

LEMMA ClerkKeeps ==
    ASSUME Inv, ClerkCallback
    PROVE  Inv'
  <1>1. Entering("handler") /\ req.route = "clerk"
    BY DEF ClerkCallback, Handling
  <1>2. CASE \E c \in {"svixHeaders", "body", "signed", "json", "data"} :
                FailsAt(ClerkChecks, c) /\ Says(400)
    <2>1. PICK c \in {"svixHeaders", "body", "signed", "json", "data"} :
                FailsAt(ClerkChecks, c) /\ Says(400)
      BY <1>2
    <2>2. ~NoSecret
      BY <1>1, <2>1, ClerkFails
    <2>. QED BY <1>1, <2>1, <2>2, SaysKeeps
  <1>3. CASE FailsAt(ClerkChecks, "body") /\ Says(413)
    <2>1. ~NoSecret
      BY <1>1, <1>3, ClerkFails
    <2>. QED BY <1>1, <1>3, <2>1, SaysKeeps
  <1>4. CASE FailsAt(ClerkChecks, "secret") /\ Says(500)
    <2>1. NoSecret
      BY <1>1, <1>4, ClerkFails
    <2>. QED BY <1>1, <1>4, <2>1, SaysKeeps
  <1>5. CASE FailsAt(ClerkChecks, "created") /\ Says(200)
    <2>1. ~NoSecret /\ ~Has("created")
      BY <1>1, <1>5, ClerkFails
    <2>. QED BY <1>1, <1>5, <2>1, SaysKeeps
  <1>6. CASE Holds(ClerkChecks) /\ (Calls("ok", 200) \/ Calls("failed", 500))
    <2>1. Facets["clerk"] \subseteq req.has
      BY <1>1, <1>6, ClerkFails
    <2>. QED BY <1>1, <1>6, <2>1, CallsKeeps DEF Results
  <1>. QED BY <1>2, <1>3, <1>4, <1>5, <1>6 DEF ClerkCallback

LEMMA CallbackKeeps ==
    ASSUME Inv, SingpassCallback
    PROVE  Inv'
  <1>1. Entering("handler") /\ req.route = "callback"
    BY DEF SingpassCallback, Handling
  <1>2. CASE Says(400)
    BY <1>1, <1>2, SaysKeeps DEF NoSecret
  <1>3. CASE Calls("ok", 302) \/ Calls("ok", 200)
    BY <1>1, <1>3, CallsKeeps DEF Results
  <1>4. CASE Calls("absent", 400) \/ Calls("refused", 403) \/ Calls("failed", 500)
    BY <1>1, <1>4, CallsKeeps DEF Results
  <1>. QED BY <1>2, <1>3, <1>4 DEF SingpassCallback

LEMMA OthersKeep ==
    ASSUME Inv, Ping \/ GetProfile \/ UserUpdateProfile \/ SingpassLogin \/ GetUserProfile
    PROVE  Inv'
  <1>1. CASE Ping
    <2>1. Entering("handler") /\ req.route = "ping" /\ Says(200)
      BY <1>1 DEF Ping, Handling
    <2>. QED BY <2>1, SaysKeeps DEF NoSecret, Guarded, Web
  <1>2. CASE GetProfile \/ UserUpdateProfile \/ SingpassLogin
    <2>1. Entering("handler") /\ req.route \in Guarded
      BY <1>2 DEF GetProfile, UserUpdateProfile, SingpassLogin, Handling, Guarded, Web
    <2>2. req.route \notin {"rpc", "clerk", "forward"}
      BY <2>1 DEF Guarded, Web
    <2>3. CASE Says(401) \/ Says(400)
      BY <2>1, <2>2, <2>3, SaysKeeps DEF NoSecret
    <2>4. CASE Calls("ok", 200)
      BY <2>1, <2>2, <2>4, CallsKeeps DEF Results
    <2>5. CASE Calls("absent", 404) \/ Calls("refused", 400)
      BY <2>1, <2>2, <2>5, CallsKeeps DEF Results
    <2>6. CASE Calls("failed", 500)
      BY <2>1, <2>2, <2>6, CallsKeeps DEF Results
    <2>. QED BY <1>2, <2>3, <2>4, <2>5, <2>6 DEF GetProfile, UserUpdateProfile, SingpassLogin
  <1>3. CASE GetUserProfile
    <2>1. Entering("handler") /\ req.route = "rpc"
      BY <1>3 DEF GetUserProfile, Handling
    <2>. QED BY <1>3, <2>1, CallsKeeps DEF GetUserProfile, Results
  <1>. QED BY <1>1, <1>2, <1>3

-----------------------------------------------------------------------------
(* On the way out.                                                         *)

\* The innermost function that waits, by how many do.
LEMMA TopIs ==
    ASSUME Stack, frames # <<>>
    PROVE  /\ Len(frames) \in Nat \ {0} /\ Top = Held(req.route, Len(frames))
           /\ Stack /\ frames' = SubSeq(frames, 1, Len(frames) - 1) /\ req' = req =>
                Stack' /\ Len(frames') = Len(frames) - 1
  <1>1. /\ Len(frames) \in Nat \ {0}
        /\ SubSeq(frames, 1, Len(frames) - 1) \in Seq(Fns)
        /\ Len(SubSeq(frames, 1, Len(frames) - 1)) = Len(frames) - 1
        /\ \A i \in 1..(Len(frames) - 1) : SubSeq(frames, 1, Len(frames) - 1)[i] = frames[i]
    BY Popped DEF Stack
  <1>2. Len(frames) \in 1..Len(frames) /\ Deep(req.route) \in Nat
    BY <1>1, SizeIsNat
  <1>3. Top = Held(req.route, Len(frames))
    BY <1>2 DEF Stack, Top
  <1>4. ASSUME frames' = SubSeq(frames, 1, Len(frames) - 1), req' = req
        PROVE  Stack' /\ Len(frames') = Len(frames) - 1
    BY <1>1, <1>2, <1>4 DEF Stack
  <1>. QED BY <1>1, <1>3, <1>4

\* A function goes on after Next, and logs what is due by then.
LEMMA BackKeeps ==
    ASSUME Inv, NEW mw, Back(mw), caller' \in {caller, None},
           lines' = IF mw = "access" THEN Append(lines, AccessLine)
                    ELSE IF mw = "audit" THEN Append(lines, AuditLine) ELSE lines
    PROVE  Inv'
  <1>1. /\ phase = "chain" /\ ~Goes /\ frames # <<>> /\ Top = mw
        /\ frames' = SubSeq(frames, 1, Len(frames) - 1)
        /\ UNCHANGED <<req, phase, index, aborted, resp, result>>
    BY DEF Back
  <1>2. GoingOut
    BY <1>1, OutIs DEF Recovered
  <1>. DEFINE n == Len(frames)
  <1>3. /\ n \in Nat \ {0} /\ mw = Held(req.route, n) /\ n <= Deep(req.route)
        /\ Stack' /\ Len(frames') = n - 1
    BY <1>1, <1>2, TopIs DEF GoingOut, Stack
  <1>4. req.route \in {"ping", "clerk", "callback", "getProfile", "putProfile", "login",
                       "currentUser", "forward", "unknown", "rpc"}
    BY <1>2, RoutesAre DEF GoingOut
  <1>5. Shape' /\ Out'
    <2>1. caller' \in User \cup {None}
      BY DEF Inv, Shape
    <2>2. Shape'
      BY <1>1, <2>1 DEF Inv, Shape
    <2>. QED BY <1>1, <1>2, <2>2 DEF GoingOut, Out
  <1>6. lines = LinesAt(n) /\ (req.route # "rpc" /\ ~PastCors => n <= 3)
    BY <1>2 DEF GoingOut
  <1>. HIDE DEF n
  <1>7. /\ n = 4 => mw = "access"
        /\ n # 4 => mw # "access"
        /\ n = 5 /\ req.route = "currentUser" => mw = "audit"
        /\ ~(n = 5 /\ req.route = "currentUser") => mw # "audit"
    <2>1. CASE n = 1 \/ n = 2 \/ n = 3
      <3>1. mw = At(req.route, n)
        BY <1>3, <2>1 DEF Held
      <3>2. mw \in {"recovery", "otel", "responseId", "rpcLog", "handler"}
        BY <2>1, <3>1 DEF At
      <3>. QED BY <2>1, <3>2
    <2>2. CASE n = 4
      BY <1>3, <1>4, <2>2 DEF Held, At, Size, Deep, Depth
    <2>3. CASE n = 5
      BY <1>3, <1>4, <2>3 DEF Held, At, Size, Deep, Depth
    <2>4. CASE n = 6
      BY <1>3, <1>4, <2>4 DEF Held, At, Size, Deep, Depth
    <2>5. n <= 6
      BY <1>3, <1>4 DEF Size, Deep, Depth
    <2>6. n = 1 \/ n = 2 \/ n = 3 \/ n = 4 \/ n = 5 \/ n = 6
      BY <1>3, <2>5
    <2>. QED BY <2>1, <2>2, <2>3, <2>4, <2>6
  <1>8. n >= 4 => req.route \in Business /\ PastCors
    <2>1. n >= 4 => req.route \in Business /\ req.route # "rpc"
      BY <1>3, <1>4 DEF Size, Deep, Depth, Business, Guarded, Web
    <2>. QED BY <1>3, <1>6, <2>1
  <1>9. lines' = LinesAt(n - 1)
    <2>1. CASE n = 4 /\ req.route = "currentUser"
      <3>1. lines = <<AuditLine>> /\ LinesAt(n - 1) = <<AuditLine, AccessLine>>
        BY <1>8, <1>6, <2>1 DEF LinesAt
      <3>. QED BY <1>7, <2>1, <3>1
    <2>2. CASE n = 4 /\ req.route # "currentUser"
      <3>1. lines = <<>> /\ LinesAt(n - 1) = <<AccessLine>>
        BY <1>8, <1>6, <2>2 DEF LinesAt
      <3>. QED BY <1>7, <2>2, <3>1
    <2>3. CASE n = 5 /\ req.route = "currentUser"
      <3>1. lines = <<>> /\ LinesAt(n - 1) = <<AuditLine>>
        BY <1>8, <1>6, <2>3 DEF LinesAt
      <3>. QED BY <1>7, <2>3, <3>1
    <2>4. CASE n # 4 /\ ~(n = 5 /\ req.route = "currentUser")
      <3>1. LinesAt(n - 1) = LinesAt(n)
        BY <1>3, <1>8, <2>4 DEF LinesAt
      <3>. QED BY <1>7, <1>6, <2>4, <3>1
    <2>. QED BY <2>1, <2>2, <2>3, <2>4
  <1>10. lines' = LinesAt(Len(frames))'
    <2>1. LinesAt(n - 1) = LinesAt(Len(frames'))
      BY <1>3
    <2>2. LinesAt(Len(frames))' = LinesAt(Len(frames'))
      BY <1>1, SameRequest DEF LinesAt, AuditLine, AccessLine
    <2>. QED BY <1>9, <2>1, <2>2
  <1>11. Verified' /\ Told'
    BY <1>1, <1>2, SameRequest DEF GoingOut, Verified, Told
  <1>12. /\ phase' # "done" /\ req' \in Requests
         /\ resp'.answers <= 1 /\ (req'.route # "rpc" => resp'.id)
         /\ req'.route = "currentUser" => caller' \in {None, UserFromHeaders'}
    BY <1>1, <1>2, SameRequest DEF GoingOut
  <1>13. req'.route # "rpc" /\ ~PastCors' => Len(frames') <= 3
    BY <1>1, <1>3, <1>6, SameRequest
  <1>. QED BY <1>3, <1>5, <1>10, <1>11, <1>12, <1>13 DEF Inv, GoingOut

LEMMA WayOutKeeps ==
    ASSUME Inv, AccessLog \/ AuditLog \/ OtherBack
    PROVE  Inv'
  <1>1. CASE AccessLog
    <2>1. Back("access") /\ caller' = caller /\ lines' = Append(lines, AccessLine)
      BY <1>1 DEF AccessLog, Line, AccessLine
    <2>. QED BY <2>1, BackKeeps
  <1>2. CASE AuditLog
    <2>1. /\ Back("audit") /\ caller' = caller
          /\ lines' = Append(lines, Line("audit", IF caller # None THEN caller
                                                                   ELSE UserFromHeaders))
      BY <1>2 DEF AuditLog
    <2>2. GoingOut
      BY <2>1, OutIs DEF Back, Recovered
    <2>3. req.route = "currentUser"
      <3>1. /\ Held(req.route, Len(frames)) = "audit"
            /\ Len(frames) \in Nat \ {0} /\ Len(frames) <= Deep(req.route)
        BY <2>1, <2>2, TopIs DEF Back, GoingOut, Stack
      <3>2. req.route \in {"ping", "clerk", "callback", "getProfile", "putProfile", "login",
                           "currentUser", "forward", "unknown", "rpc"}
        BY <2>2, RoutesAre DEF GoingOut
      <3>. QED BY <3>1, <3>2 DEF Held, At, Size, Deep, Depth
    <2>4. Line("audit", IF caller # None THEN caller ELSE UserFromHeaders) = AuditLine
      BY <2>2, <2>3 DEF GoingOut, Line, AuditLine
    <2>. QED BY <2>1, <2>4, BackKeeps
  <1>3. CASE OtherBack
    <2>1. PICK mw \in {"recovery", "otel", "responseId", "requireUser", "requireAny",
                       "internalNetwork", "rpcLog"} :
              Back(mw) /\ caller' = (IF mw = "otel" THEN None ELSE caller) /\ lines' = lines
      BY <1>3 DEF OtherBack
    <2>. QED BY <2>1, BackKeeps
  <1>. QED BY <1>1, <1>2, <1>3

LEMMA AnsweredKeeps ==
    ASSUME Inv, Answered
    PROVE  Inv'
  <1>1. /\ phase = "chain" /\ ~Goes /\ frames = <<>> /\ phase' = "done"
        /\ UNCHANGED <<req, index, frames, aborted, caller, resp, result, lines>>
    BY DEF Answered
  <1>2. Shape'
    BY <1>1 DEF Inv, Shape
  <1>3. CASE GoingOut
    <2>1. Stack' /\ Verified' /\ Told' /\ Out' /\ lines' = LinesAt(Len(frames))'
      BY <1>1, <1>3, SameRequest
      DEF GoingOut, Stack, Verified, Told, Out, LinesAt, AuditLine, AccessLine
    <2>. QED BY <1>1, <1>2, <1>3, <2>1, SameRequest DEF GoingOut, Inv
  <1>4. CASE Recovered
    BY <1>1, <1>2, <1>4 DEF Recovered, Out, Inv
  <1>. QED BY <1>1, <1>3, <1>4, OutIs

-----------------------------------------------------------------------------
(* Panics.                                                                 *)

LEMMA InPanic ==
    ASSUME Inv, phase = "panic"
    PROVE  Panicking
  BY DEF Inv, Init, GoingIn, GoingOut, Out, Recovered, Crashed

LEMMA UnwindKeeps ==
    ASSUME Inv, Unwind
    PROVE  Inv'
  <1>1. /\ phase = "panic" /\ frames # <<>> /\ Top # "recovery"
        /\ frames' = SubSeq(frames, 1, Len(frames) - 1)
        /\ caller' = (IF Top = "otel" THEN None ELSE caller)
        /\ UNCHANGED <<req, phase, index, aborted, resp, result, lines>>
    BY DEF Unwind
  <1>2. Panicking
    BY <1>1, InPanic
  <1>3. /\ Len(frames) \in Nat \ {0} /\ Top = Held(req.route, Len(frames))
        /\ Stack' /\ Len(frames') = Len(frames) - 1
    BY <1>1, <1>2, TopIs DEF Panicking
  <1>4. req.route # "rpc" => frames' # <<>>
    <2>1. req.route # "rpc" => Held(req.route, 1) = "recovery"
      BY DEF Held, At, Size
    <2>2. req.route # "rpc" => Len(frames) # 1
      BY <1>1, <1>3, <2>1
    <2>. QED BY <1>3, <2>2, NoneLeft DEF Stack
  <1>5. Shape'
    <2>1. caller' \in User \cup {None}
      BY <1>1 DEF Inv, Shape
    <2>. QED BY <1>1, <2>1 DEF Inv, Shape
  <1>6. Panicking'
    BY <1>1, <1>2, <1>3, <1>4, SameRequest DEF Panicking, Untouched
  <1>. QED BY <1>5, <1>6 DEF Inv

LEMMA RecoveryKeeps ==
    ASSUME Inv, RecoveryMiddleware
    PROVE  Inv'
  <1>1. /\ phase = "panic" /\ frames # <<>> /\ Top = "recovery"
        /\ phase' = "chain" /\ frames' = <<>> /\ aborted' = TRUE
        /\ lines' = Append(lines, Line("panic", None))
        /\ resp' = Written(500)
        /\ UNCHANGED <<req, index, caller, result>>
    BY DEF RecoveryMiddleware
  <1>2. Panicking
    BY <1>1, InPanic
  <1>3. req.route # "rpc"
    <2>1. /\ Top = Held(req.route, Len(frames))
          /\ Len(frames) \in Nat \ {0} /\ Len(frames) <= Deep(req.route)
      BY <1>1, <1>2, TopIs DEF Panicking, Stack
    <2>. QED BY <1>1, <2>1 DEF Held, At, Size, Deep, Depth
  <1>4. /\ resp' \in Answers /\ resp'.status = 500 /\ resp'.answers = resp.answers + 1
        /\ resp'.id = resp.id /\ resp'.identity = resp.identity
    BY <1>1, WrittenIs, 500 \in Nat DEF Inv
  <1>5. /\ resp.answers = 0 /\ result = Nothing /\ lines = <<>> /\ resp.status = 200
        /\ resp.identity = None
    BY <1>2 DEF Panicking, Untouched
  <1>6. lines' = <<PanicLine>>
    BY <1>1, <1>5 DEF Line, PanicLine
  <1>7. Shape'
    BY <1>1, <1>4 DEF Inv, Shape
  <1>8. /\ resp'.answers = 1 /\ resp'.id /\ resp'.identity = None
        /\ result' = Nothing /\ req' \in Requests
    BY <1>1, <1>2, <1>3, <1>4, <1>5 DEF Panicking
  <1>9. Out' /\ req'.route \notin {"rpc", "unknown"}
    BY <1>1, <1>2, <1>3 DEF Out, Panicking
  <1>10. Recovered'
    BY <1>1, <1>4, <1>6, <1>8, <1>9 DEF Recovered
  <1>. QED BY <1>7, <1>10 DEF Inv

LEMMA CrashKeeps ==
    ASSUME Inv, Crash
    PROVE  Inv'
  <1>1. /\ phase = "panic" /\ frames = <<>> /\ phase' = "crashed"
        /\ UNCHANGED <<req, index, frames, aborted, caller, resp, result, lines>>
    BY DEF Crash
  <1>2. Panicking
    BY <1>1, InPanic
  <1>3. Shape'
    BY <1>1 DEF Inv, Shape
  <1>4. Crashed'
    BY <1>1, <1>2 DEF Panicking, Crashed, Untouched
  <1>. QED BY <1>3, <1>4 DEF Inv

-----------------------------------------------------------------------------
(* The invariant holds.                                                    *)

LEMMA InitInv == Init => Inv
  <1>. SUFFICES ASSUME Init
                PROVE  Inv
    OBVIOUS
  <1>1. resp \in Answers /\ result \in Outcomes
    BY DEF Init, Fresh, Nothing, Answers, Outcomes, Results
  <1>2. index \in Nat \ {0} /\ caller \in User \cup {None}
    BY DEF Init
  <1>3. aborted \in BOOLEAN
    BY DEF Init
  <1>. QED BY <1>1, <1>2, <1>3 DEF Inv, Shape

LEMMA ArriveKeeps ==
    ASSUME Inv, NEW q \in Requests, Arrive(q)
    PROVE  Inv'
  <1>1. Init
    BY DEF Inv, Arrive, GoingIn, Panicking, GoingOut, Out, Recovered, Crashed
  <1>2. /\ req' = q /\ phase' = "chain" /\ index' = 1 /\ frames' = <<>> /\ aborted' = FALSE
        /\ caller' = None /\ result' = Nothing /\ lines' = <<>>
        /\ resp' = Fresh(IF q.route = "unknown" THEN 404 ELSE 200)
    BY <1>1 DEF Arrive, Init
  <1>3. Shape'
    <2>1. resp' \in Answers /\ result' \in Outcomes
      BY <1>2 DEF Fresh, Nothing, Answers, Outcomes, Results
    <2>2. index' \in Nat \ {0} /\ caller' \in User \cup {None}
      BY <1>2
    <2>3. aborted' \in BOOLEAN
      BY <1>2
    <2>. QED BY <2>1, <2>2, <2>3 DEF Shape
  <1>4. Stack' /\ Len(frames') = 0
    BY <1>2, NoneLeft, SizeIsNat DEF Stack
  <1>5. Untouched'
    BY <1>2 DEF Untouched, Fresh
  <1>6. Passed'
    BY <1>2 DEF Passed, Known
  <1>7. 1 <= Size(q.route) /\ Depth(1) = 0
    BY DEF Size, Depth
  <1>8. GoingIn'
    BY <1>2, <1>4, <1>5, <1>6, <1>7 DEF GoingIn
  <1>. QED BY <1>3, <1>8 DEF Inv

LEMMA NextKeeps == Inv /\ [Next]_vars => Inv'
  <1>. SUFFICES ASSUME Inv, [Next]_vars
                PROVE  Inv'
    OBVIOUS
  <1>1. CASE \E q \in Requests : Arrive(q)
    BY <1>1, ArriveKeeps
  <1>2. CASE Middleware
    <2>1. CASE Enters \/ HTTPResponseIDMiddleware \/ Cors
      BY <2>1, EntersKeeps, ResponseIDKeeps, CorsKeeps
    <2>2. CASE RequireRole("requireUser", {"user"}) \/ RequireRole("requireAny", {})
      BY <2>2, RequireRoleKeeps
    <2>3. CASE RequireInternalNetwork
      BY <2>3, InternalNetworkKeeps
    <2>4. CASE AccessLog \/ AuditLog \/ OtherBack
      BY <2>4, WayOutKeeps
    <2>5. CASE RecoveryMiddleware \/ Unwind
      BY <2>5, RecoveryKeeps, UnwindKeeps
    <2>. QED BY <1>2, <2>1, <2>2, <2>3, <2>4, <2>5 DEF Middleware
  <1>3. CASE Handler
    BY <1>3, ClerkKeeps, CallbackKeeps, AuthForwardKeeps, OthersKeep DEF Handler
  <1>4. CASE Panics \/ Answered \/ Crash
    BY <1>4, PanicsKeeps, AnsweredKeeps, CrashKeeps
  <1>5. CASE Leave
    <2>1. Init'
      BY <1>5 DEF Leave, Init
    <2>2. resp' \in Answers /\ result' \in Outcomes
      BY <2>1 DEF Init, Fresh, Nothing, Answers, Outcomes, Results
    <2>3. index' \in Nat \ {0} /\ caller' \in User \cup {None}
      BY <2>1 DEF Init
    <2>4. aborted' \in BOOLEAN
      BY <2>1 DEF Init
    <2>. QED BY <2>1, <2>2, <2>3, <2>4 DEF Inv, Shape
  <1>6. CASE UNCHANGED vars
    <2>1. UNCHANGED <<req, phase, index, frames, aborted, caller, resp, result, lines>>
      BY <1>6 DEF vars
    <2>2. Shape'
      BY <2>1 DEF Inv, Shape
    <2>3. Init => Init'
      BY <2>1 DEF Init
    <2>4. GoingIn => GoingIn'
      BY <2>1, SameRequest DEF GoingIn, Stack, Untouched, Passed, Known
    <2>5. Panicking => Panicking'
      BY <2>1, SameRequest DEF Panicking, Stack, Untouched
    <2>6. GoingOut => GoingOut'
      BY <2>1, SameRequest
      DEF GoingOut, Stack, Out, LinesAt, AuditLine, AccessLine, Verified, Told
    <2>7. (Recovered => Recovered') /\ (Crashed => Crashed')
      BY <2>1 DEF Recovered, Out, Crashed, Untouched
    <2>. QED BY <2>2, <2>3, <2>4, <2>5, <2>6, <2>7 DEF Inv
  <1>. QED BY <1>1, <1>2, <1>3, <1>4, <1>5, <1>6 DEF Next

\* Every state a request leads to is one of the phases of Inv: it goes in through
\* the chain of its route, comes back out of it, or panicked and was recovered.
THEOREM InvHolds == Spec => []Inv
  <1>. QED BY InitInv, NextKeeps, PTL DEF Spec

-----------------------------------------------------------------------------
(* What the runs check of Edge.                                            *)

\* The lines of a request that is answered.
LEMMA LinesOf ==
    ASSUME Inv, Done
    PROVE  /\ GoingOut \/ Recovered
           /\ req \in Requests /\ frames = <<>> /\ Len(frames) = 0
           /\ Recovered => lines = <<PanicLine>> /\ Panicked
           /\ GoingOut => lines = LinesAt(0) /\ ~Panicked
  <1>1. GoingOut \/ Recovered
    BY DEF Inv, Done, Init, GoingIn, Panicking, Crashed
  <1>2. req \in Requests /\ frames = <<>> /\ Len(frames) = 0
    BY <1>1, NoneLeft DEF GoingOut, Recovered, Done
  <1>3. Recovered => lines = <<PanicLine>> /\ Panicked
    BY DEF Recovered, Panicked, PanicLine
  <1>4. GoingOut => lines = LinesAt(0)
    BY <1>2 DEF GoingOut
  <1>5. GoingOut => ~Panicked
    BY <1>4 DEF LinesAt, Panicked, AuditLine, AccessLine
  <1>. QED BY <1>1, <1>2, <1>3, <1>4, <1>5

\* The shape of the state, for any users.
THEOREM TypeOKHolds == Spec => []TypeOK
  <1>1. ASSUME Inv
        PROVE  TypeOK
    <2>1. req \in Requests \cup {None} /\ phase \in {"idle", "chain", "panic", "done", "crashed"}
      BY <1>1 DEF Inv, Init, GoingIn, Panicking, GoingOut, Out, Recovered, Crashed
    <2>2. /\ aborted \in BOOLEAN /\ caller \in User \cup {None}
          /\ resp.answers \in Nat /\ resp.id \in BOOLEAN /\ resp.identity \in User \cup {None}
          /\ result \in [is : Results, caller : User \cup {None}]
      BY <1>1 DEF Inv, Shape, Answers, Outcomes
    <2>3. Len(lines) <= 2
      <3>1. lines = <<>> \/ lines = <<PanicLine>> \/ GoingOut
        BY <1>1 DEF Inv, Init, GoingIn, Panicking, Recovered, Crashed, Untouched
      <3>2. GoingOut => \/ lines = <<>> \/ lines = <<AccessLine>> \/ lines = <<AuditLine>>
                        \/ lines = <<AuditLine, AccessLine>>
        BY DEF GoingOut, LinesAt
      <3>3. ASSUME NEW a, lines = <<>> \/ lines = <<a>>
            PROVE  Len(lines) <= 2
        BY <3>3
      <3>4. ASSUME NEW a, NEW b, lines = <<a, b>>
            PROVE  Len(lines) <= 2
        BY <3>4
      <3>. QED BY <3>1, <3>2, <3>3, <3>4
    <2>. QED BY <2>1, <2>2, <2>3 DEF TypeOK
  <1>. QED BY <1>1, InvHolds, PTL

\* Whatever the chain does with a request, it is answered once at most, and every
\* answered request on a business route leaves exactly one closing line.
THEOREM OneAnswerOneLineHolds == Spec => []OneAnswerOneLine
  <1>1. ASSUME Inv
        PROVE  OneAnswerOneLine
    <2>1. resp.answers <= 1
      BY <1>1 DEF Inv, Init, Fresh, GoingIn, Panicking, GoingOut, Recovered, Crashed, Untouched
    <2>2. ASSUME Done
          PROVE  LET closing == Logged({"access", "panic"})
                 IN  /\ req.route # "rpc" => resp.id
                     /\ IF Panicked \/ (PastCors /\ req.route \in Business)
                        THEN \E i \in DOMAIN lines : closing = {i}
                        ELSE closing = {}
                     /\ ~Panicked => \A i \in closing : lines[i].status = resp.status
      <3>. DEFINE closing == Logged({"access", "panic"})
      <3>1. CASE Recovered
        <4>1. lines = <<PanicLine>> /\ Panicked /\ resp.id
          BY <1>1, <2>2, <3>1, LinesOf DEF Recovered
        <4>2. DOMAIN lines = {1} /\ closing = {1}
          BY <4>1 DEF Logged, PanicLine
        <4>. QED BY <4>1, <4>2
      <3>2. CASE GoingOut
        <4>1. lines = LinesAt(0) /\ ~Panicked /\ (req.route # "rpc" => resp.id)
          BY <1>1, <2>2, <3>2, LinesOf DEF GoingOut
        <4>2. CASE ~(PastCors /\ req.route \in Business)
          <5>1. closing = {}
            BY <4>1, <4>2 DEF LinesAt, Logged
          <5>. QED BY <4>1, <4>2, <5>1
        <4>3. CASE PastCors /\ req.route \in Business /\ req.route # "currentUser"
          <5>1. lines = <<AccessLine>>
            BY <4>1, <4>3 DEF LinesAt
          <5>2. DOMAIN lines = {1} /\ closing = {1} /\ lines[1].status = resp.status
            BY <5>1 DEF Logged, AccessLine
          <5>. QED BY <4>1, <4>3, <5>2
        <4>4. CASE PastCors /\ req.route = "currentUser"
          <5>1. lines = <<AuditLine, AccessLine>>
            BY <4>1, <4>4 DEF LinesAt, Business, Guarded
          <5>2. DOMAIN lines = {1, 2} /\ closing = {2} /\ lines[2].status = resp.status
            BY <5>1 DEF Logged, AccessLine, AuditLine
          <5>. QED BY <4>1, <4>4, <5>2 DEF Business, Guarded
        <4>. QED BY <4>2, <4>3, <4>4
      <3>. QED BY <1>1, <2>2, <3>1, <3>2, LinesOf
    <2>. QED BY <2>1, <2>2 DEF OneAnswerOneLine
  <1>. QED BY <1>1, InvHolds, PTL

\* Every request that reached an admin route and did not panic is audited once,
\* with the status answered and what its headers claim.
THEOREM AuditedOnceHolds == Spec => []AuditedOnce
  <1>1. ASSUME Inv
        PROVE  AuditedOnce
    <2>. SUFFICES ASSUME Done, req.route = "currentUser", PastCors, ~Panicked
                  PROVE  \E i \in DOMAIN lines :
                            /\ Logged({"audit"}) = {i}
                            /\ lines[i].status = resp.status /\ lines[i].user = UserFromHeaders
      BY DEF AuditedOnce
    <2>1. lines = LinesAt(0)
      BY <1>1, LinesOf
    <2>2. lines = <<AuditLine, AccessLine>>
      BY <2>1 DEF LinesAt, Business, Guarded
    <2>3. /\ DOMAIN lines = {1, 2} /\ Logged({"audit"}) = {1}
          /\ lines[1].status = resp.status /\ lines[1].user = UserFromHeaders
      BY <2>2 DEF Logged, AccessLine, AuditLine
    <2>. QED BY <2>3
  <1>. QED BY <1>1, InvHolds, PTL

\* Nothing is done for anybody the middlewares and the handler did not verify.
THEOREM ActsForVerifiedHolds == Spec => []ActsForVerified
  <1>1. ASSUME Inv
        PROVE  ActsForVerified
    <2>1. result = Nothing \/ GoingOut
      BY <1>1 DEF Inv, Init, GoingIn, Panicking, Recovered, Crashed, Untouched
    <2>. QED BY <2>1 DEF GoingOut, Verified, ActsForVerified
  <1>. QED BY <1>1, InvHolds, PTL

\* What is answered tells what became of the request: by its status, or on
\* /auth/forward, which answers 200 whatever its caller is, by its headers.
THEOREM AnswerTellsOutcomeHolds == Spec => []AnswerTellsOutcome
  <1>1. ASSUME Inv
        PROVE  AnswerTellsOutcome
    <2>. SUFFICES ASSUME Done, req.route # "rpc"
                  PROVE  AnswerTellsOutcome
      BY DEF AnswerTellsOutcome
    <2>1. CASE Recovered
      <3>1. resp.status = 500 /\ Panicked /\ resp.identity = None /\ result.is = "none"
        BY <1>1, <2>1, LinesOf DEF Recovered, Nothing
      <3>. QED BY <3>1 DEF AnswerTellsOutcome
    <2>2. CASE GoingOut
      <3>1. Told /\ ~Panicked
        BY <1>1, <2>2, LinesOf DEF GoingOut
      <3>2. req.route = "clerk" =>
                (FailsAt(<<"svixHeaders", "body", "secret">>, "secret") <=> NoSecret)
        BY ClerkFails
      <3>3. NoSecret => req.route = "clerk"
        BY DEF NoSecret
      <3>4. resp.status >= 500 <=>
               \/ Panicked
               \/ result.is = "failed" /\ req.route # "forward"
               \/ /\ req.route = "clerk" /\ result = Nothing /\ PastCors
                  /\ FailsAt(<<"svixHeaders", "body", "secret">>, "secret")
        BY <3>1, <3>2, <3>3 DEF Told
      <3>. QED BY <3>1, <3>4 DEF Told, AnswerTellsOutcome
    <2>. QED BY <1>1, <2>1, <2>2, LinesOf
  <1>. QED BY <1>1, InvHolds, PTL

=============================================================================
