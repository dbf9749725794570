--------------------------- MODULE KycFlowProofs ---------------------------
(***************************************************************************)
(* What holds of KycFlow for any number of callbacks, states, users and    *)
(* faults, any time to live and any clock.                                 *)
(***************************************************************************)
EXTENDS KycFlow, FiniteSetTheorems, TLAPS

-----------------------------------------------------------------------------
(* Type correctness, with what each pc says of a callback.                 *)

Login == [state : States, uid : UserId, email : Emails \cup {None}, expires : Nat]
Event == [uid : UserId, status : {"PASSED", "FAILED"}, state : States]
Write == [state : States, uid : UserId, status : {"PASSED", "FAILED"},
          email : Emails \cup {None}]
Callback == [pc : CallbackPCs, state : States \cup {None}, uid : Nat,
             email : Emails \cup {None}, status : {"PASSED", "FAILED", None}]

\* A callback that runs has a login, and once Singpass answered a status.
WellFormed(r) ==
    /\ r \in Callback
    /\ r.pc # "idle" => r.state \in States /\ r.uid \in UserId
    /\ r.pc \in {"update", "invalidate", "publish"} => r.status \in {"PASSED", "FAILED"}

CallbacksTyped ==
    /\ cb \in [Callbacks -> Callback]
    /\ \A h \in Callbacks : WellFormed(cb[h])

LoginsTyped == items \subseteq Login /\ now \in 0..MaxTime

HistoryTyped ==
    /\ issued \subseteq Login
    /\ used \in Seq(States)
    /\ writes \in Seq(Write)
    /\ crossed \subseteq States \X States
    /\ lost \subseteq States

Typed ==
    StoreTypeOK /\ kycTopic \in Seq(Event) /\ LoginsTyped /\ CallbacksTyped /\ HistoryTyped

LEMMA TypedIsTypeOK == Typed => TypeOK
  BY DEF Typed, TypeOK, LoginsTyped, CallbacksTyped, HistoryTyped, Login, Event, Write,
         Callback

LEMMA IdleWellFormed == WellFormed(IdleCallback)
  BY DEF WellFormed, IdleCallback, Serving, Callback, CallbackPCs

LEMMA BecomesTyped ==
    ASSUME CallbacksTyped, NEW h \in Callbacks, NEW to, WellFormed(to), Becomes(h, to)
    PROVE  CallbacksTyped'
  BY DEF CallbacksTyped, WellFormed, Becomes

LEMMA TypedInit == Init => Typed
  <1>. SUFFICES ASSUME Init PROVE Typed
    OBVIOUS
  <1>1. StoreTypeOK
    <2>1. Cardinality(Accounts) \in Nat
      BY AccountsAssumption, FS_CardinalityType
    <2>2. PICK name \in Names : users = [u \in {a.uid : a \in Accounts} |-> NewUser(name)]
      BY DEF Init, InitRegistered
    <2>3. NewUser(name) \in UserRow
      BY DEF NewUser, UserRow, KycStatuses
    <2>4. {a.uid : a \in Accounts} \subseteq UserId
      BY AccountsAssumption DEF MappingRow
    <2>5. users \in [DOMAIN users -> UserRow] /\ DOMAIN users \subseteq UserId
      BY <2>2, <2>3, <2>4
    <2>6. nextId \in UserId
      BY <2>1 DEF Init, InitRegistered, UserId
    <2>7. registeredTopic \in Seq(UserId) /\ faults \in 0..MaxFaults
      BY MaxFaultsAssumption DEF Init, InitRegistered
    <2>. QED
      BY <2>5, <2>6, <2>7, AccountsAssumption DEF Init, InitRegistered, StoreTypeOK
  <1>2. CallbacksTyped
    BY IdleWellFormed DEF Init, CallbacksTyped, WellFormed
  <1>. QED
    BY <1>1, <1>2, MaxTimeAssumption
    DEF Init, InitRegistered, Typed, LoginsTyped, HistoryTyped

\* The store of the pending logins only ever keeps what it had or was given.
LEMMA StoreKeeps ==
    ASSUME LoginsTyped, NEW t \in LaterTimes, NEW s
    PROVE  /\ Take(s, t) => items' \subseteq items /\ LoginsTyped'
           /\ Lookup(s) \subseteq items
           /\ \A item \in Lookup(s) : item.state = s
           /\ Take(s, t) => \A x \in items' : x.state # s
  BY MaxTimeAssumption DEF LoginsTyped, LaterTimes, Take, Lookup, PurgeExpired

LEMMA StoreSaves ==
    ASSUME LoginsTyped, NEW t \in LaterTimes, NEW s \in States, NEW u \in UserId,
           NEW email \in Emails \cup {None}, Save(s, u, email, t)
    PROVE  /\ [state |-> s, uid |-> u, email |-> email, expires |-> now + TTL] \in Login
           /\ items' \subseteq items \cup
                {[state |-> s, uid |-> u, email |-> email, expires |-> now + TTL]}
           /\ LoginsTyped'
  <1>1. now + TTL \in Nat
    BY TTLAssumption, MaxTimeAssumption DEF LoginsTyped
  <1>2. [state |-> s, uid |-> u, email |-> email, expires |-> now + TTL] \in Login
    BY <1>1 DEF Login
  <1>3. items' \subseteq items \cup
                {[state |-> s, uid |-> u, email |-> email, expires |-> now + TTL]}
    BY DEF Save, PurgeExpired
  <1>4. now' \in 0..MaxTime
    BY MaxTimeAssumption DEF Save, LaterTimes, LoginsTyped
  <1>. QED
    BY <1>2, <1>3, <1>4 DEF LoginsTyped

LEMMA ToldTyped ==
    ASSUME CallbacksTyped, NEW g \in Callbacks, Telling(g)
    PROVE  cb[g].state \in States
  BY DEF CallbacksTyped, WellFormed, Telling

\* A KYC write keeps the tables and the histories well formed.
LEMMA WriteTyped ==
    ASSUME Typed, NEW h \in Callbacks, cb[h].pc = "update", WriteStatus(h)
    PROVE  /\ users' \in [DOMAIN users' -> UserRow]
           /\ DOMAIN users' = DOMAIN users
           /\ [state |-> cb[h].state, uid |-> cb[h].uid, status |-> cb[h].status,
               email |-> cb[h].email] \in Write
           /\ writes' \in Seq(Write)
           /\ crossed' \subseteq States \X States
           /\ cb[h].state \in States
  <1>1. /\ cb[h] \in Callback
        /\ cb[h].state \in States /\ cb[h].uid \in UserId
        /\ cb[h].status \in {"PASSED", "FAILED"} /\ cb[h].email \in Emails \cup {None}
    BY DEF Typed, CallbacksTyped, WellFormed, Callback
  <1>2. \A u \in DOMAIN users : [users[u] EXCEPT !.kyc = cb[h].status] \in UserRow
    BY <1>1 DEF Typed, StoreTypeOK, UserRow, KycStatuses
  <1>3. users' \in [DOMAIN users' -> UserRow] /\ DOMAIN users' = DOMAIN users
    BY <1>2 DEF WriteStatus, Typed, StoreTypeOK
  <1>4. [state |-> cb[h].state, uid |-> cb[h].uid, status |-> cb[h].status,
         email |-> cb[h].email] \in Write
    BY <1>1 DEF Write
  <1>5. writes' \in Seq(Write)
    BY <1>4 DEF WriteStatus, Typed, HistoryTyped
  <1>6. crossed' \subseteq States \X States
    <2>1. \A g \in Callbacks : Telling(g) => <<cb[g].state, cb[h].state>> \in States \X States
      BY <1>1, ToldTyped DEF Typed
    <2>. QED BY <2>1 DEF WriteStatus, Typed, HistoryTyped
  <1>. QED BY <1>1, <1>3, <1>4, <1>5, <1>6

LEMMA EventTyped ==
    ASSUME CallbacksTyped, NEW h \in Callbacks, cb[h].pc = "publish"
    PROVE  EventOf(h) \in Event
  BY DEF CallbacksTyped, WellFormed, Callback, EventOf, Event

\* Going on to a step that asks nothing more of the callback.
LEMMA AdvanceTyped ==
    ASSUME CallbacksTyped, NEW h \in Callbacks, cb[h].pc # "idle", NEW pc \in CallbackPCs,
           pc \in {"update", "invalidate", "publish"}
             => cb[h].pc \in {"update", "invalidate", "publish"}
    PROVE  WellFormed([cb[h] EXCEPT !.pc = pc])
  BY DEF CallbacksTyped, WellFormed, Callback

LEMMA TypedStep == Typed /\ [Next]_vars => Typed'
  <1>. SUFFICES ASSUME Typed, [Next]_vars PROVE Typed'
    OBVIOUS
  <1>0. StoreTypeOK /\ kycTopic \in Seq(Event) /\ LoginsTyped /\ CallbacksTyped /\ HistoryTyped
    BY DEF Typed
  <1>a. storeVars' = storeVars => StoreTypeOK' /\ kycTopic' \in Seq(Event)
    BY <1>0 DEF storeVars, StoreTypeOK
  <1>b. <<items, now>>' = <<items, now>> => LoginsTyped'
    BY <1>0 DEF LoginsTyped
  <1>c. historyVars' = historyVars => HistoryTyped'
    BY <1>0 DEF historyVars, writeVars, HistoryTyped
  <1>d. Fault => faults' \in 0..MaxFaults
    BY <1>0, MaxFaultsAssumption DEF Fault, StoreTypeOK
  <1>1. ASSUME NEW s \in States, NEW u \in DOMAIN users, NEW t \in LaterTimes,
               NEW email \in LoginEmails(u), StartSingpassLogin(s, u, email, t)
        PROVE  Typed'
    <2>1. u \in UserId /\ email \in Emails \cup {None}
      BY <1>0 DEF StoreTypeOK, LoginEmails, MappingRow
    <2>2. LoginsTyped'
      BY <1>0, <1>1, <2>1, StoreSaves DEF StartSingpassLogin
    <2>3. HistoryTyped'
      BY <1>0, <1>1, <2>1, StoreSaves DEF StartSingpassLogin, writeVars, HistoryTyped
    <2>. QED
      BY <1>0, <1>a, <1>1, <2>2, <2>3 DEF StartSingpassLogin, Typed, CallbacksTyped
  <1>2. ASSUME NEW h \in Callbacks, NEW s \in States, NEW t \in LaterTimes,
               CallbackAccepted(h, s, t)
        PROVE  Typed'
    <2>1. PICK item \in Lookup(s) :
            ConsumeOk(s, t, item) /\ Becomes(h, Serving("token", s, item.uid, item.email, None))
      BY <1>2 DEF CallbackAccepted
    <2>2. LoginsTyped' /\ item \in Login
      BY <1>0, <2>1, StoreKeeps DEF ConsumeOk, LoginsTyped
    <2>3. WellFormed(Serving("token", s, item.uid, item.email, None))
      BY <2>2 DEF WellFormed, Serving, Login, Callback, CallbackPCs, UserId
    <2>4. CallbacksTyped'
      BY <1>0, <2>1, <2>3, BecomesTyped
    <2>5. HistoryTyped'
      BY <1>0, <1>2 DEF CallbackAccepted, writeVars, HistoryTyped
    <2>. QED
      BY <1>a, <1>2, <2>2, <2>4, <2>5 DEF CallbackAccepted, Typed
  <1>3. ASSUME NEW h \in Callbacks, NEW s \in States, NEW t \in LaterTimes,
               CallbackRefused(h, s, t)
        PROVE  Typed'
    <2>1. LoginsTyped'
      BY <1>0, <1>3, StoreKeeps DEF CallbackRefused, ConsumeFails
    <2>. QED
      BY <1>0, <1>a, <1>c, <1>3, <2>1 DEF CallbackRefused, Typed, CallbacksTyped
  <1>4. ASSUME NEW h \in Callbacks, GetAccessToken(h) PROVE Typed'
    <2>1. CallbacksTyped'
      <3>1. WellFormed([cb[h] EXCEPT !.pc = "userInfo"])
        BY <1>0, <1>4, AdvanceTyped DEF GetAccessToken, CallbackPCs
      <3>. QED BY <1>0, <1>4, <3>1, BecomesTyped DEF GetAccessToken
    <2>. QED BY <1>a, <1>b, <1>c, <1>4, <2>1 DEF GetAccessToken, Typed
  <1>5. ASSUME NEW h \in Callbacks, GetUserInfo(h) PROVE Typed'
    <2>1. PICK info \in UserInfos :
            Becomes(h, IF EmailMismatch(cb[h].email, info.email)
                       THEN IdleCallback
                       ELSE Serving("update", cb[h].state, cb[h].uid, info.email,
                                    IF info.name # None THEN "PASSED" ELSE "FAILED"))
      BY <1>5 DEF GetUserInfo
    <2>2. info.email \in Emails \cup {None}
      BY UserInfosAssumption
    <2>3. cb[h].state \in States /\ cb[h].uid \in UserId
      BY <1>0, <1>5 DEF GetUserInfo, CallbacksTyped, WellFormed
    <2>4. WellFormed(Serving("update", cb[h].state, cb[h].uid, info.email,
                             IF info.name # None THEN "PASSED" ELSE "FAILED"))
      BY <2>2, <2>3 DEF WellFormed, Serving, Callback, CallbackPCs, UserId
    <2>5. CallbacksTyped'
      <3>1. CASE EmailMismatch(cb[h].email, info.email)
        BY <1>0, <2>1, <3>1, IdleWellFormed, BecomesTyped
      <3>2. CASE ~EmailMismatch(cb[h].email, info.email)
        BY <1>0, <2>1, <2>4, <3>2, BecomesTyped
      <3>. QED BY <3>1, <3>2
    <2>. QED BY <1>a, <1>b, <1>c, <1>5, <2>5 DEF GetUserInfo, Typed
  <1>6. ASSUME NEW h \in Callbacks, UpdateKYCStatus(h) PROVE Typed'
    <2>1. CallbacksTyped'
      <3>1. WellFormed([cb[h] EXCEPT !.pc = "invalidate"])
        BY <1>0, <1>6, AdvanceTyped DEF UpdateKYCStatus, CallbackPCs
      <3>. QED BY <1>0, <1>6, <3>1, BecomesTyped DEF UpdateKYCStatus
    <2>2. StoreTypeOK' /\ kycTopic' \in Seq(Event)
      BY <1>0, <1>6, WriteTyped DEF UpdateKYCStatus, StoreTypeOK, topicVars
    <2>3. HistoryTyped'
      BY <1>0, <1>6, WriteTyped DEF UpdateKYCStatus, HistoryTyped
    <2>. QED BY <1>b, <1>6, <2>1, <2>2, <2>3 DEF UpdateKYCStatus, Typed
  <1>7. ASSUME NEW h \in Callbacks, InvalidateCached(h) PROVE Typed'
    <2>1. CallbacksTyped'
      <3>1. WellFormed([cb[h] EXCEPT !.pc = "publish"])
        BY <1>0, <1>7, AdvanceTyped DEF InvalidateCached, CallbackPCs
      <3>. QED BY <1>0, <1>7, <3>1, BecomesTyped DEF InvalidateCached
    <2>2. StoreTypeOK' /\ kycTopic' \in Seq(Event)
      BY <1>0, <1>7
      DEF InvalidateCached, InvalidateUserProfileCache, ProfileCacheWithout, StoreTypeOK,
          dbVars, topicVars
    <2>. QED BY <1>b, <1>c, <1>7, <2>1, <2>2 DEF InvalidateCached, Typed
  <1>8. ASSUME NEW h \in Callbacks, PublishUserKYCComplete(h) PROVE Typed'
    <2>1. CallbacksTyped'
      BY <1>0, <1>8, IdleWellFormed, BecomesTyped DEF PublishUserKYCComplete
    <2>2. StoreTypeOK' /\ kycTopic' \in Seq(Event)
      BY <1>0, <1>8, EventTyped DEF PublishUserKYCComplete, Delivered, StoreTypeOK, dbVars
    <2>. QED BY <1>b, <1>c, <1>8, <2>1, <2>2 DEF PublishUserKYCComplete, Typed
  <1>9. ASSUME NEW h \in Callbacks, SingpassFails(h) PROVE Typed'
    <2>1. CallbacksTyped'
      BY <1>0, <1>9, IdleWellFormed, BecomesTyped DEF SingpassFails
    <2>. QED BY <1>a, <1>b, <1>c, <1>9, <2>1 DEF SingpassFails, Typed
  <1>10. ASSUME NEW h \in Callbacks, UpdateFails(h) PROVE Typed'
    <2>1. CallbacksTyped'
      BY <1>0, <1>10, IdleWellFormed, BecomesTyped DEF UpdateFails
    <2>2. StoreTypeOK' /\ kycTopic' \in Seq(Event)
      BY <1>0, <1>d, <1>10 DEF UpdateFails, StoreTypeOK, dbVars, topicVars
    <2>. QED BY <1>b, <1>c, <1>10, <2>1, <2>2 DEF UpdateFails, Typed
  <1>11. ASSUME NEW h \in Callbacks, UpdateReplyLost(h) PROVE Typed'
    <2>1. CallbacksTyped'
      BY <1>0, <1>11, IdleWellFormed, BecomesTyped DEF UpdateReplyLost
    <2>2. StoreTypeOK' /\ kycTopic' \in Seq(Event)
      BY <1>0, <1>d, <1>11, WriteTyped DEF UpdateReplyLost, StoreTypeOK, topicVars
    <2>3. HistoryTyped'
      BY <1>0, <1>11, WriteTyped DEF UpdateReplyLost, HistoryTyped
    <2>. QED BY <1>b, <1>11, <2>1, <2>2, <2>3 DEF UpdateReplyLost, Typed
  <1>12. ASSUME NEW h \in Callbacks, PublishFails(h) PROVE Typed'
    <2>1. CallbacksTyped'
      BY <1>0, <1>12, IdleWellFormed, BecomesTyped DEF PublishFails
    <2>2. StoreTypeOK'
      BY <1>0, <1>d, <1>12 DEF PublishFails, StoreTypeOK, dbVars
    <2>3. kycTopic' \in Seq(Event)
      <3>1. EventOf(h) \in Event /\ kycTopic \in Seq(Event)
        BY <1>0, <1>12, EventTyped DEF PublishFails
      <3>. QED BY <1>12, <3>1 DEF PublishFails
    <2>4. HistoryTyped'
      <3>1. cb[h].state \in States
        BY <1>0, <1>12, ToldTyped DEF PublishFails, Telling
      <3>. QED BY <1>0, <1>12, <3>1 DEF PublishFails, HistoryTyped
    <2>. QED BY <1>b, <1>12, <2>1, <2>2, <2>3, <2>4 DEF PublishFails, Typed
  <1>13. CASE TimePasses
    <2>1. LoginsTyped'
      BY <1>0, <1>13, MaxTimeAssumption DEF TimePasses, Tick, LoginsTyped
    <2>. QED BY <1>0, <1>a, <1>c, <1>13, <2>1 DEF TimePasses, Typed, CallbacksTyped
  <1>14. CASE Restart
    <2>1. CallbacksTyped'
      BY <1>14, IdleWellFormed DEF Restart, LoginsLost, CallbacksTyped, WellFormed
    <2>2. StoreTypeOK' /\ kycTopic' \in Seq(Event)
      BY <1>0, <1>d, <1>14 DEF Restart, StoreTypeOK, dbVars, topicVars
    <2>3. LoginsTyped'
      BY <1>0, <1>14 DEF Restart, LoginsLost, LoginsTyped
    <2>4. HistoryTyped'
      BY <1>0, <1>14, ToldTyped DEF Restart, LoginsLost, HistoryTyped
    <2>. QED BY <1>14, <2>1, <2>2, <2>3, <2>4 DEF Restart, LoginsLost, Typed
  <1>15. CASE UNCHANGED vars
    BY <1>0, <1>a, <1>b, <1>c, <1>15 DEF vars, kycVars, Typed, CallbacksTyped
  <1>. QED
    BY <1>1, <1>2, <1>3, <1>4, <1>5, <1>6, <1>7, <1>8, <1>9, <1>10, <1>11, <1>12, <1>13,
       <1>14, <1>15
    DEF Next, Step, CallbackStep, CallbackFailure

LEMMA AlwaysTyped == Spec => []Typed
  BY TypedInit, TypedStep, PTL DEF Spec

\* Every state of the Singpass flow is well formed, for any number of logins,
\* callbacks and faults.
THEOREM TypeCorrect == Spec => []TypeOK
  BY AlwaysTyped, TypedIsTypeOK, PTL

-----------------------------------------------------------------------------
(* The inductive invariant.  That a login decides once depends on what its *)
(* state went through: issued, then pending, then used, then held by one   *)
(* callback until it is written, then told.                                *)

Used(s) == \E i \in DOMAIN used : used[i] = s
Written(s) == \E j \in DOMAIN writes : writes[j].state = s
Running(h) == cb[h].pc # "idle"

\* The login a asked for an identity with the address email.
Agrees(a, email) == a.email # None => EmailsMatchForKYC(a.email, email)

\* A state is issued once, and is pending only before it is used.
LoginsOK ==
    /\ \A a, b \in issued : a.state = b.state => a = b
    /\ items \subseteq issued
    /\ \A x \in items : ~Used(x.state)
    /\ \A s : Used(s) => \E a \in issued : a.state = s

\* What a callback r before its write holds of its login.
DecidesOK(r) ==
    r.pc \in {"token", "userInfo", "update"} =>
        /\ Used(r.state) /\ ~Written(r.state)
        /\ \E a \in issued :
             /\ a.state = r.state /\ a.uid = r.uid
             /\ IF r.pc = "update" THEN Agrees(a, r.email) ELSE a.email = r.email

\* What a callback r after its write is about to tell.
TellsOK(r) ==
    r.pc \in {"invalidate", "publish"} =>
        /\ \E j \in DOMAIN writes :
             /\ writes[j].state = r.state /\ writes[j].uid = r.uid
             /\ writes[j].status = r.status
        /\ \A i \in DOMAIN kycTopic : kycTopic[i].state # r.state
        /\ \A j, k \in DOMAIN writes :
             writes[k].state = r.state /\ writes[j].uid = r.uid =>
                 j <= k \/ <<r.state, writes[j].state>> \in crossed

CallbacksOK ==
    /\ \A h \in Callbacks : DecidesOK(cb[h]) /\ TellsOK(cb[h])
    /\ \A g, h \in Callbacks :
         g # h /\ Running(g) /\ Running(h) => cb[g].state # cb[h].state

WritesOK ==
    /\ \A j \in DOMAIN writes :
         /\ Used(writes[j].state)
         /\ \E a \in issued : /\ a.state = writes[j].state /\ a.uid = writes[j].uid
                              /\ Agrees(a, writes[j].email)
    /\ \A j, k \in DOMAIN writes : writes[j].state = writes[k].state => j = k

EventsOK ==
    /\ \A i \in DOMAIN kycTopic : \E j \in DOMAIN writes :
         /\ writes[j].state = kycTopic[i].state
         /\ writes[j].uid = kycTopic[i].uid
         /\ writes[j].status = kycTopic[i].status
    /\ \A i, j \in DOMAIN kycTopic : kycTopic[i].state = kycTopic[j].state => i = j
    /\ \A i, j \in DOMAIN kycTopic :
         i < j /\ kycTopic[i].uid = kycTopic[j].uid =>
           \A k, l \in DOMAIN writes :
               writes[k].state = kycTopic[i].state /\ writes[l].state = kycTopic[j].state
                 => k < l \/ Crossed(kycTopic[j], kycTopic[i])

FlowInv == LoginsOK /\ CallbacksOK /\ WritesOK /\ EventsOK

LEMMA FlowInit == Init => FlowInv
  BY DEF Init, InitRegistered, FlowInv, LoginsOK, CallbacksOK, WritesOK, EventsOK,
         DecidesOK, TellsOK, IdleCallback, Serving, Used, Written, Running

\* What Append does to the elements of a sequence.
LEMMA Appended ==
    ASSUME NEW S, NEW q \in Seq(S), NEW e \in S, NEW r, r = Append(q, e)
    PROVE  /\ DOMAIN q = 1..Len(q) /\ Len(q) \in Nat
           /\ DOMAIN r = DOMAIN q \cup {Len(q) + 1}
           /\ r[Len(q) + 1] = e
           /\ \A i \in DOMAIN q : r[i] = q[i] /\ i \in Nat /\ i < Len(q) + 1
  OBVIOUS

\* A callback that goes on with its state, or ends, and touches no history.
LEMMA FlowMoves ==
    ASSUME CallbacksTyped, FlowInv, NEW h \in Callbacks, NEW to, Becomes(h, to),
           to.pc # "idle" => Running(h) /\ to.state = cb[h].state,
           DecidesOK(to), TellsOK(to),
           UNCHANGED <<items, issued, used, writes, crossed, kycTopic>>
    PROVE  FlowInv'
  <1>1. cb'[h] = to /\ \A g \in Callbacks \ {h} : cb'[g] = cb[g]
    BY DEF Becomes, CallbacksTyped
  <1>2. LoginsOK' /\ WritesOK' /\ EventsOK'
    BY DEF FlowInv, LoginsOK, WritesOK, EventsOK, Crossed, Used, Agrees
  <1>3. \A r : DecidesOK(r)' <=> DecidesOK(r)
    BY DEF DecidesOK, Used, Written, Agrees
  <1>4. \A g \in Callbacks : DecidesOK(cb'[g]) /\ TellsOK(cb'[g])
    BY <1>1 DEF FlowInv, CallbacksOK
  <1>5. \A g \in Callbacks : (DecidesOK(cb[g]) /\ TellsOK(cb[g]))'
    BY <1>4 DEF DecidesOK, TellsOK, Used, Written, Agrees
  <1>6. \A f, g \in Callbacks :
          f # g /\ Running(f)' /\ Running(g)' => cb'[f].state # cb'[g].state
    BY <1>1 DEF FlowInv, CallbacksOK, Running
  <1>. QED BY <1>2, <1>5, <1>6 DEF FlowInv, CallbacksOK

\* Nothing but the pending logins changes, and they only become fewer.
LEMMA FlowForgets ==
    ASSUME FlowInv, items' \subseteq items,
           UNCHANGED <<cb, issued, used, writes, crossed, kycTopic>>
    PROVE  FlowInv'
  BY DEF FlowInv, LoginsOK, CallbacksOK, WritesOK, EventsOK, DecidesOK, TellsOK, Crossed,
         Agrees, Used, Written, Running

LEMMA FlowStart ==
    ASSUME Typed, FlowInv, NEW s \in States, NEW u \in DOMAIN users, NEW t \in LaterTimes,
           NEW email \in LoginEmails(u), StartSingpassLogin(s, u, email, t)
    PROVE  FlowInv'
  <1>. DEFINE new == [state |-> s, uid |-> u, email |-> email, expires |-> now + TTL]
  <1>1. items' \subseteq items \cup {new}
    BY DEF StartSingpassLogin, Save, PurgeExpired
  <1>2. /\ issued' = issued \cup {new} /\ \A a \in issued : a.state # s
        /\ new.state = s
        /\ UNCHANGED <<cb, used, writes, crossed, kycTopic>>
    BY DEF StartSingpassLogin, storeVars, writeVars
  <1>. HIDE DEF new
  <1>3. LoginsOK'
    <2>1. ~Used(s)
      BY <1>2 DEF FlowInv, LoginsOK
    <2>. QED BY <1>1, <1>2, <2>1 DEF FlowInv, LoginsOK, Used
  <1>4. CallbacksOK'
    <2>1. \A g \in Callbacks : DecidesOK(cb[g])'
      BY <1>2 DEF FlowInv, CallbacksOK, DecidesOK, Used, Written, Agrees
    <2>2. \A g \in Callbacks : TellsOK(cb[g])'
      BY <1>2 DEF FlowInv, CallbacksOK, TellsOK
    <2>. QED BY <1>2, <2>1, <2>2 DEF FlowInv, CallbacksOK, Running
  <1>5. WritesOK'
    BY <1>2 DEF FlowInv, WritesOK, Used, Agrees
  <1>6. EventsOK'
    BY <1>2 DEF FlowInv, EventsOK, Crossed
  <1>. QED BY <1>3, <1>4, <1>5, <1>6 DEF FlowInv

LEMMA FlowAccepted ==
    ASSUME Typed, FlowInv, NEW h \in Callbacks, NEW s \in States, NEW t \in LaterTimes,
           CallbackAccepted(h, s, t)
    PROVE  FlowInv'
  <1>1. PICK item \in Lookup(s) :
          ConsumeOk(s, t, item) /\ Becomes(h, Serving("token", s, item.uid, item.email, None))
    BY DEF CallbackAccepted
  <1>2. /\ items' \subseteq items /\ \A x \in items' : x.state # s
        /\ item \in items /\ item.state = s
    BY <1>1, StoreKeeps DEF ConsumeOk, Typed
  <1>3. /\ used' = Append(used, s) /\ used \in Seq(States)
        /\ UNCHANGED <<issued, writes, crossed, kycTopic>>
    BY DEF CallbackAccepted, storeVars, writeVars, Typed, HistoryTyped
  <1>4. \A x : Used(x)' <=> Used(x) \/ x = s
    <2>1. /\ DOMAIN used' = DOMAIN used \cup {Len(used) + 1}
          /\ used'[Len(used) + 1] = s
          /\ \A i \in DOMAIN used : used'[i] = used[i]
      BY <1>3, Appended
    <2>. QED BY <2>1 DEF Used
  <1>5. ~Used(s) /\ ~Written(s)
    BY <1>2 DEF FlowInv, LoginsOK, WritesOK, Written
  <1>6. /\ cb'[h] = Serving("token", s, item.uid, item.email, None)
        /\ \A g \in Callbacks \ {h} : cb'[g] = cb[g]
    BY <1>1 DEF Becomes, Typed, CallbacksTyped
  <1>7. LoginsOK'
    BY <1>2, <1>3, <1>4 DEF FlowInv, LoginsOK
  <1>8. \A g \in Callbacks : DecidesOK(cb[g])'
    <2>1. DecidesOK(cb[h])'
      <3>1. item \in issued
        BY <1>2 DEF FlowInv, LoginsOK
      <3>. QED
        BY <1>2, <1>3, <1>4, <1>5, <1>6, <3>1 DEF DecidesOK, Serving, Written
    <2>2. \A g \in Callbacks \ {h} : DecidesOK(cb[g])'
      BY <1>3, <1>4, <1>6 DEF FlowInv, CallbacksOK, DecidesOK, Written, Agrees
    <2>. QED BY <2>1, <2>2
  <1>9. \A g \in Callbacks : TellsOK(cb[g])'
    BY <1>3, <1>6 DEF FlowInv, CallbacksOK, TellsOK, Serving
  <1>10. \A g \in Callbacks : Running(g) => cb[g].state # s
    <2>. SUFFICES ASSUME NEW g \in Callbacks, Running(g) PROVE Used(cb[g].state)
      BY <1>5
    <2>1. CASE cb[g].pc \in {"token", "userInfo", "update"}
      BY <2>1 DEF FlowInv, CallbacksOK, DecidesOK
    <2>2. CASE cb[g].pc \in {"invalidate", "publish"}
      BY <2>2 DEF FlowInv, CallbacksOK, TellsOK, WritesOK
    <2>. QED BY <2>1, <2>2 DEF Running, Typed, CallbacksTyped, Callback, CallbackPCs
  <1>11. CallbacksOK'
    BY <1>6, <1>8, <1>9, <1>10 DEF FlowInv, CallbacksOK, Running, Serving
  <1>12. WritesOK' /\ EventsOK'
    BY <1>3, <1>4 DEF FlowInv, WritesOK, EventsOK, Crossed, Agrees
  <1>. QED BY <1>7, <1>11, <1>12 DEF FlowInv

\* A KYC write, whether its callback goes on to tell it or gives up.
LEMMA FlowWrite ==
    ASSUME Typed, FlowInv, NEW h \in Callbacks, cb[h].pc = "update", WriteStatus(h),
           NEW to, Becomes(h, to),
           to = IdleCallback \/ to = [cb[h] EXCEPT !.pc = "invalidate"],
           UNCHANGED <<items, issued, used, kycTopic>>
    PROVE  FlowInv'
  <1>. DEFINE w == [state |-> cb[h].state, uid |-> cb[h].uid, status |-> cb[h].status,
                    email |-> cb[h].email]
              n == Len(writes) + 1
  <1>1. writes \in Seq(Write) /\ w \in Write /\ writes' = Append(writes, w)
    BY WriteTyped DEF Typed, HistoryTyped, WriteStatus
  <1>2. /\ DOMAIN writes' = DOMAIN writes \cup {n}
        /\ writes'[n] = w /\ n \in Nat
        /\ \A i \in DOMAIN writes : writes'[i] = writes[i] /\ i \in Nat /\ i < n
    BY <1>1, Appended
  <1>3. /\ w.state = cb[h].state /\ w.uid = cb[h].uid /\ w.status = cb[h].status
        /\ w.email = cb[h].email
    OBVIOUS
  <1>. HIDE DEF w, n
  <1>4. \A s : Written(s)' <=> Written(s) \/ s = cb[h].state
    BY <1>2, <1>3 DEF Written
  <1>5. /\ Used(cb[h].state) /\ ~Written(cb[h].state)
        /\ \E a \in issued : /\ a.state = cb[h].state /\ a.uid = cb[h].uid
                             /\ Agrees(a, cb[h].email)
    BY DEF FlowInv, CallbacksOK, DecidesOK
  <1>6. /\ cb'[h] = to /\ \A g \in Callbacks \ {h} : cb'[g] = cb[g]
        /\ to.pc \in {"idle", "invalidate"}
        /\ to.pc = "invalidate" =>
             to.state = cb[h].state /\ to.uid = cb[h].uid /\ to.status = cb[h].status
    BY DEF Becomes, Typed, CallbacksTyped, Callback, IdleCallback, Serving
  <1>7. \A g \in Callbacks \ {h} : Running(g) => cb[g].state # cb[h].state
    BY DEF FlowInv, CallbacksOK, Running
  <1>8. LoginsOK'
    BY DEF FlowInv, LoginsOK, Used
  <1>9. WritesOK'
    <2>1. \A j \in DOMAIN writes : writes[j].state # cb[h].state
      BY <1>5 DEF Written
    <2>. QED
      BY <1>2, <1>3, <1>5, <2>1 DEF FlowInv, WritesOK, Used, Agrees
  <1>10. \A g \in Callbacks : DecidesOK(cb[g])'
    <2>1. \A g \in Callbacks \ {h} : DecidesOK(cb[g])'
      BY <1>4, <1>6, <1>7
      DEF FlowInv, CallbacksOK, DecidesOK, Used, Agrees, Running
    <2>2. DecidesOK(cb[h])'
      BY <1>6 DEF DecidesOK
    <2>. QED BY <2>1, <2>2
  <1>11. \A g \in Callbacks : TellsOK(cb[g])'
    <2>1. TellsOK(cb[h])'
      <3>. SUFFICES ASSUME to.pc = "invalidate" PROVE TellsOK(cb[h])'
        BY <1>6 DEF TellsOK
      <3>1. \A i \in DOMAIN kycTopic : kycTopic[i].state # cb[h].state
        BY <1>5 DEF FlowInv, EventsOK, Written
      <3>2. \A j, k \in DOMAIN writes' : writes'[k].state = cb[h].state => j <= k
        BY <1>2, <1>5 DEF Written
      <3>. QED BY <1>2, <1>3, <1>6, <3>1, <3>2 DEF TellsOK
    <2>2. ASSUME NEW g \in Callbacks \ {h}, cb[g].pc \in {"invalidate", "publish"}
          PROVE  TellsOK(cb[g])'
      <3>1. /\ crossed \subseteq crossed'
            /\ cb[g].uid = cb[h].uid => <<cb[g].state, cb[h].state>> \in crossed'
        BY <2>2 DEF WriteStatus, Telling
      <3>2. TellsOK(cb[g]) /\ cb'[g] = cb[g] /\ cb[g].state # cb[h].state
        BY <1>6, <1>7, <2>2 DEF FlowInv, CallbacksOK, Running
      <3>. QED
        BY <1>2, <1>3, <2>2, <3>1, <3>2 DEF TellsOK
    <2>3. ASSUME NEW g \in Callbacks \ {h}, cb[g].pc \notin {"invalidate", "publish"}
          PROVE  TellsOK(cb[g])'
      BY <1>6, <2>3 DEF TellsOK
    <2>. QED BY <2>1, <2>2, <2>3
  <1>12. \A f, g \in Callbacks :
           f # g /\ Running(f)' /\ Running(g)' => cb'[f].state # cb'[g].state
    BY <1>6, <1>7 DEF FlowInv, CallbacksOK, Running
  <1>13. CallbacksOK'
    BY <1>10, <1>11, <1>12 DEF CallbacksOK
  <1>14. EventsOK'
    <2>1. crossed \subseteq crossed'
      BY DEF WriteStatus
    <2>2. \A i \in DOMAIN kycTopic : kycTopic[i].state # cb[h].state
      BY <1>5 DEF FlowInv, EventsOK, Written
    <2>. QED BY <1>2, <1>3, <2>1, <2>2 DEF FlowInv, EventsOK, Crossed
  <1>. QED BY <1>8, <1>9, <1>13, <1>14 DEF FlowInv

\* An event that reaches the broker, from a callback that then ends.
LEMMA FlowTells ==
    ASSUME Typed, FlowInv, NEW h \in Callbacks, cb[h].pc = "publish",
           kycTopic' = Append(kycTopic, EventOf(h)), Becomes(h, IdleCallback),
           UNCHANGED <<items, issued, used, writes, crossed>>
    PROVE  FlowInv'
  <1>. DEFINE e == EventOf(h)
              n == Len(kycTopic) + 1
  <1>1. kycTopic \in Seq(Event) /\ e \in Event /\ kycTopic' = Append(kycTopic, e)
    BY EventTyped DEF Typed
  <1>2. /\ DOMAIN kycTopic' = DOMAIN kycTopic \cup {n}
        /\ kycTopic'[n] = e /\ n \in Nat
        /\ \A i \in DOMAIN kycTopic : kycTopic'[i] = kycTopic[i] /\ i \in Nat /\ i < n
    BY <1>1, Appended
  <1>3. e.state = cb[h].state /\ e.uid = cb[h].uid /\ e.status = cb[h].status
    BY DEF EventOf
  <1>. HIDE DEF e, n
  <1>4. TellsOK(cb[h])
    BY DEF FlowInv, CallbacksOK
  <1>5. /\ cb'[h] = IdleCallback /\ cb'[h].pc = "idle"
        /\ \A g \in Callbacks \ {h} : cb'[g] = cb[g]
    BY DEF Becomes, Typed, CallbacksTyped, IdleCallback, Serving
  <1>6. LoginsOK' /\ WritesOK'
    BY DEF FlowInv, LoginsOK, WritesOK, Used, Agrees
  <1>7. CallbacksOK'
    <2>1. \A g \in Callbacks \ {h} : DecidesOK(cb[g])'
      BY <1>5 DEF FlowInv, CallbacksOK, DecidesOK, Used, Written, Agrees
    <2>2. ASSUME NEW g \in Callbacks \ {h} PROVE TellsOK(cb[g])'
      <3>1. Running(g) => cb[g].state # cb[h].state
        BY DEF FlowInv, CallbacksOK, Running
      <3>2. TellsOK(cb[g])
        BY DEF FlowInv, CallbacksOK
      <3>. QED BY <1>2, <1>3, <1>5, <3>1, <3>2 DEF TellsOK, Running
    <2>3. DecidesOK(cb[h])' /\ TellsOK(cb[h])'
      BY <1>5 DEF DecidesOK, TellsOK
    <2>4. \A f, g \in Callbacks :
            f # g /\ Running(f)' /\ Running(g)' => cb'[f].state # cb'[g].state
      BY <1>5 DEF FlowInv, CallbacksOK, Running
    <2>. QED BY <2>1, <2>2, <2>3, <2>4 DEF CallbacksOK
  <1>8. EventsOK'
    <2>1. \A i \in DOMAIN kycTopic : kycTopic[i].state # e.state
      BY <1>3, <1>4 DEF TellsOK
    <2>2. ASSUME NEW i \in DOMAIN kycTopic, kycTopic[i].uid = e.uid,
                 NEW k \in DOMAIN writes, NEW l \in DOMAIN writes,
                 writes[k].state = kycTopic[i].state, writes[l].state = e.state
          PROVE  k < l \/ Crossed(e, kycTopic[i])
      <3>1. writes[k].uid = e.uid
        BY <2>2 DEF FlowInv, EventsOK, WritesOK
      <3>2. k <= l \/ Crossed(e, kycTopic[i])
        BY <1>3, <1>4, <2>2, <3>1 DEF TellsOK, Crossed
      <3>3. k # l
        BY <2>1, <2>2
      <3>4. k \in Nat /\ l \in Nat
        BY DEF Typed, HistoryTyped
      <3>. QED BY <3>2, <3>3, <3>4
    <2>3. \E j \in DOMAIN writes :
            writes[j].state = e.state /\ writes[j].uid = e.uid /\ writes[j].status = e.status
      BY <1>3, <1>4 DEF TellsOK
    <2>. QED
      BY <1>2, <2>1, <2>2, <2>3 DEF FlowInv, EventsOK, Crossed
  <1>. QED BY <1>6, <1>7, <1>8 DEF FlowInv

LEMMA FlowStep == Typed /\ FlowInv /\ [Next]_vars => FlowInv'
  <1>. SUFFICES ASSUME Typed, FlowInv, [Next]_vars PROVE FlowInv'
    OBVIOUS
  <1>0. CallbacksTyped /\ LoginsTyped
    BY DEF Typed
  <1>a. DecidesOK(IdleCallback) /\ TellsOK(IdleCallback) /\ IdleCallback.pc = "idle"
    BY DEF DecidesOK, TellsOK, IdleCallback, Serving
  <1>b. \A h \in Callbacks : DecidesOK(cb[h]) /\ TellsOK(cb[h])
    BY DEF FlowInv, CallbacksOK
  <1>1. ASSUME NEW s \in States, NEW u \in DOMAIN users, NEW t \in LaterTimes,
               NEW email \in LoginEmails(u), StartSingpassLogin(s, u, email, t)
        PROVE  FlowInv'
    BY <1>1, FlowStart
  <1>2. ASSUME NEW h \in Callbacks, NEW s \in States, NEW t \in LaterTimes,
               CallbackAccepted(h, s, t) \/ CallbackRefused(h, s, t)
        PROVE  FlowInv'
    <2>1. CASE CallbackAccepted(h, s, t)
      BY <2>1, FlowAccepted
    <2>2. CASE CallbackRefused(h, s, t)
      <3>1. items' \subseteq items
        BY <1>0, <2>2, StoreKeeps DEF CallbackRefused, ConsumeFails
      <3>. QED BY <2>2, <3>1, FlowForgets DEF CallbackRefused, storeVars, historyVars, writeVars
    <2>. QED BY <1>2, <2>1, <2>2
  <1>3. ASSUME NEW h \in Callbacks, GetAccessToken(h) PROVE FlowInv'
    <2>. DEFINE to == [cb[h] EXCEPT !.pc = "userInfo"]
    <2>1. /\ to.pc = "userInfo" /\ to.state = cb[h].state /\ to.uid = cb[h].uid
          /\ to.email = cb[h].email
      BY <1>0 DEF CallbacksTyped, Callback
    <2>2. DecidesOK(to) /\ TellsOK(to)
      BY <1>b, <1>3, <2>1 DEF GetAccessToken, DecidesOK, TellsOK
    <2>3. Becomes(h, to) /\ Running(h)
      BY <1>3 DEF GetAccessToken, Running
    <2>4. UNCHANGED <<items, issued, used, writes, crossed, kycTopic>>
      BY <1>3 DEF GetAccessToken, storeVars, historyVars, writeVars
    <2>. QED BY <1>0, <2>1, <2>2, <2>3, <2>4, FlowMoves
  <1>4. ASSUME NEW h \in Callbacks, GetUserInfo(h) PROVE FlowInv'
    <2>1. PICK info \in UserInfos :
            Becomes(h, IF EmailMismatch(cb[h].email, info.email)
                       THEN IdleCallback
                       ELSE Serving("update", cb[h].state, cb[h].uid, info.email,
                                    IF info.name # None THEN "PASSED" ELSE "FAILED"))
      BY <1>4 DEF GetUserInfo
    <2>2. UNCHANGED <<items, issued, used, writes, crossed, kycTopic>>
      BY <1>4 DEF GetUserInfo, storeVars, historyVars, writeVars
    <2>3. CASE EmailMismatch(cb[h].email, info.email)
      BY <1>0, <1>a, <2>1, <2>2, <2>3, FlowMoves
    <2>4. CASE ~EmailMismatch(cb[h].email, info.email)
      <3>. DEFINE to == Serving("update", cb[h].state, cb[h].uid, info.email,
                                IF info.name # None THEN "PASSED" ELSE "FAILED")
      <3>1. /\ to.pc = "update" /\ to.state = cb[h].state /\ to.uid = cb[h].uid
            /\ to.email = info.email
        BY DEF Serving
      <3>2. Becomes(h, to) /\ Running(h)
        BY <1>4, <2>1, <2>4 DEF GetUserInfo, Running
      <3>. HIDE DEF to
      <3>3. DecidesOK(to) /\ TellsOK(to)
        BY <1>b, <1>4, <2>4, <3>1
        DEF GetUserInfo, DecidesOK, TellsOK, Agrees, EmailMismatch
      <3>. QED BY <1>0, <2>2, <3>1, <3>2, <3>3, FlowMoves
    <2>. QED BY <2>3, <2>4
  <1>5. ASSUME NEW h \in Callbacks, UpdateKYCStatus(h) \/ UpdateReplyLost(h) PROVE FlowInv'
    BY <1>5, FlowWrite DEF UpdateKYCStatus, UpdateReplyLost, topicVars
  <1>6. ASSUME NEW h \in Callbacks, InvalidateCached(h) PROVE FlowInv'
    <2>. DEFINE to == [cb[h] EXCEPT !.pc = "publish"]
    <2>1. /\ to.pc = "publish" /\ to.state = cb[h].state /\ to.uid = cb[h].uid
          /\ to.status = cb[h].status
      BY <1>0 DEF CallbacksTyped, Callback
    <2>2. DecidesOK(to) /\ TellsOK(to)
      BY <1>b, <1>6, <2>1 DEF InvalidateCached, DecidesOK, TellsOK
    <2>3. Becomes(h, to) /\ Running(h)
      BY <1>6 DEF InvalidateCached, Running
    <2>4. UNCHANGED <<items, issued, used, writes, crossed, kycTopic>>
      BY <1>6 DEF InvalidateCached, topicVars, historyVars, writeVars
    <2>. QED BY <1>0, <2>1, <2>2, <2>3, <2>4, FlowMoves
  <1>7. ASSUME NEW h \in Callbacks, PublishUserKYCComplete(h) \/ PublishFails(h)
        PROVE  FlowInv'
    <2>1. /\ cb[h].pc = "publish" /\ Becomes(h, IdleCallback)
          /\ kycTopic' \in {kycTopic, Append(kycTopic, EventOf(h))}
          /\ UNCHANGED <<items, issued, used, writes, crossed>>
      BY <1>7 DEF PublishUserKYCComplete, PublishFails, Delivered, historyVars, writeVars
    <2>2. CASE kycTopic' = kycTopic
      BY <1>0, <1>a, <2>1, <2>2, FlowMoves
    <2>3. CASE kycTopic' = Append(kycTopic, EventOf(h))
      BY <2>1, <2>3, FlowTells
    <2>. QED BY <2>1, <2>2, <2>3
  <1>8. ASSUME NEW h \in Callbacks, SingpassFails(h) \/ UpdateFails(h) PROVE FlowInv'
    <2>1. /\ Becomes(h, IdleCallback)
          /\ UNCHANGED <<items, issued, used, writes, crossed, kycTopic>>
      BY <1>8 DEF SingpassFails, UpdateFails, storeVars, topicVars, historyVars, writeVars
    <2>. QED BY <1>0, <1>a, <2>1, FlowMoves
  <1>9. CASE Restart
    <2>1. /\ items' = {} /\ \A h \in Callbacks : cb'[h].pc = "idle"
          /\ UNCHANGED <<issued, used, writes, crossed, kycTopic>>
      BY <1>a, <1>9 DEF Restart, LoginsLost, topicVars
    <2>2. LoginsOK' /\ WritesOK' /\ EventsOK'
      BY <2>1 DEF FlowInv, LoginsOK, WritesOK, EventsOK, Crossed, Used, Agrees
    <2>3. CallbacksOK'
      BY <2>1 DEF CallbacksOK, DecidesOK, TellsOK, Running
    <2>. QED BY <2>2, <2>3 DEF FlowInv
  <1>10. CASE TimePasses \/ UNCHANGED vars
    BY <1>10, FlowForgets
    DEF TimePasses, Tick, vars, kycVars, storeVars, historyVars, writeVars
  <1>. QED
    BY <1>1, <1>2, <1>3, <1>4, <1>5, <1>6, <1>7, <1>8, <1>9, <1>10
    DEF Next, Step, CallbackStep, CallbackFailure

LEMMA AlwaysFlows == Spec => [](Typed /\ FlowInv)
  BY AlwaysTyped, FlowInit, FlowStep, PTL DEF Spec

-----------------------------------------------------------------------------
(* What follows.                                                           *)

LEMMA FlowMeans == FlowInv => OneWritePerLogin /\ CarriedEmailChecked
  BY DEF FlowInv, WritesOK, LoginsOK, OneWritePerLogin, CarriedEmailChecked, Agrees

\* A login decides at most one KYC status, that of the user who started it.
THEOREM AlwaysOneWritePerLogin == Spec => []OneWritePerLogin
  BY FlowMeans, AlwaysFlows, PTL

\* A login that carried an address is only decided by an identity with it.
THEOREM CarriedEmailAlwaysChecked == Spec => []CarriedEmailChecked
  BY FlowMeans, AlwaysFlows, PTL

-----------------------------------------------------------------------------
(* The events of a user against its writes and against its row.  The       *)
(* order is in FlowInv; that the last event is the status in the table     *)
(* rests on two more facts: what the row holds, and that every write is    *)
(* told unless its event was lost.                                         *)

\* The write of state s is told, about to be, or has lost its event.
Told(s) ==
    \/ \E i \in DOMAIN kycTopic : kycTopic[i].state = s
    \/ \E h \in Callbacks : Telling(h) /\ cb[h].state = s
    \/ s \in lost

\* Only a broker has events; a user's status is what was last written for it.
TablesOK ==
    /\ kycTopic # <<>> => KafkaEnabled
    /\ \A u \in DOMAIN users : \A j \in DOMAIN writes :
         LastOf(writes, u, j) => users[u].kyc = writes[j].status

AllTold == \A j \in DOMAIN writes : Told(writes[j].state)

LossOK == KafkaEnabled => AllTold /\ (faults = 0 => lost = {})

LEMMA LossSays == OnlyFaultsLoseKycEvents <=> LossOK
  BY DEF OnlyFaultsLoseKycEvents, LossOK, AllTold, Told

ToldInv == TablesOK /\ LossOK

LEMMA ToldInit == Init => ToldInv
  BY DEF Init, InitRegistered, ToldInv, TablesOK, LossOK, AllTold

\* What the steps of the callbacks do to what ToldInv is about.
LEMMA StepEffects ==
    ASSUME Typed, [Next]_vars
    PROVE  \/ \E h \in Callbacks : UpdateKYCStatus(h) \/ UpdateReplyLost(h)
           \/ \E h \in Callbacks : PublishUserKYCComplete(h) \/ PublishFails(h)
           \/ Restart
           \/ /\ UNCHANGED <<users, writes, crossed, lost, kycTopic>>
              /\ UNCHANGED faults \/ Fault
              /\ \A g \in Callbacks :
                   Telling(g) => Telling(g)' /\ cb'[g].state = cb[g].state
  <1>0. cb \in [Callbacks -> Callback]
    BY DEF Typed, CallbacksTyped
  <1>1. ASSUME NEW h \in Callbacks,
               \/ GetAccessToken(h) \/ GetUserInfo(h) \/ SingpassFails(h) \/ UpdateFails(h)
               \/ InvalidateCached(h)
               \/ \E s \in States, t \in LaterTimes :
                    CallbackAccepted(h, s, t) \/ CallbackRefused(h, s, t)
        PROVE  /\ UNCHANGED <<users, writes, crossed, lost, kycTopic>>
               /\ UNCHANGED faults \/ Fault
               /\ \A g \in Callbacks :
                    Telling(g) => Telling(g)' /\ cb'[g].state = cb[g].state
    <2>1. CASE InvalidateCached(h)
      BY <1>0, <2>1 DEF InvalidateCached, Becomes, Telling, Callback, dbVars, topicVars,
                        historyVars, writeVars
    <2>2. CASE ~InvalidateCached(h)
      <3>1. UNCHANGED <<users, writes, crossed, lost, kycTopic>>
        BY <1>1, <2>2
        DEF GetAccessToken, GetUserInfo, SingpassFails, UpdateFails, CallbackAccepted,
            CallbackRefused, storeVars, dbVars, topicVars, historyVars, writeVars
      <3>2. UNCHANGED faults \/ Fault
        BY <1>1, <2>2
        DEF GetAccessToken, GetUserInfo, SingpassFails, UpdateFails, CallbackAccepted,
            CallbackRefused, storeVars
      <3>3. \A g \in Callbacks : Telling(g) => cb'[g] = cb[g]
        BY <1>0, <1>1, <2>2
        DEF GetAccessToken, GetUserInfo, SingpassFails, UpdateFails, CallbackAccepted,
            CallbackRefused, Becomes, Telling
      <3>. QED BY <3>1, <3>2, <3>3 DEF Telling
    <2>. QED BY <2>1, <2>2
  <1>2. ASSUME \/ \E s \in States, u \in DOMAIN users, t \in LaterTimes :
                    \E email \in LoginEmails(u) : StartSingpassLogin(s, u, email, t)
               \/ TimePasses \/ UNCHANGED vars
        PROVE  UNCHANGED <<users, writes, crossed, lost, kycTopic, cb, faults>>
    BY <1>2 DEF StartSingpassLogin, TimePasses, storeVars, historyVars, writeVars, kycVars,
                vars
  <1>. QED
    BY <1>1, <1>2 DEF Next, Step, CallbackStep, CallbackFailure, Telling

\* An event that goes to the topic, or is lost, leaves every other write told.
LEMMA TellsOrLoses ==
    ASSUME Typed, AllTold, NEW h \in Callbacks,
           cb[h].pc = "publish", writes' = writes,
           \A g \in Callbacks \ {h} : cb'[g] = cb[g],
           \/ kycTopic' = Append(kycTopic, EventOf(h)) /\ UNCHANGED lost
           \/ UNCHANGED kycTopic /\ lost' = lost \cup {cb[h].state}
    PROVE  AllTold'
  <1>1. \A g \in Callbacks \ {h} : Telling(g) => Telling(g)'
    BY DEF Telling
  <1>2. CASE kycTopic' = Append(kycTopic, EventOf(h)) /\ UNCHANGED lost
    <2>. DEFINE e == EventOf(h)
    <2>1. /\ kycTopic \in Seq(Event) /\ e \in Event /\ kycTopic' = Append(kycTopic, e)
          /\ e.state = cb[h].state
      BY <1>2, EventTyped DEF Typed, EventOf
    <2>2. /\ DOMAIN kycTopic' = DOMAIN kycTopic \cup {Len(kycTopic) + 1}
          /\ kycTopic'[Len(kycTopic) + 1] = e
          /\ \A i \in DOMAIN kycTopic : kycTopic'[i] = kycTopic[i]
      BY <2>1, Appended
    <2>. HIDE DEF e
    <2>. QED BY <1>1, <1>2, <2>1, <2>2 DEF AllTold, Told, Telling
  <1>3. CASE UNCHANGED kycTopic /\ lost' = lost \cup {cb[h].state}
    BY <1>1, <1>3 DEF AllTold, Told, Telling
  <1>. QED BY <1>2, <1>3

LEMMA ToldStep == Typed /\ ToldInv /\ [Next]_vars => ToldInv'
  <1>. SUFFICES ASSUME Typed, ToldInv, [Next]_vars PROVE ToldInv'
    OBVIOUS
  <1>0. /\ cb \in [Callbacks -> Callback] /\ faults \in Nat
        /\ writes \in Seq(Write) /\ kycTopic \in Seq(Event)
    BY MaxFaultsAssumption DEF Typed, CallbacksTyped, HistoryTyped, StoreTypeOK
  <1>a. Fault => faults' # 0
    BY <1>0 DEF Fault
  <1>b. KafkaEnabled => AllTold /\ (faults = 0 => lost = {})
    BY DEF ToldInv, LossOK
  <1>1. ASSUME NEW h \in Callbacks, UpdateKYCStatus(h) \/ UpdateReplyLost(h)
        PROVE  ToldInv'
    <2>. DEFINE w == [state |-> cb[h].state, uid |-> cb[h].uid, status |-> cb[h].status,
                      email |-> cb[h].email]
                n == Len(writes) + 1
    <2>1. /\ writes' = Append(writes, w) /\ w \in Write
          /\ w.state = cb[h].state /\ w.uid = cb[h].uid /\ w.status = cb[h].status
      BY <1>1, WriteTyped DEF UpdateKYCStatus, UpdateReplyLost, WriteStatus
    <2>2. /\ DOMAIN writes' = DOMAIN writes \cup {n}
          /\ writes'[n] = w /\ n \in Nat
          /\ \A i \in DOMAIN writes : writes'[i] = writes[i] /\ i \in Nat /\ i < n
      BY <1>0, <2>1, Appended
    <2>. HIDE DEF w, n
    <2>. PICK s : s = w.state
      OBVIOUS
    <2>3. /\ kycTopic' = kycTopic
          /\ \A g \in Callbacks : Telling(g) => cb'[g] = cb[g]
      BY <1>0, <1>1 DEF UpdateKYCStatus, UpdateReplyLost, topicVars, Becomes, Telling
    <2>4. ASSUME KafkaEnabled PROVE AllTold'
      <3>1. lost \subseteq lost'
        BY <1>1 DEF UpdateKYCStatus, UpdateReplyLost
      <3>2. \A x : Told(x) => Told(x)'
        BY <2>3, <3>1 DEF Told, Telling
      <3>3. CASE UpdateKYCStatus(h)
        <4>1. cb'[h].pc = "invalidate" /\ cb'[h].state = w.state
          BY <1>0, <2>1, <3>3 DEF UpdateKYCStatus, Becomes, Callback
        <4>2. Told(s)'
          BY <4>1 DEF Told, Telling
        <4>. QED BY <1>b, <2>2, <2>4, <3>2, <4>2 DEF AllTold
      <3>4. CASE UpdateReplyLost(h)
        <4>1. Told(s)'
          BY <2>1, <3>4 DEF Told, UpdateReplyLost
        <4>. QED BY <1>b, <2>2, <2>4, <3>2, <4>1 DEF AllTold
      <3>. QED BY <1>1, <3>3, <3>4
    <2>5. KafkaEnabled /\ faults' = 0 => lost' = {}
      BY <1>1, <1>a, <1>b DEF UpdateKYCStatus, UpdateReplyLost
    <2>6. TablesOK'
      <3>1. ASSUME NEW u \in DOMAIN users', NEW j \in DOMAIN writes', LastOf(writes', u, j)
            PROVE  users'[u].kyc = writes'[j].status
        <4>1. /\ u \in DOMAIN users
              /\ users'[u] = IF u = cb[h].uid THEN [users[u] EXCEPT !.kyc = cb[h].status]
                                              ELSE users[u]
          BY <1>1, <3>1 DEF UpdateKYCStatus, UpdateReplyLost, WriteStatus
        <4>2. CASE u = cb[h].uid
          <5>1. n <= j
            BY <2>1, <2>2, <3>1, <4>2 DEF LastOf
          <5>2. j = n
            BY <2>2, <3>1, <5>1
          <5>3. users[u] \in UserRow
            BY <4>1 DEF Typed, StoreTypeOK
          <5>. QED BY <2>1, <2>2, <4>1, <4>2, <5>2, <5>3 DEF UserRow
        <4>3. CASE u # cb[h].uid
          <5>1. j # n /\ j \in DOMAIN writes
            BY <2>1, <2>2, <3>1, <4>3 DEF LastOf
          <5>2. LastOf(writes, u, j)
            BY <2>2, <3>1, <5>1 DEF LastOf
          <5>. QED BY <2>2, <4>1, <4>3, <5>1, <5>2 DEF ToldInv, TablesOK
        <4>. QED BY <4>2, <4>3
      <3>. QED BY <2>3, <3>1 DEF ToldInv, TablesOK
    <2>. QED BY <2>4, <2>5, <2>6 DEF ToldInv, LossOK
  <1>2. ASSUME NEW h \in Callbacks, PublishUserKYCComplete(h) \/ PublishFails(h)
        PROVE  ToldInv'
    <2>1. /\ UNCHANGED <<users, writes>> /\ cb[h].pc = "publish"
          /\ \A g \in Callbacks \ {h} : cb'[g] = cb[g]
      BY <1>0, <1>2 DEF PublishUserKYCComplete, PublishFails, Becomes, dbVars, historyVars,
                        writeVars
    <2>2. KafkaEnabled =>
            \/ kycTopic' = Append(kycTopic, EventOf(h)) /\ UNCHANGED lost
            \/ UNCHANGED kycTopic /\ lost' = lost \cup {cb[h].state}
      BY <1>2 DEF PublishUserKYCComplete, PublishFails, Delivered, historyVars, writeVars
    <2>3. KafkaEnabled => AllTold'
      BY <1>b, <2>1, <2>2, TellsOrLoses
    <2>4. KafkaEnabled /\ faults' = 0 => lost' = {}
      BY <1>2, <1>a, <1>b
      DEF PublishUserKYCComplete, PublishFails, historyVars, writeVars
    <2>5. kycTopic' # kycTopic => KafkaEnabled
      BY <1>2 DEF PublishUserKYCComplete, PublishFails, Delivered
    <2>. QED BY <2>1, <2>3, <2>4, <2>5 DEF ToldInv, TablesOK, LossOK
  <1>3. CASE Restart
    <2>1. UNCHANGED <<users, writes, kycTopic>>
      BY <1>3 DEF Restart, LoginsLost, dbVars, topicVars
    <2>2. \A s : Told(s) => Told(s)'
      BY <1>3, <2>1 DEF Told, Restart, LoginsLost
    <2>. QED
      BY <1>3, <1>a, <1>b, <2>1, <2>2 DEF ToldInv, TablesOK, LossOK, AllTold, Restart
  <1>4. ASSUME UNCHANGED <<users, writes, crossed, lost, kycTopic>>,
               UNCHANGED faults \/ Fault,
               \A g \in Callbacks : Telling(g) => Telling(g)' /\ cb'[g].state = cb[g].state
        PROVE  ToldInv'
    <2>1. \A s : Told(s) => Told(s)'
      BY <1>4 DEF Told
    <2>2. TablesOK'
      BY <1>4 DEF ToldInv, TablesOK, LastOf
    <2>3. LossOK'
      BY <1>4, <1>a, <1>b, <2>1 DEF LossOK, AllTold
    <2>. QED BY <2>2, <2>3 DEF ToldInv
  <1>. QED BY <1>1, <1>2, <1>3, <1>4, StepEffects

LEMMA AlwaysTold == Spec => []ToldInv
  BY ToldInit, ToldStep, AlwaysTyped, PTL DEF Spec

\* Every KYC write is told, on its way to be, or one whose event a failure took,
\* and before the first fault there is none of those.
THEOREM OnlyFaultsEverLoseKycEvents == Spec => []OnlyFaultsLoseKycEvents
  BY AlwaysTold, LossSays, PTL DEF ToldInv

LEMMA EventsMean ==
    ASSUME Typed, FlowInv, ToldInv
    PROVE  EventsFollowWrites
  <1>1. ASSUME NEW i \in DOMAIN kycTopic
        PROVE  /\ WriteOf(kycTopic[i]) \in DOMAIN writes
               /\ writes[WriteOf(kycTopic[i])].state = kycTopic[i].state
    <2>1. \E j \in DOMAIN writes : writes[j].state = kycTopic[i].state
      BY DEF FlowInv, EventsOK
    <2>. QED BY <2>1 DEF WriteOf
  <1>2. ASSUME NEW u \in DOMAIN users, NEW i \in DOMAIN kycTopic, NEW j \in DOMAIN writes,
               LastOf(kycTopic, u, i), LastOf(writes, u, j)
        PROVE  \/ kycTopic[i].status = users[u].kyc
               \/ \E h \in Callbacks : Telling(h) /\ cb[h].state = writes[j].state
               \/ writes[j].state \in lost
               \/ Crossed(kycTopic[i], writes[j])
    <2>. SUFFICES ASSUME NEW m \in DOMAIN kycTopic, kycTopic[m].state = writes[j].state
                  PROVE  kycTopic[i].status = users[u].kyc \/ Crossed(kycTopic[i], writes[j])
      <3>1. KafkaEnabled
        BY DEF ToldInv, TablesOK
      <3>. QED BY <3>1 DEF ToldInv, LossOK, AllTold, Told
    <2>1. kycTopic[m].uid = u /\ kycTopic[m].status = writes[j].status
      BY <1>2 DEF FlowInv, EventsOK, WritesOK, LastOf
    <2>2. m <= i /\ kycTopic[i].uid = u
      BY <1>2, <2>1 DEF LastOf
    <2>3. CASE m = i
      BY <1>2, <2>1, <2>3 DEF ToldInv, TablesOK
    <2>4. CASE m # i
      <3>1. PICK l \in DOMAIN writes :
              writes[l].state = kycTopic[i].state /\ writes[l].uid = kycTopic[i].uid
        BY DEF FlowInv, EventsOK
      <3>2. l <= j
        BY <1>2, <2>2, <3>1 DEF LastOf
      <3>3. m < i
        BY <2>2, <2>4 DEF Typed
      <3>4. j < l \/ Crossed(kycTopic[i], kycTopic[m])
        BY <2>1, <2>2, <3>1, <3>3 DEF FlowInv, EventsOK
      <3>5. j \in Nat /\ l \in Nat
        BY DEF Typed, HistoryTyped
      <3>6. Crossed(kycTopic[i], kycTopic[m])
        BY <3>2, <3>4, <3>5
      <3>. QED BY <3>6 DEF Crossed
    <2>. QED BY <2>3, <2>4
  <1>3. ASSUME NEW i \in DOMAIN kycTopic, NEW j \in DOMAIN kycTopic,
               i < j, kycTopic[i].uid = kycTopic[j].uid
        PROVE  \/ WriteOf(kycTopic[i]) < WriteOf(kycTopic[j])
               \/ Crossed(kycTopic[j], kycTopic[i])
    BY <1>1, <1>3 DEF FlowInv, EventsOK
  <1>4. /\ \A i \in DOMAIN kycTopic : \E j \in DOMAIN writes :
             /\ writes[j].state = kycTopic[i].state
             /\ writes[j].uid = kycTopic[i].uid
             /\ writes[j].status = kycTopic[i].status
        /\ \A i, j \in DOMAIN kycTopic : kycTopic[i].state = kycTopic[j].state => i = j
    BY DEF FlowInv, EventsOK
  <1>. QED BY <1>2, <1>3, <1>4 DEF EventsFollowWrites

\* Events tell writes, once each and in their order except where callbacks crossed,
\* and a user's last event is the status in the table unless its last write is still
\* to be told, lost its event or crossed that one.
THEOREM EventsAlwaysFollowWrites == Spec => []EventsFollowWrites
  BY EventsMean, AlwaysFlows, AlwaysTold, PTL

\* A state that a step uses is of a login still valid at the last clock reading.
InTime ==
    used' # used => \E a \in issued : a.state = used'[Len(used')] /\ now' <= a.expires

LEMMA InTimeStep == Typed /\ FlowInv /\ [Next]_vars => [InTime]_vars
  <1>. SUFFICES ASSUME Typed, FlowInv, Next, used' # used
                PROVE  \E a \in issued : a.state = used'[Len(used')] /\ now' <= a.expires
    BY DEF InTime
  <1>1. PICK h \in Callbacks, s \in States, t \in LaterTimes : CallbackAccepted(h, s, t)
    BY DEF Next, Step, CallbackStep, CallbackFailure, StartSingpassLogin,
           CallbackRefused, GetAccessToken, GetUserInfo, UpdateKYCStatus,
           InvalidateCached, PublishUserKYCComplete, SingpassFails, UpdateFails,
           UpdateReplyLost, PublishFails, TimePasses, Restart, LoginsLost, historyVars
  <1>2. PICK item \in Lookup(s) : ConsumeOk(s, t, item)
    BY <1>1 DEF CallbackAccepted
  <1>3. item \in issued /\ item.state = s /\ item.expires \in Nat
    BY <1>2, StoreKeeps DEF Typed, LoginsTyped, Login, FlowInv, LoginsOK
  <1>4. now' = t /\ t \in Nat /\ t <= item.expires
    BY <1>2, <1>3, MaxTimeAssumption
    DEF ConsumeOk, Take, Expired, LaterTimes, Typed, LoginsTyped
  <1>5. used'[Len(used')] = s
    <2>1. used' = Append(used, s) /\ used \in Seq(States)
      BY <1>1 DEF CallbackAccepted, Typed, HistoryTyped
    <2>. QED BY <2>1
  <1>. QED BY <1>3, <1>4, <1>5

\* A callback is only let in while its login is valid at the last clock reading.
THEOREM ExpiredAreNeverUsed == Spec => ExpiredNeverUsed
  <1>1. ExpiredNeverUsed <=> [][InTime]_vars
    BY DEF ExpiredNeverUsed, InTime
  <1>. QED BY <1>1, InTimeStep, AlwaysFlows, PTL DEF Spec

\* Logins that expire, or are dropped with the process, move on their own.
LEMMA LoginsMoveOn ==
    ASSUME FlowInv, UNCHANGED <<used, issued>>, items' \subseteq items
    PROVE  AbstractLogin!MovesOn(States) /\ UNCHANGED used
  <1>1. \A s \in States :
          \/ StatusOf(s)' = StatusOf(s)
          \/ StatusOf(s) = "pending" /\ StatusOf(s)' = "dropped"
    BY DEF StatusOf, FlowInv, LoginsOK
  <1>. QED BY <1>1 DEF AbstractLogin!MovesOn, AbstractLogin!Moves

LEMMA LoginStep ==
    Typed /\ FlowInv /\ [Next]_vars => [AbstractLogin!Next]_(AbstractLogin!loginVars)
  <1>. SUFFICES ASSUME Typed, FlowInv, [Next]_vars PROVE AbstractLogin!Next
    OBVIOUS
  <1>0. \A s \in States : StatusOf(s) \in {"used", "pending", "dropped", "new"}
    BY DEF StatusOf
  <1>1. ASSUME UNCHANGED <<used, issued>>, items' \subseteq items
        PROVE  AbstractLogin!MovesOn(States) /\ UNCHANGED used
    BY <1>1, LoginsMoveOn
  <1>2. ASSUME NEW s \in States, NEW u \in DOMAIN users, NEW t \in LaterTimes,
               NEW email \in LoginEmails(u), StartSingpassLogin(s, u, email, t)
        PROVE  AbstractLogin!MovesOn(States) /\ UNCHANGED used
    <2>1. /\ used' = used /\ \A a \in issued : a.state # s
          /\ \E new : new.state = s /\ issued' = issued \cup {new}
                                    /\ items' \subseteq items \cup {new}
      BY <1>2 DEF StartSingpassLogin, Save, PurgeExpired
    <2>2. ~Used(s)
      BY <2>1 DEF FlowInv, LoginsOK
    <2>3. StatusOf(s) = "new" /\ StatusOf(s)' \in {"pending", "dropped"}
      BY <2>1, <2>2 DEF StatusOf, Used, FlowInv, LoginsOK
    <2>4. \A x \in States \ {s} :
            \/ StatusOf(x)' = StatusOf(x)
            \/ StatusOf(x) = "pending" /\ StatusOf(x)' = "dropped"
      BY <2>1 DEF StatusOf, FlowInv, LoginsOK
    <2>. QED BY <2>1, <2>3, <2>4 DEF AbstractLogin!MovesOn, AbstractLogin!Moves
  <1>3. ASSUME NEW h \in Callbacks, NEW s \in States, NEW t \in LaterTimes,
               CallbackAccepted(h, s, t)
        PROVE  AbstractLogin!Use(s)
    <2>1. PICK item \in Lookup(s) : ConsumeOk(s, t, item)
      BY <1>3 DEF CallbackAccepted
    <2>2. items' \subseteq items /\ item \in items /\ item.state = s
      BY <2>1, StoreKeeps DEF ConsumeOk, Typed
    <2>3. used' = Append(used, s) /\ issued' = issued /\ used \in Seq(States)
      BY <1>3 DEF CallbackAccepted, Typed, HistoryTyped
    <2>4. \A x : Used(x)' <=> Used(x) \/ x = s
      <3>1. /\ DOMAIN used' = DOMAIN used \cup {Len(used) + 1}
            /\ used'[Len(used) + 1] = s
            /\ \A i \in DOMAIN used : used'[i] = used[i]
        BY <2>3, Appended
      <3>. QED BY <3>1 DEF Used
    <2>5. StatusOf(s) = "pending" /\ StatusOf(s)' = "used"
      BY <2>2, <2>4 DEF StatusOf, Used, FlowInv, LoginsOK
    <2>6. \A x \in States \ {s} :
            \/ StatusOf(x)' = StatusOf(x)
            \/ StatusOf(x) = "pending" /\ StatusOf(x)' = "dropped"
      BY <2>2, <2>3, <2>4 DEF StatusOf, Used, FlowInv, LoginsOK
    <2>. QED
      BY <2>3, <2>5, <2>6
      DEF AbstractLogin!Use, AbstractLogin!MovesOn, AbstractLogin!Moves
  <1>4. ASSUME NEW h \in Callbacks, NEW s \in States, NEW t \in LaterTimes,
               CallbackRefused(h, s, t)
        PROVE  UNCHANGED <<used, issued>> /\ items' \subseteq items
    BY <1>4, StoreKeeps DEF CallbackRefused, ConsumeFails, historyVars, Typed
  <1>5. ASSUME \/ \E h \in Callbacks : CallbackStep(h) \/ CallbackFailure(h)
               \/ TimePasses \/ Restart \/ UNCHANGED vars
        PROVE  UNCHANGED <<used, issued>> /\ items' \subseteq items
    BY <1>5
    DEF CallbackStep, CallbackFailure, GetAccessToken, GetUserInfo, UpdateKYCStatus,
        InvalidateCached, PublishUserKYCComplete, SingpassFails, UpdateFails,
        UpdateReplyLost, PublishFails, TimePasses, Tick, Restart, LoginsLost,
        vars, kycVars, historyVars
  <1>. QED
    BY <1>1, <1>2, <1>3, <1>4, <1>5 DEF Next, Step, AbstractLogin!Next

\* The OAuth states are one-time logins: every step of the flow is a use of one
\* pending state, or lets states become pending or be dropped.
THEOREM FlowImplementsOneTimeLogin == Spec => ImplementsOneTimeLogin
  <1>1. Init => AbstractLogin!Init
    BY DEF Init, AbstractLogin!Init, StatusOf
  <1>. QED
    BY <1>1, LoginStep, AlwaysFlows, PTL DEF Spec, ImplementsOneTimeLogin, AbstractLogin!Spec

-----------------------------------------------------------------------------
(* Where the claim of the email check fails: it holds of the logins that   *)
(* carry an address.                                                       *)

\* An address a login carries is one of the user who started it.
CarriedIsMapped ==
    \A a \in issued :
        a.email # None => \E m \in mappings : m.uid = a.uid /\ m.email = a.email

LEMMA CarriedStep == Typed /\ CarriedIsMapped /\ [Next]_vars => CarriedIsMapped'
  <1>. SUFFICES ASSUME Typed, CarriedIsMapped, [Next]_vars PROVE CarriedIsMapped'
    OBVIOUS
  <1>1. mappings' = mappings
    BY DEF Next, Step, CallbackStep, CallbackFailure, StartSingpassLogin, CallbackAccepted,
           CallbackRefused, GetAccessToken, GetUserInfo, UpdateKYCStatus, InvalidateCached,
           PublishUserKYCComplete, SingpassFails, UpdateFails, UpdateReplyLost,
           PublishFails, TimePasses, Restart, vars, storeVars, dbVars
  <1>2. ASSUME NEW s \in States, NEW u \in DOMAIN users, NEW t \in LaterTimes,
               NEW email \in LoginEmails(u), StartSingpassLogin(s, u, email, t)
        PROVE  CarriedIsMapped'
    BY <1>1, <1>2 DEF StartSingpassLogin, LoginEmails, CarriedIsMapped
  <1>3. ASSUME issued' = issued PROVE CarriedIsMapped'
    BY <1>1, <1>3 DEF CarriedIsMapped
  <1>4. \/ issued' = issued
        \/ \E s \in States, u \in DOMAIN users, t \in LaterTimes :
             \E email \in LoginEmails(u) : StartSingpassLogin(s, u, email, t)
    BY DEF Next, Step, CallbackStep, CallbackFailure, CallbackAccepted,
           CallbackRefused, GetAccessToken, GetUserInfo, UpdateKYCStatus, InvalidateCached,
           PublishUserKYCComplete, SingpassFails, UpdateFails, UpdateReplyLost,
           PublishFails, TimePasses, Restart, LoginsLost, vars, kycVars, historyVars
  <1>. QED BY <1>2, <1>3, <1>4

\* As long as every login carries its user's address, the Singpass identity that
\* decides a user's KYC has that address: it is the address RequireRole never sets
\* that the check of SingpassCallback lacks.
THEOREM CarryingChecksEmail ==
    Spec => []((\A a \in issued : a.email # None) => EmailChecked)
  <1>1. FlowInv /\ CarriedIsMapped => ((\A a \in issued : a.email # None) => EmailChecked)
    <2>. SUFFICES ASSUME FlowInv, CarriedIsMapped, \A a \in issued : a.email # None,
                         NEW i \in DOMAIN writes
                  PROVE  \E m \in mappings : /\ m.uid = writes[i].uid
                                             /\ EmailsMatchForKYC(m.email, writes[i].email)
      BY DEF EmailChecked
    <2>1. PICK a \in issued : /\ a.state = writes[i].state /\ a.uid = writes[i].uid
                              /\ Agrees(a, writes[i].email)
      BY DEF FlowInv, WritesOK
    <2>2. PICK m \in mappings : m.uid = a.uid /\ m.email = a.email
      BY DEF CarriedIsMapped
    <2>. QED BY <2>1, <2>2 DEF Agrees
  <1>2. Init => CarriedIsMapped
    BY DEF Init, CarriedIsMapped
  <1>. QED BY <1>1, <1>2, CarriedStep, AlwaysFlows, PTL DEF Spec

-----------------------------------------------------------------------------
(* The rest of the process.  Another service on the same tables keeps what *)
(* the flow relies on as long as it leaves the flow's state, column and    *)
(* topic alone; a crash of the process takes the logins, if there are any. *)

RestSteps ==
    /\ StoreTypeOK'
    /\ UNCHANGED faults \/ Fault
    /\ UNCHANGED kycTopic
    /\ DOMAIN users' = DOMAIN users
    /\ \A u \in DOMAIN users : users'[u].kyc = users[u].kyc
    /\ UNCHANGED kycVars \/ (Fault /\ LoginsLost)

LEMMA RestKeeps ==
    ASSUME Typed, FlowInv, ToldInv, RestSteps
    PROVE  /\ Typed' /\ FlowInv' /\ ToldInv'
           /\ InTime
           /\ AbstractLogin!Next
  <1>1. UNCHANGED <<now, issued, used, writes, crossed, kycTopic>> /\ items' \subseteq items
    BY DEF RestSteps, LoginsLost, kycVars, historyVars, writeVars
  <1>2. \/ UNCHANGED <<cb, lost>>
        \/ /\ Fault /\ cb' = [h \in Callbacks |-> IdleCallback]
           /\ lost' = lost \cup {cb[h].state : h \in {x \in Callbacks : Telling(x)}}
    BY DEF RestSteps, LoginsLost, kycVars, historyVars, writeVars
  <1>3. IdleCallback.pc = "idle"
    BY DEF IdleCallback, Serving
  <1>4. Typed'
    <2>1. CallbacksTyped'
      BY <1>2, IdleWellFormed DEF Typed, CallbacksTyped, WellFormed
    <2>2. lost' \subseteq States
      BY <1>2, ToldTyped DEF Typed, HistoryTyped
    <2>. QED BY <1>1, <2>1, <2>2 DEF RestSteps, Typed, LoginsTyped, HistoryTyped
  <1>5. FlowInv'
    <2>1. LoginsOK' /\ WritesOK' /\ EventsOK'
      BY <1>1 DEF FlowInv, LoginsOK, WritesOK, EventsOK, Crossed, Used, Agrees
    <2>2. CallbacksOK'
      BY <1>1, <1>2, <1>3
      DEF FlowInv, CallbacksOK, DecidesOK, TellsOK, Running, Used, Written, Agrees
    <2>. QED BY <2>1, <2>2 DEF FlowInv
  <1>6. ToldInv'
    <2>1. Fault => faults' # 0
      BY MaxFaultsAssumption DEF Fault, Typed, StoreTypeOK
    <2>2. \A s : Told(s) => Told(s)'
      BY <1>1, <1>2 DEF Told, Telling
    <2>3. KafkaEnabled => AllTold'
      BY <1>1, <2>2 DEF ToldInv, LossOK, AllTold
    <2>4. KafkaEnabled /\ faults' = 0 => lost' = {}
      BY <1>2, <2>1 DEF RestSteps, ToldInv, LossOK
    <2>5. TablesOK'
      BY <1>1 DEF RestSteps, ToldInv, TablesOK, LastOf
    <2>. QED BY <2>3, <2>4, <2>5 DEF ToldInv, LossOK
  <1>7. AbstractLogin!Next
    BY <1>1, LoginsMoveOn DEF AbstractLogin!Next
  <1>. QED BY <1>1, <1>4, <1>5, <1>6, <1>7 DEF InTime

\* What the flow does to the tables: one column, and no row more or less.
LEMMA FlowWritesKyc ==
    ASSUME Typed, Step
    PROVE  /\ UNCHANGED faults \/ Fault
           /\ DOMAIN users' = DOMAIN users
           /\ \A u \in DOMAIN users : users'[u].market = users[u].market
  <1>1. ASSUME NEW h \in Callbacks, WriteStatus(h)
        PROVE  /\ DOMAIN users' = DOMAIN users
               /\ \A u \in DOMAIN users : users'[u].market = users[u].market
    BY <1>1 DEF WriteStatus, Typed, StoreTypeOK, UserRow
  <1>2. ASSUME NEW h \in Callbacks, CallbackStep(h) \/ CallbackFailure(h)
        PROVE  (UNCHANGED faults \/ Fault) /\ (UNCHANGED users \/ WriteStatus(h))
    BY <1>2
    DEF CallbackStep, CallbackFailure, GetAccessToken, GetUserInfo, UpdateKYCStatus,
        InvalidateCached, PublishUserKYCComplete, SingpassFails, UpdateFails,
        UpdateReplyLost, PublishFails, storeVars, dbVars
  <1>3. ASSUME ~\E h \in Callbacks : CallbackStep(h) \/ CallbackFailure(h)
        PROVE  UNCHANGED <<faults, users>>
    BY <1>3 DEF Step, StartSingpassLogin, CallbackAccepted, CallbackRefused, TimePasses,
                storeVars
  <1>. QED BY <1>1, <1>2, <1>3

=============================================================================
