------------------------------ MODULE KycFlow ------------------------------
(***************************************************************************)
(* Singpass KYC: SingpassLogin and SingpassCallback                        *)
(* (server/http/api/kyc_login.go) and kycServiceImpl                       *)
(* (server/service/kyc_service.go).                                        *)
(*                                                                         *)
(* A login saves a pending attempt under a fresh OAuth state.  A callback  *)
(* consumes the state, asks Singpass for a token and the user info, writes *)
(* the KYC status of the user bound to the state, invalidates the cached   *)
(* profile and publishes the outcome; every call that leaves the process   *)
(* is a step, and callbacks interleave.  A callback with an idp error, no  *)
(* code or no state answers 400 before it reaches the service and changes  *)
(* nothing; it is left out.                                                *)
(***************************************************************************)
EXTENDS IdentityStore, KycStateStore

CONSTANTS
    Callbacks,      \* callbacks that may run at the same time
    Accounts,       \* the mappings of the users registered at the start
    CarriesEmail,   \* whether the authenticated user of a SingpassLogin may have
                    \* an email: RequireRole never sets it, the tests do
    UserInfos,      \* what Singpass may say: [name, email], None when missing
    Untagged        \* an address without "+clerk_test": a function on Emails

ASSUME AccountsAssumption ==
    /\ Accounts \subseteq MappingRow
    /\ IsFiniteSet(Accounts)
    /\ {a.uid : a \in Accounts} = 1..Cardinality(Accounts)
ASSUME CarriesEmailAssumption == CarriesEmail \in BOOLEAN
ASSUME UserInfosAssumption ==
    UserInfos \subseteq [name : Names \cup {None}, email : Emails \cup {None}]
ASSUME UntaggedAssumption == Untagged \in [Emails -> Emails]

VARIABLES
    cb,         \* per callback: [pc, state, uid, email, status]
    issued,     \* history: the attempts started: [state, uid, email, expires]
    used,       \* history: the states the callbacks consumed, in order
    writes,     \* history: the KYC writes, in order: [state, uid, status, email]
    crossed,    \* history: the pairs <<s, t>> of states of one user of which t
                \* was written while the event of s was still to be published
    lost        \* history: the states written whose event a failure took

writeVars == <<writes, crossed, lost>>
historyVars == <<issued, used, writeVars>>
kycVars == <<items, now, cb, historyVars>>
vars == <<storeVars, kycVars>>

CallbackPCs == {"idle", "token", "userInfo", "update", "invalidate", "publish"}

\* email is the one the attempt was started with, then the one Singpass gave.
Serving(pc, s, u, email, status) ==
    [pc |-> pc, state |-> s, uid |-> u, email |-> email, status |-> status]
IdleCallback == Serving("idle", None, 0, None, None)

Init ==
    /\ InitRegistered(Accounts)
    /\ items = {}
    /\ now = 0
    /\ cb = [h \in Callbacks |-> IdleCallback]
    /\ issued = {}
    /\ used = <<>>
    /\ writes = <<>>
    /\ crossed = {}
    /\ lost = {}

Becomes(h, to) == cb' = [cb EXCEPT ![h] = to]

-----------------------------------------------------------------------------
(* StartSingpassLogin.                                                     *)

\* The Email of the authenticated user, as SingpassLogin passes it on.
LoginEmails(u) ==
    {None} \cup {m.email : m \in {x \in mappings : CarriesEmail /\ x.uid = u}}

StartSingpassLogin(s, u, email, t) ==
    /\ \A i \in issued : i.state # s
    /\ Save(s, u, email, t)
    /\ issued' = issued \cup {[state |-> s, uid |-> u, email |-> email,
                                 expires |-> now + TTL]}
    /\ UNCHANGED <<storeVars, cb, used, writeVars>>

-----------------------------------------------------------------------------
(* SingpassCallback.  Anyone may call it with any state, at any time.      *)

CallbackAccepted(h, s, t) ==
    /\ cb[h].pc = "idle"
    /\ \E item \in Lookup(s) :
         /\ ConsumeOk(s, t, item)
         /\ Becomes(h, Serving("token", s, item.uid, item.email, None))
    /\ used' = Append(used, s)
    /\ UNCHANGED <<storeVars, issued, writeVars>>

CallbackRefused(h, s, t) ==
    /\ cb[h].pc = "idle"
    /\ ConsumeFails(s, t)
    /\ UNCHANGED <<storeVars, cb, historyVars>>

GetAccessToken(h) ==
    /\ cb[h].pc = "token"
    /\ Becomes(h, [cb[h] EXCEPT !.pc = "userInfo"])
    /\ UNCHANGED <<storeVars, items, now, historyVars>>

\* Equal, or equal once the tag is removed from the pending address.
EmailsMatchForKYC(pending, singpass) ==
    singpass # None /\ (pending = singpass \/ Untagged[pending] = singpass)

\* Mutant: an address that is missing on either side is not compared.
EmailMismatchLenient(pending, singpass) ==
    pending # None /\ singpass # None /\ ~EmailsMatchForKYC(pending, singpass)

EmailMismatch(pending, singpass) ==
    pending # None /\ ~EmailsMatchForKYC(pending, singpass)

\* Mutant: a user info without a name leaves the status as it is.
GetUserInfoUndecided(h) ==
    /\ cb[h].pc = "userInfo"
    /\ \E info \in UserInfos :
         Becomes(h,
           IF EmailMismatch(cb[h].email, info.email)
           THEN IdleCallback
           ELSE Serving("update", cb[h].state, cb[h].uid, info.email,
                        IF info.name # None THEN "PASSED" ELSE None))
    /\ UNCHANGED <<storeVars, items, now, historyVars>>

\* Mutant: the outcome is published as soon as Singpass has told it.
GetUserInfoAnnounced(h) ==
    /\ cb[h].pc = "userInfo"
    /\ \E info \in UserInfos :
         /\ Becomes(h, IF EmailMismatch(cb[h].email, info.email)
                       THEN IdleCallback
                       ELSE Serving("update", cb[h].state, cb[h].uid, info.email,
                                    IF info.name # None THEN "PASSED" ELSE "FAILED"))
         /\ kycTopic' = IF EmailMismatch(cb[h].email, info.email)
                        THEN kycTopic
                        ELSE Append(kycTopic, [uid |-> cb[h].uid, state |-> cb[h].state,
                               status |-> IF info.name # None THEN "PASSED" ELSE "FAILED"])
    /\ UNCHANGED <<dbVars, mapCache, profileCache, registeredTopic, faults, items, now,
                   historyVars>>

\* A mismatch is ErrKYCEmailMismatch; otherwise a name decides the status.
GetUserInfo(h) ==
    /\ cb[h].pc = "userInfo"
    /\ \E info \in UserInfos :
         Becomes(h,
           IF EmailMismatch(cb[h].email, info.email)
           THEN IdleCallback
           ELSE Serving("update", cb[h].state, cb[h].uid, info.email,
                        IF info.name # None THEN "PASSED" ELSE "FAILED"))
    /\ UNCHANGED <<storeVars, items, now, historyVars>>

\* A callback that has written its status has still to publish it.
Telling(h) == cb[h].pc \in {"invalidate", "publish"}

\* Mutant: a check that passed is not taken back, but the outcome is told.
WriteStatusKeepsPassed(h) ==
    /\ users' = [u \in DOMAIN users |->
                   IF u = cb[h].uid /\ users[u].kyc # "PASSED"
                   THEN [users[u] EXCEPT !.kyc = cb[h].status] ELSE users[u]]
    /\ writes' = Append(writes, [state |-> cb[h].state, uid |-> cb[h].uid,
                                 status |-> cb[h].status, email |-> cb[h].email])
    /\ crossed' = crossed \cup
         {<<cb[g].state, cb[h].state>> :
            g \in {x \in Callbacks \ {h} : Telling(x) /\ cb[x].uid = cb[h].uid}}

\* UPDATE users SET kyc_status; no matching row is no error.
WriteStatus(h) ==
    /\ users' = [u \in DOMAIN users |->
                   IF u = cb[h].uid THEN [users[u] EXCEPT !.kyc = cb[h].status]
                                    ELSE users[u]]
    /\ writes' = Append(writes, [state |-> cb[h].state, uid |-> cb[h].uid,
                                 status |-> cb[h].status, email |-> cb[h].email])
    /\ crossed' = crossed \cup
         {<<cb[g].state, cb[h].state>> :
            g \in {x \in Callbacks \ {h} : Telling(x) /\ cb[x].uid = cb[h].uid}}

\* Mutant: the cached profile is left to its expiry.
UpdateKYCStatusOnly(h) ==
    /\ cb[h].pc = "update"
    /\ WriteStatus(h)
    /\ Becomes(h, [cb[h] EXCEPT !.pc = "publish"])
    /\ UNCHANGED <<mappings, nextId, mapCache, profileCache, topicVars, faults,
                   items, now, issued, used, lost>>

UpdateKYCStatus(h) ==
    /\ cb[h].pc = "update"
    /\ WriteStatus(h)
    /\ Becomes(h, [cb[h] EXCEPT !.pc = "invalidate"])
    /\ UNCHANGED <<mappings, nextId, mapCache, profileCache, topicVars, faults,
                   items, now, issued, used, lost>>

InvalidateCached(h) ==
    /\ cb[h].pc = "invalidate"
    /\ InvalidateUserProfileCache(cb[h].uid)
    /\ Becomes(h, [cb[h] EXCEPT !.pc = "publish"])
    /\ UNCHANGED <<dbVars, mapCache, topicVars, faults, items, now, historyVars>>

\* state is not in the event; it says here which attempt the event is about.
EventOf(h) == [uid |-> cb[h].uid, status |-> cb[h].status, state |-> cb[h].state]

\* Mutant: only a KYC that passed is told.
PublishPassedOnly(h) ==
    /\ cb[h].pc = "publish"
    /\ kycTopic' = IF cb[h].status = "PASSED" THEN Delivered(kycTopic, EventOf(h))
                                              ELSE kycTopic
    /\ Becomes(h, IdleCallback)
    /\ UNCHANGED <<dbVars, mapCache, profileCache, registeredTopic, faults,
                   items, now, historyVars>>

PublishUserKYCComplete(h) ==
    /\ cb[h].pc = "publish"
    /\ kycTopic' = Delivered(kycTopic, EventOf(h))
    /\ Becomes(h, IdleCallback)
    /\ UNCHANGED <<dbVars, mapCache, profileCache, registeredTopic, faults,
                   items, now, historyVars>>

-----------------------------------------------------------------------------
(* What goes wrong.  The state is consumed: the attempt cannot be repeated. *)

\* Singpass answers an error, or not within the 30 seconds the callback has.
SingpassFails(h) ==
    /\ cb[h].pc \in {"token", "userInfo"}
    /\ Becomes(h, IdleCallback)
    /\ UNCHANGED <<storeVars, items, now, historyVars>>

\* Mutant: the attempt is put back so that the user can try again.
UpdateFailsRestoring(h) ==
    /\ cb[h].pc = "update"
    /\ Fault
    /\ items' = items \cup {[state |-> cb[h].state, uid |-> cb[h].uid,
                             email |-> cb[h].email, expires |-> now + TTL]}
    /\ Becomes(h, IdleCallback)
    /\ UNCHANGED <<dbVars, mapCache, profileCache, topicVars, now, historyVars>>

UpdateFails(h) ==
    /\ cb[h].pc = "update"
    /\ Fault
    /\ Becomes(h, IdleCallback)
    /\ UNCHANGED <<dbVars, mapCache, profileCache, topicVars, items, now, historyVars>>

\* The UPDATE is applied but reported as an error: no Del and no event.
UpdateReplyLost(h) ==
    /\ cb[h].pc = "update"
    /\ WriteStatus(h)
    /\ Fault
    /\ lost' = lost \cup {cb[h].state}
    /\ Becomes(h, IdleCallback)
    /\ UNCHANGED <<mappings, nextId, mapCache, profileCache, topicVars, items, now,
                   issued, used>>

\* Mutant: a failed Publish is tried again in place.
PublishFailsAndRetries(h) ==
    /\ cb[h].pc = "publish"
    /\ KafkaEnabled
    /\ kycTopic' \in {kycTopic, Append(kycTopic, EventOf(h))}
    /\ Fault
    /\ UNCHANGED <<dbVars, mapCache, profileCache, registeredTopic, kycVars>>

PublishFails(h) ==
    /\ cb[h].pc = "publish"
    /\ KafkaEnabled
    /\ \/ kycTopic' = Append(kycTopic, EventOf(h)) /\ UNCHANGED lost
       \/ UNCHANGED kycTopic /\ lost' = lost \cup {cb[h].state}
    /\ Fault
    /\ Becomes(h, IdleCallback)
    /\ UNCHANGED <<dbVars, mapCache, profileCache, registeredTopic, items, now,
                   issued, used, writes, crossed>>

\* The pending logins are in the memory of the process: a crash takes them and
\* the callbacks that run.
LoginsPending == items # {} \/ \E h \in Callbacks : cb[h].pc # "idle"

LoginsLost ==
    /\ items' = {}
    /\ cb' = [h \in Callbacks |-> IdleCallback]
    /\ lost' = lost \cup {cb[h].state : h \in {x \in Callbacks : Telling(x)}}
    /\ UNCHANGED <<now, issued, used, writes, crossed>>

Restart ==
    /\ LoginsPending
    /\ Fault
    /\ LoginsLost
    /\ UNCHANGED <<dbVars, mapCache, profileCache, topicVars>>

-----------------------------------------------------------------------------

CallbackStep(h) ==
    \/ GetAccessToken(h) \/ GetUserInfo(h) \/ UpdateKYCStatus(h)
    \/ InvalidateCached(h) \/ PublishUserKYCComplete(h)

CallbackFailure(h) ==
    \/ SingpassFails(h) \/ UpdateFails(h) \/ UpdateReplyLost(h) \/ PublishFails(h)

TimePasses == Tick /\ UNCHANGED <<storeVars, cb, historyVars>>

Step ==
    \/ \E s \in States, u \in DOMAIN users, t \in LaterTimes :
         \E email \in LoginEmails(u) : StartSingpassLogin(s, u, email, t)
    \/ \E h \in Callbacks, s \in States, t \in LaterTimes :
         CallbackAccepted(h, s, t) \/ CallbackRefused(h, s, t)
    \/ \E h \in Callbacks : CallbackStep(h) \/ CallbackFailure(h)
    \/ TimePasses

Next == Step \/ Restart

Spec == Init /\ [][Next]_vars

-----------------------------------------------------------------------------
(* Properties.                                                             *)

\* The shape of the state.
TypeOK ==
    /\ StoreTypeOK
    /\ kycTopic \in Seq([uid : UserId, status : {"PASSED", "FAILED"}, state : States])
    /\ items \subseteq [state : States, uid : UserId, email : Emails \cup {None},
                        expires : Nat]
    /\ now \in 0..MaxTime
    /\ cb \in [Callbacks -> [pc : CallbackPCs, state : States \cup {None}, uid : Nat,
                             email : Emails \cup {None},
                             status : {"PASSED", "FAILED", None}]]
    /\ issued \subseteq [state : States, uid : UserId, email : Emails \cup {None},
                         expires : Nat]
    /\ used \in Seq(States)
    /\ writes \in Seq([state : States, uid : UserId, status : {"PASSED", "FAILED"},
                       email : Emails \cup {None}])
    /\ crossed \subseteq States \X States
    /\ lost \subseteq States

\* A login decides the KYC status of a user at most once, and of the user who
\* started it, however often its callback arrives and whatever else runs.
OneWritePerLogin ==
    /\ \A i, j \in DOMAIN writes : writes[i].state = writes[j].state => i = j
    /\ \A i \in DOMAIN writes :
         \E a \in issued : a.state = writes[i].state /\ a.uid = writes[i].uid

\* A callback is only let in while its login is valid, by the clock as it stands
\* when Consume returns.
ExpiredNeverUsed ==
    [][used' # used =>
         \E a \in issued : a.state = used'[Len(used')] /\ now' <= a.expires]_vars

\* Every KYC event tells what one write wrote, and no write is told twice.  The
\* events of a user are in the order of its writes, except that of a write during
\* which the event of an earlier one was still to be published, which may then come
\* after it.  So the last event of a user is the status in the table, unless the
\* last write is still to be told, lost its event to a failure, or crossed that one.
WriteOf(event) == CHOOSE j \in DOMAIN writes : writes[j].state = event.state
LastOf(seq, u, i) ==
    i \in DOMAIN seq /\ seq[i].uid = u /\ \A j \in DOMAIN seq : seq[j].uid = u => j <= i
Crossed(e, f) == <<e.state, f.state>> \in crossed

EventsFollowWrites ==
    /\ \A i \in DOMAIN kycTopic : \E j \in DOMAIN writes :
         /\ writes[j].state = kycTopic[i].state
         /\ writes[j].uid = kycTopic[i].uid
         /\ writes[j].status = kycTopic[i].status
    /\ \A i, j \in DOMAIN kycTopic :
         /\ kycTopic[i].state = kycTopic[j].state => i = j
         /\ i < j /\ kycTopic[i].uid = kycTopic[j].uid
              => \/ WriteOf(kycTopic[i]) < WriteOf(kycTopic[j])
                 \/ Crossed(kycTopic[j], kycTopic[i])
    /\ \A u \in DOMAIN users : \A i \in DOMAIN kycTopic, j \in DOMAIN writes :
         LastOf(kycTopic, u, i) /\ LastOf(writes, u, j) =>
             \/ kycTopic[i].status = users[u].kyc
             \/ \E h \in Callbacks : Telling(h) /\ cb[h].state = writes[j].state
             \/ writes[j].state \in lost
             \/ Crossed(kycTopic[i], writes[j])

\* Every KYC write is told, or the callback that made it is about to, or its event
\* was lost: to an UPDATE reported as an error, to a publish that failed or to a
\* restart, and to nothing before the first fault.
OnlyFaultsLoseKycEvents ==
    KafkaEnabled =>
        /\ \A j \in DOMAIN writes :
             \/ \E i \in DOMAIN kycTopic : kycTopic[i].state = writes[j].state
             \/ \E h \in Callbacks : Telling(h) /\ cb[h].state = writes[j].state
             \/ writes[j].state \in lost
        /\ faults = 0 => lost = {}

\* The OAuth states, as the store, the callbacks and the restarts treat them,
\* are one-time logins.
StatusOf(s) ==
    IF \E i \in DOMAIN used : used[i] = s THEN "used"
    ELSE IF \E i \in items : i.state = s THEN "pending"
    ELSE IF \E a \in issued : a.state = s THEN "dropped"
    ELSE "new"

AbstractLogin == INSTANCE OneTimeLogin WITH
    status <- [s \in States |-> StatusOf(s)], uses <- used

ImplementsOneTimeLogin == AbstractLogin!Spec

\* A login that carried an address is only decided by a Singpass identity with
\* that address, or with that address without its tag.
CarriedEmailChecked ==
    \A i \in DOMAIN writes : \A a \in issued :
        (a.state = writes[i].state /\ a.email # None)
          => EmailsMatchForKYC(a.email, writes[i].email)

\* What ErrKYCEmailMismatch and the comment of emailsMatchForKYC say: the
\* Singpass identity that decides a user's KYC has that user's address.
EmailChecked ==
    \A i \in DOMAIN writes :
        \E m \in mappings : /\ m.uid = writes[i].uid
                            /\ EmailsMatchForKYC(m.email, writes[i].email)

=============================================================================
