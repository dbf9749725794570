-------------------------- MODULE UserRegistration --------------------------
(***************************************************************************)
(* The Clerk webhook: ClerkCallback (server/http/api/clerk_callback.go)    *)
(* and userServiceImpl.CreateUser (server/service/user_mapping_service.go) *)
(* with the DAO calls they make.                                           *)
(*                                                                         *)
(* A handler is one in-flight HTTP request.  Every call that leaves the    *)
(* process (Redis, MySQL, Kafka) is a step of its own, so that requests    *)
(* interleave between any two of them.  Svix delivers a message at least   *)
(* once: any message may arrive again at any time, on any idle handler.    *)
(* Signature and body checks come before the message is known and answer   *)
(* an error with no effect; they are left out.                             *)
(***************************************************************************)
EXTENDS IdentityStore

CONSTANTS
    Handlers,   \* requests the server may be serving at the same time
    Messages    \* the webhook messages Clerk sends

\* A missing id, a missing Data and an unusable address are None.
WebhookMessage ==
    [type : {"user.created", "user.updated"},
     clerk : Clerks \cup {None}, email : Emails \cup {None}]

ASSUME MessagesAssumption == Messages \subseteq WebhookMessage
ASSUME NoneIsNoMessage == None \notin WebhookMessage

VARIABLES
    reg,        \* per handler: [pc, msg, uid, row]
    answers     \* the answers given so far: a set of [msg, code]

regVars == <<reg, answers>>
vars == <<storeVars, regVars>>

PCs == {"idle", "mapCache", "byClerk", "fill", "byEmail", "insertUser",
        "delBefore", "insertMapping", "delAfter", "commit",
        "invalidate", "publish"}

\* uid is the id of the user row inserted, row the mapping read by Clerk id.
Request(pc, m, u, r) == [pc |-> pc, msg |-> m, uid |-> u, row |-> r]
Idle == Request("idle", None, 0, None)

\* The handler has inserted its mapping row and not committed it yet.
HoldsMapping(h) == reg[h].pc \in {"delAfter", "commit"}

\* The mapping CreateUser builds from the message and the new user's id.
MappingOf(h) ==
    [clerk |-> reg[h].msg.clerk, email |-> reg[h].msg.email, uid |-> reg[h].uid]

Init ==
    /\ InitStore
    /\ reg = [h \in Handlers |-> Idle]
    /\ answers = {}

-----------------------------------------------------------------------------
(* Control. *)

At(h, pc) == reg[h].pc = pc

Goto(h, pc) ==
    /\ reg' = [reg EXCEPT ![h].pc = pc]
    /\ UNCHANGED answers

Answer(h, code) ==
    /\ answers' = answers \cup {[msg |-> reg[h].msg, code |-> code]}
    /\ reg' = [reg EXCEPT ![h] = Idle]

-----------------------------------------------------------------------------
(* ClerkCallback: what is turned away before CreateUser, and what is not.  *)

Accepts(m) == m.type = "user.created" /\ m.clerk # None /\ m.email # None

Dismiss(m) ==
    /\ ~Accepts(m)
    /\ LET code == IF m.type = "user.created" THEN 400 ELSE 200
       IN  answers' = answers \cup {[msg |-> m, code |-> code]}
    /\ UNCHANGED <<storeVars, reg>>

Receive(h, m) ==
    /\ At(h, "idle")
    /\ Accepts(m)
    /\ reg' = [reg EXCEPT ![h] = Request("mapCache", m, 0, None)]
    /\ UNCHANGED <<storeVars, answers>>

-----------------------------------------------------------------------------
(* GetByClerkUserID: the cache, then the table, then the cache again. *)

CacheHit(h) ==
    /\ At(h, "mapCache")
    /\ \E r \in mapCache : r.clerk = reg[h].msg.clerk
    /\ Answer(h, 200)
    /\ UNCHANGED storeVars

CacheMiss(h) ==
    /\ At(h, "mapCache")
    /\ Goto(h, "byClerk")
    /\ UNCHANGED storeVars

\* Mutant: an existing mapping is an error.
FoundByClerkIsError(h) ==
    /\ At(h, "byClerk")
    /\ \E r \in mappings : r.clerk = reg[h].msg.clerk
    /\ Answer(h, 500)
    /\ UNCHANGED storeVars

FoundByClerk(h) ==
    /\ At(h, "byClerk")
    /\ \E r \in mappings :
         /\ r.clerk = reg[h].msg.clerk
         /\ reg' = [reg EXCEPT ![h] = Request("fill", reg[h].msg, 0, r)]
    /\ UNCHANGED <<storeVars, answers>>

NotFoundByClerk(h) ==
    /\ At(h, "byClerk")
    /\ \A r \in mappings : r.clerk # reg[h].msg.clerk
    /\ Goto(h, "byEmail")
    /\ UNCHANGED storeVars

FillCache(h) ==
    /\ At(h, "fill")
    /\ SetMappingCache(reg[h].row)
    /\ Answer(h, 200)
    /\ UNCHANGED <<dbVars, profileCache, topicVars, faults>>

(* GetByEmail reads the table only. *)

FoundByEmail(h) ==
    /\ At(h, "byEmail")
    /\ \E r \in mappings : r.email = reg[h].msg.email
    /\ Answer(h, 200)
    /\ UNCHANGED storeVars

NotFoundByEmail(h) ==
    /\ At(h, "byEmail")
    /\ \A r \in mappings : r.email # reg[h].msg.email
    /\ Goto(h, "insertUser")
    /\ UNCHANGED storeVars

-----------------------------------------------------------------------------
(* The transaction.  A rollback does not give the user id back.            *)

\* Mutant: the id is not read back from the INSERT.
InsertUserWithoutId(h) ==
    /\ At(h, "insertUser")
    /\ reg' = [reg EXCEPT ![h] = Request("delBefore", reg[h].msg, 0, None)]
    /\ nextId' = nextId + 1
    /\ UNCHANGED <<users, mappings, mapCache, profileCache, topicVars, faults,
                   answers>>

InsertUser(h) ==
    /\ At(h, "insertUser")
    /\ reg' = [reg EXCEPT ![h] = Request("delBefore", reg[h].msg, nextId, None)]
    /\ nextId' = nextId + 1
    /\ UNCHANGED <<users, mappings, mapCache, profileCache, topicVars, faults,
                   answers>>

DeleteCacheBefore(h) ==
    /\ At(h, "delBefore")
    /\ DeleteMappingCache(reg[h].msg.clerk)
    /\ Goto(h, "insertMapping")
    /\ UNCHANGED <<dbVars, profileCache, topicVars, faults>>

\* The unique index makes an INSERT wait for the transaction that holds an
\* uncommitted row with the same Clerk id.
IndexIsFree(h) ==
    \A g \in Handlers : HoldsMapping(g) => reg[g].msg.clerk # reg[h].msg.clerk

\* Mutant: clerk_user_id has no unique index.
InsertMappingUnchecked(h) ==
    /\ At(h, "insertMapping")
    /\ Goto(h, "delAfter")
    /\ UNCHANGED storeVars

InsertMapping(h) ==
    /\ At(h, "insertMapping")
    /\ IndexIsFree(h)
    /\ \A r \in mappings : r.clerk # reg[h].msg.clerk
    /\ Goto(h, "delAfter")
    /\ UNCHANGED storeVars

DuplicateMapping(h) ==
    /\ At(h, "insertMapping")
    /\ IndexIsFree(h)
    /\ \E r \in mappings : r.clerk = reg[h].msg.clerk
    /\ Answer(h, 500)
    /\ UNCHANGED storeVars

\* Mutant: the new row is written through to the cache before the commit.
DeleteCacheAfterFills(h) ==
    /\ At(h, "delAfter")
    /\ SetMappingCache(MappingOf(h))
    /\ Goto(h, "commit")
    /\ UNCHANGED <<dbVars, profileCache, topicVars, faults>>

DeleteCacheAfter(h) ==
    /\ At(h, "delAfter")
    /\ DeleteMappingCache(reg[h].msg.clerk)
    /\ Goto(h, "commit")
    /\ UNCHANGED <<dbVars, profileCache, topicVars, faults>>

\* Mutant: the mapping is upserted by address.
CommitRowsUpserting(h) ==
    /\ \E name \in Names : users' = WithUser(reg[h].uid, NewUser(name))
    /\ mappings' = {r \in mappings : r.email # reg[h].msg.email} \cup {MappingOf(h)}
    /\ UNCHANGED nextId

\* Both rows become visible at once.
CommitRows(h) ==
    /\ \E name \in Names : users' = WithUser(reg[h].uid, NewUser(name))
    /\ mappings' = mappings \cup {MappingOf(h)}
    /\ UNCHANGED nextId

Commit(h) ==
    /\ At(h, "commit")
    /\ CommitRows(h)
    /\ Goto(h, "invalidate")
    /\ UNCHANGED <<mapCache, profileCache, topicVars, faults>>

-----------------------------------------------------------------------------
(* After the commit. *)

\* Mutant: the request ends once the cache is invalidated.
InvalidateProfileEnds(h) ==
    /\ At(h, "invalidate")
    /\ InvalidateUserProfileCache(reg[h].uid)
    /\ Answer(h, 200)
    /\ UNCHANGED <<dbVars, mapCache, topicVars, faults>>

InvalidateProfile(h) ==
    /\ At(h, "invalidate")
    /\ InvalidateUserProfileCache(reg[h].uid)
    /\ Goto(h, "publish")
    /\ UNCHANGED <<dbVars, mapCache, topicVars, faults>>

Publish(h) ==
    /\ At(h, "publish")
    /\ registeredTopic' = Delivered(registeredTopic, reg[h].uid)
    /\ Answer(h, 200)
    /\ UNCHANGED <<dbVars, mapCache, profileCache, kycTopic, faults>>

-----------------------------------------------------------------------------
(* What goes wrong.                                                        *)

\* Mutant: the error of the transaction is logged and dropped.
DatabaseFailsSilently(h) ==
    /\ reg[h].pc \in {"byClerk", "byEmail", "insertUser", "insertMapping", "commit"}
    /\ Fault
    /\ Answer(h, 200)
    /\ UNCHANGED <<dbVars, mapCache, profileCache, topicVars>>

\* A read, an INSERT (a lock wait that times out included) or a COMMIT fails;
\* whatever the transaction did is rolled back.
DatabaseFails(h) ==
    /\ reg[h].pc \in {"byClerk", "byEmail", "insertUser", "insertMapping", "commit"}
    /\ Fault
    /\ Answer(h, 500)
    /\ UNCHANGED <<dbVars, mapCache, profileCache, topicVars>>

\* The COMMIT is applied, but the connection is lost before the reply.
CommitReplyLost(h) ==
    /\ At(h, "commit")
    /\ CommitRows(h)
    /\ Fault
    /\ Answer(h, 500)
    /\ UNCHANGED <<mapCache, profileCache, topicVars>>

\* Mutant: a failed Publish is tried again in place.
PublishFailsAndRetries(h) ==
    /\ At(h, "publish")
    /\ KafkaEnabled
    /\ registeredTopic' \in {registeredTopic, Append(registeredTopic, reg[h].uid)}
    /\ Fault
    /\ Goto(h, "publish")
    /\ UNCHANGED <<dbVars, mapCache, profileCache, kycTopic>>

\* Publish returns an error; the record may have reached the broker or not.
PublishFails(h) ==
    /\ At(h, "publish")
    /\ KafkaEnabled
    /\ registeredTopic' \in {registeredTopic, Append(registeredTopic, reg[h].uid)}
    /\ Fault
    /\ Answer(h, 500)
    /\ UNCHANGED <<dbVars, mapCache, profileCache, kycTopic>>

\* The process stops (main exits on the first signal without draining) and is
\* started again: requests and open transactions are gone, the stores stay.
Restart ==
    /\ \E h \in Handlers : ~At(h, "idle")
    /\ Fault
    /\ reg' = [h \in Handlers |-> Idle]
    /\ UNCHANGED <<dbVars, mapCache, profileCache, topicVars, answers>>

-----------------------------------------------------------------------------

Step(h) ==
    \/ CacheHit(h) \/ CacheMiss(h)
    \/ FoundByClerk(h) \/ NotFoundByClerk(h) \/ FillCache(h)
    \/ FoundByEmail(h) \/ NotFoundByEmail(h)
    \/ InsertUser(h) \/ DeleteCacheBefore(h)
    \/ InsertMapping(h) \/ DuplicateMapping(h)
    \/ DeleteCacheAfter(h) \/ Commit(h)
    \/ InvalidateProfile(h) \/ Publish(h)

Failure(h) == DatabaseFails(h) \/ CommitReplyLost(h) \/ PublishFails(h)

Expire == \E r \in mapCache : ExpireMapping(r) /\ UNCHANGED regVars

Next ==
    \/ \E h \in Handlers : Step(h) \/ Failure(h)
    \/ \E h \in Handlers, m \in Messages : Receive(h, m)
    \/ \E m \in Messages : Dismiss(m)
    \/ Expire
    \/ Restart

Spec == Init /\ [][Next]_vars

\* Fairness: a running request is scheduled until it ends, and Svix keeps
\* redelivering a message until it is answered 200.
Answered(m, code) == [msg |-> m, code |-> code] \in answers

Redeliver(m) ==
    /\ ~Answered(m, 200)
    /\ \E h \in Handlers : Receive(h, m)

FairSpec ==
    /\ Spec
    /\ \A h \in Handlers : WF_vars(Step(h))
    /\ \A m \in Messages : SF_vars(Redeliver(m))

-----------------------------------------------------------------------------
(* Properties.                                                             *)

TransactionOpen(h) == reg[h].pc \in {"delBefore", "insertMapping", "delAfter", "commit"}
Committed(h) == reg[h].pc \in {"invalidate", "publish"}

RequestTypeOK ==
    /\ reg \in [Handlers -> [pc : PCs, msg : Messages \cup {None},
                            uid : Nat, row : MappingRow \cup {None}]]
    /\ answers \subseteq [msg : Messages, code : {200, 400, 500}]
    /\ \A h \in Handlers :
         /\ ~At(h, "idle") => reg[h].msg \in Messages /\ Accepts(reg[h].msg)
         /\ At(h, "fill") => reg[h].row \in MappingRow
         /\ TransactionOpen(h) \/ Committed(h) => reg[h].uid \in UserId

\* The shape of the state: rows, caches, topics and requests are well formed; a
\* request that runs has an acceptable message, one that is to fill the cache
\* has a row, one past its INSERT INTO users has a user id.
TypeOK == StoreTypeOK /\ RequestTypeOK

\* The two tables agree: a Clerk id is mapped once, a user is mapped once, and
\* the mapped users are exactly the users (the transaction of CreateUser and
\* the unique index on clerk_user_id, whatever requests interleave or fail).
TablesAgree ==
    /\ \A r, s \in mappings : r.clerk = s.clerk \/ r.uid = s.uid => r = s
    /\ {r.uid : r \in mappings} = DOMAIN users

\* The Redis mapping cache never shows a mapping that is not committed, nor two
\* for one Clerk id: CreateInTransaction deletes the entry before the commit,
\* and a racing GetByClerkUserID fills it only with a row it read committed.
MappingCacheCoherent == mapCache \subseteq mappings

\* A registration event names a committed user, and no user has two, although
\* messages are redelivered and a failed Publish may have reached the broker.
AnnouncedOnce ==
    /\ \A i \in DOMAIN registeredTopic : registeredTopic[i] \in DOMAIN users
    /\ \A i, j \in DOMAIN registeredTopic :
         registeredTopic[i] = registeredTopic[j] => i = j

\* A user.created message Clerk was told had succeeded is bound: its Clerk id
\* or, when CreateUser skipped it as a duplicate, its address has a mapping.
AcceptedMeansBound ==
    \A m \in Messages : Accepts(m) /\ Answered(m, 200) =>
        \E r \in mappings : r.clerk = m.clerk \/ r.email = m.email

Announced(u) == \E i \in DOMAIN registeredTopic : registeredTopic[i] = u

\* Only a fault loses a registration event: as long as none has happened, a
\* committed user is announced or the request that created it is about to.
OnlyFaultsLoseEvents ==
    KafkaEnabled /\ faults = 0 =>
        \A u \in DOMAIN users :
            \/ Announced(u)
             \/ \E h \in Handlers : Committed(h) /\ reg[h].uid = u

\* What a request holds is its own: the user id of an open transaction is
\* neither committed nor held by another request, the Clerk id of an
\* uncommitted mapping is free, the user of a request past its commit is bound
\* as the message says and not announced yet.
RequestOK(h) ==
    /\ At(h, "fill") =>
         reg[h].row \in mappings /\ reg[h].row.clerk = reg[h].msg.clerk
    /\ TransactionOpen(h) => reg[h].uid < nextId /\ reg[h].uid \notin DOMAIN users
    /\ HoldsMapping(h) => \A r \in mappings : r.clerk # reg[h].msg.clerk
    /\ Committed(h) => MappingOf(h) \in mappings /\ ~Announced(reg[h].uid)

RequestsDisjoint ==
    \A g, h \in Handlers : g # h =>
        /\ (TransactionOpen(g) \/ Committed(g)) /\ (TransactionOpen(h) \/ Committed(h))
              => reg[g].uid # reg[h].uid
        /\ HoldsMapping(g) /\ HoldsMapping(h) => reg[g].msg.clerk # reg[h].msg.clerk

RequestsConsistent ==
    /\ \A u \in DOMAIN users : u < nextId
    /\ \A h \in Handlers : RequestOK(h)
    /\ RequestsDisjoint

\* Registration as a whole is the atomic Registry: every step of a request is
\* one Register, one Announce or nothing.
AbstractRegistry == INSTANCE Registry WITH
    registered <- DOMAIN users, bindings <- mappings, announced <- registeredTopic

ImplementsRegistry == AbstractRegistry!Spec

\* Every acceptable message is at last answered 200, however often it failed:
\* what an earlier delivery left behind never makes a later one fail for good.
EventuallyAccepted ==
    \A m \in Messages : Accepts(m) => <>Answered(m, 200)

\* What the test of the duplicate address says of CreateUser: an address that
\* is mapped gets no second user.
EmailBoundOnce ==
    \A r, s \in mappings : r.email = s.email => r = s

\* What the test of the publish error says of CreateUser: a user whose event
\* was not published is not reported as a success.
AcceptedMeansAnnounced ==
    KafkaEnabled =>
        \A m \in Messages : Accepts(m) /\ Answered(m, 200) =>
            \A r \in mappings :
                r.clerk = m.clerk =>
                    \/ Announced(r.uid)
                    \/ \E h \in Handlers : reg[h].uid = r.uid

=============================================================================
