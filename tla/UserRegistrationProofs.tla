----------------------- MODULE UserRegistrationProofs -----------------------
(***************************************************************************)
(* What holds of UserRegistration for any number of handlers, messages and *)
(* faults.                                                                 *)
(***************************************************************************)
EXTENDS UserRegistration, TLAPS

USE DEF At, Goto, Answer, Fault, Request, Idle

-----------------------------------------------------------------------------
(* Rows, caches, topics.                                                   *)

\* Publishing adds the event at the end or, with the nop producer, nothing.
LEMMA DeliveredType ==
    ASSUME NEW S, NEW topic \in Seq(S), NEW event \in S
    PROVE  Delivered(topic, event) \in Seq(S)
  BY DEF Delivered

\* A best-effort Set or Del leaves only rows that were there or were set.
LEMMA CacheRows ==
    ASSUME NEW row, NEW c
    PROVE  /\ SetMappingCache(row) => mapCache' \subseteq mapCache \cup {row}
           /\ DeleteMappingCache(c) => mapCache' \subseteq mapCache
           /\ InvalidateUserProfileCache(c) => profileCache' \subseteq profileCache
  BY DEF SetMappingCache, DeleteMappingCache, InvalidateUserProfileCache,
         MapCacheWithout, ProfileCacheWithout

-----------------------------------------------------------------------------
(* Type correctness.                                                       *)

\* Everything UserRegistration does to the stores other than by a commit.
LEMMA StoreTypeStutter ==
    ASSUME StoreTypeOK, UNCHANGED storeVars
    PROVE  StoreTypeOK'
  BY DEF StoreTypeOK, storeVars, dbVars, topicVars

\* A commit keeps the tables well formed.
LEMMA CommitType ==
    ASSUME TypeOK, NEW h \in Handlers, CommitRows(h), MappingOf(h) \in MappingRow
    PROVE  /\ users' \in [DOMAIN users' -> UserRow]
           /\ DOMAIN users' \subseteq UserId
           /\ mappings' \subseteq MappingRow
           /\ nextId' \in UserId
  <1>1. PICK name \in Names : users' = WithUser(reg[h].uid, NewUser(name))
    BY DEF CommitRows
  <1>2. reg[h].uid \in UserId
    BY DEF MappingOf, MappingRow
  <1>3. NewUser(name) \in UserRow
    BY DEF NewUser, UserRow, KycStatuses
  <1>4. /\ users \in [DOMAIN users -> UserRow]
        /\ DOMAIN users \subseteq UserId
        /\ mappings \subseteq MappingRow
        /\ nextId \in UserId
    BY DEF TypeOK, StoreTypeOK
  <1>5. users' \in [DOMAIN users' -> UserRow]
    BY <1>1, <1>3, <1>4 DEF WithUser
  <1>. QED
    BY <1>1, <1>2, <1>4, <1>5 DEF CommitRows, WithUser

\* A request keeps its shape when it goes on to a step that asks nothing more
\* of it, and when it ends.
LEMMA GotoType ==
    ASSUME RequestTypeOK, NEW h \in Handlers, NEW pc \in PCs, Goto(h, pc),
           ~At(h, "idle"), pc # "fill",
           pc \in {"delBefore", "insertMapping", "delAfter", "commit", "invalidate", "publish"}
             => reg[h].uid \in UserId
    PROVE  RequestTypeOK'
  BY DEF RequestTypeOK, PCs, TransactionOpen, Committed

\* The mapping an open transaction is to commit is a well-formed row.
LEMMA CommittedRowType ==
    ASSUME TypeOK, NEW h \in Handlers, TransactionOpen(h)
    PROVE  MappingOf(h) \in MappingRow
  BY MessagesAssumption
  DEF TypeOK, RequestTypeOK, TransactionOpen, Accepts, WebhookMessage, MappingOf,
      MappingRow

\* Every step keeps the state well formed.
LEMMA StepType ==
    ASSUME TypeOK, NEW h \in Handlers, Step(h)
    PROVE  TypeOK'
  <1>. USE DEF TypeOK
  <1>0. RequestTypeOK /\ StoreTypeOK
    OBVIOUS
  <1>1. CASE CacheHit(h)
    <2>1. RequestTypeOK'
      BY <1>1 DEF CacheHit, RequestTypeOK, PCs, TransactionOpen, Committed
    <2>. QED BY <1>1, <2>1, StoreTypeStutter DEF CacheHit
  <1>2. CASE CacheMiss(h)
    BY <1>0, <1>2, GotoType, StoreTypeStutter DEF CacheMiss, PCs
  <1>3. CASE FoundByClerk(h)
    <2>1. StoreTypeOK'
      BY <1>3, StoreTypeStutter DEF FoundByClerk
    <2>2. RequestTypeOK'
      BY <1>3 DEF FoundByClerk, RequestTypeOK, StoreTypeOK, PCs, TransactionOpen, Committed
    <2>. QED BY <2>1, <2>2
  <1>4. CASE NotFoundByClerk(h)
    BY <1>0, <1>4, GotoType, StoreTypeStutter DEF NotFoundByClerk, PCs
  <1>5. CASE FillCache(h)
    <2>1. reg[h].row \in MappingRow
      BY <1>5 DEF FillCache, RequestTypeOK
    <2>2. StoreTypeOK'
      BY <1>5, <2>1, CacheRows DEF FillCache, StoreTypeOK, dbVars, topicVars
    <2>3. RequestTypeOK'
      BY <1>5 DEF FillCache, RequestTypeOK, PCs, TransactionOpen, Committed
    <2>. QED BY <2>2, <2>3
  <1>6. CASE FoundByEmail(h)
    <2>1. RequestTypeOK'
      BY <1>6 DEF FoundByEmail, RequestTypeOK, PCs, TransactionOpen, Committed
    <2>. QED BY <1>6, <2>1, StoreTypeStutter DEF FoundByEmail
  <1>7. CASE NotFoundByEmail(h)
    BY <1>0, <1>7, GotoType, StoreTypeStutter DEF NotFoundByEmail, PCs
  <1>8. CASE InsertUser(h)
    <2>1. StoreTypeOK'
      BY <1>8 DEF InsertUser, StoreTypeOK, topicVars, UserId
    <2>2. RequestTypeOK'
      BY <1>8 DEF InsertUser, RequestTypeOK, StoreTypeOK, UserId, PCs, TransactionOpen, Committed
    <2>. QED BY <2>1, <2>2
  <1>9. CASE DeleteCacheBefore(h)
    <2>1. StoreTypeOK'
      BY <1>9, CacheRows DEF DeleteCacheBefore, StoreTypeOK, dbVars, topicVars
    <2>2. reg[h].uid \in UserId
      BY <1>9 DEF DeleteCacheBefore, RequestTypeOK, TransactionOpen
    <2>. QED BY <1>9, <2>1, <2>2, GotoType DEF DeleteCacheBefore, PCs
  <1>10. CASE InsertMapping(h)
    <2>1. reg[h].uid \in UserId
      BY <1>10 DEF InsertMapping, RequestTypeOK, TransactionOpen
    <2>. QED BY <1>0, <1>10, <2>1, GotoType, StoreTypeStutter DEF InsertMapping, PCs
  <1>11. CASE DuplicateMapping(h)
    <2>1. RequestTypeOK'
      BY <1>11 DEF DuplicateMapping, RequestTypeOK, PCs, TransactionOpen, Committed
    <2>. QED BY <1>11, <2>1, StoreTypeStutter DEF DuplicateMapping
  <1>12. CASE DeleteCacheAfter(h)
    <2>1. StoreTypeOK'
      BY <1>12, CacheRows DEF DeleteCacheAfter, StoreTypeOK, dbVars, topicVars
    <2>2. reg[h].uid \in UserId
      BY <1>12 DEF DeleteCacheAfter, RequestTypeOK, TransactionOpen
    <2>. QED BY <1>12, <2>1, <2>2, GotoType DEF DeleteCacheAfter, PCs
  <1>13. CASE Commit(h)
    <2>1. MappingOf(h) \in MappingRow
      BY <1>13, CommittedRowType DEF Commit, TransactionOpen
    <2>2. StoreTypeOK'
      BY <1>13, <2>1, CommitType DEF Commit, StoreTypeOK, topicVars
    <2>3. RequestTypeOK'
      BY <1>13, <2>1, GotoType DEF Commit, PCs, MappingOf, MappingRow
    <2>. QED BY <2>2, <2>3
  <1>14. CASE InvalidateProfile(h)
    <2>1. StoreTypeOK'
      BY <1>14, CacheRows DEF InvalidateProfile, StoreTypeOK, dbVars, topicVars
    <2>2. reg[h].uid \in UserId
      BY <1>14 DEF InvalidateProfile, RequestTypeOK, Committed
    <2>. QED BY <1>14, <2>1, <2>2, GotoType DEF InvalidateProfile, PCs
  <1>15. CASE Publish(h)
    <2>1. reg[h].uid \in UserId
      BY <1>15 DEF Publish, RequestTypeOK, Committed
    <2>2. StoreTypeOK'
      BY <1>15, <2>1, DeliveredType DEF Publish, StoreTypeOK, dbVars
    <2>3. RequestTypeOK'
      BY <1>15 DEF Publish, RequestTypeOK, PCs, TransactionOpen, Committed
    <2>. QED BY <2>2, <2>3
  <1>. QED
    BY <1>1, <1>2, <1>3, <1>4, <1>5, <1>6, <1>7, <1>8, <1>9, <1>10, <1>11,
       <1>12, <1>13, <1>14, <1>15 DEF Step

\* So does every failure.
LEMMA FailureType ==
    ASSUME TypeOK, NEW h \in Handlers, Failure(h)
    PROVE  TypeOK'
  <1>. USE DEF TypeOK
  <1>1. CASE DatabaseFails(h)
    <2>1. StoreTypeOK'
      BY <1>1, MaxFaultsAssumption
      DEF DatabaseFails, StoreTypeOK, dbVars, topicVars
    <2>2. RequestTypeOK'
      BY <1>1 DEF DatabaseFails, RequestTypeOK, PCs, TransactionOpen, Committed
    <2>. QED BY <2>1, <2>2
  <1>2. CASE CommitReplyLost(h)
    <2>1. MappingOf(h) \in MappingRow
      BY <1>2, CommittedRowType DEF CommitReplyLost, TransactionOpen
    <2>2. StoreTypeOK'
      BY <1>2, <2>1, CommitType, MaxFaultsAssumption
      DEF CommitReplyLost, StoreTypeOK, topicVars
    <2>3. RequestTypeOK'
      BY <1>2 DEF CommitReplyLost, RequestTypeOK, PCs, TransactionOpen, Committed
    <2>. QED BY <2>2, <2>3
  <1>3. CASE PublishFails(h)
    <2>1. reg[h].uid \in UserId
      BY <1>3 DEF PublishFails, RequestTypeOK, Committed
    <2>2. StoreTypeOK'
      BY <1>3, <2>1, MaxFaultsAssumption DEF PublishFails, StoreTypeOK, dbVars
    <2>3. RequestTypeOK'
      BY <1>3 DEF PublishFails, RequestTypeOK, PCs, TransactionOpen, Committed
    <2>. QED BY <2>2, <2>3
  <1>. QED
    BY <1>1, <1>2, <1>3 DEF Failure

\* The initial state is well formed.
LEMMA InitType == Init => TypeOK
  BY MaxFaultsAssumption
  DEF Init, InitStore, TypeOK, StoreTypeOK, RequestTypeOK, Idle, PCs, UserId,
      TransactionOpen, Committed

\* Every step of the specification keeps the state well formed.
LEMMA NextType == TypeOK /\ [Next]_vars => TypeOK'
  <1>. SUFFICES ASSUME TypeOK, [Next]_vars PROVE TypeOK'
    OBVIOUS
  <1>1. CASE \E h \in Handlers : Step(h) \/ Failure(h)
    BY <1>1, StepType, FailureType
  <1>2. CASE \E h \in Handlers, m \in Messages : Receive(h, m)
    <2>1. PICK h \in Handlers, m \in Messages : Receive(h, m)
      BY <1>2
    <2>2. RequestTypeOK'
      BY <2>1 DEF Receive, TypeOK, RequestTypeOK, PCs, TransactionOpen, Committed
    <2>. QED BY <2>1, <2>2, StoreTypeStutter DEF Receive, TypeOK
  <1>3. CASE \E m \in Messages : Dismiss(m)
    <2>1. PICK m \in Messages : Dismiss(m)
      BY <1>3
    <2>2. RequestTypeOK'
      BY <2>1 DEF Dismiss, TypeOK, RequestTypeOK, TransactionOpen, Committed
    <2>. QED BY <2>1, <2>2, StoreTypeStutter DEF Dismiss, TypeOK
  <1>4. CASE Expire
    BY <1>4 DEF Expire, ExpireMapping, TypeOK, StoreTypeOK, RequestTypeOK,
                regVars, dbVars, topicVars, TransactionOpen, Committed
  <1>5. CASE Restart
    <2>1. StoreTypeOK'
      BY <1>5, MaxFaultsAssumption DEF Restart, TypeOK, StoreTypeOK, dbVars, topicVars
    <2>2. RequestTypeOK'
      BY <1>5 DEF Restart, TypeOK, RequestTypeOK, Idle, PCs, TransactionOpen, Committed
    <2>. QED BY <2>1, <2>2 DEF TypeOK
  <1>6. CASE UNCHANGED vars
    BY <1>6, StoreTypeStutter
    DEF vars, regVars, TypeOK, RequestTypeOK, TransactionOpen, Committed
  <1>. QED
    BY <1>1, <1>2, <1>3, <1>4, <1>5, <1>6 DEF Next

\* The state stays well formed: in particular a request never leaves its
\* INSERT INTO users without an id, and never runs without a message.
THEOREM TypeCorrect == Spec => []TypeOK
  BY InitType, NextType, PTL DEF Spec

-----------------------------------------------------------------------------
(* Safety.  The properties hold together: that a Commit keeps the tables    *)
(* in agreement depends on what the request holds (RequestsConsistent), and *)
(* what a request holds depends on the tables.                              *)

Safe ==
    /\ TypeOK
    /\ TablesAgree
    /\ MappingCacheCoherent
    /\ AnnouncedOnce
    /\ AcceptedMeansBound
    /\ RequestsConsistent

\* The initial state is safe: there is nothing in any store.
LEMMA InitSafe == Init => Safe
  <1>. SUFFICES ASSUME Init PROVE Safe
    OBVIOUS
  <1>1. TypeOK
    BY InitType
  <1>2. TablesAgree /\ MappingCacheCoherent /\ AnnouncedOnce /\ AcceptedMeansBound
    BY DEF Init, InitStore, TablesAgree, MappingCacheCoherent, AnnouncedOnce,
           AcceptedMeansBound, Answered
  <1>3. RequestsConsistent
    BY DEF Init, InitStore, RequestsConsistent, RequestOK, RequestsDisjoint,
           TransactionOpen, Committed, HoldsMapping
  <1>. QED
    BY <1>1, <1>2, <1>3 DEF Safe

\* What Append does, position by position.
LEMMA Appended ==
    ASSUME NEW S, NEW s \in Seq(S), NEW e \in S
    PROVE  LET t == Append(s, e)
           IN  /\ DOMAIN t = DOMAIN s \cup {Len(s) + 1}
               /\ t[Len(s) + 1] = e
               /\ \A i \in DOMAIN s : i # Len(s) + 1 /\ t[i] = s[i]
  OBVIOUS

\* Announcing a committed user that was not announced keeps AnnouncedOnce, and
\* announces that user only.
LEMMA Announcing ==
    ASSUME TypeOK, AnnouncedOnce, NEW u \in UserId,
           u \in DOMAIN users, ~Announced(u), UNCHANGED users,
           registeredTopic' \in {registeredTopic, Append(registeredTopic, u)}
    PROVE  /\ AnnouncedOnce'
           /\ \A v \in UserId : Announced(v)' => Announced(v) \/ v = u
           /\ \A v \in UserId : Announced(v) => Announced(v)'
  <1>1. registeredTopic \in Seq(UserId)
    BY DEF TypeOK, StoreTypeOK
  <1>2. CASE registeredTopic' = registeredTopic
    BY <1>2 DEF AnnouncedOnce, Announced
  <1>3. CASE registeredTopic' = Append(registeredTopic, u)
    <2>1. /\ DOMAIN registeredTopic' = DOMAIN registeredTopic \cup {Len(registeredTopic) + 1}
          /\ registeredTopic'[Len(registeredTopic) + 1] = u
          /\ \A i \in DOMAIN registeredTopic :
                /\ i # Len(registeredTopic) + 1
                /\ registeredTopic'[i] = registeredTopic[i]
      BY <1>1, <1>3, Appended
    <2>. QED
      BY <2>1 DEF AnnouncedOnce, Announced
  <1>. QED
    BY <1>2, <1>3

\* A step that only moves one request on keeps what all requests hold, when the
\* request holds what its new step requires.
LEMMA GotoRequests ==
    ASSUME TypeOK, RequestsConsistent, NEW h \in Handlers, NEW pc \in PCs, Goto(h, pc),
           pc # "fill",
           UNCHANGED <<users, mappings, nextId, registeredTopic>>,
           pc \in {"delBefore", "insertMapping", "delAfter", "commit"} => TransactionOpen(h),
           pc \in {"delAfter", "commit"} =>
               /\ \A r \in mappings : r.clerk # reg[h].msg.clerk
               /\ \A g \in Handlers : HoldsMapping(g) /\ g # h => reg[g].msg.clerk # reg[h].msg.clerk,
           pc \in {"invalidate", "publish"} => Committed(h)
    PROVE  RequestsConsistent'
  <1>1. /\ \A g \in Handlers \ {h} : reg'[g] = reg[g]
        /\ reg'[h].pc = pc
        /\ reg'[h].msg = reg[h].msg
        /\ reg'[h].uid = reg[h].uid
    BY DEF TypeOK, RequestTypeOK
  <1>2. \A g \in Handlers : RequestOK(g)'
    <2>. TAKE g \in Handlers
    <2>1. CASE g = h
      BY <1>1, <2>1 DEF RequestsConsistent, RequestOK, TransactionOpen, Committed,
         HoldsMapping, MappingOf, Announced
    <2>2. CASE g # h
      BY <1>1, <2>2 DEF RequestsConsistent, RequestOK, TransactionOpen, Committed,
         HoldsMapping, MappingOf, Announced
    <2>. QED BY <2>1, <2>2
  <1>3. RequestsDisjoint'
    BY <1>1 DEF RequestsConsistent, RequestsDisjoint, TransactionOpen, Committed, HoldsMapping
  <1>. QED
    BY <1>2, <1>3 DEF RequestsConsistent

\* A request that ends takes nothing with it that another one needs.
LEMMA AnswerRequests ==
    ASSUME TypeOK, RequestsConsistent, NEW h \in Handlers,
           reg' = [reg EXCEPT ![h] = Idle],
           UNCHANGED <<users, mappings, nextId, registeredTopic>>
    PROVE  RequestsConsistent'
  <1>1. /\ \A g \in Handlers \ {h} : reg'[g] = reg[g]
        /\ reg'[h].pc = "idle"
    BY DEF TypeOK, RequestTypeOK
  <1>2. \A g \in Handlers : RequestOK(g)'
    BY <1>1 DEF RequestsConsistent, RequestOK, TransactionOpen, Committed,
                HoldsMapping, MappingOf, Announced
  <1>3. RequestsDisjoint'
    BY <1>1 DEF RequestsConsistent, RequestsDisjoint, TransactionOpen, Committed, HoldsMapping
  <1>. QED
    BY <1>2, <1>3 DEF RequestsConsistent

\* So does one that ends with an attempt to announce its user.
LEMMA AnnouncingRequests ==
    ASSUME TypeOK, AnnouncedOnce, RequestsConsistent, NEW h \in Handlers,
           reg' = [reg EXCEPT ![h] = Idle], Committed(h), reg[h].uid \in DOMAIN users,
           registeredTopic' \in {registeredTopic, Append(registeredTopic, reg[h].uid)},
           UNCHANGED <<users, mappings, nextId>>
    PROVE  AnnouncedOnce' /\ RequestsConsistent'
  <1>1. /\ \A g \in Handlers \ {h} : reg'[g] = reg[g]
        /\ reg'[h].pc = "idle"
    BY DEF TypeOK, RequestTypeOK
  <1>2. \A g \in Handlers : Committed(g) => reg[g].uid \in UserId
    BY DEF TypeOK, RequestTypeOK
  <1>3. ~Announced(reg[h].uid)
    BY DEF RequestsConsistent, RequestOK
  <1>4. AnnouncedOnce' /\ \A v \in UserId : Announced(v)' => Announced(v) \/ v = reg[h].uid
    BY <1>2, <1>3, Announcing
  <1>5. \A g \in Handlers \ {h} : Committed(g)' => ~Announced(reg[g].uid)'
    BY <1>1, <1>2, <1>4
    DEF RequestsConsistent, RequestOK, RequestsDisjoint, Committed, TransactionOpen
  <1>6. \A g \in Handlers : RequestOK(g)'
    BY <1>1, <1>5 DEF RequestsConsistent, RequestOK, TransactionOpen, Committed,
                      HoldsMapping, MappingOf, Announced
  <1>7. RequestsDisjoint'
    BY <1>1 DEF RequestsConsistent, RequestsDisjoint, TransactionOpen, Committed, HoldsMapping
  <1>. QED
    BY <1>4, <1>6, <1>7 DEF RequestsConsistent

\* A commit adds the user and its mapping to tables that agree, and they still
\* agree: the id is fresh and the Clerk id is free.
LEMMA CommitTables ==
    ASSUME TypeOK, TablesAgree, RequestsConsistent, NEW h \in Handlers,
           At(h, "commit"), CommitRows(h)
    PROVE  /\ TablesAgree'
           /\ DOMAIN users' = DOMAIN users \cup {reg[h].uid}
           /\ mappings' = mappings \cup {MappingOf(h)}
           /\ MappingOf(h) \notin mappings
           /\ reg[h].uid \in UserId /\ reg[h].uid \notin DOMAIN users
           /\ nextId' = nextId
  <1>1. /\ reg[h].uid \notin DOMAIN users
        /\ \A r \in mappings : r.clerk # reg[h].msg.clerk
        /\ reg[h].uid \in UserId
    BY DEF RequestsConsistent, RequestOK, TransactionOpen, HoldsMapping,
           TypeOK, RequestTypeOK
  <1>2. /\ DOMAIN users' = DOMAIN users \cup {reg[h].uid}
        /\ mappings' = mappings \cup {MappingOf(h)}
        /\ nextId' = nextId
    BY DEF CommitRows, WithUser
  <1>3. /\ MappingOf(h).clerk = reg[h].msg.clerk
        /\ MappingOf(h).uid = reg[h].uid
    BY DEF MappingOf
  <1>4. \A r \in mappings : r.uid # reg[h].uid /\ r.clerk # reg[h].msg.clerk
    BY <1>1 DEF TablesAgree
  <1>5. {r.uid : r \in mappings'} = DOMAIN users'
    BY <1>2, <1>3 DEF TablesAgree
  <1>6. \A r, s \in mappings' : r.clerk = s.clerk \/ r.uid = s.uid => r = s
    BY <1>2, <1>3, <1>4 DEF TablesAgree
  <1>. QED
    BY <1>1, <1>2, <1>3, <1>4, <1>5, <1>6 DEF TablesAgree

\* What the other requests hold outlives a commit: their Clerk ids and user ids
\* differ from the committed ones.
LEMMA CommitOthers ==
    ASSUME TypeOK, TablesAgree, AnnouncedOnce, RequestsConsistent, NEW h \in Handlers,
           At(h, "commit"), CommitRows(h), UNCHANGED registeredTopic,
           NEW g \in Handlers, g # h, reg'[g] = reg[g]
    PROVE  RequestOK(g)'
  <1>1. /\ DOMAIN users' = DOMAIN users \cup {reg[h].uid}
        /\ mappings' = mappings \cup {MappingOf(h)}
        /\ nextId' = nextId
    BY CommitTables
  <1>2. MappingOf(h).clerk = reg[h].msg.clerk
    BY DEF MappingOf
  <1>3. HoldsMapping(h) /\ TransactionOpen(h)
    BY DEF HoldsMapping, TransactionOpen
  <1>4. /\ TransactionOpen(g) => reg[g].uid # reg[h].uid
        /\ HoldsMapping(g) => reg[g].msg.clerk # reg[h].msg.clerk
    BY <1>3 DEF RequestsConsistent, RequestsDisjoint
  <1>5. RequestOK(g)
    BY DEF RequestsConsistent
  <1>. QED
    BY <1>1, <1>2, <1>4, <1>5 DEF RequestOK, TransactionOpen, Committed, HoldsMapping,
                                   MappingOf, Announced

\* After a commit, every user id in the table is below the counter.
LEMMA CommitIds ==
    ASSUME TypeOK, TablesAgree, RequestsConsistent, NEW h \in Handlers,
           At(h, "commit"), CommitRows(h)
    PROVE  \A u \in DOMAIN users' : u < nextId'
  <1>1. reg[h].uid < nextId
    BY DEF RequestsConsistent, RequestOK, TransactionOpen
  <1>. QED
    BY <1>1, CommitTables DEF RequestsConsistent

\* A committed request has its own user, bound and not announced, whether it
\* goes on or ends there.
LEMMA CommitRequests ==
    ASSUME TypeOK, TablesAgree, AnnouncedOnce, RequestsConsistent, NEW h \in Handlers,
           At(h, "commit"), CommitRows(h), UNCHANGED registeredTopic,
           Goto(h, "invalidate") \/ reg' = [reg EXCEPT ![h] = Idle]
    PROVE  AnnouncedOnce' /\ RequestsConsistent'
  <1>1. /\ \A g \in Handlers \ {h} : reg'[g] = reg[g]
        /\ \/ reg'[h].pc = "idle"
           \/ reg'[h].pc = "invalidate" /\ reg'[h].msg = reg[h].msg /\ reg'[h].uid = reg[h].uid
    BY DEF TypeOK, RequestTypeOK
  <1>2. ~Announced(reg[h].uid) /\ AnnouncedOnce'
    BY CommitTables DEF AnnouncedOnce, Announced
  <1>3. RequestOK(h)'
    <2>1. CASE reg'[h].pc = "idle"
      BY <2>1 DEF RequestOK, TransactionOpen, Committed, HoldsMapping
    <2>2. CASE /\ reg'[h].pc = "invalidate"
               /\ reg'[h].msg = reg[h].msg
               /\ reg'[h].uid = reg[h].uid
      <3>1. MappingOf(h)' \in mappings'
        BY <2>2, CommitTables DEF MappingOf
      <3>2. ~Announced(reg[h].uid)'
        BY <1>2, <2>2 DEF Announced
      <3>. QED
        BY <2>2, <3>1, <3>2 DEF RequestOK, TransactionOpen, Committed, HoldsMapping
    <2>. QED
      BY <1>1, <2>1, <2>2
  <1>4. \A g \in Handlers : RequestOK(g)'
    BY <1>1, <1>3, CommitOthers
  <1>5. RequestsDisjoint'
    BY <1>1 DEF RequestsConsistent, RequestsDisjoint, TransactionOpen, Committed, HoldsMapping
  <1>. QED
    BY <1>2, <1>4, <1>5, CommitIds DEF RequestsConsistent

\* An answer of 200 is safe when the message is bound already, and an error
\* always.
LEMMA AnswerBound ==
    ASSUME TypeOK, AcceptedMeansBound, NEW h \in Handlers, Answer(h, 200),
           mappings \subseteq mappings',
           \E r \in mappings' : r.clerk = reg[h].msg.clerk \/ r.email = reg[h].msg.email
    PROVE  AcceptedMeansBound'
  <1>1. \A m \in Messages : Answered(m, 200)' => Answered(m, 200) \/ m = reg[h].msg
    BY DEF Answered
  <1>. QED
    BY <1>1 DEF AcceptedMeansBound

\* A request answered with an error adds nothing to the messages answered 200.
LEMMA ErrorBound ==
    ASSUME TypeOK, AcceptedMeansBound, NEW h \in Handlers, Answer(h, 500),
           mappings \subseteq mappings'
    PROVE  AcceptedMeansBound'
  <1>1. \A m \in Messages : Answered(m, 200)' => Answered(m, 200)
    BY DEF Answered
  <1>. QED
    BY <1>1 DEF AcceptedMeansBound

\* A step that leaves the tables and the topic alone keeps what is said of them.
LEMMA TablesStutter ==
    ASSUME TablesAgree, AnnouncedOnce, UNCHANGED <<users, mappings, registeredTopic>>
    PROVE  TablesAgree' /\ AnnouncedOnce'
  BY DEF TablesAgree, AnnouncedOnce

\* A step that answers nobody and deletes no mapping keeps what the answers mean.
LEMMA AnswersStutter ==
    ASSUME AcceptedMeansBound, UNCHANGED answers, mappings \subseteq mappings'
    PROVE  AcceptedMeansBound'
  BY DEF AcceptedMeansBound, Answered

\* Every step of a request keeps the state safe.
LEMMA StepSafe ==
    ASSUME Safe, NEW h \in Handlers, Step(h)
    PROVE  Safe'
  <1>. USE DEF Safe
  <1>0. TypeOK'
    BY StepType
  <1>a. MappingCacheCoherent /\ mapCache' \subseteq mapCache /\ mappings \subseteq mappings'
          => MappingCacheCoherent'
    BY DEF MappingCacheCoherent
  <1>b. RequestOK(h)
    BY DEF RequestsConsistent
  <1>1. CASE CacheHit(h)
    <2>1. \E r \in mappings : r.clerk = reg[h].msg.clerk
      BY <1>1 DEF CacheHit, MappingCacheCoherent
    <2>. QED
      BY <1>0, <1>1, <1>a, <2>1, AnswerRequests, AnswerBound, TablesStutter
      DEF CacheHit, storeVars
  <1>2. CASE CacheMiss(h)
    BY <1>0, <1>2, <1>a, GotoRequests, AnswersStutter, TablesStutter
    DEF CacheMiss, storeVars, PCs
  <1>3. CASE FoundByClerk(h)
    <2>1. PICK r \in mappings :
              /\ r.clerk = reg[h].msg.clerk
              /\ reg' = [reg EXCEPT ![h] = Request("fill", reg[h].msg, 0, r)]
      BY <1>3 DEF FoundByClerk
    <2>2. /\ \A g \in Handlers \ {h} : reg'[g] = reg[g]
          /\ reg'[h].pc = "fill" /\ reg'[h].msg = reg[h].msg /\ reg'[h].row = r
      BY <2>1 DEF TypeOK, RequestTypeOK
    <2>3. UNCHANGED <<users, mappings, nextId, registeredTopic, mapCache, answers>>
      BY <1>3 DEF FoundByClerk, storeVars
    <2>4. \A g \in Handlers : RequestOK(g)'
      BY <2>1, <2>2, <2>3 DEF RequestsConsistent, RequestOK, TransactionOpen, Committed,
         HoldsMapping, MappingOf, Announced
    <2>5. RequestsDisjoint'
      BY <2>2 DEF RequestsConsistent, RequestsDisjoint, TransactionOpen, Committed, HoldsMapping
    <2>. QED
      BY <1>0, <1>a, <2>3, <2>4, <2>5, AnswersStutter, TablesStutter DEF RequestsConsistent
  <1>4. CASE NotFoundByClerk(h)
    BY <1>0, <1>4, <1>a, GotoRequests, AnswersStutter, TablesStutter
    DEF NotFoundByClerk, storeVars, PCs
  <1>5. CASE FillCache(h)
    <2>1. reg[h].row \in mappings /\ reg[h].row.clerk = reg[h].msg.clerk
      BY <1>5, <1>b DEF FillCache, RequestOK
    <2>2. MappingCacheCoherent'
      BY <1>5, <2>1, CacheRows DEF FillCache, MappingCacheCoherent, dbVars
    <2>. QED
      BY <1>0, <1>5, <2>1, <2>2, AnswerRequests, AnswerBound, TablesStutter
      DEF FillCache, dbVars, topicVars
  <1>6. CASE FoundByEmail(h)
    BY <1>0, <1>6, <1>a, AnswerRequests, AnswerBound, TablesStutter
    DEF FoundByEmail, storeVars
  <1>7. CASE NotFoundByEmail(h)
    BY <1>0, <1>7, <1>a, GotoRequests, AnswersStutter, TablesStutter
    DEF NotFoundByEmail, storeVars, PCs
  <1>8. CASE InsertUser(h)
    <2>1. nextId \in Nat /\ nextId' = nextId + 1
      BY <1>8 DEF InsertUser, TypeOK, StoreTypeOK, UserId
    <2>2. /\ \A g \in Handlers \ {h} : reg'[g] = reg[g]
          /\ reg'[h].pc = "delBefore" /\ reg'[h].msg = reg[h].msg /\ reg'[h].uid = nextId
      BY <1>8 DEF InsertUser, TypeOK, RequestTypeOK
    <2>3. UNCHANGED <<users, mappings, registeredTopic, mapCache, answers>>
      BY <1>8 DEF InsertUser, topicVars
    <2>4. \A u \in DOMAIN users : u \in Nat /\ u < nextId
      BY DEF RequestsConsistent, TypeOK, StoreTypeOK, UserId
    <2>5. \A g \in Handlers :
              TransactionOpen(g) \/ Committed(g) => reg[g].uid \in Nat /\ reg[g].uid < nextId
      <3>. TAKE g \in Handlers
      <3>1. CASE TransactionOpen(g)
        BY <3>1 DEF RequestsConsistent, RequestOK, TypeOK, RequestTypeOK
      <3>2. CASE Committed(g)
        <4>1. MappingOf(g) \in mappings /\ MappingOf(g).uid = reg[g].uid
          BY <3>2 DEF RequestsConsistent, RequestOK, MappingOf
        <4>. QED BY <4>1, <2>4 DEF TablesAgree
      <3>. QED BY <3>1, <3>2
    <2>6. \A g \in Handlers : RequestOK(g)'
      BY <2>1, <2>2, <2>3, <2>4, <2>5
      DEF RequestsConsistent, RequestOK, TransactionOpen, Committed,
          HoldsMapping, MappingOf, Announced
    <2>7. RequestsDisjoint'
      BY <2>1, <2>2, <2>5
      DEF RequestsConsistent, RequestsDisjoint, TransactionOpen, Committed, HoldsMapping
    <2>8. \A u \in DOMAIN users' : u < nextId'
      BY <2>1, <2>3, <2>4
    <2>. QED
      BY <1>0, <1>a, <2>3, <2>6, <2>7, <2>8, AnswersStutter, TablesStutter
      DEF RequestsConsistent
  <1>9. CASE DeleteCacheBefore(h)
    BY <1>0, <1>9, <1>a, GotoRequests, AnswersStutter, TablesStutter, CacheRows
    DEF DeleteCacheBefore, dbVars, topicVars, PCs, TransactionOpen
  <1>10. CASE InsertMapping(h)
    <2>1. /\ TransactionOpen(h)
          /\ \A r \in mappings : r.clerk # reg[h].msg.clerk
          /\ \A g \in Handlers : HoldsMapping(g) => reg[g].msg.clerk # reg[h].msg.clerk
          /\ Goto(h, "delAfter")
          /\ UNCHANGED <<users, mappings, nextId, registeredTopic, mapCache, answers>>
      BY <1>10 DEF InsertMapping, IndexIsFree, TransactionOpen, storeVars
    <2>2. RequestsConsistent'
      BY <2>1, GotoRequests DEF PCs
    <2>. QED
      BY <1>0, <1>a, <2>1, <2>2, AnswersStutter, TablesStutter
  <1>11. CASE DuplicateMapping(h)
    BY <1>0, <1>11, <1>a, AnswerRequests, ErrorBound, TablesStutter
    DEF DuplicateMapping, storeVars
  <1>12. CASE DeleteCacheAfter(h)
    <2>1. /\ \A r \in mappings : r.clerk # reg[h].msg.clerk
          /\ \A g \in Handlers : HoldsMapping(g) /\ g # h => reg[g].msg.clerk # reg[h].msg.clerk
      BY <1>12, <1>b DEF DeleteCacheAfter, RequestOK, RequestsConsistent, RequestsDisjoint,
                         HoldsMapping
    <2>. QED
      BY <1>0, <1>12, <1>a, <2>1, GotoRequests, AnswersStutter, TablesStutter, CacheRows
      DEF DeleteCacheAfter, dbVars, topicVars, PCs, TransactionOpen
  <1>13. CASE Commit(h)
    <2>1. mappings \subseteq mappings'
      BY <1>13 DEF Commit, CommitRows
    <2>. QED
      BY <1>0, <1>13, <1>a, <2>1, CommitTables, CommitRequests, AnswersStutter
      DEF Commit, topicVars
  <1>14. CASE InvalidateProfile(h)
    BY <1>0, <1>14, <1>a, GotoRequests, AnswersStutter, TablesStutter
    DEF InvalidateProfile, dbVars, topicVars, PCs, Committed
  <1>15. CASE Publish(h)
    <2>1. MappingOf(h) \in mappings /\ Committed(h)
      BY <1>15, <1>b DEF Publish, RequestOK, Committed
    <2>2. reg[h].uid \in DOMAIN users /\ \E r \in mappings : r.clerk = reg[h].msg.clerk
      BY <2>1 DEF TablesAgree, MappingOf
    <2>3. AnnouncedOnce' /\ RequestsConsistent'
      BY <1>15, <2>1, <2>2, AnnouncingRequests DEF Publish, Delivered, dbVars
    <2>4. TablesAgree'
      BY <1>15 DEF Publish, dbVars, TablesAgree
    <2>. QED
      BY <1>0, <1>15, <1>a, <2>2, <2>3, <2>4, AnswerBound DEF Publish, dbVars
  <1>. QED
    BY <1>1, <1>2, <1>3, <1>4, <1>5, <1>6, <1>7, <1>8, <1>9, <1>10, <1>11,
       <1>12, <1>13, <1>14, <1>15 DEF Step

\* Every failure keeps the state safe.
LEMMA FailureSafe ==
    ASSUME Safe, NEW h \in Handlers, Failure(h)
    PROVE  Safe'
  <1>. USE DEF Safe
  <1>0. TypeOK'
    BY FailureType
  <1>a. MappingCacheCoherent /\ mapCache' \subseteq mapCache /\ mappings \subseteq mappings'
          => MappingCacheCoherent'
    BY DEF MappingCacheCoherent
  <1>1. CASE DatabaseFails(h)
    BY <1>0, <1>1, <1>a, AnswerRequests, ErrorBound, TablesStutter
    DEF DatabaseFails, dbVars, topicVars
  <1>2. CASE CommitReplyLost(h)
    <2>1. mappings \subseteq mappings'
      BY <1>2 DEF CommitReplyLost, CommitRows
    <2>. QED
      BY <1>0, <1>2, <1>a, <2>1, CommitTables, CommitRequests, ErrorBound
      DEF CommitReplyLost, topicVars
  <1>3. CASE PublishFails(h)
    <2>1. MappingOf(h) \in mappings /\ Committed(h)
      BY <1>3 DEF PublishFails, RequestsConsistent, RequestOK, Committed
    <2>2. reg[h].uid \in DOMAIN users
      BY <2>1 DEF TablesAgree, MappingOf
    <2>3. AnnouncedOnce' /\ RequestsConsistent'
      BY <1>3, <2>1, <2>2, AnnouncingRequests DEF PublishFails, dbVars
    <2>4. TablesAgree'
      BY <1>3 DEF PublishFails, dbVars, TablesAgree
    <2>. QED
      BY <1>0, <1>3, <1>a, <2>3, <2>4, ErrorBound DEF PublishFails, dbVars
  <1>. QED
    BY <1>1, <1>2, <1>3 DEF Failure

\* A message that arrives finds the stores as they are.
LEMMA ReceiveSafe ==
    ASSUME Safe, NEW h \in Handlers, NEW m \in Messages, Receive(h, m)
    PROVE  Safe'
  <1>. USE DEF Safe
  <1>1. TypeOK'
    BY NextType DEF Next
  <1>2. /\ UNCHANGED <<users, mappings, nextId, registeredTopic, mapCache, answers>>
        /\ \A g \in Handlers \ {h} : reg'[g] = reg[g]
        /\ reg'[h].pc = "mapCache" /\ reg'[h].msg = m
    BY DEF Receive, storeVars, TypeOK, RequestTypeOK
  <1>3. \A g \in Handlers : RequestOK(g)'
    BY <1>2 DEF RequestsConsistent, RequestOK, TransactionOpen, Committed, HoldsMapping,
                MappingOf, Announced
  <1>4. RequestsDisjoint'
    BY <1>2 DEF RequestsConsistent, RequestsDisjoint, TransactionOpen, Committed, HoldsMapping
  <1>. QED
    BY <1>1, <1>2, <1>3, <1>4, AnswersStutter, TablesStutter
    DEF RequestsConsistent, MappingCacheCoherent

\* What a message that is turned away, an expiry, a restart and a stutter leave.
LEMMA OtherSafe ==
    ASSUME Safe,
           (\E m \in Messages : Dismiss(m)) \/ Expire \/ Restart \/ UNCHANGED vars
    PROVE  Safe'
  <1>. USE DEF Safe
  <1>1. TypeOK'
    BY NextType DEF Next
  <1>2. /\ UNCHANGED <<users, mappings, nextId, registeredTopic>>
        /\ mapCache' \subseteq mapCache
    BY DEF Dismiss, Expire, ExpireMapping, Restart, vars, storeVars, dbVars, topicVars
  <1>3. (reg' = reg) \/ \A h \in Handlers : reg'[h].pc = "idle"
    BY DEF Dismiss, Expire, Restart, vars, regVars
  <1>4. RequestsConsistent'
    BY <1>2, <1>3 DEF RequestsConsistent, RequestOK, RequestsDisjoint, TransactionOpen,
       Committed, HoldsMapping, MappingOf, Announced
  <1>5. AcceptedMeansBound'
    <2>1. CASE \E m \in Messages : Dismiss(m)
      BY <1>2, <2>1 DEF Dismiss, AcceptedMeansBound, Answered
    <2>2. CASE Expire \/ Restart \/ UNCHANGED vars
      BY <1>2, <2>2, AnswersStutter DEF Expire, Restart, vars, regVars
    <2>. QED BY <2>1, <2>2
  <1>. QED
    BY <1>1, <1>2, <1>4, <1>5, TablesStutter DEF MappingCacheCoherent

\* Every step of the specification keeps the state safe.
LEMMA NextSafe == Safe /\ [Next]_vars => Safe'
  BY StepSafe, FailureSafe, ReceiveSafe, OtherSafe DEF Next

\* The state is always safe.
THEOREM AlwaysSafe == Spec => []Safe
  BY InitSafe, NextSafe, PTL DEF Spec

\* Whatever requests interleave, fail, are lost or are delivered again, a Clerk
\* id is mapped once, a user is mapped once, and no user is without a mapping.
THEOREM TablesAlwaysAgree == Spec => []TablesAgree
  <1>1. Safe => TablesAgree
    BY DEF Safe
  <1>. QED BY <1>1, AlwaysSafe, PTL

\* The Redis mapping cache never shows a mapping that is not committed.
THEOREM MappingCacheAlwaysCoherent == Spec => []MappingCacheCoherent
  <1>1. Safe => MappingCacheCoherent
    BY DEF Safe
  <1>. QED BY <1>1, AlwaysSafe, PTL

\* A registration event names a committed user, and no user has two.
THEOREM AlwaysAnnouncedOnce == Spec => []AnnouncedOnce
  <1>1. Safe => AnnouncedOnce
    BY DEF Safe
  <1>. QED BY <1>1, AlwaysSafe, PTL

\* A message answered 200 is bound, by its Clerk id or by its address.
THEOREM AcceptedAlwaysBound == Spec => []AcceptedMeansBound
  <1>1. Safe => AcceptedMeansBound
    BY DEF Safe
  <1>. QED BY <1>1, AlwaysSafe, PTL

\* What a request holds is its own.
THEOREM RequestsAlwaysConsistent == Spec => []RequestsConsistent
  <1>1. Safe => RequestsConsistent
    BY DEF Safe
  <1>. QED BY <1>1, AlwaysSafe, PTL

-----------------------------------------------------------------------------
(* Refinement: a commit is Register, a publish that reaches the broker is   *)
(* Announce, everything else is invisible to the Registry.                  *)

\* A commit of the code is a Register of the abstract registry.
LEMMA CommitRegisters ==
    ASSUME Safe, NEW h \in Handlers, At(h, "commit"), CommitRows(h),
           UNCHANGED registeredTopic
    PROVE  AbstractRegistry!Next
  <1>1. /\ DOMAIN users' = DOMAIN users \cup {reg[h].uid}
        /\ mappings' = mappings \cup {MappingOf(h)}
        /\ MappingOf(h) \notin mappings
        /\ reg[h].uid \notin DOMAIN users
    BY CommitTables DEF Safe
  <1>2. \A r \in mappings : r.clerk # reg[h].msg.clerk
    BY DEF Safe, RequestsConsistent, RequestOK, HoldsMapping
  <1>3. /\ MappingOf(h).clerk = reg[h].msg.clerk
        /\ MappingOf(h).uid = reg[h].uid
        /\ MappingOf(h).clerk \in Clerks
        /\ MappingOf(h).email \in Emails
    BY CommittedRowType DEF Safe, MappingOf, MappingRow, TransactionOpen
  <1>4. AbstractRegistry!Register(MappingOf(h))
    BY <1>1, <1>2, <1>3 DEF AbstractRegistry!Register
  <1>. QED
    BY <1>1, <1>4 DEF AbstractRegistry!Next

\* An event that is appended is an Announce of the abstract registry.
LEMMA PublishAnnounces ==
    ASSUME Safe, NEW h \in Handlers, Committed(h), UNCHANGED <<users, mappings>>,
           registeredTopic' = Append(registeredTopic, reg[h].uid)
    PROVE  AbstractRegistry!Next
  <1>1. MappingOf(h) \in mappings /\ ~Announced(reg[h].uid)
    BY DEF Safe, RequestsConsistent, RequestOK
  <1>2. reg[h].uid \in DOMAIN users
    BY <1>1 DEF Safe, TablesAgree, MappingOf
  <1>3. AbstractRegistry!Announce(reg[h].uid)
    BY <1>1, <1>2 DEF Announced, AbstractRegistry!Announce
  <1>. QED
    BY <1>2, <1>3 DEF AbstractRegistry!Next

\* Every step from a safe state is a step of the abstract registry or a stutter.
LEMMA NextImplements ==
    Safe /\ [Next]_vars => [AbstractRegistry!Next]_(AbstractRegistry!registryVars)
  <1>. SUFFICES ASSUME Safe, [Next]_vars
                PROVE  \/ AbstractRegistry!Next
                       \/ UNCHANGED <<users, mappings, registeredTopic>>
    BY DEF AbstractRegistry!registryVars
  <1>1. ASSUME NEW h \in Handlers, Step(h)
        PROVE  \/ AbstractRegistry!Next
               \/ UNCHANGED <<users, mappings, registeredTopic>>
    <2>1. CASE Commit(h)
      BY <2>1, CommitRegisters DEF Commit, topicVars
    <2>2. CASE Publish(h)
      BY <2>2, PublishAnnounces DEF Publish, Delivered, dbVars, Committed
    <2>3. CASE ~Commit(h) /\ ~Publish(h)
      BY <1>1, <2>3
      DEF Step, CacheHit, CacheMiss, FoundByClerk, NotFoundByClerk, FillCache,
          FoundByEmail, NotFoundByEmail, InsertUser, DeleteCacheBefore, InsertMapping,
          DuplicateMapping, DeleteCacheAfter, InvalidateProfile,
          storeVars, dbVars, topicVars
    <2>. QED BY <2>1, <2>2, <2>3
  <1>2. ASSUME NEW h \in Handlers, Failure(h)
        PROVE  \/ AbstractRegistry!Next
               \/ UNCHANGED <<users, mappings, registeredTopic>>
    <2>1. CASE DatabaseFails(h)
      BY <2>1 DEF DatabaseFails, dbVars, topicVars
    <2>2. CASE CommitReplyLost(h)
      BY <2>2, CommitRegisters DEF CommitReplyLost, topicVars
    <2>3. CASE PublishFails(h)
      BY <2>3, PublishAnnounces DEF PublishFails, dbVars, Committed
    <2>. QED BY <1>2, <2>1, <2>2, <2>3 DEF Failure
  <1>3. ASSUME \/ \E h \in Handlers, m \in Messages : Receive(h, m)
               \/ \E m \in Messages : Dismiss(m)
               \/ Expire \/ Restart \/ UNCHANGED vars
        PROVE  UNCHANGED <<users, mappings, registeredTopic>>
    BY <1>3 DEF Receive, Dismiss, Expire, ExpireMapping, Restart, vars, storeVars,
                dbVars, topicVars
  <1>. QED
    BY <1>1, <1>2, <1>3 DEF Next

\* Registration implements the atomic Registry: a Clerk id is bound to a fresh
\* user in one step, once and for good, and a user is announced at most once,
\* after it is bound.
THEOREM RegistrationImplementsRegistry == Spec => ImplementsRegistry
  <1>1. Init => AbstractRegistry!Init
    BY DEF Init, InitStore, AbstractRegistry!Init
  <1>2. Safe /\ [Next]_vars => [AbstractRegistry!Next]_(AbstractRegistry!registryVars)
    BY NextImplements
  <1>. QED
    BY <1>1, <1>2, AlwaysSafe, PTL DEF Spec, ImplementsRegistry, AbstractRegistry!Spec

-----------------------------------------------------------------------------
(* Lost events.                                                            *)

\* As long as no fault has happened every committed user is announced or the
\* request that created it is on its way to do so.
THEOREM OnlyFaultsEverLoseEvents == Spec => []OnlyFaultsLoseEvents
  <1>1. Init => OnlyFaultsLoseEvents
    BY DEF Init, InitStore, OnlyFaultsLoseEvents
  <1>2. Safe /\ OnlyFaultsLoseEvents /\ [Next]_vars => OnlyFaultsLoseEvents'
    <2>. SUFFICES ASSUME Safe, OnlyFaultsLoseEvents, [Next]_vars, KafkaEnabled, faults' = 0
                  PROVE  \A u \in DOMAIN users' :
                            Announced(u)' \/ \E g \in Handlers : Committed(g)' /\ reg'[g].uid = u
      BY DEF OnlyFaultsLoseEvents
    <2>1. ~Fault
      BY MaxFaultsAssumption DEF Safe, TypeOK, StoreTypeOK
    <2>2. faults = 0
      <3>1. faults' = faults
        BY <2>1
        DEF Next, Step, Failure, DatabaseFails, CommitReplyLost, PublishFails, Restart,
            CacheHit, CacheMiss, FoundByClerk, NotFoundByClerk, FillCache, FoundByEmail,
            NotFoundByEmail, InsertUser, DeleteCacheBefore, InsertMapping, DuplicateMapping,
            DeleteCacheAfter, Commit, InvalidateProfile, Publish, Receive, Dismiss, Expire,
            ExpireMapping, storeVars, vars
      <3>. QED BY <3>1
    <2>3. \A u \in DOMAIN users :
              Announced(u) \/ \E g \in Handlers : Committed(g) /\ reg[g].uid = u
      BY <2>2 DEF OnlyFaultsLoseEvents
    <2>4. ASSUME NEW h \in Handlers, Commit(h)
          PROVE  \A u \in DOMAIN users' :
                    Announced(u)' \/ \E g \in Handlers : Committed(g)' /\ reg'[g].uid = u
      <3>1. DOMAIN users' = DOMAIN users \cup {reg[h].uid}
        BY <2>4, CommitTables DEF Commit, Safe
      <3>2. Committed(h)' /\ reg'[h].uid = reg[h].uid
        BY <2>4 DEF Commit, Committed, Safe, TypeOK, RequestTypeOK
      <3>3. \A g \in Handlers : Committed(g) => Committed(g)' /\ reg'[g].uid = reg[g].uid
        BY <2>4 DEF Commit, Committed, Safe, TypeOK, RequestTypeOK
      <3>4. \A u : Announced(u) => Announced(u)'
        BY <2>4 DEF Commit, topicVars, Announced
      <3>. QED BY <2>3, <3>1, <3>2, <3>3, <3>4
    <2>5. ASSUME NEW h \in Handlers, Publish(h)
          PROVE  \A u \in DOMAIN users' :
                    Announced(u)' \/ \E g \in Handlers : Committed(g)' /\ reg'[g].uid = u
      <3>1. /\ users' = users
            /\ registeredTopic' = Append(registeredTopic, reg[h].uid)
        BY <2>5 DEF Publish, Delivered, dbVars
      <3>2. \A g \in Handlers \ {h} : reg'[g] = reg[g]
        BY <2>5 DEF Publish, Safe, TypeOK, RequestTypeOK
      <3>3. /\ registeredTopic \in Seq(UserId)
            /\ reg[h].uid \in UserId
        BY <2>5 DEF Publish, Committed, Safe, TypeOK, StoreTypeOK, RequestTypeOK
      <3>4. /\ DOMAIN registeredTopic' = DOMAIN registeredTopic \cup {Len(registeredTopic) + 1}
            /\ registeredTopic'[Len(registeredTopic) + 1] = reg[h].uid
            /\ \A i \in DOMAIN registeredTopic : registeredTopic'[i] = registeredTopic[i]
        BY <3>1, <3>3, Appended
      <3>5. \A u \in DOMAIN users : u = reg[h].uid \/ Announced(u) => Announced(u)'
        BY <3>4 DEF Announced
      <3>. TAKE u \in DOMAIN users'
      <3>6. CASE Announced(u)
        BY <3>1, <3>5, <3>6
      <3>7. CASE \E g \in Handlers : Committed(g) /\ reg[g].uid = u
        <4>1. PICK g \in Handlers : Committed(g) /\ reg[g].uid = u
          BY <3>7
        <4>2. CASE g = h
          BY <3>1, <3>5, <4>1, <4>2
        <4>3. CASE g # h
          BY <3>2, <4>1, <4>3 DEF Committed
        <4>. QED BY <4>2, <4>3
      <3>. QED BY <2>3, <3>1, <3>6, <3>7
    <2>6. ASSUME NEW h \in Handlers, InvalidateProfile(h)
          PROVE  \A u \in DOMAIN users' :
                    Announced(u)' \/ \E g \in Handlers : Committed(g)' /\ reg'[g].uid = u
      <3>1. /\ users' = users
            /\ registeredTopic' = registeredTopic
        BY <2>6 DEF InvalidateProfile, dbVars, topicVars
      <3>2. \A g \in Handlers : Committed(g) => Committed(g)' /\ reg'[g].uid = reg[g].uid
        BY <2>6 DEF InvalidateProfile, Committed, Safe, TypeOK, RequestTypeOK
      <3>. QED BY <2>3, <3>1, <3>2 DEF Announced
    <2>7. ASSUME NEW h \in Handlers, ~Committed(h), UNCHANGED <<users, registeredTopic>>,
                 \A g \in Handlers \ {h} : reg'[g] = reg[g]
          PROVE  \A u \in DOMAIN users' :
                    Announced(u)' \/ \E g \in Handlers : Committed(g)' /\ reg'[g].uid = u
      BY <2>3, <2>7 DEF Announced, Committed
    <2>8. ASSUME NEW h \in Handlers, Step(h), ~Commit(h), ~Publish(h), ~InvalidateProfile(h)
          PROVE  /\ ~Committed(h) /\ UNCHANGED <<users, registeredTopic>>
                 /\ \A g \in Handlers \ {h} : reg'[g] = reg[g]
      BY <2>8
      DEF Step, CacheHit, CacheMiss, FoundByClerk, NotFoundByClerk, FillCache,
          FoundByEmail, NotFoundByEmail, InsertUser, DeleteCacheBefore, InsertMapping,
          DuplicateMapping, DeleteCacheAfter, Committed, Safe, TypeOK, RequestTypeOK,
          storeVars, dbVars, topicVars
    <2>9. ASSUME NEW h \in Handlers, NEW m \in Messages, Receive(h, m)
          PROVE  /\ ~Committed(h) /\ UNCHANGED <<users, registeredTopic>>
                 /\ \A g \in Handlers \ {h} : reg'[g] = reg[g]
      BY <2>9 DEF Receive, Committed, Safe, TypeOK, RequestTypeOK, storeVars
    <2>10. ASSUME (\E m \in Messages : Dismiss(m)) \/ Expire \/ UNCHANGED vars
           PROVE  UNCHANGED <<users, registeredTopic, reg>>
      BY <2>10 DEF Dismiss, Expire, ExpireMapping, vars, storeVars, regVars, dbVars, topicVars
    <2>11. ASSUME UNCHANGED <<users, registeredTopic, reg>>
           PROVE  \A u \in DOMAIN users' :
                    Announced(u)' \/ \E g \in Handlers : Committed(g)' /\ reg'[g].uid = u
      BY <2>3, <2>11 DEF Announced, Committed
    <2>12. ~Restart /\ \A h \in Handlers : ~Failure(h)
      BY <2>1 DEF Restart, Failure, DatabaseFails, CommitReplyLost, PublishFails
    <2>. QED
      BY <2>4, <2>5, <2>6, <2>7, <2>8, <2>9, <2>10, <2>11, <2>12 DEF Next
  <1>. QED
    BY <1>1, <1>2, AlwaysSafe, PTL DEF Spec

-----------------------------------------------------------------------------
(* Where the two claims that fail come from: each holds without the race,  *)
(* or the fault, that the code leaves open.                                *)

\* A request that found its address free and has not committed it yet.
Deciding(h) == At(h, "insertUser") \/ TransactionOpen(h)

\* No two requests for one address are past GetByEmail at once.
RequestsApart ==
    \A g, h \in Handlers :
        g # h /\ Deciding(g) /\ Deciding(h) => reg[g].msg.email # reg[h].msg.email

\* The address of a request that is deciding is still free.
AddressesFree ==
    \A h \in Handlers : Deciding(h) => \A r \in mappings : r.email # reg[h].msg.email

LEMMA NextBindsOnce ==
    Safe /\ EmailBoundOnce /\ AddressesFree /\ RequestsApart /\ [Next]_vars
      => EmailBoundOnce' /\ AddressesFree'
  <1>. SUFFICES ASSUME Safe, EmailBoundOnce, AddressesFree, RequestsApart, [Next]_vars
                PROVE  EmailBoundOnce' /\ AddressesFree'
    OBVIOUS
  <1>0. reg = [g \in Handlers |-> reg[g]] /\ \A g \in Handlers : reg[g] =
          Request(reg[g].pc, reg[g].msg, reg[g].uid, reg[g].row)
    BY DEF Safe, TypeOK, RequestTypeOK, Request
  <1>1. ASSUME UNCHANGED mappings,
               \A h \in Handlers :
                 Deciding(h)' => /\ reg'[h].msg = reg[h].msg
                                 /\ \/ Deciding(h)
                                    \/ \A r \in mappings : r.email # reg[h].msg.email
        PROVE  EmailBoundOnce' /\ AddressesFree'
    BY <1>1 DEF EmailBoundOnce, AddressesFree
  <1>2. ASSUME NEW h \in Handlers, At(h, "commit"), CommitRows(h),
               Goto(h, "invalidate") \/ reg' = [reg EXCEPT ![h] = Idle]
        PROVE  EmailBoundOnce' /\ AddressesFree'
    <2>1. mappings' = mappings \cup {MappingOf(h)} /\ MappingOf(h).email = reg[h].msg.email
      BY <1>2 DEF CommitRows, MappingOf
    <2>2. Deciding(h) /\ \A r \in mappings : r.email # reg[h].msg.email
      BY <1>2 DEF AddressesFree, Deciding, TransactionOpen, At
    <2>3. ~Deciding(h)' /\ \A g \in Handlers \ {h} : reg'[g] = reg[g]
      BY <1>0, <1>2 DEF Goto, Deciding, TransactionOpen, At, Idle, Request
    <2>4. EmailBoundOnce'
      BY <2>1, <2>2 DEF EmailBoundOnce
    <2>5. ASSUME NEW g \in Handlers, Deciding(g)'
          PROVE  \A r \in mappings' : r.email # reg'[g].msg.email
      <3>1. g # h /\ reg'[g] = reg[g] /\ Deciding(g)
        BY <2>3, <2>5 DEF Deciding, TransactionOpen, At
      <3>2. reg[h].msg.email # reg[g].msg.email
        BY <2>2, <3>1 DEF RequestsApart
      <3>. QED BY <2>1, <3>1, <3>2 DEF AddressesFree
    <2>. QED BY <2>4, <2>5 DEF AddressesFree
  <1>3. ASSUME NEW h \in Handlers, Step(h), ~Commit(h)
        PROVE  EmailBoundOnce' /\ AddressesFree'
    <2>1. /\ UNCHANGED mappings
          /\ \A g \in Handlers \ {h} : reg'[g] = reg[g]
          /\ Deciding(h)' => /\ reg'[h].msg = reg[h].msg
                             /\ \/ Deciding(h)
                                \/ \A r \in mappings : r.email # reg[h].msg.email
      BY <1>0, <1>3
      DEF Step, CacheHit, CacheMiss, FoundByClerk, NotFoundByClerk, FillCache,
          FoundByEmail, NotFoundByEmail, InsertUser, DeleteCacheBefore, InsertMapping,
          DuplicateMapping, DeleteCacheAfter, InvalidateProfile, Publish, Answer, Goto,
          Deciding, TransactionOpen, At, Idle, Request, storeVars, dbVars
    <2>2. \A g \in Handlers \ {h} : Deciding(g)' => Deciding(g)
      BY <2>1 DEF Deciding, TransactionOpen, At
    <2>. QED BY <1>1, <2>1, <2>2
  <1>4. ASSUME NEW h \in Handlers, DatabaseFails(h) \/ PublishFails(h)
        PROVE  EmailBoundOnce' /\ AddressesFree'
    <2>1. UNCHANGED mappings /\ \A g \in Handlers : reg'[g] = IF g = h THEN Idle ELSE reg[g]
      BY <1>0, <1>4 DEF DatabaseFails, PublishFails, Answer, dbVars
    <2>2. \A g \in Handlers : Deciding(g)' => reg'[g] = reg[g] /\ Deciding(g)
      BY <2>1 DEF Deciding, TransactionOpen, At, Idle, Request
    <2>. QED BY <1>1, <2>1, <2>2
  <1>5. ASSUME \/ \E h \in Handlers, m \in Messages : Receive(h, m)
               \/ \E m \in Messages : Dismiss(m)
               \/ Expire \/ Restart \/ UNCHANGED vars
        PROVE  EmailBoundOnce' /\ AddressesFree'
    <2>1. /\ UNCHANGED mappings
          /\ \A g \in Handlers : Deciding(g)' => reg'[g] = reg[g]
      BY <1>0, <1>5
      DEF Receive, Dismiss, Expire, ExpireMapping, Restart, vars, storeVars, regVars,
          dbVars, Deciding, TransactionOpen, At, Idle, Request
    <2>2. \A g \in Handlers : Deciding(g)' => Deciding(g)
      BY <2>1 DEF Deciding, TransactionOpen, At
    <2>. QED BY <1>1, <2>1, <2>2
  <1>6. ASSUME NEW h \in Handlers, Commit(h) \/ CommitReplyLost(h)
        PROVE  EmailBoundOnce' /\ AddressesFree'
    BY <1>2, <1>6 DEF Commit, CommitReplyLost, Answer
  <1>. QED
    BY <1>3, <1>4, <1>5, <1>6 DEF Next, Failure

\* The claim of the duplicate address holds of requests that do not cross: it
\* takes two for one address, both past GetByEmail, to bind it twice.
THEOREM OnlyCrossingBindsTwice == Spec /\ []RequestsApart => []EmailBoundOnce
  <1>1. Init => EmailBoundOnce /\ AddressesFree
    BY DEF Init, InitStore, EmailBoundOnce, AddressesFree
  <1>. QED BY <1>1, NextBindsOnce, AlwaysSafe, PTL DEF Spec

\* The claim of the publish error holds until the first fault: then a message that
\* was answered 500 is accepted when it comes again, and its event stays lost.
THEOREM OnlyFaultsBreakAcceptance == Spec => [](faults = 0 => AcceptedMeansAnnounced)
  <1>1. Safe /\ OnlyFaultsLoseEvents => (faults = 0 => AcceptedMeansAnnounced)
    BY DEF Safe, TablesAgree, OnlyFaultsLoseEvents, AcceptedMeansAnnounced
  <1>. QED BY <1>1, AlwaysSafe, OnlyFaultsEverLoseEvents, PTL

=============================================================================
