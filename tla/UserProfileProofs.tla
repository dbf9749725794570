------------------------- MODULE UserProfileProofs -------------------------
(***************************************************************************)
(* What holds of UserProfile for any number of readers, updaters, users    *)
(* and faults.                                                             *)
(***************************************************************************)
EXTENDS UserProfile, FiniteSetTheorems, TLAPS

-----------------------------------------------------------------------------
(* The inductive invariant: what each pc says of a call, and what an       *)
(* updater about to write still knows of its row.                          *)

Change == [name : Names \cup {None}, market : Markets \cup {None}]

Reader == [pc : ReaderPCs, uid : Nat, row : UserRow \cup {None},
           email : Emails \cup {None}]

Updater == [pc : UpdaterPCs, uid : Nat, req : Updates \cup {None},
            seen : UserRow \cup {None}, change : Change \cup {None}]

\* A reader past the row has it, one past the mapping has its address.
ReaderOK(r) ==
    /\ r \in Reader
    /\ r.pc # "idle" => r.uid \in UserId
    /\ r.pc \in {"mapping", "fill"} => r.row \in UserRow
    /\ r.pc = "fill" => r.email \in Emails

\* An updater about to write changes a market only where it read none.
UpdaterOK(w) ==
    /\ w \in Updater
    /\ w.pc # "idle" => w.req \in Updates
    /\ w.pc = "write" => /\ w.seen \in UserRow
                         /\ w.change \in Change
                         /\ w.change.market # None => w.seen.market = None

CallsTyped ==
    /\ rd \in [Readers -> Reader]
    /\ up \in [Updaters -> Updater]
    /\ overtaken \subseteq Updaters
    /\ \A r \in Readers : ReaderOK(rd[r])
    /\ \A w \in Updaters : UpdaterOK(up[w])

Typed == StoreTypeOK /\ CallsTyped

\* What updater w read is still in the table, as far as the market goes.
StillSees(w) ==
    (up[w].pc = "write" /\ w \notin overtaken /\ up[w].uid \in DOMAIN users)
        => users[up[w].uid].market = up[w].seen.market

IInv == Typed /\ \A w \in Updaters : StillSees(w)

LEMMA TypedIsTypeOK == Typed => TypeOK
  BY DEF Typed, TypeOK, CallsTyped, Reader, Updater, Change

LEMMA IdleOK == ReaderOK(IdleReader) /\ UpdaterOK(IdleUpdater)
  BY DEF ReaderOK, UpdaterOK, IdleReader, IdleUpdater, Reading, Updating, Reader,
         Updater, ReaderPCs, UpdaterPCs

LEMMA InitInv == Init => IInv
  <1>. SUFFICES ASSUME Init PROVE IInv
    OBVIOUS
  <1>1. StoreTypeOK
    <2>1. Cardinality(Accounts) \in Nat
      BY AccountsAssumption, FS_CardinalityType
    <2>2. PICK name \in Names : users = [u \in {a.uid : a \in Accounts} |-> NewUser(name)]
      BY DEF Init, InitRegistered
    <2>3. NewUser(name) \in UserRow
      BY DEF NewUser, UserRow, KycStatuses
    <2>4. {a.uid : a \in Accounts} \subseteq UserId
      BY AccountsAssumption DEF MappingRow
    <2>5. users \in [DOMAIN users -> UserRow] /\ DOMAIN users \subseteq UserId
      BY <2>2, <2>3, <2>4
    <2>6. nextId \in UserId
      BY <2>1 DEF Init, InitRegistered, UserId
    <2>7. registeredTopic \in Seq(UserId) /\ faults \in 0..MaxFaults
      BY MaxFaultsAssumption DEF Init, InitRegistered
    <2>. QED
      BY <2>5, <2>6, <2>7, AccountsAssumption DEF Init, InitRegistered, StoreTypeOK
  <1>2. CallsTyped
    BY IdleOK DEF Init, CallsTyped, ReaderOK, UpdaterOK
  <1>3. \A w \in Updaters : up[w].pc = "idle"
    BY DEF Init, IdleUpdater, Updating
  <1>. QED
    BY <1>1, <1>2, <1>3 DEF IInv, Typed, StillSees

-----------------------------------------------------------------------------
(* Moving one call.                                                        *)

LEMMA ReaderMoves ==
    ASSUME CallsTyped, NEW r \in Readers, NEW to, ReaderOK(to), ReaderGoes(r, to)
    PROVE  CallsTyped'
  BY DEF CallsTyped, ReaderOK, ReaderGoes

LEMMA UpdaterMoves ==
    ASSUME CallsTyped, NEW w \in Updaters, NEW to, UpdaterOK(to), UpdaterGoes(w, to),
           overtaken' \subseteq Updaters
    PROVE  CallsTyped'
  BY DEF CallsTyped, UpdaterOK, UpdaterGoes

\* A reader moves without touching a row, a fault or an updater.
LEMMA ReaderKeeps ==
    ASSUME IInv, NEW r \in Readers, NEW to, ReaderOK(to), ReaderGoes(r, to),
           StoreTypeOK', users' = users
    PROVE  IInv' /\ UNCHANGED users
  <1>1. CallsTyped'
    BY ReaderMoves DEF IInv, Typed
  <1>. QED
    BY <1>1 DEF IInv, Typed, StillSees, ReaderGoes

\* An updater moves without writing; if it is about to write, what it read is
\* in the table.
LEMMA UpdaterKeeps ==
    ASSUME IInv, NEW w \in Updaters, NEW to, UpdaterOK(to), UpdaterGoes(w, to),
           StoreTypeOK', users' = users, overtaken \ {w} \subseteq overtaken',
           overtaken' \subseteq Updaters,
           (to.pc = "write" /\ to.uid \in DOMAIN users)
             => users[to.uid].market = to.seen.market
    PROVE  IInv' /\ UNCHANGED users
  <1>1. CallsTyped'
    BY UpdaterMoves DEF IInv, Typed
  <1>2. \A v \in Updaters : up'[v] = IF v = w THEN to ELSE up[v]
    BY DEF IInv, Typed, CallsTyped, UpdaterGoes
  <1>3. ASSUME NEW v \in Updaters PROVE StillSees(v)'
    BY <1>2 DEF IInv, StillSees
  <1>. QED
    BY <1>1, <1>3 DEF IInv, Typed

\* The stores when nothing but the profile cache, and a fault, moved.
LEMMA StoreStays ==
    ASSUME StoreTypeOK, profileCache' \subseteq ProfileRow, UNCHANGED <<dbVars, mapCache, topicVars>>,
           UNCHANGED faults \/ Fault
    PROVE  StoreTypeOK'
  BY MaxFaultsAssumption DEF StoreTypeOK, dbVars, topicVars, Fault

-----------------------------------------------------------------------------
(* Readers.                                                                *)

LEMMA ReadersKeep ==
    ASSUME IInv, NEW r \in Readers,
           \/ ReaderStep(r)
           \/ ReadFails(r)
           \/ \E u \in QueriedIds : StartRead(r, u)
    PROVE  IInv' /\ UNCHANGED users
  <1>. USE DEF IInv, Typed
  <1>1. ReaderOK(rd[r])
    BY DEF CallsTyped
  <1>2. ASSUME NEW u \in QueriedIds, StartRead(r, u) PROVE IInv' /\ UNCHANGED users
    <2>1. ReaderOK(Reading("cache", u, None, None))
      BY QueriedAssumption DEF ReaderOK, Reading, Reader, ReaderPCs, UserId
    <2>. QED
      BY <1>2, <2>1, ReaderKeeps, StoreStays
      DEF StartRead, storeVars, StoreTypeOK, dbVars, topicVars
  <1>3. CASE ProfileHit(r)
    BY <1>3, IdleOK, ReaderKeeps, StoreStays
    DEF ProfileHit, storeVars, StoreTypeOK, dbVars, topicVars
  <1>4. CASE ProfileMiss(r)
    <2>1. ReaderOK(Reading("user", rd[r].uid, None, None))
      BY <1>1, <1>4 DEF ProfileMiss, ReaderOK, Reading, Reader, ReaderPCs, UserId
    <2>. QED
      BY <1>4, <2>1, ReaderKeeps, StoreStays
      DEF ProfileMiss, storeVars, StoreTypeOK, dbVars, topicVars
  <1>5. CASE ReadUser(r)
    <2>1. ASSUME rd[r].uid \in DOMAIN users
          PROVE  ReaderOK(Reading("mapping", rd[r].uid, users[rd[r].uid], None))
      <3>1. users[rd[r].uid] \in UserRow
        BY <2>1 DEF StoreTypeOK
      <3>. QED
        BY <1>1, <1>5, <3>1 DEF ReadUser, ReaderOK, Reading, Reader, ReaderPCs, UserId
    <2>. QED
      BY <1>5, <2>1, IdleOK, ReaderKeeps, StoreStays
      DEF ReadUser, storeVars, StoreTypeOK, dbVars, topicVars
  <1>6. CASE ReadMapping(r)
    <2>1. ASSUME NEW m \in mappings
          PROVE  ReaderOK(Reading("fill", rd[r].uid, rd[r].row, m.email))
      <3>1. m.email \in Emails
        BY DEF StoreTypeOK, MappingRow
      <3>. QED
        BY <1>1, <1>6, <3>1 DEF ReadMapping, ReaderOK, Reading, Reader, ReaderPCs, UserId
    <2>. QED
      BY <1>6, <2>1, IdleOK, ReaderKeeps, StoreStays
      DEF ReadMapping, storeVars, StoreTypeOK, dbVars, topicVars
  <1>7. CASE FillProfile(r)
    <2>1. ProfileRead(r) \in ProfileRow
      BY <1>1, <1>7 DEF FillProfile, ReaderOK, ProfileRead, ProfileRow, UserRow
    <2>2. profileCache' \subseteq ProfileRow
      BY <1>7, <2>1
      DEF FillProfile, SetUserProfileCache, ProfileCacheWithout, StoreTypeOK
    <2>. QED
      BY <1>7, <2>2, IdleOK, ReaderKeeps, StoreStays DEF FillProfile, dbVars
  <1>8. CASE ReadFails(r)
    BY <1>8, IdleOK, ReaderKeeps, StoreStays DEF ReadFails, StoreTypeOK, dbVars
  <1>. QED
    BY <1>2, <1>3, <1>4, <1>5, <1>6, <1>7, <1>8 DEF ReaderStep

-----------------------------------------------------------------------------
(* Updaters.                                                               *)

\* What an updater goes on with is what it read, and a market only over none.
LEMMA DecidedOK ==
    ASSUME NEW w \in Updaters, UpdaterOK(up[w]), up[w].pc = "read", NEW row \in UserRow
    PROVE  /\ UpdaterOK(Decided(w, row))
           /\ Decided(w, row).pc = "write" => /\ Decided(w, row).uid = up[w].uid
                                              /\ Decided(w, row).seen = row
  <1>. DEFINE q == up[w].req
              change == ProfileChange(row.market, q)
  <1>1. q \in UpdateRequest
    BY UpdatesAssumption DEF UpdaterOK
  <1>2. CASE MarketRefused(row.market, q.market) \/ change = NothingToWrite
    BY <1>2, IdleOK DEF Decided, IdleUpdater, Updating
  <1>3. CASE ~ (MarketRefused(row.market, q.market) \/ change = NothingToWrite)
    <2>1. Decided(w, row) = Updating("write", up[w].uid, q, row, change)
      BY <1>3 DEF Decided
    <2>2. change \in Change /\ (change.market # None => row.market = None)
      BY <1>1, <1>3 DEF ProfileChange, MarketRefused, Change, UpdateRequest
    <2>. QED
      BY <2>1, <2>2 DEF Updating, UpdaterOK, Updater, UpdaterPCs
  <1>. QED BY <1>2, <1>3

LEMMA UpdatersKeep ==
    ASSUME IInv, NEW w \in Updaters,
           \/ ReadForUpdate(w)
           \/ InvalidateUpdated(w)
           \/ UpdateFails(w)
           \/ \E u \in QueriedIds, q \in Updates : StartUpdate(w, u, q)
    PROVE  IInv' /\ UNCHANGED users
  <1>. USE DEF IInv, Typed
  <1>1. UpdaterOK(up[w]) /\ overtaken \subseteq Updaters
    BY DEF CallsTyped
  <1>2. UpdaterOK(IdleUpdater) /\ IdleUpdater.pc # "write"
    BY IdleOK DEF IdleUpdater, Updating
  <1>3. ASSUME NEW u \in QueriedIds, NEW q \in Updates, StartUpdate(w, u, q)
        PROVE  IInv' /\ UNCHANGED users
    <2>. DEFINE to == Updating("read", u, q, None, None)
    <2>1. UpdaterOK(to) /\ to.pc # "write"
      BY QueriedAssumption DEF UpdaterOK, Updating, Updater, UpdaterPCs, UserId
    <2>. QED
      BY <1>1, <1>3, <2>1, UpdaterKeeps, StoreStays
      DEF StartUpdate, storeVars, StoreTypeOK, dbVars, topicVars
  <1>4. CASE ReadForUpdate(w)
    <2>1. StoreTypeOK' /\ UNCHANGED <<users, overtaken>>
      BY <1>4, StoreStays
      DEF ReadForUpdate, storeVars, StoreTypeOK, dbVars, topicVars
    <2>2. CASE up[w].uid \in DOMAIN users
      <3>. DEFINE row == users[up[w].uid]
                  to == Decided(w, row)
      <3>1. row \in UserRow
        BY <2>2 DEF StoreTypeOK
      <3>2. UpdaterGoes(w, to) /\ up[w].pc = "read"
        BY <1>4, <2>2 DEF ReadForUpdate
      <3>3. UpdaterOK(to) /\ (to.pc = "write" => to.uid = up[w].uid /\ to.seen = row)
        BY <1>1, <3>1, <3>2, DecidedOK
      <3>. QED
        BY <1>1, <2>1, <3>2, <3>3, UpdaterKeeps
    <2>3. CASE up[w].uid \notin DOMAIN users
      BY <1>1, <1>2, <1>4, <2>1, <2>3, UpdaterKeeps DEF ReadForUpdate
    <2>. QED BY <2>2, <2>3
  <1>5. CASE InvalidateUpdated(w)
    <2>1. profileCache' \subseteq ProfileRow
      BY <1>5
      DEF InvalidateUpdated, InvalidateUserProfileCache, ProfileCacheWithout, StoreTypeOK
    <2>. QED
      BY <1>1, <1>2, <1>5, <2>1, UpdaterKeeps, StoreStays DEF InvalidateUpdated, dbVars
  <1>6. CASE UpdateFails(w)
    <2>1. overtaken' = overtaken \ {w}
      BY <1>6 DEF UpdateFails
    <2>2. StoreTypeOK' /\ users' = users
      BY <1>6, StoreStays DEF UpdateFails, StoreTypeOK, dbVars
    <2>. QED
      BY <1>1, <1>2, <1>6, <2>1, <2>2, UpdaterKeeps DEF UpdateFails
  <1>. QED
    BY <1>3, <1>4, <1>5, <1>6

-----------------------------------------------------------------------------
(* A write.                                                                *)

\* The row u once updater w has written its columns.
Written(w, u) ==
    [name   |-> IF up[w].change.name = None THEN users[u].name ELSE up[w].change.name,
     market |-> IF up[w].change.market = None THEN users[u].market
                                              ELSE up[w].change.market,
     kyc    |-> users[u].kyc]

LEMMA WrittenRows ==
    ASSUME IInv, NEW w \in Updaters, up[w].pc = "write", WriteColumns(w)
    PROVE  /\ DOMAIN users' = DOMAIN users
           /\ users' \in [DOMAIN users' -> UserRow]
           /\ \A u \in DOMAIN users :
                users'[u] = IF u = up[w].uid THEN Written(w, u) ELSE users[u]
  <1>1. up[w].change \in Change
    BY DEF IInv, Typed, CallsTyped, UpdaterOK
  <1>2. users \in [DOMAIN users -> UserRow]
    BY DEF IInv, Typed, StoreTypeOK
  <1>3. \A u \in DOMAIN users : Written(w, u) \in UserRow
    BY <1>1, <1>2 DEF Written, Change, UserRow
  <1>4. DOMAIN users' = DOMAIN users
    BY <1>2 DEF WriteColumns
  <1>5. \A u \in DOMAIN users :
          users'[u] = IF u = up[w].uid THEN Written(w, u) ELSE users[u]
    BY <1>2 DEF WriteColumns, Written
  <1>6. users' = [u \in DOMAIN users |-> users'[u]]
    BY <1>2 DEF WriteColumns
  <1>. QED
    BY <1>2, <1>3, <1>4, <1>5, <1>6

\* Both outcomes of the UPDATE: what is common to WriteProfile and WriteReplyLost.
Writes(w) ==
    /\ up[w].pc = "write"
    /\ WriteColumns(w)
    /\ Overtakes(w)
    /\ UNCHANGED faults \/ Fault
    /\ \/ UpdaterGoes(w, [up[w] EXCEPT !.pc = "invalidate"])
       \/ UpdaterGoes(w, IdleUpdater)
    /\ UNCHANGED <<mappings, nextId, mapCache, profileCache, topicVars>>

LEMMA WritersWrite ==
    ASSUME NEW w \in Updaters, WriteProfile(w) \/ WriteReplyLost(w)
    PROVE  Writes(w)
  BY DEF WriteProfile, WriteReplyLost, Writes

LEMMA WritersKeep ==
    ASSUME IInv, NEW w \in Updaters, Writes(w)
    PROVE  IInv'
  <1>1. StoreTypeOK'
    BY WrittenRows, MaxFaultsAssumption
    DEF Writes, IInv, Typed, StoreTypeOK, topicVars, Fault
  <1>2. PICK to : /\ UpdaterGoes(w, to)
                  /\ to = [up[w] EXCEPT !.pc = "invalidate"] \/ to = IdleUpdater
    BY DEF Writes
  <1>3. UpdaterOK(up[w]) /\ overtaken \subseteq Updaters
    BY DEF IInv, Typed, CallsTyped
  <1>4. UpdaterOK(to) /\ to.pc # "write"
    BY <1>2, <1>3, IdleOK
    DEF UpdaterOK, Updater, UpdaterPCs, IdleUpdater, Updating, Writes
  <1>5. CallsTyped'
    BY <1>2, <1>3, <1>4, UpdaterMoves DEF IInv, Typed, Writes, Overtakes
  <1>6. ASSUME NEW v \in Updaters, up'[v].pc = "write", v \notin overtaken',
               up'[v].uid \in DOMAIN users'
        PROVE  users'[up'[v].uid].market = up'[v].seen.market
    <2>1. v # w /\ up'[v] = up[v]
      BY <1>2, <1>4, <1>6 DEF UpdaterGoes, IInv, Typed, CallsTyped
    <2>2. v \notin overtaken /\ up[v].uid # up[w].uid
      BY <1>6, <2>1 DEF Writes, Overtakes
    <2>3. up[v].uid \in DOMAIN users /\ users'[up[v].uid] = users[up[v].uid]
      BY <1>6, <2>1, <2>2, WrittenRows DEF Writes
    <2>. QED
      BY <1>6, <2>1, <2>2, <2>3 DEF IInv, StillSees
  <1>. QED
    BY <1>1, <1>5, <1>6 DEF IInv, Typed, StillSees

\* A write that replaces a market is one that another write overtook.
KeepsMarkets ==
    \A u \in DOMAIN users :
        users[u].market \notin {None, users'[u].market} =>
            /\ users'[u].market # None
            /\ \E w \in overtaken : up[w].uid = u /\ up'[w] # up[w]

LEMMA WritersKeepMarkets ==
    ASSUME IInv, NEW w \in Updaters, Writes(w)
    PROVE  KeepsMarkets
  <1>. SUFFICES ASSUME NEW u \in DOMAIN users,
                       users[u].market \notin {None, users'[u].market}
                PROVE  /\ users'[u].market # None
                       /\ \E v \in overtaken : up[v].uid = u /\ up'[v] # up[v]
    BY DEF KeepsMarkets
  <1>1. UpdaterOK(up[w]) /\ up[w].pc = "write"
    BY DEF IInv, Typed, CallsTyped, Writes
  <1>2. u = up[w].uid /\ users'[u] = Written(w, u)
    BY <1>1, WrittenRows DEF Writes
  <1>3. up[w].change.market # None /\ users'[u].market = up[w].change.market
    BY <1>2 DEF Written
  <1>4. up[w].seen.market = None
    BY <1>1, <1>3 DEF UpdaterOK
  <1>5. w \in overtaken
    BY <1>1, <1>2, <1>4 DEF IInv, StillSees
  <1>6. up'[w].pc # "write"
    BY DEF Writes, UpdaterGoes, IInv, Typed, CallsTyped, UpdaterOK, Updater, IdleUpdater,
           Updating
  <1>. QED
    BY <1>1, <1>2, <1>3, <1>5, <1>6

-----------------------------------------------------------------------------
(* Every step.                                                             *)

LEMMA OthersKeep ==
    ASSUME IInv, Expire \/ Restart \/ UNCHANGED vars
    PROVE  IInv' /\ UNCHANGED users
  <1>. USE DEF IInv, Typed
  <1>1. CASE Expire
    <2>1. StoreTypeOK' /\ UNCHANGED <<users, rd, up, overtaken>>
      BY <1>1 DEF Expire, ExpireProfile, StoreTypeOK, dbVars, topicVars, profileVars
    <2>. QED
      BY <2>1 DEF CallsTyped, StillSees
  <1>2. CASE Restart
    <2>1. StoreTypeOK' /\ users' = users
      BY <1>2, StoreStays DEF Restart, StoreTypeOK, dbVars
    <2>2. CallsTyped'
      BY <1>2, IdleOK DEF Restart, CallsLost, CallsTyped, ReaderOK, UpdaterOK
    <2>3. \A w \in Updaters : up'[w].pc # "write"
      BY <1>2 DEF Restart, CallsLost, IdleUpdater, Updating
    <2>. QED
      BY <2>1, <2>2, <2>3 DEF StillSees
  <1>3. CASE UNCHANGED vars
    <2>1. StoreTypeOK' /\ UNCHANGED <<users, rd, up, overtaken>>
      BY <1>3, StoreStays
      DEF vars, storeVars, profileVars, StoreTypeOK, dbVars, topicVars
    <2>. QED
      BY <2>1 DEF CallsTyped, StillSees
  <1>. QED BY <1>1, <1>2, <1>3

LEMMA StepKeeps ==
    ASSUME IInv, [Next]_vars
    PROVE  IInv' /\ (UNCHANGED users \/ KeepsMarkets)
  <1>1. ASSUME NEW r \in Readers, \/ ReaderStep(r)
                                  \/ ReadFails(r)
                                  \/ \E u \in QueriedIds : StartRead(r, u)
        PROVE  IInv' /\ UNCHANGED users
    BY <1>1, ReadersKeep
  <1>2. ASSUME NEW w \in Updaters, \/ ReadForUpdate(w)
                                   \/ InvalidateUpdated(w)
                                   \/ UpdateFails(w)
                                   \/ \E u \in QueriedIds, q \in Updates :
                                        StartUpdate(w, u, q)
        PROVE  IInv' /\ UNCHANGED users
    BY <1>2, UpdatersKeep
  <1>3. ASSUME NEW w \in Updaters, WriteProfile(w) \/ WriteReplyLost(w)
        PROVE  IInv' /\ KeepsMarkets
    BY <1>3, WritersWrite, WritersKeep, WritersKeepMarkets
  <1>4. ASSUME Expire \/ Restart \/ UNCHANGED vars
        PROVE  IInv' /\ UNCHANGED users
    BY <1>4, OthersKeep
  <1>. QED
    BY <1>1, <1>2, <1>3, <1>4 DEF Next, Step, UpdaterStep

\* The state of the profile calls is well formed: what each pc says of the call
\* that GetUserProfile or UpdateProfile has got to.
THEOREM TypeCorrect == Spec => []TypeOK
  <1>1. Init => IInv
    BY InitInv
  <1>2. IInv /\ [Next]_vars => IInv'
    BY StepKeeps
  <1>3. IInv => TypeOK
    BY TypedIsTypeOK DEF IInv
  <1>. QED BY <1>1, <1>2, <1>3, PTL DEF Spec

\* UpdateProfile never empties a market that is set, and replaces one only when
\* another update of the same user was written between its read and its write.
THEOREM MarketsAlwaysKept == Spec => MarketKept
  <1>1. Init => IInv
    BY InitInv
  <1>2. IInv /\ [Next]_vars => IInv'
    BY StepKeeps
  <1>3. IInv /\ [Next]_vars =>
          [\A u \in DOMAIN users :
             users[u].market \notin {None, users'[u].market} =>
                 /\ users'[u].market # None
                 /\ \E w \in overtaken : up[w].uid = u /\ up'[w] # up[w]]_users
    BY StepKeeps DEF KeepsMarkets
  <1>. QED BY <1>1, <1>2, <1>3, PTL DEF Spec, MarketKept

\* No two updates of a user are between their read and their write at once.
UpdatesApart ==
    \A v, w \in Updaters :
        v # w /\ up[v].pc = "write" /\ up[w].pc = "write" => up[v].uid # up[w].uid

\* The comment of UpdateProfile, that the market is initialised once, is true of
\* updates that do not cross: it takes two of one user to replace a market.
THEOREM OnlyCrossingReplacesMarket == Spec /\ []UpdatesApart => MarketSetOnce
  <1>. DEFINE Apart == IInv /\ overtaken = {}
  <1>1. Init => Apart
    BY InitInv DEF Init
  <1>2. Apart /\ UpdatesApart /\ [Next]_vars => overtaken' = {}
    BY DEF UpdatesApart, Next, Step, ReaderStep, UpdaterStep, ReadFails, UpdateFails,
           WriteReplyLost, Expire, Restart, CallsLost, ProfileHit, ProfileMiss, ReadUser,
           ReadMapping, FillProfile, StartRead, StartUpdate, ReadForUpdate, WriteProfile,
           InvalidateUpdated, ReaderGoes, Overtakes, profileVars, vars
  <1>3. Apart /\ UpdatesApart /\ [Next]_vars => Apart'
    BY <1>2, StepKeeps
  <1>4. Apart /\ [Next]_vars =>
          [\A u \in DOMAIN users :
             users[u].market # None => users'[u].market = users[u].market]_users
    BY StepKeeps DEF KeepsMarkets
  <1>. QED BY <1>1, <1>3, <1>4, PTL DEF Spec, MarketSetOnce

-----------------------------------------------------------------------------
(* The rest of the process.  Another service on the same tables keeps what *)
(* the calls rely on as long as it leaves the calls and the markets alone; *)
(* a crash of the process ends the calls.                                  *)

MarketsStay ==
    /\ DOMAIN users' = DOMAIN users
    /\ \A u \in DOMAIN users : users'[u].market = users[u].market

RestSteps == StoreTypeOK' /\ MarketsStay /\ (UNCHANGED profileVars \/ CallsLost)

LEMMA RestKeeps ==
    ASSUME IInv, RestSteps
    PROVE  IInv' /\ KeepsMarkets
  <1>1. KeepsMarkets
    BY DEF KeepsMarkets, RestSteps, MarketsStay
  <1>2. CASE UNCHANGED profileVars
    BY <1>1, <1>2 DEF RestSteps, MarketsStay, IInv, Typed, CallsTyped, StillSees, profileVars
  <1>3. CASE CallsLost
    <2>1. CallsTyped'
      BY <1>3, IdleOK DEF CallsLost, CallsTyped, ReaderOK, UpdaterOK
    <2>2. \A w \in Updaters : up'[w].pc # "write"
      BY <1>3 DEF CallsLost, IdleUpdater, Updating
    <2>. QED BY <1>1, <2>1, <2>2 DEF RestSteps, IInv, Typed, StillSees
  <1>. QED BY <1>2, <1>3 DEF RestSteps

\* What the calls leave alone: the KYC events and every KYC status.
LEMMA CallsLeave ==
    ASSUME Typed, Step
    PROVE  /\ UNCHANGED faults \/ Fault
           /\ UNCHANGED kycTopic
           /\ DOMAIN users' = DOMAIN users
           /\ \A u \in DOMAIN users : users'[u].kyc = users[u].kyc
  <1>1. UNCHANGED users \/ \E w \in Updaters : WriteColumns(w)
    BY DEF Step, ReaderStep, UpdaterStep, ReadFails, UpdateFails, WriteReplyLost, Expire,
           ExpireProfile, ProfileHit, ProfileMiss, ReadUser, ReadMapping, FillProfile,
           StartRead, StartUpdate, ReadForUpdate, WriteProfile, InvalidateUpdated,
           storeVars, dbVars
  <1>2. ASSUME NEW w \in Updaters, WriteColumns(w)
        PROVE  /\ DOMAIN users' = DOMAIN users
               /\ \A u \in DOMAIN users : users'[u].kyc = users[u].kyc
    BY <1>2 DEF WriteColumns, Typed, StoreTypeOK, UserRow
  <1>3. (UNCHANGED faults \/ Fault) /\ UNCHANGED kycTopic
    BY DEF Step, ReaderStep, UpdaterStep, ReadFails, UpdateFails, WriteReplyLost, Expire,
           ExpireProfile, ProfileHit, ProfileMiss, ReadUser, ReadMapping, FillProfile,
           StartRead, StartUpdate, ReadForUpdate, WriteProfile, InvalidateUpdated,
           storeVars, topicVars
  <1>. QED BY <1>1, <1>2, <1>3

=============================================================================
