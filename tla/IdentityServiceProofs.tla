----------------------- MODULE IdentityServiceProofs -----------------------
(***************************************************************************)
(* What holds of IdentityService for any number of readers, updaters,      *)
(* callbacks, users and faults.  The proofs are about what the two         *)
(* services do to each other: of what each keeps by itself they only need  *)
(* the shape of its records.                                               *)
(***************************************************************************)
EXTENDS IdentityService, TLAPS

-----------------------------------------------------------------------------
(* The shape of the state.                                                 *)

IsRow(x) == x = [name |-> x.name, market |-> x.market, kyc |-> x.kyc]
IsReader(x) == x = P!Reading(x.pc, x.uid, x.row, x.email)
IsUpdater(x) == x = P!Updating(x.pc, x.uid, x.req, x.seen, x.change)
IsCallback(x) == x = K!Serving(x.pc, x.state, x.uid, x.email, x.status)

UsersShaped ==
    /\ users = [u \in DOMAIN users |-> users[u]]
    /\ \A u \in DOMAIN users : IsRow(users[u])
ReadersShaped ==
    /\ rd = [r \in Readers |-> rd[r]]
    /\ \A r \in Readers : IsReader(rd[r])
UpdatersShaped ==
    /\ up = [w \in Updaters |-> up[w]]
    /\ \A w \in Updaters : IsUpdater(up[w])
CallbacksShaped ==
    /\ cb = [h \in Callbacks |-> cb[h]]
    /\ \A h \in Callbacks : IsCallback(cb[h])

Shaped ==
    /\ UsersShaped /\ ReadersShaped /\ UpdatersShaped /\ CallbacksShaped
    /\ faults \in Nat
    /\ \E S : writes \in Seq(S)

LEMMA Shapes ==
    /\ \A a, b, c, d : IsReader(P!Reading(a, b, c, d))
    /\ \A a, b, c, d, e : IsUpdater(P!Updating(a, b, c, d, e))
    /\ \A a, b, c, d, e : IsCallback(K!Serving(a, b, c, d, e))
  BY DEF IsReader, IsUpdater, IsCallback, P!Reading, P!Updating, K!Serving

LEMMA UpdaterAt ==
    ASSUME NEW x, IsUpdater(x), NEW pc
    PROVE  [x EXCEPT !.pc = pc] = P!Updating(pc, x.uid, x.req, x.seen, x.change)
  BY DEF IsUpdater, P!Updating

LEMMA CallbackAt ==
    ASSUME NEW x, IsCallback(x), NEW pc
    PROVE  [x EXCEPT !.pc = pc] = K!Serving(pc, x.state, x.uid, x.email, x.status)
  BY DEF IsCallback, K!Serving

LEMMA FaultCounts ==
    ASSUME faults \in Nat
    PROVE  /\ Fault => faults' \in Nat /\ faults' # faults
           /\ P!Fault => faults' \in Nat /\ faults' # faults
           /\ K!Fault => faults' \in Nat /\ faults' # faults
  BY DEF Fault, P!Fault, K!Fault

\* Appending one write.
LEMMA OneMore ==
    ASSUME NEW S, NEW s \in Seq(S), NEW e
    PROVE  /\ Append(s, e) \in Seq(S \cup {e})
           /\ Len(s) \in Nat
           /\ DOMAIN s = 1..Len(s)
           /\ DOMAIN Append(s, e) = 1..(Len(s) + 1)
           /\ Append(s, e)[Len(s) + 1] = e
           /\ \A i \in 1..Len(s) : Append(s, e)[i] = s[i]
  <1>1. s \in Seq(S \cup {e})
    OBVIOUS
  <1>. QED BY <1>1

-----------------------------------------------------------------------------
(* What a step of either service may do to the rows, the cached profiles   *)
(* and the rows that readers hold.                                         *)

Holds(r) == rd[r].pc \in {"mapping", "fill"}

\* Reader r has read a row, or the address of a mapping, that the tables have.
ReadNow(r) ==
    /\ rd'[r].uid \in DOMAIN users
    /\ rd'[r].row = users[rd'[r].uid]
    /\ rd'[r].pc = "mapping"

\* Reader r still has the row it had.
StillHolds(r) ==
    /\ Holds(r)
    /\ rd'[r].uid = rd[r].uid /\ rd'[r].row = rd[r].row
    /\ rd'[r].pc = "fill" =>
         \/ rd[r].pc = "fill" /\ rd'[r].email = rd[r].email
         \/ \E m \in mappings : m.uid = rd'[r].uid /\ m.email = rd'[r].email

CacheFilledBy(r) == rd[r].pc = "fill" /\ profileCache' \subseteq profileCache \cup {P!ProfileRead(r)}

\* Rows change one way: by a writer that has now to delete the cached profile, or
\* whose UPDATE was reported as an error.
RowsMove ==
    /\ mappings' = mappings
    /\ DOMAIN users' = DOMAIN users
    /\ \A u \in DOMAIN users :
         users'[u] # users[u] =>
             /\ Deleting(u)' # {} \/ faults' # faults
             /\ \A r \in Readers : Holds(r)' => StillHolds(r)

CacheMoves ==
    \/ profileCache' \subseteq profileCache
    \/ \E r \in Readers : CacheFilledBy(r)

Moves ==
    /\ RowsMove
    /\ CacheMoves
    /\ \A r \in Readers : Holds(r)' => StillHolds(r) \/ ReadNow(r)

-----------------------------------------------------------------------------
(* Cached profiles.                                                        *)

CachedKnown == \A p \in profileCache : p.uid \in DOMAIN users

\* What a reader is to cache is what the tables say, unless the row was written
\* since, which excuses the user.
HeldFresh ==
    \A r \in Readers : Holds(r) =>
        /\ rd[r].uid \in DOMAIN users
        /\ rd[r].uid \notin excused => rd[r].row = users[rd[r].uid]
        /\ rd[r].pc = "fill" =>
             \E m \in mappings : m.uid = rd[r].uid /\ m.email = rd[r].email

CacheInv == CachedKnown /\ HeldFresh /\ StaleOnlyIfExcused

LEMMA ExcusedStays ==
    ASSUME Excused, NEW u, u \notin excused', HoldsRow(u)' \/ Cached(u)'
    PROVE  u \notin excused /\ (u \in DOMAIN users => ~Excuses(u))
  BY DEF Excused

LEMMA MovesKeepHeld ==
    ASSUME CacheInv, Moves, Excused
    PROVE  CachedKnown' /\ HeldFresh'
  <1>1. ASSUME NEW p \in profileCache', p \notin profileCache
        PROVE  \E r \in Readers : rd[r].pc = "fill" /\ p = P!ProfileRead(r)
    BY <1>1 DEF Moves, CacheMoves, CacheFilledBy
  <1>2. ASSUME NEW r \in Readers, rd[r].pc = "fill"
        PROVE  P!ProfileRead(r).uid \in DOMAIN users
    BY <1>2 DEF CacheInv, HeldFresh, Holds, P!ProfileRead
  <1>3. CachedKnown'
    BY <1>1, <1>2 DEF CacheInv, CachedKnown, Moves, RowsMove
  <1>4. ASSUME NEW r \in Readers, Holds(r)'
        PROVE  /\ rd'[r].uid \in DOMAIN users'
               /\ rd'[r].uid \notin excused' => rd'[r].row = users'[rd'[r].uid]
               /\ rd'[r].pc = "fill" =>
                    \E m \in mappings' : m.uid = rd'[r].uid /\ m.email = rd'[r].email
    <2>1. CASE StillHolds(r)
      <3>0. PICK u : u = rd[r].uid
        OBVIOUS
      <3>1. u \in DOMAIN users /\ u \in DOMAIN users'
        BY <2>1, <3>0 DEF StillHolds, CacheInv, HeldFresh, Moves, RowsMove
      <3>2. HoldsRow(u) /\ HoldsRow(u)'
        BY <1>4, <2>1, <3>0 DEF HoldsRow, StillHolds, Holds
      <3>3. u \notin excused' => u \notin excused /\ users'[u] = users[u]
        BY <3>1, <3>2, ExcusedStays DEF Excuses
      <3>. QED
        BY <2>1, <3>0, <3>1, <3>3 DEF StillHolds, CacheInv, HeldFresh, Moves, RowsMove
    <2>2. CASE ReadNow(r) /\ ~StillHolds(r)
      BY <1>4, <2>2 DEF ReadNow, Moves, RowsMove
    <2>. QED
      BY <1>4, <2>1, <2>2 DEF Moves
  <1>. QED
    BY <1>3, <1>4 DEF HeldFresh

LEMMA MovesKeepCoherence ==
    ASSUME CacheInv, Moves, Excused
    PROVE  StaleOnlyIfExcused'
  <1>. SUFFICES ASSUME NEW u \in QueriedIds, Deleting(u)' = {}, u \notin excused',
                       NEW p \in profileCache', p.uid = u
                PROVE  /\ u \in DOMAIN users'
                       /\ p.name = users'[u].name /\ p.market = users'[u].market
                       /\ p.kyc = users'[u].kyc
                       /\ \E m \in mappings' : m.uid = u /\ m.email = p.email
    BY DEF StaleOnlyIfExcused, P!Coherent
  <1>1. Cached(u)' /\ u \in DOMAIN users' /\ u \in DOMAIN users
    BY MovesKeepHeld DEF Cached, CachedKnown, Moves, RowsMove
  <1>2. u \notin excused /\ ~Excuses(u)
    BY <1>1, ExcusedStays
  <1>3. Deleting(u) = {}
    BY <1>1, <1>2 DEF Excuses
  <1>4. users'[u] = users[u]
    BY <1>1, <1>2 DEF Excuses, Moves, RowsMove
  <1>5. CASE p \in profileCache
    <2>1. P!Coherent(u)
      BY <1>2, <1>3 DEF CacheInv, StaleOnlyIfExcused
    <2>. QED
      BY <1>1, <1>4, <1>5, <2>1 DEF P!Coherent, Moves, RowsMove
  <1>6. CASE p \notin profileCache
    <2>1. PICK r \in Readers : rd[r].pc = "fill" /\ p = P!ProfileRead(r)
      BY <1>6 DEF Moves, CacheMoves, CacheFilledBy
    <2>2. rd[r].uid = u /\ Holds(r)
      BY <2>1 DEF P!ProfileRead, Holds
    <2>3. /\ rd[r].row = users[u]
          /\ \E m \in mappings : m.uid = u /\ m.email = rd[r].email
      BY <1>2, <2>1, <2>2 DEF CacheInv, HeldFresh
    <2>. QED
      BY <1>1, <1>4, <2>1, <2>3 DEF P!ProfileRead, Moves, RowsMove
  <1>. QED BY <1>5, <1>6

LEMMA MovesKeepCache ==
    ASSUME CacheInv, Moves, Excused
    PROVE  CacheInv'
  BY MovesKeepHeld, MovesKeepCoherence DEF CacheInv

-----------------------------------------------------------------------------
(* KYC statuses.                                                           *)

WritesOf(u) == {i \in DOMAIN writes : writes[i].uid = u}
Last(S) == CHOOSE i \in S : \A j \in S : j <= i

IsLast(S, i) == i \in S /\ \A j \in S : j <= i

\* The users with a write have a last one.
HaveLast == \A u \in DOMAIN users : WritesOf(u) = {} \/ \E i : IsLast(WritesOf(u), i)

LastStatus(u) ==
    IF WritesOf(u) = {} THEN "PENDING" ELSE writes[Last(WritesOf(u))].status

KycInv == HaveLast /\ \A u \in DOMAIN users : users[u].kyc = LastStatus(u)

LEMMA KycInvMeans == KycInv => KycIsLastWrite
  BY DEF KycInv, LastStatus, KycIsLastWrite, WritesOf, Last

\* There is one last write.
LEMMA LastIs ==
    ASSUME NEW S, S \subseteq Nat, NEW i, IsLast(S, i)
    PROVE  Last(S) = i
  <1>1. Last(S) \in S /\ \A j \in S : j <= Last(S)
    BY DEF IsLast, Last
  <1>2. i \in Nat /\ Last(S) \in Nat /\ i <= Last(S) /\ Last(S) <= i
    BY <1>1 DEF IsLast
  <1>. QED BY <1>2

\* Nothing about KYC is written.
KycStays ==
    /\ writes' = writes
    /\ DOMAIN users' = DOMAIN users
    /\ \A u \in DOMAIN users : users'[u].kyc = users[u].kyc

\* One write: every row of its user has its status, no other row moves.
KycWritten ==
    \E e : /\ writes' = Append(writes, e)
           /\ DOMAIN users' = DOMAIN users
           /\ \A u \in DOMAIN users :
                users'[u].kyc = IF u = e.uid THEN e.status ELSE users[u].kyc

LEMMA StaysLast ==
    ASSUME KycInv, KycStays
    PROVE  KycInv'
  <1>1. \A u : WritesOf(u)' = WritesOf(u)
    BY DEF WritesOf, KycStays
  <1>2. \A u : LastStatus(u)' = LastStatus(u)
    BY <1>1 DEF LastStatus, KycStays
  <1>. QED
    BY <1>1, <1>2 DEF KycInv, HaveLast, KycStays

LEMMA WrittenLast ==
    ASSUME KycInv, KycWritten, NEW S, writes \in Seq(S)
    PROVE  KycInv' /\ \E T : writes' \in Seq(T)
  <1>1. PICK e : /\ writes' = Append(writes, e)
                 /\ DOMAIN users' = DOMAIN users
                 /\ \A u \in DOMAIN users :
                      users'[u].kyc = IF u = e.uid THEN e.status ELSE users[u].kyc
    BY DEF KycWritten
  <1>. DEFINE n == Len(writes)
  <1>2. /\ writes' \in Seq(S \cup {e})
        /\ n \in Nat
        /\ DOMAIN writes = 1..n /\ DOMAIN writes' = 1..(n + 1)
        /\ writes'[n + 1] = e
        /\ \A i \in 1..n : writes'[i] = writes[i]
    BY <1>1, OneMore
  <1>. HIDE DEF n
  <1>3. ASSUME NEW u \in DOMAIN users', u # e.uid
        PROVE  /\ users'[u].kyc = LastStatus(u)'
               /\ WritesOf(u)' = {} \/ \E i : IsLast(WritesOf(u)', i)
    <2>1. WritesOf(u)' = WritesOf(u) /\ WritesOf(u) \subseteq 1..n
      BY <1>2, <1>3 DEF WritesOf
    <2>2. /\ users[u].kyc = LastStatus(u)
          /\ WritesOf(u) = {} \/ \E i : IsLast(WritesOf(u), i)
      BY <1>1 DEF KycInv, HaveLast
    <2>3. CASE WritesOf(u) = {}
      BY <1>1, <1>3, <2>1, <2>2, <2>3 DEF LastStatus
    <2>4. ASSUME NEW i, IsLast(WritesOf(u), i)
          PROVE  users'[u].kyc = LastStatus(u)'
      <3>1. Last(WritesOf(u)) = i /\ i \in 1..n /\ i \in WritesOf(u)
        BY <1>2, <2>1, <2>4, LastIs DEF IsLast
      <3>2. writes'[i] = writes[i]
        BY <1>2, <3>1
      <3>3. LastStatus(u)' = writes[i].status /\ LastStatus(u) = writes[i].status
        BY <2>1, <3>1, <3>2 DEF LastStatus
      <3>. QED
        BY <1>1, <1>3, <2>2, <3>3
    <2>. QED BY <2>1, <2>2, <2>3, <2>4
  <1>4. ASSUME NEW u \in DOMAIN users', u = e.uid
        PROVE  /\ users'[u].kyc = LastStatus(u)'
               /\ IsLast(WritesOf(u)', n + 1)
    <2>1. n + 1 \in WritesOf(u)' /\ WritesOf(u)' \subseteq 1..(n + 1)
      BY <1>2, <1>4 DEF WritesOf
    <2>2. IsLast(WritesOf(u)', n + 1)
      BY <1>2, <2>1 DEF IsLast
    <2>3. Last(WritesOf(u)') = n + 1
      BY <1>2, <2>1, <2>2, LastIs
    <2>4. LastStatus(u)' = e.status
      BY <1>2, <2>1, <2>3 DEF LastStatus
    <2>. QED BY <1>1, <1>4, <2>2, <2>4
  <1>. QED
    BY <1>2, <1>3, <1>4 DEF KycInv, HaveLast

-----------------------------------------------------------------------------
(* The steps of UserProfile.                                               *)

IInv == Shaped /\ CacheInv /\ KycInv

\* What is to be shown of a step that is not a KYC write.
StepOK == Shaped' /\ Moves /\ KycStays

\* A reader moves; the rows and the other calls stay.
LEMMA ReaderMoves ==
    ASSUME IInv, NEW r \in Readers, NEW to, IsReader(to), P!ReaderGoes(r, to),
           UNCHANGED <<users, mappings, cb, writes>>,
           faults' \in Nat,
           \/ profileCache' \subseteq profileCache
           \/ CacheFilledBy(r),
           to.pc \in {"mapping", "fill"} =>
             \/ /\ Holds(r) /\ to.uid = rd[r].uid /\ to.row = rd[r].row
                /\ to.pc = "fill" => \E m \in mappings : m.uid = to.uid /\ m.email = to.email
             \/ /\ to.pc = "mapping" /\ to.uid \in DOMAIN users /\ to.row = users[to.uid]
    PROVE  StepOK
  <1>1. rd' = [rd EXCEPT ![r] = to] /\ up' = up
    BY DEF P!ReaderGoes
  <1>2. \A q \in Readers : rd'[q] = IF q = r THEN to ELSE rd[q]
    BY <1>1 DEF IInv, Shaped, ReadersShaped
  <1>3. rd' = [q \in Readers |-> rd'[q]]
    BY <1>1 DEF IInv, Shaped, ReadersShaped
  <1>4. Shaped'
    BY <1>1, <1>2, <1>3
    DEF IInv, Shaped, UsersShaped, ReadersShaped, UpdatersShaped, CallbacksShaped
  <1>5. RowsMove
    BY DEF RowsMove
  <1>6. CacheMoves
    BY DEF CacheMoves
  <1>7. ASSUME NEW q \in Readers, Holds(q)' PROVE StillHolds(q) \/ ReadNow(q)
    BY <1>2, <1>7 DEF Holds, StillHolds, ReadNow
  <1>. QED
    BY <1>4, <1>5, <1>6, <1>7 DEF StepOK, Moves, KycStays

LEMMA ReaderSteps ==
    ASSUME IInv, NEW r \in Readers,
           \/ P!ReaderStep(r)
           \/ P!ReadFails(r)
           \/ \E u \in QueriedIds : P!StartRead(r, u),
           UNCHANGED kycVars
    PROVE  StepOK
  <1>1. UNCHANGED <<cb, writes>>
    BY DEF kycVars
  <1>2. faults \in Nat
    BY DEF IInv, Shaped
  <1>3. IsReader(P!IdleReader) /\ P!IdleReader.pc = "idle"
    BY Shapes DEF P!IdleReader, P!Reading
  <1>4. ASSUME NEW u \in QueriedIds, P!StartRead(r, u) PROVE StepOK
    <2>. DEFINE to == P!Reading("cache", u, None, None)
    <2>1. IsReader(to) /\ to.pc = "cache"
      BY Shapes DEF P!Reading
    <2>. QED
      BY <1>1, <1>2, <1>4, <2>1, ReaderMoves DEF P!StartRead, P!storeVars, storeVars
  <1>5. CASE P!ProfileHit(r)
    BY <1>1, <1>2, <1>3, <1>5, ReaderMoves DEF P!ProfileHit, P!storeVars
  <1>6. CASE P!ProfileMiss(r)
    <2>. DEFINE to == P!Reading("user", rd[r].uid, None, None)
    <2>1. IsReader(to) /\ to.pc = "user"
      BY Shapes DEF P!Reading
    <2>. QED
      BY <1>1, <1>2, <1>6, <2>1, ReaderMoves DEF P!ProfileMiss, P!storeVars
  <1>7. CASE P!ReadUser(r)
    <2>. DEFINE to == P!Reading("mapping", rd[r].uid, users[rd[r].uid], None)
    <2>1. /\ IsReader(to) /\ to.pc = "mapping"
          /\ to.uid = rd[r].uid /\ to.row = users[rd[r].uid]
      BY Shapes DEF P!Reading
    <2>2. UNCHANGED <<users, mappings, profileCache, faults>>
      BY <1>7 DEF P!ReadUser, P!storeVars
    <2>3. CASE rd[r].uid \in DOMAIN users
      BY <1>1, <1>2, <1>7, <2>1, <2>2, <2>3, ReaderMoves DEF P!ReadUser
    <2>4. CASE rd[r].uid \notin DOMAIN users
      BY <1>1, <1>2, <1>3, <1>7, <2>2, <2>4, ReaderMoves DEF P!ReadUser
    <2>. QED BY <2>3, <2>4
  <1>8. CASE P!ReadMapping(r)
    <2>1. UNCHANGED <<users, mappings, profileCache, faults>> /\ Holds(r)
      BY <1>8 DEF P!ReadMapping, P!storeVars, Holds
    <2>2. ASSUME NEW m \in mappings, m.uid = rd[r].uid,
                 P!ReaderGoes(r, P!Reading("fill", rd[r].uid, rd[r].row, m.email))
          PROVE  StepOK
      <3>. DEFINE to == P!Reading("fill", rd[r].uid, rd[r].row, m.email)
      <3>1. /\ IsReader(to) /\ to.pc = "fill"
            /\ to.uid = rd[r].uid /\ to.row = rd[r].row /\ to.email = m.email
        BY Shapes DEF P!Reading
      <3>2. P!ReaderGoes(r, to)
        BY <2>2
      <3>. HIDE DEF to
      <3>. QED
        BY <1>1, <1>2, <2>1, <2>2, <3>1, <3>2, ReaderMoves
    <2>3. CASE P!ReaderGoes(r, P!IdleReader)
      BY <1>1, <1>2, <1>3, <2>1, <2>3, ReaderMoves
    <2>. QED
      BY <1>8, <2>2, <2>3 DEF P!ReadMapping
  <1>9. CASE P!FillProfile(r)
    <2>1. UNCHANGED <<users, mappings, faults>>
      BY <1>9 DEF P!FillProfile, P!dbVars
    <2>2. CacheFilledBy(r)
      BY <1>9 DEF P!FillProfile, P!SetUserProfileCache, P!ProfileCacheWithout, CacheFilledBy
    <2>. QED
      BY <1>1, <1>2, <1>3, <1>9, <2>1, <2>2, ReaderMoves DEF P!FillProfile
  <1>10. CASE P!ReadFails(r)
    BY <1>1, <1>2, <1>3, <1>10, ReaderMoves, FaultCounts DEF P!ReadFails, P!dbVars
  <1>. QED
    BY <1>4, <1>5, <1>6, <1>7, <1>8, <1>9, <1>10 DEF P!ReaderStep

\* An updater moves; if it wrote its row it has now to delete the cached profile.
LEMMA UpdaterMoves ==
    ASSUME IInv, NEW w \in Updaters, NEW to, IsUpdater(to), P!UpdaterGoes(w, to),
           UNCHANGED <<mappings, cb, writes>>,
           faults' \in Nat, profileCache' \subseteq profileCache,
           UsersShaped', DOMAIN users' = DOMAIN users,
           \A u \in DOMAIN users :
             /\ users'[u].kyc = users[u].kyc
             /\ users'[u] # users[u] =>
                  \/ to.pc = "invalidate" /\ to.uid = u
                  \/ faults' # faults
    PROVE  StepOK
  <1>1. up' = [up EXCEPT ![w] = to] /\ rd' = rd
    BY DEF P!UpdaterGoes
  <1>2. /\ \A v \in Updaters : up'[v] = IF v = w THEN to ELSE up[v]
        /\ up' = [v \in Updaters |-> up'[v]]
    BY <1>1 DEF IInv, Shaped, UpdatersShaped
  <1>3. Shaped'
    BY <1>1, <1>2 DEF IInv, Shaped, ReadersShaped, UpdatersShaped, CallbacksShaped
  <1>4. \A r \in Readers : Holds(r)' => StillHolds(r)
    BY <1>1 DEF Holds, StillHolds
  <1>5. ASSUME NEW u \in DOMAIN users, to.pc = "invalidate", to.uid = u
        PROVE  Deleting(u)' # {}
    BY <1>2, <1>5 DEF Deleting
  <1>6. RowsMove
    BY <1>4, <1>5 DEF RowsMove
  <1>. QED
    BY <1>3, <1>4, <1>6 DEF StepOK, Moves, CacheMoves, KycStays

LEMMA UpdaterWrites ==
    ASSUME IInv, NEW w \in Updaters, P!WriteColumns(w)
    PROVE  /\ UsersShaped' /\ DOMAIN users' = DOMAIN users
           /\ \A u \in DOMAIN users :
                /\ users'[u].kyc = users[u].kyc
                /\ users'[u] # users[u] => u = up[w].uid
  <1>. DEFINE c == up[w].change
              row(u) == [name   |-> IF c.name = None THEN users[u].name ELSE c.name,
                         market |-> IF c.market = None THEN users[u].market ELSE c.market,
                         kyc    |-> users[u].kyc]
  <1>1. users' = [users EXCEPT ![up[w].uid] = row(up[w].uid)]
    BY DEF P!WriteColumns
  <1>2. \A u : IsRow(row(u)) /\ row(u).kyc = users[u].kyc
    BY DEF IsRow
  <1>. HIDE DEF row
  <1>3. /\ DOMAIN users' = DOMAIN users
        /\ users' = [u \in DOMAIN users |-> users'[u]]
        /\ \A u \in DOMAIN users :
             users'[u] = IF u = up[w].uid THEN row(u) ELSE users[u]
    BY <1>1 DEF IInv, Shaped, UsersShaped
  <1>4. \A u \in DOMAIN users : IsRow(users[u])
    BY DEF IInv, Shaped, UsersShaped
  <1>5. \A u \in DOMAIN users : IsRow(users'[u])
    BY <1>2, <1>3, <1>4
  <1>. QED
    BY <1>2, <1>3, <1>5 DEF UsersShaped

LEMMA UpdaterSteps ==
    ASSUME IInv, NEW w \in Updaters,
           \/ P!UpdaterStep(w)
           \/ P!UpdateFails(w)
           \/ P!WriteReplyLost(w)
           \/ \E u \in QueriedIds, q \in Updates : P!StartUpdate(w, u, q),
           UNCHANGED kycVars
    PROVE  StepOK
  <1>1. UNCHANGED <<cb, writes>>
    BY DEF kycVars
  <1>2. faults \in Nat /\ IsUpdater(up[w])
    BY DEF IInv, Shaped, UpdatersShaped
  <1>3. IsUpdater(P!IdleUpdater)
    BY Shapes DEF P!IdleUpdater
  <1>4. ASSUME users' = users PROVE UsersShaped' /\ DOMAIN users' = DOMAIN users
    BY <1>4 DEF IInv, Shaped, UsersShaped
  <1>5. ASSUME NEW u \in QueriedIds, NEW q \in Updates, P!StartUpdate(w, u, q)
        PROVE  StepOK
    <2>1. IsUpdater(P!Updating("read", u, q, None, None))
      BY Shapes
    <2>2. UNCHANGED <<users, mappings, profileCache, faults>>
      BY <1>5 DEF P!StartUpdate, P!storeVars
    <2>. QED
      BY <1>1, <1>2, <1>4, <1>5, <2>1, <2>2, UpdaterMoves DEF P!StartUpdate
  <1>6. CASE P!ReadForUpdate(w)
    <2>1. \A row : IsUpdater(P!Decided(w, row))
      BY <1>3, Shapes DEF P!Decided
    <2>2. UNCHANGED <<users, mappings, profileCache, faults>>
      BY <1>6 DEF P!ReadForUpdate, P!storeVars
    <2>3. PICK to : IsUpdater(to) /\ P!UpdaterGoes(w, to)
      BY <1>3, <1>6, <2>1 DEF P!ReadForUpdate
    <2>. QED
      BY <1>1, <1>2, <1>4, <2>2, <2>3, UpdaterMoves
  <1>7. CASE P!WriteProfile(w)
    <2>. DEFINE to == [up[w] EXCEPT !.pc = "invalidate"]
    <2>1. to = P!Updating("invalidate", up[w].uid, up[w].req, up[w].seen, up[w].change)
      BY <1>2, UpdaterAt
    <2>2. IsUpdater(to) /\ to.pc = "invalidate" /\ to.uid = up[w].uid
      BY <2>1, Shapes DEF P!Updating
    <2>3. /\ P!WriteColumns(w) /\ P!UpdaterGoes(w, to)
          /\ UNCHANGED <<mappings, profileCache, faults>>
      BY <1>7 DEF P!WriteProfile
    <2>. HIDE DEF to
    <2>. QED
      BY <1>1, <1>2, <2>2, <2>3, UpdaterWrites, UpdaterMoves
  <1>8. CASE P!InvalidateUpdated(w)
    <2>1. UNCHANGED <<users, mappings, faults>> /\ profileCache' \subseteq profileCache
      BY <1>8
      DEF P!InvalidateUpdated, P!InvalidateUserProfileCache, P!ProfileCacheWithout, P!dbVars
    <2>. QED
      BY <1>1, <1>2, <1>3, <1>4, <1>8, <2>1, UpdaterMoves DEF P!InvalidateUpdated
  <1>9. CASE P!UpdateFails(w)
    <2>1. UNCHANGED <<users, mappings, profileCache>> /\ faults' \in Nat
      BY <1>2, <1>9, FaultCounts DEF P!UpdateFails, P!dbVars
    <2>. QED
      BY <1>1, <1>3, <1>4, <1>9, <2>1, UpdaterMoves DEF P!UpdateFails
  <1>10. CASE P!WriteReplyLost(w)
    <2>1. /\ P!WriteColumns(w) /\ P!UpdaterGoes(w, P!IdleUpdater)
          /\ UNCHANGED <<mappings, profileCache>>
          /\ faults' \in Nat /\ faults' # faults
      BY <1>2, <1>10, FaultCounts DEF P!WriteReplyLost
    <2>. QED
      BY <1>1, <1>3, <2>1, UpdaterWrites, UpdaterMoves
  <1>. QED
    BY <1>5, <1>6, <1>7, <1>8, <1>9, <1>10 DEF P!UpdaterStep

-----------------------------------------------------------------------------
(* The steps of KycFlow.                                                   *)

\* A callback moves, or none does, and the row of no user changes.
LEMMA CallbackMoves ==
    ASSUME IInv, UNCHANGED <<users, mappings, rd, up, writes>>,
           CallbacksShaped', faults' \in Nat, profileCache' \subseteq profileCache
    PROVE  StepOK
  <1>1. Shaped'
    BY DEF IInv, Shaped, UsersShaped, ReadersShaped, UpdatersShaped
  <1>2. RowsMove
    BY DEF RowsMove
  <1>3. \A r \in Readers : Holds(r)' => StillHolds(r)
    BY DEF Holds, StillHolds
  <1>. QED
    BY <1>1, <1>2, <1>3 DEF StepOK, Moves, CacheMoves, KycStays

LEMMA CallbackBecomes ==
    ASSUME IInv, NEW h \in Callbacks, NEW to, IsCallback(to), K!Becomes(h, to)
    PROVE  CallbacksShaped' /\ cb'[h] = to
  BY DEF IInv, Shaped, CallbacksShaped, K!Becomes

\* A callback writes the status of its user, and has now to delete the cached
\* profile unless the write was reported as an error.
LEMMA CallbackWrites ==
    ASSUME IInv, NEW h \in Callbacks, NEW to, IsCallback(to), K!Becomes(h, to),
           K!WriteStatus(h), UNCHANGED <<mappings, rd, up, profileCache>>,
           faults' \in Nat,
           \/ to.pc = "invalidate" /\ to.uid = cb[h].uid
           \/ faults' # faults
    PROVE  Shaped' /\ Moves /\ KycInv'
  <1>. DEFINE row(u) == [users[u] EXCEPT !.kyc = cb[h].status]
  <1>1. \A u \in DOMAIN users :
          IsRow(row(u)) /\ row(u).kyc = cb[h].status
    <2>. TAKE u \in DOMAIN users
    <2>1. users[u] = [name |-> users[u].name, market |-> users[u].market,
                      kyc |-> users[u].kyc]
      BY DEF IInv, Shaped, UsersShaped, IsRow
    <2>2. row(u) = [name |-> users[u].name, market |-> users[u].market,
                    kyc |-> cb[h].status]
      BY <2>1
    <2>. QED BY <2>2 DEF IsRow
  <1>2. users' = [u \in DOMAIN users |-> IF u = cb[h].uid THEN row(u) ELSE users[u]]
    BY DEF K!WriteStatus
  <1>. HIDE DEF row
  <1>3. /\ DOMAIN users' = DOMAIN users
        /\ users' = [u \in DOMAIN users' |-> users'[u]]
        /\ \A u \in DOMAIN users :
             users'[u] = IF u = cb[h].uid THEN row(u) ELSE users[u]
    BY <1>2
  <1>4. UsersShaped'
    BY <1>1, <1>3 DEF UsersShaped, IInv, Shaped
  <1>. DEFINE e == [state |-> cb[h].state, uid |-> cb[h].uid,
                    status |-> cb[h].status, email |-> cb[h].email]
  <1>5. writes' = Append(writes, e) /\ e.uid = cb[h].uid /\ e.status = cb[h].status
    BY DEF K!WriteStatus
  <1>. HIDE DEF e
  <1>6. KycWritten
    BY <1>1, <1>3, <1>5 DEF KycWritten
  <1>7. KycInv' /\ \E T : writes' \in Seq(T)
    <2>1. PICK S : writes \in Seq(S)
      BY DEF IInv, Shaped
    <2>. QED BY <1>6, <2>1, WrittenLast DEF IInv
  <1>8. CallbacksShaped' /\ cb'[h] = to
    BY CallbackBecomes
  <1>9. Shaped'
    BY <1>4, <1>7, <1>8 DEF IInv, Shaped, ReadersShaped, UpdatersShaped
  <1>10. ASSUME NEW u \in DOMAIN users, users'[u] # users[u]
         PROVE  Deleting(u)' # {} \/ faults' # faults
    <2>1. u = cb[h].uid
      BY <1>3, <1>10
    <2>. QED BY <1>8, <2>1 DEF Deleting
  <1>11. \A r \in Readers : Holds(r)' => StillHolds(r)
    BY DEF Holds, StillHolds
  <1>. QED
    BY <1>3, <1>7, <1>9, <1>10, <1>11 DEF Moves, RowsMove, CacheMoves

LEMMA CallbackSteps ==
    ASSUME IInv, NEW h \in Callbacks, K!CallbackStep(h) \/ K!CallbackFailure(h),
           UNCHANGED profileVars
    PROVE  Shaped' /\ Moves /\ KycInv'
  <1>1. UNCHANGED <<rd, up>>
    BY DEF profileVars
  <1>2. faults \in Nat /\ IsCallback(cb[h])
    BY DEF IInv, Shaped, CallbacksShaped
  <1>3. IsCallback(K!IdleCallback)
    BY Shapes DEF K!IdleCallback
  <1>4. ASSUME NEW pc
        PROVE  /\ IsCallback([cb[h] EXCEPT !.pc = pc])
               /\ [cb[h] EXCEPT !.pc = pc].pc = pc
               /\ [cb[h] EXCEPT !.pc = pc].uid = cb[h].uid
    <2>1. [cb[h] EXCEPT !.pc = pc]
            = K!Serving(pc, cb[h].state, cb[h].uid, cb[h].email, cb[h].status)
      BY <1>2, CallbackAt
    <2>. QED BY <2>1, Shapes DEF K!Serving
  <1>5. ASSUME StepOK PROVE Shaped' /\ Moves /\ KycInv'
    BY <1>5, StaysLast DEF StepOK, IInv
  <1>6. CASE K!GetAccessToken(h)
    <2>1. UNCHANGED <<users, mappings, profileCache, faults, writes>>
      BY <1>6 DEF K!GetAccessToken, K!storeVars, K!historyVars, K!writeVars
    <2>2. CallbacksShaped'
      BY <1>4, <1>6, CallbackBecomes DEF K!GetAccessToken
    <2>. QED BY <1>1, <1>2, <1>5, <2>1, <2>2, CallbackMoves
  <1>7. CASE K!GetUserInfo(h)
    <2>1. UNCHANGED <<users, mappings, profileCache, faults, writes>>
      BY <1>7 DEF K!GetUserInfo, K!storeVars, K!historyVars, K!writeVars
    <2>2. PICK to : IsCallback(to) /\ K!Becomes(h, to)
      BY <1>3, <1>7, Shapes DEF K!GetUserInfo
    <2>3. CallbacksShaped'
      BY <2>2, CallbackBecomes
    <2>. QED BY <1>1, <1>2, <1>5, <2>1, <2>3, CallbackMoves
  <1>8. CASE K!UpdateKYCStatus(h)
    <2>1. /\ K!WriteStatus(h) /\ K!Becomes(h, [cb[h] EXCEPT !.pc = "invalidate"])
          /\ UNCHANGED <<mappings, profileCache, faults>>
      BY <1>8 DEF K!UpdateKYCStatus
    <2>2. PICK to : /\ IsCallback(to) /\ K!Becomes(h, to)
                    /\ to.pc = "invalidate" /\ to.uid = cb[h].uid
      BY <1>4, <2>1
    <2>. QED BY <1>1, <1>2, <2>1, <2>2, CallbackWrites
  <1>9. CASE K!InvalidateCached(h)
    <2>1. UNCHANGED <<users, mappings, faults, writes>> /\ profileCache' \subseteq profileCache
      BY <1>9
      DEF K!InvalidateCached, K!InvalidateUserProfileCache, K!ProfileCacheWithout, K!dbVars,
          K!historyVars, K!writeVars
    <2>2. CallbacksShaped'
      BY <1>4, <1>9, CallbackBecomes DEF K!InvalidateCached
    <2>. QED BY <1>1, <1>2, <1>5, <2>1, <2>2, CallbackMoves
  <1>10. CASE K!PublishUserKYCComplete(h) \/ K!PublishFails(h)
    <2>1. UNCHANGED <<users, mappings, profileCache, writes>> /\ faults' \in Nat
      BY <1>2, <1>10, FaultCounts
      DEF K!PublishUserKYCComplete, K!PublishFails, K!dbVars, K!historyVars, K!writeVars
    <2>2. CallbacksShaped'
      BY <1>3, <1>10, CallbackBecomes DEF K!PublishUserKYCComplete, K!PublishFails
    <2>. QED BY <1>1, <1>5, <2>1, <2>2, CallbackMoves
  <1>11. CASE K!SingpassFails(h) \/ K!UpdateFails(h)
    <2>1. UNCHANGED <<users, mappings, profileCache, writes>> /\ faults' \in Nat
      BY <1>2, <1>11, FaultCounts
      DEF K!SingpassFails, K!UpdateFails, K!storeVars, K!dbVars, K!historyVars,
          K!writeVars
    <2>2. CallbacksShaped'
      BY <1>3, <1>11, CallbackBecomes DEF K!SingpassFails, K!UpdateFails
    <2>. QED BY <1>1, <1>5, <2>1, <2>2, CallbackMoves
  <1>12. CASE K!UpdateReplyLost(h)
    <2>1. /\ K!WriteStatus(h) /\ K!Becomes(h, K!IdleCallback)
          /\ UNCHANGED <<mappings, profileCache>>
          /\ faults' \in Nat /\ faults' # faults
      BY <1>2, <1>12, FaultCounts DEF K!UpdateReplyLost
    <2>. QED BY <1>1, <1>3, <2>1, CallbackWrites
  <1>. QED
    BY <1>6, <1>7, <1>8, <1>9, <1>10, <1>11, <1>12 DEF K!CallbackStep, K!CallbackFailure

LEMMA KycSteps ==
    ASSUME IInv, K!Step, UNCHANGED profileVars
    PROVE  Shaped' /\ Moves /\ KycInv'
  <1>1. UNCHANGED <<rd, up>> /\ faults \in Nat
    BY DEF profileVars, IInv, Shaped
  <1>2. ASSUME UNCHANGED <<users, mappings, profileCache, faults, writes>>, CallbacksShaped'
        PROVE  Shaped' /\ Moves /\ KycInv'
    BY <1>1, <1>2, CallbackMoves, StaysLast DEF StepOK, IInv
  <1>3. ASSUME UNCHANGED cb PROVE CallbacksShaped'
    BY <1>3 DEF IInv, Shaped, CallbacksShaped
  <1>4. ASSUME NEW s, NEW u, NEW t, NEW email, K!StartSingpassLogin(s, u, email, t)
        PROVE  Shaped' /\ Moves /\ KycInv'
    BY <1>2, <1>3, <1>4 DEF K!StartSingpassLogin, K!storeVars, K!writeVars
  <1>5. ASSUME NEW h \in Callbacks, NEW s, NEW t, K!CallbackAccepted(h, s, t)
        PROVE  Shaped' /\ Moves /\ KycInv'
    <2>1. UNCHANGED <<users, mappings, profileCache, faults, writes>>
      BY <1>5 DEF K!CallbackAccepted, K!storeVars, K!writeVars
    <2>2. PICK to : IsCallback(to) /\ K!Becomes(h, to)
      BY <1>5, Shapes DEF K!CallbackAccepted
    <2>3. CallbacksShaped'
      BY <2>2, CallbackBecomes
    <2>. QED BY <1>2, <2>1, <2>3
  <1>6. ASSUME NEW h \in Callbacks, NEW s, NEW t, K!CallbackRefused(h, s, t)
        PROVE  Shaped' /\ Moves /\ KycInv'
    BY <1>2, <1>3, <1>6 DEF K!CallbackRefused, K!storeVars, K!historyVars, K!writeVars
  <1>7. CASE K!TimePasses
    BY <1>2, <1>3, <1>7 DEF K!TimePasses, K!storeVars, K!historyVars, K!writeVars
  <1>. QED
    BY <1>4, <1>5, <1>6, <1>7, CallbackSteps DEF K!Step

-----------------------------------------------------------------------------
(* Every step.                                                             *)

LEMMA ProfileSteps ==
    ASSUME IInv, P!Step, UNCHANGED kycVars
    PROVE  Shaped' /\ Moves /\ KycInv'
  <1>1. ASSUME StepOK PROVE Shaped' /\ Moves /\ KycInv'
    BY <1>1, StaysLast DEF StepOK, IInv
  <1>2. CASE P!Expire
    <2>1. /\ UNCHANGED <<users, mappings, faults, rd, up>>
          /\ profileCache' \subseteq profileCache
      BY <1>2 DEF P!Expire, P!ExpireProfile, P!dbVars, P!profileVars
    <2>2. UNCHANGED <<cb, writes>>
      BY DEF kycVars
    <2>3. CallbacksShaped' /\ faults' \in Nat
      BY <2>1, <2>2 DEF IInv, Shaped, CallbacksShaped
    <2>. QED BY <1>1, <2>1, <2>2, <2>3, CallbackMoves
  <1>. QED
    BY <1>1, <1>2, ReaderSteps, UpdaterSteps DEF P!Step

LEMMA RestartSteps ==
    ASSUME IInv, Restart
    PROVE  Shaped' /\ Moves /\ KycInv'
  <1>1. UNCHANGED <<users, mappings, profileCache, writes>> /\ faults' \in Nat
    BY FaultCounts DEF IInv, Shaped, Restart, K!LoginsLost, dbVars
  <1>2. /\ rd' = [r \in Readers |-> P!IdleReader]
        /\ up' = [w \in Updaters |-> P!IdleUpdater]
        /\ cb' = [h \in Callbacks |-> K!IdleCallback]
    BY DEF Restart, P!CallsLost, K!LoginsLost
  <1>3. /\ IsReader(P!IdleReader) /\ P!IdleReader.pc = "idle"
        /\ IsUpdater(P!IdleUpdater) /\ IsCallback(K!IdleCallback)
    BY Shapes DEF P!IdleReader, P!Reading, P!IdleUpdater, K!IdleCallback
  <1>4. Shaped'
    BY <1>1, <1>2, <1>3
    DEF IInv, Shaped, UsersShaped, ReadersShaped, UpdatersShaped, CallbacksShaped
  <1>5. \A r \in Readers : ~Holds(r)'
    BY <1>2, <1>3 DEF Holds
  <1>6. Moves
    BY <1>1, <1>5 DEF Moves, RowsMove, CacheMoves
  <1>. QED
    BY <1>1, <1>4, <1>6, StaysLast DEF IInv, KycStays

LEMMA NextKeeps == IInv /\ [Next]_vars => IInv'
  <1>. SUFFICES ASSUME IInv, [Next]_vars PROVE IInv'
    OBVIOUS
  <1>1. CASE Next
    <2>1. Excused /\ Shaped' /\ Moves /\ KycInv'
      BY <1>1, ProfileSteps, KycSteps, RestartSteps DEF Next
    <2>. QED
      BY <2>1, MovesKeepCache DEF IInv
  <1>2. CASE UNCHANGED vars
    <2>1. UNCHANGED <<users, mappings, profileCache, faults, rd, up, cb, writes, excused>>
      BY <1>2 DEF vars, storeVars, dbVars, profileVars, kycVars
    <2>2. Shaped'
      BY <2>1
      DEF IInv, Shaped, UsersShaped, ReadersShaped, UpdatersShaped, CallbacksShaped
    <2>3. KycInv'
      BY <2>1, StaysLast DEF IInv, KycStays
    <2>4. CachedKnown' /\ HeldFresh'
      BY <2>1 DEF IInv, CacheInv, CachedKnown, HeldFresh, Holds
    <2>5. \A u \in QueriedIds : P!Coherent(u)' = P!Coherent(u) /\ Deleting(u)' = Deleting(u)
      BY <2>1 DEF P!Coherent, Deleting
    <2>6. StaleOnlyIfExcused'
      BY <2>1, <2>5 DEF IInv, CacheInv, StaleOnlyIfExcused
    <2>. QED
      BY <2>2, <2>3, <2>4, <2>6 DEF IInv, CacheInv
  <1>. QED BY <1>1, <1>2

LEMMA InitInv == Init => IInv
  <1>. SUFFICES ASSUME Init PROVE IInv
    OBVIOUS
  <1>1. /\ \E name \in Names :
             users = [u \in {a.uid : a \in Accounts} |-> P!NewUser(name)]
        /\ profileCache = {} /\ faults = 0
    BY DEF Init, P!Init, P!InitRegistered
  <1>2. /\ rd = [r \in Readers |-> P!IdleReader]
        /\ up = [w \in Updaters |-> P!IdleUpdater]
        /\ cb = [h \in Callbacks |-> K!IdleCallback]
        /\ writes = <<>>
    BY DEF Init, P!Init, K!Init
  <1>3. /\ IsReader(P!IdleReader) /\ P!IdleReader.pc = "idle"
        /\ IsUpdater(P!IdleUpdater) /\ IsCallback(K!IdleCallback)
    BY Shapes DEF P!IdleReader, P!Reading, P!IdleUpdater, K!IdleCallback
  <1>4. \A name : IsRow(P!NewUser(name)) /\ P!NewUser(name).kyc = "PENDING"
    BY DEF P!NewUser, IsRow
  <1>5. UsersShaped /\ \A u \in DOMAIN users : users[u].kyc = "PENDING"
    BY <1>1, <1>4 DEF UsersShaped
  <1>6. ReadersShaped /\ UpdatersShaped /\ CallbacksShaped
    BY <1>2, <1>3 DEF ReadersShaped, UpdatersShaped, CallbacksShaped
  <1>7. Shaped
    BY <1>1, <1>2, <1>5, <1>6 DEF Shaped
  <1>8. KycInv
    BY <1>2, <1>5 DEF KycInv, HaveLast, LastStatus, WritesOf
  <1>9. CacheInv
    BY <1>1, <1>2, <1>3
    DEF CacheInv, CachedKnown, HeldFresh, Holds, StaleOnlyIfExcused, P!Coherent
  <1>. QED BY <1>7, <1>8, <1>9 DEF IInv

\* UpdateProfile never undoes the KYC status that a Singpass callback wrote, nor
\* one callback that of a later one, whatever each had read before.
THEOREM KycAlwaysLastWrite == Spec => []KycIsLastWrite
  <1>1. IInv => KycIsLastWrite
    BY KycInvMeans DEF IInv
  <1>. QED BY <1>1, InitInv, NextKeeps, PTL DEF Spec

\* A cached profile is stale only while a writer is about to delete it or after
\* one of the three accidents the code admits, and until it expires.
THEOREM StaleAlwaysExcused == Spec => []StaleOnlyIfExcused
  <1>1. IInv => StaleOnlyIfExcused
    BY DEF IInv, CacheInv
  <1>. QED BY <1>1, InitInv, NextKeeps, PTL DEF Spec

-----------------------------------------------------------------------------
(* What each service promises by itself, it keeps next to the other.  The  *)
(* invariants are those of KycFlowProofs and UserProfileProofs; each takes *)
(* the steps of the other service as steps of the rest of its process.     *)

KP == INSTANCE KycFlowProofs
PP == INSTANCE UserProfileProofs

\* The assumptions of the two modules.
LEMMA Assumed ==
    /\ Accounts \subseteq KP!MappingRow /\ Accounts \subseteq PP!MappingRow
    /\ KP!IsFiniteSet(Accounts) /\ PP!IsFiniteSet(Accounts)
    /\ {a.uid : a \in Accounts} = 1..KP!Cardinality(Accounts)
    /\ {a.uid : a \in Accounts} = 1..PP!Cardinality(Accounts)
    /\ QueriedIds \subseteq PP!UserId /\ Updates \subseteq PP!UpdateRequest
    /\ Unsupported \notin Markets \cup {None}
    /\ CarriesEmail \in BOOLEAN
    /\ UserInfos \subseteq [name : Names \cup {None}, email : Emails \cup {None}]
    /\ Untagged \in [Emails -> Emails]
    /\ None \notin Clerks \cup Emails \cup Names \cup Markets
    /\ KafkaEnabled \in BOOLEAN
    /\ MaxFaults \in Nat /\ TTL \in Nat \ {0} /\ MaxTime \in Nat
  <1>1. KP!MappingRow = MappingRow /\ PP!MappingRow = MappingRow
    BY DEF MappingRow, UserId, KP!MappingRow, KP!UserId, PP!MappingRow, PP!UserId
  <1>2. KP!IsFiniteSet(Accounts) /\ PP!IsFiniteSet(Accounts)
    BY AccountsAssumption DEF IsFiniteSet, KP!IsFiniteSet, PP!IsFiniteSet
  <1>3. KP!Cardinality(Accounts) = Cardinality(Accounts)
    BY DEF Cardinality, KP!Cardinality
  <1>4. PP!Cardinality(Accounts) = Cardinality(Accounts)
    BY DEF Cardinality, PP!Cardinality
  <1>5. QueriedIds \subseteq PP!UserId /\ Updates \subseteq PP!UpdateRequest
    BY CallsAssumption DEF UserId, PP!UserId, P!UpdateRequest, PP!UpdateRequest
  <1>. QED
    BY <1>1, <1>2, <1>3, <1>4, <1>5, AccountsAssumption, CallsAssumption,
       SingpassAssumption, NoneAssumption, KafkaAssumption, MaxFaultsAssumption,
       TTLAssumption, MaxTimeAssumption

\* The services of the composition are those of the two modules.
LEMMA SameInit == (K!Init <=> KP!Init) /\ (P!Init <=> PP!Init)
  BY DEF K!Init, KP!Init, K!InitRegistered, KP!InitRegistered, K!NewUser, KP!NewUser,
         K!IdleCallback, KP!IdleCallback, K!Serving, KP!Serving, P!Init, PP!Init,
         P!InitRegistered, PP!InitRegistered, P!NewUser, PP!NewUser, P!IdleReader,
         PP!IdleReader, P!Reading, PP!Reading, P!IdleUpdater, PP!IdleUpdater,
         P!Updating, PP!Updating, KP!Cardinality, K!Cardinality, P!Cardinality,
         PP!Cardinality

LEMMA SameFlow == (K!Step <=> KP!Step) /\ (K!LoginsLost <=> KP!LoginsLost)
  BY DEF K!Step, KP!Step, K!StartSingpassLogin, KP!StartSingpassLogin,
         K!CallbackAccepted, KP!CallbackAccepted, K!CallbackRefused,
         KP!CallbackRefused, K!CallbackStep, KP!CallbackStep, K!CallbackFailure,
         KP!CallbackFailure, K!GetAccessToken, KP!GetAccessToken, K!GetUserInfo,
         KP!GetUserInfo, K!UpdateKYCStatus, KP!UpdateKYCStatus, K!InvalidateCached,
         KP!InvalidateCached, K!PublishUserKYCComplete, KP!PublishUserKYCComplete,
         K!SingpassFails, KP!SingpassFails, K!UpdateFails, KP!UpdateFails,
         K!UpdateReplyLost, KP!UpdateReplyLost, K!PublishFails, KP!PublishFails,
         K!TimePasses, KP!TimePasses, K!LoginEmails, KP!LoginEmails, K!Becomes,
         KP!Becomes, K!Serving, KP!Serving, K!IdleCallback, KP!IdleCallback,
         K!EmailMismatch, KP!EmailMismatch, K!EmailsMatchForKYC, KP!EmailsMatchForKYC,
         K!WriteStatus, KP!WriteStatus, K!EventOf, KP!EventOf, K!storeVars,
         KP!storeVars, K!dbVars, KP!dbVars, K!topicVars, KP!topicVars, K!historyVars,
         KP!historyVars, K!writeVars, KP!writeVars, K!Telling, KP!Telling, K!Save, KP!Save, K!PurgeExpired, KP!PurgeExpired,
         K!Expired, KP!Expired, K!LaterTimes, KP!LaterTimes, K!Lookup, KP!Lookup, K!Take,
         KP!Take, K!ConsumeOk, KP!ConsumeOk, K!ConsumeFails, KP!ConsumeFails, K!Tick,
         KP!Tick, K!InvalidateUserProfileCache, KP!InvalidateUserProfileCache,
         K!ProfileCacheWithout, KP!ProfileCacheWithout, K!Delivered, KP!Delivered,
         K!Fault, KP!Fault, K!LoginsLost, KP!LoginsLost

LEMMA SameCalls == (P!Step <=> PP!Step) /\ (P!CallsLost <=> PP!CallsLost)
  BY DEF P!Step, PP!Step, P!ReaderStep, PP!ReaderStep, P!ReadFails, PP!ReadFails,
         P!StartRead, PP!StartRead, P!UpdaterStep, PP!UpdaterStep, P!UpdateFails,
         PP!UpdateFails, P!WriteReplyLost, PP!WriteReplyLost, P!StartUpdate,
         PP!StartUpdate, P!Expire, PP!Expire, P!ProfileHit, PP!ProfileHit,
         P!ProfileMiss, PP!ProfileMiss, P!ReadUser, PP!ReadUser, P!ReadMapping,
         PP!ReadMapping, P!FillProfile, PP!FillProfile, P!ReadForUpdate,
         PP!ReadForUpdate, P!WriteProfile, PP!WriteProfile, P!InvalidateUpdated,
         PP!InvalidateUpdated, P!ReaderGoes, PP!ReaderGoes, P!UpdaterGoes,
         PP!UpdaterGoes, P!Reading, PP!Reading, P!Updating, PP!Updating, P!IdleReader,
         PP!IdleReader, P!IdleUpdater, PP!IdleUpdater, P!ProfileRead, PP!ProfileRead,
         P!Decided, PP!Decided, P!MarketRefused, PP!MarketRefused, P!ProfileChange,
         PP!ProfileChange, P!NothingToWrite, PP!NothingToWrite, P!WriteColumns,
         PP!WriteColumns, P!Overtakes, PP!Overtakes, P!SetUserProfileCache,
         PP!SetUserProfileCache, P!InvalidateUserProfileCache,
         PP!InvalidateUserProfileCache, P!ProfileCacheWithout, PP!ProfileCacheWithout,
         P!ExpireProfile, PP!ExpireProfile, P!Fault, PP!Fault, P!storeVars,
         PP!storeVars, P!dbVars, PP!dbVars, P!topicVars, PP!topicVars, P!profileVars,
         PP!profileVars, P!CallsLost, PP!CallsLost

LEMMA SameFault == (Fault <=> KP!Fault) /\ (Fault <=> PP!Fault)
  BY DEF Fault, KP!Fault, PP!Fault

LEMMA SameStore ==
    (KP!StoreTypeOK <=> PP!StoreTypeOK) /\ (KP!StoreTypeOK' <=> PP!StoreTypeOK')
  BY DEF KP!StoreTypeOK, PP!StoreTypeOK, KP!UserRow, PP!UserRow, KP!UserId, PP!UserId,
         KP!MappingRow, PP!MappingRow, KP!ProfileRow, PP!ProfileRow, KP!KycStatuses,
         PP!KycStatuses

FlowKept == KP!Typed /\ KP!FlowInv /\ KP!ToldInv
CallsKept == PP!IInv
Kept == FlowKept /\ CallsKept

LEMMA KeptInit == Init => Kept
  <1>. SUFFICES ASSUME Init PROVE Kept
    OBVIOUS
  <1>1. KP!Init /\ PP!Init
    BY SameInit DEF Init
  <1>2. KP!Typed /\ KP!FlowInv /\ KP!ToldInv
    BY <1>1, Assumed, KP!TypedInit, KP!FlowInit, KP!ToldInit
  <1>3. PP!IInv
    BY <1>1, Assumed, PP!InitInv
  <1>. QED BY <1>2, <1>3 DEF Kept, FlowKept, CallsKept

\* What a step shows of the logins and of the markets.
FlowShows == KP!InTime /\ [KP!AbstractLogin!Next]_(KP!AbstractLogin!loginVars)
CallsShow == UNCHANGED users \/ PP!KeepsMarkets

LEMMA FlowKeeps ==
    ASSUME Kept, K!Step, UNCHANGED profileVars
    PROVE  Kept' /\ FlowShows /\ CallsShow
  <1>1. KP!Step /\ [KP!Next]_(KP!vars)
    BY SameFlow DEF KP!Next
  <1>2. FlowKept'
    BY <1>1, Assumed, KP!TypedStep, KP!FlowStep, KP!ToldStep DEF Kept, FlowKept
  <1>3. FlowShows
    <2>1. KP!InTime \/ UNCHANGED KP!vars
      BY <1>1, Assumed, KP!InTimeStep DEF Kept, FlowKept
    <2>2. UNCHANGED KP!vars => KP!InTime
      BY DEF KP!vars, KP!kycVars, KP!historyVars, KP!InTime
    <2>3. [KP!AbstractLogin!Next]_(KP!AbstractLogin!loginVars)
      BY <1>1, Assumed, KP!LoginStep DEF Kept, FlowKept
    <2>. QED BY <2>1, <2>2, <2>3 DEF FlowShows
  <1>4. PP!MarketsStay
    BY <1>1, Assumed, KP!FlowWritesKyc DEF Kept, FlowKept, PP!MarketsStay
  <1>5. PP!StoreTypeOK'
    BY <1>2, SameStore DEF FlowKept, KP!Typed
  <1>6. PP!RestSteps
    BY <1>4, <1>5 DEF PP!RestSteps, profileVars, PP!profileVars
  <1>7. CallsKept' /\ CallsShow
    BY <1>6, Assumed, PP!RestKeeps DEF Kept, CallsKept, CallsShow
  <1>. QED BY <1>2, <1>3, <1>7 DEF Kept

LEMMA CallsKeep ==
    ASSUME Kept, P!Step, UNCHANGED kycVars
    PROVE  Kept' /\ FlowShows /\ CallsShow
  <1>1. PP!Step /\ [PP!Next]_(PP!vars)
    BY SameCalls DEF PP!Next
  <1>2. CallsKept' /\ CallsShow
    BY <1>1, Assumed, PP!StepKeeps DEF Kept, CallsKept, CallsShow
  <1>3. KP!StoreTypeOK'
    BY <1>2, SameStore DEF CallsKept, PP!IInv, PP!Typed
  <1>4. /\ (UNCHANGED faults \/ Fault) /\ UNCHANGED kycTopic
        /\ DOMAIN users' = DOMAIN users
        /\ \A u \in DOMAIN users : users'[u].kyc = users[u].kyc
    BY <1>1, Assumed, SameFault, PP!CallsLeave DEF Kept, CallsKept, PP!IInv
  <1>5. KP!RestSteps
    BY <1>3, <1>4, SameFault
    DEF KP!RestSteps, KP!kycVars, KP!historyVars, KP!writeVars, kycVars
  <1>6. FlowKept' /\ FlowShows
    BY <1>5, Assumed, KP!RestKeeps DEF Kept, FlowKept, FlowShows
  <1>. QED BY <1>2, <1>6 DEF Kept

LEMMA CrashKeeps ==
    ASSUME Kept, Restart
    PROVE  Kept' /\ FlowShows /\ CallsShow
  <1>1. KP!StoreTypeOK'
    <2>1. KP!StoreTypeOK
      BY DEF Kept, FlowKept, KP!Typed
    <2>2. faults' \in 0..MaxFaults
      BY <2>1, MaxFaultsAssumption DEF Restart, Fault, KP!StoreTypeOK
    <2>3. UNCHANGED <<users, mappings, nextId, mapCache, profileCache, registeredTopic>>
      BY DEF Restart, dbVars, topicVars
    <2>. QED BY <2>1, <2>2, <2>3 DEF KP!StoreTypeOK
  <1>2. KP!RestSteps
    BY <1>1, SameFlow, SameFault DEF Restart, KP!RestSteps, topicVars, dbVars
  <1>3. PP!RestSteps
    BY <1>1, SameCalls, SameStore DEF Restart, PP!RestSteps, PP!MarketsStay, dbVars
  <1>4. FlowKept' /\ FlowShows
    BY <1>2, Assumed, KP!RestKeeps DEF Kept, FlowKept, FlowShows
  <1>5. CallsKept' /\ CallsShow
    BY <1>3, Assumed, PP!RestKeeps DEF Kept, CallsKept, CallsShow
  <1>. QED BY <1>4, <1>5 DEF Kept

LEMMA StepsKeep ==
    ASSUME Kept, [Next]_vars
    PROVE  Kept' /\ FlowShows /\ CallsShow
  <1>1. CASE UNCHANGED vars
    <2>1. UNCHANGED KP!vars /\ UNCHANGED PP!vars
      BY <1>1 DEF vars, storeVars, profileVars, kycVars, KP!vars, KP!storeVars,
                  KP!kycVars, KP!historyVars, KP!writeVars, PP!vars, PP!storeVars,
                  PP!profileVars
    <2>2. FlowKept'
      BY <2>1, Assumed, KP!TypedStep, KP!FlowStep, KP!ToldStep DEF Kept, FlowKept
    <2>3. CallsKept' /\ CallsShow
      BY <2>1, Assumed, PP!StepKeeps DEF Kept, CallsKept, CallsShow
    <2>4. FlowShows
      BY <2>1, Assumed, KP!LoginStep
      DEF Kept, FlowKept, FlowShows, KP!InTime, KP!vars, KP!kycVars, KP!historyVars
    <2>. QED BY <2>2, <2>3, <2>4 DEF Kept
  <1>. QED
    BY <1>1, FlowKeeps, CallsKeep, CrashKeeps DEF Next

LEMMA AlwaysKept == Spec => []Kept
  <1>1. Kept /\ [Next]_vars => Kept'
    BY StepsKeep
  <1>. QED BY <1>1, KeptInit, PTL DEF Spec

\* A profile update, a read or a crash next to it never makes a login decide twice
\* or for another user, lets through an identity with another address than the one
\* carried, tells what was not written or another last status than that of the
\* table when nothing excuses it, or loses an event but by a fault.
THEOREM FlowKeepsItsWord ==
    Spec => [](/\ K!OneWritePerLogin /\ K!CarriedEmailChecked
               /\ K!EventsFollowWrites /\ K!OnlyFaultsLoseKycEvents)
  <1>1. Kept => /\ KP!OneWritePerLogin /\ KP!CarriedEmailChecked
                /\ KP!EventsFollowWrites /\ KP!OnlyFaultsLoseKycEvents
    <2>1. KP!FlowInv => KP!OneWritePerLogin /\ KP!CarriedEmailChecked
      BY Assumed, KP!FlowMeans
    <2>2. KP!Typed /\ KP!FlowInv /\ KP!ToldInv => KP!EventsFollowWrites
      BY Assumed, KP!EventsMean
    <2>3. KP!ToldInv => KP!OnlyFaultsLoseKycEvents
      BY Assumed, KP!LossSays DEF KP!ToldInv
    <2>. QED BY <2>1, <2>2, <2>3 DEF Kept, FlowKept
  <1>2. KP!OneWritePerLogin /\ KP!EventsFollowWrites
          => K!OneWritePerLogin /\ K!EventsFollowWrites
    BY DEF K!OneWritePerLogin, KP!OneWritePerLogin, K!EventsFollowWrites,
           KP!EventsFollowWrites, K!WriteOf, KP!WriteOf, K!LastOf, KP!LastOf,
           K!Crossed, KP!Crossed, K!Telling, KP!Telling
  <1>3. KP!CarriedEmailChecked => K!CarriedEmailChecked
    BY DEF K!CarriedEmailChecked, KP!CarriedEmailChecked, K!EmailsMatchForKYC,
           KP!EmailsMatchForKYC
  <1>4. KP!OnlyFaultsLoseKycEvents => K!OnlyFaultsLoseKycEvents
    BY DEF K!OnlyFaultsLoseKycEvents, KP!OnlyFaultsLoseKycEvents, K!Telling, KP!Telling
  <1>5. Kept => /\ K!OneWritePerLogin /\ K!CarriedEmailChecked
                /\ K!EventsFollowWrites /\ K!OnlyFaultsLoseKycEvents
    BY <1>1, <1>2, <1>3, <1>4
  <1>. QED BY <1>5, AlwaysKept, PTL

\* No callback is let in with an expired login, whatever runs next to it.
THEOREM ExpiredStillNeverUsed == Spec => K!ExpiredNeverUsed
  <1>1. Kept /\ [Next]_vars =>
          [used' # used =>
             \E a \in issued : a.state = used'[Len(used')] /\ now' <= a.expires]_(K!vars)
    BY StepsKeep DEF FlowShows, KP!InTime
  <1>. QED BY <1>1, AlwaysKept, PTL DEF Spec, K!ExpiredNeverUsed

\* The OAuth states are still one-time logins when other calls share the process.
THEOREM StillOneTimeLogin == Spec => K!ImplementsOneTimeLogin
  <1>1. Kept /\ [Next]_vars => [K!AbstractLogin!Next]_(K!AbstractLogin!loginVars)
    <2>1. [KP!AbstractLogin!Next]_(KP!AbstractLogin!loginVars)
            => [K!AbstractLogin!Next]_(K!AbstractLogin!loginVars)
      BY DEF K!AbstractLogin!Next, KP!AbstractLogin!Next, K!AbstractLogin!Use,
             KP!AbstractLogin!Use, K!AbstractLogin!MovesOn, KP!AbstractLogin!MovesOn,
             K!AbstractLogin!Moves, KP!AbstractLogin!Moves, K!StatusOf, KP!StatusOf,
             K!AbstractLogin!loginVars, KP!AbstractLogin!loginVars
    <2>. QED BY <2>1, StepsKeep DEF FlowShows
  <1>2. Init => K!AbstractLogin!Init
    BY DEF Init, K!Init, K!AbstractLogin!Init, K!StatusOf
  <1>. QED
    BY <1>1, <1>2, AlwaysKept, PTL
    DEF Spec, K!ImplementsOneTimeLogin, K!AbstractLogin!Spec

\* A KYC write between the read and the write of a profile update never makes it
\* replace or empty a market: only another profile update may.
THEOREM MarketsStillKept == Spec => P!MarketKept
  <1>1. Kept /\ [Next]_vars =>
          [\A u \in DOMAIN users :
             users[u].market \notin {None, users'[u].market} =>
                 /\ users'[u].market # None
                 /\ \E w \in overtaken : up[w].uid = u /\ up'[w] # up[w]]_users
    BY StepsKeep DEF CallsShow, PP!KeepsMarkets
  <1>. QED BY <1>1, AlwaysKept, PTL DEF Spec, P!MarketKept

=============================================================================
