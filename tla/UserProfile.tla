---------------------------- MODULE UserProfile ----------------------------
(***************************************************************************)
(* Reading and updating a profile:                                         *)
(* server/service/user_profile_service.go with the DAO calls it makes.     *)
(*                                                                         *)
(* A reader is one GetUserProfile call (gRPC), a cache-aside read of the   *)
(* user row and of its mapping.  An updater is one UpdateProfile call      *)
(* (HTTP): it reads the row, decides what to write, writes those columns,  *)
(* then deletes the cache entry.  Nothing locks the row in between.        *)
(*                                                                         *)
(* A language is validated and written exactly as a name is and is not     *)
(* cached; name stands for both.  GetProfile (HTTP) only reads the row.    *)
(***************************************************************************)
EXTENDS IdentityStore

CONSTANTS
    Readers,       \* GetUserProfile calls that may run at the same time
    Updaters,      \* UpdateProfile calls that may run at the same time
    Accounts,      \* the mappings of the users registered at the start
    QueriedIds,    \* the ids the calls ask for, known or not
    Unsupported,   \* a market code that is not in validMarkets
    Updates        \* the requests: name and market, None when left out

UpdateRequest ==
    [name : Names \cup {None}, market : Markets \cup {None, Unsupported}]

ASSUME AccountsAssumption ==
    /\ Accounts \subseteq MappingRow
    /\ IsFiniteSet(Accounts)
    /\ {a.uid : a \in Accounts} = 1..Cardinality(Accounts)
ASSUME QueriedAssumption == QueriedIds \subseteq UserId
ASSUME UpdatesAssumption == Updates \subseteq UpdateRequest
ASSUME UnsupportedAssumption == Unsupported \notin Markets \cup {None}

VARIABLES
    rd,     \* per reader: [pc, uid, row, email]
    up,     \* per updater: [pc, uid, req, seen, change]
    overtaken   \* history: the updaters whose row was written since they read it

profileVars == <<rd, up, overtaken>>
vars == <<storeVars, profileVars>>

ReaderPCs == {"idle", "cache", "user", "mapping", "fill"}
UpdaterPCs == {"idle", "read", "write", "invalidate"}

\* row is the user row read, email the address of its mapping.
Reading(pc, u, row, email) == [pc |-> pc, uid |-> u, row |-> row, email |-> email]
\* seen is the row read, change what buildProfileUpdate decided to write.
Updating(pc, u, q, seen, change) ==
    [pc |-> pc, uid |-> u, req |-> q, seen |-> seen, change |-> change]

IdleReader == Reading("idle", 0, None, None)
IdleUpdater == Updating("idle", 0, None, None, None)

Init ==
    /\ InitRegistered(Accounts)
    /\ rd = [r \in Readers |-> IdleReader]
    /\ up = [w \in Updaters |-> IdleUpdater]
    /\ overtaken = {}

ReaderGoes(r, to) == rd' = [rd EXCEPT ![r] = to] /\ UNCHANGED <<up, overtaken>>
UpdaterGoes(w, to) == up' = [up EXCEPT ![w] = to] /\ UNCHANGED rd

-----------------------------------------------------------------------------
(* GetUserProfile.                                                         *)

StartRead(r, u) ==
    /\ rd[r].pc = "idle"
    /\ ReaderGoes(r, Reading("cache", u, None, None))
    /\ UNCHANGED storeVars

ProfileHit(r) ==
    /\ rd[r].pc = "cache"
    /\ \E p \in profileCache : p.uid = rd[r].uid
    /\ ReaderGoes(r, IdleReader)
    /\ UNCHANGED storeVars

ProfileMiss(r) ==
    /\ rd[r].pc = "cache"
    /\ ReaderGoes(r, Reading("user", rd[r].uid, None, None))
    /\ UNCHANGED storeVars

\* GetByID; an unknown user ends the call with ErrUserNotFound.
ReadUser(r) ==
    /\ rd[r].pc = "user"
    /\ ReaderGoes(r,
         IF rd[r].uid \in DOMAIN users
         THEN Reading("mapping", rd[r].uid, users[rd[r].uid], None)
         ELSE IdleReader)
    /\ UNCHANGED storeVars

\* GetByInternalUserID; a user without a mapping would be ErrUserNotFound too.
ReadMapping(r) ==
    /\ rd[r].pc = "mapping"
    /\ LET found == {m \in mappings : m.uid = rd[r].uid}
       IN  IF found = {}
           THEN ReaderGoes(r, IdleReader)
           ELSE \E m \in found :
                  ReaderGoes(r, Reading("fill", rd[r].uid, rd[r].row, m.email))
    /\ UNCHANGED storeVars

ProfileRead(r) ==
    [uid |-> rd[r].uid, name |-> rd[r].row.name, market |-> rd[r].row.market,
     kyc |-> rd[r].row.kyc, email |-> rd[r].email]

FillProfile(r) ==
    /\ rd[r].pc = "fill"
    /\ SetUserProfileCache(ProfileRead(r))
    /\ ReaderGoes(r, IdleReader)
    /\ UNCHANGED <<dbVars, mapCache, topicVars, faults>>

-----------------------------------------------------------------------------
(* UpdateProfile.                                                          *)

StartUpdate(w, u, q) ==
    /\ up[w].pc = "idle"
    /\ UpdaterGoes(w, Updating("read", u, q, None, None))
    /\ UNCHANGED <<storeVars, overtaken>>

\* Mutant: the change is not checked against the list of markets.
MarketRefusedLax(seen, market) == market # None /\ seen # None /\ seen # market

\* applyMarketUpdate: unsupported is ErrInvalidMarket, another market than the
\* one that is set is ErrMarketAlreadySet, the same one is left out.
MarketRefused(seen, market) ==
    /\ market # None
    /\ \/ market \notin Markets
       \/ seen # None /\ seen # market

\* buildProfileUpdate: the columns to write, None for a column to leave alone.
ProfileChange(seen, q) ==
    [name |-> q.name, market |-> IF seen = None THEN q.market ELSE None]

NothingToWrite == [name |-> None, market |-> None]

\* GetByID, the checks and buildProfileUpdate, over the row the lookup returned.
Decided(w, row) ==
    LET q == up[w].req
    IN  IF \/ MarketRefused(row.market, q.market)
           \/ ProfileChange(row.market, q) = NothingToWrite
        THEN IdleUpdater
        ELSE Updating("write", up[w].uid, q, row, ProfileChange(row.market, q))

\* Mutant: the row is looked up through the cache.
ReadForUpdateCached(w) ==
    LET u == up[w].uid
        cached == {[name |-> p.name, market |-> p.market, kyc |-> p.kyc] :
                     p \in {x \in profileCache : x.uid = u}}
        found == IF cached # {} THEN cached ELSE {users[v] : v \in DOMAIN users \cap {u}}
    IN  /\ up[w].pc = "read"
        /\ \E row \in found : UpdaterGoes(w, Decided(w, row))
        /\ UNCHANGED <<storeVars, overtaken>>

ReadForUpdate(w) ==
    LET u == up[w].uid
    IN  /\ up[w].pc = "read"
        /\ UpdaterGoes(w, IF u \in DOMAIN users THEN Decided(w, users[u])
                                               ELSE IdleUpdater)
        /\ UNCHANGED <<storeVars, overtaken>>

\* Mutant: Save(user) writes every column, with what was read where the request
\* says nothing.
WriteWholeRow(w) ==
    LET c == up[w].change
        row == up[w].seen
    IN  users' = [users EXCEPT ![up[w].uid] =
                    [name   |-> IF c.name = None THEN row.name ELSE c.name,
                     market |-> IF c.market = None THEN row.market ELSE c.market,
                     kyc    |-> row.kyc]]

\* Updates(user) of gorm writes the non-zero fields only.
WriteColumns(w) ==
    LET c == up[w].change
    IN  users' = [users EXCEPT ![up[w].uid] =
                    [name   |-> IF c.name = None THEN @.name ELSE c.name,
                     market |-> IF c.market = None THEN @.market ELSE c.market,
                     kyc    |-> @.kyc]]

\* The other updaters about to write this row have now read an older one.
Overtakes(w) ==
    overtaken' = (overtaken \ {w}) \cup
                   {v \in Updaters \ {w} : up[v].pc = "write" /\ up[v].uid = up[w].uid}

WriteProfile(w) ==
    /\ up[w].pc = "write"
    /\ WriteColumns(w)
    /\ Overtakes(w)
    /\ UpdaterGoes(w, [up[w] EXCEPT !.pc = "invalidate"])
    /\ UNCHANGED <<mappings, nextId, mapCache, profileCache, topicVars, faults>>

InvalidateUpdated(w) ==
    /\ up[w].pc = "invalidate"
    /\ InvalidateUserProfileCache(up[w].uid)
    /\ UpdaterGoes(w, IdleUpdater)
    /\ UNCHANGED <<dbVars, mapCache, topicVars, faults, overtaken>>

-----------------------------------------------------------------------------
(* What goes wrong.                                                        *)

ReadFails(r) ==
    /\ rd[r].pc \in {"user", "mapping"}
    /\ Fault
    /\ ReaderGoes(r, IdleReader)
    /\ UNCHANGED <<dbVars, mapCache, profileCache, topicVars>>

UpdateFails(w) ==
    /\ up[w].pc \in {"read", "write"}
    /\ Fault
    /\ UpdaterGoes(w, IdleUpdater)
    /\ overtaken' = overtaken \ {w}
    /\ UNCHANGED <<dbVars, mapCache, profileCache, topicVars>>

\* The UPDATE is applied but reported as an error: UpdateProfile returns before
\* it invalidates the cache.
WriteReplyLost(w) ==
    /\ up[w].pc = "write"
    /\ WriteColumns(w)
    /\ Overtakes(w)
    /\ Fault
    /\ UpdaterGoes(w, IdleUpdater)
    /\ UNCHANGED <<mappings, nextId, mapCache, profileCache, topicVars>>

\* A crash of the process ends every call where it is.
CallsRunning == (\E r \in Readers : rd[r].pc # "idle") \/ (\E w \in Updaters : up[w].pc # "idle")

CallsLost ==
    /\ rd' = [r \in Readers |-> IdleReader]
    /\ up' = [w \in Updaters |-> IdleUpdater]
    /\ overtaken' = {}

Restart ==
    /\ CallsRunning
    /\ Fault
    /\ CallsLost
    /\ UNCHANGED <<dbVars, mapCache, profileCache, topicVars>>

-----------------------------------------------------------------------------

ReaderStep(r) ==
    \/ ProfileHit(r) \/ ProfileMiss(r) \/ ReadUser(r) \/ ReadMapping(r) \/ FillProfile(r)

UpdaterStep(w) == ReadForUpdate(w) \/ WriteProfile(w) \/ InvalidateUpdated(w)

Expire == \E p \in profileCache : ExpireProfile(p) /\ UNCHANGED profileVars

Step ==
    \/ \E r \in Readers : ReaderStep(r) \/ ReadFails(r)
    \/ \E r \in Readers, u \in QueriedIds : StartRead(r, u)
    \/ \E w \in Updaters : UpdaterStep(w) \/ UpdateFails(w) \/ WriteReplyLost(w)
    \/ \E w \in Updaters, u \in QueriedIds, q \in Updates : StartUpdate(w, u, q)
    \/ Expire

Next == Step \/ Restart

Spec == Init /\ [][Next]_vars

\* Fairness: a call that runs is scheduled until it ends, and an entry that has
\* outlived its hour expires.
ExpireUser(u) == \E p \in profileCache : /\ p.uid = u
                                         /\ ExpireProfile(p)
                                         /\ UNCHANGED profileVars

FairSpec ==
    /\ Spec
    /\ \A r \in Readers : WF_vars(ReaderStep(r))
    /\ \A w \in Updaters : WF_vars(UpdaterStep(w))
    /\ \A u \in QueriedIds : WF_vars(ExpireUser(u))

-----------------------------------------------------------------------------
(* Properties.                                                             *)

\* The shape of the state.
TypeOK ==
    /\ StoreTypeOK
    /\ rd \in [Readers -> [pc : ReaderPCs, uid : Nat, row : UserRow \cup {None},
                           email : Emails \cup {None}]]
    /\ up \in [Updaters ->
                 [pc : UpdaterPCs, uid : Nat, req : Updates \cup {None},
                  seen : UserRow \cup {None},
                  change : [name : Names \cup {None}, market : Markets \cup {None}]
                           \cup {None}]]
    /\ overtaken \subseteq Updaters

\* A market that is set is never emptied again, although an update may have read
\* the row before it was set: only the columns it changes are written.  It is
\* only ever replaced by an update that another one overtook between its read and
\* its write: an update nobody overtakes decides on the row as it is in the table.
MarketKept ==
    [][\A u \in DOMAIN users :
         users[u].market \notin {None, users'[u].market} =>
             /\ users'[u].market # None
             /\ \E w \in overtaken : up[w].uid = u /\ up'[w] # up[w]]_users

\* The comment of UpdateProfile: the market may only be initialised once, and a
\* different value is refused.
MarketSetOnce ==
    [][\A u \in DOMAIN users :
         users[u].market # None => users'[u].market = users[u].market]_users

\* What GetUserProfile would build of user u from the tables.
Coherent(u) ==
    \A p \in profileCache : p.uid = u =>
        /\ u \in DOMAIN users
        /\ p.name = users[u].name /\ p.market = users[u].market /\ p.kyc = users[u].kyc
        /\ \E m \in mappings : m.uid = u /\ m.email = p.email

AllCoherent == \A u \in QueriedIds : Coherent(u)

Quiet == \A w \in Updaters : up[w].pc = "idle"

\* Once updates have stopped, the cached profiles are for good what the tables
\* say: a Del that was lost, an UPDATE whose error skipped the Del and a fill
\* that was overtaken by an update are all mended by the expiry.
EventuallyCoherent == (<>[]Quiet) => <>[]AllCoherent

=============================================================================
