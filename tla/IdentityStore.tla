--------------------------- MODULE IdentityStore ---------------------------
(***************************************************************************)
(* What every component of the service shares: the two MySQL tables, the   *)
(* two Redis cache-aside caches, the two Kafka topics, and the ways these  *)
(* stores fail.  The components (UserRegistration, UserProfile, KycFlow)   *)
(* extend this module and act on its variables.                            *)
(*                                                                         *)
(*  - MySQL: a committed row is in users or mappings.  A row written by an *)
(*    open transaction is held by the handler that wrote it.               *)
(*  - Redis is best effort in the code (every error is logged and dropped, *)
(*    redis.Client may be nil): a Get may miss, a Set or a Del may do      *)
(*    nothing, and an entry may expire at any moment.  No budget bounds    *)
(*    these.                                                               *)
(*  - A database error, a Kafka error and a crash of the process each      *)
(*    spend one of MaxFaults faults.                                       *)
(***************************************************************************)
EXTENDS Naturals, FiniteSets, Sequences, TLC

CONSTANTS
    Clerks,         \* Clerk user ids
    Emails,         \* email addresses, equal up to the collation of the column
    Names,          \* display names
    Markets,        \* market codes the service accepts
    None,           \* absent value: the empty string or a nil pointer
    KafkaEnabled,   \* whether buildProducer returned a real producer
    MaxFaults       \* bound on the database errors, Kafka errors and crashes

ASSUME NoneAssumption == None \notin Clerks \cup Emails \cup Names \cup Markets
ASSUME KafkaAssumption == KafkaEnabled \in BOOLEAN
ASSUME MaxFaultsAssumption == MaxFaults \in Nat

VARIABLES
    users,            \* committed users: id -> [name, market, kyc]
    mappings,         \* committed mappings: a set of [clerk, email, uid]
    nextId,           \* the next AUTO_INCREMENT value of the users table
    mapCache,         \* Redis user_auth_mapping:clerk:*, a set of mapping rows
    profileCache,     \* Redis user profile entries, a set of profile rows
    registeredTopic,  \* user.events.registered: the user ids announced, in order
    kycTopic,         \* user.events.kyc: the KYC outcomes announced, in order
    faults            \* faults injected so far

dbVars == <<users, mappings, nextId>>
topicVars == <<registeredTopic, kycTopic>>
storeVars == <<users, mappings, nextId, mapCache, profileCache,
               registeredTopic, kycTopic, faults>>

-----------------------------------------------------------------------------
(* Rows. *)

UserId == Nat \ {0}
KycStatuses == {"PENDING", "PASSED", "FAILED"}
UserRow == [name : Names, market : Markets \cup {None}, kyc : KycStatuses]
MappingRow == [clerk : Clerks, email : Emails, uid : UserId]
ProfileRow == [uid : UserId, name : Names, market : Markets \cup {None},
               kyc : KycStatuses, email : Emails \cup {None}]

\* The row CreateUser builds: a random name, KYC pending, no market yet.
NewUser(name) == [name |-> name, market |-> None, kyc |-> "PENDING"]

\* The users table once row is written under id u.
WithUser(u, row) ==
    [v \in DOMAIN users \cup {u} |-> IF v = u THEN row ELSE users[v]]

InitStore ==
    /\ users = <<>>
    /\ mappings = {}
    /\ nextId = 1
    /\ mapCache = {}
    /\ profileCache = {}
    /\ registeredTopic = <<>>
    /\ kycTopic = <<>>
    /\ faults = 0

\* The stores once the accounts are registered, their events long consumed.
InitRegistered(accounts) ==
    /\ \E name \in Names :
         users = [u \in {a.uid : a \in accounts} |-> NewUser(name)]
    /\ mappings = accounts
    /\ nextId = Cardinality(accounts) + 1
    /\ mapCache = {}
    /\ profileCache = {}
    /\ registeredTopic = <<>>
    /\ kycTopic = <<>>
    /\ faults = 0

StoreTypeOK ==
    /\ users \in [DOMAIN users -> UserRow]
    /\ DOMAIN users \subseteq UserId
    /\ mappings \subseteq MappingRow
    /\ nextId \in UserId
    /\ mapCache \subseteq MappingRow
    /\ profileCache \subseteq ProfileRow
    /\ registeredTopic \in Seq(UserId)
    /\ faults \in 0..MaxFaults

-----------------------------------------------------------------------------
(* The caches: what a best-effort Set, a best-effort Del and the           *)
(* expiry of an entry may leave behind.                                    *)

MapCacheWithout(c) == {r \in mapCache : r.clerk # c}
ProfileCacheWithout(u) == {p \in profileCache : p.uid # u}

SetMappingCache(row) ==
    mapCache' \in {mapCache, MapCacheWithout(row.clerk) \cup {row}}

DeleteMappingCache(c) ==
    mapCache' \in {mapCache, MapCacheWithout(c)}

SetUserProfileCache(p) ==
    profileCache' \in {profileCache, ProfileCacheWithout(p.uid) \cup {p}}

InvalidateUserProfileCache(u) ==
    profileCache' \in {profileCache, ProfileCacheWithout(u)}

ExpireMapping(row) ==
    /\ row \in mapCache
    /\ mapCache' = mapCache \ {row}
    /\ UNCHANGED <<dbVars, profileCache, topicVars, faults>>

\* Mutant: the entry is set with no time to live.
ExpireProfileNever(p) ==
    /\ p \in profileCache
    /\ UNCHANGED storeVars

ExpireProfile(p) ==
    /\ p \in profileCache
    /\ profileCache' = profileCache \ {p}
    /\ UNCHANGED <<dbVars, mapCache, topicVars, faults>>

-----------------------------------------------------------------------------
(* Topics and faults. *)

\* What a Publish that reaches the broker adds; the nop producer adds nothing.
Delivered(topic, event) == IF KafkaEnabled THEN Append(topic, event) ELSE topic

Fault ==
    /\ faults < MaxFaults
    /\ faults' = faults + 1

=============================================================================
