-------------------------- MODULE IdentityService --------------------------
(***************************************************************************)
(* The two services that write the users table of a registered user,       *)
(* UserProfile and KycFlow, in one process on the same tables and caches:  *)
(* an update of the profile, a Singpass callback and a cache-aside read of *)
(* the profile interleave, and a crash of the process ends all of them.    *)
(*                                                                         *)
(* Registration only inserts the rows the two start from; AuthForward      *)
(* composes it with its reader.                                            *)
(***************************************************************************)
EXTENDS IdentityStore, KycStateStore

CONSTANTS
    Accounts,
    Readers, Updaters, QueriedIds, Unsupported, Updates,
    Callbacks, CarriesEmail, UserInfos, Untagged

VARIABLES
    rd, up, overtaken,
    cb, issued, used, writes, crossed, lost,
    excused     \* history: the users whose cached profile may be stale, and why
                \* is in Excuses

P == INSTANCE UserProfile
K == INSTANCE KycFlow

\* What the two services assume of their parameters.
ASSUME AccountsAssumption ==
    /\ Accounts \subseteq MappingRow
    /\ IsFiniteSet(Accounts)
    /\ {a.uid : a \in Accounts} = 1..Cardinality(Accounts)
ASSUME CallsAssumption ==
    /\ QueriedIds \subseteq UserId
    /\ Unsupported \notin Markets \cup {None}
    /\ Updates \subseteq P!UpdateRequest
ASSUME SingpassAssumption ==
    /\ CarriesEmail \in BOOLEAN
    /\ UserInfos \subseteq [name : Names \cup {None}, email : Emails \cup {None}]
    /\ Untagged \in [Emails -> Emails]

profileVars == <<rd, up, overtaken>>
kycVars == <<items, now, cb, issued, used, writes, crossed, lost>>
vars == <<storeVars, profileVars, kycVars, excused>>

Init == P!Init /\ K!Init /\ excused = {}

-----------------------------------------------------------------------------
(* When a cached profile may differ from the tables.                       *)

\* A reader is to cache what it read of user u.
HoldsRow(u) == \E r \in Readers : rd[r].uid = u /\ rd[r].pc \in {"mapping", "fill"}

\* The writers of user u that have still to delete the cached profile.
Deleting(u) ==
    {w \in Updaters : up[w].uid = u /\ up[w].pc = "invalidate"}
      \cup {h \in Callbacks : cb[h].uid = u /\ cb[h].pc = "invalidate"}

Cached(u) == \E p \in profileCache : p.uid = u

\* A row is written under a reader that holds the old one, an UPDATE is applied
\* but reported as an error, or a writer goes on, or dies, without its Del.
Excuses(u) ==
    \/ users'[u] # users[u] /\ (HoldsRow(u) \/ faults' # faults)
    \/ Deleting(u) \ Deleting(u)' # {} /\ Cached(u)'

\* An entry that is gone, with no reader about to bring it back, ends it.
Excused ==
    excused' = {u \in excused \cup {v \in DOMAIN users : Excuses(v)} :
                  Cached(u)' \/ HoldsRow(u)'}

-----------------------------------------------------------------------------

Restart ==
    /\ P!CallsRunning \/ K!LoginsPending
    /\ Fault
    /\ P!CallsLost
    /\ K!LoginsLost
    /\ UNCHANGED <<dbVars, mapCache, profileCache, topicVars>>

Next ==
    /\ \/ P!Step /\ UNCHANGED kycVars
       \/ K!Step /\ UNCHANGED profileVars
       \/ Restart
    /\ Excused

Spec == Init /\ [][Next]_vars

-----------------------------------------------------------------------------
(* Properties.                                                             *)

\* The KYC status of a user is what the last KYC write said, however profile
\* updates that read the row before that write are written after it.
KycIsLastWrite ==
    \A u \in DOMAIN users :
        LET mine == {i \in DOMAIN writes : writes[i].uid = u}
        IN  users[u].kyc = IF mine = {} THEN "PENDING"
                           ELSE writes[CHOOSE i \in mine : \A j \in mine : j <= i].status

\* A cached profile differs from the tables only while a writer of the user is
\* about to delete it, or after one of the three accidents of Excuses and until
\* the entry expires: nothing else the two services do leaves it stale.
StaleOnlyIfExcused ==
    \A u \in QueriedIds : P!Coherent(u) \/ Deleting(u) # {} \/ u \in excused

=============================================================================
