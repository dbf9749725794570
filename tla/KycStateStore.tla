--------------------------- MODULE KycStateStore ---------------------------
(***************************************************************************)
(* memoryKYCStateStore (server/service/kyc_state_store.go): the pending    *)
(* Singpass logins of this process, keyed by OAuth state.  A mutex makes   *)
(* Save and Consume atomic, but each reads the clock twice, and time may   *)
(* pass between the two readings: t is the second one.                     *)
(***************************************************************************)
EXTENDS Naturals

CONSTANTS
    States,     \* the OAuth states RandomOAuthParam returns, each one once
    TTL,        \* defaultKYCStateTTL, in ticks
    MaxTime     \* bound on the clock

ASSUME TTLAssumption == TTL \in Nat \ {0}
ASSUME MaxTimeAssumption == MaxTime \in Nat

VARIABLES
    items,      \* a set of [state, uid, email, expires]
    now         \* the clock

\* now.After(ExpiresAt) is strict.
Expired(item, t) == t > item.expires

PurgeExpired(entries, t) == {i \in entries : ~Expired(i, t)}

LaterTimes == now..MaxTime

Save(s, u, email, t) ==
    /\ items' = PurgeExpired({i \in items : i.state # s}
                               \cup {[state |-> s, uid |-> u, email |-> email,
                                      expires |-> now + TTL]}, t)
    /\ now' = t

\* The entry a Consume of s finds once it has purged.
Lookup(s) == {i \in PurgeExpired(items, now) : i.state = s}

\* Mutant: Consume looks the entry up and leaves it.
TakeKeeps(s, t) ==
    /\ items' = PurgeExpired(items, now)
    /\ now' = t

\* What Consume does to the store, whether or not it found the entry.
Take(s, t) ==
    /\ items' = {i \in PurgeExpired(items, now) : i.state # s}
    /\ now' = t

\* Mutant: Consume relies on the purge and reads the clock once.
ConsumeOkUnchecked(s, t, item) ==
    /\ item \in Lookup(s)
    /\ Take(s, t)

\* Consume returns item: it was there, and it is not expired at the second reading.
ConsumeOk(s, t, item) ==
    /\ item \in Lookup(s)
    /\ ~Expired(item, t)
    /\ Take(s, t)

ConsumeFails(s, t) ==
    /\ \A i \in Lookup(s) : Expired(i, t)
    /\ Take(s, t)

Tick ==
    /\ now < MaxTime
    /\ now' = now + 1
    /\ UNCHANGED items

=============================================================================
