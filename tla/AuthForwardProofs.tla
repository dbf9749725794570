------------------------- MODULE AuthForwardProofs -------------------------
(***************************************************************************)
(* What holds of AuthForward for any number of forwards, handlers, tokens, *)
(* keys and faults.  Forwards act on the stores of registration, so that   *)
(* the proof starts from what registration keeps (Safe) and shows that no  *)
(* forward disturbs it.                                                    *)
(***************************************************************************)
EXTENDS AuthForward, UserRegistrationProofs

-----------------------------------------------------------------------------
(* The inductive invariant.                                                *)

Forward == [pc : ForwardPCs, token : Tokens \cup {None},
            row : MappingRow \cup {None}, since : SUBSET Keys, bound : BOOLEAN]

Verifying == {"mapCache", "byClerk", "fill"}

\* A forward that runs has a token, of a subject that is bound if it was when
\* the request arrived; one past its verification was verified with a key served
\* since; one about to fill the cache has the committed row of its subject.
ForwardOK(r) ==
    /\ r \in Forward
    /\ r.pc # "idle" => /\ r.token \in Tokens
                        /\ r.bound => Bound(r.token.clerk)
    /\ r.pc \in Verifying => r.token.genuine /\ r.token.kid \in r.since
    /\ r.pc = "keys" => published \subseteq r.since
    /\ r.pc = "fill" => r.row \in mappings /\ r.row.clerk = r.token.clerk

ForwardsOK ==
    /\ published \subseteq Keys
    /\ fwd \in [Forwards -> Forward]
    /\ \A f \in Forwards : ForwardOK(fwd[f])

IdentifiedOK ==
    /\ identified \subseteq [clerk : Clerks, uid : UserId]
    /\ IdentifiedIsBound

ForwardSafe == Safe /\ ForwardsOK /\ IdentifiedOK

LEMMA ForwardSafeMeans ==
    ForwardSafe => ForwardTypeOK /\ VerifiedKeysCurrent /\ IdentifiedIsBound
  <1>. SUFFICES ASSUME ForwardSafe
                PROVE  ForwardTypeOK /\ VerifiedKeysCurrent /\ IdentifiedIsBound
    OBVIOUS
  <1>1. mappings \subseteq MappingRow
    BY DEF ForwardSafe, Safe, TypeOK, StoreTypeOK
  <1>2. ForwardTypeOK
    BY <1>1 DEF ForwardSafe, ForwardsOK, IdentifiedOK, ForwardOK, Forward, ForwardTypeOK
  <1>3. VerifiedKeysCurrent
    BY DEF ForwardSafe, ForwardsOK, ForwardOK, VerifiedKeysCurrent, Verified, Verifying
  <1>. QED
    BY <1>2, <1>3 DEF ForwardSafe, IdentifiedOK

LEMMA IdleForwardOK == ForwardOK(IdleForward)
  BY DEF ForwardOK, IdleForward, Forwarding, Forward, ForwardPCs, Verifying

LEMMA InitForwardSafe == ForwardInit => ForwardSafe
  <1>. SUFFICES ASSUME ForwardInit PROVE ForwardSafe
    OBVIOUS
  <1>1. Safe
    BY InitSafe DEF ForwardInit
  <1>2. ForwardsOK
    BY IdleForwardOK DEF ForwardInit, ForwardsOK, ForwardOK
  <1>. QED
    BY <1>1, <1>2 DEF ForwardInit, ForwardSafe, IdentifiedOK, IdentifiedIsBound

-----------------------------------------------------------------------------
(* What registration does to the forwards: it only adds mappings.          *)

LEMMA RegistrationIsNext == RegistrationStep => Next
  BY DEF RegistrationStep, Next

LEMMA MappingsGrow ==
    ASSUME Safe, RegistrationStep
    PROVE  mappings \subseteq mappings'
  <1>1. ASSUME NEW h \in Handlers, Step(h) PROVE mappings \subseteq mappings'
    BY <1>1
    DEF Step, CacheHit, CacheMiss, FoundByClerk, NotFoundByClerk, FillCache,
        FoundByEmail, NotFoundByEmail, InsertUser, DeleteCacheBefore, InsertMapping,
        DuplicateMapping, DeleteCacheAfter, Commit, CommitRows, InvalidateProfile,
        Publish, storeVars, dbVars
  <1>2. ASSUME NEW h \in Handlers, Failure(h) PROVE mappings \subseteq mappings'
    BY <1>2 DEF Failure, DatabaseFails, CommitReplyLost, CommitRows, PublishFails, dbVars
  <1>3. ASSUME (\E h \in Handlers, m \in Messages : Receive(h, m)) \/ Expire
        PROVE  mappings \subseteq mappings'
    BY <1>3 DEF Receive, Expire, ExpireMapping, storeVars, dbVars
  <1>. QED
    BY <1>1, <1>2, <1>3 DEF RegistrationStep

\* More mappings, and the same forwards.
LEMMA ForwardsOutliveCommits ==
    ASSUME ForwardsOK, IdentifiedOK, mappings \subseteq mappings', UNCHANGED forwardVars
    PROVE  ForwardsOK' /\ IdentifiedOK'
  <1>1. UNCHANGED <<published, fwd, identified>>
    BY DEF forwardVars
  <1>2. \A c : Bound(c) => Bound(c)'
    BY DEF Bound
  <1>3. ASSUME NEW f \in Forwards PROVE ForwardOK(fwd[f])'
    BY <1>1, <1>2 DEF ForwardsOK, ForwardOK
  <1>. QED
    BY <1>1, <1>3 DEF ForwardsOK, IdentifiedOK, IdentifiedIsBound

-----------------------------------------------------------------------------
(* What a forward does to registration: it fills the cache with a          *)
(* committed row, or spends a fault.                                       *)

LEMMA ForwardKeepsSafe ==
    ASSUME Safe, UNCHANGED <<dbVars, profileCache, topicVars, answers>>,
           mapCache' \subseteq mappings,
           UNCHANGED faults \/ Fault,
           UNCHANGED reg \/ reg' = [h \in Handlers |-> Idle]
    PROVE  Safe'
  <1>1. UNCHANGED <<users, mappings, nextId, registeredTopic, answers>>
    BY DEF dbVars, topicVars
  <1>2. StoreTypeOK'
    BY <1>1, MaxFaultsAssumption DEF Safe, TypeOK, StoreTypeOK, Fault
  <1>3. RequestTypeOK'
    <2>1. CASE UNCHANGED reg
      BY <1>1, <2>1 DEF Safe, TypeOK, RequestTypeOK, At, TransactionOpen, Committed
    <2>2. CASE reg' = [h \in Handlers |-> Idle]
      BY <1>1, <2>2
      DEF Safe, TypeOK, RequestTypeOK, At, TransactionOpen, Committed, Idle, Request, PCs
    <2>. QED BY <2>1, <2>2
  <1>4. (reg' = reg) \/ \A h \in Handlers : reg'[h].pc = "idle"
    BY DEF Idle, Request
  <1>5. RequestsConsistent'
    <2>1. RequestsConsistent
      BY DEF Safe
    <2>. QED
      BY <1>1, <1>4, <2>1
      DEF RequestsConsistent, RequestOK, RequestsDisjoint, At, TransactionOpen,
          Committed, HoldsMapping, MappingOf, Announced
  <1>6. TablesAgree' /\ AnnouncedOnce' /\ AcceptedMeansBound'
    BY <1>1, TablesStutter, AnswersStutter DEF Safe
  <1>7. MappingCacheCoherent'
    BY <1>1 DEF MappingCacheCoherent
  <1>. QED
    BY <1>2, <1>3, <1>5, <1>6, <1>7 DEF Safe, TypeOK

\* One forward moves to a state that is right, the others stay where they are.
LEMMA ForwardMoves ==
    ASSUME ForwardsOK, NEW f \in Forwards, NEW to, ForwardOK(to),
           fwd' = [fwd EXCEPT ![f] = to], UNCHANGED <<published, mappings>>
    PROVE  ForwardsOK'
  BY DEF ForwardsOK, ForwardOK, Bound

LEMMA Identifies ==
    ASSUME ForwardSafe, NEW f \in Forwards, fwd[f].pc # "idle", NEW row \in mappings,
           row.clerk = fwd[f].token.clerk, Identify(f, row), UNCHANGED mappings
    PROVE  ForwardsOK' /\ IdentifiedOK'
  <1>1. ForwardsOK'
    BY IdleForwardOK, ForwardMoves DEF ForwardSafe, Identify
  <1>2. row.uid \in UserId /\ row.clerk \in Clerks
    BY DEF ForwardSafe, Safe, TypeOK, StoreTypeOK, MappingRow
  <1>3. identified' = identified \cup {[clerk |-> row.clerk, uid |-> row.uid]}
    BY DEF Identify
  <1>. QED
    BY <1>1, <1>2, <1>3 DEF ForwardSafe, IdentifiedOK, IdentifiedIsBound

LEMMA GoesAnonymous ==
    ASSUME ForwardSafe, NEW f \in Forwards, Anonymous(f), UNCHANGED mappings
    PROVE  ForwardsOK' /\ IdentifiedOK'
  <1>1. ForwardsOK'
    BY IdleForwardOK, ForwardMoves DEF ForwardSafe, Anonymous
  <1>. QED
    BY <1>1 DEF ForwardSafe, Anonymous, IdentifiedOK, IdentifiedIsBound

LEMMA GoesOn ==
    ASSUME ForwardSafe, NEW f \in Forwards, NEW pc, NEW row, Proceeds(f, pc, row),
           ForwardOK(Forwarding(pc, fwd[f].token, row, fwd[f].since, fwd[f].bound)),
           UNCHANGED mappings
    PROVE  ForwardsOK' /\ IdentifiedOK'
  <1>1. fwd' = [fwd EXCEPT ![f] = Forwarding(pc, fwd[f].token, row, fwd[f].since,
                                             fwd[f].bound)]
    BY DEF Proceeds, ForwardSafe, ForwardsOK
  <1>2. ForwardsOK'
    BY <1>1, ForwardMoves DEF ForwardSafe, Proceeds
  <1>. QED
    BY <1>2 DEF ForwardSafe, Proceeds, IdentifiedOK, IdentifiedIsBound

-----------------------------------------------------------------------------
(* Every step of a forward, of Clerk and of the process.                   *)

LEMMA StutterKeepsSafe ==
    ASSUME Safe, UNCHANGED vars
    PROVE  Safe'
  BY NextSafe

LEMMA ForwardStepSafe ==
    ASSUME ForwardSafe, NEW f \in Forwards, ForwardStep(f)
    PROVE  ForwardSafe'
  <1>1. ForwardOK(fwd[f]) /\ Safe
    BY DEF ForwardSafe, ForwardsOK
  <1>2. ASSUME UNCHANGED vars PROVE Safe' /\ UNCHANGED mappings
    BY <1>1, <1>2, StutterKeepsSafe DEF vars, storeVars
  <1>3. mapCache \subseteq mappings
    BY <1>1 DEF Safe, MappingCacheCoherent
  <1>4. CASE FetchKeys(f)
    <2>1. fwd[f].token.kid \in published /\ fwd[f].token.genuine =>
            ForwardOK(Forwarding("mapCache", fwd[f].token, None, fwd[f].since, fwd[f].bound))
      BY <1>1, <1>4 DEF FetchKeys, ForwardOK, Forwarding, Forward, ForwardPCs, Verifying
    <2>2. ForwardsOK' /\ IdentifiedOK'
      BY <1>2, <1>4, <2>1, GoesOn, GoesAnonymous DEF FetchKeys
    <2>. QED
      BY <1>2, <1>4, <2>2 DEF FetchKeys, ForwardSafe
  <1>5. CASE FetchKeysFails(f)
    BY <1>2, <1>5, GoesAnonymous DEF FetchKeysFails, ForwardSafe
  <1>6. CASE ForwardHit(f)
    <2>1. PICK r \in mapCache : r.clerk = fwd[f].token.clerk /\ Identify(f, r)
      BY <1>6 DEF ForwardHit
    <2>2. ForwardsOK' /\ IdentifiedOK'
      BY <1>2, <1>3, <1>6, <2>1, Identifies DEF ForwardHit
    <2>. QED
      BY <1>2, <1>6, <2>2 DEF ForwardHit, ForwardSafe
  <1>7. CASE ForwardMiss(f)
    <2>1. ForwardOK(Forwarding("byClerk", fwd[f].token, None, fwd[f].since, fwd[f].bound))
      BY <1>1, <1>7 DEF ForwardMiss, ForwardOK, Forwarding, Forward, ForwardPCs, Verifying
    <2>2. ForwardsOK' /\ IdentifiedOK'
      BY <1>2, <1>7, <2>1, GoesOn DEF ForwardMiss
    <2>. QED
      BY <1>2, <1>7, <2>2 DEF ForwardMiss, ForwardSafe
  <1>8. CASE ForwardFound(f)
    <2>1. PICK r \in mappings : r.clerk = fwd[f].token.clerk /\ Proceeds(f, "fill", r)
      BY <1>8 DEF ForwardFound
    <2>2. r \in MappingRow
      BY <1>1 DEF Safe, TypeOK, StoreTypeOK
    <2>3. ForwardOK(Forwarding("fill", fwd[f].token, r, fwd[f].since, fwd[f].bound))
      BY <1>1, <1>8, <2>1, <2>2
      DEF ForwardFound, ForwardOK, Forwarding, Forward, ForwardPCs, Verifying
    <2>4. ForwardsOK' /\ IdentifiedOK'
      BY <1>2, <1>8, <2>1, <2>3, GoesOn DEF ForwardFound
    <2>. QED
      BY <1>2, <1>8, <2>4 DEF ForwardFound, ForwardSafe
  <1>9. CASE ForwardUnknown(f)
    BY <1>2, <1>9, GoesAnonymous DEF ForwardUnknown, ForwardSafe
  <1>10. CASE ForwardFill(f)
    <2>1. fwd[f].row \in mappings /\ fwd[f].row.clerk = fwd[f].token.clerk
          /\ fwd[f].pc # "idle"
      BY <1>1, <1>10 DEF ForwardFill, ForwardOK
    <2>2. mapCache' \subseteq mappings
      BY <1>3, <1>10, <2>1, CacheRows DEF ForwardFill
    <2>3. Safe'
      BY <1>1, <1>10, <2>2, ForwardKeepsSafe DEF ForwardFill, regVars
    <2>4. ForwardsOK' /\ IdentifiedOK'
      BY <1>10, <2>1, Identifies DEF ForwardFill, dbVars
    <2>. QED
      BY <2>3, <2>4 DEF ForwardSafe
  <1>11. CASE ForwardReadFails(f)
    <2>1. Safe'
      BY <1>1, <1>3, <1>11, ForwardKeepsSafe DEF ForwardReadFails, regVars
    <2>2. ForwardsOK' /\ IdentifiedOK'
      BY <1>11, GoesAnonymous DEF ForwardReadFails, dbVars
    <2>. QED
      BY <2>1, <2>2 DEF ForwardSafe
  <1>. QED
    BY <1>4, <1>5, <1>6, <1>7, <1>8, <1>9, <1>10, <1>11 DEF ForwardStep

LEMMA StartForwardSafe ==
    ASSUME ForwardSafe, NEW f \in Forwards, NEW t \in Tokens, StartForward(f, t)
    PROVE  ForwardSafe'
  <1>. DEFINE to == Forwarding("keys", t, None, published, Bound(t.clerk))
  <1>1. Safe' /\ UNCHANGED <<mappings, published, identified>>
    BY StutterKeepsSafe DEF ForwardSafe, StartForward, vars, storeVars
  <1>2. Bound(t.clerk) \in BOOLEAN
    BY DEF Bound
  <1>3. ForwardOK(to)
    BY <1>2 DEF ForwardOK, Forwarding, Forward, ForwardPCs, Verifying, ForwardSafe, ForwardsOK
  <1>4. ForwardsOK'
    BY <1>1, <1>3, ForwardMoves DEF ForwardSafe, StartForward
  <1>. QED
    BY <1>1, <1>4 DEF ForwardSafe, IdentifiedOK, IdentifiedIsBound

\* A rotation takes no key from those a running request has seen.
LEMMA RotateKeysSafe ==
    ASSUME ForwardSafe, NEW S \in SUBSET Keys, RotateKeys(S)
    PROVE  ForwardSafe'
  <1>1. Safe' /\ UNCHANGED <<mappings, identified>>
    BY StutterKeepsSafe DEF ForwardSafe, RotateKeys, vars, storeVars
  <1>2. published' = S
    BY DEF RotateKeys
  <1>3. ASSUME NEW f \in Forwards PROVE fwd'[f] \in Forward /\ ForwardOK(fwd[f])'
    <2>1. ForwardOK(fwd[f])
      BY DEF ForwardSafe, ForwardsOK
    <2>2. CASE fwd[f].pc = "idle"
      BY <1>2, <2>1, <2>2 DEF RotateKeys, ForwardOK, Verifying
    <2>3. CASE fwd[f].pc # "idle"
      <3>1. fwd'[f] = [fwd[f] EXCEPT !.since = @ \cup S]
        BY <2>3 DEF RotateKeys
      <3>2. fwd'[f] \in Forward
        BY <2>1, <3>1 DEF ForwardOK, Forward
      <3>3. /\ fwd'[f].pc = fwd[f].pc /\ fwd'[f].token = fwd[f].token
            /\ fwd'[f].row = fwd[f].row /\ fwd'[f].bound = fwd[f].bound
            /\ fwd'[f].since = fwd[f].since \cup S
        BY <2>1, <3>1 DEF ForwardOK, Forward
      <3>. QED
        BY <1>1, <1>2, <2>1, <3>2, <3>3 DEF ForwardOK, Bound
    <2>. QED BY <2>2, <2>3
  <1>4. fwd' \in [Forwards -> Forward]
    BY <1>3 DEF RotateKeys
  <1>5. ForwardsOK'
    BY <1>2, <1>3, <1>4 DEF ForwardsOK
  <1>. QED
    BY <1>1, <1>5 DEF ForwardSafe, IdentifiedOK, IdentifiedIsBound

LEMMA RestartAllSafe ==
    ASSUME ForwardSafe, RestartAll
    PROVE  ForwardSafe'
  <1>1. Safe'
    BY ForwardKeepsSafe DEF ForwardSafe, Safe, MappingCacheCoherent, RestartAll
  <1>2. ForwardsOK'
    BY IdleForwardOK DEF ForwardSafe, ForwardsOK, ForwardOK, RestartAll, IdleForward,
       Forwarding, Verifying
  <1>. QED
    BY <1>1, <1>2 DEF ForwardSafe, IdentifiedOK, IdentifiedIsBound, RestartAll, dbVars

LEMMA ForwardNextSafe == ForwardSafe /\ [ForwardNext]_allVars => ForwardSafe'
  <1>. SUFFICES ASSUME ForwardSafe, [ForwardNext]_allVars PROVE ForwardSafe'
    OBVIOUS
  <1>1. CASE RegistrationStep /\ UNCHANGED forwardVars
    BY <1>1, NextSafe, RegistrationIsNext, MappingsGrow, ForwardsOutliveCommits
    DEF ForwardSafe
  <1>2. CASE UNCHANGED allVars
    BY <1>2, StutterKeepsSafe, ForwardsOutliveCommits
    DEF ForwardSafe, allVars, vars, storeVars
  <1>. QED
    BY <1>1, <1>2, ForwardStepSafe, StartForwardSafe, RotateKeysSafe, RestartAllSafe
    DEF ForwardNext

-----------------------------------------------------------------------------
(* No subject that was bound is taken for unknown.                         *)

Unmistaken ==
    \A f \in Forwards :
        Verified(f) /\ fwd[f].bound /\ fwd'[f].pc = "idle" /\ faults' = faults =>
            \E i \in identified' : i.clerk = fwd[f].token.clerk

LEMMA StepUnmistaken == ForwardSafe /\ [ForwardNext]_allVars => [Unmistaken]_allVars
  <1>. SUFFICES ASSUME ForwardSafe, ForwardNext,
                       NEW f \in Forwards, Verified(f), fwd[f].bound,
                       fwd'[f].pc = "idle", faults' = faults
                PROVE  \E i \in identified' : i.clerk = fwd[f].token.clerk
    BY DEF Unmistaken
  <1>1. ForwardOK(fwd[f]) /\ fwd \in [Forwards -> Forward]
    BY DEF ForwardSafe, ForwardsOK
  <1>2. fwd[f].pc \notin {"idle", "keys"}
    BY DEF Verified
  <1>3. Bound(fwd[f].token.clerk)
    BY <1>1, <1>2 DEF ForwardOK
  <1>4. ~Fault
    BY MaxFaultsAssumption DEF Fault, ForwardSafe, Safe, TypeOK, StoreTypeOK
  <1>5. ASSUME fwd'[f] = fwd[f] PROVE FALSE
    BY <1>2, <1>5
  <1>6. ASSUME NEW g \in Forwards, ForwardStep(g)
        PROVE  \E i \in identified' : i.clerk = fwd[f].token.clerk
    <2>1. g = f
      BY <1>1, <1>5, <1>6
      DEF ForwardStep, FetchKeys, FetchKeysFails, ForwardHit, ForwardMiss, ForwardFound,
          ForwardUnknown, ForwardFill, ForwardReadFails, Proceeds, Anonymous, Identify
    <2>2. ForwardHit(f) \/ ForwardMiss(f) \/ ForwardFound(f) \/ ForwardFill(f)
      BY <1>2, <1>3, <1>4, <1>6, <2>1
      DEF ForwardStep, FetchKeys, FetchKeysFails, ForwardUnknown, ForwardReadFails
    <2>3. ~ForwardMiss(f) /\ ~ForwardFound(f)
      BY <1>1 DEF ForwardMiss, ForwardFound, Proceeds, Forwarding
    <2>4. PICK row : Identify(f, row)
      BY <2>2, <2>3 DEF ForwardHit, ForwardFill
    <2>5. [clerk |-> fwd[f].token.clerk, uid |-> row.uid] \in identified'
      BY <2>4 DEF Identify
    <2>. QED
      BY <2>5
  <1>7. ASSUME NEW g \in Forwards, NEW t \in Tokens, StartForward(g, t) PROVE FALSE
    BY <1>1, <1>2, <1>5, <1>7 DEF StartForward
  <1>8. ASSUME NEW S, RotateKeys(S) PROVE FALSE
    BY <1>1, <1>2, <1>8 DEF RotateKeys, Forward
  <1>9. ~RestartAll
    BY <1>4 DEF RestartAll
  <1>10. ASSUME UNCHANGED forwardVars PROVE FALSE
    BY <1>5, <1>10 DEF forwardVars
  <1>. QED
    BY <1>6, <1>7, <1>8, <1>9, <1>10 DEF ForwardNext

-----------------------------------------------------------------------------
(* The theorems.                                                           *)

\* Forwards and registrations on the same stores keep the state safe, whatever
\* keys are rotated and whatever fails.
THEOREM AlwaysForwardSafe == ForwardSpec => []ForwardSafe
  BY InitForwardSafe, ForwardNextSafe, PTL DEF ForwardSpec

\* A forward is well formed at every step: it has a token while it runs and a
\* mapping row when it is about to fill the cache.
THEOREM ForwardTypeCorrect == ForwardSpec => []ForwardTypeOK
  BY AlwaysForwardSafe, ForwardSafeMeans, PTL

\* verifyToken takes a token for genuine only with a key that Clerk served while
\* the request ran, whatever keys are rotated meanwhile.
THEOREM VerifiedKeysAlwaysCurrent == ForwardSpec => []VerifiedKeysCurrent
  BY AlwaysForwardSafe, ForwardSafeMeans, PTL

\* Authenticate names the one committed user of the subject, from the cache or
\* from the table, whatever registrations and forwards interleave or fail.
THEOREM IdentifiedAlwaysBound == ForwardSpec => []IdentifiedIsBound
  BY AlwaysForwardSafe, ForwardSafeMeans, PTL

\* A subject bound before its request arrived is identified, unless the token is
\* refused or a fault ends the request.
THEOREM BoundAlwaysIdentified == ForwardSpec => BoundIsIdentified
  BY AlwaysForwardSafe, StepUnmistaken, PTL DEF ForwardSpec, BoundIsIdentified, Unmistaken

\* Forwards beside it take nothing from registration: the composition is still
\* the atomic registry.
THEOREM ForwardingImplementsRegistry == ForwardSpec => ImplementsRegistry
  <1>1. ForwardInit => AbstractRegistry!Init
    BY DEF ForwardInit, Init, InitStore, AbstractRegistry!Init
  <1>2. ForwardSafe /\ [ForwardNext]_allVars
          => [AbstractRegistry!Next]_(AbstractRegistry!registryVars)
    <2>. SUFFICES ASSUME ForwardSafe, [ForwardNext]_allVars
                  PROVE  [AbstractRegistry!Next]_(AbstractRegistry!registryVars)
      OBVIOUS
    <2>1. Safe
      BY DEF ForwardSafe
    <2>2. CASE RegistrationStep
      BY <2>1, <2>2, NextImplements, RegistrationIsNext
    <2>3. CASE ~RegistrationStep
      <3>1. UNCHANGED <<users, mappings, registeredTopic>>
        BY <2>3
        DEF ForwardNext, ForwardStep, FetchKeys, FetchKeysFails, ForwardHit, ForwardMiss,
            ForwardFound, ForwardUnknown, ForwardFill, ForwardReadFails, StartForward,
            RotateKeys, RestartAll, allVars, vars, storeVars, dbVars, topicVars
      <3>. QED
        BY <3>1 DEF AbstractRegistry!registryVars
    <2>. QED BY <2>2, <2>3
  <1>. QED
    BY <1>1, <1>2, AlwaysForwardSafe, PTL
    DEF ForwardSpec, ImplementsRegistry, AbstractRegistry!Spec

=============================================================================
