------------------------ MODULE ClientLibraryProofs ------------------------
(***************************************************************************)
(* What holds of ClientLibrary for any number of callers, and of the       *)
(* process of Lifecycle whoever calls it.                                  *)
(***************************************************************************)
EXTENDS ClientLibrary, TLAPS

-----------------------------------------------------------------------------
(* The order of main.                                                      *)

Calls == {"config", "logger", "database", "schema", "redis", "telemetry", "producer",
          "grpc", "http", "notify", "wait"}

LEMMA StartCalls ==
    /\ {StartOrder[i] : i \in DOMAIN StartOrder} = Calls
    /\ DOMAIN StartOrder = 1..11
  BY DEF StartOrder, Calls

\* The parts main has behind it.
Behind(at) ==
    CASE at = "config"    -> {}
      [] at = "logger"    -> {"config"}
      [] at = "database"  -> {"config", "logger"}
      [] at = "schema"    -> {"config", "logger", "database"}
      [] at = "redis"     -> {"config", "logger", "database", "schema"}
      [] at = "telemetry" -> {"config", "logger", "database", "schema", "redis"}
      [] at = "producer"  -> {"config", "logger", "database", "schema", "redis", "telemetry"}
      [] OTHER            -> Parts

LEMMA AfterParts ==
    /\ After("config") = "logger" /\ After("logger") = "database"
    /\ After("database") = "schema" /\ After("schema") = "redis"
    /\ After("redis") = "telemetry" /\ After("telemetry") = "producer"
    /\ After("producer") = "grpc" /\ After("grpc") = "http"
    /\ After("http") = "notify" /\ After("notify") = "wait"
  BY StartCalls DEF After, StartOrder, Calls

-----------------------------------------------------------------------------
(* The process.                                                            *)

Mains == Calls \cup {"metrics", "spans"}

\* The parts main has passed are ready; servers, and the services they build,
\* come after them; nobody is left with a server that failed; and once the
\* metrics are shut down, what is left of them could not be sent.
LifeInv ==
    /\ proc \in {"running", "panicked", "fatal", "killed", "returned"}
    /\ main \in Mains
    /\ Behind(main) \subseteq ready /\ ready \subseteq Parts
    /\ fatal \subseteq Parts \cup Required
    /\ unsent \subseteq Signals /\ exports \subseteq Signals
    /\ servers \in [Servers -> {"none", "starting", "serving", "failed"}]
    /\ services \in [Services -> SUBSET (Parts \cup {"none"})]
    /\ notified \in BOOLEAN /\ expired \in BOOLEAN
    /\ sigCh \in 0..1
    /\ \A s \in Servers : servers[s] # "none" => Parts \subseteq ready
    /\ \A v \in Services : services[v] = {"none"} \/ Parts \subseteq services[v]
    /\ proc = "running" => \A s \in Servers : servers[s] # "failed"
    /\ main = "spans" => "metrics" \notin exports
    /\ main = "spans" /\ ~expired /\ "metrics" \in unsent => collector["metrics"] # "up"
    /\ proc = "returned" => main = "spans"
    /\ proc = "returned" /\ ~expired /\ "spans" \in unsent => collector["spans"] # "up"

LEMMA LifeInvMeans == LifeInv => LifeTypeOK /\ WholeOrNothing /\ FlushedOnReturn
  BY StartCalls
  DEF LifeInv, LifeTypeOK, WholeOrNothing, FlushedOnReturn, Serving, Signals, Servers, Mains

LEMMA InitLife == LifeInit => LifeInv
  <1>. SUFFICES ASSUME LifeInit PROVE LifeInv
    OBVIOUS
  <1>1. main = "config"
    BY DEF LifeInit, StartOrder
  <1>2. main \in Mains /\ Behind(main) = {}
    BY <1>1 DEF Mains, Calls, Behind
  <1>3. \A s \in Servers : servers[s] = "none"
    BY DEF LifeInit
  <1>4. \A v \in Services : services[v] = {"none"}
    BY DEF LifeInit
  <1>5. /\ servers \in [Servers -> {"none", "starting", "serving", "failed"}]
        /\ services \in [Services -> SUBSET (Parts \cup {"none"})]
    BY DEF LifeInit
  <1>6. /\ proc = "running" /\ ready = {} /\ fatal = {} /\ exports = {} /\ unsent = {}
        /\ sigCh \in 0..1
    BY DEF LifeInit
  <1>7. notified \in BOOLEAN /\ expired \in BOOLEAN
    BY DEF LifeInit
  <1>. QED
    BY <1>1, <1>2, <1>3, <1>4, <1>5, <1>6, <1>7 DEF LifeInv

LEMMA PartsStart ==
    ASSUME LifeInv, NEW p \in Parts, Running(p), Decided(p) \/ Panics(p),
           UNCHANGED <<unsent, servers, services, notified, sigCh, expired, collector>>,
           exports' \subseteq Signals
    PROVE  LifeInv'
  <1>1. p # "metrics" /\ p # "spans" /\ main = p /\ proc = "running"
    BY DEF Parts, Running
  <1>2. ASSUME Decided(p)
        PROVE  /\ main' \in Calls /\ Behind(main') \subseteq ready' /\ ready' \subseteq Parts
               /\ ready \subseteq ready' /\ UNCHANGED <<proc, fatal>>
    BY <1>1, <1>2, AfterParts DEF Decided, LifeInv, Behind, Parts, Calls
  <1>3. CASE Decided(p)
    BY <1>1, <1>2, <1>3 DEF LifeInv, Mains, Calls
  <1>4. CASE Panics(p)
    BY <1>1, <1>4 DEF LifeInv, Panics
  <1>. QED BY <1>3, <1>4

LEMMA MainKeepsLife == LifeInv /\ MainStep => LifeInv'
  <1>. SUFFICES ASSUME LifeInv, MainStep PROVE LifeInv'
    OBVIOUS
  <1>1. ASSUME NEW p \in Required, InitRequired(p) PROVE LifeInv'
    BY <1>1, PartsStart DEF InitRequired, Parts, LifeInv
  <1>2. CASE RedisInit
    BY <1>2, PartsStart DEF RedisInit, Parts, LifeInv
  <1>3. CASE TelemetryInit
    BY <1>3, PartsStart DEF TelemetryInit, Parts, Signals
  <1>4. CASE EnsureProducer
    BY <1>4, PartsStart DEF EnsureProducer, Parts, LifeInv
  <1>5. ASSUME NEW s \in Servers, GoServer(s) PROVE LifeInv'
    <2>1. /\ main' \in Calls /\ Behind(main) = Parts /\ Behind(main') = Parts
          /\ proc = "running"
      BY <1>5, AfterParts DEF GoServer, Running, Servers, Behind, Calls
    <2>. QED
      BY <1>5, <2>1 DEF GoServer, LifeInv, Mains, Calls
  <1>6. CASE Notify
    BY <1>6, AfterParts DEF Notify, Running, LifeInv, Mains, Calls, Behind
  <1>7. CASE Receive
    BY <1>7 DEF Receive, Running, LifeInv, Mains, Behind
  <1>8. CASE ShutdownMetrics
    <2>1. /\ unsent' \subseteq unsent /\ exports' = exports \ {"metrics"}
          /\ ~expired /\ collector["metrics"] = "up" => "metrics" \notin unsent'
      BY <1>8 DEF ShutdownMetrics, Shutdown
    <2>. QED
      BY <1>8, <2>1 DEF ShutdownMetrics, Running, LifeInv, Mains, Behind
  <1>9. CASE ShutdownSpans
    <2>1. /\ unsent' \subseteq unsent /\ exports' \subseteq exports
          /\ ~expired /\ collector["spans"] = "up" => "spans" \notin unsent'
      BY <1>9 DEF ShutdownSpans, Shutdown
    <2>. QED
      BY <1>9, <2>1 DEF ShutdownSpans, Running, LifeInv
  <1>. QED
    BY <1>1, <1>2, <1>3, <1>4, <1>5, <1>6, <1>7, <1>8, <1>9 DEF MainStep

LEMMA BuiltServices ==
    ASSUME LifeInv, Parts \subseteq ready, NEW v \in Services, Built(v)
    PROVE  /\ services' \in [Services -> SUBSET (Parts \cup {"none"})]
           /\ \A x \in Services : services'[x] = {"none"} \/ Parts \subseteq services'[x]
  BY DEF LifeInv, Built

LEMMA LifeKeeps == LifeInv /\ LifeNext => LifeInv'
  <1>. SUFFICES ASSUME LifeInv, LifeNext PROVE LifeInv'
    OBVIOUS
  <1>1. CASE MainStep
    BY <1>1, MainKeepsLife
  <1>2. CASE GrpcServes
    <2>1. Parts \subseteq ready /\ "profiles" \in Services
      BY <1>2 DEF GrpcServes, LifeInv, Servers, Services
    <2>2. /\ services' \in [Services -> SUBSET (Parts \cup {"none"})]
          /\ \A x \in Services : services'[x] = {"none"} \/ Parts \subseteq services'[x]
      BY <1>2, <2>1, BuiltServices DEF GrpcServes
    <2>. QED
      BY <1>2, <2>1, <2>2 DEF GrpcServes, LifeInv, Servers
  <1>3. CASE HttpServes
    BY <1>3 DEF HttpServes, LifeInv, Servers
  <1>4. ASSUME NEW s \in Servers, ServerFails(s) PROVE LifeInv'
    BY <1>4 DEF ServerFails, LifeInv, Servers, Required
  <1>5. CASE NewRouterPanics
    BY <1>5 DEF NewRouterPanics, Panics, LifeInv, Required
  <1>6. ASSUME NEW s \in Servers, NEW v \in Services, Request(s, v) PROVE LifeInv'
    <2>1. Parts \subseteq ready /\ proc = "running"
      BY <1>6 DEF Request, Serving, LifeInv
    <2>2. /\ services' \in [Services -> SUBSET (Parts \cup {"none"})]
          /\ \A x \in Services : services'[x] = {"none"} \/ Parts \subseteq services'[x]
      BY <1>6, <2>1, BuiltServices DEF Request
    <2>. QED
      BY <1>6, <2>1, <2>2 DEF Request, LifeInv
  <1>7. ASSUME NEW x \in Signals, Export(x) PROVE LifeInv'
    BY <1>7 DEF Export, LifeInv
  <1>8. CASE Signal
    BY <1>8 DEF Signal, LifeInv
  <1>9. CASE DeadlinePasses
    BY <1>9 DEF DeadlinePasses, LifeInv
  <1>. QED
    BY <1>1, <1>2, <1>3, <1>4, <1>5, <1>6, <1>7, <1>8, <1>9 DEF LifeNext, ServerStep

LEMMA LifeStutters == LifeInv /\ UNCHANGED lifeVars => LifeInv'
  BY DEF lifeVars, processVars, LifeInv

-----------------------------------------------------------------------------
(* The client.                                                             *)

\* While nobody has come, or one caller is at work, nobody else is past the
\* sync.Once; what was dialled, and whether, is what once and the client say.
ClientInv ==
    /\ once \in {"new", "running", "done"}
    /\ conn \in {"none", "open", "closed"}
    /\ client \in BOOLEAN
    /\ caller \in [Callers -> [pc : CallerPCs, got : BOOLEAN]]
    /\ dials \in [made : 0..1, failed : BOOLEAN]
    /\ once = "new" => dials.made = 0
    /\ \A c \in Callers : At(c, "dial") \/ At(c, "wrap") => once = "running"
    /\ \A c, d \in Callers : At(c, "dial") /\ d # c => ~At(d, "dial") /\ ~At(d, "wrap")
    /\ \A c, d \in Callers : At(c, "wrap") /\ d # c => ~At(d, "wrap")
    /\ \A c \in Callers : At(c, "dial") => dials.made = 0
    /\ dials.failed => dials.made = 0 /\ once = "done"
    /\ once = "done" => client \/ dials.failed
    /\ \A c \in Callers : At(c, "have") /\ ~caller[c].got => dials.failed

LEMMA InitClient == Init => ClientInv
  <1>. SUFFICES ASSUME Init PROVE ClientInv
    OBVIOUS
  <1>1. /\ caller \in [Callers -> [pc : CallerPCs, got : BOOLEAN]]
        /\ \A c \in Callers : caller[c].pc = "idle"
    BY DEF Init, CallerPCs
  <1>2. dials \in [made : 0..1, failed : BOOLEAN] /\ dials.made = 0 /\ dials.failed = FALSE
    BY DEF Init
  <1>. QED
    BY <1>1, <1>2 DEF Init, ClientInv, At

LEMMA CallerMoves ==
    ASSUME ClientInv, NEW c \in Callers, NEW pc \in CallerPCs, NEW got \in BOOLEAN,
           Goes(c, pc, got)
    PROVE  /\ caller' \in [Callers -> [pc : CallerPCs, got : BOOLEAN]]
           /\ caller'[c].pc = pc /\ caller'[c].got = got
           /\ \A d \in Callers : d # c => caller'[d] = caller[d]
  BY DEF ClientInv, Goes

LEMMA ClientKeeps ==
    ASSUME ClientInv, NEW c \in Callers,
           Get(c) \/ GetStep(c) \/ Call(c) \/ Recover(c)
    PROVE  ClientInv'
  <1>1. CASE Get(c)
    <2>1. /\ caller' \in [Callers -> [pc : CallerPCs, got : BOOLEAN]]
          /\ caller'[c].pc = "get" /\ caller'[c].got = FALSE
          /\ \A d \in Callers : d # c => caller'[d] = caller[d]
      BY <1>1, CallerMoves DEF Get, CallerPCs
    <2>. QED
      BY <1>1, <2>1 DEF Get, ClientInv, At
  <1>2. CASE Enter(c)
    <2>1. /\ caller' \in [Callers -> [pc : CallerPCs, got : BOOLEAN]]
          /\ caller'[c].pc = "dial" /\ caller'[c].got = FALSE
          /\ \A d \in Callers : d # c => caller'[d] = caller[d]
      BY <1>2, CallerMoves DEF Enter, CallerPCs
    <2>. QED
      BY <1>2, <2>1 DEF Enter, ClientInv, At
  <1>3. CASE Dial(c)
    <2>1. /\ caller' \in [Callers -> [pc : CallerPCs, got : BOOLEAN]]
          /\ caller'[c].pc = "wrap" /\ caller'[c].got = FALSE
          /\ \A d \in Callers : d # c => caller'[d] = caller[d]
      BY <1>3, CallerMoves DEF Dial, CallerPCs
    <2>2. /\ dials' \in [made : 0..1, failed : BOOLEAN]
          /\ dials'.made = 1 /\ dials'.failed = dials.failed
      BY <1>3 DEF Dial, ClientInv
    <2>. QED
      BY <1>3, <2>1, <2>2 DEF Dial, ClientInv, At
  <1>4. CASE DialPanics(c)
    <2>1. /\ caller' \in [Callers -> [pc : CallerPCs, got : BOOLEAN]]
          /\ caller'[c].pc = "panicked" /\ caller'[c].got = FALSE
          /\ \A d \in Callers : d # c => caller'[d] = caller[d]
      BY <1>4, CallerMoves DEF DialPanics, CallerPCs
    <2>2. /\ dials' \in [made : 0..1, failed : BOOLEAN]
          /\ dials'.made = 0 /\ dials'.failed = TRUE
      BY <1>4 DEF DialPanics, ClientInv
    <2>. QED
      BY <1>4, <2>1, <2>2 DEF DialPanics, ClientInv, At
  <1>5. CASE Wrap(c)
    <2>1. /\ caller' \in [Callers -> [pc : CallerPCs, got : BOOLEAN]]
          /\ caller'[c].pc = "have" /\ caller'[c].got = TRUE
          /\ \A d \in Callers : d # c => caller'[d] = caller[d]
      BY <1>5, CallerMoves DEF Wrap, CallerPCs
    <2>. QED
      BY <1>5, <2>1 DEF Wrap, ClientInv, At
  <1>6. CASE Pass(c)
    <2>1. /\ caller' \in [Callers -> [pc : CallerPCs, got : BOOLEAN]]
          /\ caller'[c].pc = "have" /\ caller'[c].got = client
          /\ \A d \in Callers : d # c => caller'[d] = caller[d]
      BY <1>6, CallerMoves DEF Pass, CallerPCs, ClientInv
    <2>. QED
      BY <1>6, <2>1 DEF Pass, ClientInv, At
  <1>7. CASE Call(c) \/ Recover(c)
    <2>1. UNCHANGED <<once, conn, client, dials>>
      BY <1>7 DEF Call, Recover
    <2>2. PICK pc \in {"panicked", "idle"} : Goes(c, pc, FALSE)
      BY <1>7 DEF Call, Recover
    <2>3. /\ caller' \in [Callers -> [pc : CallerPCs, got : BOOLEAN]]
          /\ caller'[c].pc \in {"panicked", "idle"}
          /\ \A d \in Callers : d # c => caller'[d] = caller[d]
      BY <2>2, CallerMoves DEF CallerPCs
    <2>. QED
      BY <2>1, <2>3 DEF ClientInv, At
  <1>. QED
    BY <1>1, <1>2, <1>3, <1>4, <1>5, <1>6, <1>7 DEF GetStep

LEMMA ClientStutters ==
    ASSUME ClientInv, UNCHANGED <<once, client, caller, dials>>,
           conn' \in {"none", "open", "closed"}
    PROVE  ClientInv'
  BY DEF ClientInv, At

-----------------------------------------------------------------------------
(* The theorems.                                                           *)

LEMMA NextKeeps == LifeInv /\ ClientInv /\ [Next]_vars => LifeInv' /\ ClientInv'
  <1>. SUFFICES ASSUME LifeInv, ClientInv, [Next]_vars PROVE LifeInv' /\ ClientInv'
    OBVIOUS
  <1>1. CASE LifeNext /\ UNCHANGED clientVars
    BY <1>1, LifeKeeps, ClientStutters DEF clientVars, ClientInv
  <1>2. ASSUME NEW c \in Callers, Get(c) \/ GetStep(c) \/ Call(c) \/ Recover(c)
        PROVE  LifeInv'
    <2>1. UNCHANGED lifeVars \/ Request("grpc", "profiles")
      BY <1>2 DEF Get, GetStep, Enter, Dial, DialPanics, Wrap, Pass, Call, Recover
    <2>2. Request("grpc", "profiles") => LifeNext
      BY DEF LifeNext, Servers, Services
    <2>. QED
      BY <2>1, <2>2, LifeKeeps, LifeStutters
  <1>3. CASE Destroy
    BY <1>3, LifeStutters, ClientStutters DEF Destroy
  <1>4. CASE UNCHANGED vars
    BY <1>4, LifeStutters, ClientStutters DEF vars, clientVars, ClientInv
  <1>. QED
    BY <1>1, <1>2, <1>3, <1>4, ClientKeeps DEF Next

\* The process that serves and the callers of its client package keep their
\* invariants next to each other.
THEOREM AlwaysSafe == Spec => [](LifeInv /\ ClientInv)
  BY InitLife, InitClient, NextKeeps, PTL DEF Spec, Init

\* The state of the process and of the client package is well formed.
THEOREM TypeCorrect == Spec => []TypeOK
  <1>1. LifeInv /\ ClientInv => TypeOK
    BY LifeInvMeans DEF TypeOK, ClientInv
  <1>. QED BY <1>1, AlwaysSafe, PTL

\* main is whole or not there: its servers take requests, and its services are
\* built, only once everything they use is settled.
THEOREM AlwaysWholeOrNothing == Spec => []WholeOrNothing
  BY LifeInvMeans, AlwaysSafe, PTL

\* main does not return with telemetry that its collector would have taken in
\* time, whatever became of the other signal.
THEOREM AlwaysFlushedOnReturn == Spec => []FlushedOnReturn
  BY LifeInvMeans, AlwaysSafe, PTL

\* However many goroutines call GetIdentityServiceClient, one connection is
\* dialled, and a nil client is handed out only after dialling panicked.
THEOREM AlwaysOneConnection == Spec => []OneConnection
  <1>1. ClientInv => OneConnection
    BY DEF ClientInv, OneConnection
  <1>. QED BY <1>1, AlwaysSafe, PTL

=============================================================================
