------------------------------ MODULE Lifecycle ------------------------------
(***************************************************************************)
(* The identity process from its start to its end: main (server/main.go)   *)
(* and the Init it calls of config, log, repository, redis, telemetry and  *)
(* the Kafka producer, the gRPC and HTTP server goroutines, the lazily     *)
(* built services, the signals, and the flush of the telemetry at the end. *)
(*                                                                         *)
(* What the environment decides (a file, a store, a port, a collector) is  *)
(* a choice of the step that meets it.  The process shares nothing with the *)
(* one the platform starts after it, so that one start is all there is.    *)
(***************************************************************************)
EXTENDS Naturals, Sequences

VARIABLES
    proc,       \* "running", or how it ended: "panicked", "fatal", "killed", "returned"
    main,       \* the call main is at
    ready,      \* the parts whose package variable has the value it keeps
    fatal,      \* the parts whose failure ended the process, or one of its goroutines
    exports,    \* the signals with a provider that exports: "spans", "metrics"
    unsent,     \* the signals with data that is recorded and not exported
    servers,    \* per server goroutine: "none", "starting", "serving" or "failed"
    services,   \* per lazily built service: the parts it was built on, or "none"
    notified,   \* whether signal.Notify was called
    sigCh,      \* the signals in the channel of capacity 1
    expired,    \* whether the 5 seconds of the shutdown context have passed
    collector   \* per signal: "up", "down" or "hung", as the environment has it

processVars == <<main, ready, fatal, exports, unsent, servers, services,
                 notified, sigCh, expired>>
lifeVars == <<proc, processVars, collector>>

Signals == {"spans", "metrics"}
Parts == {"config", "logger", "database", "schema", "redis", "telemetry", "producer"}
Servers == {"grpc", "http"}
Services == {"profiles", "kyc"}

\* What ends the process when it fails; anything else degrades.
Required == {"config", "logger", "database", "schema", "router"} \cup Servers

\* Mutant: the schema is migrated once the service runs.
MigrateLast ==
    <<"config", "logger", "database", "redis", "telemetry", "producer", "grpc", "http",
      "schema", "notify", "wait">>

\* The calls of main, in order.
StartOrder ==
    <<"config", "logger", "database", "schema", "redis", "telemetry", "producer",
      "grpc", "http", "notify", "wait">>

After(at) == CHOOSE next \in {StartOrder[i] : i \in DOMAIN StartOrder} :
                \E i \in DOMAIN StartOrder : StartOrder[i] = at /\ StartOrder[i + 1] = next

LifeInit ==
    /\ proc = "running"
    /\ main = StartOrder[1]
    /\ ready = {} /\ fatal = {}
    /\ exports = {} /\ unsent = {}
    /\ servers = [s \in Servers |-> "none"]
    /\ services = [s \in Services |-> {"none"}]
    /\ notified = FALSE /\ sigCh = 0
    /\ expired = FALSE
    /\ collector \in [Signals -> {"up", "down", "hung"}]

Running(at) == proc = "running" /\ main = at

\* The initialisation of part p ends, or panics.
Decided(p) ==
    /\ main' = After(p)
    /\ ready' = ready \cup {p}
    /\ UNCHANGED <<proc, fatal>>

Panics(p) ==
    /\ proc' = "panicked"
    /\ fatal' = fatal \cup {p}
    /\ UNCHANGED <<main, ready>>

-----------------------------------------------------------------------------
(* The start.                                                              *)

\* config.Init, log.InitLogger, gorm.Open and AutoMigrate.
InitRequired(p) ==
    /\ p \in {"config", "logger", "database", "schema"}
    /\ Running(p)
    /\ Decided(p) \/ Panics(p)
    /\ UNCHANGED <<exports, unsent, servers, services, notified, sigCh, expired,
                   collector>>

\* Mutant: a Redis that does not answer is fatal.
RedisInitOrPanic ==
    /\ Running("redis")
    /\ Decided("redis") \/ Panics("redis")
    /\ UNCHANGED <<exports, unsent, servers, services, notified, sigCh, expired,
                   collector>>

\* Without REDIS_ADDR, or when the Ping fails within 2 seconds, Client is nil.
RedisInit ==
    /\ Running("redis")
    /\ Decided("redis")
    /\ UNCHANGED <<exports, unsent, servers, services, notified, sigCh, expired,
                   collector>>

\* Mutant: the exporters connect before telemetry.Init returns.
TelemetryInitConnects ==
    /\ Running("telemetry")
    /\ \A s \in Signals : collector[s] # "hung"
    /\ exports' = Signals
    /\ Decided("telemetry")
    /\ UNCHANGED <<unsent, servers, services, notified, sigCh, expired, collector>>

\* A local tracer without an exporter when OTLP is not configured, the protocol
\* is not supported or the trace exporter cannot be built; otherwise spans are
\* exported, and metrics too unless their exporter cannot be built.
TelemetryInit ==
    /\ Running("telemetry")
    /\ exports' \in {{}, {"spans"}, Signals}
    /\ Decided("telemetry")
    /\ UNCHANGED <<unsent, servers, services, notified, sigCh, expired, collector>>

\* producer.Ensure: disabled, invalid or impossible to build is the no-op one.
EnsureProducer ==
    /\ Running("producer")
    /\ Decided("producer")
    /\ UNCHANGED <<exports, unsent, servers, services, notified, sigCh, expired,
                   collector>>

GoServer(s) ==
    /\ Running(s)
    /\ main' = After(s)
    /\ servers' = [servers EXCEPT ![s] = "starting"]
    /\ UNCHANGED <<proc, ready, fatal, exports, unsent, services, notified, sigCh,
                   expired, collector>>

Notify ==
    /\ Running("notify")
    /\ main' = After("notify")
    /\ notified' = TRUE
    /\ UNCHANGED <<proc, ready, fatal, exports, unsent, servers, services, sigCh,
                   expired, collector>>

-----------------------------------------------------------------------------
(* The servers.                                                            *)

Built(service) ==
    services' = [services EXCEPT ![service] = IF @ = {"none"} THEN ready ELSE @]

Serving(s) == proc = "running" /\ servers[s] = "serving"

\* NewIdentityService builds the profile service before Serve.
GrpcServes ==
    /\ proc = "running" /\ servers["grpc"] = "starting"
    /\ servers' = [servers EXCEPT !["grpc"] = "serving"]
    /\ Built("profiles")
    /\ UNCHANGED <<proc, main, ready, fatal, exports, unsent, notified, sigCh, expired,
                   collector>>

HttpServes ==
    /\ proc = "running" /\ servers["http"] = "starting"
    /\ servers' = [servers EXCEPT !["http"] = "serving"]
    /\ UNCHANGED <<proc, main, ready, fatal, exports, unsent, services, notified, sigCh,
                   expired, collector>>

\* Mutant: the error is logged and the goroutine ends.
ServerFailsLogged(s) ==
    /\ proc = "running" /\ servers[s] \in {"starting", "serving"}
    /\ servers' = [servers EXCEPT ![s] = "failed"]
    /\ fatal' = fatal \cup {s}
    /\ UNCHANGED <<proc, main, ready, exports, unsent, services, notified, sigCh, expired,
                   collector>>

\* The port is taken, or Serve or Run returns: Fatalf exits, nothing after it
\* and no deferred call runs.
ServerFails(s) ==
    /\ proc = "running" /\ servers[s] \in {"starting", "serving"}
    /\ proc' = "fatal"
    /\ servers' = [servers EXCEPT ![s] = "failed"]
    /\ fatal' = fatal \cup {s}
    /\ UNCHANGED <<main, ready, exports, unsent, services, notified, sigCh, expired,
                   collector>>

\* cors.New panics on a configuration it refuses, in the HTTP goroutine.
NewRouterPanics ==
    /\ proc = "running" /\ servers["http"] = "starting"
    /\ Panics("router")
    /\ UNCHANGED <<exports, unsent, servers, services, notified, sigCh, expired,
                   collector>>

\* A request builds the service it needs and is recorded by what exports.
Request(s, service) ==
    /\ Serving(s)
    /\ s = "grpc" => service = "profiles"
    /\ Built(service)
    /\ unsent' = unsent \cup exports
    /\ UNCHANGED <<proc, main, ready, fatal, exports, servers, notified, sigCh, expired,
                   collector>>

\* The batcher of the spans, and the periodic reader of the metrics.
Export(signal) ==
    /\ proc = "running" /\ signal \in unsent
    /\ collector[signal] = "up"
    /\ unsent' = unsent \ {signal}
    /\ UNCHANGED <<proc, main, ready, fatal, exports, servers, services, notified, sigCh,
                   expired, collector>>

-----------------------------------------------------------------------------
(* The end.                                                                *)

\* SIGINT or SIGTERM: fatal until Notify, then held by the channel or dropped.
Signal ==
    /\ proc = "running"
    /\ IF notified THEN sigCh' = 1 /\ UNCHANGED proc
                   ELSE proc' = "killed" /\ UNCHANGED sigCh
    /\ UNCHANGED <<main, ready, fatal, exports, unsent, servers, services, notified,
                   expired, collector>>

Receive ==
    /\ Running("wait")
    /\ sigCh = 1
    /\ sigCh' = 0
    /\ main' = "metrics"
    /\ UNCHANGED <<proc, ready, fatal, exports, unsent, servers, services, notified,
                   expired, collector>>

\* A provider's Shutdown(ctx): it sends what is left, fails, or waits for ctx,
\* and records nothing from then on.
Shutdown(signal) ==
    /\ signal \in exports => collector[signal] # "hung" \/ expired
    /\ unsent' = IF collector[signal] = "up" /\ ~expired THEN unsent \ {signal} ELSE unsent
    /\ exports' = exports \ {signal}

\* Mutant: the error of the metrics shutdown is returned at once.
ShutdownMetricsOrReturn ==
    /\ Running("metrics")
    /\ Shutdown("metrics")
    /\ IF "metrics" \in exports /\ (collector["metrics"] # "up" \/ expired)
       THEN proc' = "returned" /\ UNCHANGED main
       ELSE main' = "spans" /\ UNCHANGED proc
    /\ UNCHANGED <<ready, fatal, servers, services, notified, sigCh,
                   expired, collector>>

ShutdownMetrics ==
    /\ Running("metrics")
    /\ Shutdown("metrics")
    /\ main' = "spans"
    /\ UNCHANGED <<proc, ready, fatal, servers, services, notified, sigCh,
                   expired, collector>>

\* main returns after the deferred call, with the servers still running.
ShutdownSpans ==
    /\ Running("spans")
    /\ Shutdown("spans")
    /\ proc' = "returned"
    /\ UNCHANGED <<main, ready, fatal, servers, services, notified, sigCh,
                   expired, collector>>

\* Mutant: the shutdown context has no deadline.
NoDeadline ==
    /\ proc = "running" /\ main \in {"metrics", "spans"}
    /\ UNCHANGED lifeVars

DeadlinePasses ==
    /\ proc = "running" /\ main \in {"metrics", "spans"}
    /\ ~expired
    /\ expired' = TRUE
    /\ UNCHANGED <<proc, main, ready, fatal, exports, unsent, servers, services,
                   notified, sigCh, collector>>

-----------------------------------------------------------------------------

MainStep ==
    \/ \E p \in Required : InitRequired(p)
    \/ RedisInit \/ TelemetryInit \/ EnsureProducer
    \/ \E s \in Servers : GoServer(s)
    \/ Notify \/ Receive \/ ShutdownMetrics \/ ShutdownSpans

ServerStep == GrpcServes \/ HttpServes

LifeNext ==
    \/ MainStep
    \/ ServerStep
    \/ \E s \in Servers : ServerFails(s)
    \/ NewRouterPanics
    \/ \E s \in Servers, service \in Services : Request(s, service)
    \/ \E signal \in Signals : Export(signal)
    \/ Signal
    \/ DeadlinePasses

-----------------------------------------------------------------------------
(* Properties.                                                             *)

\* The shape of the state.
LifeTypeOK ==
    /\ proc \in {"running", "panicked", "fatal", "killed", "returned"}
    /\ main \in {StartOrder[i] : i \in DOMAIN StartOrder} \cup {"metrics", "spans"}
    /\ ready \subseteq Parts
    /\ fatal \subseteq Parts \cup Required
    /\ unsent \subseteq Signals /\ exports \subseteq Signals
    /\ servers \in [Servers -> {"none", "starting", "serving", "failed"}]
    /\ services \in [Services -> SUBSET (Parts \cup {"none"})]
    /\ notified \in BOOLEAN /\ expired \in BOOLEAN
    /\ sigCh \in 0..1

\* The process is whole or not there: a server that takes requests has everything
\* they may use, a service, which is built once, was built around stores and a
\* producer that are settled, and nothing goes on when one of the servers failed.
WholeOrNothing ==
    proc = "running" =>
        /\ \A s \in Servers : Serving(s) => Parts \subseteq ready
        /\ \A service \in Services :
             services[service] # {"none"} => Parts \subseteq services[service]
        /\ \A s \in Servers : servers[s] # "failed"

\* What a provider held when the shutdown began and its collector would have
\* taken is not lost when main returns,
\* whatever became of the other signal, unless the 5 seconds were over.
FlushedOnReturn ==
    proc = "returned" /\ ~expired => \A s \in unsent : collector[s] # "up"

\* Redis, the OTLP collector and Kafka neither delay nor stop the process: both
\* servers come to take requests, unless a signal or the failure of a part the
\* process cannot do without ends it first.
EventuallyServes ==
    proc = "running" ~>
        \/ \A s \in Servers : servers[s] = "serving"
        \/ proc \in {"killed", "returned"} \/ fatal \cap Required # {}

\* A signal that reached the channel ends the process, also when the collectors
\* hang.
SignalEnds == sigCh = 1 ~> proc # "running"

=============================================================================
