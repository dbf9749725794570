--------------------------- MODULE ClientLibrary ---------------------------
(***************************************************************************)
(* The client package (client/init.go) in a process that calls the         *)
(* identity service of Lifecycle: GetIdentityServiceClient, which dials    *)
(* once for all callers, the calls made with what it returned, and         *)
(* Destroy.  grpc.NewClient connects lazily, and again whenever it has to, *)
(* so that only the call itself meets the server.                          *)
(***************************************************************************)
EXTENDS Lifecycle

CONSTANT Callers        \* goroutines that may use the package at the same time

VARIABLES
    once,       \* clientSyncOnce: "new", "running" or "done"
    conn,       \* the package's connection: "none", "open" or "closed"
    client,     \* whether the package's client is set
    caller,     \* per caller: [pc, got], got says whether it holds a client
    dials       \* history: how often NewClient succeeded, and whether it failed

clientVars == <<once, conn, client, caller, dials>>
vars == <<lifeVars, clientVars>>

CallerPCs == {"idle", "get", "dial", "wrap", "have", "panicked"}

Init ==
    /\ LifeInit
    /\ once = "new"
    /\ conn = "none"
    /\ client = FALSE
    /\ caller = [c \in Callers |-> [pc |-> "idle", got |-> FALSE]]
    /\ dials = [made |-> 0, failed |-> FALSE]

Goes(c, pc, got) == caller' = [caller EXCEPT ![c] = [pc |-> pc, got |-> got]]
At(c, pc) == caller[c].pc = pc

-----------------------------------------------------------------------------
(* GetIdentityServiceClient.                                               *)

Get(c) ==
    /\ At(c, "idle")
    /\ Goes(c, "get", FALSE)
    /\ UNCHANGED <<lifeVars, once, conn, client, dials>>

\* Mutant: the client is dialled when it is nil.
EnterUnguarded(c) ==
    /\ At(c, "get")
    /\ ~client
    /\ once' = "running"
    /\ Goes(c, "dial", FALSE)
    /\ UNCHANGED <<lifeVars, conn, client, dials>>

Enter(c) ==
    /\ At(c, "get")
    /\ once = "new"
    /\ once' = "running"
    /\ Goes(c, "dial", FALSE)
    /\ UNCHANGED <<lifeVars, conn, client, dials>>

Dial(c) ==
    /\ At(c, "dial")
    /\ conn' = "open"
    /\ dials' = [dials EXCEPT !.made = @ + 1]
    /\ Goes(c, "wrap", FALSE)
    /\ UNCHANGED <<lifeVars, once, client>>

\* A nil config or a target NewClient refuses: the panic leaves Do, which counts
\* as done.
DialPanics(c) ==
    /\ At(c, "dial")
    /\ once' = "done"
    /\ dials' = [dials EXCEPT !.failed = TRUE]
    /\ Goes(c, "panicked", FALSE)
    /\ UNCHANGED <<lifeVars, conn, client>>

Wrap(c) ==
    /\ At(c, "wrap")
    /\ client' = TRUE
    /\ once' = "done"
    /\ Goes(c, "have", TRUE)
    /\ UNCHANGED <<lifeVars, conn, dials>>

\* Mutant: a caller does not wait for the one that dials.
PassEarly(c) ==
    /\ At(c, "get")
    /\ once # "new"
    /\ Goes(c, "have", client)
    /\ UNCHANGED <<lifeVars, once, conn, client, dials>>

\* Mutant: who finds no client asks again.
PassWithClient(c) ==
    /\ At(c, "get")
    /\ once = "done"
    /\ Goes(c, IF client THEN "have" ELSE "idle", client)
    /\ UNCHANGED <<lifeVars, once, conn, client, dials>>

\* Every other caller waits for Do and returns client, nil or not, and no error.
Pass(c) ==
    /\ At(c, "get")
    /\ once = "done"
    /\ Goes(c, "have", client)
    /\ UNCHANGED <<lifeVars, once, conn, client, dials>>

-----------------------------------------------------------------------------
(* Using it.                                                               *)

\* A call through a nil client panics; any other is answered or returns an
\* error, and answered only over an open connection to a server that serves.
Call(c) ==
    /\ At(c, "have")
    /\ \/ ~caller[c].got /\ Goes(c, "panicked", FALSE) /\ UNCHANGED lifeVars
       \/ /\ caller[c].got
          /\ Goes(c, "idle", FALSE)
          /\ \/ conn = "open" /\ Request("grpc", "profiles")
             \/ UNCHANGED lifeVars
    /\ UNCHANGED <<once, conn, client, dials>>

\* The caller's own server recovers and serves its next request.
Recover(c) ==
    /\ At(c, "panicked")
    /\ Goes(c, "idle", FALSE)
    /\ UNCHANGED <<lifeVars, once, conn, client, dials>>

\* The connection is closed and kept, so that nobody dials again.
Destroy ==
    /\ conn = "open"
    /\ conn' = "closed"
    /\ UNCHANGED <<lifeVars, once, client, caller, dials>>

-----------------------------------------------------------------------------

GetStep(c) == Enter(c) \/ Dial(c) \/ DialPanics(c) \/ Wrap(c) \/ Pass(c)

Next ==
    \/ LifeNext /\ UNCHANGED clientVars
    \/ \E c \in Callers : Get(c) \/ GetStep(c) \/ Call(c) \/ Recover(c)
    \/ Destroy

\* Fairness: the goroutines of both processes are scheduled, and the clock of
\* the shutdown context runs.
Spec ==
    /\ Init /\ [][Next]_vars
    /\ WF_vars(MainStep /\ UNCHANGED clientVars)
    /\ WF_vars(GrpcServes /\ UNCHANGED clientVars)
    /\ WF_vars(HttpServes /\ UNCHANGED clientVars)
    /\ WF_vars(DeadlinePasses /\ UNCHANGED clientVars)
    /\ \A c \in Callers : WF_vars(GetStep(c))

-----------------------------------------------------------------------------
(* Properties.                                                             *)

\* The shape of the state.
TypeOK ==
    /\ LifeTypeOK
    /\ once \in {"new", "running", "done"}
    /\ conn \in {"none", "open", "closed"}
    /\ client \in BOOLEAN
    /\ caller \in [Callers -> [pc : CallerPCs, got : BOOLEAN]]
    /\ dials \in [made : 0..1, failed : BOOLEAN]

\* However many goroutines ask first, whenever the connection is destroyed, one
\* connection is dialled, none in a process where dialling failed, and a caller
\* is handed a nil client, with a nil error, only there.  Whether the connection is
\* still open is not said: after Destroy a caller is handed the closed one.
OneConnection ==
    /\ dials.made <= 1 /\ (dials.failed => dials.made = 0)
    /\ \A c \in Callers : At(c, "have") /\ ~caller[c].got => dials.failed

\* Whoever asks for the client gets an answer or a panic, also behind a caller
\* whose dialling panicked.
CallersReturn ==
    \A c \in Callers : At(c, "get") ~> caller[c].pc \in {"have", "panicked"}

=============================================================================
