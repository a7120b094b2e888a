------------------------------ MODULE Lifecycle ------------------------------
(***************************************************************************)
(* The life of one service process: what run() opens and in which order,    *)
(* the goroutines it starts, the HTTP servers it waits for, and the         *)
(* deferred closes that undo the opening.  SIGTERM cancels the context the  *)
(* servers are run with and the goroutines pass to every statement; the     *)
(* context of a request is not derived from it.  run() waits for the        *)
(* servers, never for the goroutines.                                       *)
(*                                                                          *)
(* A user is a worker's turn or a request in flight.  It is inside a        *)
(* resource while it holds a connection of the pool, a polled Kafka record  *)
(* or the mutex of the Xray manager (of the process Manager: Close of the   *)
(* SystemdManager does nothing).  The database answers: a statement fails   *)
(* because its context is cancelled or the pool is closed.                  *)
(***************************************************************************)
EXTENDS Naturals, Sequences, FiniteSets

CONSTANTS
    Services,   \* the services to run, records of the form below
    Slots       \* bound: requests in flight at one time

VARIABLES
    svc,        \* the service
    phase,      \* of run(): "opening", "running", "closing" or "exited"
    opened,     \* how many of svc.opens are open
    closing,    \* the resource whose Close has begun and waits, or "none"
    cancelled,  \* the signal context
    halted,     \* the context telegram-bot derives from it for its two servers
    server,     \* "off", "serving", "draining" or "returned", by server
    turn,       \* "off", "idle" or "busy", by user; a request keeps its server
    inside,     \* the resources a user is inside of
    late,       \* servers that returned with requests in flight
    hurt,       \* users that met a closed resource
    kept,       \* consumers that stored the record they polled
    cut         \* consumers that gave up a record they polled

lifeVars == <<svc, phase, opened, closing, cancelled, halted, server, turn, inside, late, hurt,
              kept, cut>>

-----------------------------------------------------------------------------
(* The services: run() of each main.go *)

Common == <<"telemetry", "logger">>

ProvisioningService ==
    [opens |-> Common \o <<"store", "kafka">>, servers |-> {"http"}, consumers |-> {"consumer"},
     workers |-> {"health", "reconciliation", "operation", "outbox"}, needs |-> "store"]
AccessService ==
    [opens |-> Common \o <<"store", "redis", "kafka">>, servers |-> {"http"},
     consumers |-> {"consumer"}, workers |-> {"worker"}, needs |-> "store"]
\* Mutant: the store is opened last, and so closed first.
StoreOpenedLast ==
    [opens |-> Common \o <<"kafka", "store">>, servers |-> {"http"},
     consumers |-> {"consumer"}, workers |-> {"worker"}, needs |-> "store"]

SubscriptionService ==
    [opens |-> Common \o <<"store", "kafka">>, servers |-> {"http"},
     consumers |-> {"consumer"}, workers |-> {"worker"}, needs |-> "store"]
NotificationService ==
    [opens |-> Common \o <<"store", "kafka">>, servers |-> {"http"},
     consumers |-> {"consumer"}, workers |-> {"worker"}, needs |-> "store"]
BillingService ==
    [opens |-> Common \o <<"store", "kafka">>, servers |-> {"http"},
     consumers |-> {}, workers |-> {"worker"}, needs |-> "store"]
IdentityService ==
    [opens |-> Common \o <<"store">>, servers |-> {"http"}, consumers |-> {},
     workers |-> {}, needs |-> "store"]
CatalogService ==
    [opens |-> Common \o <<"store">>, servers |-> {"http"}, consumers |-> {},
     workers |-> {}, needs |-> "store"]
AdminService ==
    [opens |-> Common \o <<"store">>, servers |-> {"http"}, consumers |-> {},
     workers |-> {}, needs |-> "store"]
NodeAgentService ==
    [opens |-> Common \o <<"xray">>, servers |-> {"http"}, consumers |-> {},
     workers |-> {}, needs |-> "xray"]
TelegramBotService ==
    [opens |-> Common \o <<"redis">>, servers |-> {"http", "internal"}, consumers |-> {},
     workers |-> {}, needs |-> "redis"]

\* Close of these waits for their users; the others break what is under way.
Waited == {"store", "kafka", "xray"}

AllServers == UNION {s.servers : s \in Services}
Goroutines == {"go"} \X UNION {s.workers \cup s.consumers : s \in Services}
Users == Goroutines \cup (AllServers \X Slots)

Open == {svc.opens[i] : i \in 1..opened}
IsRequest(u) == u[1] \in AllServers
Consumes(u) == u[2] \in svc.consumers
InFlight(s) == {u \in {s} \X Slots : turn[u] = "busy"}

NothingOpenIn(p) ==
    /\ svc \in Services
    /\ phase = p /\ opened = 0 /\ closing = "none"
    /\ cancelled = FALSE /\ halted = FALSE
    /\ server = [s \in AllServers |-> "off"]
    /\ turn = [u \in Users |-> "off"]
    /\ inside = [u \in Users |-> {}]
    /\ late = {} /\ hurt = {} /\ kept = {} /\ cut = {}

LifeInit == NothingOpenIn("opening")

records == <<kept, cut>>
traffic == <<turn, inside, hurt, records>>
servers == <<server, late, halted>>

-----------------------------------------------------------------------------
(* run() *)

OpenNext ==
    /\ phase = "opening" /\ opened < Len(svc.opens)
    /\ opened' = opened + 1
    /\ UNCHANGED <<svc, phase, closing, cancelled, servers, traffic>>

\* Any step of the start fails: what is open is closed again.
OpenFails ==
    /\ phase = "opening"
    /\ phase' = "closing"
    /\ UNCHANGED <<svc, opened, closing, cancelled, servers, traffic>>

\* The workers are started, then the servers.
Serve ==
    /\ phase = "opening" /\ opened = Len(svc.opens)
    /\ phase' = "running"
    /\ server' = [s \in AllServers |-> IF s \in svc.servers THEN "serving" ELSE "off"]
    /\ turn' = [u \in Users |-> IF \/ u[1] \in svc.servers
                                   \/ u[2] \in svc.workers \cup svc.consumers THEN "idle" ELSE "off"]
    /\ UNCHANGED <<svc, opened, closing, cancelled, halted, inside, late, hurt, records>>

\* The signal context is cancelled: servers shut down, goroutines begin nothing new
\* and what they are in the middle of is aborted, unless it commits just before.
Signal ==
    /\ ~cancelled /\ phase # "exited"
    /\ cancelled' = TRUE
    /\ UNCHANGED <<svc, phase, opened, closing, servers, traffic>>

\* ListenAndServe returns an error; requests it accepted go on.
ListenerFails(s) ==
    /\ server[s] = "serving"
    /\ server' = [server EXCEPT ![s] = "returned"]
    /\ late' = late \cup {s}
    /\ UNCHANGED <<svc, phase, opened, closing, cancelled, halted, traffic>>

\* ctx.Done: Shutdown closes the listener ...
Shutdown(s) ==
    /\ server[s] = "serving" /\ (cancelled \/ halted)
    /\ server' = [server EXCEPT ![s] = "draining"]
    /\ UNCHANGED <<svc, phase, opened, closing, cancelled, halted, late, traffic>>

\* ... and waits for the requests in flight,
Drained(s) ==
    /\ server[s] = "draining" /\ InFlight(s) = {}
    /\ server' = [server EXCEPT ![s] = "returned"]
    /\ UNCHANGED <<svc, phase, opened, closing, cancelled, halted, late, traffic>>

\* but no longer than the shutdown timeout.
DrainTimesOut(s) ==
    /\ server[s] = "draining" /\ InFlight(s) # {}
    /\ server' = [server EXCEPT ![s] = "returned"]
    /\ late' = late \cup {s}
    /\ UNCHANGED <<svc, phase, opened, closing, cancelled, halted, traffic>>

\* The first of telegram-bot's servers has returned: the other one is stopped.
HaltServers ==
    /\ phase = "running" /\ ~halted /\ Cardinality(svc.servers) > 1
    /\ \E s \in svc.servers : server[s] = "returned"
    /\ halted' = TRUE
    /\ UNCHANGED <<svc, phase, opened, closing, cancelled, server, late, traffic>>

ServersReturned ==
    /\ phase = "running" /\ \A s \in svc.servers : server[s] = "returned"
    /\ phase' = "closing"
    /\ UNCHANGED <<svc, opened, closing, cancelled, servers, traffic>>

\* Deferred calls run in the reverse order.
LastOpened == svc.opens[opened]

\* From here on the resource turns new users away.
CloseLast ==
    /\ phase = "closing" /\ closing = "none" /\ opened > 0
    /\ closing' = LastOpened
    /\ opened' = opened - 1
    /\ UNCHANGED <<svc, phase, cancelled, servers, traffic>>

Closed ==
    /\ closing # "none"
    /\ LET users == {u \in Users : closing \in inside[u]}
       IN /\ closing \in Waited => users = {}
          /\ inside' = [u \in Users |-> inside[u] \ {closing}]
          /\ hurt' = hurt \cup users
    /\ closing' = "none"
    /\ UNCHANGED <<svc, phase, opened, cancelled, servers, turn, records>>

\* The process ends, and every goroutine with it.
Exit ==
    /\ phase = "closing" /\ closing = "none" /\ opened = 0
    /\ phase' = "exited"
    /\ turn' = [u \in Users |-> "off"] /\ inside' = [u \in Users |-> {}]
    /\ UNCHANGED <<svc, opened, closing, cancelled, servers, hurt, records>>

-----------------------------------------------------------------------------
(* Requests and goroutines *)

Accept(u) ==
    /\ IsRequest(u) /\ turn[u] = "idle" /\ server[u[1]] = "serving"
    /\ turn' = [turn EXCEPT ![u] = "busy"]
    /\ UNCHANGED <<svc, phase, opened, closing, cancelled, servers, inside, hurt, records>>

\* A loop begins its next turn; a consumer's turn begins with a poll.
BeginTurn(u) ==
    /\ u \in Goroutines /\ turn[u] = "idle" /\ ~cancelled
    /\ Consumes(u) => "kafka" \in Open
    /\ turn' = [turn EXCEPT ![u] = "busy"]
    /\ inside' = [inside EXCEPT ![u] = IF Consumes(u) THEN {"kafka"} ELSE {}]
    /\ UNCHANGED <<svc, phase, opened, closing, cancelled, servers, hurt, records>>

\* It needs the store (redis, Xray) and finds it open or closed.  With a cancelled
\* context nothing is acquired; a consumer makes one transaction for its record.
Enter(u) ==
    /\ turn[u] = "busy" /\ svc.needs \notin inside[u]
    /\ u \in Goroutines => ~cancelled /\ u \notin kept
    /\ IF svc.needs \in Open
       THEN inside' = [inside EXCEPT ![u] = @ \cup {svc.needs}] /\ UNCHANGED hurt
       ELSE hurt' = hurt \cup {u} /\ UNCHANGED inside
    /\ UNCHANGED <<svc, phase, opened, closing, cancelled, servers, turn, records>>

Leave(u) ==
    /\ svc.needs \in inside[u]
    /\ inside' = [inside EXCEPT ![u] = @ \ {svc.needs}]
    /\ UNCHANGED <<svc, phase, opened, closing, cancelled, servers, turn, hurt>>

\* The statement is done, a consumer's record stored ...
Commit(u) ==
    /\ Leave(u)
    /\ kept' = IF u \in Goroutines /\ Consumes(u) THEN kept \cup {u} ELSE kept
    /\ UNCHANGED cut

\* ... or aborted, its context being cancelled.
Abort(u) ==
    /\ u \in Goroutines /\ cancelled
    /\ Leave(u)
    /\ UNCHANGED records

\* The answer is written.  A consumer's turn is over when its record is stored and
\* its offset committed, or when it gives the record up, rewinds, and returns;
\* AllowRebalance is called.
EndTurn(u) ==
    /\ turn[u] = "busy" /\ svc.needs \notin inside[u]
    /\ "kafka" \in inside[u] => u \in kept \cup hurt \/ cancelled
    /\ turn' = [turn EXCEPT ![u] = "idle"]
    /\ inside' = [inside EXCEPT ![u] = {}]
    /\ kept' = kept \ {u}
    /\ cut' = IF "kafka" \in inside[u] /\ u \notin kept THEN cut \cup {u} ELSE cut
    /\ UNCHANGED <<svc, phase, opened, closing, cancelled, servers, hurt>>

-----------------------------------------------------------------------------
Main ==
    \/ OpenNext \/ Serve \/ HaltServers \/ ServersReturned \/ CloseLast \/ Closed \/ Exit
    \/ \E s \in AllServers : Shutdown(s) \/ Drained(s) \/ DrainTimesOut(s)

LifeNext ==
    \/ Main \/ OpenFails \/ Signal
    \/ \E s \in AllServers : ListenerFails(s)
    \/ \E u \in Users : \/ Accept(u) \/ BeginTurn(u) \/ Enter(u)
                        \/ Commit(u) \/ Abort(u) \/ EndTurn(u)

\* A statement nothing bounds: no service sets a statement timeout, a request's
\* context is not cancelled by Shutdown, and the goroutines' not by the failure of
\* a listener.
Unbounded(u) == "store" \in inside[u] /\ (IsRequest(u) \/ ~cancelled)

\* run() goes on whenever it can.  A user of a resource that is being closed leaves
\* it when its statement is cancelled or, in the node agent, times out; a consumer
\* goes on with the record it polled.  Nothing is assumed of unbounded statements.
LifeFairness ==
    /\ WF_lifeVars(Main)
    /\ WF_lifeVars(\E u \in Users : /\ closing \in inside[u] /\ ~Unbounded(u)
                                    /\ Commit(u) \/ Abort(u))
    /\ WF_lifeVars(\E u \in Goroutines : "kafka" \in inside[u] /\ (Enter(u) \/ EndTurn(u)))

-----------------------------------------------------------------------------
(* Properties *)

\* A request that was accepted is served with everything it needs: a stop takes
\* nothing away from it, unless its server's listener failed or the shutdown
\* timeout ran out (httpserver.Run returns before the deferred closes run).
DrainedBeforeClosed ==
    \A u \in hurt : IsRequest(u) => u[1] \in late

\* The store is not closed under a polled record: as long as a consumer holds one,
\* Kafka's Close waits for it and the store, opened before, is still open.
PolledFindsStore ==
    \A u \in Goroutines : "kafka" \in inside[u] => u \notin hurt /\ "store" \in Open

\* A polled record is given up, to be polled again, only because SIGTERM cancelled
\* the consumer's context: when run() stops for a listener that failed, the
\* deferred closes let the consumer store its record and commit the offset.
CutOnlyBySignal == cut # {} => cancelled

\* A stop closes nothing that is in use: neither under a request that was accepted
\* in time nor under a polled record, which only the cancelled context cuts off.
ShutdownIsClean == DrainedBeforeClosed /\ PolledFindsStore /\ CutOnlyBySignal

\* Close waits for a statement nothing bounds.
HeldByStatement == \E u \in Users : closing \in inside[u] /\ Unbounded(u)

\* A process that is told to stop, or loses a listener, ends, although Close waits
\* for users and telegram-bot waits for both its servers; unless it waits for good
\* for a statement that never ends and that nothing bounds.
ProcessEnds ==
    \/ <>[]HeldByStatement
    \/ []<>(cancelled \/ (\E s \in AllServers : server[s] = "returned") => phase = "exited")
=============================================================================
