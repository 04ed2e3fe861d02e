--------------------------- MODULE ServiceLifecycle ---------------------------
(***************************************************************************)
(* How the processes of the system start and stop: index.ts, app.ts,       *)
(* local-runtime.ts, data-plane-runtime.ts, provider-runtime.ts, the       *)
(* services under services/ and ResourceScope.                             *)
(*                                                                         *)
(* A process runs one service (SERVICE_MODE).  Its start acquires one      *)
(* resource after another and may fail at each; what was acquired is then  *)
(* released as a stop would release it.  A step that acquires nothing      *)
(* (decoding configuration, a first health check or flush) is Check.       *)
(* Signals are handled once the service runs; before, they kill it.        *)
(***************************************************************************)
EXTENDS Integers, Sequences, FiniteSets, SequencesExt

CONSTANTS
    Processes,   \* the processes
    Modes        \* the services that they may run

Services ==
    {"data-plane", "control-plane", "local", "health-aggregator", "status", "usage-accounting",
     "notification", "canary"}

ASSUME LifecycleConstants == Modes \subseteq Services

VARIABLES
    process      \* process[p]: its service, where it is, its next step and what it holds

Check == "check"

----------------------------------------------------------------------------
(* What each service acquires, in order                                      *)

startDataPlaneApplication == <<"store", "providers", "forward", "socks5", Check>>
startControlPlaneApplication == <<"store", "control">>
startStandaloneApplication == <<"store", "providers", "forward", "socks5", "control", Check>>
startHealthAggregatorService == <<"store", "providers", Check, "server">>
startStatusApplicationService == <<"store", "server">>
startUsageAccountingService == <<"store", Check, "server", "timer">>
startNotificationService == <<"store", Check, "server", "timer">>
startPublicCanaryService == <<Check, "updater", "server">>

startService(mode) ==
    CASE mode = "data-plane" -> startDataPlaneApplication
      [] mode = "control-plane" -> startControlPlaneApplication
      [] mode = "local" -> startStandaloneApplication
      [] mode = "health-aggregator" -> startHealthAggregatorService
      [] mode = "status" -> startStatusApplicationService
      [] mode = "usage-accounting" -> startUsageAccountingService
      [] mode = "notification" -> startNotificationService
      [] mode = "canary" -> startPublicCanaryService

\* index.ts and local-runtime.ts: the telemetry is there before the service.
Startup(mode) == <<"telemetry">> \o startService(mode)

----------------------------------------------------------------------------
(* The order of the releases                                                 *)

\* Mutant of close: the resources are released in the order of their acquisition.
closeInOrder(steps) == [i \in DOMAIN steps |-> {steps[i]}]

\* ResourceScope.close: one after the other, the last acquired first.  A release that
\* fails does not keep the others from being tried.
close(steps) == [i \in DOMAIN steps |-> {Reverse(steps)[i]}]

\* The servers of an application are stopped together, then its routing runtime: the
\* providers and the store.
stopDataPlane == <<{"forward", "socks5"}, {"providers"}, {"store"}>>
stopControlPlane == <<{"control"}, {"store"}>>
stopStandalone == <<{"control", "forward", "socks5"}, {"providers"}, {"store"}>>

Releases(mode) ==
    (CASE mode = "data-plane" -> stopDataPlane
       [] mode = "control-plane" -> stopControlPlane
       [] mode = "local" -> stopStandalone
       [] OTHER -> close(startService(mode))) \o <<{"telemetry"}>>

\* The resources whose release is under way: the first group of which something is held.
Releasing(p) ==
    LET groups == Releases(process[p].mode)
        left == {i \in DOMAIN groups : groups[i] \cap process[p].held # {}}
    IN  IF left = {} THEN {} ELSE groups[CHOOSE i \in left : \A j \in left : i <= j] \cap process[p].held

----------------------------------------------------------------------------
(* Steps                                                                     *)

New(mode) == [mode |-> mode, pc |-> "new", next |-> 1, held |-> {}]

Running(mode) ==
    [mode |-> mode, pc |-> "running", next |-> Len(Startup(mode)) + 1, held |-> Range(Startup(mode)) \ {Check}]

Launch(p) ==
    /\ process[p].pc = "new"
    /\ process' = [process EXCEPT ![p] = [@ EXCEPT !.pc = "starting"]]

\* The next step succeeds; after the last one the service runs.
StartStep(p) ==
    LET steps == Startup(process[p].mode)
        step == steps[process[p].next]
    IN  /\ process[p].pc = "starting"
        /\ process' = [process EXCEPT ![p] =
               [@ EXCEPT !.held = process[p].held \cup ({step} \ {Check}),
                         !.next = process[p].next + 1,
                         !.pc = IF process[p].next = Len(steps) THEN "running" ELSE "starting"]]

\* It fails, and what was acquired is released.
StartFails(p) ==
    /\ process[p].pc = "starting" /\ process[p].next > 1
    /\ process' = [process EXCEPT ![p] = [@ EXCEPT !.pc = "stopping"]]

\* SIGINT or SIGTERM.
Signal(p) ==
    /\ process[p].pc = "running"
    /\ process' = [process EXCEPT ![p] = [@ EXCEPT !.pc = "stopping"]]

\* One release is done; after the last one the process exits.
Release(p, resource) ==
    /\ process[p].pc = "stopping" /\ resource \in Releasing(p)
    /\ process' = [process EXCEPT ![p] =
           [@ EXCEPT !.held = process[p].held \ {resource},
                     !.pc = IF process[p].held = {resource} THEN "exited" ELSE "stopping"]]

\* The process is killed, or gets a signal before it handles them.
Kill(p) ==
    /\ process[p].pc \in {"starting", "running", "stopping"}
    /\ process' = [process EXCEPT ![p] = [@ EXCEPT !.pc = "exited", !.held = {}]]

----------------------------------------------------------------------------
(* Properties                                                                *)

\* What a resource needs to work: the telemetry, the store it reads and writes, and for
\* those that route traffic or check health the providers.
Uses(mode, resource) ==
    IF resource = "telemetry" THEN {}
    ELSE IF resource \in {"store", "providers", "updater"} \/ mode = "canary" THEN {"telemetry"}
    ELSE IF resource \in {"forward", "socks5"} \/ mode \in {"local", "health-aggregator"}
         THEN {"telemetry", "store", "providers"}
    ELSE {"telemetry", "store"}

\* No service goes on with a resource after something that it uses was released, whether
\* it stops or fails at any step of its start, and no resource is left for which nothing
\* is about to be released (ResourceScope, the stops and catches of app.ts).
OrderlyShutdown ==
    \A p \in Processes :
        /\ \A resource \in process[p].held : Uses(process[p].mode, resource) \subseteq process[p].held
        /\ process[p].pc = "stopping" => Releasing(p) # {}
===============================================================================
