----------------------------- MODULE HostSystem -----------------------------
(***************************************************************************)
(* JobEngine and the control routes on a host that the watchdog repairs:   *)
(* three goroutines that share the state file and, but for the engine, the *)
(* host gate.  Of Reconcile only what can touch the host is kept, from     *)
(* taking the gate to the end of the repair; its record, its budget and the*)
(* cancellation of a repair in every detail are in Watchdog.               *)
(***************************************************************************)
EXTENDS JobEngine

VARIABLE wpc        \* where Reconcile is
systemVars == <<vars, wpc>>

SystemInit == Init /\ wpc = "idle"

Holding == wpc \in {"confirm", "repair", "window"}

WatchdogGoto(s) == wpc' = s

-----------------------------------------------------------------------------
\* BeginRepair: no request holds the gate.  The decision to repair was made
\* without the gate, on a desired state and observations that may be out of date
\* by now; so nothing is asked of them here.
TakeGate ==
    /\ wpc = "idle" /\ pc # "down" /\ gateFree
    /\ WatchdogGoto("confirm") /\ UNCHANGED vars

\* Mutant: the desired state is not looked at again under the gate.
ConfirmNothing ==
    /\ wpc = "confirm"
    /\ WatchdogGoto("repair") /\ UNCHANGED vars

\* The desired state, read again under the gate; the load may be cancelled.
Confirm ==
    /\ wpc = "confirm"
    /\ \/ desired = "running" /\ WatchdogGoto("repair")
       \/ WatchdogGoto("idle")
    /\ UNCHANGED vars

\* RepairWatchdog starts what is configured, unless it fails or is cancelled
\* before; then its confirmation window.
RepairWatchdog ==
    /\ wpc = "repair"
    /\ UpFails
    /\ WatchdogGoto("window")
    /\ UNCHANGED <<fileVars, env, data, backupVars, engineVars, request, faults>>

ReleaseRepair ==
    /\ wpc = "window"
    /\ WatchdogGoto("idle") /\ UNCHANGED vars

Reconcile ==
    TakeGate \/ Confirm \/ RepairWatchdog \/ ReleaseRepair

-----------------------------------------------------------------------------
\* The routes that change the state wait for the gate (BeginMutation); a request
\* whose preflight has passed waits there, and one that holds it has read the
\* version.
UngatedRoutes == ControlStep /\ UNCHANGED wpc   \* mutant: no BeginMutation
GatedRoutes ==
    /\ \/ CreatePreflight \/ CreateSave
       \/ ~Holding /\ (CreateReadVersion \/ StartRestart \/ setDesiredState)
    /\ UNCHANGED wpc

SystemNext ==
    \/ Reconcile
    \/ GatedRoutes
    \/ (EngineStep \/ ServerMigrates \/ Boot) /\ UNCHANGED wpc
    \/ Crash /\ WatchdogGoto("idle")

SystemSpec == SystemInit /\ [][SystemNext]_systemVars

-----------------------------------------------------------------------------
(***************************************************************************)
(* Properties                                                              *)
(***************************************************************************)
\* While the stores are archived, emptied or restored the server is down: the
\* watchdog, which sees a failing service just then, does not start it.
StoresAreQuiet ==
    pc \in {"dump", "wipe", "restore_data"} => running = 0

Intent == INSTANCE SystemIntent
    WITH repairing <- wpc \in {"repair", "window"}, host <- <<env, running>>

\* Engine, routes and watchdog together keep the promise that Watchdog's model
\* of the engine, and JobEngine's disregard of the watchdog, rest on.
IntentIsKept == Intent!Spec
=============================================================================
