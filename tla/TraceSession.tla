----------------------------- MODULE TraceSession -----------------------------
(***************************************************************************)
(* The threads that drive TraceStop, plugin/src/runtime.cpp:               *)
(*   - the executor's worker in trace.start and trace.cancel;              *)
(*   - TraceSupervisor, which interrupts a trace that does not stop;       *)
(*   - x64dbg's debug thread, which calls OnDebuggerEvent;                 *)
(*   - the GUI thread in Start, Stop and the plugin's unload.              *)
(* traceMutex_ makes each critical section one action; what happens        *)
(* between two of them (thread creation, the native start command, a       *)
(* callback waiting for the helper's handle) interleaves.                  *)
(*                                                                         *)
(* x64dbg and Windows are external: the debug thread takes one event at a  *)
(* time and waits while the debuggee is paused; a resume lets it go on     *)
(* before the resuming thread's CB_RESUMEDEBUG callback runs; a helper     *)
(* thread's create event may come before CreateRemoteThread returns.       *)
(***************************************************************************)
EXTENDS TraceStop

CONSTANTS
  PauseReason,    \* the trace reasons that a pause can give
  MaxTraces,      \* bound on the traces of a finite model
  MaxEpochs       \* bound on the debuggee processes of a finite model

ASSUME SessionAssumption ==
  /\ PauseReason \subseteq {"breakpoint", "exception", "userPause"}
  /\ MaxTraces \in Nat
  /\ MaxEpochs \in Nat

VARIABLES
  plugin,         \* the plugin's life: DLL entry points and pluginState_
  registered,     \* the plugin's callbacks are registered
  stopping,       \* traceSupervisorStopping_
  supervisor,     \* TraceSupervisor: where it is
  interruptTicket,\* ... and the ticket it has reserved
  handle,         \* traceInterruptThread_ is set
  callback,       \* tracePauseCallbackInFlight_
  executor,       \* the worker in trace.start or trace.cancel: where it is
  startTicket,    \* ... and the ticket of the trace it starts
  debuggee,       \* debuggeeState_
  committed,      \* nativePauseEvent_ = rawEventSequence_
  epoch,          \* processEpoch_
  fresh,          \* generation_ still is the snapshot that trace.start took
  debugThread,    \* x64dbg's debug thread
  tracing,        \* x64dbg is tracing
  resumeDue,      \* a user's resume whose CB_RESUMEDEBUG is still to run
  dead,           \* the epochs whose process has died
  helper,         \* the helper thread in the debuggee
  reported        \* its create event has been delivered

lifecycleVars == <<plugin, registered, stopping>>
supervisorVars == <<supervisor, interruptTicket, handle>>
executorVars == <<executor, startTicket>>
observedVars == <<debuggee, committed, epoch, fresh>>
nativeVars == <<debugThread, tracing, resumeDue, dead>>
helperVars == <<helper, reported>>
traceVars == <<policyVars, stopVars>>
sessionVars == <<traceVars, lifecycleVars, supervisorVars, callback, executorVars,
                 observedVars, nativeVars, helperVars>>

NoTicket == <<0, 0>>

SessionTypeOK ==
  /\ StopTypeOK
  /\ plugin \in {"loaded", "setup", "refused", "ready", "draining", "stopped", "unloaded"}
  /\ supervisor \in {"absent", "idle", "creating", "created", "failed", "resuming",
                     "terminating", "retired", "kept"}
  /\ executor \in {"idle", "gated", "admitted", "executing", "resuming", "resumed",
                   "rejected", "cancelling"}
  /\ debugThread \in {"none", "running", "breaking", "waitHandle", "pausing", "paused",
                      "returning"}
  /\ debuggee \in {"absent", "running", "paused", "exited"}
  /\ helper \in {"none", "suspended", "running", "dead"}
  /\ {registered, stopping, handle, callback, committed, fresh, tracing, resumeDue, reported}
       \subseteq BOOLEAN
  /\ epoch \in 0..MaxEpochs
  /\ dead \subseteq 1..MaxEpochs
  /\ {interruptTicket, startTicket} \subseteq (0..MaxTraces) \X (0..MaxEpochs)

\* TracePauseCommittedLocked.
PauseIsCommitted == debuggee = "paused" /\ committed

-----------------------------------------------------------------------------
(* trace.start and trace.cancel on the executor's worker.                  *)

\* The mutation gate, helperRejection and the first checks of trace.start.
GateTraceStart ==
  /\ executor = "idle"
  /\ plugin = "ready"
  /\ ticket[1] < MaxTraces
  /\ ~callback
  /\ ~Unresolved /\ ~inFlight /\ ~Active
  /\ PauseIsCommitted
  /\ executor' = "gated"
  /\ fresh' = TRUE
  /\ UNCHANGED <<traceVars, lifecycleVars, supervisorVars, callback, startTicket,
                 debuggee, committed, epoch, nativeVars, helperVars>>

\* The admission section checks again, then starts the policy and the
\* coordinator; the handle of an earlier helper is closed.
AdmitTrace ==
  /\ executor = "gated"
  /\ fresh /\ PauseIsCommitted /\ ~Active
  /\ Begin(epoch)
  /\ startTicket' = ticket'
  /\ handle' = FALSE
  /\ executor' = "admitted"
  /\ UNCHANGED <<lifecycleVars, supervisor, interruptTicket, callback,
                 observedVars, nativeVars, helperVars>>

RefuseTrace ==
  /\ executor = "gated"
  /\ ~(fresh /\ PauseIsCommitted /\ ~Active)
  /\ executor' = "idle"
  /\ UNCHANGED <<traceVars, lifecycleVars, supervisorVars, callback, startTicket,
                 observedVars, nativeVars, helperVars>>

\* `current', read before the native command is executed.
CheckStillCurrent ==
  /\ executor = "admitted"
  /\ executor' = IF Current(startTicket) /\ epoch = ticket[2] /\ PauseIsCommitted
                   THEN "executing" ELSE "rejected"
  /\ UNCHANGED <<traceVars, lifecycleVars, supervisorVars, callback, startTicket,
                 observedVars, nativeVars, helperVars>>

\* DbgCmdExecDirect: x64dbg resumes the debuggee in tracing mode, or refuses.
NativeStart ==
  /\ executor = "executing"
  /\ \/ /\ debugThread = "paused"
        /\ debugThread' = IF callback THEN "returning" ELSE "running"
        /\ tracing' = TRUE
        /\ executor' = "resuming"
     \/ /\ executor' = "rejected"
        /\ UNCHANGED <<debugThread, tracing>>
  /\ UNCHANGED <<traceVars, lifecycleVars, supervisorVars, callback, startTicket,
                 observedVars, resumeDue, dead, helperVars>>

\* CB_RESUMEDEBUG: dropped when it is late, else recorded.
ResumeSeen ==
  IF ~registered \/ (Active /\ LateResume)
    THEN UNCHANGED <<traceVars, observedVars>>
    ELSE /\ debuggee' = "running"
         /\ committed' = FALSE
         /\ fresh' = FALSE
         /\ UNCHANGED epoch
         /\ IF Active THEN Resumed ELSE UNCHANGED traceVars

\* The callback that the native start makes on the worker's own stack.
StartResumes ==
  /\ executor = "resuming"
  /\ ResumeSeen
  /\ executor' = "resumed"
  /\ UNCHANGED <<lifecycleVars, supervisorVars, callback, startTicket,
                 nativeVars, helperVars>>

SubmitTrace ==
  /\ executor \in {"resumed", "rejected"}
  /\ Submitted(startTicket, executor = "resumed")
  /\ executor' = "idle"
  /\ UNCHANGED <<lifecycleVars, supervisorVars, callback, startTicket,
                 observedVars, nativeVars, helperVars>>

CancelTrace ==
  /\ executor = "idle"
  /\ plugin \in {"ready", "draining"}
  /\ Active
  /\ Request("cancelled")
  /\ executor' = "cancelling"
  /\ UNCHANGED <<traceState, reason, stepsExecuted, deadlinePassed, ticket, interruptVars, runVars>>
  /\ UNCHANGED <<lifecycleVars, supervisorVars, callback, startTicket,
                 observedVars, nativeVars, helperVars>>

\* The wait ends: terminal, blocked, draining, or at the request's deadline.
CancelReturns ==
  /\ executor = "cancelling"
  /\ executor' = "idle"
  /\ UNCHANGED <<traceVars, lifecycleVars, supervisorVars, callback, startTicket,
                 observedVars, nativeVars, helperVars>>

-----------------------------------------------------------------------------
(* TraceSupervisor.                                                        *)

\* Mutant: the supervisor looks at requests only, never at the deadline.
SupervisorReservesRequested ==
  /\ supervisor = "idle" /\ ~stopping
  /\ requested
  /\ Reserve
  /\ supervisor' = IF Due THEN "creating" ELSE "idle"
  /\ interruptTicket' = IF Due THEN ticket ELSE interruptTicket
  /\ UNCHANGED <<lifecycleVars, handle, callback, executorVars, observedVars, nativeVars, helperVars>>

SupervisorReserves ==
  /\ supervisor = "idle" /\ ~stopping
  /\ Reserve
  /\ supervisor' = IF Due THEN "creating" ELSE "idle"
  /\ interruptTicket' = IF Due THEN ticket ELSE interruptTicket
  /\ UNCHANGED <<lifecycleVars, handle, callback, executorVars, observedVars, nativeVars, helperVars>>

\* CreateRemoteThread, outside the lock; it fails in a dead process.
CreateHelper ==
  /\ supervisor = "creating"
  /\ \/ /\ interruptTicket[2] \notin dead
        /\ helper' = "suspended"
        /\ reported' = FALSE
        /\ supervisor' = "created"
     \/ /\ supervisor' = "failed"
        /\ UNCHANGED helperVars
  /\ UNCHANGED <<traceVars, lifecycleVars, interruptTicket, handle, callback, executorVars,
                 observedVars, nativeVars>>

\* Publish the handle and ask for ownership, in one critical section.
PublishHandle ==
  /\ supervisor \in {"created", "failed"}
  /\ handle' = (supervisor = "created")
  /\ IF supervisor = "created" /\ MayIssue(interruptTicket)
       THEN Issue /\ supervisor' = "resuming"
       ELSE /\ supervisor' = IF supervisor = "created" THEN "terminating" ELSE "retired"
            /\ UNCHANGED traceVars
  /\ UNCHANGED <<lifecycleVars, interruptTicket, callback, executorVars, observedVars,
                 nativeVars, helperVars>>

\* ResumeThread; a failure leaves the helper owned and is never retried.
ResumeHelper ==
  /\ supervisor = "resuming"
  /\ helper' \in {helper, IF helper = "dead" THEN "dead" ELSE "running"}
  /\ supervisor' = "kept"
  /\ UNCHANGED <<traceVars, lifecycleVars, interruptTicket, handle, callback, executorVars,
                 observedVars, nativeVars, reported>>

\* TerminateThread on the helper that never ran; it may fail.
TerminateHelper ==
  /\ supervisor = "terminating"
  /\ \/ helper' = "dead" /\ supervisor' = "retired"
     \/ helper' = helper /\ supervisor' = "kept"
  /\ UNCHANGED <<traceVars, lifecycleVars, interruptTicket, handle, callback, executorVars,
                 observedVars, nativeVars, reported>>

SupervisorFinishes ==
  /\ supervisor \in {"retired", "kept"}
  /\ FinishInterrupt(interruptTicket, supervisor = "retired")
  /\ supervisor' = "idle"
  /\ UNCHANGED <<lifecycleVars, interruptTicket, handle, callback, executorVars,
                 observedVars, nativeVars, helperVars>>

SupervisorExits ==
  /\ supervisor = "idle" /\ stopping
  /\ supervisor' = "absent"
  /\ UNCHANGED <<traceVars, lifecycleVars, interruptTicket, handle, callback, executorVars,
                 observedVars, nativeVars, helperVars>>

-----------------------------------------------------------------------------
(* The debug thread and OnDebuggerEvent.  CB_DEBUGEVENT starts every event *)
(* and uncommits the pause.                                                *)

RawEvent ==
  /\ committed' = (committed /\ ~registered)
  /\ fresh' = (fresh /\ ~registered)
  /\ UNCHANGED <<debuggee, epoch>>

\* CB_TRACEEXECUTE: a step of the native trace.
StepEvent(nativeStop) ==
  /\ debugThread = "running" /\ tracing
  /\ LET mine == registered /\ Active /\ ticket[2] = epoch
         stop == IF mine THEN StepStops(nativeStop) ELSE nativeStop
     IN  /\ IF mine THEN Step(nativeStop) ELSE UNCHANGED traceVars
         /\ debugThread' = IF stop THEN "breaking" ELSE "running"
         /\ tracing' = ~stop
  /\ RawEvent
  /\ UNCHANGED <<lifecycleVars, supervisorVars, callback, executorVars, resumeDue, dead, helperVars>>

\* A breakpoint, an exception or the user's pause: an event that will pause.
BreakEvent ==
  /\ debugThread = "running"
  /\ debugThread' = "breaking"
  /\ tracing' = FALSE
  /\ RawEvent
  /\ UNCHANGED <<traceVars, lifecycleVars, supervisorVars, callback, executorVars,
                 resumeDue, dead, helperVars>>

\* CB_PAUSEDEBUG, for such an event or inside _plugin_debugpause.
PauseSeen ==
  IF ~registered THEN UNCHANGED <<traceVars, observedVars>>
  ELSE /\ debuggee' = "paused"
       /\ committed' = TRUE
       /\ fresh' = FALSE
       /\ UNCHANGED epoch
       /\ IF Active
            THEN \E why \in PauseReason : PauseCommitted(why)
            ELSE UNCHANGED traceVars

PauseCallback ==
  /\ debugThread \in {"breaking", "pausing"}
  /\ PauseSeen
  /\ debugThread' = "paused"
  /\ tracing' = FALSE
  /\ UNCHANGED <<lifecycleVars, supervisorVars, callback, executorVars, resumeDue, dead, helperVars>>

\* CB_CREATETHREAD once the ownership handshake is over: pause, or let it run.
ThreadCreated ==
  IF Active /\ MayConsume(epoch)
    THEN Consume /\ callback' = TRUE /\ debugThread' = "pausing"
    ELSE debugThread' = "running" /\ UNCHANGED <<traceVars, callback>>

\* The helper's create event.  The callback waits for the handle if it is early.
HelperEvent ==
  /\ debugThread = "running"
  /\ helper \in {"suspended", "running"} /\ ~reported
  /\ interruptTicket[2] = epoch
  /\ reported' = TRUE
  /\ RawEvent
  /\ IF ~registered THEN UNCHANGED <<traceVars, callback, debugThread>>
     ELSE IF Active /\ inFlight /\ ~handle
       THEN debugThread' = "waitHandle" /\ UNCHANGED <<traceVars, callback>>
       ELSE ThreadCreated
  /\ UNCHANGED <<lifecycleVars, supervisorVars, executorVars, tracing, resumeDue, dead, helper>>

\* The wait ends with the handle, ...
HandleSeen ==
  /\ debugThread = "waitHandle"
  /\ handle
  /\ ThreadCreated
  /\ UNCHANGED <<lifecycleVars, supervisorVars, executorVars, observedVars, tracing,
                 resumeDue, dead, helperVars>>

\* ... or without it, after a second or because it will not come.
HandleAbandoned ==
  /\ debugThread = "waitHandle"
  /\ ~handle
  /\ AbandonIssue(interruptTicket)
  /\ debugThread' = "running"
  /\ UNCHANGED <<lifecycleVars, supervisorVars, callback, executorVars, observedVars,
                 tracing, resumeDue, dead, helperVars>>

\* A user's resume, or debugger.resume, lets the debug thread go; its callback
\* follows.
UserResume ==
  /\ debugThread = "paused" /\ ~resumeDue
  /\ debugThread' = IF callback THEN "returning" ELSE "running"
  /\ resumeDue' = TRUE
  /\ UNCHANGED <<traceVars, lifecycleVars, supervisorVars, callback, executorVars,
                 observedVars, tracing, dead, helperVars>>

UserResumeSeen ==
  /\ resumeDue
  /\ ResumeSeen
  /\ resumeDue' = FALSE
  /\ UNCHANGED <<lifecycleVars, supervisorVars, callback, executorVars, debugThread,
                 tracing, dead, helperVars>>

\* _plugin_debugpause returns.
OwnedPauseReturns ==
  /\ debugThread = "returning"
  /\ callback' = FALSE
  /\ debugThread' = "running"
  /\ UNCHANGED <<traceVars, lifecycleVars, supervisorVars, executorVars, observedVars,
                 tracing, resumeDue, dead, helperVars>>

\* A process dies with its threads.
Dies(process) ==
  /\ dead' = dead \cup {process}
  /\ helper' = IF helper # "none" /\ interruptTicket[2] = process THEN "dead" ELSE helper
  /\ UNCHANGED reported

\* The debuggee dies without an event (killed while it is paused).
ProcessKilled ==
  /\ debugThread = "paused"
  /\ epoch \notin dead
  /\ Dies(epoch)
  /\ UNCHANGED <<traceVars, lifecycleVars, supervisorVars, callback, executorVars,
                 observedVars, debugThread, tracing, resumeDue>>

\* CB_EXITPROCESS.
ExitEvent ==
  /\ debugThread = "running"
  /\ Dies(epoch)
  /\ debugThread' = "none"
  /\ tracing' = FALSE
  /\ IF ~registered THEN UNCHANGED <<traceVars, observedVars>>
     ELSE /\ debuggee' = "exited"
          /\ committed' = FALSE
          /\ fresh' = FALSE
          /\ UNCHANGED epoch
          /\ IF ticket[2] = epoch THEN ProcessExited ELSE UNCHANGED traceVars
  /\ UNCHANGED <<lifecycleVars, supervisorVars, callback, executorVars, resumeDue>>

\* CB_STOPDEBUG, after an exit or a detach from a live process.  Only the death
\* of the traced process retires an interrupt that is still open.
StopDebugEvent ==
  /\ debugThread = "none" \/ (debugThread = "running" /\ epoch \notin dead)
  /\ debuggee # "absent"
  /\ debugThread' = "none"
  /\ tracing' = FALSE
  /\ IF ~registered THEN UNCHANGED <<traceVars, observedVars>>
     ELSE /\ debuggee' = "absent"
          /\ committed' = FALSE
          /\ fresh' = FALSE
          /\ UNCHANGED epoch
          /\ IF (~Unresolved /\ ~inFlight) \/ ticket[2] \in dead
               THEN ProcessExited ELSE UNCHANGED traceVars
  /\ UNCHANGED <<lifecycleVars, supervisorVars, callback, executorVars, resumeDue, dead, helperVars>>

\* CB_CREATEPROCESS; the debuggee runs on to its first pause.
NewProcess ==
  /\ debugThread = "none" /\ registered
  /\ epoch < MaxEpochs
  /\ epoch' = epoch + 1
  /\ debuggee' = "paused"
  /\ committed' = FALSE
  /\ fresh' = FALSE
  /\ debugThread' = "running"
  /\ UNCHANGED <<traceVars, lifecycleVars, supervisorVars, callback, executorVars,
                 tracing, resumeDue, dead, helperVars>>

-----------------------------------------------------------------------------
(* Start, Stop and unload, on the GUI thread.                              *)

\* ReconcileTraceProcessExit, the first step of Start and of CanUnload.
Reconcile ==
  /\ plugin \in {"setup", "refused", "stopped"}
  /\ ticket[2] \in dead /\ ~exited
  /\ IF ticket[2] = epoch
       THEN debuggee' = "exited" /\ committed' = FALSE /\ fresh' = FALSE
       ELSE UNCHANGED <<debuggee, committed, fresh>>
  /\ ProcessExited
  /\ handle' = (handle /\ (inFlight \/ callback))
  /\ UNCHANGED <<epoch, lifecycleVars, supervisor, interruptTicket, callback, executorVars,
                 nativeVars, helperVars>>

Reconciled == ticket[2] \notin dead \/ exited

\* pluginit registers the callbacks of a DLL that is new or was retained.
LoadPlugin ==
  /\ plugin = "loaded"
  /\ plugin' = "setup" /\ registered' = TRUE
  /\ UNCHANGED <<traceVars, stopping, supervisorVars, callback, executorVars, observedVars,
                 nativeVars, helperVars>>

\* plugsetup starts the runtime, which refuses while a trace is unsettled.
Settled == ~Active /\ ~Unresolved /\ ~inFlight /\ ~callback

StartPlugin ==
  /\ plugin = "setup" /\ Reconciled
  /\ IF Settled
       THEN plugin' = "ready" /\ stopping' = FALSE /\ supervisor' = "idle"
       ELSE plugin' = "refused" /\ UNCHANGED <<stopping, supervisor>>
  /\ UNCHANGED <<traceVars, registered, interruptTicket, handle, callback, executorVars,
                 observedVars, nativeVars, helperVars>>

\* Stop first asks an active trace to stop ...
BeginStop ==
  /\ plugin = "ready"
  /\ plugin' = "draining"
  /\ IF Active THEN Request("backendShutdown") ELSE UNCHANGED <<pendingReason, requestVars>>
  /\ UNCHANGED <<traceState, reason, stepsExecuted, deadlinePassed, ticket, interruptVars, runVars>>
  /\ UNCHANGED <<registered, stopping, supervisorVars, callback, executorVars, observedVars,
                 nativeVars, helperVars>>

\* ... waits at most a second for it, then stops the supervisor, ...
StopSupervisor ==
  /\ plugin = "draining" /\ ~stopping
  /\ stopping' = TRUE
  /\ UNCHANGED <<traceVars, plugin, registered, supervisorVars, callback, executorVars,
                 observedVars, nativeVars, helperVars>>

\* ... and ends once supervisor and executor are joined.
EndStop ==
  /\ plugin = "draining" /\ stopping
  /\ supervisor = "absent" /\ executor = "idle"
  /\ plugin' = "stopped"
  /\ UNCHANGED <<traceVars, registered, stopping, supervisorVars, callback, executorVars,
                 observedVars, nativeVars, helperVars>>

\* Mutant: the debug thread inside the pause is not counted.
CanUnloadInPause ==
  /\ Reconciled
  /\ ~Active /\ ~Unresolved /\ ~inFlight
  /\ ~handle \/ helper = "dead" \/ (helper = "running" /\ reported)

\* CanUnload.  The helper is signalled once it has run to its RET or is dead.
CanUnload ==
  /\ Reconciled
  /\ Settled
  /\ ~handle \/ helper = "dead" \/ (helper = "running" /\ reported)

\* plugstop, after Stop: the callbacks are unregistered either way, and x64dbg
\* retains the DLL with its runtime when CanUnload says so.
Unload ==
  /\ plugin \in {"refused", "stopped"} /\ Reconciled
  /\ registered' = FALSE
  /\ plugin' = IF CanUnload THEN "unloaded" ELSE "loaded"
  /\ UNCHANGED <<traceVars, stopping, supervisorVars, callback, executorVars, observedVars,
                 nativeVars, helperVars>>

-----------------------------------------------------------------------------
SessionInit ==
  /\ StopInit
  /\ plugin = "loaded" /\ registered = FALSE /\ stopping = FALSE
  /\ supervisor = "absent" /\ interruptTicket = NoTicket /\ handle = FALSE
  /\ callback = FALSE
  /\ executor = "idle" /\ startTicket = NoTicket
  /\ debuggee = "absent" /\ committed = FALSE /\ epoch = 0 /\ fresh = FALSE
  /\ debugThread = "none" /\ tracing = FALSE /\ resumeDue = FALSE /\ dead = {}
  /\ helper = "none" /\ reported = FALSE

ExecutorStep ==
  \/ AdmitTrace \/ RefuseTrace \/ CheckStillCurrent \/ NativeStart \/ StartResumes
  \/ SubmitTrace \/ CancelReturns

SupervisorStep ==
  \/ SupervisorReserves \/ CreateHelper \/ PublishHandle \/ ResumeHelper
  \/ TerminateHelper \/ SupervisorFinishes \/ SupervisorExits

CallbackStep ==
  \/ PauseCallback \/ HandleSeen \/ HandleAbandoned \/ OwnedPauseReturns \/ UserResumeSeen

NativeEvent ==
  \/ \E nativeStop \in BOOLEAN : StepEvent(nativeStop)
  \/ BreakEvent \/ HelperEvent \/ UserResume \/ ProcessKilled \/ ExitEvent
  \/ StopDebugEvent \/ NewProcess

LifecycleStep ==
  \/ Reconcile \/ LoadPlugin \/ StartPlugin \/ BeginStop \/ StopSupervisor \/ EndStop \/ Unload

Clock ==
  /\ DeadlinePasses \/ GracePasses
  /\ UNCHANGED <<lifecycleVars, supervisorVars, callback, executorVars, observedVars,
                 nativeVars, helperVars>>

SessionNext ==
  \/ GateTraceStart \/ CancelTrace \/ ExecutorStep
  \/ SupervisorStep
  \/ CallbackStep
  \/ NativeEvent
  \/ LifecycleStep
  \/ Clock

\* The plugin's threads run on and its timers expire.  Debuggee events, client
\* calls and the user's commands need not happen.
SessionFairness ==
  /\ WF_sessionVars(ExecutorStep)
  /\ WF_sessionVars(SupervisorStep)
  /\ WF_sessionVars(CallbackStep)
  /\ WF_sessionVars(Clock)

SessionSpec == SessionInit /\ [][SessionNext]_sessionVars /\ SessionFairness

-----------------------------------------------------------------------------
(* Properties.                                                             *)

\* The helper's create event is still to come and could pause the debuggee.
Outstanding == helper \in {"suspended", "running"} /\ ~reported

\* "Never make a fresh runtime forget a delayed interrupt" (plugin.cpp:73): a
\* helper whose create event is still to come belongs to the trace that is
\* active now, and the coordinator holds it as in flight or unresolved.
HelperIsOwned ==
  Outstanding => Active /\ ticket = interruptTicket /\ (inFlight \/ Unresolved)

\* A trace that is reported terminal has left nothing running: no native start
\* command ("Direct submission cannot leave a queued start behind a terminal
\* trace", runtime.cpp:3345) and no interrupt being created or delivered.
TerminalIsQuiet ==
  ~Active => /\ executor \in {"idle", "gated", "cancelling"}
             /\ supervisor \in {"absent", "idle"}
             /\ ~Outstanding

\* A trace is stopped once: the interrupt never pauses a debuggee whose step
\* callback has already answered "stop" (trace_policy.cpp:124).
StoppedOnce == ~(cooperative /\ consumed)

\* The interrupt that stops a trace is accounted for as long as it exists, is
\* gone when the trace is terminal, and never stops it a second time.
InterruptIsContained == HelperIsOwned /\ TerminalIsQuiet /\ StoppedOnce

\* The first stop reason is the one reported, except that a shutdown replaces a
\* timeout, whichever of the client, the deadline, the step limit, a pause and
\* the shutdown come together (RequestStop, OnStep and Finalize).
FirstReasonWins ==
  [][(pendingReason # "none" /\ ticket' = ticket) =>
       \/ pendingReason' = pendingReason
       \/ pendingReason = "timeout" /\ pendingReason' = "backendShutdown"
       \/ ~Active' /\ reason' = pendingReason]_sessionVars

\* The DLL is unloaded only when the debug thread is not held in the pause that
\* the plugin made and no interrupt is outstanding (CanUnload).
UnloadIsSafe ==
  plugin = "unloaded" =>
    /\ debugThread \notin {"pausing", "returning"}
    /\ ~callback
    /\ ~Outstanding
    /\ supervisor = "absent" /\ executor = "idle"

\* While the supervisor runs, a trace past its deadline is asked to stop.
SupervisedDeadline ==
  (Active /\ deadlinePassed) ~> (pendingReason # "none" \/ ~Active \/ stopping)

\* README.md:230: "A timeout requests stopping at its deadline."
\* A trace admitted during Runtime::Stop is an exception: README.md, Observations.
TimeoutRequestsStop ==
  (Active /\ deadlinePassed) ~> (pendingReason # "none" \/ ~Active)

-----------------------------------------------------------------------------
(* The inductive invariant behind the safety properties.                   *)

\* An interrupt is in flight exactly while the supervisor is at work on it, for
\* the active trace; a trace gets one, and owns it only once Issue has agreed.
InterruptIsSupervised ==
  /\ ticket \in Nat \X Nat
  /\ inFlight => supervisor \notin {"absent", "idle"}
  /\ supervisor \notin {"absent", "idle"} =>
       inFlight /\ Active /\ interruptTicket = ticket /\ attempted
  /\ issued => attempted
  /\ supervisor \in {"creating", "created", "failed", "terminating", "retired"} => ~issued
  /\ identified => issued

\* A trace whose native start is under way is active and not submitted.
SubmissionIsPending ==
  executor \in {"admitted", "executing", "resuming", "resumed", "rejected"} =>
    Active /\ startTicket = ticket /\ ~submitted

\* An outstanding helper is in a live process, held by the active trace.
OutstandingIsHeld ==
  /\ Outstanding => /\ Active /\ ticket = interruptTicket
                    /\ inFlight \/ issued
                    /\ ~consumed /\ ~exited
                    /\ ticket[2] \notin dead
  /\ supervisor \in {"creating", "failed", "retired"} => ~Outstanding
  /\ supervisor \in {"created", "resuming"} => helper \in {"suspended", "running", "dead"}
  /\ exited /\ inFlight => ticket[2] \in dead

\* A create callback that waits for the handle has its event behind it.
WaitingCallbackIsReported ==
  debugThread = "waitHandle" =>
    reported /\ ~committed /\ attempted /\ supervisor # "creating"

\* Ownership excludes a cooperative stop.
OwnershipIsExclusive ==
  /\ identified => ~cooperative
  /\ consumed => identified

\* Threads are joined when the plugin is not running, and the pause callback is
\* counted as long as the debug thread is in it.
LifecycleIsOrderly ==
  /\ plugin \notin {"ready", "draining"} => supervisor = "absent" /\ executor = "idle"
  /\ debugThread \in {"pausing", "returning"} => callback
  /\ plugin = "unloaded" => ~Active /\ ~callback

SessionInv ==
  /\ InterruptIsSupervised
  /\ SubmissionIsPending
  /\ OutstandingIsHeld
  /\ WaitingCallbackIsReported
  /\ OwnershipIsExclusive
  /\ LifecycleIsOrderly
=============================================================================
