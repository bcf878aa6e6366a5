------------------------------ MODULE TraceStop ------------------------------
(***************************************************************************)
(* The trace policy and its stop coordinator, plugin/src/trace_policy.cpp: *)
(* when a trace is to stop and why (TracePolicy), and which of the         *)
(* competing ways of stopping it owns the stop (TraceStopCoordinator).     *)
(*                                                                         *)
(* A trace stops cooperatively, by the step callback answering "stop", or, *)
(* when a step blocks, by one interrupt: a helper thread created in the    *)
(* debuggee, whose create-thread event the plugin turns into a pause.  All *)
(* methods run under Runtime::traceMutex_, one action each; TraceSession   *)
(* composes them with the threads that call them.                          *)
(*                                                                         *)
(* Time is abstracted to two facts: the trace's deadline has passed, and   *)
(* the cooperative grace since the stop request is over.  The recorded     *)
(* addresses and modules are left out.                                     *)
(***************************************************************************)
EXTENDS Integers

CONSTANT MaxSteps    \* max_steps of every trace; kMaxSteps is 4096

ASSUME StepsAssumption == MaxSteps \in Nat \ {0}

VARIABLES
  traceState,     \* TracePolicy::state_, "none" before the first trace
  reason,         \* reason_
  pendingReason,  \* pendingReason_
  stepsExecuted,  \* stepsExecuted_
  deadlinePassed, \* now >= deadline_
  ticket,         \* ticket_: <<trace serial, process epoch>>
  submitted,      \* submitted_: the native start command has returned
  resumed,        \* resumed_
  requested,      \* requested_
  graceOver,      \* now >= requestedAt_ + kCooperativeGrace
  cooperative,    \* cooperative_: a step callback has answered "stop"
  paused,         \* paused_
  exited,         \* exited_
  inFlight,       \* interruptInFlight_
  attempted,      \* attempted_
  issued,         \* issued_
  identified,     \* threadId_ and address_ have been set by Issue
  consumed,       \* consumed_: the helper's create event became the pause
  abandoned,      \* issueAbandoned_
  fallback        \* fallback_

policyVars == <<traceState, reason, pendingReason, stepsExecuted, deadlinePassed>>
requestVars == <<requested, graceOver>>
interruptVars == <<inFlight, attempted, issued, identified, consumed, abandoned>>
runVars == <<submitted, resumed, cooperative, paused, exited, fallback>>
stopVars == <<ticket, requestVars, interruptVars, runVars>>

Reason ==
  {"maxSteps", "cancelled", "timeout", "breakpoint", "exception", "userPause",
   "processExit", "backendShutdown", "interrupted"}

ActiveState == {"starting", "running"}
TerminalState == {"completed", "cancelled", "timedOut", "interrupted"}

StopTypeOK ==
  /\ traceState \in ActiveState \cup TerminalState \cup {"none"}
  /\ reason \in Reason \cup {"none"}
  /\ pendingReason \in Reason \cup {"none"}
  /\ stepsExecuted \in 0..MaxSteps
  /\ deadlinePassed \in BOOLEAN
  /\ ticket \in Nat \X Nat
  /\ {submitted, resumed, requested, graceOver, cooperative, paused, exited} \subseteq BOOLEAN
  /\ {inFlight, attempted, issued, identified, consumed, abandoned} \subseteq BOOLEAN
  /\ fallback \in Reason

StopInit ==
  /\ traceState = "none"
  /\ reason = "none"
  /\ pendingReason = "none"
  /\ stepsExecuted = 0
  /\ deadlinePassed = FALSE
  /\ ticket = <<0, 0>>
  /\ requested = FALSE /\ graceOver = FALSE
  /\ submitted = FALSE /\ resumed = FALSE /\ cooperative = FALSE
  /\ paused = FALSE /\ exited = FALSE
  /\ inFlight = FALSE /\ attempted = FALSE /\ issued = FALSE
  /\ identified = FALSE /\ consumed = FALSE /\ abandoned = FALSE
  /\ fallback = "interrupted"

Active == traceState \in ActiveState
Current(t) == t = ticket /\ ~exited

\* An issued interrupt whose create event has not been seen.
Unresolved == issued /\ ~consumed /\ ~exited

LateResume == paused /\ ~submitted

-----------------------------------------------------------------------------
(* Finalize: the policy becomes terminal once the native submission has    *)
(* returned, no interrupt is under way or unresolved, and the debuggee has *)
(* paused or exited.  Every caller ends with it, so it reads the new flags *)
(* and is the last conjunct; `state' is the policy's state before it.      *)

FinalState(why) ==
  CASE why = "maxSteps"  -> "completed"
    [] why = "cancelled" -> "cancelled"
    [] why = "timeout"   -> "timedOut"
    [] OTHER             -> "interrupted"

MayFinalize == submitted /\ ~inFlight /\ (paused \/ exited) /\ ~Unresolved

Finalize(state) ==
  IF MayFinalize' /\ state \in ActiveState
    THEN /\ reason' = IF pendingReason = "none" THEN fallback' ELSE pendingReason
         /\ traceState' = FinalState(reason')
         /\ pendingReason' = "none"
    ELSE /\ traceState' = state
         /\ UNCHANGED <<reason, pendingReason>>

-----------------------------------------------------------------------------
(* The policy's and the coordinator's methods.                             *)

\* TracePolicy::Start and TraceStopCoordinator::Begin.
Begin(process) ==
  /\ ~Active
  /\ traceState' = "starting"
  /\ reason' = "none"
  /\ pendingReason' = "none"
  /\ stepsExecuted' = 0
  /\ deadlinePassed' = FALSE
  /\ ticket' = <<ticket[1] + 1, process>>
  /\ requested' = FALSE /\ graceOver' = FALSE
  /\ submitted' = FALSE /\ resumed' = FALSE /\ cooperative' = FALSE
  /\ paused' = FALSE /\ exited' = FALSE
  /\ inFlight' = FALSE /\ attempted' = FALSE /\ issued' = FALSE
  /\ identified' = FALSE /\ consumed' = FALSE /\ abandoned' = FALSE
  /\ fallback' = "interrupted"

Submitted(t, accepted) ==
  IF t # ticket THEN UNCHANGED <<policyVars, stopVars>>
  ELSE /\ submitted' = TRUE
       /\ paused' = (paused \/ (~accepted /\ ~resumed))
       /\ UNCHANGED <<ticket, requestVars, interruptVars, resumed, cooperative, exited, fallback>>
       /\ UNCHANGED <<stepsExecuted, deadlinePassed>>
       /\ Finalize(IF accepted /\ traceState = "starting" THEN "running" ELSE traceState)

\* Mutant: the latest reason wins.
RequestLatest(why) ==
  /\ pendingReason' = IF Active THEN why ELSE pendingReason
  /\ requested' = (requested \/ Active)
  /\ graceOver' = (graceOver /\ requested)

\* Request: the first reason wins, except that a shutdown replaces a timeout;
\* the grace counts from the first request.
Request(why) ==
  /\ pendingReason' =
       IF Active /\ (pendingReason = "none" \/ (pendingReason = "timeout" /\ why = "backendShutdown"))
         THEN why ELSE pendingReason
  /\ requested' = (requested \/ Active)
  /\ graceOver' = (graceOver /\ requested)

\* The reason that a step callback finds or leaves (TracePolicy::OnStep).
ReasonAfterStep(steps, nativeStop) ==
  IF pendingReason # "none" THEN pendingReason
  ELSE IF deadlinePassed THEN "timeout"
  ELSE IF steps >= MaxSteps THEN "maxSteps"
  ELSE IF nativeStop THEN "interrupted"
  ELSE "none"

\* Step, for an active trace: the new state, and whether x64dbg is told to stop.
StepStops(nativeStop) ==
  IF issued THEN nativeStop
  ELSE ReasonAfterStep(stepsExecuted + 1, nativeStop) # "none"

Step(nativeStop) ==
  /\ resumed' = TRUE
  /\ traceState' = "running"
  /\ stepsExecuted' = IF stepsExecuted < MaxSteps THEN stepsExecuted + 1 ELSE stepsExecuted
  /\ pendingReason' = ReasonAfterStep(stepsExecuted + 1, nativeStop)
  /\ cooperative' = (cooperative \/ (~issued /\ pendingReason' # "none"))
  /\ UNCHANGED <<reason, deadlinePassed, ticket, requestVars, interruptVars,
                 submitted, paused, exited, fallback>>

\* Reserve requests the timeout first; `WakeAt has come' and the stop request
\* decide whether it also reserves the interrupt.
Due ==
  /\ requested
  /\ graceOver
  /\ resumed
  /\ ~attempted
  /\ ~cooperative
  /\ ~paused

Reserve ==
  /\ Active /\ ~exited
  /\ IF deadlinePassed THEN Request("timeout") ELSE UNCHANGED <<pendingReason, requestVars>>
  /\ inFlight' = (inFlight \/ Due)
  /\ attempted' = (attempted \/ Due)
  /\ UNCHANGED <<traceState, reason, stepsExecuted, deadlinePassed, ticket, runVars,
                 issued, identified, consumed, abandoned>>

\* Mutant: a pause or a cooperative stop that came first is not looked at.
MayIssueLate(t) == Current(t) /\ inFlight /\ ~issued /\ ~abandoned

\* Issue, when it accepts; otherwise it changes nothing.
MayIssue(t) ==
  Current(t) /\ inFlight /\ ~issued /\ ~abandoned /\ ~cooperative /\ ~paused

Issue ==
  /\ issued' = TRUE
  /\ identified' = TRUE
  /\ UNCHANGED <<policyVars, ticket, requestVars, runVars, inFlight, attempted, consumed, abandoned>>

AbandonIssue(t) ==
  /\ abandoned' = (abandoned \/ (Current(t) /\ ~issued))
  /\ UNCHANGED <<policyVars, ticket, requestVars, runVars, inFlight, attempted, issued,
                 identified, consumed>>

\* A helper that was not retired safely counts as issued, whatever came before.
FinishInterrupt(t, safelyRetired) ==
  IF t # ticket \/ ~inFlight THEN UNCHANGED <<policyVars, stopVars>>
  ELSE /\ inFlight' = FALSE
       /\ issued' = ~safelyRetired
       /\ UNCHANGED <<ticket, requestVars, runVars, attempted, identified, consumed, abandoned>>
       /\ UNCHANGED <<stepsExecuted, deadlinePassed>>
       /\ Finalize(traceState)

\* ThreadCreated, for the helper's own create event in process `process'.
MayConsume(process) ==
  issued /\ ~consumed /\ ~exited /\ ticket[2] = process /\ identified

Consume ==
  /\ consumed' = TRUE
  /\ UNCHANGED <<policyVars, ticket, requestVars, runVars, inFlight, attempted, issued,
                 identified, abandoned>>

\* Resumed, when the callback is not a late one.
Resumed ==
  /\ resumed' = TRUE
  /\ paused' = FALSE
  /\ UNCHANGED <<policyVars, ticket, requestVars, interruptVars, submitted, cooperative,
                 exited, fallback>>

PauseCommitted(why) ==
  IF exited THEN UNCHANGED <<policyVars, stopVars>>
  ELSE /\ paused' = TRUE
       /\ fallback' = why
       /\ UNCHANGED <<ticket, requestVars, interruptVars, submitted, resumed, cooperative, exited>>
       /\ UNCHANGED <<stepsExecuted, deadlinePassed>>
       /\ Finalize(traceState)

ProcessExited ==
  /\ exited' = TRUE
  /\ fallback' = "processExit"
  /\ UNCHANGED <<ticket, requestVars, interruptVars, submitted, resumed, cooperative, paused>>
  /\ UNCHANGED <<stepsExecuted, deadlinePassed>>
  /\ Finalize(traceState)

\* The clock.
DeadlinePasses ==
  /\ Active /\ ~deadlinePassed
  /\ deadlinePassed' = TRUE
  /\ UNCHANGED <<traceState, reason, pendingReason, stepsExecuted, stopVars>>

GracePasses ==
  /\ Active /\ requested /\ ~graceOver
  /\ graceOver' = TRUE
  /\ UNCHANGED <<policyVars, ticket, requested, interruptVars, runVars>>
=============================================================================
