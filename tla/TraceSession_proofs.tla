------------------------- MODULE TraceSession_proofs -------------------------
(***************************************************************************)
(* The invariant SessionInv of TraceSession and what follows from it, for  *)
(* any number of traces, debuggee processes and steps.                     *)
(*                                                                         *)
(* The argument.  An interrupt exists for exactly as long as the           *)
(* supervisor works on it or the coordinator counts it as issued; both     *)
(* keep the trace active, since Finalize asks for neither.  A helper whose *)
(* create event is still to come is therefore always held by the active    *)
(* trace, and so a terminal trace, a new trace and an unloaded plugin have *)
(* none.                                                                   *)
(***************************************************************************)
EXTENDS TraceSession, TLAPS

\* Where the plugin's two threads can be, and the numbering of processes.
ThreadPlaces ==
  /\ supervisor \in {"absent", "idle", "creating", "created", "failed", "resuming",
                     "terminating", "retired", "kept"}
  /\ executor \in {"idle", "gated", "admitted", "executing", "resuming", "resumed",
                   "rejected", "cancelling"}
  /\ epoch \in Nat

IndInv == ThreadPlaces /\ SessionInv

\* trace.start and trace.cancel on the executor's worker keep the invariant: a trace
\* is admitted only when the one before it has left no interrupt.
LEMMA ExecutorKeepsInv ==
  ASSUME IndInv, GateTraceStart \/ CancelTrace \/ ExecutorStep
  PROVE  IndInv'
<1> USE DEF IndInv, ThreadPlaces, SessionInv, InterruptIsSupervised, SubmissionIsPending,
  OutstandingIsHeld, WaitingCallbackIsReported, OwnershipIsExclusive, LifecycleIsOrderly,
  Outstanding, Active, ActiveState, Unresolved
<1> USE DEF policyVars, requestVars, interruptVars, runVars, stopVars, lifecycleVars, supervisorVars,
  executorVars, observedVars, nativeVars, helperVars, traceVars
<1>1. CASE GateTraceStart
  BY <1>1 DEF GateTraceStart
<1>2. CASE CancelTrace
  BY <1>2 DEF CancelTrace, Request
<1>3. CASE AdmitTrace
  <2>1. ThreadPlaces'
    BY <1>3 DEF AdmitTrace, Begin, PauseIsCommitted
  <2>2. InterruptIsSupervised'
    BY <1>3 DEF AdmitTrace, Begin, PauseIsCommitted
  <2>3. SubmissionIsPending'
    BY <1>3 DEF AdmitTrace, Begin, PauseIsCommitted
  <2>4. OutstandingIsHeld'
    BY <1>3 DEF AdmitTrace, Begin, PauseIsCommitted
  <2>5. WaitingCallbackIsReported'
    BY <1>3 DEF AdmitTrace, Begin, PauseIsCommitted
  <2>6. OwnershipIsExclusive'
    BY <1>3 DEF AdmitTrace, Begin, PauseIsCommitted
  <2>7. LifecycleIsOrderly'
    BY <1>3 DEF AdmitTrace, Begin, PauseIsCommitted
  <2> QED
    BY <2>1, <2>2, <2>3, <2>4, <2>5, <2>6, <2>7
<1>4. CASE RefuseTrace
  BY <1>4 DEF RefuseTrace
<1>5. CASE CheckStillCurrent
  BY <1>5 DEF CheckStillCurrent
<1>6. CASE NativeStart
  BY <1>6 DEF NativeStart
<1>7. CASE StartResumes
  BY <1>7 DEF StartResumes, ResumeSeen, Resumed
<1>8. CASE SubmitTrace
  BY <1>8 DEF SubmitTrace, Submitted, Finalize, MayFinalize, FinalState
<1>9. CASE CancelReturns
  BY <1>9 DEF CancelReturns
<1> HIDE DEF IndInv
<1> QED
  BY <1>1, <1>2, <1>3, <1>4, <1>5, <1>6, <1>7, <1>8, <1>9 DEF ExecutorStep

\* TraceSupervisor keeps the invariant, whether Issue agrees, the helper cannot be
\* created, resumed or terminated, or its process is dead.
LEMMA SupervisorKeepsInv ==
  ASSUME IndInv, SupervisorStep
  PROVE  IndInv'
<1> USE DEF IndInv, ThreadPlaces, SessionInv, InterruptIsSupervised, SubmissionIsPending,
  OutstandingIsHeld, WaitingCallbackIsReported, OwnershipIsExclusive, LifecycleIsOrderly,
  Outstanding, Active, ActiveState, Unresolved
<1> USE DEF policyVars, requestVars, interruptVars, runVars, stopVars, lifecycleVars, supervisorVars,
  executorVars, observedVars, nativeVars, helperVars, traceVars
<1>1. CASE SupervisorReserves
  <2>1. ThreadPlaces'
    BY <1>1 DEF SupervisorReserves, Reserve, Request, Due
  <2>2. InterruptIsSupervised'
    BY <1>1 DEF SupervisorReserves, Reserve, Request, Due
  <2>3. SubmissionIsPending'
    BY <1>1 DEF SupervisorReserves, Reserve, Request, Due
  <2>4. OutstandingIsHeld'
    BY <1>1 DEF SupervisorReserves, Reserve, Request, Due
  <2>5. WaitingCallbackIsReported'
    BY <1>1 DEF SupervisorReserves, Reserve, Request, Due
  <2>6. OwnershipIsExclusive'
    BY <1>1 DEF SupervisorReserves, Reserve, Request, Due
  <2>7. LifecycleIsOrderly'
    BY <1>1 DEF SupervisorReserves, Reserve, Request, Due
  <2> QED
    BY <2>1, <2>2, <2>3, <2>4, <2>5, <2>6, <2>7
<1>2. CASE CreateHelper
  BY <1>2 DEF CreateHelper
<1>3. CASE PublishHandle
  BY <1>3 DEF PublishHandle, MayIssue, Issue, Current
<1>4. CASE ResumeHelper
  BY <1>4 DEF ResumeHelper
<1>5. CASE TerminateHelper
  BY <1>5 DEF TerminateHelper
<1>6. CASE SupervisorFinishes
  BY <1>6 DEF SupervisorFinishes, FinishInterrupt, Finalize, MayFinalize, FinalState
<1>7. CASE SupervisorExits
  BY <1>7 DEF SupervisorExits
<1> HIDE DEF IndInv
<1> QED
  BY <1>1, <1>2, <1>3, <1>4, <1>5, <1>6, <1>7 DEF SupervisorStep

\* The plugin's debugger callbacks (pause, resume and the end of the wait for the
\* helper's handle) keep the invariant.
LEMMA CallbackKeepsInv ==
  ASSUME IndInv, CallbackStep
  PROVE  IndInv'
<1> USE DEF IndInv, ThreadPlaces, SessionInv, InterruptIsSupervised, SubmissionIsPending,
  OutstandingIsHeld, WaitingCallbackIsReported, OwnershipIsExclusive, LifecycleIsOrderly,
  Outstanding, Active, ActiveState, Unresolved
<1> USE DEF policyVars, requestVars, interruptVars, runVars, stopVars, lifecycleVars, supervisorVars,
  executorVars, observedVars, nativeVars, helperVars, traceVars
<1>1. CASE PauseCallback
  BY <1>1 DEF PauseCallback, PauseSeen, PauseCommitted, Finalize, MayFinalize, FinalState
<1>2. CASE HandleSeen
  <2>1. ThreadPlaces'
    BY <1>2 DEF HandleSeen, ThreadCreated, Consume, MayConsume
  <2>2. InterruptIsSupervised'
    BY <1>2 DEF HandleSeen, ThreadCreated, Consume, MayConsume
  <2>3. SubmissionIsPending'
    BY <1>2 DEF HandleSeen, ThreadCreated, Consume, MayConsume
  <2>4. OutstandingIsHeld'
    BY <1>2 DEF HandleSeen, ThreadCreated, Consume, MayConsume
  <2>5. WaitingCallbackIsReported'
    BY <1>2 DEF HandleSeen, ThreadCreated, Consume, MayConsume
  <2>6. OwnershipIsExclusive'
    BY <1>2 DEF HandleSeen, ThreadCreated, Consume, MayConsume
  <2>7. LifecycleIsOrderly'
    BY <1>2 DEF HandleSeen, ThreadCreated, Consume, MayConsume
  <2> QED
    BY <2>1, <2>2, <2>3, <2>4, <2>5, <2>6, <2>7
<1>3. CASE HandleAbandoned
  BY <1>3 DEF HandleAbandoned, AbandonIssue, Current
<1>4. CASE OwnedPauseReturns
  BY <1>4 DEF OwnedPauseReturns
<1>5. CASE UserResumeSeen
  BY <1>5 DEF UserResumeSeen, ResumeSeen, Resumed
<1> HIDE DEF IndInv
<1> QED
  BY <1>1, <1>2, <1>3, <1>4, <1>5 DEF CallbackStep

\* x64dbg's events, in any order, and the death of the debuggee keep the invariant.
LEMMA NativeEventKeepsInv ==
  ASSUME IndInv, NativeEvent
  PROVE  IndInv'
<1> USE DEF IndInv, ThreadPlaces, SessionInv, InterruptIsSupervised, SubmissionIsPending,
  OutstandingIsHeld, WaitingCallbackIsReported, OwnershipIsExclusive, LifecycleIsOrderly,
  Outstanding, Active, ActiveState, Unresolved
<1> USE DEF policyVars, requestVars, interruptVars, runVars, stopVars, lifecycleVars, supervisorVars,
  executorVars, observedVars, nativeVars, helperVars, traceVars
<1>1. ASSUME NEW nativeStop \in BOOLEAN, StepEvent(nativeStop) PROVE IndInv'
  <2>1. ThreadPlaces'
    BY <1>1 DEF StepEvent, Step, RawEvent
  <2>2. InterruptIsSupervised'
    BY <1>1 DEF StepEvent, Step, RawEvent
  <2>3. SubmissionIsPending'
    BY <1>1 DEF StepEvent, Step, RawEvent
  <2>4. OutstandingIsHeld'
    BY <1>1 DEF StepEvent, Step, RawEvent
  <2>5. WaitingCallbackIsReported'
    BY <1>1 DEF StepEvent, Step, RawEvent
  <2>6. OwnershipIsExclusive'
    BY <1>1 DEF StepEvent, Step, RawEvent
  <2>7. LifecycleIsOrderly'
    BY <1>1 DEF StepEvent, Step, RawEvent
  <2> QED
    BY <2>1, <2>2, <2>3, <2>4, <2>5, <2>6, <2>7
<1>2. CASE BreakEvent
  BY <1>2 DEF BreakEvent, RawEvent
<1>3. CASE HelperEvent
  <2>1. ThreadPlaces'
    BY <1>3 DEF HelperEvent, RawEvent, ThreadCreated, Consume, MayConsume
  <2>2. InterruptIsSupervised'
    BY <1>3 DEF HelperEvent, RawEvent, ThreadCreated, Consume, MayConsume
  <2>3. SubmissionIsPending'
    BY <1>3 DEF HelperEvent, RawEvent, ThreadCreated, Consume, MayConsume
  <2>4. OutstandingIsHeld'
    BY <1>3 DEF HelperEvent, RawEvent, ThreadCreated, Consume, MayConsume
  <2>5. WaitingCallbackIsReported'
    BY <1>3 DEF HelperEvent, RawEvent, ThreadCreated, Consume, MayConsume
  <2>6. OwnershipIsExclusive'
    BY <1>3 DEF HelperEvent, RawEvent, ThreadCreated, Consume, MayConsume
  <2>7. LifecycleIsOrderly'
    BY <1>3 DEF HelperEvent, RawEvent, ThreadCreated, Consume, MayConsume
  <2> QED
    BY <2>1, <2>2, <2>3, <2>4, <2>5, <2>6, <2>7
<1>4. CASE UserResume
  BY <1>4 DEF UserResume
<1>5. CASE ProcessKilled
  BY <1>5 DEF ProcessKilled, Dies
<1>6. CASE ExitEvent
  BY <1>6 DEF ExitEvent, Dies, ProcessExited, Finalize, MayFinalize, FinalState
<1>7. CASE StopDebugEvent
  BY <1>7 DEF StopDebugEvent, ProcessExited, Finalize, MayFinalize, FinalState
<1>8. CASE NewProcess
  BY <1>8 DEF NewProcess
<1> HIDE DEF IndInv
<1> QED
  BY <1>1, <1>2, <1>3, <1>4, <1>5, <1>6, <1>7, <1>8 DEF NativeEvent

\* Start, Stop, the reconciliation with a dead process and the unload keep the
\* invariant.
LEMMA LifecycleKeepsInv ==
  ASSUME IndInv, LifecycleStep
  PROVE  IndInv'
<1> USE DEF IndInv, ThreadPlaces, SessionInv, InterruptIsSupervised, SubmissionIsPending,
  OutstandingIsHeld, WaitingCallbackIsReported, OwnershipIsExclusive, LifecycleIsOrderly,
  Outstanding, Active, ActiveState, Unresolved
<1> USE DEF policyVars, requestVars, interruptVars, runVars, stopVars, lifecycleVars, supervisorVars,
  executorVars, observedVars, nativeVars, helperVars, traceVars
<1>1. CASE Reconcile
  BY <1>1 DEF Reconcile, ProcessExited, Finalize, MayFinalize, FinalState
<1>2. CASE LoadPlugin
  BY <1>2 DEF LoadPlugin
<1>3. CASE StartPlugin
  BY <1>3 DEF StartPlugin, Settled
<1>4. CASE BeginStop
  BY <1>4 DEF BeginStop, Request
<1>5. CASE StopSupervisor
  BY <1>5 DEF StopSupervisor
<1>6. CASE EndStop
  BY <1>6 DEF EndStop
<1>7. CASE Unload
  BY <1>7 DEF Unload, CanUnload, Settled
<1> HIDE DEF IndInv
<1> QED
  BY <1>1, <1>2, <1>3, <1>4, <1>5, <1>6, <1>7 DEF LifecycleStep

\* Every step keeps the invariant.
LEMMA SessionStepKeepsInv ==
  ASSUME IndInv, [SessionNext]_sessionVars
  PROVE  IndInv'
<1>1. CASE Clock
  BY <1>1 DEF Clock, DeadlinePasses, GracePasses,
  IndInv, ThreadPlaces, SessionInv, InterruptIsSupervised, SubmissionIsPending,
  OutstandingIsHeld, WaitingCallbackIsReported, OwnershipIsExclusive, LifecycleIsOrderly,
  Outstanding, Active, ActiveState, Unresolved,
  policyVars, requestVars, interruptVars, runVars, stopVars, lifecycleVars, supervisorVars,
  executorVars, observedVars, nativeVars, helperVars, traceVars
<1>2. CASE UNCHANGED sessionVars
  BY <1>2 DEF sessionVars,
  IndInv, ThreadPlaces, SessionInv, InterruptIsSupervised, SubmissionIsPending,
  OutstandingIsHeld, WaitingCallbackIsReported, OwnershipIsExclusive, LifecycleIsOrderly,
  Outstanding, Active, ActiveState, Unresolved,
  policyVars, requestVars, interruptVars, runVars, stopVars, lifecycleVars, supervisorVars,
  executorVars, observedVars, nativeVars, helperVars, traceVars
<1> QED
  BY <1>1, <1>2, ExecutorKeepsInv, SupervisorKeepsInv, CallbackKeepsInv,
     NativeEventKeepsInv, LifecycleKeepsInv DEF SessionNext

\* The inductive invariant of the trace session holds: an interrupt is supervised or
\* owned, a native start under way is pending on the active trace, and threads are
\* joined when the plugin is not running.
THEOREM SessionInvariant == SessionSpec => []IndInv
<1>1. SessionInit => IndInv
  BY DEF SessionInit, StopInit, NoTicket,
  IndInv, ThreadPlaces, SessionInv, InterruptIsSupervised, SubmissionIsPending,
  OutstandingIsHeld, WaitingCallbackIsReported, OwnershipIsExclusive, LifecycleIsOrderly,
  Outstanding, Active, ActiveState, Unresolved
<1>2. IndInv /\ [SessionNext]_sessionVars => IndInv'
  BY SessionStepKeepsInv
<1> QED
  BY <1>1, <1>2, PTL DEF SessionSpec

\* A helper thread whose create event is still to come always belongs to the trace that
\* is active (plugin.cpp:73): it cannot pause the debuggee for a later trace.
THEOREM HelperIsAlwaysOwned == SessionSpec => []HelperIsOwned
<1>1. IndInv => HelperIsOwned
  BY DEF HelperIsOwned, IndInv, SessionInv, OutstandingIsHeld, Unresolved
<1> QED
  BY <1>1, SessionInvariant, PTL

\* A terminal trace has no native start command under way and no interrupt being
\* created or delivered (runtime.cpp:3345).
THEOREM TerminalIsAlwaysQuiet == SessionSpec => []TerminalIsQuiet
<1>1. IndInv => TerminalIsQuiet
  BY DEF TerminalIsQuiet, IndInv, ThreadPlaces, SessionInv, OutstandingIsHeld,
     SubmissionIsPending, InterruptIsSupervised
<1> QED
  BY <1>1, SessionInvariant, PTL

\* No trace is stopped both by its step callback and by an interrupt
\* (trace_policy.cpp:124).
THEOREM TraceIsStoppedOnce == SessionSpec => []StoppedOnce
<1>1. IndInv => StoppedOnce
  BY DEF StoppedOnce, IndInv, SessionInv, OwnershipIsExclusive
<1> QED
  BY <1>1, SessionInvariant, PTL

\* The DLL is unloaded only when no thread is in it and no interrupt is outstanding
\* (CanUnload).
THEOREM UnloadIsAlwaysSafe == SessionSpec => []UnloadIsSafe
<1>1. IndInv => UnloadIsSafe
  BY DEF UnloadIsSafe, IndInv, SessionInv, LifecycleIsOrderly, OutstandingIsHeld
<1> QED
  BY <1>1, SessionInvariant, PTL

\* What FirstReasonWins says of one step.
ReasonIsKept ==
  (pendingReason # "none" /\ ticket' = ticket) =>
    \/ pendingReason' = pendingReason
    \/ pendingReason = "timeout" /\ pendingReason' = "backendShutdown"
    \/ ~Active' /\ reason' = pendingReason

\* Finalize either keeps the pending reason or reports it.
LEMMA FinalizeKeepsReason ==
  ASSUME NEW state, Finalize(state) PROVE ReasonIsKept
BY DEF ReasonIsKept, Finalize, FinalState, Active, ActiveState

\* A request replaces no reason but a timeout, and that only for a shutdown.
LEMMA RequestKeepsReason ==
  ASSUME NEW why, Request(why) PROVE ReasonIsKept
BY DEF ReasonIsKept, Request

\* Every step of the session reports or keeps the first stop reason.
LEMMA SessionStepKeepsReason ==
  ASSUME IndInv, [SessionNext]_sessionVars
  PROVE  ReasonIsKept
<1> USE FinalizeKeepsReason, RequestKeepsReason
<1>0. UNCHANGED traceVars => ReasonIsKept
  BY DEF ReasonIsKept, traceVars, policyVars
<1>1. CASE AdmitTrace
  BY <1>1 DEF AdmitTrace, Begin, ReasonIsKept, IndInv, SessionInv, InterruptIsSupervised
<1>2. CASE SubmitTrace
  BY <1>0, <1>2 DEF SubmitTrace, Submitted, traceVars
<1>3. CASE SupervisorFinishes
  BY <1>0, <1>3 DEF SupervisorFinishes, FinishInterrupt, traceVars
<1>4. CASE SupervisorReserves
  BY <1>4 DEF SupervisorReserves, Reserve, ReasonIsKept
<1>5. CASE PauseCallback
  BY <1>0, <1>5 DEF PauseCallback, PauseSeen, PauseCommitted, traceVars
<1>6. ASSUME NEW nativeStop \in BOOLEAN, StepEvent(nativeStop) PROVE ReasonIsKept
  BY <1>0, <1>6 DEF StepEvent, Step, ReasonAfterStep, ReasonIsKept
<1>7. CASE ExitEvent \/ StopDebugEvent \/ Reconcile
  BY <1>0, <1>7 DEF ExitEvent, StopDebugEvent, Reconcile, ProcessExited
<1>8. CASE BeginStop \/ CancelTrace
  BY <1>8 DEF BeginStop, CancelTrace, ReasonIsKept
<1>9. CASE StartResumes \/ UserResumeSeen
  BY <1>9 DEF StartResumes, UserResumeSeen, ResumeSeen, Resumed, ReasonIsKept, traceVars, policyVars
<1>10. CASE Clock
  BY <1>10 DEF Clock, DeadlinePasses, GracePasses, ReasonIsKept, policyVars
<1>11. CASE PublishHandle \/ HelperEvent \/ HandleSeen \/ HandleAbandoned
  BY <1>11 DEF PublishHandle, HelperEvent, HandleSeen, HandleAbandoned, ThreadCreated, Consume,
     Issue, AbandonIssue, ReasonIsKept, traceVars, policyVars
<1>12. CASE GateTraceStart \/ RefuseTrace \/ CheckStillCurrent \/ NativeStart \/ CancelReturns
  BY <1>0, <1>12 DEF GateTraceStart, RefuseTrace, CheckStillCurrent, NativeStart, CancelReturns
<1>13. CASE CreateHelper \/ ResumeHelper \/ TerminateHelper \/ SupervisorExits
  BY <1>0, <1>13 DEF CreateHelper, ResumeHelper, TerminateHelper, SupervisorExits
<1>14. CASE OwnedPauseReturns \/ BreakEvent \/ UserResume \/ ProcessKilled \/ NewProcess
  BY <1>0, <1>14 DEF OwnedPauseReturns, BreakEvent, UserResume, ProcessKilled, NewProcess
<1>15. CASE LoadPlugin \/ StartPlugin \/ StopSupervisor \/ EndStop \/ Unload
  BY <1>0, <1>15 DEF LoadPlugin, StartPlugin, StopSupervisor, EndStop, Unload
<1>16. CASE UNCHANGED sessionVars
  BY <1>0, <1>16 DEF sessionVars
<1> QED
  BY <1>1, <1>2, <1>3, <1>4, <1>5, <1>6, <1>7, <1>8, <1>9, <1>10, <1>11, <1>12, <1>13,
     <1>14, <1>15, <1>16
  DEF SessionNext, ExecutorStep, SupervisorStep, CallbackStep, NativeEvent, LifecycleStep

\* The first stop reason is the one a trace reports, except that a shutdown replaces a
\* timeout (RequestStop, OnStep and Finalize).
THEOREM FirstReasonAlwaysWins == SessionSpec => FirstReasonWins
<1>1. IndInv /\ [SessionNext]_sessionVars => [ReasonIsKept]_sessionVars
  BY SessionStepKeepsReason
<1> QED
  BY <1>1, SessionInvariant, PTL DEF SessionSpec, FirstReasonWins, ReasonIsKept

\* The interrupt is contained: owned while it exists, gone at the end, used once.
THEOREM InterruptIsAlwaysContained == SessionSpec => []InterruptIsContained
<1>1. HelperIsOwned /\ TerminalIsQuiet /\ StoppedOnce => InterruptIsContained
  BY DEF InterruptIsContained
<1> QED
  BY <1>1, HelperIsAlwaysOwned, TerminalIsAlwaysQuiet, TraceIsStoppedOnce, PTL

=============================================================================
