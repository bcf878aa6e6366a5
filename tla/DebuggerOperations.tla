-------------------------- MODULE DebuggerOperations --------------------------
(***************************************************************************)
(* The operations that change or await the run state, on the executor's    *)
(* thread: debuggee.attach, launch (and launch_dll) and detach, debugger.  *)
(* stop, pause, resume, continue_exception, step_into/over and step_out,   *)
(* wait_for_pause, state, the submission of trace.start, and the native    *)
(* events.wait; and a client that pages through events.list.               *)
(*                                                                         *)
(* An operation loads and checks the state, submits its command after a    *)
(* fresh load of generation_, waits for callbacks to confirm it, and may   *)
(* read registers and check the generation once more.  Results are "ok", a *)
(* "definite" error, or "unknown" (outcome_unknown).  Refused arguments    *)
(* and command texts are left out: they answer before any state is read.   *)
(***************************************************************************)
EXTENDS DebuggerState

NoOp == [name |-> "none", at |-> "idle", count |-> 0, pid |-> 0, before |-> 0, snap |-> 0,
         pause |-> 0, seen |-> 0, moved |-> FALSE, read |-> "none", result |-> "none"]

Finish(result) == op' = [op EXCEPT !.at = "idle", !.result = result]

OthersUnchanged == UNCHANGED <<native, pager, plugin>>

\* ReconcileDebuggerLiveness: the debuggee is gone although no callback said so.
Reconciles == dbg.state \notin {"starting", "absent"} /\ ~IsDebugging

\* Mutant: the generation stays.
ReconciledInPlace == IF Reconciles THEN [dbg EXCEPT !.state = "absent"] ELSE dbg

Reconciled ==
  IF ~Reconciles THEN dbg
  ELSE [dbg EXCEPT !.state = "absent", !.origin = "none", !.pid = 0, !.interrupt = FALSE,
                   !.owned = FALSE, !.nativePause = FALSE, !.kind = "none", !.pauseGen = 0,
                   !.gen = @ + 1, !.absentGen = dbg.gen + 1]

Reconciling == {"attach", "launch", "stop", "pause", "resume", "continue", "step", "state"}

Reconcile(method) ==
  IF method \in Reconciling
  THEN /\ Reconciles => dbg.gen < MaxGeneration
       /\ dbg' = Reconciled
       /\ trace' = IF dbg.state # "starting" /\ ~IsDebugging THEN TraceCommit(trace, "STOPDEBUG")
                   ELSE trace
  ELSE UNCHANGED <<dbg, trace>>

\* The state in which each operation is valid, read after the reconciliation.
Valid(method, d) ==
  CASE method \in {"attach", "launch"} -> d.state = "absent" /\ ~IsDebugging
    [] method = "detach" -> /\ d.origin = "attached" /\ d.state \in {"paused", "running"}
                            /\ d.pid # 0 /\ IsDebugging
    [] method = "stop" -> /\ d.origin # "attached" /\ IsDebugging
                          /\ d.state \in {"starting", "running", "paused"}
    [] method = "pause" -> d.state = "running" /\ IsDebugging
    [] method \in {"resume", "step", "stepOut"} -> d.state = "paused" /\ IsDebugging
    [] method = "continue" -> d.state = "paused" /\ d.kind = "exception" /\ IsDebugging
    [] method = "waitForPause" -> d.state \notin {"absent", "exited"}
    [] method = "trace" -> d.state = "paused" /\ IsDebugging /\ trace.at = "none"
    [] OTHER -> TRUE

Check(method, p) ==
  /\ op.at = "idle"
  /\ op.count < MaxOperations
  /\ plugin = "ready"
  /\ Reconcile(method)
  /\ LET d == IF method \in Reconciling THEN Reconciled ELSE dbg
         started == [NoOp EXCEPT !.name = method, !.count = op.count + 1, !.snap = d.gen,
                                 !.pid = IF method = "detach" THEN d.pid ELSE p]
     IN op' = IF Valid(method, d) THEN [started EXCEPT !.at = "checked"]
              ELSE [started EXCEPT !.result = "definite"]
  /\ UNCHANGED history
  /\ OthersUnchanged

-----------------------------------------------------------------------------
(* Submission.                                                              *)

\* Loads generation_, then queues the command; x64dbg may refuse it.
Submit ==
  /\ op.at = "checked"
  /\ op.name \in {"attach", "launch", "detach", "stop", "resume", "continue", "step"}
  /\ \/ op' = [op EXCEPT !.at = "waiting", !.before = dbg.gen]
     \/ Finish("definite")
  /\ UNCHANGED <<dbg, history, trace>>
  /\ OthersUnchanged

\* step_out waits for a pause after the generation its registers belong to.
SubmitStepOut ==
  /\ op.at = "checked" /\ op.name = "stepOut"
  /\ \/ /\ plugin = "ready" /\ dbg.state = "paused" /\ dbg.gen = op.snap
        /\ op' = [op EXCEPT !.at = "waiting", !.before = op.snap]
     \/ Finish("definite")
  /\ UNCHANGED <<dbg, history, trace>>
  /\ OthersUnchanged

\* debugger.pause owns one interrupt at a time.
SubmitPause ==
  /\ op.at = "checked" /\ op.name = "pause"
  /\ \/ /\ ~dbg.interrupt
        /\ dbg' = [dbg EXCEPT !.interrupt = TRUE]
        /\ op' = [op EXCEPT !.at = "waiting", !.before = dbg.gen]
     \/ /\ Finish("definite")
        /\ UNCHANGED dbg
  /\ UNCHANGED <<history, trace>>
  /\ OthersUnchanged

\* wait_for_pause: the client names the generation after which it wants a pause.
\* events.wait: the latest recorded event and its session.
BeginWait ==
  /\ op.at = "checked"
  /\ \/ /\ op.name = "waitForPause"
        /\ \E after \in 0..dbg.gen : op' = [op EXCEPT !.at = "waiting", !.before = after]
     \/ /\ op.name = "eventsWait"
        /\ op' = [op EXCEPT !.at = "waiting", !.snap = history.session,
                            !.before = IF history.events = <<>> THEN 0
                                       ELSE Last(history.events).n]
  /\ UNCHANGED <<dbg, history, trace>>
  /\ OthersUnchanged

\* trace.start: admission at an unchanged generation, then the direct command.
SubmitTrace ==
  /\ op.at = "checked" /\ op.name = "trace"
  /\ \/ /\ dbg.gen = op.snap /\ dbg.state = "paused" /\ dbg.nativePause
        /\ trace' = [at |-> "submitting", gen |-> op.snap, raw |-> FALSE, paused |-> FALSE]
        /\ op' = [op EXCEPT !.at = "submitting"]
     \/ /\ Finish("definite")
        /\ UNCHANGED trace
  /\ UNCHANGED <<dbg, history>>
  /\ OthersUnchanged

\* The direct command returns: accepted when x64dbg ran, refused otherwise.
TraceSubmitted ==
  /\ op.at = "submitting"
  /\ ~native.owed
  /\ trace' = [trace EXCEPT !.at = IF native.ran /\ ~trace.paused THEN "active" ELSE "none"]
  /\ Finish(IF native.ran THEN "ok" ELSE "definite")
  /\ native' = [native EXCEPT !.ran = FALSE]
  /\ UNCHANGED <<dbg, history, pager, plugin>>

-----------------------------------------------------------------------------
(* Confirmation.                                                            *)

NewEvents == {i \in DOMAIN history.events : history.events[i].n > op.before}

\* Mutant: any pause after the submission confirms a launch.
ConfirmedByAnyPause ==
  CASE op.name \in {"launch", "stepOut", "waitForPause"} -> dbg.pausedGen > op.before
    [] op.name = "step" -> dbg.pausedGen > op.before /\ dbg.kind = "step"
    [] op.name = "pause" -> dbg.pausedGen > op.before /\ dbg.kind = "userPause"
    [] op.name = "stop" -> dbg.absentGen > op.before
    [] OTHER -> dbg.runningGen > op.before

\* The predicates of WaitForActionableLaunchPause, WaitForAttachPause,
\* WaitForDetach, WaitForPauseReason and WaitForState.
Confirmed ==
  CASE op.name = "launch" -> dbg.pausedGen > op.before /\ dbg.kind # "processCreated"
    [] op.name = "attach" -> /\ dbg.attachGen > op.before /\ dbg.attachPid = op.pid
                             /\ dbg.pausedGen > dbg.attachGen
                             /\ dbg.state = "paused" /\ dbg.pid = op.pid
    [] op.name = "detach" -> /\ dbg.detachGen > op.before /\ dbg.detachPid = op.pid
                             /\ dbg.absentGen > dbg.detachGen /\ dbg.state = "absent"
    [] op.name = "stop" -> dbg.absentGen > op.before
    [] op.name \in {"resume", "continue"} -> dbg.runningGen > op.before
    [] op.name = "step" -> dbg.pausedGen > op.before /\ dbg.kind = "step"
    [] op.name = "pause" -> dbg.pausedGen > op.before /\ dbg.kind = "userPause"
    [] op.name = "stepOut" -> dbg.pausedGen > op.before
    [] op.name = "waitForPause" -> /\ dbg.pausedGen > op.before
                                   /\ dbg.state \notin {"absent", "exited", "stopping"}
    [] op.name = "eventsWait" -> NewEvents # {} /\ history.session = op.snap

Capturing == {"step", "stepOut", "waitForPause", "state"}

\* The wait is over; a pause is cleared of its interrupt, a launch may still
\* fail to record its command line.
Confirm ==
  /\ op.at = "waiting"
  /\ plugin = "ready"
  /\ Confirmed
  /\ \/ /\ op.name \in Capturing
        /\ op' = [op EXCEPT !.at = "confirmed", !.snap = dbg.gen, !.moved = FALSE,
                            !.pause = IF op.name = "waitForPause" THEN dbg.pauseGen
                                      ELSE dbg.pausedGen]
     \/ op.name \notin Capturing /\ Finish("ok")
     \/ op.name = "launch" /\ Finish("unknown")
  /\ dbg' = [dbg EXCEPT !.interrupt = @ /\ op.name # "pause"]
  /\ UNCHANGED <<history, trace>>
  /\ OthersUnchanged

\* The deadline passes, the plugin drains, or what was awaited cannot come.
GiveUp ==
  /\ op.at = "waiting"
  /\ Finish(IF op.name \in {"waitForPause", "eventsWait"} THEN "definite" ELSE "unknown")
  /\ UNCHANGED <<dbg, history, trace>>
  /\ OthersUnchanged

-----------------------------------------------------------------------------
(* Capture: registers are read, then the generation is compared.            *)

BeginState ==
  /\ op.at = "checked" /\ op.name = "state"
  /\ op' = [op EXCEPT !.at = "confirmed", !.snap = dbg.gen, !.pause = dbg.pausedGen,
                      !.moved = FALSE, !.before = IF dbg.state = "paused" THEN 1 ELSE 0]
  /\ UNCHANGED <<dbg, history, trace>>
  /\ OthersUnchanged

\* What the registers describe: a stopped debuggee, a running one, or one whose
\* state the plugin has lost.
ReadRegisters ==
  /\ op.at = "confirmed"
  /\ \/ /\ op.name = "waitForPause" => IsDebugging /\ dbg.state = "paused"
        /\ op' = [op EXCEPT !.at = "captured",
                            !.read = IF native.slip # "none" \/ native.owed THEN "slipped"
                                     ELSE IF native.at = "stopped" /\ ~op.moved THEN "stopped"
                                     ELSE IF native.at = "loading" THEN "loading"
                                     ELSE "running"]
     \/ Finish(IF op.name = "stepOut" THEN "unknown" ELSE "definite")
     \/ op.name = "step" /\ Finish("unknown")   \* another thread's step
  /\ UNCHANGED <<dbg, history, trace>>
  /\ OthersUnchanged

\* Mutant: only the state is compared.
StillCurrentByState == plugin = "ready" /\ dbg.state = "paused"

StillCurrent ==
  CASE op.name = "state" -> dbg.gen = op.snap /\ plugin = "ready"
    [] op.name = "step" -> dbg.gen = op.pause /\ dbg.state = "paused"
    [] op.name = "stepOut" -> /\ dbg.gen = op.pause /\ dbg.pausedGen = op.pause
                              /\ dbg.state = "paused" /\ plugin = "ready"
    [] op.name = "waitForPause" -> /\ dbg.gen = op.snap /\ dbg.pausedGen = op.pause
                                   /\ dbg.state = "paused" /\ plugin = "ready"

Conclude ==
  /\ op.at = "captured"
  /\ Finish(IF StillCurrent THEN "ok"
            ELSE IF op.name = "stepOut" THEN "unknown" ELSE "definite")
  /\ UNCHANGED <<dbg, history, trace>>
  /\ OthersUnchanged

OperationStep ==
  \/ \E method \in Methods, p \in Process : (method # "attach" => p = Min(Process)) /\ Check(method, p)
  \/ Submit
  \/ SubmitStepOut
  \/ SubmitPause
  \/ SubmitTrace
  \/ TraceSubmitted
  \/ BeginWait
  \/ BeginState
  \/ Confirm
  \/ GiveUp
  \/ ReadRegisters
  \/ Conclude

-----------------------------------------------------------------------------
(* events.list: pages of one record, each with the cursor of the next.      *)

NoPager == [at |-> "none", session |-> 0, offset |-> 0, got |-> <<>>, whole |-> FALSE]

\* The page that starts at `offset', under the lock.
Page(offset) ==
  LET i == offset - history.offset + 1
  IN IF i > Len(history.events) THEN <<>> ELSE <<history.events[i].n>>

FirstPage ==
  /\ pager.at = "none"
  /\ op.count < MaxOperations
  /\ pager' = [at |-> IF Len(history.events) > 1 THEN "next" ELSE "done",
               session |-> history.session, offset |-> history.offset + 1,
               got |-> Page(history.offset), whole |-> history.complete]
  /\ op' = [op EXCEPT !.count = @ + 1]
  /\ UNCHANGED <<dbg, history, trace, native, plugin>>

\* Mutant: the cursor names an offset and no session.
CursorFitsAnySession ==
  /\ pager.offset >= history.offset
  /\ pager.offset - history.offset <= Len(history.events)

\* A cursor is refused when its session is over or its record was discarded.
CursorFits ==
  /\ pager.session = history.session
  /\ pager.offset >= history.offset
  /\ pager.offset - history.offset <= Len(history.events)

NextPage ==
  /\ pager.at = "next"
  /\ pager' = IF ~CursorFits THEN [pager EXCEPT !.at = "refused"]
              ELSE [pager EXCEPT
                      !.at = IF pager.offset - history.offset + 1 < Len(history.events)
                             THEN "next" ELSE "done",
                      !.offset = @ + 1,
                      !.got = @ \o Page(pager.offset)]
  /\ UNCHANGED <<dbg, history, trace, native, op, plugin>>

-----------------------------------------------------------------------------
NoTrace == [at |-> "none", gen |-> 0, raw |-> FALSE, paused |-> FALSE]

\* Behaviours begin without a debuggee, or with one that stopped after its start.
Init ==
  /\ \E origin \in {"none", "launched", "attached"} : LET paused == origin # "none" IN
     dbg = [state |-> IF paused THEN "paused" ELSE "absent", gen |-> FirstGeneration,
               pausedGen |-> IF paused THEN FirstGeneration ELSE 0, runningGen |-> 0,
               absentGen |-> IF paused THEN 0 ELSE FirstGeneration,
               attachGen |-> 0, attachPid |-> 0, detachGen |-> 0, detachPid |-> 0,
               pid |-> IF paused THEN Min(Process) ELSE 0,
               origin |-> origin,
               kind |-> IF paused THEN "systemBreakpoint" ELSE "none",
               pauseGen |-> IF paused THEN FirstGeneration ELSE 0,
               interrupt |-> FALSE, owned |-> FALSE, exception |-> FALSE,
               nativePause |-> paused]
  /\ history = [events |-> <<>>, offset |-> 0, complete |-> TRUE,
                cEvents |-> <<>>, cOffset |-> 0, cComplete |-> TRUE,
                session |-> 0, counter |-> 0, candidate |-> 0,
                established |-> dbg.state = "paused", next |-> 1]
  /\ trace = NoTrace
  /\ native = [at |-> IF dbg.state = "paused" THEN "stopped" ELSE "none", pid |-> dbg.pid,
               due |-> "none", slip |-> "none", raw |-> FALSE, owed |-> FALSE, ran |-> FALSE]
  /\ op = NoOp
  /\ pager = NoPager
  /\ plugin = "ready"

Draining ==
  /\ plugin = "ready"
  /\ op.at # "idle"
  /\ plugin' = "draining"
  /\ UNCHANGED <<dbg, history, trace, native, op, pager>>

Next ==
  \/ NativeStep
  \/ OperationStep
  \/ FirstPage
  \/ NextPage
  \/ Draining

Spec == Init /\ [][Next]_stateVars

-----------------------------------------------------------------------------
(* Properties.                                                              *)

\* The recorded state is that of the debugger: callbacks in either order, second
\* signs of one stop and refinements never leave it wrong.  Two races can: a
\* resume dropped as late during a trace's submission, and the second callback
\* of a stop that a run command has overtaken (native.slip names them).
StateAgrees ==
  native.slip = "none" /\ ~native.owed =>
    /\ native.at = "stopped" => dbg.state = "paused"
    /\ dbg.state = "paused" => native.at = "stopped" \/ dbg.kind = "processCreated"
    /\ dbg.state = "running" => native.at = "running"
    /\ dbg.state = "absent" => native.at \in {"none", "ending"}

\* A success stands on callbacks that came after the operation was checked: the
\* right process was attached and stopped, or detached and gone; a launched one
\* was created and then stopped; a step, pause or resume was reported.
SuccessIsWitnessed == op.result = "ok" => op.seen = Len(Need)

\* Registers reported with a pause were read in that pause: no resume came in
\* between the observation, the read and the answer (step, step_out,
\* wait_for_pause, state).
CaptureIsOfOnePause ==
  /\ op.result = "ok" /\ op.name \in {"step", "stepOut", "waitForPause"} =>
       op.read # "running"
  /\ op.result = "ok" /\ op.name = "state" /\ op.before = 1 => op.read # "running"

\* All records of the published history belong to its session and are in order,
\* whatever sessions were begun, abandoned or established in between.
HistoryIsOneSession ==
  \A i \in DOMAIN history.events :
    /\ history.events[i].session = history.session
    /\ i > 1 => history.events[i].n = history.events[i - 1].n + 1

\* A client that follows the cursors misses nothing: what it got is a contiguous
\* run of the session's events although the history may have dropped records.
PagesAreContiguous ==
  \A i \in DOMAIN pager.got : i > 1 => pager.got[i] = pager.got[i - 1] + 1

\* What a client learns from events.list is one session's history, unbroken.
HistoryIsUnbroken == HistoryIsOneSession /\ PagesAreContiguous

\* The runtime keeps the promise that handlers rely on: the generation moves
\* with every change of the state.
Observer == INSTANCE PausedSnapshot WITH
  debuggee <- dbg.state, generation <- dbg.gen, pluginState <- plugin
ImplementsObserver == Observer!ObserverSpec

=============================================================================
