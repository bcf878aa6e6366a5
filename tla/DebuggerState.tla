---------------------------- MODULE DebuggerState ----------------------------
(***************************************************************************)
(* The plugin's picture of the debugger: OnDebuggerEvent and the state it  *)
(* keeps under stateMutex_ (state, generations, latest pause, process,     *)
(* event sessions and history), the waits on that state, and the           *)
(* operations that submit a run-state command and wait for callbacks to    *)
(* confirm it.                                                             *)
(*                                                                         *)
(* x64dbg is external (`native').  A stop reports CB_PAUSEDEBUG and the    *)
(* callback that names its reason, in either order; a run command can be   *)
(* obeyed while the second of them is still under way.  DbgIsDebugging     *)
(* turns false before CB_STOPDEBUG.  The user may do at any time what a    *)
(* client may, so commands need no queue here: x64dbg obeys, ignores or    *)
(* anticipates them.                                                       *)
(***************************************************************************)
EXTENDS Integers, Sequences, SequencesExt, FiniteSetsExt

CONSTANTS
  Process,          \* the process ids, positive
  FirstGeneration,  \* generation_ where a finite model begins
  MaxGeneration,    \* bound on generation_
  MaxOperations,    \* bound on the operations of a finite model
  MaxEventHistory,  \* kMaxEventHistory
  Methods           \* the operations that clients call

ASSUME StateAssumption ==
  /\ Process \subseteq Nat \ {0} /\ Process # {}
  /\ MaxGeneration \in Nat
  /\ FirstGeneration \in 1..MaxGeneration
  /\ MaxOperations \in Nat
  /\ MaxEventHistory \in Nat \ {0}

VARIABLES
  dbg,       \* the runtime's debugger fields
  history,   \* event sessions and histories
  trace,     \* the trace, as far as OnDebuggerEvent looks at it
  native,    \* x64dbg
  op,        \* the operation on the executor's thread
  pager,     \* a client that reads the history page by page
  plugin     \* pluginState_

stateVars == <<dbg, history, trace, native, op, pager, plugin>>

State == {"absent", "starting", "paused", "running", "stopping", "exited"}
Generation == 0..MaxGeneration
Pid == Process \cup {0}

PauseKind == {"none", "processCreated", "systemBreakpoint", "breakpoint", "exception",
              "userPause", "step"}
Refining == {"SYSTEMBREAKPOINT", "BREAKPOINT", "EXCEPTION"}
Callback == Refining \cup
  {"INITDEBUG", "CREATEPROCESS", "PAUSEDEBUG", "STEPPED", "RESUMEDEBUG", "ATTACH", "DETACH",
   "STOPPINGDEBUG", "EXITPROCESS", "STOPDEBUG", "DEBUGEVENT"}

StateMethods == {"attach", "launch", "detach", "stop", "pause", "resume", "continue",
                 "step", "stepOut", "waitForPause", "state", "eventsWait", "trace"}

StateTypeOK ==
  /\ dbg \in [state : State, gen : Generation, pausedGen : Generation,
              runningGen : Generation, absentGen : Generation,
              attachGen : Generation, attachPid : Pid, detachGen : Generation, detachPid : Pid,
              pid : Pid, origin : {"none", "launched", "attached"},
              kind : PauseKind, pauseGen : Generation,
              interrupt : BOOLEAN, owned : BOOLEAN, exception : BOOLEAN,
              nativePause : BOOLEAN]
  /\ history.events \in Seq([n : Generation, session : Generation])
  /\ native.at \in {"none", "init", "loading", "running", "stopped", "stopping", "exited",
                    "ending"}
  /\ native.due \in Callback \cup {"none"}
  /\ op.name \in StateMethods \cup {"none"}
  /\ op.at \in {"idle", "checked", "waiting", "confirmed", "captured", "submitting"}
  /\ op.result \in {"none", "ok", "definite", "unknown"}
  /\ plugin \in {"ready", "draining"}

-----------------------------------------------------------------------------
(* OnDebuggerEvent.  cb is [type, pid, interrupt]: an exception callback    *)
(* says whether its code is EXCEPTION_BREAKPOINT.                           *)

NextState(type) ==
  CASE type \in {"INITDEBUG", "ATTACH"} -> "starting"
    [] type \in {"DETACH", "STOPPINGDEBUG"} -> "stopping"
    [] type = "RESUMEDEBUG" -> "running"
    [] type = "EXITPROCESS" -> "exited"
    [] type = "STOPDEBUG" -> "absent"
    [] OTHER -> "paused"

\* A breakpoint exception while this runtime's own interrupt is outstanding, or
\* next to the pause it has already produced, is the user's pause.
OwnInterrupt(cb) == cb.type = "EXCEPTION" /\ cb.interrupt /\ (dbg.interrupt \/ dbg.owned)

KindOf(cb) ==
  CASE cb.type = "CREATEPROCESS" -> "processCreated"
    [] cb.type = "SYSTEMBREAKPOINT" -> "systemBreakpoint"
    [] cb.type = "BREAKPOINT" -> IF cb.interrupt /\ dbg.exception THEN "exception" ELSE "breakpoint"
    [] cb.type = "EXCEPTION" -> IF OwnInterrupt(cb) THEN "userPause" ELSE "exception"
    [] cb.type = "PAUSEDEBUG" -> "userPause"
    [] cb.type = "STEPPED" -> "step"
    [] OTHER -> "none"

\* The two callbacks that OnDebuggerEvent ignores while a trace is active: a
\* resume behind the pause of a submission that has not returned, and the
\* refinement of the pause from which the trace was admitted.
LateResume(cb) == cb.type = "RESUMEDEBUG" /\ trace.at = "submitting" /\ trace.paused
StaleRefinement(cb) ==
  /\ trace.at # "none"
  /\ ~trace.raw
  /\ cb.type \in Refining \cup {"STEPPED"}
\* Mutant: the refinement of an older pause counts for the trace.
IgnoredLateOnly(cb) == LateResume(cb)

Ignored(cb) == LateResume(cb) \/ StaleRefinement(cb)

\* Flags set from the callback's own fields, before the lock is taken.
Noted(d, cb) ==
  [d EXCEPT !.owned = @ \/ OwnInterrupt(cb) \/ (cb.type = "PAUSEDEBUG" /\ dbg.interrupt),
            !.interrupt = @ /\ ~OwnInterrupt(cb) /\ cb.type # "PAUSEDEBUG"]

\* Origin, process and flags that the locked part updates on every path.
Located(d, cb) ==
  [d EXCEPT
     !.owned = @ /\ cb.type \notin {"RESUMEDEBUG", "STOPDEBUG"},
     !.interrupt = @ /\ cb.type # "STOPDEBUG",
     !.nativePause = cb.type = "PAUSEDEBUG" \/
                     (@ /\ NextState(cb.type) = "paused" /\ cb.type # "CREATEPROCESS"),
     !.exception = @ /\ cb.type \notin {"EXCEPTION", "RESUMEDEBUG"}
                     /\ ~(cb.type = "BREAKPOINT" /\ cb.interrupt),
     !.origin = CASE cb.type \in {"INITDEBUG", "STOPDEBUG"} -> "none"
                  [] cb.type = "ATTACH" -> "attached"
                  [] cb.type = "CREATEPROCESS" /\ @ # "attached" -> "launched"
                  [] OTHER -> @,
     !.pid = CASE cb.type = "STOPDEBUG" -> 0
               [] cb.type \in {"CREATEPROCESS", "ATTACH", "DETACH"} -> cb.pid
               [] OTHER -> @]

\* A pause reported while one is recorded: CB_PAUSEDEBUG and a second sign of
\* the user's pause add nothing; a named reason refines the recorded pause.
NewTracePause(cb) == cb.type = "PAUSEDEBUG" /\ trace.at # "none" /\ dbg.pauseGen <= trace.gen
InPause(cb) == NextState(cb.type) = "paused" /\ dbg.state = "paused" /\ ~NewTracePause(cb)
AddsNothing(cb) ==
  InPause(cb) /\ (cb.type = "PAUSEDEBUG" \/ (KindOf(cb) = "userPause" /\ dbg.kind = "userPause"))
Refines(cb) ==
  InPause(cb) /\ ~AddsNothing(cb)
  /\ (cb.type \in Refining \/ (cb.type = "STEPPED" /\ dbg.kind = "userPause"))

\* The commit: the next generation, and the generation of what was observed.
Committed(d, cb) ==
  LET next == NextState(cb.type)
      g == d.gen + 1
  IN [d EXCEPT
        !.gen = g,
        !.state = IF Refines(cb) THEN @ ELSE next,
        !.pausedGen = IF next = "paused" THEN g ELSE @,
        !.runningGen = IF next = "running" THEN g ELSE @,
        !.absentGen = IF next = "absent" THEN g ELSE @,
        !.kind = IF next = "paused" THEN KindOf(cb) ELSE @,
        !.pauseGen = IF next = "paused" THEN g ELSE @,
        !.attachGen = IF cb.type = "ATTACH" THEN g ELSE @,
        !.attachPid = IF cb.type = "ATTACH" THEN cb.pid ELSE @,
        !.detachGen = IF cb.type = "DETACH" THEN g ELSE @,
        !.detachPid = IF cb.type = "DETACH" THEN cb.pid ELSE @]

-----------------------------------------------------------------------------
(* Event sessions.  The history has at most MaxEventHistory records; its    *)
(* offset counts the records that were discarded.                           *)

\* RecordEventLocked: the record goes to the candidate session when there is one.
Record(h) ==
  LET push(s) == Append(IF Len(s) = MaxEventHistory THEN Tail(s) ELSE s,
                        [n |-> h.next, session |-> IF h.candidate # 0 THEN h.candidate
                                                   ELSE h.session])
      full(s) == Len(s) = MaxEventHistory
  IN IF h.candidate # 0
     THEN [h EXCEPT !.next = @ + 1, !.cEvents = push(@),
                    !.cOffset = IF full(h.cEvents) THEN @ + 1 ELSE @,
                    !.cComplete = @ /\ ~full(h.cEvents)]
     ELSE [h EXCEPT !.next = @ + 1, !.events = push(@),
                    !.offset = IF full(h.events) THEN @ + 1 ELSE @,
                    !.complete = @ /\ ~full(h.events)]

\* CB_INITDEBUG and CB_ATTACH open a candidate session; only CB_CREATEPROCESS
\* establishes it and retires the old one.
SessionFor(h, type) ==
  CASE type = "INITDEBUG" \/ (type = "ATTACH" /\ h.candidate = 0) ->
         [h EXCEPT !.cEvents = <<>>, !.cOffset = 0, !.cComplete = TRUE,
                   !.candidate = h.counter + 1, !.counter = @ + 1, !.established = FALSE]
    [] type = "CREATEPROCESS" /\ ~h.established ->
         [h EXCEPT !.session = IF h.candidate # 0 THEN h.candidate ELSE h.counter + 1,
                   !.counter = @ + 1,
                   !.events = h.cEvents, !.offset = h.cOffset, !.complete = h.cComplete,
                   !.cEvents = <<>>, !.cOffset = 0, !.candidate = 0, !.established = TRUE]
    [] OTHER -> h

SessionAfter(h, type) ==
  IF type = "STOPDEBUG"
  THEN [h EXCEPT !.cEvents = <<>>, !.cOffset = 0, !.candidate = 0, !.established = FALSE]
  ELSE h

\* CommitTraceEventLocked, as far as it changes what is modelled here.
TraceCommit(t, type) ==
  CASE type = "PAUSEDEBUG" /\ t.at = "submitting" -> [t EXCEPT !.paused = TRUE]
    [] type = "PAUSEDEBUG" /\ t.at = "active" -> [t EXCEPT !.at = "none"]
    [] type = "RESUMEDEBUG" /\ t.at = "submitting" -> [t EXCEPT !.paused = FALSE]
    [] type \in {"EXITPROCESS", "STOPDEBUG"} /\ t.at = "active" -> [t EXCEPT !.at = "none"]
    [] type \in {"EXITPROCESS", "STOPDEBUG"} /\ t.at = "submitting" -> [t EXCEPT !.paused = TRUE]
    [] OTHER -> t

\* History: the callbacks that must come, in this order, after an operation was
\* checked if it is to succeed; op.seen counts those that have.
Pausing == Refining \cup {"PAUSEDEBUG", "STEPPED"}
Need ==
  CASE op.name = "attach" -> <<{<<"ATTACH", op.pid>>}, (Pausing \cup {"CREATEPROCESS"}) \X {op.pid}>>
    [] op.name = "detach" -> <<{<<"DETACH", op.pid>>}, {"STOPDEBUG"} \X Pid>>
    [] op.name = "launch" -> <<{"CREATEPROCESS"} \X Pid, Pausing \X Pid>>
    [] op.name = "stop" -> <<{"STOPDEBUG"} \X Pid>>
    [] op.name \in {"resume", "continue"} -> <<{"RESUMEDEBUG"} \X Pid>>
    [] op.name = "step" -> <<{"STEPPED"} \X Pid>>
    [] op.name = "pause" -> <<{"PAUSEDEBUG", "EXCEPTION"} \X Pid>>
    [] op.name = "stepOut" -> <<(Pausing \cup {"CREATEPROCESS"}) \X Pid>>
    [] OTHER -> <<>>
Seen(cb) ==
  op' = IF op.at = "idle" THEN op
        ELSE [op EXCEPT !.seen = IF @ < Len(Need) /\ <<cb.type, cb.pid>> \in Need[@ + 1]
                                 THEN @ + 1 ELSE @,
                        !.moved = @ \/ cb.type = "RESUMEDEBUG"]

OnDebuggerEvent(cb) ==
  LET noted == Noted(dbg, cb)
      located == Located(noted, cb)
      session == SessionFor(history, cb.type)
  IN /\ dbg.gen < MaxGeneration
     /\ Seen(cb)
     /\ UNCHANGED <<pager, plugin>>
     /\ \/ /\ Ignored(cb)
           /\ dbg' = noted
           /\ history' = session
           /\ UNCHANGED trace
        \/ /\ ~Ignored(cb) /\ AddsNothing(cb)
           /\ dbg' = located
           /\ history' = session
           /\ trace' = TraceCommit(trace, cb.type)
        \/ /\ ~Ignored(cb) /\ Refines(cb)
           /\ dbg' = Committed(located, cb)
           /\ history' = Record(session)
           /\ UNCHANGED trace
        \/ /\ ~Ignored(cb) /\ ~AddsNothing(cb) /\ ~Refines(cb)
           /\ dbg' = Committed(located, cb)
           /\ history' = SessionAfter(Record(session), cb.type)
           /\ trace' = TraceCommit(trace, cb.type)

\* CB_DEBUGEVENT: a raw event moves the generation and not the state.  An
\* exception is kept for the callback that follows; of the other kinds, those of
\* threads, DLLs, debug strings and RIP are recorded.
OnRawEvent(kind) ==
  /\ dbg.gen < MaxGeneration
  /\ dbg' = [dbg EXCEPT !.gen = @ + 1, !.pid = native.pid, !.nativePause = FALSE,
                        !.exception = @ \/ kind = "exception"]
  /\ history' = IF kind = "recorded" THEN Record(history) ELSE history
  /\ trace' = [trace EXCEPT !.raw = TRUE]
  /\ Seen([type |-> "DEBUGEVENT", pid |-> native.pid])
  /\ UNCHANGED <<pager, plugin>>

-----------------------------------------------------------------------------
(* x64dbg.                                                                  *)

IsDebugging == native.at \notin {"none", "ending"}

Cb(type) == [type |-> type, pid |-> native.pid, interrupt |-> FALSE]

NativeMoves(to) == [native EXCEPT !.at = to, !.slip = "none", !.raw = FALSE]

NativeInit(p) ==
  /\ native.at = "none"
  /\ native' = [NativeMoves("init") EXCEPT !.pid = p]
  /\ OnDebuggerEvent([type |-> "INITDEBUG", pid |-> p, interrupt |-> FALSE])

NativeAttach ==
  /\ native.at = "init"
  /\ dbg.origin # "attached"
  /\ native' = native
  /\ OnDebuggerEvent(Cb("ATTACH"))

NativeCreate ==
  /\ native.at = "init"
  /\ native' = NativeMoves("loading")
  /\ OnDebuggerEvent(Cb("CREATEPROCESS"))

NativeRaw ==
  /\ native.at \in {"loading", "running"}
  /\ native.due = "none"
  /\ native' = [native EXCEPT !.raw = TRUE]
  /\ \E kind \in {"exception", "recorded", "other"} : OnRawEvent(kind)

\* A stop follows a raw event: `reason' names it, `first' is the callback that comes first.
NativeStop(reason, first, interrupt) ==
  /\ native.at \in {"loading", "running"} /\ native.raw
  /\ native.due = "none"
  /\ first \in {reason, "PAUSEDEBUG"}
  /\ native' = [NativeMoves("stopped") EXCEPT
                  !.due = IF reason = "PAUSEDEBUG" THEN "none"
                          ELSE IF first = "PAUSEDEBUG" THEN reason ELSE "PAUSEDEBUG"]
  /\ OnDebuggerEvent([type |-> first, pid |-> native.pid, interrupt |-> interrupt])

\* The stop's second callback; a run command may have overtaken it.
NativeDue ==
  /\ native.due # "none"
  /\ native' = [native EXCEPT !.due = "none",
                              !.slip = IF native.at = "stopped" THEN "none"
                                       ELSE IF StaleRefinement(Cb(native.due)) THEN @
                                       ELSE "refinement"]
  /\ OnDebuggerEvent(Cb(native.due))

\* The user, or a command, resumes; not from within a trace's command.
NativeResume ==
  /\ native.at = "stopped" /\ ~native.owed
  /\ native' = [NativeMoves("running") EXCEPT
                  !.slip = IF LateResume(Cb("RESUMEDEBUG")) THEN "resume" ELSE "none"]
  /\ OnDebuggerEvent(Cb("RESUMEDEBUG"))

\* A trace's submission resumes; its callback may come behind later ones.
NativeTraceRuns ==
  /\ op.at = "submitting" /\ op.name = "trace"
  /\ ~native.ran
  /\ native.at = "stopped"
  /\ native' = [native EXCEPT !.at = "running", !.ran = TRUE, !.owed = TRUE, !.raw = FALSE]
  /\ UNCHANGED <<dbg, history, trace, op, pager, plugin>>

NativeOwedResume ==
  /\ native.owed
  /\ native' = [native EXCEPT !.owed = FALSE,
                              !.slip = IF LateResume(Cb("RESUMEDEBUG")) = (native.at = "running")
                                       THEN "resume"
                                       ELSE IF native.at = "running" THEN "none" ELSE @]
  /\ OnDebuggerEvent(Cb("RESUMEDEBUG"))

NativeLeaves(type, to) ==
  /\ native.at \in {"loading", "running", "stopped"}
  /\ native.due = "none" /\ ~native.owed
  /\ native' = NativeMoves(to)
  /\ OnDebuggerEvent(Cb(type))

\* DbgIsDebugging turns false; a failed start ends this way too.
NativeEnds ==
  /\ native.at \in {"init", "exited", "stopping"}
  /\ native' = NativeMoves("ending")
  /\ UNCHANGED <<dbg, history, trace, op, pager, plugin>>

NativeStopped ==
  /\ native.at = "ending"
  /\ native' = NativeMoves("none")
  /\ OnDebuggerEvent(Cb("STOPDEBUG"))

NativeStep ==
  \/ \E p \in Process : NativeInit(p)
  \/ NativeAttach
  \/ NativeCreate
  \/ NativeRaw
  \/ \E reason \in Refining \cup {"PAUSEDEBUG", "STEPPED"}, interrupt \in BOOLEAN :
       \E first \in {reason, "PAUSEDEBUG"} :
         /\ interrupt => reason \in {"EXCEPTION", "BREAKPOINT"}
         /\ NativeStop(reason, first, interrupt)
  \/ NativeDue
  \/ NativeResume
  \/ NativeTraceRuns
  \/ NativeOwedResume
  \/ NativeLeaves("EXITPROCESS", "exited")
  \/ NativeLeaves("STOPPINGDEBUG", "stopping")
  \/ NativeLeaves("DETACH", "stopping")
  \/ NativeEnds
  \/ NativeStopped

=============================================================================
