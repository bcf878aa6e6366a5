----------------------- MODULE DebuggerOperations_proofs -----------------------
(***************************************************************************)
(* Proofs about DebuggerOperations, for any number of processes, callbacks *)
(* and operations: the picture of the debugger agrees with the debugger,   *)
(* answers stand on callbacks of their own time, and the generation moves  *)
(* with every change of the state.                                         *)
(***************************************************************************)
EXTENDS DebuggerOperations, TLAPS, WellFoundedInduction, NaturalsInduction

-----------------------------------------------------------------------------
(* The records, field by field.                                            *)

DbgFields ==
  {"state", "gen", "pausedGen", "runningGen", "absentGen", "attachGen", "attachPid", "detachGen",
   "detachPid", "pid", "origin", "kind", "pauseGen", "interrupt", "owned", "exception",
   "nativePause"}
OpFields ==
  {"name", "at", "count", "pid", "before", "snap", "pause", "seen", "moved", "read", "result"}
NativeFields == {"at", "pid", "due", "slip", "raw", "owed", "ran"}
TraceFields == {"at", "gen", "raw", "paused"}
ObservedGens == {"pausedGen", "runningGen", "absentGen", "attachGen", "detachGen"}

\* The records have their fields, and the fields that the proofs read have
\* their types: a generation that was observed is not in the future.
Shapes ==
  /\ DOMAIN dbg = DbgFields /\ DOMAIN op = OpFields
  /\ DOMAIN native = NativeFields /\ DOMAIN trace = TraceFields
  /\ dbg.state \in State
  /\ dbg.gen \in 0..MaxGeneration
  /\ \A f \in ObservedGens : dbg[f] \in 0..dbg.gen
  /\ native.pid \in Pid
  /\ native.due \in Pausing \cup {"none"}
  /\ op.seen \in Nat

\* The callback is committed: it moves the generation.
Commits(cb) == ~Ignored(cb) /\ ~AddsNothing(cb)

\* The flags noted before the lock is taken; every other field stays.
LEMMA NotedFields ==
  ASSUME NEW d, NEW cb, DOMAIN d = DbgFields, NEW n, n = Noted(d, cb)
  PROVE  /\ DOMAIN n = DbgFields
         /\ \A f \in DbgFields \ {"owned", "interrupt"} : n[f] = d[f]
BY DEF Noted, DbgFields

\* Origin, process and flags after the locked part; the generations stay.
LEMMA LocatedFields ==
  ASSUME NEW d, NEW cb, DOMAIN d = DbgFields, NEW n, n = Located(d, cb)
  PROVE  /\ DOMAIN n = DbgFields
         /\ \A f \in DbgFields \ {"owned", "interrupt", "nativePause", "exception", "origin", "pid"} :
              n[f] = d[f]
         /\ n.pid = CASE cb.type = "STOPDEBUG" -> 0
                      [] cb.type \in {"CREATEPROCESS", "ATTACH", "DETACH"} -> cb.pid
                      [] OTHER -> d.pid
<1>1. DOMAIN n = DbgFields
  BY DEF Located
<1>2. \A f \in DbgFields \ {"owned", "interrupt", "nativePause", "exception", "origin", "pid"} :
        n[f] = d[f]
  BY DEF Located
<1>3. n.pid = CASE cb.type = "STOPDEBUG" -> 0
                [] cb.type \in {"CREATEPROCESS", "ATTACH", "DETACH"} -> cb.pid
                [] OTHER -> d.pid
  BY DEF Located, DbgFields
<1> QED
  BY <1>1, <1>2, <1>3

\* A commit, field by field: the next generation and what it is the generation of.
LEMMA CommittedFields ==
  ASSUME NEW d, NEW cb, DOMAIN d = DbgFields, NEW n, n = Committed(d, cb)
  PROVE  LET next == NextState(cb.type)
             g == d.gen + 1
         IN /\ DOMAIN n = DbgFields
            /\ n.gen = g
            /\ n.state = IF Refines(cb) THEN d.state ELSE next
            /\ n.pausedGen = IF next = "paused" THEN g ELSE d.pausedGen
            /\ n.runningGen = IF next = "running" THEN g ELSE d.runningGen
            /\ n.absentGen = IF next = "absent" THEN g ELSE d.absentGen
            /\ n.kind = IF next = "paused" THEN KindOf(cb) ELSE d.kind
            /\ n.attachGen = IF cb.type = "ATTACH" THEN g ELSE d.attachGen
            /\ n.attachPid = IF cb.type = "ATTACH" THEN cb.pid ELSE d.attachPid
            /\ n.detachGen = IF cb.type = "DETACH" THEN g ELSE d.detachGen
            /\ n.detachPid = IF cb.type = "DETACH" THEN cb.pid ELSE d.detachPid
            /\ n.pid = d.pid
<1> DEFINE next == NextState(cb.type)
<1>1. DOMAIN n = DbgFields
  BY DEF Committed
<1>2. n.gen = d.gen + 1 /\ n.pid = d.pid /\ n.state = IF Refines(cb) THEN d.state ELSE next
  BY DEF Committed, DbgFields
<1>3. /\ n.pausedGen = IF next = "paused" THEN d.gen + 1 ELSE d.pausedGen
      /\ n.runningGen = IF next = "running" THEN d.gen + 1 ELSE d.runningGen
      /\ n.absentGen = IF next = "absent" THEN d.gen + 1 ELSE d.absentGen
  BY DEF Committed, DbgFields
<1>4. n.kind = IF next = "paused" THEN KindOf(cb) ELSE d.kind
  BY DEF Committed, DbgFields
<1>5. /\ n.attachGen = IF cb.type = "ATTACH" THEN d.gen + 1 ELSE d.attachGen
      /\ n.attachPid = IF cb.type = "ATTACH" THEN cb.pid ELSE d.attachPid
  BY DEF Committed, DbgFields
<1>6. /\ n.detachGen = IF cb.type = "DETACH" THEN d.gen + 1 ELSE d.detachGen
      /\ n.detachPid = IF cb.type = "DETACH" THEN cb.pid ELSE d.detachPid
  BY DEF Committed, DbgFields
<1> QED
  BY <1>1, <1>2, <1>3, <1>4, <1>5, <1>6

\* What OnDebuggerEvent does to the debugger fields, whichever path it takes.
EventKeepsOrCommits(cb) ==
  LET next == NextState(cb.type)
      g == dbg.gen + 1
  IN /\ DOMAIN dbg' = DbgFields
     /\ dbg'.gen = IF Commits(cb) THEN g ELSE dbg.gen
     /\ dbg'.state = IF Commits(cb) /\ ~Refines(cb) THEN next ELSE dbg.state
     /\ dbg'.pausedGen = IF Commits(cb) /\ next = "paused" THEN g ELSE dbg.pausedGen
     /\ dbg'.runningGen = IF Commits(cb) /\ next = "running" THEN g ELSE dbg.runningGen
     /\ dbg'.absentGen = IF Commits(cb) /\ next = "absent" THEN g ELSE dbg.absentGen
     /\ dbg'.kind = IF Commits(cb) /\ next = "paused" THEN KindOf(cb) ELSE dbg.kind
     /\ dbg'.attachGen = IF Commits(cb) /\ cb.type = "ATTACH" THEN g ELSE dbg.attachGen
     /\ dbg'.attachPid = IF Commits(cb) /\ cb.type = "ATTACH" THEN cb.pid ELSE dbg.attachPid
     /\ dbg'.detachGen = IF Commits(cb) /\ cb.type = "DETACH" THEN g ELSE dbg.detachGen
     /\ dbg'.detachPid = IF Commits(cb) /\ cb.type = "DETACH" THEN cb.pid ELSE dbg.detachPid
     /\ dbg'.pid = IF Ignored(cb) THEN dbg.pid
                   ELSE CASE cb.type = "STOPDEBUG" -> 0
                          [] cb.type \in {"CREATEPROCESS", "ATTACH", "DETACH"} -> cb.pid
                          [] OTHER -> dbg.pid

\* OnDebuggerEvent on the debugger fields: an ignored or repeated callback moves
\* no generation, a committed one moves it by one.
LEMMA EventOnDbg ==
  ASSUME DOMAIN dbg = DbgFields, NEW cb, OnDebuggerEvent(cb)
  PROVE  dbg.gen < MaxGeneration /\ EventKeepsOrCommits(cb)
<1> DEFINE noted == Noted(dbg, cb)
           located == Located(noted, cb)
           committed == Committed(located, cb)
<1>0. dbg.gen < MaxGeneration
  BY DEF OnDebuggerEvent
<1>1. /\ DOMAIN noted = DbgFields
      /\ \A f \in DbgFields \ {"owned", "interrupt"} : noted[f] = dbg[f]
  BY NotedFields
<1>2. /\ DOMAIN located = DbgFields
      /\ \A f \in DbgFields \ {"owned", "interrupt", "nativePause", "exception", "origin", "pid"} :
           located[f] = noted[f]
      /\ located.pid = CASE cb.type = "STOPDEBUG" -> 0
                         [] cb.type \in {"CREATEPROCESS", "ATTACH", "DETACH"} -> cb.pid
                         [] OTHER -> noted.pid
  <2> HIDE DEF noted
  <2> QED
    BY <1>1, LocatedFields
<1>3. CASE Ignored(cb)
  <2>1. dbg' = noted
    BY <1>3 DEF OnDebuggerEvent
  <2> HIDE DEF noted
  <2> QED
    BY <1>1, <1>3, <2>1, <1>0 DEF EventKeepsOrCommits, Commits, DbgFields
<1>4. CASE ~Ignored(cb) /\ AddsNothing(cb)
  <2>1. dbg' = located
    BY <1>4 DEF OnDebuggerEvent, Refines
  <2> HIDE DEF noted, located
  <2> QED
    BY <1>1, <1>2, <1>4, <2>1, <1>0 DEF EventKeepsOrCommits, Commits, DbgFields
<1>5. CASE Commits(cb)
  <2>1. dbg' = committed
    BY <1>5 DEF OnDebuggerEvent, Commits
  <2> HIDE DEF noted, located
  <2>2. located.gen = dbg.gen /\ located.state = dbg.state /\ located.kind = dbg.kind
    BY <1>1, <1>2 DEF DbgFields
  <2>3. /\ located.pausedGen = dbg.pausedGen /\ located.runningGen = dbg.runningGen
        /\ located.absentGen = dbg.absentGen /\ located.attachGen = dbg.attachGen
        /\ located.attachPid = dbg.attachPid /\ located.detachGen = dbg.detachGen
        /\ located.detachPid = dbg.detachPid
    BY <1>1, <1>2 DEF DbgFields
  <2>4. located.pid = CASE cb.type = "STOPDEBUG" -> 0
                        [] cb.type \in {"CREATEPROCESS", "ATTACH", "DETACH"} -> cb.pid
                        [] OTHER -> dbg.pid
    BY <1>1, <1>2 DEF DbgFields
  <2> QED
    BY <1>0, <1>2, <1>5, <2>1, <2>2, <2>3, <2>4, CommittedFields DEF EventKeepsOrCommits, Commits
<1> QED
  BY <1>0, <1>3, <1>4, <1>5 DEF Commits

\* ... to the trace, and to what the operation has seen.
LEMMA EventOnTrace ==
  ASSUME DOMAIN trace = TraceFields, NEW cb, OnDebuggerEvent(cb)
  PROVE  /\ DOMAIN trace' = TraceFields /\ trace'.raw = trace.raw /\ trace'.gen = trace.gen
         /\ trace'.at = trace.at \/ (trace.at = "active" /\ trace'.at = "none")
<1>1. UNCHANGED trace \/ trace' = TraceCommit(trace, cb.type)
  BY DEF OnDebuggerEvent
<1> QED
  BY <1>1 DEF TraceCommit, TraceFields

KeptOpFields == OpFields \ {"seen", "moved"}

\* A callback advances the count of what the operation waits for by one at most.
LEMMA SeenFields ==
  ASSUME DOMAIN op = OpFields, NEW cb, Seen(cb)
  PROVE  /\ DOMAIN op' = OpFields
         /\ \A f \in KeptOpFields : op'[f] = op[f]
         /\ op.at = "idle" => op' = op
         /\ op.at # "idle" =>
              /\ op'.moved = (op.moved \/ cb.type = "RESUMEDEBUG")
              /\ op'.seen = IF op.seen < Len(Need) /\ <<cb.type, cb.pid>> \in Need[op.seen + 1]
                            THEN op.seen + 1 ELSE op.seen
<1>1. CASE op.at = "idle"
  BY <1>1 DEF Seen
<1>2. CASE op.at # "idle"
  <2>1. DOMAIN op' = OpFields /\ \A f \in KeptOpFields : op'[f] = op[f]
    BY <1>2 DEF Seen, KeptOpFields
  <2>2. op'.moved = (op.moved \/ cb.type = "RESUMEDEBUG")
    BY <1>2 DEF Seen, OpFields
  <2>3. op'.seen = IF op.seen < Len(Need) /\ <<cb.type, cb.pid>> \in Need[op.seen + 1]
                   THEN op.seen + 1 ELSE op.seen
    BY <1>2 DEF Seen, OpFields
  <2> QED
    BY <1>2, <2>1, <2>2, <2>3
<1> QED
  BY <1>1, <1>2

\* Without a debuggee left, the reconciliation commits its absence.
LEMMA ReconciledFields ==
  ASSUME DOMAIN dbg = DbgFields, Reconciles
  PROVE  /\ DOMAIN Reconciled = DbgFields
         /\ Reconciled.state = "absent" /\ Reconciled.gen = dbg.gen + 1
         /\ Reconciled.absentGen = dbg.gen + 1 /\ Reconciled.pid = 0
         /\ \A f \in {"pausedGen", "runningGen", "attachGen", "attachPid", "detachGen", "detachPid"} :
              Reconciled[f] = dbg[f]
<1>1. Reconciled = [dbg EXCEPT !.state = "absent", !.origin = "none", !.pid = 0,
                               !.interrupt = FALSE, !.owned = FALSE, !.nativePause = FALSE,
                               !.kind = "none", !.pauseGen = 0, !.gen = @ + 1,
                               !.absentGen = dbg.gen + 1]
  BY DEF Reconciled
<1> HIDE DEF Reconciled
<1>2. DOMAIN Reconciled = DbgFields
  BY <1>1
<1>3. Reconciled.state = "absent" /\ Reconciled.gen = dbg.gen + 1 /\ Reconciled.pid = 0
  BY <1>1 DEF DbgFields
<1>4. Reconciled.absentGen = dbg.gen + 1
  BY <1>1 DEF DbgFields
<1>5. \A f \in {"pausedGen", "runningGen", "attachGen", "attachPid", "detachGen", "detachPid"} :
        Reconciled[f] = dbg[f]
  BY <1>1 DEF DbgFields
<1> QED
  BY <1>2, <1>3, <1>4, <1>5

-----------------------------------------------------------------------------
(* The kinds of steps.                                                     *)

\* A step of x64dbg is a callback, a raw event, or invisible.
LEMMA NativeKinds ==
  ASSUME Shapes, NativeStep
  PROVE  /\ DOMAIN native' = NativeFields
         /\ native'.pid \in Pid
         /\ native'.due \in Pausing \cup {"none"}
         /\ \/ \E cb : /\ OnDebuggerEvent(cb) /\ cb.type \in Callback \ {"DEBUGEVENT"}
                       /\ cb.pid = native'.pid
            \/ NativeRaw
            \/ UNCHANGED <<dbg, history, trace, op, pager, plugin>>
<1> USE DEF Shapes, NativeFields, NativeMoves, Callback, Pausing, Refining, Cb, Pid
<1>1. ASSUME NEW p \in Process, NativeInit(p)
      PROVE  /\ DOMAIN native' = NativeFields /\ native'.pid = p /\ native'.due = native.due
             /\ OnDebuggerEvent([type |-> "INITDEBUG", pid |-> p, interrupt |-> FALSE])
  BY <1>1 DEF NativeInit
<1>2. CASE NativeAttach
  <2> DEFINE cb == Cb("ATTACH")
  <2>1. native' = native /\ OnDebuggerEvent(cb)
    BY <1>2 DEF NativeAttach
  <2>2. cb.type = "ATTACH" /\ cb.pid = native'.pid
    BY <2>1
  <2> HIDE DEF cb
  <2> QED
    BY <2>1, <2>2
<1>3. CASE NativeCreate \/ NativeStopped
  <2>1. DOMAIN native' = NativeFields /\ native'.pid = native.pid /\ native'.due = native.due
    BY <1>3 DEF NativeCreate, NativeStopped
  <2>2. OnDebuggerEvent(Cb("CREATEPROCESS")) \/ OnDebuggerEvent(Cb("STOPDEBUG"))
    BY <1>3 DEF NativeCreate, NativeStopped
  <2>3. \A t \in Callback : Cb(t).type = t /\ Cb(t).pid = native.pid
    OBVIOUS
  <2> HIDE DEF Cb
  <2> QED
    BY <2>1, <2>2, <2>3
<1>4. CASE NativeRaw
  BY <1>4 DEF NativeRaw
<1>5. ASSUME NEW reason \in Refining \cup {"PAUSEDEBUG", "STEPPED"}, NEW interrupt,
             NEW first \in {reason, "PAUSEDEBUG"}, NativeStop(reason, first, interrupt)
      PROVE  /\ DOMAIN native' = NativeFields /\ native'.pid = native.pid
             /\ native'.due \in Pausing \cup {"none"}
             /\ OnDebuggerEvent([type |-> first, pid |-> native.pid, interrupt |-> interrupt])
  BY <1>5 DEF NativeStop
<1>6. CASE NativeDue
  <2>1. native.due \in Pausing
    BY <1>6 DEF NativeDue
  <2>2. DOMAIN native' = NativeFields /\ native'.pid = native.pid /\ native'.due = "none"
    BY <1>6 DEF NativeDue
  <2> QED
    BY <1>6, <2>1, <2>2 DEF NativeDue
<1>7. CASE NativeResume
  <2>1. OnDebuggerEvent(Cb("RESUMEDEBUG"))
    BY <1>7 DEF NativeResume
  <2>2. DOMAIN native' = NativeFields /\ native'.pid = native.pid /\ native'.due = native.due
    BY <1>7 DEF NativeResume
  <2>3. Cb("RESUMEDEBUG").type = "RESUMEDEBUG" /\ Cb("RESUMEDEBUG").pid = native'.pid
    BY <2>2
  <2> QED
    BY <2>1, <2>2, <2>3
<1>8. CASE NativeTraceRuns \/ NativeEnds
  BY <1>8 DEF NativeTraceRuns, NativeEnds
<1>9. CASE NativeOwedResume
  <2>1. OnDebuggerEvent(Cb("RESUMEDEBUG"))
    BY <1>9 DEF NativeOwedResume
  <2>2. DOMAIN native' = NativeFields /\ native'.pid = native.pid /\ native'.due = native.due
    BY <1>9 DEF NativeOwedResume
  <2>3. Cb("RESUMEDEBUG").type = "RESUMEDEBUG" /\ Cb("RESUMEDEBUG").pid = native'.pid
    BY <2>2
  <2> QED
    BY <2>1, <2>2, <2>3
<1>10. ASSUME NEW type \in {"EXITPROCESS", "STOPPINGDEBUG", "DETACH"}, NEW to,
              NativeLeaves(type, to)
       PROVE  /\ DOMAIN native' = NativeFields /\ native'.pid = native.pid
              /\ native'.due = native.due /\ OnDebuggerEvent(Cb(type))
  BY <1>10 DEF NativeLeaves
<1>11. CASE NativeLeaves("EXITPROCESS", "exited") \/ NativeLeaves("STOPPINGDEBUG", "stopping")
            \/ NativeLeaves("DETACH", "stopping")
  BY <1>10, <1>11
<1>12. CASE \E p \in Process : NativeInit(p)
  <2>1. PICK p \in Process : NativeInit(p)
    BY <1>12
  <2> DEFINE cb == [type |-> "INITDEBUG", pid |-> p, interrupt |-> FALSE]
  <2>2. /\ DOMAIN native' = NativeFields /\ native'.pid = p /\ native'.due = native.due
        /\ OnDebuggerEvent(cb)
    BY <1>1, <2>1
  <2>3. cb.type = "INITDEBUG" /\ cb.pid = p
    OBVIOUS
  <2> HIDE DEF cb
  <2> QED
    BY <2>2, <2>3
<1>13. CASE \E reason \in Refining \cup {"PAUSEDEBUG", "STEPPED"}, interrupt \in BOOLEAN :
              \E first \in {reason, "PAUSEDEBUG"} :
                /\ interrupt => reason \in {"EXCEPTION", "BREAKPOINT"}
                /\ NativeStop(reason, first, interrupt)
  <2>1. PICK reason \in Refining \cup {"PAUSEDEBUG", "STEPPED"}, interrupt \in BOOLEAN :
          \E first \in {reason, "PAUSEDEBUG"} : NativeStop(reason, first, interrupt)
    BY <1>13
  <2>2. PICK first \in {reason, "PAUSEDEBUG"} : NativeStop(reason, first, interrupt)
    BY <2>1
  <2> DEFINE cb == [type |-> first, pid |-> native.pid, interrupt |-> interrupt]
  <2>3. /\ DOMAIN native' = NativeFields /\ native'.pid = native.pid
        /\ native'.due \in Pausing \cup {"none"} /\ OnDebuggerEvent(cb)
    BY <1>5, <2>2
  <2>4. cb.type = first /\ cb.pid = native.pid
    OBVIOUS
  <2> HIDE DEF cb
  <2>5. cb.type \in Callback \ {"DEBUGEVENT"}
    BY <2>4
  <2> QED
    BY <2>3, <2>4, <2>5
<1> QED
  BY <1>2, <1>3, <1>4, <1>6, <1>7, <1>8, <1>9, <1>11, <1>12, <1>13 DEF NativeStep

\* The steps of an operation after its check.
OperationGoesOn ==
  \/ Submit \/ SubmitStepOut \/ SubmitPause \/ SubmitTrace \/ TraceSubmitted \/ BeginWait
  \/ BeginState \/ Confirm \/ GiveUp \/ ReadRegisters \/ Conclude

\* An operation that goes on leaves the state and its generations alone.
LEMMA OperationKeeps ==
  ASSUME Shapes, OperationGoesOn
  PROVE  /\ DOMAIN dbg' = DbgFields /\ \A f \in DbgFields \ {"interrupt"} : dbg'[f] = dbg[f]
         /\ DOMAIN op' = OpFields
         /\ \A f \in {"name", "count", "pid", "seen"} : op'[f] = op[f]
         /\ op.at # "idle"
         /\ DOMAIN trace' = TraceFields
         /\ DOMAIN native' = NativeFields
         /\ \A f \in NativeFields \ {"ran"} : native'[f] = native[f]
         /\ UNCHANGED <<history, pager, plugin>>
<1> USE DEF Shapes, OpFields, OthersUnchanged, Finish
<1>1. CASE Submit \/ SubmitStepOut
  BY <1>1 DEF Submit, SubmitStepOut
<1>2. CASE SubmitPause
  BY <1>2 DEF SubmitPause, DbgFields
<1>3. CASE SubmitTrace
  BY <1>3 DEF SubmitTrace, TraceFields
<1>4. CASE TraceSubmitted
  BY <1>4 DEF TraceSubmitted, TraceFields, NativeFields
<1>5. CASE BeginWait
  BY <1>5 DEF BeginWait
<1>6. CASE BeginState
  BY <1>6 DEF BeginState
<1>7. CASE Confirm
  <2>1. /\ DOMAIN dbg' = DbgFields /\ \A f \in DbgFields \ {"interrupt"} : dbg'[f] = dbg[f]
        /\ UNCHANGED <<trace, native, history, pager, plugin>>
    BY <1>7 DEF Confirm, DbgFields
  <2>2. /\ DOMAIN op' = OpFields /\ op.at # "idle"
        /\ \A f \in {"name", "count", "pid", "seen"} : op'[f] = op[f]
    BY <1>7 DEF Confirm
  <2> QED
    BY <2>1, <2>2
<1>8. CASE GiveUp
  BY <1>8 DEF GiveUp
<1>9. CASE ReadRegisters
  BY <1>9 DEF ReadRegisters
<1>10. CASE Conclude
  BY <1>10 DEF Conclude
<1> QED
  BY <1>1, <1>2, <1>3, <1>4, <1>5, <1>6, <1>7, <1>8, <1>9, <1>10 DEF OperationGoesOn

\* A check begins an operation at the reconciled generation.
LEMMA CheckBegins ==
  ASSUME Shapes, NEW m, NEW p, Check(m, p)
  PROVE  /\ op.at = "idle" /\ plugin = "ready"
         /\ DOMAIN op' = OpFields /\ op'.name = m /\ op'.snap = dbg'.gen /\ op'.seen = 0
         /\ op'.moved = FALSE /\ op'.read = "none" /\ op'.before = 0
         /\ op'.pid = IF m = "detach" THEN dbg'.pid ELSE p
         /\ \/ op'.at = "checked" /\ op'.result = "none" /\ Valid(m, dbg')
            \/ op'.at = "idle" /\ op'.result = "definite"
         /\ \/ dbg' = dbg
            \/ Reconciles /\ dbg.gen < MaxGeneration /\ dbg' = Reconciled
         /\ DOMAIN trace' = TraceFields /\ trace'.raw = trace.raw
         /\ trace'.at = trace.at \/ (trace.at = "active" /\ trace'.at = "none")
         /\ UNCHANGED <<native, history, pager, plugin>>
<1> DEFINE d == IF m \in Reconciling THEN Reconciled ELSE dbg
           started == [NoOp EXCEPT !.name = m, !.count = op.count + 1, !.snap = d.gen,
                                   !.pid = IF m = "detach" THEN d.pid ELSE p]
<1>1. dbg' = d
  BY DEF Check, Reconcile
<1>2. /\ DOMAIN started = OpFields /\ started.name = m /\ started.snap = d.gen /\ started.seen = 0
      /\ started.moved = FALSE /\ started.read = "none" /\ started.before = 0
      /\ started.pid = IF m = "detach" THEN d.pid ELSE p
      /\ started.at = "idle" /\ started.result = "none"
  <2> HIDE DEF d
  <2> QED
    BY DEF NoOp, OpFields
<1>3. op' = IF Valid(m, d) THEN [started EXCEPT !.at = "checked"]
            ELSE [started EXCEPT !.result = "definite"]
  BY DEF Check
<1>4. /\ \/ dbg' = dbg
         \/ Reconciles /\ dbg.gen < MaxGeneration /\ dbg' = Reconciled
      /\ op.at = "idle" /\ plugin = "ready"
      /\ UNCHANGED <<native, history, pager, plugin>>
  BY <1>1 DEF Check, Reconcile, Reconciled, OthersUnchanged
<1>5. /\ DOMAIN trace' = TraceFields /\ trace'.raw = trace.raw
      /\ trace'.at = trace.at \/ (trace.at = "active" /\ trace'.at = "none")
  BY DEF Check, Reconcile, TraceCommit, TraceFields, Shapes
<1> HIDE DEF d, started
<1>6. /\ DOMAIN op' = OpFields /\ op'.name = m /\ op'.snap = d.gen /\ op'.seen = 0
      /\ op'.moved = FALSE /\ op'.read = "none" /\ op'.before = 0
      /\ op'.pid = IF m = "detach" THEN d.pid ELSE p
      /\ \/ op'.at = "checked" /\ op'.result = "none" /\ Valid(m, d)
         \/ op'.at = "idle" /\ op'.result = "definite"
  BY <1>2, <1>3 DEF OpFields
<1> QED
  BY <1>1, <1>4, <1>5, <1>6

-----------------------------------------------------------------------------
(* The shapes are kept.                                                    *)

\* Some process id is the smallest.
LEMMA MinProcess == Min(Process) \in Process
<1>1. PICK x \in Process : \A y \in Process : <<y, x>> \notin OpToRel(<, Nat)
  <2>1. IsWellFoundedOn(OpToRel(<, Nat), Nat)
    BY NatLessThanWellFounded
  <2> QED
    BY <2>1, WFMin, StateAssumption
<1>2. ASSUME NEW y \in Process
      PROVE  x =< y
  <2>1. x \in Nat /\ y \in Nat
    BY StateAssumption
  <2>2. SUFFICES ASSUME y < x PROVE FALSE
    BY <2>1
  <2>3. <<y, x>> \in Nat \X Nat /\ <<y, x>>[1] < <<y, x>>[2]
    BY <2>1, <2>2
  <2> QED
    BY <1>1, <2>3, Zenon DEF OpToRel
<1> QED
  BY <1>2 DEF Min

\* The initial states have these shapes.
LEMMA InitShapes ==
  ASSUME Init
  PROVE  Shapes
<1> USE StateAssumption
<1>1. PICK origin \in {"none", "launched", "attached"} :
        LET paused == origin # "none" IN
        dbg = [state |-> IF paused THEN "paused" ELSE "absent", gen |-> FirstGeneration,
               pausedGen |-> IF paused THEN FirstGeneration ELSE 0, runningGen |-> 0,
               absentGen |-> IF paused THEN 0 ELSE FirstGeneration,
               attachGen |-> 0, attachPid |-> 0, detachGen |-> 0, detachPid |-> 0,
               pid |-> IF paused THEN Min(Process) ELSE 0,
               origin |-> origin,
               kind |-> IF paused THEN "systemBreakpoint" ELSE "none",
               pauseGen |-> IF paused THEN FirstGeneration ELSE 0,
               interrupt |-> FALSE, owned |-> FALSE, exception |-> FALSE,
               nativePause |-> paused]
  BY DEF Init
<1>2. DOMAIN dbg = DbgFields /\ dbg.state \in State /\ dbg.gen \in 0..MaxGeneration
  BY <1>1 DEF DbgFields, State
<1>3. /\ dbg.pausedGen \in 0..dbg.gen /\ dbg.runningGen \in 0..dbg.gen
      /\ dbg.absentGen \in 0..dbg.gen
  BY <1>1
<1>4. dbg.attachGen \in 0..dbg.gen /\ dbg.detachGen \in 0..dbg.gen /\ dbg.pid \in Pid
  BY <1>1, MinProcess DEF Pid
<1>5. DOMAIN op = OpFields /\ op.seen = 0 /\ DOMAIN trace = TraceFields
  BY DEF Init, NoOp, NoTrace, OpFields, TraceFields
<1>6. DOMAIN native = NativeFields /\ native.pid = dbg.pid /\ native.due = "none"
  BY DEF Init, NativeFields
<1> QED
  BY <1>2, <1>3, <1>4, <1>5, <1>6 DEF Shapes, ObservedGens

\* A callback keeps them, and what the operation has seen grows with it.
LEMMA EventShapes ==
  ASSUME Shapes, NEW cb, OnDebuggerEvent(cb), cb.type \in Callback,
         DOMAIN native' = NativeFields, native'.pid \in Pid, native'.due \in Pausing \cup {"none"}
  PROVE  Shapes'
<1>1. dbg.gen < MaxGeneration /\ EventKeepsOrCommits(cb)
  BY EventOnDbg DEF Shapes
<1>2. Seen(cb)
  BY DEF OnDebuggerEvent
<1>3. DOMAIN op' = OpFields /\ (op'.seen = op.seen \/ op'.seen = op.seen + 1)
  BY <1>2, SeenFields DEF Shapes
<1>4. NextState(cb.type) \in State
  BY DEF NextState, State, Callback, Refining
<1>5. DOMAIN dbg' = DbgFields /\ dbg'.state \in State /\ dbg'.gen \in dbg.gen..MaxGeneration
  BY <1>1, <1>4, StateAssumption DEF EventKeepsOrCommits, Shapes
<1>6. \A f \in ObservedGens : dbg'[f] \in 0..dbg'.gen
  BY <1>1 DEF EventKeepsOrCommits, Shapes, ObservedGens
<1>7. DOMAIN trace' = TraceFields
  BY EventOnTrace DEF Shapes
<1>8. op'.seen \in Nat
  BY <1>3 DEF Shapes
<1> QED
  BY <1>3, <1>5, <1>6, <1>7, <1>8, StateAssumption DEF Shapes

\* A raw event moves the generation alone.
LEMMA RawFields ==
  ASSUME Shapes, NativeRaw
  PROVE  /\ dbg.gen < MaxGeneration
         /\ DOMAIN dbg' = DbgFields /\ dbg'.gen = dbg.gen + 1 /\ dbg'.pid = native.pid
         /\ \A f \in DbgFields \ {"gen", "pid", "nativePause", "exception"} : dbg'[f] = dbg[f]
         /\ DOMAIN trace' = TraceFields /\ trace'.raw = TRUE /\ trace'.at = trace.at
         /\ DOMAIN native' = NativeFields /\ native'.raw = TRUE
         /\ \A f \in NativeFields \ {"raw"} : native'[f] = native[f]
         /\ DOMAIN op' = OpFields
         /\ \A f \in KeptOpFields : op'[f] = op[f]
         /\ op'.moved <=> op.moved
         /\ op'.seen = op.seen
         /\ UNCHANGED <<pager, plugin>>
<1>1. PICK kind \in {"exception", "recorded", "other"} : OnRawEvent(kind)
  BY DEF NativeRaw
<1>2. dbg.gen < MaxGeneration /\ UNCHANGED <<pager, plugin>>
  BY <1>1 DEF OnRawEvent
<1>3. /\ DOMAIN dbg' = DbgFields /\ dbg'.gen = dbg.gen + 1 /\ dbg'.pid = native.pid
      /\ \A f \in DbgFields \ {"gen", "pid", "nativePause", "exception"} : dbg'[f] = dbg[f]
  BY <1>1 DEF OnRawEvent, Shapes, DbgFields
<1>4. DOMAIN trace' = TraceFields /\ trace'.raw = TRUE /\ trace'.at = trace.at
  BY <1>1 DEF OnRawEvent, Shapes, TraceFields
<1>5. /\ DOMAIN native' = NativeFields /\ native'.raw = TRUE
      /\ \A f \in NativeFields \ {"raw"} : native'[f] = native[f]
  BY DEF NativeRaw, Shapes, NativeFields
<1> DEFINE cb == [type |-> "DEBUGEVENT", pid |-> native.pid]
<1>6. Seen(cb) /\ cb.type = "DEBUGEVENT"
  BY <1>1 DEF OnRawEvent
<1>7. Len(Need) >= 0 /\ \A i \in 1..Len(Need) : <<cb.type, cb.pid>> \notin Need[i]
  BY DEF Need, Pausing, Refining
<1> HIDE DEF cb
<1>8. /\ DOMAIN op' = OpFields
      /\ \A f \in KeptOpFields : op'[f] = op[f]
      /\ op.at = "idle" => op' = op
      /\ op.at # "idle" =>
           /\ op'.moved = (op.moved \/ cb.type = "RESUMEDEBUG")
           /\ op'.seen = IF op.seen < Len(Need) /\ <<cb.type, cb.pid>> \in Need[op.seen + 1]
                         THEN op.seen + 1 ELSE op.seen
  BY <1>6, SeenFields DEF Shapes
<1>9. Len(Need) \in Nat
  BY DEF Need
<1>10. op'.seen = op.seen
  BY <1>7, <1>8, <1>9 DEF Shapes
<1> QED
  BY <1>2, <1>3, <1>4, <1>5, <1>6, <1>8, <1>10 DEF Shapes

\* What a step may do to what handlers see: nothing, or the next generation with
\* any state, or the plugin drains.
Seeable ==
  \/ dbg'.state = dbg.state /\ dbg'.gen = dbg.gen /\ plugin' = plugin
  \/ dbg.gen < MaxGeneration /\ dbg'.gen = dbg.gen + 1 /\ plugin' = plugin
  \/ Draining /\ dbg' = dbg

\* Each step of x64dbg keeps the shapes and is a step that the observer allows.
LEMMA NativeStepSeen ==
  ASSUME Shapes, NativeStep
  PROVE  Shapes' /\ Seeable
<1>1. /\ DOMAIN native' = NativeFields
      /\ native'.pid \in Pid
      /\ native'.due \in Pausing \cup {"none"}
      /\ \/ \E cb : /\ OnDebuggerEvent(cb) /\ cb.type \in Callback \ {"DEBUGEVENT"}
                    /\ cb.pid = native'.pid
         \/ NativeRaw
         \/ UNCHANGED <<dbg, history, trace, op, pager, plugin>>
  BY NativeKinds
<1>2. CASE \E cb : /\ OnDebuggerEvent(cb) /\ cb.type \in Callback \ {"DEBUGEVENT"}
                   /\ cb.pid = native'.pid
  <2>1. PICK cb : OnDebuggerEvent(cb) /\ cb.type \in Callback \ {"DEBUGEVENT"}
    BY <1>2
  <2>2. Shapes'
    BY <1>1, <2>1, EventShapes
  <2>3. dbg.gen < MaxGeneration /\ EventKeepsOrCommits(cb) /\ plugin' = plugin
    BY <2>1, EventOnDbg DEF Shapes, OnDebuggerEvent
  <2> QED
    BY <2>2, <2>3 DEF Seeable, EventKeepsOrCommits
<1>3. CASE NativeRaw
  <2>1. /\ dbg.gen < MaxGeneration /\ plugin' = plugin
        /\ DOMAIN dbg' = DbgFields /\ dbg'.gen = dbg.gen + 1
        /\ \A f \in DbgFields \ {"gen", "pid", "nativePause", "exception"} : dbg'[f] = dbg[f]
        /\ DOMAIN trace' = TraceFields /\ DOMAIN op' = OpFields /\ op'.seen = op.seen
    BY <1>3, RawFields
  <2>2. dbg'.state = dbg.state /\ \A f \in ObservedGens : dbg'[f] = dbg[f]
    BY <2>1 DEF DbgFields, ObservedGens
  <2>3. \A f \in ObservedGens : dbg'[f] \in 0..dbg'.gen
    BY <2>1, <2>2 DEF Shapes
  <2> QED
    BY <1>1, <2>1, <2>2, <2>3, StateAssumption DEF Shapes, Seeable
<1>4. CASE UNCHANGED <<dbg, history, trace, op, pager, plugin>>
  BY <1>1, <1>4 DEF Shapes, Seeable
<1> QED
  BY <1>1, <1>2, <1>3, <1>4

\* So does each step of an operation, its reconciliation included.
LEMMA OperationStepSeen ==
  ASSUME Shapes, OperationStep
  PROVE  Shapes' /\ Seeable
<1>1. CASE OperationGoesOn
  <2>1. /\ DOMAIN dbg' = DbgFields /\ \A f \in DbgFields \ {"interrupt"} : dbg'[f] = dbg[f]
        /\ DOMAIN op' = OpFields /\ op'.seen = op.seen
        /\ DOMAIN trace' = TraceFields
        /\ DOMAIN native' = NativeFields
        /\ \A f \in NativeFields \ {"ran"} : native'[f] = native[f]
        /\ plugin' = plugin
    BY <1>1, OperationKeeps
  <2>2. /\ dbg'.state = dbg.state /\ dbg'.gen = dbg.gen
        /\ \A f \in ObservedGens : dbg'[f] = dbg[f]
    BY <2>1 DEF DbgFields, ObservedGens
  <2>3. native'.pid = native.pid /\ native'.due = native.due
    BY <2>1 DEF NativeFields
  <2> QED
    BY <2>1, <2>2, <2>3 DEF Shapes, Seeable
<1>2. ASSUME NEW m, NEW p, Check(m, p)
      PROVE  Shapes' /\ Seeable
  <2>1. /\ DOMAIN op' = OpFields /\ op'.seen = 0 /\ DOMAIN trace' = TraceFields
        /\ \/ dbg' = dbg
           \/ Reconciles /\ dbg.gen < MaxGeneration /\ dbg' = Reconciled
        /\ UNCHANGED <<native, plugin>>
    BY <1>2, CheckBegins
  <2>2. CASE dbg' = dbg
    BY <2>1, <2>2 DEF Shapes, Seeable
  <2>3. CASE Reconciles /\ dbg.gen < MaxGeneration /\ dbg' = Reconciled
    <3>1. /\ DOMAIN dbg' = DbgFields /\ dbg'.state = "absent" /\ dbg'.gen = dbg.gen + 1
          /\ dbg'.absentGen = dbg.gen + 1
          /\ \A f \in {"pausedGen", "runningGen", "attachGen", "attachPid", "detachGen",
                       "detachPid"} : dbg'[f] = dbg[f]
      BY <2>3, ReconciledFields DEF Shapes
    <3>2. \A f \in ObservedGens : dbg'[f] \in 0..dbg'.gen
      BY <3>1 DEF Shapes, ObservedGens
    <3> QED
      BY <2>1, <2>3, <3>1, <3>2, StateAssumption DEF Shapes, Seeable, State
  <2> QED
    BY <2>1, <2>2, <2>3
<1> QED
  BY <1>1, <1>2 DEF OperationStep, OperationGoesOn

\* Every step keeps the shapes and is a step, or a stutter, of the observer.
LEMMA StepSeen ==
  ASSUME Shapes, [Next]_stateVars
  PROVE  Shapes' /\ (Seeable \/ UNCHANGED stateVars)
<1>1. CASE NativeStep
  BY <1>1, NativeStepSeen
<1>2. CASE OperationStep
  BY <1>2, OperationStepSeen
<1>3. CASE FirstPage
  <2>1. DOMAIN op' = OpFields /\ op'.seen = op.seen
    BY <1>3 DEF FirstPage, Shapes, OpFields
  <2> QED
    BY <1>3, <2>1 DEF FirstPage, Shapes, Seeable
<1>4. CASE NextPage
  BY <1>4 DEF NextPage, Shapes, Seeable
<1>5. CASE Draining
  BY <1>5 DEF Draining, Shapes, Seeable
<1>6. CASE UNCHANGED stateVars
  BY <1>6 DEF stateVars, Shapes
<1> QED
  BY <1>1, <1>2, <1>3, <1>4, <1>5, <1>6 DEF Next

\* The records keep their shapes, and observed generations never lie ahead of the
\* runtime's own.
THEOREM ShapesHold == Spec => []Shapes
<1>1. Init => Shapes
  BY InitShapes
<1>2. Shapes /\ [Next]_stateVars => Shapes'
  BY StepSeen
<1> QED
  BY <1>1, <1>2, PTL DEF Spec

\* OnDebuggerEvent, its raw events and ReconcileDebuggerLiveness keep the promise
\* on which every handler's snapshot rests: the state never changes under a
\* generation that stays.
THEOREM ImplementsObserverHolds == Spec => ImplementsObserver
<1>1. Init => Observer!ObserverInit
  <2> SUFFICES ASSUME Init PROVE Observer!ObserverInit
    OBVIOUS
  <2>1. Shapes /\ plugin = "ready"
    BY InitShapes DEF Init
  <2> QED
    BY <2>1 DEF Observer!ObserverInit, Observer!DebuggeeStates, Shapes, State
<1>2. ASSUME Shapes, [Next]_stateVars
      PROVE  [Observer!ObserverNext]_Observer!snapshotVars
  <2>1. Shapes' /\ (Seeable \/ UNCHANGED stateVars)
    BY <1>2, StepSeen
  <2>2. dbg'.state \in Observer!DebuggeeStates
    BY <2>1 DEF Shapes, State, Observer!DebuggeeStates
  <2>3. CASE dbg'.state = dbg.state /\ dbg'.gen = dbg.gen /\ plugin' = plugin
    BY <2>3 DEF Observer!snapshotVars
  <2>4. CASE dbg.gen < MaxGeneration /\ dbg'.gen = dbg.gen + 1 /\ plugin' = plugin
    BY <2>2, <2>4 DEF Observer!ObserverNext, Observer!Observe
  <2>5. CASE Draining /\ dbg' = dbg
    BY <2>5 DEF Draining, Observer!ObserverNext, Observer!Drain
  <2>6. CASE UNCHANGED stateVars
    BY <2>6 DEF stateVars, Observer!snapshotVars
  <2> QED
    BY <2>1, <2>3, <2>4, <2>5, <2>6 DEF Seeable
<1> QED
  BY <1>1, <1>2, ShapesHold, PTL DEF Spec, ImplementsObserver, Observer!ObserverSpec

-----------------------------------------------------------------------------
(* The recorded state is the debugger's.                                   *)

\* Where the debugger is, and what may be recorded of it.
RecordedAt ==
  /\ native.at \in {"none", "init", "loading", "running", "stopped", "stopping", "exited", "ending"}
  /\ native.at = "none" => dbg.state = "absent"
  /\ native.at = "init" => dbg.state = "starting"
  /\ native.at = "loading" => /\ dbg.state = "paused" /\ dbg.kind = "processCreated"
                              /\ native.slip = "none"
  /\ native.at = "running" => /\ dbg.state \in {"running", "paused"}
                              /\ native.slip = "none" /\ ~native.owed => dbg.state = "running"
  /\ native.at = "stopped" => /\ dbg.state \in {"running", "paused"}
                              /\ native.slip = "none" => dbg.state = "paused"
  /\ native.at = "stopping" => dbg.state = "stopping"
  /\ native.at = "exited" => dbg.state = "exited"
  /\ native.at = "ending" => dbg.state \in {"starting", "stopping", "exited", "absent"}

\* A second callback is under way only around a stop, before any raw event; a
\* resume is owed only within a trace's command.
UnderWay ==
  /\ native.due # "none" => native.at \in {"running", "stopped"} /\ ~native.raw
  /\ native.owed => native.at \in {"running", "stopped"} /\ op.at = "submitting"
  /\ op.at = "submitting" <=> trace.at = "submitting"

\* A trace without a raw event of its own has seen no stop of its own: what is
\* ignored as an older pause's refinement cannot be a new stop's.
RawBehindStops ==
  /\ native.at \in {"loading", "running"} /\ native.raw /\ trace.at # "none" /\ ~trace.raw
       => dbg.state = "paused"
  /\ native.owed /\ (native.raw \/ native.at = "stopped") => trace.raw
  /\ native.at = "stopped" /\ dbg.state # "paused" => trace.raw

AgreeInv == RecordedAt /\ UnderWay /\ RawBehindStops

\* Unless it is ignored, a callback leaves the state that it names, whether it is
\* committed, refines a pause, or adds nothing to it.
LEMMA StateAfterEvent ==
  ASSUME Shapes, NEW cb, OnDebuggerEvent(cb)
  PROVE  /\ dbg'.state = IF Ignored(cb) THEN dbg.state ELSE NextState(cb.type)
         /\ op'.at = op.at
         /\ DOMAIN trace' = TraceFields /\ trace'.raw = trace.raw
         /\ trace'.at = trace.at \/ (trace.at = "active" /\ trace'.at = "none")
<1>1. EventKeepsOrCommits(cb) /\ Seen(cb)
  BY EventOnDbg DEF Shapes, OnDebuggerEvent
<1>2. op'.at = op.at
  BY <1>1, SeenFields DEF Shapes, KeptOpFields, OpFields
<1>3. AddsNothing(cb) \/ Refines(cb) => NextState(cb.type) = "paused" /\ dbg.state = "paused"
  BY DEF AddsNothing, Refines, InPause
<1>4. dbg'.state = IF Ignored(cb) THEN dbg.state ELSE NextState(cb.type)
  BY <1>1, <1>3 DEF EventKeepsOrCommits, Commits
<1> QED
  BY <1>2, <1>4, EventOnTrace DEF Shapes

\* Only resumes and the reasons of stops are ever ignored.
LEMMA WhatIsIgnored ==
  ASSUME NEW cb, Ignored(cb)
  PROVE  \/ cb.type = "RESUMEDEBUG" /\ LateResume(cb)
         \/ /\ cb.type \in {"SYSTEMBREAKPOINT", "BREAKPOINT", "EXCEPTION", "STEPPED"}
            /\ StaleRefinement(cb) /\ trace.at # "none" /\ ~trace.raw
BY DEF Ignored, LateResume, StaleRefinement, Refining

\* The callbacks by which a debuggee comes and goes.
LEMMA ComesOrGoes ==
  ASSUME Shapes, NEW cb, OnDebuggerEvent(cb),
         cb.type \notin {"RESUMEDEBUG", "SYSTEMBREAKPOINT", "BREAKPOINT", "EXCEPTION", "STEPPED"}
  PROVE  dbg'.state = NextState(cb.type)
BY StateAfterEvent, WhatIsIgnored

\* Each step of x64dbg keeps the recorded state in agreement with the debugger.
LEMMA NativeStepAgrees ==
  ASSUME Shapes, AgreeInv, NativeStep
  PROVE  AgreeInv'
<1> USE DEF AgreeInv, RecordedAt, UnderWay, RawBehindStops
<1>0. DOMAIN native = NativeFields
  BY DEF Shapes
<1>1. ASSUME NEW p \in Process, NativeInit(p)
      PROVE  AgreeInv'
  <2> DEFINE cb == [type |-> "INITDEBUG", pid |-> p, interrupt |-> FALSE]
  <2>1. OnDebuggerEvent(cb) /\ cb.type = "INITDEBUG" /\ NextState(cb.type) = "starting"
    BY <1>1 DEF NativeInit, NextState
  <2> HIDE DEF cb
  <2>2. dbg'.state = "starting"
    BY <2>1, ComesOrGoes
  <2>3. /\ op'.at = op.at
        /\ trace'.at = trace.at \/ (trace.at = "active" /\ trace'.at = "none")
    BY <2>1, StateAfterEvent
  <2>4. native.at = "none" /\ native'.at = "init" /\ native'.due = native.due
        /\ native'.owed = native.owed
    BY <1>0, <1>1 DEF NativeInit, NativeMoves, NativeFields
  <2> QED
    BY <2>2, <2>3, <2>4
<1>2. CASE NativeAttach
  <2> DEFINE cb == Cb("ATTACH")
  <2>1. OnDebuggerEvent(cb) /\ cb.type = "ATTACH" /\ NextState(cb.type) = "starting"
    BY <1>2 DEF NativeAttach, NextState, Cb
  <2> HIDE DEF cb
  <2>2. dbg'.state = "starting"
    BY <2>1, ComesOrGoes
  <2>3. /\ op'.at = op.at
        /\ trace'.at = trace.at \/ (trace.at = "active" /\ trace'.at = "none")
    BY <2>1, StateAfterEvent
  <2> QED
    BY <1>2, <2>2, <2>3 DEF NativeAttach
<1>3. CASE NativeCreate
  <2> DEFINE cb == Cb("CREATEPROCESS")
  <2>1. OnDebuggerEvent(cb) /\ cb.type = "CREATEPROCESS" /\ NextState(cb.type) = "paused"
    BY <1>3 DEF NativeCreate, NextState, Cb
  <2> HIDE DEF cb
  <2>2. dbg'.state = "paused"
    BY <2>1, ComesOrGoes
  <2>3. /\ op'.at = op.at
        /\ trace'.at = trace.at \/ (trace.at = "active" /\ trace'.at = "none")
    BY <2>1, StateAfterEvent
  <2>4. /\ native.at = "init" /\ native'.at = "loading" /\ native'.due = native.due
        /\ native'.owed = native.owed /\ native'.slip = "none" /\ native'.raw = FALSE
    BY <1>0, <1>3 DEF NativeCreate, NativeMoves, NativeFields
  <2>5. KindOf(cb) = "processCreated" /\ Commits(cb) /\ EventKeepsOrCommits(cb)
    BY <2>1, <2>4, WhatIsIgnored, EventOnDbg DEF KindOf, Commits, AddsNothing, InPause, Shapes
  <2>6. dbg'.kind = "processCreated"
    BY <2>1, <2>5 DEF EventKeepsOrCommits
  <2> QED
    BY <2>2, <2>3, <2>4, <2>6
<1>4. CASE NativeRaw
  <2>1. /\ DOMAIN dbg' = DbgFields
        /\ \A f \in DbgFields \ {"gen", "pid", "nativePause", "exception"} : dbg'[f] = dbg[f]
        /\ trace'.raw = TRUE /\ trace'.at = trace.at
        /\ \A f \in NativeFields \ {"raw"} : native'[f] = native[f]
        /\ \A f \in KeptOpFields : op'[f] = op[f]
    BY <1>4, RawFields
  <2>2. dbg'.state = dbg.state /\ dbg'.kind = dbg.kind /\ op'.at = op.at
    BY <2>1 DEF DbgFields, KeptOpFields, OpFields
  <2>3. /\ native'.at = native.at /\ native'.slip = native.slip /\ native'.due = native.due
        /\ native'.owed = native.owed
    BY <2>1 DEF NativeFields
  <2>4. native.due = "none"
    BY <1>4 DEF NativeRaw
  <2> QED
    BY <2>1, <2>2, <2>3, <2>4
<1>5. ASSUME NEW reason \in Refining \cup {"PAUSEDEBUG", "STEPPED"}, NEW interrupt,
             NEW first \in {reason, "PAUSEDEBUG"}, NativeStop(reason, first, interrupt)
      PROVE  AgreeInv'
  <2> DEFINE cb == [type |-> first, pid |-> native.pid, interrupt |-> interrupt]
  <2>1. OnDebuggerEvent(cb) /\ cb.type = first /\ NextState(cb.type) = "paused"
    BY <1>5 DEF NativeStop, NextState, Refining
  <2> HIDE DEF cb
  <2>2. /\ native.at \in {"loading", "running"} /\ native.raw
        /\ native'.at = "stopped" /\ native'.raw = FALSE /\ native'.slip = "none"
        /\ native'.owed = native.owed
    BY <1>0, <1>5 DEF NativeStop, NativeMoves, NativeFields
  <2>3. dbg'.state = IF Ignored(cb) THEN dbg.state ELSE "paused"
    BY <2>1, StateAfterEvent
  <2>4. first # "RESUMEDEBUG"
    BY DEF Refining
  <2>5. Ignored(cb) => dbg.state = "paused"
    BY <2>1, <2>2, <2>4, WhatIsIgnored
  <2>6. /\ op'.at = op.at /\ trace'.raw = trace.raw
        /\ trace'.at = trace.at \/ (trace.at = "active" /\ trace'.at = "none")
    BY <2>1, StateAfterEvent
  <2> QED
    BY <2>2, <2>3, <2>5, <2>6
<1>6. CASE NativeDue
  <2> DEFINE cb == Cb(native.due)
  <2>0. native.due \in Pausing /\ native.due # "none"
    BY <1>6 DEF NativeDue, Shapes
  <2>1. OnDebuggerEvent(cb) /\ cb.type = native.due /\ NextState(cb.type) = "paused"
    BY <1>6, <2>0 DEF NativeDue, NextState, Cb, Pausing, Refining
  <2>2. /\ native'.at = native.at /\ native'.raw = native.raw /\ native'.owed = native.owed
        /\ native'.due = "none"
        /\ native'.slip = IF native.at = "stopped" THEN "none"
                          ELSE IF StaleRefinement(cb) THEN native.slip ELSE "refinement"
    BY <1>0, <1>6 DEF NativeDue, NativeFields
  <2>3. /\ native.at = "stopped" => native'.slip = "none"
        /\ native.at = "running" /\ StaleRefinement(cb) => native'.slip = native.slip
        /\ native.at = "running" /\ ~StaleRefinement(cb) => native'.slip = "refinement"
    BY <2>2
  <2> HIDE DEF cb
  <2>4. dbg'.state = IF Ignored(cb) THEN dbg.state ELSE "paused"
    BY <2>1, StateAfterEvent
  <2>5. native.due # "RESUMEDEBUG"
    BY <2>0 DEF Pausing, Refining
  <2>6. Ignored(cb) => StaleRefinement(cb) /\ trace.at # "none" /\ ~trace.raw
    BY <2>1, <2>5, WhatIsIgnored
  <2>7. /\ op'.at = op.at /\ trace'.raw = trace.raw
        /\ trace'.at = trace.at \/ (trace.at = "active" /\ trace'.at = "none")
    BY <2>1, StateAfterEvent
  <2>8. StaleRefinement(cb) => Ignored(cb)
    BY DEF Ignored
  <2>9. native.at = "stopped" => dbg'.state = "paused"
    BY <2>4, <2>6
  <2>10. native.at \in {"running", "stopped"} /\ ~native.raw
    BY <2>0
  <2>11. CASE native.at = "stopped"
    BY <2>2, <2>3, <2>7, <2>9, <2>11
  <2>12. CASE native.at = "running" /\ StaleRefinement(cb)
    BY <2>2, <2>3, <2>4, <2>7, <2>8, <2>10, <2>12
  <2>13. CASE native.at = "running" /\ ~StaleRefinement(cb)
    <3>1. ~Ignored(cb) /\ dbg'.state = "paused"
      BY <2>4, <2>6, <2>13
    <3> QED
      BY <2>2, <2>3, <2>7, <2>10, <2>13, <3>1
  <2> QED
    BY <2>10, <2>11, <2>12, <2>13
<1>7. CASE NativeResume
  <2> DEFINE cb == Cb("RESUMEDEBUG")
  <2>1. OnDebuggerEvent(cb) /\ cb.type = "RESUMEDEBUG" /\ NextState(cb.type) = "running"
    BY <1>7 DEF NativeResume, NextState, Cb
  <2>2. /\ native.at = "stopped" /\ ~native.owed
        /\ native'.at = "running" /\ native'.raw = FALSE /\ native'.due = native.due
        /\ native'.owed = native.owed
        /\ native'.slip = IF LateResume(cb) THEN "resume" ELSE "none"
    BY <1>0, <1>7 DEF NativeResume, NativeMoves, NativeFields
  <2> HIDE DEF cb
  <2>3. dbg'.state = IF Ignored(cb) THEN dbg.state ELSE "running"
    BY <2>1, StateAfterEvent
  <2>4. Ignored(cb) => LateResume(cb)
    BY <2>1, WhatIsIgnored
  <2>5. /\ op'.at = op.at /\ trace'.raw = trace.raw
        /\ trace'.at = trace.at \/ (trace.at = "active" /\ trace'.at = "none")
    BY <2>1, StateAfterEvent
  <2> QED
    BY <2>2, <2>3, <2>4, <2>5
<1>8. CASE NativeTraceRuns
  <2>1. /\ native.at = "stopped" /\ native'.at = "running" /\ native'.owed = TRUE
        /\ native'.raw = FALSE /\ native'.due = native.due /\ native'.slip = native.slip
        /\ op.at = "submitting" /\ UNCHANGED <<dbg, trace, op>>
    BY <1>0, <1>8 DEF NativeTraceRuns, NativeFields
  <2> QED
    BY <2>1
<1>9. CASE NativeOwedResume
  <2> DEFINE cb == Cb("RESUMEDEBUG")
  <2>1. OnDebuggerEvent(cb) /\ cb.type = "RESUMEDEBUG" /\ NextState(cb.type) = "running"
    BY <1>9 DEF NativeOwedResume, NextState, Cb
  <2>2. /\ native.owed /\ native'.owed = FALSE
        /\ native'.at = native.at /\ native'.raw = native.raw /\ native'.due = native.due
        /\ native'.slip = IF LateResume(cb) = (native.at = "running") THEN "resume"
                          ELSE IF native.at = "running" THEN "none" ELSE native.slip
    BY <1>0, <1>9 DEF NativeOwedResume, NativeFields
  <2>3. native.at \in {"running", "stopped"}
    BY <2>2
  <2>4. LateResume(cb) \in BOOLEAN
    BY DEF LateResume
  <2> HIDE DEF cb
  <2>5. /\ native.at = "running" /\ LateResume(cb) => native'.slip = "resume"
        /\ native.at = "running" /\ ~LateResume(cb) => native'.slip = "none"
        /\ native.at = "stopped" /\ LateResume(cb) => native'.slip = native.slip
        /\ native.at = "stopped" /\ ~LateResume(cb) => native'.slip = "resume"
    BY <2>2, <2>4
  <2>6. dbg'.state = IF Ignored(cb) THEN dbg.state ELSE "running"
    BY <2>1, StateAfterEvent
  <2>7. Ignored(cb) <=> LateResume(cb)
    BY <2>1, WhatIsIgnored DEF Ignored
  <2>8. /\ op'.at = op.at /\ trace'.raw = trace.raw
        /\ trace'.at = trace.at \/ (trace.at = "active" /\ trace'.at = "none")
    BY <2>1, StateAfterEvent
  <2> QED
    BY <2>2, <2>3, <2>5, <2>6, <2>7, <2>8
<1>10. ASSUME NEW type \in {"EXITPROCESS", "STOPPINGDEBUG", "DETACH"}, NEW to,
              to = IF type = "EXITPROCESS" THEN "exited" ELSE "stopping",
              NativeLeaves(type, to)
       PROVE  AgreeInv'
  <2> DEFINE cb == Cb(type)
  <2>1. OnDebuggerEvent(cb) /\ cb.type = type /\ NextState(cb.type) = to
    BY <1>10 DEF NativeLeaves, NextState, Cb
  <2> HIDE DEF cb
  <2>2. dbg'.state = to
    BY <2>1, ComesOrGoes
  <2>3. /\ op'.at = op.at
        /\ trace'.at = trace.at \/ (trace.at = "active" /\ trace'.at = "none")
    BY <2>1, StateAfterEvent
  <2>4. /\ native.due = "none" /\ ~native.owed /\ native'.at = to
        /\ native'.due = native.due /\ native'.owed = native.owed
    BY <1>0, <1>10 DEF NativeLeaves, NativeMoves, NativeFields
  <2> QED
    BY <1>10, <2>2, <2>3, <2>4
<1>11. CASE NativeLeaves("EXITPROCESS", "exited") \/ NativeLeaves("STOPPINGDEBUG", "stopping")
            \/ NativeLeaves("DETACH", "stopping")
  BY <1>10, <1>11
<1>12. CASE NativeEnds
  <2>1. /\ native.at \in {"init", "exited", "stopping"} /\ native'.at = "ending"
        /\ native'.due = native.due /\ native'.owed = native.owed
        /\ UNCHANGED <<dbg, trace, op>>
    BY <1>0, <1>12 DEF NativeEnds, NativeMoves, NativeFields
  <2> QED
    BY <2>1
<1>13. CASE NativeStopped
  <2> DEFINE cb == Cb("STOPDEBUG")
  <2>1. OnDebuggerEvent(cb) /\ cb.type = "STOPDEBUG" /\ NextState(cb.type) = "absent"
    BY <1>13 DEF NativeStopped, NextState, Cb
  <2> HIDE DEF cb
  <2>2. dbg'.state = "absent"
    BY <2>1, ComesOrGoes
  <2>3. /\ op'.at = op.at
        /\ trace'.at = trace.at \/ (trace.at = "active" /\ trace'.at = "none")
    BY <2>1, StateAfterEvent
  <2>4. /\ native.at = "ending" /\ native'.at = "none"
        /\ native'.due = native.due /\ native'.owed = native.owed
    BY <1>0, <1>13 DEF NativeStopped, NativeMoves, NativeFields
  <2> QED
    BY <2>2, <2>3, <2>4
<1> QED
  BY <1>1, <1>2, <1>3, <1>4, <1>5, <1>6, <1>7, <1>8, <1>9, <1>11, <1>12, <1>13 DEF NativeStep

\* An operation changes the recorded state only by its reconciliation, which is
\* right when x64dbg no longer debugs.
LEMMA OperationStepAgrees ==
  ASSUME Shapes, AgreeInv, OperationStep
  PROVE  AgreeInv'
<1> USE DEF AgreeInv, RecordedAt, UnderWay, RawBehindStops
<1>1. ASSUME NEW m, NEW p, Check(m, p)
      PROVE  AgreeInv'
  <2>1. /\ op.at = "idle" /\ op'.at \in {"checked", "idle"}
        /\ \/ dbg' = dbg
           \/ Reconciles /\ dbg' = Reconciled
        /\ trace'.raw = trace.raw
        /\ trace'.at = trace.at \/ (trace.at = "active" /\ trace'.at = "none")
        /\ native' = native
    BY <1>1, CheckBegins
  <2>2. CASE Reconciles /\ dbg' = Reconciled
    <3>1. dbg'.state = "absent"
      BY <2>2, ReconciledFields DEF Shapes
    <3>2. native.at \in {"none", "ending"}
      BY <2>2 DEF Reconciles, IsDebugging
    <3> QED
      BY <2>1, <3>1, <3>2
  <2> QED
    BY <2>1, <2>2
<1>2. CASE OperationGoesOn
  <2>1. /\ \A f \in DbgFields \ {"interrupt"} : dbg'[f] = dbg[f]
        /\ \A f \in NativeFields \ {"ran"} : native'[f] = native[f]
    BY <1>2, OperationKeeps
  <2>2. /\ dbg'.state = dbg.state /\ dbg'.kind = dbg.kind
        /\ native'.at = native.at /\ native'.slip = native.slip /\ native'.due = native.due
        /\ native'.raw = native.raw /\ native'.owed = native.owed
    BY <2>1 DEF DbgFields, NativeFields
  <2>3. CASE SubmitTrace
    <3>1. CASE op' = [op EXCEPT !.at = "submitting"]
      <4>1. op'.at = "submitting" /\ op.at = "checked"
        BY <2>3, <3>1 DEF SubmitTrace, Shapes, OpFields
      <4>2. ~Finish("definite")
        BY <4>1 DEF Finish, Shapes, OpFields
      <4>3. dbg.state = "paused" /\ trace'.at = "submitting"
        BY <2>3, <4>2 DEF SubmitTrace
      <4> QED
        BY <2>2, <4>1, <4>3
    <3>2. CASE Finish("definite") /\ UNCHANGED trace
      <4>1. op'.at = "idle" /\ op.at = "checked"
        BY <2>3, <3>2 DEF SubmitTrace, Finish, Shapes, OpFields
      <4> QED
        BY <2>2, <3>2, <4>1
    <3> QED
      BY <2>3, <3>1, <3>2 DEF SubmitTrace
  <2>4. CASE TraceSubmitted
    <3>1. /\ op'.at = "idle" /\ op.at = "submitting" /\ ~native.owed
          /\ trace'.raw = trace.raw /\ trace'.at \in {"active", "none"}
      BY <2>4 DEF TraceSubmitted, Finish, Shapes, OpFields, TraceFields
    <3> QED
      BY <2>2, <3>1
  <2>5. CASE OperationGoesOn /\ ~SubmitTrace /\ ~TraceSubmitted
    <3>1. /\ op.at \in {"checked", "waiting", "confirmed", "captured"}
          /\ op'.at \in {"idle", "waiting", "confirmed", "captured"} /\ trace' = trace
      <4> USE DEF Shapes, OpFields, Finish
      <4>1. CASE Submit \/ SubmitStepOut \/ SubmitPause \/ BeginWait
        BY <4>1 DEF Submit, SubmitStepOut, SubmitPause, BeginWait
      <4>2. CASE BeginState
        BY <4>2 DEF BeginState
      <4>3. CASE Confirm \/ GiveUp
        BY <4>3 DEF Confirm, GiveUp
      <4>4. CASE ReadRegisters \/ Conclude
        BY <4>4 DEF ReadRegisters, Conclude
      <4> QED
        BY <2>5, <4>1, <4>2, <4>3, <4>4 DEF OperationGoesOn
    <3> QED
      BY <2>2, <3>1
  <2> QED
    BY <1>2, <2>3, <2>4, <2>5
<1> QED
  BY <1>1, <1>2 DEF OperationStep, OperationGoesOn

\* Where the debugger is, what is recorded of it and what is under way fit together.
THEOREM AgreeInvHolds == Spec => []AgreeInv
<1>1. Init => AgreeInv
  <2> SUFFICES ASSUME Init PROVE AgreeInv
    OBVIOUS
  <2>1. /\ native.at = IF dbg.state = "paused" THEN "stopped" ELSE "none"
        /\ native.due = "none" /\ native.owed = FALSE
        /\ dbg.state \in {"paused", "absent"}
        /\ op.at = "idle" /\ trace.at = "none"
    BY DEF Init, NoOp, NoTrace
  <2> QED
    BY <2>1 DEF AgreeInv, RecordedAt, UnderWay, RawBehindStops
<1>2. ASSUME Shapes, AgreeInv, [Next]_stateVars
      PROVE  AgreeInv'
  <2>1. CASE FirstPage
    <3>1. op'.at = op.at /\ UNCHANGED <<dbg, trace, native>>
      BY <1>2, <2>1 DEF FirstPage, Shapes, OpFields
    <3> QED
      BY <1>2, <3>1 DEF AgreeInv, RecordedAt, UnderWay, RawBehindStops
  <2>2. CASE NextPage \/ Draining \/ UNCHANGED stateVars
    BY <1>2, <2>2
    DEF NextPage, Draining, stateVars, AgreeInv, RecordedAt, UnderWay, RawBehindStops
  <2> QED
    BY <1>2, <2>1, <2>2, NativeStepAgrees, OperationStepAgrees DEF Next
<1> QED
  BY <1>1, <1>2, ShapesHold, PTL DEF Spec

\* The recorded state agrees with the debugger, in either order of a stop's two
\* callbacks and whatever clients and the user do, except after the two races
\* that native.slip names and while a trace's resume is under way.
THEOREM StateAgreesHolds == Spec => []StateAgrees
<1>1. AgreeInv => StateAgrees
  BY DEF AgreeInv, RecordedAt, StateAgrees
<1> QED
  BY <1>1, AgreeInvHolds, PTL

-----------------------------------------------------------------------------
(* Registers are of the pause they are reported with.                      *)

\* What an operation has captured, and what has happened since.
CaptureInv ==
  /\ op.at \in {"idle", "checked", "waiting", "confirmed", "captured", "submitting"}
  /\ op.at \in {"checked", "waiting", "confirmed", "submitting"} => op.read = "none"
  /\ op.at # "idle" => op.result = "none"
  /\ op.at = "waiting" => op.name # "state"
  /\ op.at \in {"confirmed", "captured"} =>
       /\ op.name \in Capturing
       /\ op.snap \in 0..dbg.gen
       /\ op.name \in {"step", "stepOut"} => op.pause \in 0..op.snap
       /\ op.moved => dbg.gen > op.snap
       /\ op.name = "state" /\ op.before = 1 /\ dbg.gen = op.snap => dbg.state = "paused"
  /\ op.at = "captured" /\ op.read = "running" => dbg.gen > op.snap \/ dbg.state # "paused"
  /\ CaptureIsOfOnePause

\* What x64dbg does to the operation: it adds to what was seen.  A resume moves
\* the generation, except behind the pause of a trace's submission.
LEMMA NativeOnOp ==
  ASSUME Shapes, AgreeInv, NativeStep
  PROVE  /\ DOMAIN op' = OpFields /\ \A f \in KeptOpFields : op'[f] = op[f]
         /\ op.at = "idle" => op'.seen = op.seen
         /\ op.at # "idle" /\ op'.moved =>
              op.moved \/ op.at = "submitting" \/ dbg'.gen = dbg.gen + 1
<1>1. \/ \E cb : OnDebuggerEvent(cb) /\ cb.type \in Callback \ {"DEBUGEVENT"}
      \/ NativeRaw
      \/ UNCHANGED <<dbg, history, trace, op, pager, plugin>>
  BY NativeKinds
<1>2. CASE \E cb : OnDebuggerEvent(cb) /\ cb.type \in Callback \ {"DEBUGEVENT"}
  <2>1. PICK cb : OnDebuggerEvent(cb)
    BY <1>2
  <2>2. EventKeepsOrCommits(cb) /\ Seen(cb)
    BY <2>1, EventOnDbg DEF Shapes, OnDebuggerEvent
  <2>3. /\ DOMAIN op' = OpFields
        /\ \A f \in KeptOpFields : op'[f] = op[f]
        /\ op.at = "idle" => op' = op
        /\ op.at # "idle" => op'.moved = (op.moved \/ cb.type = "RESUMEDEBUG")
    BY <2>2, SeenFields DEF Shapes
  <2>4. cb.type = "RESUMEDEBUG" /\ ~Commits(cb) => op.at = "submitting"
    BY WhatIsIgnored
    DEF Commits, AddsNothing, InPause, NextState, LateResume, AgreeInv, UnderWay
  <2> QED
    BY <2>2, <2>3, <2>4 DEF EventKeepsOrCommits
<1>3. CASE NativeRaw
  BY <1>3, RawFields
<1>4. CASE UNCHANGED <<dbg, history, trace, op, pager, plugin>>
  BY <1>4 DEF Shapes, KeptOpFields
<1> QED
  BY <1>1, <1>2, <1>3, <1>4

\* A callback between an observation and an answer moves the generation, or is no
\* resume.
LEMMA NativeStepCaptures ==
  ASSUME Shapes, AgreeInv, CaptureInv, NativeStep
  PROVE  CaptureInv'
<1>1. \/ dbg'.state = dbg.state /\ dbg'.gen = dbg.gen
      \/ dbg'.gen = dbg.gen + 1
  <2>1. Seeable
    BY NativeStepSeen
  <2> QED
    BY <2>1 DEF Seeable
<1>2. /\ \A f \in KeptOpFields : op'[f] = op[f]
      /\ op.at # "idle" /\ op'.moved =>
           op.moved \/ op.at = "submitting" \/ dbg'.gen = dbg.gen + 1
  BY NativeOnOp
<1>3. /\ op'.at = op.at /\ op'.name = op.name /\ op'.snap = op.snap /\ op'.pause = op.pause
      /\ op'.before = op.before /\ op'.read = op.read /\ op'.result = op.result
  BY <1>2 DEF KeptOpFields, OpFields
<1>4. CASE dbg'.state = dbg.state /\ dbg'.gen = dbg.gen
  BY <1>2, <1>3, <1>4 DEF CaptureInv, CaptureIsOfOnePause, Shapes
<1>5. CASE dbg'.gen = dbg.gen + 1
  BY <1>3, <1>5 DEF CaptureInv, CaptureIsOfOnePause, Shapes
<1> QED
  BY <1>1, <1>4, <1>5

\* What an operation reads and concludes, step by step.
LEMMA OperationStepCaptures ==
  ASSUME Shapes, AgreeInv, CaptureInv, OperationStep
  PROVE  CaptureInv'
<1> USE DEF CaptureInv, CaptureIsOfOnePause
<1>1. ASSUME NEW m, NEW p, Check(m, p)
      PROVE  CaptureInv'
  <2>1. /\ op'.read = "none"
        /\ \/ op'.at = "checked" /\ op'.result = "none"
           \/ op'.at = "idle" /\ op'.result = "definite"
    BY <1>1, CheckBegins
  <2> QED
    BY <2>1
<1>2. ASSUME OperationGoesOn
      PROVE  dbg'.state = dbg.state /\ dbg'.gen = dbg.gen /\ op'.name = op.name
  BY <1>2, OperationKeeps DEF DbgFields
<1> DEFINE Waits == op'.at = "waiting" /\ op'.read = op.read /\ op'.result = op.result
           Ends(r) == op'.at = "idle" /\ op'.read = op.read /\ op'.result = r
<1>3. ASSUME NEW r, Finish(r)
      PROVE  Ends(r)
  BY <1>3 DEF Finish, Shapes, OpFields
<1>4. CASE Submit \/ SubmitStepOut \/ SubmitPause \/ BeginWait
  <2>1. op.at = "checked" /\ op.name # "state" /\ (Waits \/ Finish("definite"))
    BY <1>4 DEF Submit, SubmitStepOut, SubmitPause, BeginWait, Shapes, OpFields
  <2> QED
    BY <1>2, <1>3, <1>4, <2>1 DEF OperationGoesOn
<1>5. CASE SubmitTrace
  <2>1. /\ op.at = "checked"
        /\ \/ op'.at = "submitting" /\ op'.read = op.read /\ op'.result = op.result
           \/ Finish("definite")
    BY <1>5 DEF SubmitTrace, Shapes, OpFields
  <2> QED
    BY <1>3, <2>1
<1>6. CASE TraceSubmitted
  <2>1. op.at = "submitting" /\ \E r : Finish(r)
    BY <1>6 DEF TraceSubmitted
  <2> QED
    BY <1>3, <2>1
<1>7. CASE BeginState
  <2>1. /\ op.at = "checked" /\ op.name = "state" /\ op'.at = "confirmed" /\ op'.snap = dbg.gen
        /\ op'.moved = FALSE /\ op'.before = IF dbg.state = "paused" THEN 1 ELSE 0
        /\ op'.read = op.read /\ op'.result = op.result
    BY <1>7 DEF BeginState, Shapes, OpFields
  <2> QED
    BY <1>2, <1>7, <2>1 DEF OperationGoesOn, Shapes, Capturing
<1>8. CASE Confirm
  <2>1. op.at = "waiting"
    BY <1>8 DEF Confirm
  <2>2. CASE op.name \in Capturing /\ op'.at = "confirmed"
    <3>1. ~Finish("ok") /\ ~Finish("unknown")
      BY <1>3, <2>2
    <3>2. /\ op'.snap = dbg.gen /\ op'.moved = FALSE
          /\ op'.pause = IF op.name = "waitForPause" THEN dbg.pauseGen ELSE dbg.pausedGen
          /\ op'.read = op.read /\ op'.result = op.result /\ op'.before = op.before
      BY <1>8, <3>1 DEF Confirm, Shapes, OpFields
    <3>3. dbg.pausedGen \in 0..dbg.gen
      BY DEF Shapes, ObservedGens
    <3>4. op.name = "state" => FALSE
      BY <2>1
    <3> QED
      BY <1>2, <1>8, <2>1, <2>2, <3>2, <3>3, <3>4 DEF OperationGoesOn, Shapes, Capturing
  <2>3. CASE \E r : Finish(r)
    BY <1>3, <2>1, <2>3
  <2> QED
    BY <1>8, <2>2, <2>3 DEF Confirm, Shapes, OpFields
<1>9. CASE GiveUp
  <2>1. op.at = "waiting" /\ \E r : Finish(r)
    BY <1>9 DEF GiveUp
  <2> QED
    BY <1>3, <2>1
<1>10. CASE ReadRegisters
  <2>1. op.at = "confirmed"
    BY <1>10 DEF ReadRegisters
  <2>2. CASE \E r : Finish(r)
    BY <1>3, <2>1, <2>2
  <2>3. CASE op'.at = "captured"
    <3>1. /\ ~Finish("unknown") /\ ~Finish("definite")
      BY <1>3, <2>3
    <3>2. /\ op'.read = IF native.slip # "none" \/ native.owed THEN "slipped"
                        ELSE IF native.at = "stopped" /\ ~op.moved THEN "stopped"
                        ELSE IF native.at = "loading" THEN "loading"
                        ELSE "running"
          /\ op'.snap = op.snap /\ op'.moved = op.moved /\ op'.pause = op.pause
          /\ op'.before = op.before /\ op'.result = op.result
      BY <1>10, <3>1 DEF ReadRegisters, Shapes, OpFields
    <3>3. op'.read = "running" =>
            /\ native.slip = "none" /\ ~native.owed
            /\ native.at # "loading"
            /\ native.at = "stopped" => op.moved
      BY <3>2
    <3>4. op'.read = "running" /\ ~op.moved => dbg.state # "paused"
      BY <3>3 DEF AgreeInv, RecordedAt
    <3> QED
      BY <1>2, <1>10, <2>1, <2>3, <3>2, <3>4 DEF OperationGoesOn
  <2> QED
    BY <1>10, <2>2, <2>3 DEF ReadRegisters, Shapes, OpFields
<1>11. CASE Conclude
  <2>1. op.at = "captured" /\ \E r : Finish(r) /\ (r = "ok" => StillCurrent)
    BY <1>11 DEF Conclude
  <2>2. CASE ~StillCurrent
    BY <1>3, <2>1, <2>2
  <2>3. CASE StillCurrent
    <3>1. CASE op.name \in {"step", "stepOut", "waitForPause"}
      <4>1. /\ op.name = "step" => dbg.gen = op.pause /\ dbg.state = "paused"
            /\ op.name = "stepOut" => dbg.gen = op.pause /\ dbg.state = "paused"
            /\ op.name = "waitForPause" => dbg.gen = op.snap /\ dbg.state = "paused"
        BY <2>3 DEF StillCurrent
      <4>2. op.snap \in 0..dbg.gen /\ (op.name # "waitForPause" => op.pause \in 0..op.snap)
        BY <2>1, <3>1
      <4>3. dbg.gen = op.snap /\ dbg.state = "paused"
        BY <3>1, <4>1, <4>2 DEF Shapes
      <4> QED
        BY <1>2, <1>3, <1>11, <2>1, <3>1, <4>3 DEF OperationGoesOn, Shapes
    <3>2. CASE op.name = "state"
      <4>1. dbg.gen = op.snap
        BY <2>1, <2>3, <3>2 DEF StillCurrent, Shapes
      <4>2. op'.before = op.before
        BY <2>1 DEF Finish, Shapes, OpFields
      <4> QED
        BY <1>2, <1>3, <1>11, <2>1, <3>2, <4>1, <4>2 DEF OperationGoesOn, Shapes
    <3> QED
      BY <2>1, <3>1, <3>2 DEF Capturing
  <2> QED
    BY <2>2, <2>3
<1> QED
  BY <1>1, <1>4, <1>5, <1>6, <1>7, <1>8, <1>9, <1>10, <1>11 DEF OperationStep

\* What is captured stays of one pause.
THEOREM CaptureInvHolds == Spec => []CaptureInv
<1>1. Init => CaptureInv
  BY DEF Init, NoOp, CaptureInv, CaptureIsOfOnePause
<1>2. ASSUME Shapes, AgreeInv, CaptureInv, [Next]_stateVars
      PROVE  CaptureInv'
  <2>1. CASE FirstPage
    <3>1. /\ UNCHANGED dbg
          /\ op'.at = op.at /\ op'.name = op.name /\ op'.snap = op.snap /\ op'.pause = op.pause
          /\ op'.before = op.before /\ op'.read = op.read /\ op'.result = op.result
          /\ op'.moved = op.moved
      BY <1>2, <2>1 DEF FirstPage, Shapes, OpFields
    <3> QED
      BY <1>2, <3>1 DEF CaptureInv, CaptureIsOfOnePause
  <2>2. CASE NextPage \/ Draining \/ UNCHANGED stateVars
    BY <1>2, <2>2 DEF NextPage, Draining, stateVars, CaptureInv, CaptureIsOfOnePause
  <2> QED
    BY <1>2, <2>1, <2>2, NativeStepCaptures, OperationStepCaptures DEF Next
<1> QED
  BY <1>1, <1>2, ShapesHold, AgreeInvHolds, PTL DEF Spec

\* Registers that step, step_out, wait_for_pause and state answer with a pause
\* were read in that pause, whatever resumed in between.
THEOREM CaptureIsOfOnePauseHolds == Spec => []CaptureIsOfOnePause
BY CaptureInvHolds, PTL DEF CaptureInv

-----------------------------------------------------------------------------
(* The callbacks in the course of a debuggee's life.                       *)

Live == {"loading", "running", "stopped"}

\* Which callback x64dbg makes where, and where it is then.
Turn(type, from, to) ==
  \/ type = "INITDEBUG" /\ from = "none" /\ to = "init"
  \/ type = "ATTACH" /\ from = "init" /\ to = "init"
  \/ type = "CREATEPROCESS" /\ from = "init" /\ to = "loading"
  \/ type \in Pausing \cup {"RESUMEDEBUG"} /\ from \in Live /\ to \in {"running", "stopped"}
  \/ type = "EXITPROCESS" /\ from \in Live /\ to = "exited"
  \/ type \in {"STOPPINGDEBUG", "DETACH"} /\ from \in Live /\ to = "stopping"
  \/ type = "STOPDEBUG" /\ from = "ending" /\ to = "none"

CallbackStep(cb) ==
  /\ OnDebuggerEvent(cb)
  /\ Turn(cb.type, native.at, native'.at)
  /\ cb.pid = native'.pid
  /\ cb.type # "INITDEBUG" => native'.pid = native.pid

\* x64dbg goes on, or ends, without a callback.
SilentStep ==
  /\ UNCHANGED <<dbg, history, trace, op, pager, plugin>>
  /\ native'.pid = native.pid
  /\ \/ native.at = "stopped" /\ native'.at = "running" /\ op.at = "submitting"
     \/ native.at \in {"init", "exited", "stopping"} /\ native'.at = "ending"

\* Every step of x64dbg is a callback in its place, a raw event, or a silent step.
LEMMA NativeTurns ==
  ASSUME Shapes, AgreeInv, NativeStep
  PROVE  (\E cb : CallbackStep(cb)) \/ NativeRaw \/ SilentStep
<1>0. DOMAIN native = NativeFields
  BY DEF Shapes
<1>1. ASSUME NEW p \in Process, NativeInit(p)
      PROVE  \E cb : CallbackStep(cb)
  <2> DEFINE cb == [type |-> "INITDEBUG", pid |-> p, interrupt |-> FALSE]
  <2>1. OnDebuggerEvent(cb) /\ cb.type = "INITDEBUG" /\ cb.pid = p
    BY <1>1 DEF NativeInit
  <2> HIDE DEF cb
  <2>2. native.at = "none" /\ native'.at = "init" /\ native'.pid = p
    BY <1>0, <1>1 DEF NativeInit, NativeMoves, NativeFields
  <2>3. CallbackStep(cb)
    BY <2>1, <2>2 DEF CallbackStep, Turn
  <2> QED
    BY <2>3
<1>2. ASSUME NEW type, NEW to, OnDebuggerEvent(Cb(type)), Turn(type, native.at, to),
             native'.at = to, native'.pid = native.pid
      PROVE  \E cb : CallbackStep(cb)
  <2> DEFINE cb == Cb(type)
  <2>1. cb.type = type /\ cb.pid = native.pid
    BY DEF Cb
  <2> HIDE DEF cb
  <2>2. OnDebuggerEvent(cb)
    BY <1>2 DEF cb
  <2>3. CallbackStep(cb)
    BY <1>2, <2>1, <2>2 DEF CallbackStep
  <2> QED
    BY <2>3
<1>3. CASE NativeAttach \/ NativeCreate \/ NativeStopped
  <2>1. native'.pid = native.pid
    BY <1>0, <1>3 DEF NativeAttach, NativeCreate, NativeStopped, NativeMoves, NativeFields
  <2>2. \/ OnDebuggerEvent(Cb("ATTACH")) /\ Turn("ATTACH", native.at, native'.at)
        \/ OnDebuggerEvent(Cb("CREATEPROCESS")) /\ Turn("CREATEPROCESS", native.at, native'.at)
        \/ OnDebuggerEvent(Cb("STOPDEBUG")) /\ Turn("STOPDEBUG", native.at, native'.at)
    BY <1>0, <1>3 DEF NativeAttach, NativeCreate, NativeStopped, NativeMoves, NativeFields, Turn
  <2> QED
    BY <1>2, <2>1, <2>2
<1>4. ASSUME NEW reason \in Refining \cup {"PAUSEDEBUG", "STEPPED"}, NEW interrupt,
             NEW first \in {reason, "PAUSEDEBUG"}, NativeStop(reason, first, interrupt)
      PROVE  \E cb : CallbackStep(cb)
  <2> DEFINE cb == [type |-> first, pid |-> native.pid, interrupt |-> interrupt]
  <2>1. OnDebuggerEvent(cb) /\ cb.type = first /\ cb.pid = native.pid
    BY <1>4 DEF NativeStop
  <2> HIDE DEF cb
  <2>2. /\ native.at \in {"loading", "running"} /\ native'.at = "stopped"
        /\ native'.pid = native.pid
    BY <1>0, <1>4 DEF NativeStop, NativeMoves, NativeFields
  <2>3. first \in Pausing
    BY DEF Pausing
  <2>4. CallbackStep(cb)
    BY <2>1, <2>2, <2>3 DEF CallbackStep, Turn, Live
  <2> QED
    BY <2>4
<1>5. CASE NativeDue
  <2>1. /\ native.due \in Pausing /\ native'.at = native.at /\ native'.pid = native.pid
        /\ native.due # "none" /\ OnDebuggerEvent(Cb(native.due))
    BY <1>0, <1>5 DEF NativeDue, Shapes, NativeFields
  <2>2. native.at \in {"running", "stopped"}
    BY <2>1 DEF AgreeInv, UnderWay
  <2>3. Turn(native.due, native.at, native'.at)
    BY <2>1, <2>2 DEF Turn, Live
  <2> QED
    BY <1>2, <2>1, <2>3
<1>6. CASE NativeResume
  <2>1. /\ native.at = "stopped" /\ native'.at = "running" /\ native'.pid = native.pid
        /\ OnDebuggerEvent(Cb("RESUMEDEBUG"))
    BY <1>0, <1>6 DEF NativeResume, NativeMoves, NativeFields
  <2>2. Turn("RESUMEDEBUG", native.at, native'.at)
    BY <2>1 DEF Turn, Live
  <2> QED
    BY <1>2, <2>1, <2>2
<1>7. CASE NativeTraceRuns \/ NativeEnds
  BY <1>0, <1>7 DEF NativeTraceRuns, NativeEnds, NativeMoves, NativeFields, SilentStep
<1>8. CASE NativeOwedResume
  <2>1. /\ native.owed /\ native'.at = native.at /\ native'.pid = native.pid
        /\ OnDebuggerEvent(Cb("RESUMEDEBUG"))
    BY <1>0, <1>8 DEF NativeOwedResume, NativeFields
  <2>2. Turn("RESUMEDEBUG", native.at, native'.at)
    BY <2>1 DEF Turn, Live, AgreeInv, UnderWay
  <2> QED
    BY <1>2, <2>1, <2>2
<1>9. ASSUME NEW type \in {"EXITPROCESS", "STOPPINGDEBUG", "DETACH"}, NEW to,
             to = IF type = "EXITPROCESS" THEN "exited" ELSE "stopping",
             NativeLeaves(type, to)
      PROVE  \E cb : CallbackStep(cb)
  <2>1. /\ native.at \in Live /\ native'.at = to /\ native'.pid = native.pid
        /\ OnDebuggerEvent(Cb(type))
    BY <1>0, <1>9 DEF NativeLeaves, NativeMoves, NativeFields, Live
  <2>2. Turn(type, native.at, native'.at)
    BY <1>9, <2>1 DEF Turn
  <2> QED
    BY <1>2, <2>1, <2>2
<1>10. CASE NativeLeaves("EXITPROCESS", "exited") \/ NativeLeaves("STOPPINGDEBUG", "stopping")
            \/ NativeLeaves("DETACH", "stopping")
  BY <1>9, <1>10
<1> QED
  BY <1>1, <1>3, <1>4, <1>5, <1>6, <1>7, <1>8, <1>10 DEF NativeStep

-----------------------------------------------------------------------------
(* A success stands on callbacks.                                          *)

\* The operations that need callbacks.
Needing == {"attach", "detach", "launch", "stop", "resume", "continue", "step", "pause", "stepOut"}

\* What was observed since the check was seen: each predicate of Confirmed, as far
\* as it speaks of generations after op.snap, has its callbacks.
Witnesses ==
  /\ op.name = "step" /\ dbg.pausedGen > op.snap /\ dbg.kind = "step" => op.seen = 1
  /\ op.name = "pause" /\ dbg.pausedGen > op.snap /\ dbg.kind = "userPause" => op.seen = 1
  /\ op.name = "stepOut" /\ dbg.pausedGen > op.snap => op.seen = 1
  /\ op.name = "stop" /\ dbg.absentGen > op.snap => op.seen = 1
  /\ op.name \in {"resume", "continue"} /\ dbg.runningGen > op.snap => op.seen = 1
  /\ op.name = "launch" =>
       /\ op.seen = 0 => native.at \in {"none", "init", "ending"} /\ dbg.pausedGen <= op.snap
       /\ dbg.pausedGen > op.snap /\ dbg.kind # "processCreated" => op.seen = 2
  /\ op.name = "attach" =>
       /\ dbg.attachGen > op.snap /\ dbg.attachPid = op.pid => op.seen >= 1
       /\ op.seen = 1 /\ dbg.state = "paused" => native.pid # op.pid
  /\ op.name = "detach" =>
       /\ dbg.detachGen > op.snap /\ dbg.detachPid = op.pid => op.seen >= 1
       /\ op.seen = 1 => dbg.absentGen < dbg.detachGen

WitnessInv ==
  /\ op.seen \in 0..Len(Need)
  /\ native.at \in Live => dbg.pid = native.pid
  /\ op.at = "waiting" => op.name \in Needing \cup {"waitForPause", "eventsWait"}
  /\ op.at = "submitting" => op.name = "trace"
  /\ op.at \in {"checked", "waiting"} /\ op.name \in Needing =>
       /\ op.snap \in 0..dbg.gen
       /\ op.at = "waiting" => op.before \in op.snap..dbg.gen
       /\ Witnesses
  /\ op.at \in {"confirmed", "captured"} => op.seen = Len(Need)
  /\ SuccessIsWitnessed

\* How many callbacks each operation needs.
LEMMA NeedLength ==
  /\ op.name \in {"attach", "detach", "launch"} => Len(Need) = 2
  /\ op.name \in {"stop", "resume", "continue", "step", "pause", "stepOut"} => Len(Need) = 1
  /\ op.name \notin Needing => Len(Need) = 0
BY DEF Need, Needing

\* Which callback is the one that the operation needs next.
LEMMA SeenNext ==
  ASSUME Shapes, op.at # "idle", NEW cb, Seen(cb), op.seen \in 0..Len(Need), cb.pid \in Pid
  PROVE  /\ op'.seen \in op.seen..Len(Need)
         /\ op.name = "step" /\ cb.type = "STEPPED" => op'.seen = 1
         /\ op.name = "pause" /\ cb.type \in {"PAUSEDEBUG", "EXCEPTION"} => op'.seen = 1
         /\ op.name = "stepOut" /\ cb.type \in Pausing \cup {"CREATEPROCESS"} => op'.seen = 1
         /\ op.name = "stop" /\ cb.type = "STOPDEBUG" => op'.seen = 1
         /\ op.name \in {"resume", "continue"} /\ cb.type = "RESUMEDEBUG" => op'.seen = 1
         /\ op.name = "launch" =>
              /\ op.seen = 0 => op'.seen = IF cb.type = "CREATEPROCESS" THEN 1 ELSE 0
              /\ op.seen = 1 => op'.seen = IF cb.type \in Pausing THEN 2 ELSE 1
         /\ op.name = "attach" =>
              /\ op.seen = 0 => op'.seen = IF cb.type = "ATTACH" /\ cb.pid = op.pid THEN 1 ELSE 0
              /\ op.seen = 1 =>
                   op'.seen = IF cb.type \in Pausing \cup {"CREATEPROCESS"} /\ cb.pid = op.pid
                              THEN 2 ELSE 1
         /\ op.name = "detach" =>
              /\ op.seen = 0 => op'.seen = IF cb.type = "DETACH" /\ cb.pid = op.pid THEN 1 ELSE 0
              /\ op.seen = 1 => op'.seen = IF cb.type = "STOPDEBUG" THEN 2 ELSE 1
<1> DEFINE hit == op.seen < Len(Need) /\ <<cb.type, cb.pid>> \in Need[op.seen + 1]
<1>1. op'.seen = IF hit THEN op.seen + 1 ELSE op.seen
  BY SeenFields DEF Shapes
<1>2. Len(Need) \in Nat
  BY NeedLength DEF Needing
<1>3. op'.seen \in op.seen..Len(Need)
  BY <1>1, <1>2
<1>4. CASE op.name \in {"step", "pause", "stepOut", "stop", "resume", "continue"}
  <2>1. /\ op.seen = 0 \/ op.seen = 1
        /\ op.name = "step" /\ cb.type = "STEPPED" => <<cb.type, cb.pid>> \in Need[1]
        /\ op.name = "pause" /\ cb.type \in {"PAUSEDEBUG", "EXCEPTION"} =>
             <<cb.type, cb.pid>> \in Need[1]
        /\ op.name = "stepOut" /\ cb.type \in Pausing \cup {"CREATEPROCESS"} =>
             <<cb.type, cb.pid>> \in Need[1]
        /\ op.name = "stop" /\ cb.type = "STOPDEBUG" => <<cb.type, cb.pid>> \in Need[1]
        /\ op.name \in {"resume", "continue"} /\ cb.type = "RESUMEDEBUG" =>
             <<cb.type, cb.pid>> \in Need[1]
    BY <1>4, NeedLength DEF Need
  <2>2. Len(Need) = 1
    BY <1>4, NeedLength
  <2> QED
    BY <1>1, <1>3, <1>4, <2>1, <2>2
<1>5. CASE op.name = "launch"
  <2>1. Len(Need) = 2 /\ Need[1] = {"CREATEPROCESS"} \X Pid /\ Need[2] = Pausing \X Pid
    BY <1>5 DEF Need
  <2>2. /\ <<cb.type, cb.pid>> \in Need[1] <=> cb.type = "CREATEPROCESS"
        /\ <<cb.type, cb.pid>> \in Need[2] <=> cb.type \in Pausing
    BY <2>1
  <2> QED
    BY <1>1, <1>3, <1>5, <2>1, <2>2
<1>6. CASE op.name = "attach"
  <2>1. /\ Len(Need) = 2 /\ Need[1] = {<<"ATTACH", op.pid>>}
        /\ Need[2] = (Pausing \cup {"CREATEPROCESS"}) \X {op.pid}
    BY <1>6 DEF Need
  <2>2. /\ <<cb.type, cb.pid>> \in Need[1] <=> cb.type = "ATTACH" /\ cb.pid = op.pid
        /\ <<cb.type, cb.pid>> \in Need[2] <=>
             cb.type \in Pausing \cup {"CREATEPROCESS"} /\ cb.pid = op.pid
    BY <2>1
  <2> QED
    BY <1>1, <1>3, <1>6, <2>1, <2>2
<1>7. CASE op.name = "detach"
  <2>1. /\ Len(Need) = 2 /\ Need[1] = {<<"DETACH", op.pid>>} /\ Need[2] = {"STOPDEBUG"} \X Pid
    BY <1>7 DEF Need
  <2>2. /\ <<cb.type, cb.pid>> \in Need[1] <=> cb.type = "DETACH" /\ cb.pid = op.pid
        /\ <<cb.type, cb.pid>> \in Need[2] <=> cb.type = "STOPDEBUG"
    BY <2>1
  <2> QED
    BY <1>1, <1>3, <1>7, <2>1, <2>2
<1> QED
  BY <1>3, <1>4, <1>5, <1>6, <1>7

\* What each kind of callback can name.
LEMMA CallbackNames ==
  ASSUME NEW cb, NEW from, NEW to, Turn(cb.type, from, to)
  PROVE  /\ NextState(cb.type) = "paused" <=> cb.type \in Pausing \cup {"CREATEPROCESS"}
         /\ NextState(cb.type) = "running" <=> cb.type = "RESUMEDEBUG"
         /\ NextState(cb.type) = "absent" <=> cb.type = "STOPDEBUG"
         /\ KindOf(cb) = "step" => cb.type = "STEPPED"
         /\ KindOf(cb) = "userPause" => cb.type \in {"PAUSEDEBUG", "EXCEPTION"}
         /\ cb.type = "CREATEPROCESS" => KindOf(cb) = "processCreated"
         /\ cb.type \in {"ATTACH", "DETACH", "STOPDEBUG", "RESUMEDEBUG"} => ~AddsNothing(cb)
         /\ cb.type \in {"ATTACH", "DETACH", "STOPDEBUG", "CREATEPROCESS"} => ~Ignored(cb)
<1>1. cb.type \in Callback \ {"DEBUGEVENT"}
  BY DEF Turn, Callback, Pausing, Refining
<1>2. /\ NextState(cb.type) = "paused" <=> cb.type \in Pausing \cup {"CREATEPROCESS"}
      /\ NextState(cb.type) = "running" <=> cb.type = "RESUMEDEBUG"
      /\ NextState(cb.type) = "absent" <=> cb.type = "STOPDEBUG"
  BY <1>1 DEF NextState, Callback, Pausing, Refining
<1>3. /\ KindOf(cb) = "step" => cb.type = "STEPPED"
      /\ KindOf(cb) = "userPause" => cb.type \in {"PAUSEDEBUG", "EXCEPTION"}
      /\ cb.type = "CREATEPROCESS" => KindOf(cb) = "processCreated"
  BY <1>1 DEF KindOf, Callback, Refining
<1>4. cb.type \in {"ATTACH", "DETACH", "STOPDEBUG", "RESUMEDEBUG"} => ~AddsNothing(cb)
  BY <1>2 DEF AddsNothing, InPause, Pausing, Refining
<1>5. cb.type \in {"ATTACH", "DETACH", "STOPDEBUG", "CREATEPROCESS"} => ~Ignored(cb)
  BY WhatIsIgnored
<1> QED
  BY <1>2, <1>3, <1>4, <1>5

\* A callback that moves a generation which an operation awaits is one of those
\* that the operation needs.
LEMMA EventWitnesses ==
  ASSUME Shapes, AgreeInv, WitnessInv, NEW cb, CallbackStep(cb), cb.pid \in Pid,
         op.at \in {"checked", "waiting"}, op.name \in Needing
  PROVE  Witnesses'
<1>1. EventKeepsOrCommits(cb) /\ Seen(cb) /\ Turn(cb.type, native.at, native'.at)
  BY EventOnDbg DEF Shapes, OnDebuggerEvent, CallbackStep
<1>2. op'.name = op.name /\ op'.pid = op.pid /\ op'.snap = op.snap
  BY <1>1, SeenFields DEF Shapes, KeptOpFields, OpFields
<1>3. /\ op.seen \in 0..Len(Need) /\ op.snap \in 0..dbg.gen /\ Witnesses
  BY DEF WitnessInv
<1>4. /\ dbg.gen \in Nat /\ dbg.pausedGen \in 0..dbg.gen /\ dbg.absentGen \in 0..dbg.gen
      /\ dbg.runningGen \in 0..dbg.gen /\ dbg.attachGen \in 0..dbg.gen
      /\ dbg.detachGen \in 0..dbg.gen /\ op.seen \in Nat
  BY DEF Shapes, ObservedGens
<1>5. op'.seen \in op.seen..Len(Need)
  BY <1>1, <1>3, SeenNext
<1> USE DEF Witnesses, EventKeepsOrCommits
<1>6. CASE op.name \in {"step", "pause", "stepOut"}
  <2>1. /\ Len(Need) = 1
        /\ op.name = "step" /\ cb.type = "STEPPED" => op'.seen = 1
        /\ op.name = "pause" /\ cb.type \in {"PAUSEDEBUG", "EXCEPTION"} => op'.seen = 1
        /\ op.name = "stepOut" /\ cb.type \in Pausing \cup {"CREATEPROCESS"} => op'.seen = 1
    BY <1>1, <1>3, <1>6, SeenNext, NeedLength
  <2>2. /\ NextState(cb.type) = "paused" <=> cb.type \in Pausing \cup {"CREATEPROCESS"}
        /\ KindOf(cb) = "step" => cb.type = "STEPPED"
        /\ KindOf(cb) = "userPause" => cb.type \in {"PAUSEDEBUG", "EXCEPTION"}
    BY <1>1, CallbackNames
  <2>3. op.seen = 1 => op'.seen = 1
    BY <1>5, <2>1
  <2> QED
    BY <1>1, <1>2, <1>3, <1>4, <1>6, <2>1, <2>2, <2>3
<1>7. CASE op.name \in {"stop", "resume", "continue"}
  <2>1. /\ Len(Need) = 1
        /\ op.name = "stop" /\ cb.type = "STOPDEBUG" => op'.seen = 1
        /\ op.name \in {"resume", "continue"} /\ cb.type = "RESUMEDEBUG" => op'.seen = 1
    BY <1>1, <1>3, <1>7, SeenNext, NeedLength
  <2>2. /\ NextState(cb.type) = "running" <=> cb.type = "RESUMEDEBUG"
        /\ NextState(cb.type) = "absent" <=> cb.type = "STOPDEBUG"
    BY <1>1, CallbackNames
  <2>3. op.seen = 1 => op'.seen = 1
    BY <1>5, <2>1
  <2> QED
    BY <1>1, <1>2, <1>3, <1>4, <1>7, <2>1, <2>2, <2>3
<1>8. CASE op.name = "launch"
  <2>1. /\ Len(Need) = 2
        /\ op.seen = 0 => op'.seen = IF cb.type = "CREATEPROCESS" THEN 1 ELSE 0
        /\ op.seen = 1 => op'.seen = IF cb.type \in Pausing THEN 2 ELSE 1
    BY <1>1, <1>3, <1>8, SeenNext, NeedLength
  <2>2. /\ NextState(cb.type) = "paused" <=> cb.type \in Pausing \cup {"CREATEPROCESS"}
        /\ cb.type = "CREATEPROCESS" => KindOf(cb) = "processCreated"
    BY <1>1, CallbackNames
  <2>3. op.seen = 0 /\ cb.type # "CREATEPROCESS" =>
          cb.type \notin Pausing /\ native'.at \in {"none", "init", "ending"}
    BY <1>1, <1>3, <1>8 DEF Turn, Live, Pausing, Refining
  <2>4. op.seen = 0 \/ op.seen = 1 \/ (op.seen = 2 /\ op'.seen = 2)
    BY <1>3, <1>5, <2>1
  <2>5. "CREATEPROCESS" \notin Pausing
    BY DEF Pausing, Refining
  <2>6. /\ op'.seen = 0 => native'.at \in {"none", "init", "ending"} /\ dbg'.pausedGen <= op.snap
        /\ dbg'.pausedGen > op.snap /\ dbg'.kind # "processCreated" => op'.seen = 2
    BY <1>1, <1>3, <1>4, <1>8, <2>1, <2>2, <2>3, <2>4, <2>5
  <2> QED
    BY <1>2, <1>8, <2>6
<1>9. CASE op.name = "attach"
  <2>1. /\ Len(Need) = 2
        /\ op.seen = 0 => op'.seen = IF cb.type = "ATTACH" /\ cb.pid = op.pid THEN 1 ELSE 0
        /\ op.seen = 1 =>
             op'.seen = IF cb.type \in Pausing \cup {"CREATEPROCESS"} /\ cb.pid = op.pid
                        THEN 2 ELSE 1
    BY <1>1, <1>3, <1>9, SeenNext, NeedLength
  <2>2. dbg'.attachGen > op.snap /\ dbg'.attachPid = op.pid => op'.seen >= 1
    BY <1>1, <1>3, <1>4, <1>5, <1>9, <2>1
  <2>3. ASSUME op'.seen = 1, dbg'.state = "paused"
        PROVE  native'.pid # op.pid
    <3>1. cb.pid = native'.pid /\ (cb.type # "INITDEBUG" => native'.pid = native.pid)
      BY DEF CallbackStep
    <3>2. dbg'.state = IF Ignored(cb) THEN dbg.state ELSE NextState(cb.type)
      BY StateAfterEvent DEF CallbackStep
    <3>3. Ignored(cb) => cb.type \in Pausing
      <4>1. ~LateResume(cb)
        BY DEF LateResume, AgreeInv, UnderWay
      <4> QED
        BY <4>1, WhatIsIgnored DEF Pausing, Refining
    <3>4. cb.type \in Pausing \cup {"CREATEPROCESS"}
      BY <1>1, <2>3, <3>2, <3>3, CallbackNames
    <3>5. op.seen = 1
      BY <1>3, <1>5, <2>1, <2>3, <3>4 DEF Pausing, Refining
    <3> QED
      BY <2>1, <2>3, <3>1, <3>4, <3>5
  <2> QED
    BY <1>2, <1>9, <2>2, <2>3
<1>10. CASE op.name = "detach"
  <2>1. /\ Len(Need) = 2
        /\ op.seen = 0 => op'.seen = IF cb.type = "DETACH" /\ cb.pid = op.pid THEN 1 ELSE 0
        /\ op.seen = 1 => op'.seen = IF cb.type = "STOPDEBUG" THEN 2 ELSE 1
    BY <1>1, <1>3, <1>10, SeenNext, NeedLength
  <2>2. /\ NextState(cb.type) = "absent" <=> cb.type = "STOPDEBUG"
        /\ cb.type = "DETACH" => Commits(cb)
    BY <1>1, CallbackNames DEF Commits
  <2>3. dbg'.detachGen > op.snap /\ dbg'.detachPid = op.pid => op'.seen >= 1
    BY <1>1, <1>3, <1>4, <1>5, <1>10, <2>1
  <2>4. op'.seen = 1 => dbg'.absentGen < dbg'.detachGen
    <3>1. op'.seen = 1 => (op.seen = 0 /\ cb.type = "DETACH")
                          \/ (op.seen = 1 /\ cb.type # "STOPDEBUG")
      BY <1>3, <1>5, <2>1
    <3> QED
      BY <1>1, <1>3, <1>4, <1>10, <2>2, <3>1
  <2> QED
    BY <1>2, <1>10, <2>3, <2>4
<1> QED
  BY <1>6, <1>7, <1>8, <1>9, <1>10 DEF Needing

\* Each step of x64dbg keeps the witnesses of the operation under way.
LEMMA NativeStepWitnesses ==
  ASSUME Shapes, AgreeInv, WitnessInv, NativeStep
  PROVE  WitnessInv'
<1>1. \A f \in KeptOpFields : op'[f] = op[f]
  BY NativeOnOp
<1>2. /\ op'.at = op.at /\ op'.name = op.name /\ op'.pid = op.pid /\ op'.snap = op.snap
      /\ op'.before = op.before /\ op'.result = op.result
  BY <1>1 DEF KeptOpFields, OpFields
<1>3. Need' = Need
  BY <1>2 DEF Need
<1>4. op.seen \in 0..Len(Need) /\ Len(Need) \in Nat
  BY NeedLength DEF WitnessInv, Needing
<1>5. dbg.gen \in Nat /\ dbg'.gen \in Nat /\ dbg'.gen >= dbg.gen
  <2>1. Seeable
    BY NativeStepSeen
  <2> QED
    BY <2>1 DEF Shapes, Seeable, Draining
<1>6. SUFFICES /\ native'.at \in Live => dbg'.pid = native'.pid
               /\ op'.seen \in op.seen..Len(Need)
               /\ op.at = "idle" => op'.seen = op.seen
               /\ op.at \in {"checked", "waiting"} /\ op.name \in Needing => Witnesses'
  <2> HIDE DEF Witnesses
  <2> QED
    BY <1>2, <1>3, <1>4, <1>5 DEF WitnessInv, SuccessIsWitnessed
<1>7. op.at = "idle" => op'.seen = op.seen
  BY NativeOnOp
<1>8. ASSUME NEW cb, CallbackStep(cb)
      PROVE  /\ native'.at \in Live => dbg'.pid = native'.pid
             /\ op'.seen \in op.seen..Len(Need)
             /\ op.at \in {"checked", "waiting"} /\ op.name \in Needing => Witnesses'
  <2>1. /\ EventKeepsOrCommits(cb) /\ Seen(cb) /\ Turn(cb.type, native.at, native'.at)
        /\ cb.pid = native'.pid /\ (cb.type # "INITDEBUG" => native'.pid = native.pid)
    BY <1>8, EventOnDbg DEF Shapes, OnDebuggerEvent, CallbackStep
  <2>2. cb.pid \in Pid
    <3>1. native'.pid \in Pid
      BY NativeKinds
    <3> QED
      BY <2>1, <3>1
  <2>3. native'.at \in Live => dbg'.pid = native'.pid
    <3>1. native'.at \in Live =>
            \/ cb.type = "CREATEPROCESS"
            \/ cb.type \in Pausing \cup {"RESUMEDEBUG"} /\ native.at \in Live
      BY <2>1 DEF Turn, Live
    <3>2. cb.type = "CREATEPROCESS" => dbg'.pid = cb.pid
      <4>1. cb.type = "CREATEPROCESS" => ~Ignored(cb)
        BY WhatIsIgnored
      <4> QED
        BY <2>1, <4>1 DEF EventKeepsOrCommits
    <3>3. cb.type \in Pausing \cup {"RESUMEDEBUG"} =>
            dbg'.pid = dbg.pid /\ native'.pid = native.pid
      BY <2>1 DEF EventKeepsOrCommits, Pausing, Refining
    <3> QED
      BY <2>1, <3>1, <3>2, <3>3 DEF WitnessInv
  <2>4. op'.seen \in op.seen..Len(Need)
    <3>1. CASE op.at = "idle"
      BY <1>4, <1>7, <3>1
    <3>2. CASE op.at # "idle"
      BY <1>4, <2>1, <2>2, <3>2, SeenNext
    <3> QED
      BY <3>1, <3>2
  <2> QED
    BY <1>8, <2>2, <2>3, <2>4, EventWitnesses
<1>9. CASE NativeRaw
  <2>1. /\ dbg'.gen = dbg.gen + 1 /\ dbg'.pid = native.pid
        /\ \A f \in DbgFields \ {"gen", "pid", "nativePause", "exception"} : dbg'[f] = dbg[f]
        /\ \A f \in NativeFields \ {"raw"} : native'[f] = native[f]
        /\ op'.seen = op.seen
    BY <1>9, RawFields
  <2>2. native'.at = native.at /\ native'.pid = native.pid
    BY <2>1 DEF NativeFields
  <2>3. /\ dbg'.pausedGen = dbg.pausedGen /\ dbg'.absentGen = dbg.absentGen
        /\ dbg'.runningGen = dbg.runningGen /\ dbg'.attachGen = dbg.attachGen
        /\ dbg'.attachPid = dbg.attachPid /\ dbg'.detachGen = dbg.detachGen
        /\ dbg'.detachPid = dbg.detachPid /\ dbg'.kind = dbg.kind /\ dbg'.state = dbg.state
    BY <2>1 DEF DbgFields
  <2>4. Witnesses => Witnesses'
    BY <1>2, <2>1, <2>2, <2>3 DEF Witnesses
  <2> QED
    BY <1>4, <1>7, <2>1, <2>2, <2>4 DEF WitnessInv
<1>10. CASE SilentStep
  <2>1. /\ op' = op /\ dbg' = dbg /\ native'.pid = native.pid
        /\ \/ native.at = "stopped" /\ native'.at = "running" /\ op.at = "submitting"
           \/ native.at \in {"init", "exited", "stopping"} /\ native'.at = "ending"
    BY <1>10 DEF SilentStep
  <2>2. op.at \in {"checked", "waiting"} /\ Witnesses => Witnesses'
    BY <2>1 DEF Witnesses
  <2>3. native'.at \in Live => dbg'.pid = native'.pid
    BY <2>1 DEF WitnessInv, Live
  <2> QED
    BY <1>4, <1>7, <2>1, <2>2, <2>3 DEF WitnessInv
<1> QED
  BY <1>7, <1>8, <1>9, <1>10, NativeTurns

\* A check begins with no witness, and no generation is ahead of its own.
LEMMA CheckWitnesses ==
  ASSUME Shapes, Shapes', AgreeInv, WitnessInv, NEW m, NEW p, Check(m, p)
  PROVE  WitnessInv'
<1>1. /\ op'.name = m /\ op'.snap = dbg'.gen /\ op'.seen = 0
      /\ \/ op'.at = "checked" /\ op'.result = "none" /\ Valid(m, dbg')
         \/ op'.at = "idle" /\ op'.result = "definite"
      /\ \/ dbg' = dbg
         \/ Reconciles /\ dbg' = Reconciled
      /\ native' = native
  BY CheckBegins
<1>2. Len(Need)' \in Nat
  BY DEF Need
<1>3. native'.at \in Live => dbg'.pid = native'.pid
  BY <1>1 DEF WitnessInv, Reconciles, IsDebugging, Live
<1>4. /\ dbg'.gen \in Nat /\ dbg'.pausedGen <= dbg'.gen /\ dbg'.runningGen <= dbg'.gen
      /\ dbg'.absentGen <= dbg'.gen /\ dbg'.attachGen <= dbg'.gen /\ dbg'.detachGen <= dbg'.gen
      /\ dbg'.pausedGen \in Nat /\ dbg'.runningGen \in Nat
      /\ dbg'.absentGen \in Nat /\ dbg'.attachGen \in Nat /\ dbg'.detachGen \in Nat
  BY DEF Shapes, ObservedGens
<1>5. op'.at = "checked" => Witnesses'
  <2>1. op'.at = "checked" /\ m = "launch" => native'.at \in {"none", "init", "ending"}
    BY <1>1 DEF Valid, IsDebugging
  <2> QED
    BY <1>1, <1>4, <2>1 DEF Witnesses
<1> QED
  BY <1>1, <1>2, <1>3, <1>4, <1>5 DEF WitnessInv, SuccessIsWitnessed

\* An operation that goes on confirms itself only on its witnesses.
LEMMA OperationStepWitnesses ==
  ASSUME Shapes, AgreeInv, CaptureInv, WitnessInv, OperationGoesOn
  PROVE  WitnessInv'
<1>1. /\ \A f \in DbgFields \ {"interrupt"} : dbg'[f] = dbg[f]
      /\ DOMAIN op' = OpFields
      /\ \A f \in {"name", "count", "pid", "seen"} : op'[f] = op[f]
      /\ op.at # "idle"
      /\ \A f \in NativeFields \ {"ran"} : native'[f] = native[f]
  BY OperationKeeps
<1>2. /\ native'.at = native.at /\ native'.pid = native.pid
      /\ op'.name = op.name /\ op'.pid = op.pid /\ op'.seen = op.seen
  BY <1>1 DEF NativeFields
<1>3. /\ dbg'.pausedGen = dbg.pausedGen /\ dbg'.absentGen = dbg.absentGen
      /\ dbg'.runningGen = dbg.runningGen /\ dbg'.attachGen = dbg.attachGen
      /\ dbg'.attachPid = dbg.attachPid /\ dbg'.detachGen = dbg.detachGen
      /\ dbg'.detachPid = dbg.detachPid /\ dbg'.kind = dbg.kind /\ dbg'.state = dbg.state
      /\ dbg'.gen = dbg.gen /\ dbg'.pid = dbg.pid
  BY <1>1 DEF DbgFields
<1>4. Need' = Need
  BY <1>2 DEF Need
<1>5. /\ op.seen \in 0..Len(Need)
      /\ native.at \in Live => dbg.pid = native.pid
      /\ op.at = "waiting" => op.name \in Needing \cup {"waitForPause", "eventsWait"}
      /\ op.at = "submitting" => op.name = "trace"
      /\ op.at \in {"checked", "waiting"} /\ op.name \in Needing =>
           /\ op.snap \in 0..dbg.gen
           /\ op.at = "waiting" => op.before \in op.snap..dbg.gen
           /\ Witnesses
      /\ op.at \in {"confirmed", "captured"} => op.seen = Len(Need)
      /\ op.result = "none"
  BY <1>1 DEF WitnessInv, CaptureInv
<1>6. ASSUME NEW r, Finish(r), r = "ok" => op.seen = Len(Need)
      PROVE  WitnessInv'
  <2>1. op'.at = "idle" /\ op'.result = r
    BY <1>6 DEF Finish, Shapes, OpFields
  <2> QED
    BY <1>2, <1>3, <1>4, <1>5, <1>6, <2>1 DEF WitnessInv, SuccessIsWitnessed
<1>7. op'.snap = op.snap /\ Witnesses => Witnesses'
  BY <1>2, <1>3 DEF Witnesses
<1>8. ASSUME op.at = "checked", op'.at = "waiting", op'.snap = op.snap, op'.result = "none",
             op.name \in Needing, op'.before \in {op.snap, dbg.gen}
      PROVE  WitnessInv'
  <2>1. op'.before \in op.snap..dbg.gen
    BY <1>5, <1>8 DEF Shapes
  <2> QED
    BY <1>2, <1>3, <1>4, <1>5, <1>7, <1>8, <2>1 DEF WitnessInv, SuccessIsWitnessed
<1>9. CASE Submit \/ SubmitStepOut \/ SubmitPause
  <2>1. /\ op.at = "checked" /\ op.name \in Needing
        /\ \/ /\ op'.at = "waiting" /\ op'.snap = op.snap /\ op'.result = op.result
              /\ op'.before \in {op.snap, dbg.gen}
           \/ Finish("definite")
    BY <1>9 DEF Submit, SubmitStepOut, SubmitPause, Shapes, OpFields, Needing
  <2> QED
    BY <1>5, <1>6, <1>8, <2>1
<1>10. CASE BeginWait
  <2>1. op.name \in {"waitForPause", "eventsWait"} /\ op'.at = "waiting" /\ op'.result = op.result
    BY <1>10 DEF BeginWait, Shapes, OpFields
  <2>2. op.name \notin Needing
    BY <2>1 DEF Needing
  <2> QED
    BY <1>2, <1>3, <1>4, <1>5, <2>1, <2>2 DEF WitnessInv, SuccessIsWitnessed
<1>11. CASE SubmitTrace
  <2>1. /\ op.name = "trace"
        /\ \/ op'.at = "submitting" /\ op'.result = op.result
           \/ Finish("definite")
    BY <1>11 DEF SubmitTrace, Shapes, OpFields
  <2>2. CASE op'.at = "submitting" /\ op'.result = op.result
    BY <1>2, <1>3, <1>4, <1>5, <2>1, <2>2 DEF WitnessInv, SuccessIsWitnessed
  <2> QED
    BY <1>6, <2>1, <2>2
<1>12. CASE TraceSubmitted
  <2>1. op.at = "submitting" /\ \E r : Finish(r)
    BY <1>12 DEF TraceSubmitted
  <2>2. op.seen = Len(Need)
    BY <1>5, <2>1, NeedLength DEF Needing
  <2> QED
    BY <1>6, <2>1, <2>2
<1>13. CASE BeginState
  <2>1. op.name = "state" /\ op'.at = "confirmed" /\ op'.result = op.result
    BY <1>13 DEF BeginState, Shapes, OpFields
  <2>2. op.seen = Len(Need)
    BY <1>5, <2>1, NeedLength DEF Needing
  <2> QED
    BY <1>2, <1>3, <1>4, <1>5, <2>1, <2>2 DEF WitnessInv, SuccessIsWitnessed
<1>14. CASE Confirm
  <2>1. op.at = "waiting" /\ Confirmed
    BY <1>14 DEF Confirm
  <2>2. op.seen = Len(Need)
    <3>0. /\ op.seen \in 0..Len(Need)
          /\ op.name \in {"attach", "detach", "launch"} => Len(Need) = 2
          /\ op.name \in {"stop", "resume", "continue", "step", "pause", "stepOut"} =>
               Len(Need) = 1
          /\ op.name \notin Needing => Len(Need) = 0
      BY <1>5, NeedLength
    <3>len. op.name \in {"attach", "detach"} => Len(Need) = 2
      BY <3>0
    <3>few. ASSUME op.name \in {"attach", "detach"}
          PROVE  op.seen \in {0, 1, 2}
      <4>1. Len(Need) = 2
        BY <3>len, <3>few
      <4>2. op.seen \in 0..2
        BY <3>0, <4>1, Zenon
      <4> QED
        BY <4>2
    <3>1. CASE op.name \notin Needing
      BY <3>0, <3>1
    <3>2. ASSUME op.name \in Needing
          PROVE  /\ Witnesses /\ op.snap \in Nat /\ op.before \in Nat /\ op.before >= op.snap
                 /\ dbg.pausedGen \in Nat /\ dbg.runningGen \in Nat /\ dbg.absentGen \in Nat
                 /\ dbg.attachGen \in Nat /\ dbg.detachGen \in Nat
      BY <1>5, <2>1, <3>2 DEF Shapes, ObservedGens
    <3>3. CASE op.name = "launch"
      <4>1. dbg.pausedGen > op.before /\ dbg.kind # "processCreated"
        BY <2>1, <3>3 DEF Confirmed
      <4> QED
        BY <3>0, <3>2, <3>3, <4>1 DEF Witnesses, Needing
    <3>4. CASE op.name = "attach"
      <4>1. /\ dbg.attachGen > op.before /\ dbg.attachPid = op.pid
            /\ dbg.state = "paused" /\ dbg.pid = op.pid
        BY <2>1, <3>4 DEF Confirmed
      <4>2. native.at \in Live
        BY <4>1 DEF AgreeInv, RecordedAt, Live
      <4>3. op.seen >= 1 /\ op.seen # 1
        BY <1>5, <3>2, <3>4, <4>1, <4>2 DEF Witnesses, Needing
      <4> QED
        BY <3>len, <3>few, <3>4, <4>3
    <3>5. CASE op.name = "detach"
      <4>1. /\ dbg.detachGen > op.before /\ dbg.detachPid = op.pid
            /\ dbg.absentGen > dbg.detachGen
        BY <2>1, <3>5 DEF Confirmed
      <4>2. op.seen >= 1 /\ op.seen # 1
        BY <3>2, <3>5, <4>1 DEF Witnesses, Needing
      <4> QED
        BY <3>len, <3>few, <3>5, <4>2
    <3>6. CASE op.name \in {"stop", "resume", "continue"}
      <4>1. /\ op.name = "stop" => dbg.absentGen > op.before
            /\ op.name \in {"resume", "continue"} => dbg.runningGen > op.before
        BY <2>1 DEF Confirmed
      <4>2. op.seen = 1
        BY <3>2, <3>6, <4>1 DEF Witnesses, Needing
      <4> QED
        BY <3>0, <3>6, <4>2
    <3>7. CASE op.name \in {"step", "pause", "stepOut"}
      <4>1. /\ dbg.pausedGen > op.before
            /\ op.name = "step" => dbg.kind = "step"
            /\ op.name = "pause" => dbg.kind = "userPause"
        BY <2>1, <3>7 DEF Confirmed
      <4>2. op.seen = 1
        BY <3>2, <3>7, <4>1 DEF Witnesses, Needing
      <4> QED
        BY <3>0, <3>7, <4>2
    <3> QED
      BY <3>1, <3>3, <3>4, <3>5, <3>6, <3>7 DEF Needing
  <2>3. CASE op'.at = "confirmed" /\ op'.result = op.result
    BY <1>2, <1>3, <1>4, <1>5, <2>2, <2>3 DEF WitnessInv, SuccessIsWitnessed
  <2>4. CASE \E r : Finish(r)
    BY <1>6, <2>2, <2>4
  <2> QED
    BY <1>14, <2>3, <2>4 DEF Confirm, Shapes, OpFields
<1>15. CASE GiveUp
  <2>1. \E r : Finish(r) /\ r # "ok"
    BY <1>15 DEF GiveUp
  <2> QED
    BY <1>6, <2>1
<1>16. CASE ReadRegisters
  <2>1. op.at = "confirmed"
    BY <1>16 DEF ReadRegisters
  <2>2. CASE op'.at = "captured" /\ op'.result = op.result
    BY <1>2, <1>3, <1>4, <1>5, <2>1, <2>2 DEF WitnessInv, SuccessIsWitnessed
  <2>3. CASE \E r : Finish(r)
    BY <1>5, <1>6, <2>1, <2>3
  <2> QED
    BY <1>16, <2>2, <2>3 DEF ReadRegisters, Shapes, OpFields
<1>17. CASE Conclude
  <2>1. op.at = "captured" /\ \E r : Finish(r)
    BY <1>17 DEF Conclude
  <2> QED
    BY <1>5, <1>6, <2>1
<1> QED
  BY <1>9, <1>10, <1>11, <1>12, <1>13, <1>14, <1>15, <1>16, <1>17 DEF OperationGoesOn

\* What was observed since an operation's check has been seen.
THEOREM WitnessInvHolds == Spec => []WitnessInv
<1>1. Init => WitnessInv
  <2> SUFFICES ASSUME Init PROVE WitnessInv
    OBVIOUS
  <2>1. op.seen = 0 /\ op.at = "idle" /\ op.result = "none" /\ dbg.pid = native.pid
    BY DEF Init, NoOp
  <2>2. Len(Need) \in Nat
    BY DEF Need
  <2> QED
    BY <2>1, <2>2 DEF WitnessInv, SuccessIsWitnessed
<1>2. ASSUME Shapes, AgreeInv, CaptureInv, WitnessInv, [Next]_stateVars
      PROVE  WitnessInv'
  <2>0. Shapes'
    BY <1>2, StepSeen
  <2>1. CASE FirstPage
    <3>1. /\ UNCHANGED <<dbg, native>>
          /\ op'.at = op.at /\ op'.name = op.name /\ op'.snap = op.snap /\ op'.pid = op.pid
          /\ op'.before = op.before /\ op'.seen = op.seen /\ op'.result = op.result
      BY <1>2, <2>1 DEF FirstPage, Shapes, OpFields
    <3>2. Need' = Need
      BY <3>1 DEF Need
    <3>3. Witnesses' = Witnesses
      BY <3>1 DEF Witnesses
    <3> QED
      BY <1>2, <3>1, <3>2, <3>3 DEF WitnessInv, SuccessIsWitnessed
  <2>2. CASE NextPage \/ Draining \/ UNCHANGED stateVars
    <3>1. UNCHANGED <<dbg, native, op>>
      BY <2>2 DEF NextPage, Draining, stateVars
    <3>2. Need' = Need /\ Witnesses' = Witnesses
      BY <3>1 DEF Need, Witnesses
    <3> QED
      BY <1>2, <3>1, <3>2 DEF WitnessInv, SuccessIsWitnessed
  <2>3. CASE OperationStep
    BY <1>2, <2>0, <2>3, CheckWitnesses, OperationStepWitnesses DEF OperationStep, OperationGoesOn
  <2> QED
    BY <1>2, <2>1, <2>2, <2>3, NativeStepWitnesses DEF Next
<1> QED
  BY <1>1, <1>2, ShapesHold, AgreeInvHolds, CaptureInvHolds, PTL DEF Spec

\* A success of an operation stands on callbacks that came after its check: the
\* right process was attached and stopped, or detached and gone, a launched one
\* was created and then stopped, a step, pause, resume or stop was reported.
THEOREM SuccessIsWitnessedHolds == Spec => []SuccessIsWitnessed
BY WitnessInvHolds, PTL DEF WitnessInv

-----------------------------------------------------------------------------
(* A session's history is unbroken.                                        *)

HistoryFields ==
  {"events", "offset", "complete", "cEvents", "cOffset", "cComplete", "session", "counter",
   "candidate", "established", "next"}

PagerFields == {"at", "session", "offset", "got", "whole"}

\* The records of one session, numbered without gaps up to `last'.
Run(s, session, last) ==
  /\ s \in Seq([n : Int, session : Nat])
  /\ \A i \in 1..Len(s) : s[i].session = session /\ s[i].n = last - Len(s) + i

HistoryShape ==
  /\ DOMAIN history = HistoryFields
  /\ history.session \in Nat /\ history.counter \in Nat /\ history.candidate \in Nat
  /\ history.next \in Nat /\ history.offset \in Nat /\ history.cOffset \in Nat
  /\ history.session <= history.counter /\ history.candidate <= history.counter
  /\ history.candidate # 0 => history.session < history.candidate

\* A session is a candidate while the debuggee starts, and is established after.
Sessions ==
  /\ native.at = "none" => history.candidate = 0
  /\ native.at = "init" => history.candidate # 0 /\ ~history.established
  /\ native.at \in Live \cup {"stopping", "exited"} => history.candidate = 0 /\ history.established

\* Where the next record goes, the records go on without a gap.
Runs ==
  /\ \E last \in Int : Run(history.events, history.session, last)
  /\ history.candidate # 0 => Run(history.cEvents, history.candidate, history.next - 1)
  /\ history.candidate = 0 /\ native.at # "none" =>
       Run(history.events, history.session, history.next - 1)

\* A client that will ask for another page has got the page before it.
Pages ==
  /\ DOMAIN pager = PagerFields
  /\ pager.session \in 0..history.session
  /\ pager.offset \in Nat
  /\ pager.got \in Seq(Int)
  /\ PagesAreContiguous
  /\ pager.at = "next" /\ pager.session = history.session =>
       /\ history.events # <<>> /\ pager.got # <<>>
       /\ pager.got[Len(pager.got)] = history.events[1].n - history.offset - 1 + pager.offset

HistoryInv == HistoryShape /\ Sessions /\ Runs /\ Pages

\* The history's push: one more record, or the oldest one makes room for it.
Pushed(s, record) == Append(IF Len(s) = MaxEventHistory THEN Tail(s) ELSE s, record)

\* The oldest record's number moves on when its record is dropped.
FirstMoves(s, e) ==
  s # <<>> => e[1].n = IF Len(s) = MaxEventHistory THEN s[1].n + 1 ELSE s[1].n

\* A run with one more record is a run, whether or not the oldest is dropped.
LEMMA PushRun ==
  ASSUME NEW s, NEW session \in Nat, NEW last \in Int, Run(s, session, last),
         NEW e, e = Pushed(s, [n |-> last + 1, session |-> session])
  PROVE  /\ Run(e, session, last + 1) /\ e # <<>>
         /\ FirstMoves(s, e)
<1> DEFINE Event == [n : Int, session : Nat]
           t == IF Len(s) = MaxEventHistory THEN Tail(s) ELSE s
           r == [n |-> last + 1, session |-> session]
<1>1. /\ s \in Seq(Event) /\ Len(s) \in Nat /\ (s # <<>> => Len(s) # 0)
      /\ \A i \in 1..Len(s) : s[i].session = session /\ s[i].n = last - Len(s) + i
  BY DEF Run
<1>2. t \in Seq(Event) /\ Len(t) = IF Len(s) = MaxEventHistory THEN Len(s) - 1 ELSE Len(s)
  BY <1>1, StateAssumption
<1>3. /\ Len(s) = MaxEventHistory => \A i \in 1..Len(t) : i + 1 \in 1..Len(s) /\ t[i] = s[i + 1]
      /\ Len(s) # MaxEventHistory => t = s
  BY <1>1, <1>2, StateAssumption
<1>4. r \in Event /\ r.n = last + 1 /\ r.session = session
  OBVIOUS
<1>5. e = Append(t, r)
  BY DEF Pushed
<1> HIDE DEF t, r
<1>6. /\ e \in Seq(Event) /\ Len(e) = Len(t) + 1 /\ e[Len(t) + 1] = r
      /\ \A i \in 1..Len(t) : e[i] = t[i]
  <2> HIDE DEF Event
  <2> QED
    BY <1>2, <1>4, <1>5
<1> HIDE DEF Event
<1>7. Len(t) \in Nat
  BY <1>2
<1>8. \A i \in 1..Len(t) : t[i].session = session /\ t[i].n = last - Len(t) + i
  <2>1. CASE Len(s) = MaxEventHistory
    <3> SUFFICES ASSUME NEW i \in 1..Len(t)
                 PROVE  t[i].session = session /\ t[i].n = last - Len(t) + i
      OBVIOUS
    <3>1. i + 1 \in 1..Len(s) /\ t[i] = s[i + 1]
      BY <1>3, <2>1
    <3>2. s[i + 1].session = session /\ s[i + 1].n = last - Len(s) + (i + 1)
      BY <1>1, <3>1
    <3>3. Len(t) = Len(s) - 1
      BY <1>2, <2>1
    <3> QED
      BY <1>1, <1>7, <3>1, <3>2, <3>3
  <2>2. CASE Len(s) # MaxEventHistory
    BY <1>1, <1>3, <2>2
  <2> QED
    BY <2>1, <2>2
<1>9. \A i \in 1..Len(e) : e[i].session = session /\ e[i].n = (last + 1) - Len(e) + i
  <2> SUFFICES ASSUME NEW i \in 1..Len(e)
               PROVE  e[i].session = session /\ e[i].n = (last + 1) - Len(e) + i
    OBVIOUS
  <2>1. CASE i \in 1..Len(t)
    <3>1. e[i].session = session /\ e[i].n = last - Len(t) + i
      BY <1>6, <1>8, <2>1
    <3> QED
      BY <1>6, <1>7, <3>1
  <2>2. CASE i = Len(t) + 1
    BY <1>4, <1>6, <1>7, <2>2
  <2>3. i \in 1..Len(t) \/ i = Len(t) + 1
    BY <1>6, <1>7
  <2> QED
    BY <2>1, <2>2, <2>3
<1>10. e # <<>>
  BY <1>6, <1>7
<1>11. ASSUME s # <<>>
       PROVE  e[1].n = IF Len(s) = MaxEventHistory THEN s[1].n + 1 ELSE s[1].n
  <2>1. 1 \in 1..Len(s)
    BY <1>1, <1>11
  <2>2. s[1].n = last - Len(s) + 1
    BY <1>1, <2>1
  <2>3. 1 \in 1..Len(e)
    BY <1>6, <1>7
  <2>4. e[1].n = (last + 1) - Len(e) + 1
    BY <1>9, <2>3
  <2> QED
    BY <1>1, <1>2, <1>6, <2>2, <2>4
<1>12. Run(e, session, last + 1)
  BY <1>6, <1>9, Zenon DEF Run, Event
<1> QED
  BY <1>10, <1>11, <1>12 DEF FirstMoves

\* RecordEventLocked, field by field.
LEMMA RecordFields ==
  ASSUME NEW h, DOMAIN h = HistoryFields, NEW n, n = Record(h)
  PROVE  /\ DOMAIN n = HistoryFields /\ n.next = h.next + 1
         /\ \A f \in {"session", "counter", "candidate", "established"} : n[f] = h[f]
         /\ h.candidate # 0 =>
              /\ n.cEvents = Pushed(h.cEvents, [n |-> h.next, session |-> h.candidate])
              /\ n.events = h.events /\ n.offset = h.offset
         /\ n.cOffset = h.cOffset \/ n.cOffset = h.cOffset + 1
         /\ h.candidate = 0 =>
              /\ n.events = Pushed(h.events, [n |-> h.next, session |-> h.session])
              /\ n.offset = IF Len(h.events) = MaxEventHistory THEN h.offset + 1 ELSE h.offset
<1>1. CASE h.candidate # 0
  <2>1. /\ DOMAIN n = HistoryFields /\ n.next = h.next + 1
        /\ n.cOffset = h.cOffset \/ n.cOffset = h.cOffset + 1
    BY <1>1 DEF Record, HistoryFields
  <2>2. \A f \in {"session", "counter", "candidate", "established"} : n[f] = h[f]
    BY <1>1 DEF Record, HistoryFields
  <2>3. n.events = h.events /\ n.offset = h.offset
    BY <1>1 DEF Record, HistoryFields
  <2>4. n.cEvents = Pushed(h.cEvents, [n |-> h.next, session |-> h.candidate])
    BY <1>1 DEF Record, HistoryFields, Pushed
  <2> QED
    BY <1>1, <2>1, <2>2, <2>3, <2>4
<1>2. CASE h.candidate = 0
  <2>1. /\ DOMAIN n = HistoryFields /\ n.next = h.next + 1
        /\ n.cOffset = h.cOffset \/ n.cOffset = h.cOffset + 1
    BY <1>2 DEF Record, HistoryFields
  <2>2. \A f \in {"session", "counter", "candidate", "established"} : n[f] = h[f]
    BY <1>2 DEF Record, HistoryFields
  <2>3. n.offset = IF Len(h.events) = MaxEventHistory THEN h.offset + 1 ELSE h.offset
    BY <1>2 DEF Record, HistoryFields
  <2>4. n.events = Pushed(h.events, [n |-> h.next, session |-> h.session])
    BY <1>2 DEF Record, HistoryFields, Pushed
  <2> QED
    BY <1>2, <2>1, <2>2, <2>3, <2>4
<1> QED
  BY <1>1, <1>2

\* A new candidate, its establishment, and its end.
LEMMA SessionFields ==
  ASSUME NEW h, DOMAIN h = HistoryFields, NEW n, NEW type, n = SessionFor(h, type)
  PROVE  /\ DOMAIN n = HistoryFields /\ n.next = h.next
         /\ type = "INITDEBUG" =>
              /\ n.events = h.events /\ n.offset = h.offset /\ n.session = h.session
              /\ n.cEvents = <<>> /\ n.cOffset = 0 /\ n.candidate = h.counter + 1 /\ n.counter = h.counter + 1
              /\ n.established = FALSE
         /\ type = "CREATEPROCESS" /\ ~h.established /\ h.candidate # 0 =>
              /\ n.session = h.candidate /\ n.counter = h.counter + 1 /\ n.events = h.cEvents
              /\ n.offset = h.cOffset /\ n.cOffset = 0 /\ n.candidate = 0 /\ n.established = TRUE
         /\ type \notin {"INITDEBUG", "CREATEPROCESS"} /\ (type = "ATTACH" => h.candidate # 0) =>
              n = h
<1>1. CASE type = "INITDEBUG"
  <2>1. n = [h EXCEPT !.cEvents = <<>>, !.cOffset = 0, !.cComplete = TRUE,
                      !.candidate = h.counter + 1, !.counter = @ + 1, !.established = FALSE]
    BY <1>1 DEF SessionFor
  <2> QED
    BY <1>1, <2>1 DEF HistoryFields
<1>2. CASE type = "CREATEPROCESS" /\ ~h.established
  <2>1. n = [h EXCEPT !.session = IF h.candidate # 0 THEN h.candidate ELSE h.counter + 1,
                   !.counter = @ + 1,
                   !.events = h.cEvents, !.offset = h.cOffset, !.complete = h.cComplete,
                   !.cEvents = <<>>, !.cOffset = 0, !.candidate = 0, !.established = TRUE]
    BY <1>2 DEF SessionFor
  <2>2. DOMAIN n = HistoryFields /\ n.next = h.next /\ n.counter = h.counter + 1
    BY <2>1 DEF HistoryFields
  <2>3. h.candidate # 0 => n.session = h.candidate
    BY <2>1 DEF HistoryFields
  <2>4. /\ n.events = h.cEvents /\ n.offset = h.cOffset /\ n.cOffset = 0
        /\ n.candidate = 0 /\ n.established = TRUE
    BY <2>1 DEF HistoryFields
  <2> QED
    BY <1>2, <2>2, <2>3, <2>4
<1>3. CASE type = "ATTACH" /\ h.candidate = 0
  <2>1. n = [h EXCEPT !.cEvents = <<>>, !.cOffset = 0, !.cComplete = TRUE,
                      !.candidate = h.counter + 1, !.counter = @ + 1, !.established = FALSE]
    BY <1>3 DEF SessionFor
  <2> QED
    BY <1>3, <2>1 DEF HistoryFields
<1>4. CASE /\ type # "INITDEBUG" /\ ~(type = "CREATEPROCESS" /\ ~h.established)
           /\ ~(type = "ATTACH" /\ h.candidate = 0)
  <2>1. n = h
    BY <1>4 DEF SessionFor
  <2> QED
    BY <1>4, <2>1
<1> QED
  BY <1>1, <1>2, <1>3, <1>4

\* A record goes on with the run of the session that it belongs to, and moves
\* numbers and offsets of that session together.
LEMMA RecordRun ==
  ASSUME NEW h, DOMAIN h = HistoryFields, NEW n, n = Record(h),
         h.next \in Nat, h.session \in Nat, h.candidate \in Nat, h.offset \in Nat
  PROVE  /\ h.candidate # 0 /\ Run(h.cEvents, h.candidate, h.next - 1) =>
              Run(n.cEvents, h.candidate, n.next - 1)
         /\ h.candidate = 0 /\ Run(h.events, h.session, h.next - 1) =>
              /\ Run(n.events, h.session, n.next - 1) /\ n.events # <<>>
              /\ h.events # <<>> => n.events[1].n - n.offset = h.events[1].n - h.offset
<1>1. /\ n.next = h.next + 1
      /\ h.candidate # 0 => n.cEvents = Pushed(h.cEvents, [n |-> h.next, session |-> h.candidate])
      /\ h.candidate = 0 =>
           /\ n.events = Pushed(h.events, [n |-> h.next, session |-> h.session])
           /\ n.offset = IF Len(h.events) = MaxEventHistory THEN h.offset + 1 ELSE h.offset
  BY RecordFields, Zenon
<1>2. PICK last \in Int : last = h.next - 1
  OBVIOUS
<1>3. h.next = last + 1 /\ n.next - 1 = last + 1
  BY <1>1, <1>2
<1>4. ASSUME h.candidate # 0, Run(h.cEvents, h.candidate, h.next - 1)
      PROVE  Run(n.cEvents, h.candidate, n.next - 1)
  <2>1. n.cEvents = Pushed(h.cEvents, [n |-> last + 1, session |-> h.candidate])
    BY <1>1, <1>3, <1>4, Zenon
  <2>2. Run(h.cEvents, h.candidate, last)
    BY <1>2, <1>4, Zenon
  <2>3. Run(n.cEvents, h.candidate, last + 1)
    BY <2>1, <2>2, PushRun, Zenon
  <2> QED
    BY <1>3, <2>3, Zenon
<1>5. ASSUME h.candidate = 0, Run(h.events, h.session, h.next - 1)
      PROVE  /\ Run(n.events, h.session, n.next - 1) /\ n.events # <<>>
             /\ h.events # <<>> => n.events[1].n - n.offset = h.events[1].n - h.offset
  <2>1. n.events = Pushed(h.events, [n |-> last + 1, session |-> h.session])
    BY <1>1, <1>3, <1>5, Zenon
  <2>2. Run(h.events, h.session, last)
    BY <1>2, <1>5, Zenon
  <2>3. /\ Run(n.events, h.session, last + 1) /\ n.events # <<>>
        /\ h.events # <<>> /\ Len(h.events) = MaxEventHistory => n.events[1].n = h.events[1].n + 1
        /\ h.events # <<>> /\ Len(h.events) # MaxEventHistory => n.events[1].n = h.events[1].n
    <3> DEFINE s == h.events
               e == n.events
    <3>1. Run(s, h.session, last) /\ e = Pushed(s, [n |-> last + 1, session |-> h.session])
      BY <2>1, <2>2
    <3> HIDE DEF s, e
    <3>2. Run(e, h.session, last + 1)
      BY <3>1, PushRun, Zenon
    <3>3. e # <<>>
      BY <3>1, PushRun, Zenon
    <3>4. FirstMoves(s, e)
      BY <3>1, PushRun, Zenon
    <3> QED
      BY <3>2, <3>3, <3>4 DEF s, e, FirstMoves
  <2>4. /\ Len(h.events) = MaxEventHistory => n.offset = h.offset + 1
        /\ Len(h.events) # MaxEventHistory => n.offset = h.offset
    BY <1>1, <1>5
  <2>5. ASSUME h.events # <<>>
        PROVE  n.events[1].n - n.offset = h.events[1].n - h.offset
    <3>1. \A i \in 1..Len(h.events) : h.events[i].n = last - Len(h.events) + i
      BY <2>2 DEF Run
    <3>2. Len(h.events) \in Nat \ {0}
      <4>1. h.events \in Seq([n : Int, session : Nat])
        BY <2>2 DEF Run
      <4>2. \A S, s : s \in Seq(S) /\ s # <<>> => Len(s) \in Nat \ {0}
        OBVIOUS
      <4> QED
        BY <2>5, <4>1, <4>2, Zenon
    <3>3. h.events[1].n \in Int
      <4>1. 1 \in 1..Len(h.events)
        BY <3>2
      <4>2. h.events[1].n = last - Len(h.events) + 1
        BY <3>1, <4>1, Zenon
      <4> QED
        BY <3>2, <4>2
    <3>4. PICK k \in Int : k = h.events[1].n
      BY <3>3
    <3>5. /\ Len(h.events) = MaxEventHistory => n.events[1].n = k + 1
          /\ Len(h.events) # MaxEventHistory => n.events[1].n = k
      BY <2>3, <2>5, <3>4, Zenon
    <3> QED
      BY <2>4, <3>4, <3>5
  <2> QED
    BY <1>3, <2>3, <2>5, Zenon
<1> QED
  BY <1>4, <1>5

\* What happens to the history, callback by callback.
LEMMA HistoryAfterEvent ==
  ASSUME NEW cb, CallbackStep(cb)
  PROVE  /\ pager' = pager
         /\ \/ history' = history /\ cb.type \in Pausing \cup {"RESUMEDEBUG"}
            \/ history' = Record(SessionFor(history, cb.type)) /\ cb.type # "STOPDEBUG"
            \/ /\ cb.type = "STOPDEBUG"
               /\ history' = SessionAfter(Record(SessionFor(history, cb.type)), "STOPDEBUG")
<1>1. OnDebuggerEvent(cb) /\ Turn(cb.type, native.at, native'.at) /\ pager' = pager
  BY DEF CallbackStep, OnDebuggerEvent
<1>2. CASE Commits(cb)
  <2>1. Refines(cb) => cb.type # "STOPDEBUG"
    BY DEF Refines, Refining
  <2>2. \/ Refines(cb) /\ history' = Record(SessionFor(history, cb.type))
        \/ history' = SessionAfter(Record(SessionFor(history, cb.type)), cb.type)
    BY <1>1, <1>2 DEF OnDebuggerEvent, Commits
  <2> QED
    BY <1>1, <2>1, <2>2 DEF SessionAfter
<1>3. CASE ~Commits(cb)
  <2>1. cb.type \in Pausing \cup {"RESUMEDEBUG"}
    BY <1>1, <1>3, WhatIsIgnored, CallbackNames DEF Commits, AddsNothing, InPause, Pausing, Refining
  <2>2. history' = SessionFor(history, cb.type)
    BY <1>1, <1>3 DEF OnDebuggerEvent, Commits, Refines
  <2>3. history' = history
    BY <2>1, <2>2 DEF SessionFor, Pausing, Refining
  <2> QED
    BY <1>1, <2>1, <2>3
<1> QED
  BY <1>2, <1>3

\* One more record, in the session that is open.
LEMMA RecordKeepsHistory ==
  ASSUME HistoryInv, history' = Record(history), pager' = pager, native.at # "none",
         \/ native.at \in Live /\ native'.at \in Live \cup {"stopping", "exited"}
         \/ native.at = "init" /\ native'.at = "init"
  PROVE  HistoryInv'
<1>1. /\ DOMAIN history' = HistoryFields /\ history'.next = history.next + 1
      /\ history'.cOffset = history.cOffset \/ history'.cOffset = history.cOffset + 1
      /\ \A f \in {"session", "counter", "candidate", "established"} : history'[f] = history[f]
      /\ history.candidate # 0 => history'.events = history.events /\ history'.offset = history.offset
      /\ history.candidate = 0 =>
           history'.offset = IF Len(history.events) = MaxEventHistory THEN history.offset + 1
                             ELSE history.offset
  BY RecordFields DEF HistoryInv, HistoryShape
<1>2. /\ history.candidate # 0 /\ Run(history.cEvents, history.candidate, history.next - 1) =>
           Run(history'.cEvents, history.candidate, history'.next - 1)
      /\ history.candidate = 0 /\ Run(history.events, history.session, history.next - 1) =>
           /\ Run(history'.events, history.session, history'.next - 1) /\ history'.events # <<>>
           /\ history.events # <<>> =>
                history'.events[1].n - history'.offset = history.events[1].n - history.offset
  BY RecordRun DEF HistoryInv, HistoryShape
<1>3. HistoryShape'
  BY <1>1 DEF HistoryInv, HistoryShape
<1>4. Sessions'
  BY <1>1 DEF HistoryInv, Sessions, Live
<1>5. Runs'
  <2>1. CASE history.candidate # 0
    BY <1>1, <1>2, <2>1 DEF HistoryInv, Runs
  <2>2. CASE history.candidate = 0
    <3>1. Run(history'.events, history'.session, history'.next - 1)
      BY <1>1, <1>2, <2>2 DEF HistoryInv, Runs
    <3>2. history'.next - 1 \in Int
      BY <1>3 DEF HistoryShape
    <3> QED
      BY <1>1, <2>2, <3>1, <3>2 DEF Runs
  <2> QED
    BY <2>1, <2>2
<1>6. Pages'
  <2>1. CASE history.candidate # 0
    BY <1>1, <2>1 DEF HistoryInv, Pages, PagesAreContiguous
  <2>2. CASE history.candidate = 0
    <3>1. Run(history.events, history.session, history.next - 1)
      BY <2>2 DEF HistoryInv, Runs
    <3>2. ASSUME pager.at = "next", pager.session = history.session
          PROVE  /\ history'.events # <<>>
                 /\ pager.got[Len(pager.got)] =
                      history'.events[1].n - history'.offset - 1 + pager.offset
      <4>1. history.events # <<>>
        BY <3>2 DEF HistoryInv, Pages
      <4>2. history'.events[1].n - history'.offset = history.events[1].n - history.offset
        BY <1>2, <2>2, <3>1, <4>1
      <4> QED
        BY <1>2, <2>2, <3>1, <3>2, <4>2 DEF HistoryInv, Pages
    <3> QED
      BY <1>1, <2>2, <3>2 DEF HistoryInv, Pages, PagesAreContiguous
  <2> QED
    BY <2>1, <2>2
<1> QED
  BY <1>3, <1>4, <1>5, <1>6 DEF HistoryInv

\* Nothing is recorded, and the open session stays open or comes to its end.
LEMMA HistoryStays ==
  ASSUME HistoryInv, UNCHANGED <<history, pager>>,
         \/ native'.at = native.at
         \/ native.at \in Live /\ native'.at \in Live
         \/ native.at # "none" /\ native'.at = "ending"
  PROVE  HistoryInv'
<1>1. HistoryShape'
  BY DEF HistoryInv, HistoryShape
<1>2. Sessions'
  BY DEF HistoryInv, Sessions, Live
<1>3. Runs'
  BY DEF HistoryInv, Runs, Live
<1>4. Pages'
  BY DEF HistoryInv, Pages, PagesAreContiguous
<1> QED
  BY <1>1, <1>2, <1>3, <1>4 DEF HistoryInv

\* CB_INITDEBUG opens a candidate session, with the record of this callback, and
\* leaves the published history alone.
LEMMA OpenKeepsHistory ==
  ASSUME HistoryInv, history' = Record(SessionFor(history, "INITDEBUG")), pager' = pager,
         native.at = "none", native'.at = "init"
  PROVE  HistoryInv'
<1> DEFINE m == SessionFor(history, "INITDEBUG")
<1>1. /\ DOMAIN m = HistoryFields /\ m.next = history.next
      /\ m.events = history.events /\ m.offset = history.offset /\ m.session = history.session
      /\ m.cEvents = <<>> /\ m.cOffset = 0 /\ m.candidate = history.counter + 1
      /\ m.counter = history.counter + 1 /\ m.established = FALSE
  <2>1. DOMAIN history = HistoryFields
    BY DEF HistoryInv, HistoryShape
  <2> HIDE DEF m
  <2>2. m.events = history.events /\ m.offset = history.offset /\ m.session = history.session
    BY <2>1, SessionFields, Zenon DEF m
  <2>3. /\ DOMAIN m = HistoryFields /\ m.next = history.next
        /\ m.cEvents = <<>> /\ m.cOffset = 0 /\ m.candidate = history.counter + 1
        /\ m.counter = history.counter + 1 /\ m.established = FALSE
    BY <2>1, SessionFields, Zenon DEF m
  <2> QED
    BY <2>2, <2>3
<1>2. history' = Record(m)
  OBVIOUS
<1> HIDE DEF m
<1>3. /\ m.next \in Nat /\ m.session \in Nat /\ m.candidate \in Nat /\ m.offset \in Nat
      /\ m.candidate # 0
  BY <1>1 DEF HistoryInv, HistoryShape
<1>4. /\ DOMAIN history' = HistoryFields /\ history'.next = m.next + 1
      /\ \A f \in {"session", "counter", "candidate", "established"} : history'[f] = m[f]
      /\ history'.events = m.events /\ history'.offset = m.offset
      /\ history'.cOffset = m.cOffset \/ history'.cOffset = m.cOffset + 1
  BY <1>1, <1>2, <1>3, RecordFields
<1>5. Run(m.cEvents, m.candidate, m.next - 1)
  <2>1. \A S : <<>> \in Seq(S) /\ Len(<<>>) = 0
    OBVIOUS
  <2>2. 1..Len(m.cEvents) = {}
    BY <1>1, <2>1
  <2>3. m.cEvents \in Seq([n : Int, session : Nat])
    BY <1>1, <2>1, Zenon
  <2> QED
    BY <2>2, <2>3 DEF Run
<1>6. Run(history'.cEvents, m.candidate, history'.next - 1)
  BY <1>1, <1>2, <1>3, <1>5, RecordRun
<1>7. HistoryShape'
  BY <1>1, <1>3, <1>4 DEF HistoryInv, HistoryShape
<1>8. Sessions'
  BY <1>1, <1>3, <1>4 DEF Sessions, Live
<1>9. Runs'
  BY <1>1, <1>3, <1>4, <1>6 DEF HistoryInv, Runs
<1>10. Pages'
  BY <1>1, <1>4 DEF HistoryInv, Pages, PagesAreContiguous
<1> QED
  BY <1>7, <1>8, <1>9, <1>10 DEF HistoryInv

\* CB_CREATEPROCESS publishes the candidate: its records become the history, and
\* no cursor of the retired session fits any more.
LEMMA EstablishKeepsHistory ==
  ASSUME HistoryInv, history' = Record(SessionFor(history, "CREATEPROCESS")), pager' = pager,
         native.at = "init", native'.at = "loading"
  PROVE  HistoryInv'
<1> DEFINE m == SessionFor(history, "CREATEPROCESS")
<1>1. /\ DOMAIN m = HistoryFields /\ m.next = history.next
      /\ m.session = history.candidate /\ m.counter = history.counter + 1
      /\ m.events = history.cEvents /\ m.offset = history.cOffset /\ m.cOffset = 0
      /\ m.candidate = 0 /\ m.established = TRUE
  BY SessionFields DEF HistoryInv, HistoryShape, Sessions
<1>2. history' = Record(m)
  OBVIOUS
<1> HIDE DEF m
<1>3. /\ m.next \in Nat /\ m.session \in Nat /\ m.candidate \in Nat /\ m.offset \in Nat
      /\ history.session < m.session /\ m.session <= history.counter
  BY <1>1 DEF HistoryInv, HistoryShape, Sessions
<1>4. /\ DOMAIN history' = HistoryFields /\ history'.next = m.next + 1
      /\ \A f \in {"session", "counter", "candidate", "established"} : history'[f] = m[f]
      /\ history'.offset = IF Len(m.events) = MaxEventHistory THEN m.offset + 1 ELSE m.offset
      /\ history'.cOffset = m.cOffset \/ history'.cOffset = m.cOffset + 1
  BY <1>1, <1>2, RecordFields
<1>5. Run(m.events, m.session, m.next - 1)
  BY <1>1 DEF HistoryInv, Runs, Sessions
<1>6. Run(history'.events, m.session, history'.next - 1)
  BY <1>1, <1>2, <1>3, <1>5, RecordRun
<1>7. HistoryShape'
  BY <1>1, <1>3, <1>4 DEF HistoryInv, HistoryShape
<1>8. Sessions'
  BY <1>1, <1>4 DEF Sessions, Live
<1>9. Runs'
  <2>1. history'.next - 1 \in Int
    BY <1>7 DEF HistoryShape
  <2> QED
    BY <1>1, <1>4, <1>6, <2>1 DEF Runs
<1>10. Pages'
  <2>1. pager.session \in 0..history.session /\ history'.session = m.session
    BY <1>4 DEF HistoryInv, Pages
  <2>2. pager.session \in 0..history'.session /\ pager.session # history'.session
    BY <1>3, <2>1 DEF HistoryInv, HistoryShape
  <2> QED
    BY <2>2 DEF HistoryInv, Pages, PagesAreContiguous
<1> QED
  BY <1>7, <1>8, <1>9, <1>10 DEF HistoryInv

\* CB_STOPDEBUG is recorded where the session ended; a candidate that was never
\* established goes without a trace in the published history.
LEMMA EndKeepsHistory ==
  ASSUME HistoryInv, history' = SessionAfter(Record(history), "STOPDEBUG"), pager' = pager,
         native.at = "ending", native'.at = "none"
  PROVE  HistoryInv'
<1> DEFINE m == Record(history)
<1>1. /\ DOMAIN m = HistoryFields /\ m.next = history.next + 1
      /\ \A f \in {"session", "counter", "candidate", "established"} : m[f] = history[f]
      /\ history.candidate # 0 => m.events = history.events /\ m.offset = history.offset
      /\ history.candidate = 0 =>
           m.offset = IF Len(history.events) = MaxEventHistory THEN history.offset + 1
                      ELSE history.offset
  BY RecordFields DEF HistoryInv, HistoryShape
<1>2. history.candidate = 0 =>
        /\ Run(m.events, history.session, m.next - 1) /\ m.events # <<>>
        /\ history.events # <<>> => m.events[1].n - m.offset = history.events[1].n - history.offset
  BY RecordRun DEF HistoryInv, HistoryShape, Runs
<1>3. history' = SessionAfter(m, "STOPDEBUG")
  OBVIOUS
<1> HIDE DEF m
<1>4. /\ DOMAIN history' = HistoryFields /\ history'.cOffset = 0 /\ history'.candidate = 0
      /\ \A f \in {"events", "offset", "session", "counter", "next"} : history'[f] = m[f]
  BY <1>1, <1>3 DEF SessionAfter, HistoryFields
<1>5. HistoryShape'
  BY <1>1, <1>4 DEF HistoryInv, HistoryShape
<1>6. Sessions'
  BY <1>4 DEF Sessions, Live
<1>7. Runs'
  <2>1. CASE history.candidate = 0
    <3>1. m.next - 1 \in Int
      BY <1>1 DEF HistoryInv, HistoryShape
    <3> QED
      BY <1>1, <1>2, <1>4, <2>1, <3>1 DEF Runs
  <2>2. CASE history.candidate # 0
    BY <1>1, <1>4, <2>2 DEF HistoryInv, Runs
  <2> QED
    BY <2>1, <2>2
<1>8. Pages'
  <2>1. ASSUME pager.at = "next", pager.session = history.session
        PROVE  /\ m.events # <<>>
               /\ pager.got[Len(pager.got)] = m.events[1].n - m.offset - 1 + pager.offset
    <3>1. /\ history.events # <<>>
          /\ pager.got[Len(pager.got)] = history.events[1].n - history.offset - 1 + pager.offset
      BY <2>1 DEF HistoryInv, Pages
    <3>2. CASE history.candidate = 0
      <4>1. /\ m.events # <<>>
            /\ m.events[1].n - m.offset = history.events[1].n - history.offset
        BY <1>2, <3>1, <3>2
      <4> QED
        BY <3>1, <4>1
    <3>3. CASE history.candidate # 0
      BY <1>1, <3>1, <3>3
    <3> QED
      BY <3>2, <3>3
  <2> QED
    BY <1>1, <1>4, <2>1 DEF HistoryInv, Pages, PagesAreContiguous
<1> QED
  BY <1>5, <1>6, <1>7, <1>8 DEF HistoryInv

\* Every callback keeps the history of one session unbroken.
LEMMA EventKeepsHistory ==
  ASSUME HistoryInv, NEW cb, CallbackStep(cb)
  PROVE  HistoryInv'
<1>0. /\ pager' = pager /\ Turn(cb.type, native.at, native'.at)
      /\ \/ history' = history /\ cb.type \in Pausing \cup {"RESUMEDEBUG"}
         \/ history' = Record(SessionFor(history, cb.type)) /\ cb.type # "STOPDEBUG"
         \/ /\ cb.type = "STOPDEBUG"
            /\ history' = SessionAfter(Record(SessionFor(history, cb.type)), "STOPDEBUG")
  BY HistoryAfterEvent DEF CallbackStep
<1>1. CASE cb.type = "INITDEBUG"
  BY <1>0, <1>1, OpenKeepsHistory DEF Turn, Pausing, Refining
<1>2. CASE cb.type = "CREATEPROCESS"
  BY <1>0, <1>2, EstablishKeepsHistory DEF Turn, Pausing, Refining
<1>3. CASE cb.type \notin {"INITDEBUG", "CREATEPROCESS"}
  <2>1. cb.type = "ATTACH" => history.candidate # 0
    BY <1>0 DEF Turn, Pausing, Refining, HistoryInv, Sessions
  <2>2. SessionFor(history, cb.type) = history
    BY <1>3, <2>1 DEF SessionFor
  <2>3. CASE cb.type = "STOPDEBUG"
    BY <1>0, <2>2, <2>3, EndKeepsHistory DEF Turn, Pausing, Refining
  <2>4. CASE cb.type # "STOPDEBUG" /\ history' = Record(history)
    BY <1>0, <1>3, <2>4, RecordKeepsHistory DEF Turn, Live
  <2>5. CASE cb.type \in Pausing \cup {"RESUMEDEBUG"} /\ history' = history
    BY <1>0, <2>5, HistoryStays DEF Turn, Live, Pausing, Refining
  <2> QED
    BY <1>0, <2>2, <2>3, <2>4, <2>5
<1> QED
  BY <1>1, <1>2, <1>3

\* A step of x64dbg keeps it too: a raw event is recorded, or is not.
LEMMA NativeKeepsHistory ==
  ASSUME Shapes, AgreeInv, HistoryInv, NativeStep
  PROVE  HistoryInv'
<1>1. CASE NativeRaw
  <2>1. /\ native.at \in Live /\ native'.at = native.at /\ pager' = pager
        /\ history' = Record(history) \/ history' = history
    BY <1>1 DEF NativeRaw, OnRawEvent, Shapes, NativeFields, Live
  <2> QED
    BY <2>1, RecordKeepsHistory, HistoryStays DEF Live
<1>2. CASE SilentStep
  BY <1>2, HistoryStays DEF SilentStep, Live
<1> QED
  BY <1>1, <1>2, NativeTurns, EventKeepsHistory

\* The first page begins at the oldest record of the history, and its cursor is
\* of this session.
LEMMA FirstPageKeepsHistory ==
  ASSUME HistoryInv, FirstPage
  PROVE  HistoryInv'
<1>1. UNCHANGED <<history, native>>
  BY DEF FirstPage
<1>2. HistoryShape' /\ Sessions' /\ Runs'
  BY <1>1 DEF HistoryInv, HistoryShape, Sessions, Runs
<1>3. /\ DOMAIN pager' = PagerFields
      /\ pager'.session = history.session /\ pager'.offset = history.offset + 1
      /\ pager'.got = Page(history.offset)
      /\ pager'.at = "next" => Len(history.events) > 1
  BY DEF FirstPage, PagerFields
<1>4. history.session \in Nat /\ history.offset \in Nat
  BY DEF HistoryInv, HistoryShape
<1>5. PICK last \in Int : Run(history.events, history.session, last)
  BY DEF HistoryInv, Runs
<1>6. Len(history.events) \in Nat
  BY <1>5 DEF Run
<1>7. Page(history.offset) = IF 1 > Len(history.events) THEN <<>> ELSE <<history.events[1].n>>
  BY <1>4 DEF Page
<1>8. CASE Len(history.events) = 0
  <2>1. pager'.got = <<>> /\ pager'.at # "next"
    BY <1>3, <1>7, <1>8
  <2>2. \A S : <<>> \in Seq(S) /\ DOMAIN <<>> = {}
    OBVIOUS
  <2>3. pager'.got \in Seq(Int) /\ PagesAreContiguous'
    BY <2>1, <2>2 DEF PagesAreContiguous
  <2> QED
    BY <1>1, <1>2, <1>3, <1>4, <2>1, <2>3 DEF Pages, HistoryInv
<1>9. CASE Len(history.events) # 0
  <2>1. PICK k \in Int : k = history.events[1].n
    <3>1. 1 \in 1..Len(history.events)
      BY <1>6, <1>9
    <3>2. history.events[1].n = last - Len(history.events) + 1
      BY <1>5, <3>1 DEF Run
    <3>3. history.events[1].n \in Int
      BY <1>6, <3>2
    <3> QED
      BY <3>3
  <2>2. pager'.got = <<k>>
    BY <1>3, <1>6, <1>7, <1>9, <2>1
  <2>3. /\ pager'.got \in Seq(Int) /\ Len(pager'.got) = 1 /\ pager'.got[1] = k
        /\ pager'.got # <<>> /\ DOMAIN pager'.got = {1}
    BY <2>2
  <2>4. PagesAreContiguous'
    BY <2>3 DEF PagesAreContiguous
  <2>5. history.events # <<>>
    BY <1>9
  <2>6. pager'.got[Len(pager'.got)] = history.events[1].n - history.offset - 1 + pager'.offset
    BY <1>3, <1>4, <2>1, <2>3
  <2> QED
    BY <1>1, <1>2, <1>3, <1>4, <2>3, <2>4, <2>5, <2>6 DEF Pages, HistoryInv
<1> QED
  BY <1>2, <1>8, <1>9 DEF HistoryInv

\* The next page begins where the last one ended, although records were dropped
\* in between: numbers and offsets have moved together.
LEMMA NextPageKeepsHistory ==
  ASSUME HistoryInv, NextPage
  PROVE  HistoryInv'
<1>1. UNCHANGED <<history, native>> /\ pager.at = "next"
  BY DEF NextPage
<1>2. HistoryShape' /\ Sessions' /\ Runs'
  BY <1>1 DEF HistoryInv, HistoryShape, Sessions, Runs
<1>3. DOMAIN pager = PagerFields
  BY DEF HistoryInv, Pages
<1>4. CASE ~CursorFits
  <2>1. /\ DOMAIN pager' = PagerFields /\ pager'.at = "refused" /\ pager'.session = pager.session
        /\ pager'.offset = pager.offset /\ pager'.got = pager.got
    BY <1>3, <1>4 DEF NextPage, PagerFields
  <2> QED
    BY <1>1, <1>2, <2>1 DEF HistoryInv, Pages, PagesAreContiguous
<1>5. CASE CursorFits
  <2> DEFINE i == pager.offset - history.offset + 1
             page == Page(pager.offset)
  <2>1. /\ DOMAIN pager' = PagerFields /\ pager'.session = pager.session
        /\ pager'.offset = pager.offset + 1 /\ pager'.got = pager.got \o page
        /\ pager'.at = "next" => i < Len(history.events)
    BY <1>3, <1>5 DEF NextPage, PagerFields
  <2>2. /\ pager.session = history.session /\ pager.offset >= history.offset
        /\ page = IF i > Len(history.events) THEN <<>> ELSE <<history.events[i].n>>
    BY <1>5 DEF CursorFits, Page
  <2>3. /\ pager.offset \in Nat /\ history.offset \in Nat /\ pager.got \in Seq(Int)
        /\ pager.session \in 0..history.session /\ PagesAreContiguous
        /\ history.events # <<>> /\ pager.got # <<>>
        /\ pager.got[Len(pager.got)] = history.events[1].n - history.offset - 1 + pager.offset
    BY <1>1, <2>2 DEF HistoryInv, HistoryShape, Pages
  <2>4. PICK last \in Int : Run(history.events, history.session, last)
    BY DEF HistoryInv, Runs
  <2>5. Len(history.events) \in Nat \ {0}
    <3>1. history.events \in Seq([n : Int, session : Nat])
      BY <2>4 DEF Run
    <3>2. \A S, s : s \in Seq(S) /\ s # <<>> => Len(s) \in Nat \ {0}
      OBVIOUS
    <3> QED
      BY <2>3, <3>1, <3>2, Zenon
  <2>6. i \in Int /\ i >= 1 /\ i = pager.offset - history.offset + 1
    BY <2>2, <2>3
  <2> HIDE DEF i, page
  <2>7. CASE i > Len(history.events)
    <3>1. page = <<>>
      BY <2>2, <2>7
    <3>2. pager'.got = pager.got /\ pager'.at # "next"
      BY <2>1, <2>3, <2>5, <2>6, <2>7, <3>1
    <3> QED
      BY <1>1, <1>2, <2>1, <2>3, <3>2 DEF HistoryInv, Pages, PagesAreContiguous
  <2>8. CASE ~(i > Len(history.events))
    <3>1. i \in 1..Len(history.events) /\ 1 \in 1..Len(history.events)
      BY <2>5, <2>6, <2>8
    <3>2. /\ history.events[i].n = last - Len(history.events) + i
          /\ history.events[1].n = last - Len(history.events) + 1
      BY <2>4, <3>1 DEF Run
    <3> DEFINE a == last - Len(history.events) + 1
               k == last - Len(history.events) + i
    <3>3. Len(history.events) \in Int
      BY <2>5
    <3>4. a \in Int /\ k \in Int /\ k = (a + i) - 1
      <4>1. \A x \in Int, y \in Int, z \in Int :
              /\ x - y + 1 \in Int /\ x - y + z \in Int
              /\ x - y + z = ((x - y + 1) + z) - 1
        OBVIOUS
      <4> QED
        BY <2>6, <3>3, <4>1, Zenon
    <3>4a. history.events[1].n = a /\ history.events[i].n = k
      BY <3>2, Zenon
    <3> HIDE DEF a, k
    <3>5. page = <<k>>
      BY <2>2, <2>8, <3>4a
    <3>6. /\ pager'.got \in Seq(Int) /\ Len(pager'.got) = Len(pager.got) + 1
          /\ pager'.got[Len(pager.got) + 1] = k
          /\ \A j \in 1..Len(pager.got) : pager'.got[j] = pager.got[j]
          /\ Len(pager.got) \in Nat \ {0}
      <4>1. \A s \in Seq(Int) : s # <<>> =>
              /\ s \o <<k>> \in Seq(Int) /\ Len(s \o <<k>>) = Len(s) + 1
              /\ (s \o <<k>>)[Len(s) + 1] = k /\ Len(s) \in Nat \ {0}
              /\ \A j \in 1..Len(s) : (s \o <<k>>)[j] = s[j]
        BY <3>4
      <4>2. pager'.got = pager.got \o <<k>>
        BY <2>1, <3>5, Zenon
      <4> QED
        BY <2>3, <4>1, <4>2, Zenon
    <3>7. pager.got[Len(pager.got)] = k - 1
      <4>1. pager.got[Len(pager.got)] = a - history.offset - 1 + pager.offset
        BY <2>3, <3>4a
      <4>2. k = a + (pager.offset - history.offset)
        BY <2>3, <2>6, <3>4
      <4> QED
        BY <2>3, <3>4, <4>1, <4>2
    <3>8. pager'.got[Len(pager'.got)] = history.events[1].n - history.offset - 1 + pager'.offset
      <4>1. pager'.got[Len(pager'.got)] = k
        BY <3>6
      <4> QED
        BY <2>1, <2>3, <2>6, <3>4, <3>4a, <4>1, SMTT(30)
    <3>9. PagesAreContiguous'
      <4> SUFFICES ASSUME NEW j \in 1..Len(pager'.got), j > 1
                   PROVE  pager'.got[j] = pager'.got[j - 1] + 1
        <5>1. DOMAIN pager'.got = 1..Len(pager'.got)
          BY <3>6
        <5> QED
          BY <5>1 DEF PagesAreContiguous
      <4>1. CASE j = Len(pager.got) + 1
        <5>1. j - 1 = Len(pager.got) /\ j - 1 \in 1..Len(pager.got)
          BY <3>6, <4>1
        <5>2. pager'.got[j - 1] = k - 1 /\ pager'.got[j] = k
          BY <3>6, <3>7, <4>1, <5>1
        <5> QED
          BY <3>4, <5>2
      <4>2. CASE j # Len(pager.got) + 1
        <5>1. j \in 1..Len(pager.got) /\ j - 1 \in 1..Len(pager.got)
          BY <3>6, <4>2
        <5>2. pager.got[j] = pager.got[j - 1] + 1
          BY <2>3, <5>1 DEF PagesAreContiguous
        <5> QED
          BY <3>6, <5>1, <5>2
      <4> QED
        BY <4>1, <4>2
    <3>10. pager'.got # <<>>
      BY <3>6
    <3> QED
      BY <1>1, <1>2, <2>1, <2>3, <3>6, <3>8, <3>9, <3>10 DEF HistoryInv, Pages
  <2> QED
    BY <2>7, <2>8
<1> QED
  BY <1>4, <1>5

\* The history and its reader keep their invariant.
THEOREM HistoryInvHolds == Spec => []HistoryInv
<1>1. Init => HistoryInv
  <2> SUFFICES ASSUME Init PROVE HistoryInv
    OBVIOUS
  <2>1. /\ DOMAIN history = HistoryFields /\ history.events = <<>>
        /\ history.offset = 0 /\ history.cOffset = 0 /\ history.session = 0
        /\ history.counter = 0 /\ history.candidate = 0 /\ history.next = 1
        /\ history.established = (dbg.state = "paused")
        /\ native.at = IF dbg.state = "paused" THEN "stopped" ELSE "none"
    BY DEF Init, HistoryFields
  <2>2. /\ DOMAIN pager = PagerFields /\ pager.at = "none" /\ pager.session = 0
        /\ pager.offset = 0 /\ pager.got = <<>>
    BY DEF Init, NoPager, PagerFields
  <2>3. \A S : <<>> \in Seq(S) /\ Len(<<>>) = 0 /\ DOMAIN <<>> = {}
    OBVIOUS
  <2>4. HistoryShape /\ Sessions
    <3>1. HistoryShape
      BY <2>1 DEF HistoryShape
    <3>2. Sessions
      BY <2>1 DEF Sessions, Live
    <3> QED
      BY <3>1, <3>2
  <2>5. \A last : Run(history.events, history.session, last)
    <3>1. 1..Len(history.events) = {} /\ history.events \in Seq([n : Int, session : Nat])
      BY <2>1, <2>3
    <3> QED
      BY <3>1 DEF Run
  <2>6. Runs
    BY <2>1, <2>5 DEF Runs
  <2>7. Pages
    <3>1. pager.got \in Seq(Int) /\ PagesAreContiguous
      BY <2>2, <2>3 DEF PagesAreContiguous
    <3>2. pager.session \in 0..history.session /\ pager.offset \in Nat
      BY <2>1, <2>2
    <3> QED
      BY <2>2, <3>1, <3>2 DEF Pages
  <2> QED
    BY <2>4, <2>6, <2>7 DEF HistoryInv
<1>2. ASSUME Shapes, AgreeInv, HistoryInv, [Next]_stateVars
      PROVE  HistoryInv'
  <2>1. CASE OperationStep
    <3>1. history' = history /\ pager' = pager /\ native'.at = native.at
      BY <1>2, <2>1, OperationKeeps, CheckBegins DEF OperationStep, OperationGoesOn, NativeFields
    <3> QED
      BY <1>2, <3>1, HistoryStays
  <2>2. CASE Draining \/ UNCHANGED stateVars
    <3>1. history' = history /\ pager' = pager /\ native' = native
      BY <2>2 DEF Draining, stateVars
    <3> QED
      BY <1>2, <3>1, HistoryStays
  <2> QED
    BY <1>2, <2>1, <2>2, NativeKeepsHistory, FirstPageKeepsHistory, NextPageKeepsHistory DEF Next
<1> QED
  BY <1>1, <1>2, ShapesHold, AgreeInvHolds, PTL DEF Spec

\* What a client learns from events.list is one session's history, unbroken: the
\* published records are all of the published session and numbered without
\* gaps, whatever sessions were begun, abandoned or established, and the pages
\* that a client collects join without a gap although the history drops records.
THEOREM HistoryIsUnbrokenHolds == Spec => []HistoryIsUnbroken
<1>1. HistoryInv => HistoryIsUnbroken
  <2> SUFFICES ASSUME HistoryInv PROVE HistoryIsUnbroken
    OBVIOUS
  <2>1. PICK last \in Int : Run(history.events, history.session, last)
    BY DEF HistoryInv, Runs
  <2>2. /\ history.events \in Seq([n : Int, session : Nat])
        /\ \A i \in 1..Len(history.events) :
             /\ history.events[i].session = history.session
             /\ history.events[i].n = last - Len(history.events) + i
    BY <2>1 DEF Run
  <2>3. DOMAIN history.events = 1..Len(history.events) /\ Len(history.events) \in Nat
    BY <2>2
  <2>4. HistoryIsOneSession
    <3> SUFFICES ASSUME NEW i \in 1..Len(history.events)
                 PROVE  /\ history.events[i].session = history.session
                        /\ i > 1 => history.events[i].n = history.events[i - 1].n + 1
      BY <2>3 DEF HistoryIsOneSession
    <3>1. ASSUME i > 1
          PROVE  history.events[i].n = history.events[i - 1].n + 1
      <4>1. i - 1 \in 1..Len(history.events)
        BY <2>3, <3>1
      <4>2. history.events[i - 1].n = last - Len(history.events) + (i - 1)
        BY <2>2, <4>1
      <4>3. history.events[i].n = last - Len(history.events) + i
        BY <2>2
      <4> QED
        BY <2>3, <4>2, <4>3
    <3> QED
      BY <2>2, <3>1
  <2> QED
    BY <2>4 DEF HistoryIsUnbroken, HistoryInv, Pages
<1> QED
  BY <1>1, HistoryInvHolds, PTL

================================================================================
