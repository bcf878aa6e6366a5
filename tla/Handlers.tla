------------------------------- MODULE Handlers -------------------------------
(***************************************************************************)
(* One operation handler at work (HandlerPrograms), next to what it cannot *)
(* stop: the debuggee moves (PausedSnapshot), the user edits what the      *)
(* handler is about to change, x64dbg executes queued commands when it     *)
(* likes, deadlines pass and the plugin drains.                            *)
(*                                                                         *)
(* External: x64dbg may refuse a queued command when it executes it; a     *)
(* direct call that fails has no effect, except a thread context that was  *)
(* set and could not be read back; the end of a session drops breakpoints. *)
(***************************************************************************)
EXTENDS PausedSnapshot, HandlerPrograms, FiniteSetsExt

CONSTANTS
  Calls,      \* the handlers that a finite model calls
  MaxEdits    \* bound on the user's edits

ASSUME HandlersAssumption == Calls \subseteq DOMAIN Program /\ MaxEdits \in Nat

VARIABLES
  h,            \* the handler
  target,       \* what it works on: its look, whether this call made it, and
                \* whether this call marked what it did not make
  queue,        \* the effect that waits in x64dbg's command queue
  temp,         \* DumpMemory's temporary file
  pausedGeneration, edits

handlerVars == <<h, target, queue, temp, pausedGeneration, edits>>
vars == <<snapshotVars, handlerVars>>

Idle == [method |-> "none", pc |-> 0, snap |-> 0, cursor |-> 0, cursorLook |-> "absent",
         reads |-> {}, seen |-> "absent", seenEdits |-> 0, submitted |-> FALSE, looped |-> FALSE, before |-> 0,
         cleanup |-> "none", result |-> "none"]

HandlersTypeOK ==
  /\ h.result \in {"none", "ok", "unchecked", "definite", "unknown"}
  /\ h.cleanup \in {"none", "look", "wait"}
  /\ h.reads \subseteq 0..MaxGeneration
  /\ target \in [look : Looks, mine : BOOLEAN, marked : BOOLEAN]
  /\ queue \in {"none", "create", "createBare", "createPart", "delete", "enable", "disable"}
  /\ temp \in {"none", "partial", "whole"}

Init ==
  /\ debuggee = "paused" /\ generation = 1 /\ pluginState = "ready"
  /\ pausedGeneration = 1
  /\ h = Idle
  /\ target \in [look : Looks, mine : {FALSE}, marked : {FALSE}]
  /\ queue = "none" /\ temp = "none" /\ edits = 0

-----------------------------------------------------------------------------
(* The steps of a program.                                                  *)

Running == h.result = "none" /\ h.pc > 0 /\ h.cleanup = "none"
P == Program[h.method]
At(steps) == Running /\ P.steps[h.pc] \in steps

Go(g) == h' = [g EXCEPT !.pc = @ + 1]

\* Mutant: only success removes the temporary file.
FinishKeepingFile(result) ==
  /\ h' = [h EXCEPT !.result = result]
  /\ temp' = IF result = "ok" THEN "none" ELSE temp

\* Every return; DumpMemory's destructor removes a temporary file it owns (nobody
\* looks at DeleteFileW's result; it is taken to succeed).
Finish(result) ==
  /\ h' = [h EXCEPT !.result = result]
  /\ temp' = "none"

\* Returns whose answer carries another generation than that of the snapshot.
FinishAt(result, g) ==
  /\ h' = [h EXCEPT !.result = result, !.snap = g]
  /\ temp' = "none"

\* A failure is definite until the handler has submitted something.
Error == IF h.submitted THEN "unknown" ELSE "definite"

Keep == UNCHANGED <<snapshotVars, target, queue, pausedGeneration, edits>>

\* A request, and the cursor it carries; a page of patches has a fingerprint, too.
\* What a query does not look at is left at its first value.
UsesTarget(m) == Program[m].effect # "none" \/ m = "patches_list"

Call(m, cursor, look) ==
  /\ h.method = "none"
  /\ cursor # 0 => \E i \in DOMAIN Program[m].steps : Program[m].steps[i] = "cursor"
  /\ look = "absent" \/ (m = "patches_list" /\ cursor # 0)
  /\ UsesTarget(m) \/ target.look = "absent"
  /\ h' = [Idle EXCEPT !.method = m, !.pc = 1, !.cursor = cursor, !.cursorLook = look]
  /\ UNCHANGED temp /\ Keep

Begin ==
  /\ At({"begin", "beginActive"})
  /\ \/ /\ IF P.steps[h.pc] = "begin" THEN PausedSnapshotAvailable ELSE ActiveSnapshotAvailable
        /\ Go([h EXCEPT !.snap = generation])
        /\ UNCHANGED temp
     \/ Finish("definite")
  /\ Keep

\* The checks: of the generation, of the pause, of a cursor and of a fingerprint.
Holds(op) ==
  CASE op \in {"check", "checkDone", "valid"} -> PausedSnapshotCurrent(h.snap)
    [] op = "checkActive" -> ActiveSnapshotCurrent(h.snap)
    [] op = "pause" -> generation = h.snap /\ debuggee = "paused"
    [] op = "cursor" -> h.cursor \in {0, h.snap}
    [] op = "fingerprint" -> h.cursor = 0 \/ target.look = h.cursorLook
    [] op = "checkFinal" -> /\ generation = h.snap /\ pausedGeneration = h.snap
                            /\ debuggee = "paused" /\ pluginState = "ready"
    [] OTHER -> TRUE

\* The generation that run_to ends in is checked with a definite error (BUSY);
\* `valid' and `deadline' fail when the deadline has passed, too.
Check ==
  /\ At(CheckOps)
  /\ LET op == P.steps[h.pc]
     IN \/ Holds(op) /\ Go(h) /\ UNCHANGED temp
        \/ /\ ~Holds(op) \/ op \in {"valid", "deadline"}
           /\ Finish(IF op = "checkDone" THEN Error ELSE "definite")
  /\ Keep

\* Calls into x64dbg that read; "readSome" records a failure in its answer.
HavingRead == [h EXCEPT !.reads = @ \cup {generation}]

Read ==
  /\ At({"read", "readSome", "lastRead"})
  /\ \/ Go(HavingRead) /\ UNCHANGED temp
     \/ P.steps[h.pc] # "readSome" /\ Finish("definite")
  /\ Keep

Look ==
  /\ At({"look"})
  /\ IF target.look \in P.accept
     THEN Go([h EXCEPT !.seen = target.look, !.seenEdits = edits]) /\ UNCHANGED temp
     ELSE Finish("definite")
  /\ Keep

\* A loop reads at least once, and here at most twice.
LastRepeat == Max({i \in 1..h.pc : P.steps[i] = "repeat"})

Loop ==
  /\ At({"repeat", "loop"})
  /\ \/ Go([h EXCEPT !.looped = FALSE])
     \/ /\ P.steps[h.pc] = "loop" /\ ~h.looped
        /\ h' = [h EXCEPT !.pc = LastRepeat + 1, !.looped = TRUE]
  /\ UNCHANGED temp /\ Keep

-----------------------------------------------------------------------------
(* Changes.                                                                 *)

Made(look) == [look |-> look, mine |-> TRUE, marked |-> FALSE]
Others(look) == [look |-> look, mine |-> FALSE, marked |-> FALSE]

\* exception.set creates a breakpoint without its name, conditional.set one with
\* its name and without its condition.
Apply(effect, t) ==
  CASE effect = "create" /\ t.look = "absent" -> Made("mine")
    [] effect = "createBare" /\ t.look = "absent" -> Made("bare")
    [] effect = "createPart" /\ t.look = "absent" -> Made("off")
    [] effect = "delete" -> Others("absent")
    [] effect = "enable" /\ t.look = "off" -> Made("mine")
    [] effect = "disable" /\ t.look = "mine" -> Made("off")
    [] effect = "write" -> Made("mine")
    [] OTHER -> t

\* DbgCmdExec: the command is queued, or refused at once.
Submit ==
  /\ At({"submit", "queue", "toggle"})
  /\ \/ /\ P.steps[h.pc] = "toggle" /\ h.seen \in P.want
        /\ Go(h) /\ UNCHANGED <<temp, queue>>
     \/ /\ P.steps[h.pc] = "toggle" => h.seen \notin P.want
        /\ \/ queue' = P.effect /\ Go([h EXCEPT !.submitted = TRUE]) /\ UNCHANGED temp
           \/ Finish("definite") /\ UNCHANGED queue
  /\ UNCHANGED <<snapshotVars, target, pausedGeneration, edits>>

\* x64dbg executes what is queued, whether or not anyone still waits.
Execute ==
  /\ queue # "none"
  /\ target' \in {target, Apply(queue, target)}
  /\ queue' = "none"
  /\ UNCHANGED <<snapshotVars, h, temp, pausedGeneration, edits>>

\* Mutant: the handler goes on as soon as the command is queued.
FenceAtOnce ==
  /\ At({"fence"})
  /\ Go(h) /\ UNCHANGED temp /\ Keep

\* submitFencedCommand: behind the command, or unconfirmed when the fence is
\* refused, the deadline passes or the plugin drains.
Fence ==
  /\ At({"fence"})
  /\ \/ queue = "none" /\ Go(h) /\ UNCHANGED temp
     \/ h.submitted /\ Finish("unknown")
  /\ Keep

\* Polling until the target looks as wanted, the deadline or the drain.
Poll ==
  /\ At({"poll"})
  /\ \/ target.look \in P.want /\ pluginState = "ready" /\ Go(HavingRead) /\ UNCHANGED temp
     \/ Finish("unknown")
  /\ Keep

\* Synchronous calls.  A refusal is an unknown outcome for the plain breakpoint
\* commands and definite for a memory write or a patch; a restore returns nothing.
Direct ==
  /\ At({"direct", "directUnlessAbsent", "directOrRefused", "directVoid", "setContext"})
  /\ LET op == P.steps[h.pc] IN
     \/ /\ target' = Apply(P.effect, target)
        /\ Go([h EXCEPT !.submitted = TRUE]) /\ UNCHANGED temp
     \/ /\ op = "directVoid" \/ (op = "directUnlessAbsent" /\ target.look = "absent")
        /\ Go([h EXCEPT !.submitted = TRUE]) /\ UNCHANGED <<target, temp>>
     \/ /\ op \in {"direct", "directUnlessAbsent", "setContext"}
        /\ Finish("unknown") /\ UNCHANGED target
     \/ /\ op \in {"directOrRefused", "setContext"}
        /\ Finish("definite")
        /\ target' \in {target} \cup (IF op = "setContext" THEN {Apply(P.effect, target)} ELSE {})
  /\ UNCHANGED <<snapshotVars, queue, pausedGeneration, edits>>

\* registers.write reads the thread context again; its errors are definite.
Recapture ==
  /\ At({"recapture"})
  /\ (Go(HavingRead) /\ UNCHANGED temp) \/ Finish("definite")
  /\ Keep

\* What was changed is read back.
Verify ==
  /\ At({"verify"})
  /\ IF target.look \in P.want THEN Go(HavingRead) /\ UNCHANGED temp ELSE Finish(Error)
  /\ Keep

\* analysis.function reads its marker after its last check, and finds none, or a
\* bad one, although the analysis ran.
Marker ==
  /\ At({"marker"})
  /\ \/ target.look \in P.want /\ Go(HavingRead) /\ UNCHANGED temp
     \/ Finish("definite")
  /\ Keep

\* The answer; an unchecked one, with the generation of its snapshot
\* (analysis.function) or of the moment (generation_.load()).
Ok ==
  /\ At(EndOps)
  /\ CASE P.steps[h.pc] = "ok" -> Finish("ok")
       [] P.steps[h.pc] = "okUnchecked" -> Finish("unchecked")
       [] OTHER -> FinishAt("unchecked", generation)
  /\ Keep

-----------------------------------------------------------------------------
(* Creation and clean-up of managed breakpoints.                            *)

StartCleanup == h' = [h EXCEPT !.cleanup = "look"]

\* exception.set names what it finds, its own or the user's: with the right chance
\* it now looks like the request's, enabled or not.  conditional.set gives what it
\* finds a condition, and its own then looks as requested.
AssignedLooks(look) ==
  IF h.method = "exception_set" THEN Managed \cup ({look} \cap {"foreign"})
  ELSE IF look = "off" THEN Managed ELSE {look}

Marked(t) == [t EXCEPT !.marked = ~t.mine]

\* A failed assignment of the name leaves no trace; of the two fields that
\* conditional.set writes the first may remain.
Assign ==
  /\ At({"assign"})
  /\ \/ /\ target.look # "absent"
        /\ \E look \in AssignedLooks(target.look) : target' = [Marked(target) EXCEPT !.look = look]
        /\ Go(h)
     \/ /\ \/ UNCHANGED target
           \/ /\ h.method = "conditional_set" /\ target.look # "absent"
              /\ target' = Marked(target)
        /\ StartCleanup
  /\ UNCHANGED <<snapshotVars, queue, temp, pausedGeneration, edits>>

HavingVerified == IF P.steps[h.pc] = "verifyOrCleanup" THEN HavingRead ELSE h

\* Mutant: the breakpoint stays where it is.
VerifyWithoutCleanup ==
  /\ At({"verifyOrCleanup", "checkOrCleanup"})
  /\ IF (IF P.steps[h.pc] = "verifyOrCleanup" THEN target.look \in P.want
         ELSE PausedSnapshotCurrent(h.snap))
     THEN Go(HavingVerified) /\ UNCHANGED temp ELSE Finish("definite")
  /\ Keep

VerifyOrCleanup ==
  /\ At({"verifyOrCleanup", "checkOrCleanup"})
  /\ IF (IF P.steps[h.pc] = "verifyOrCleanup" THEN target.look \in P.want
         ELSE PausedSnapshotCurrent(h.snap))
     THEN Go(HavingVerified) ELSE StartCleanup
  /\ UNCHANGED temp /\ Keep

\* What a clean-up's code means: 0 cleaned, 1 foreign, 2 unknown.
CleanedUp(code) ==
  CASE P.steps[h.pc] \in {"assign", "verifyOrCleanup"} -> Finish(IF code = 2 THEN "unknown" ELSE "definite")
    [] P.steps[h.pc] \in {"checkOrCleanup", "run"} -> Finish(IF code = 0 THEN "definite" ELSE "unknown")
    [] OTHER -> IF code = 0
                THEN h' = [h EXCEPT !.cleanup = "none", !.pc = @ + 1] /\ UNCHANGED temp
                ELSE Finish("unknown")

\* Mutant: whatever is found there is deleted.
CleanupLookAny ==
  /\ h.cleanup = "look"
  /\ h.result = "none"
  /\ IF target.look = "absent" THEN CleanedUp(0) /\ UNCHANGED queue
     ELSE /\ queue' = "delete"
          /\ h' = [h EXCEPT !.cleanup = "wait", !.seenEdits = edits]
          /\ UNCHANGED temp
  /\ UNCHANGED <<snapshotVars, target, pausedGeneration, edits>>

CleanupLook ==
  /\ h.cleanup = "look"
  /\ h.result = "none"
  /\ CASE target.look = "absent" -> CleanedUp(0) /\ UNCHANGED queue
       [] target.look \notin P.own \cup {"absent"} -> CleanedUp(1) /\ UNCHANGED queue
       [] OTHER -> \/ /\ queue' = "delete"
                      /\ h' = [h EXCEPT !.cleanup = "wait", !.seenEdits = edits]
                      /\ UNCHANGED temp
                   \/ CleanedUp(2) /\ UNCHANGED queue
  /\ UNCHANGED <<snapshotVars, target, pausedGeneration, edits>>

\* exception.set and conditional.set wait at the fence, run_to polls.
Fenced == h.method # "run_to"

CleanupWait ==
  /\ h.cleanup = "wait"
  /\ h.result = "none"
  /\ \/ target.look = "absent" /\ (Fenced => queue = "none") /\ CleanedUp(0)
     \/ target.look \notin P.own \cup {"absent"} /\ ~Fenced /\ CleanedUp(1)
     \/ CleanedUp(2)
  /\ Keep

-----------------------------------------------------------------------------
(* run_to.                                                                  *)

\* The thread is at the target already: an answer, without another check.
AlreadyThere ==
  /\ At({"alreadyThere"})
  /\ (Go(h) /\ UNCHANGED temp) \/ Finish("unchecked")
  /\ Keep

Run ==
  /\ At({"run"})
  /\ Go([h EXCEPT !.before = generation]) \/ StartCleanup
  /\ UNCHANGED temp /\ Keep

\* finalGeneration is known: nothing is left to wait for.
StoppedAt(g) == [h EXCEPT !.snap = g, !.reads = {}, !.before = 0]

\* The first wait ends with a drain, an exit (answered with the generation of the
\* debuggee's absence), a pause or its own timeout; after
\* a timeout the debuggee is paused for the clean-up, or is lost track of.
AwaitStop ==
  /\ At({"awaitStop"})
  /\ CASE pluginState # "ready" -> Finish("unknown")
       [] pluginState = "ready" /\ debuggee \in {"absent", "exited"} ->
            \/ debuggee = "absent" /\ FinishAt("unchecked", generation)
            \/ Finish("unknown")
       [] OTHER -> /\ UNCHANGED temp
                   /\ Go(IF pausedGeneration > h.before THEN StoppedAt(pausedGeneration)
                         ELSE [h EXCEPT !.before = generation])
  /\ Keep

PauseOrStop ==
  /\ At({"pauseOrStop"})
  /\ \/ /\ pausedGeneration > h.before /\ debuggee = "paused"
        /\ Go(IF h.before = 0 THEN h ELSE StoppedAt(pausedGeneration))
        /\ UNCHANGED temp
     \/ /\ h.before # 0 \/ debuggee # "paused"
        /\ Finish("unknown")
  /\ Keep

FinalCleanup ==
  /\ At({"cleanup"})
  /\ StartCleanup
  /\ UNCHANGED temp /\ Keep

-----------------------------------------------------------------------------
(* DumpMemory.                                                              *)

DumpStep ==
  /\ At({"createTemp", "writeTemp", "flushTemp", "publish"})
  /\ LET op == P.steps[h.pc]
         published == op = "publish" /\ target.look \in P.accept
     IN \/ /\ op = "publish" => published
           /\ Go(h)
           /\ temp' = CASE op = "createTemp" -> "partial"
                        [] op = "flushTemp" -> "whole"
                        [] op = "publish" -> "none"
                        [] OTHER -> temp
           /\ target' = IF published THEN Apply("write", target) ELSE target
        \/ Finish("definite") /\ UNCHANGED target
  /\ UNCHANGED <<snapshotVars, queue, pausedGeneration, edits>>

HandlerStep ==
  \/ Begin \/ Check \/ Read \/ Look \/ Loop \/ Ok
  \/ Submit \/ Fence \/ Poll \/ Direct \/ Recapture \/ Verify \/ Marker
  \/ Assign \/ VerifyOrCleanup \/ CleanupLook \/ CleanupWait
  \/ AlreadyThere \/ Run \/ AwaitStop \/ PauseOrStop \/ FinalCleanup
  \/ DumpStep

-----------------------------------------------------------------------------
(* The surroundings.                                                        *)

\* The debuggee runs, stops or exits.  A single-shot breakpoint of run_to is
\* gone when it was hit, any breakpoint when the session has ended.
Moves(next) ==
  /\ Observe(next)
  /\ <<debuggee, next>> \in {<<"paused", "running">>, <<"running", "paused">>, <<"paused", "paused">>,
                             <<"running", "exited">>, <<"exited", "absent">>}
  /\ pausedGeneration' = IF next = "paused" THEN generation + 1 ELSE pausedGeneration
  /\ \/ UNCHANGED target
     \/ /\ next = "absent" \/ (next = "paused" /\ h.method = "run_to" /\ target.mine)
        /\ target' = Others("absent")
  /\ UNCHANGED <<h, queue, temp, edits>>

UserEdits(look) ==
  /\ edits < MaxEdits
  /\ h.method # "none" /\ UsesTarget(h.method)
  /\ target.look # look
  /\ target' = Others(look)
  /\ edits' = edits + 1
  /\ UNCHANGED <<snapshotVars, h, queue, temp, pausedGeneration>>

Drains == Drain /\ UNCHANGED handlerVars

Next ==
  \/ \E m \in Calls, cursor \in 0..generation, look \in {"absent", "mine"} : Call(m, cursor, look)
  \/ HandlerStep
  \/ Execute
  \/ \E next \in DebuggeeStates : Moves(next)
  \/ \E look \in {"absent", "foreign", "bare"} : UserEdits(look)
  \/ Drains

Spec == Init /\ [][Next]_vars

-----------------------------------------------------------------------------
(* Properties.                                                              *)

\* Everything an answer reports, what was read back after a change included, was
\* read in the pause whose generation the answer carries, and all pages of one
\* cursor come from one pause.  Exempt are the answers whose last read no check
\* follows, of the handlers in Unchecked: memory.write and breakpoints.set and
\* remove read back and answer with the generation of the moment,
\* analysis.function reads its marker last, and run_to answers at once when the
\* thread is at its target or the process is gone.
AnswerIsOfOnePause ==
  /\ h.result = "ok" => h.reads \subseteq {h.snap} /\ h.cursor \in {0, h.snap}
  /\ h.result = "unchecked" => h.method \in Unchecked

\* After an answer or a definite error nothing of the call is still queued: a
\* later breakpoint of the user's is safe from it.  Only the polled hardware
\* and memory breakpoints, and run_to's clean-up, give no such promise.
SettledMeansDone ==
  h.result \in {"ok", "unchecked", "definite"} /\ h.method \notin Polled => queue = "none"

\* A definite error leaves nothing behind that this call made, and nothing of its
\* own on what it did not make, with two exceptions.  exception.set and
\* conditional.set leave their name or condition on a breakpoint that the user
\* put there after their look; and the handlers in Hasty call definite what they
\* did: registers.write a context it set and could not read back,
\* analysis.function an analysis after which it found no good marker.  (That
\* run_to has let the debuggee run is nothing left behind here: Backend, Hasty.)
DefiniteLeavesNothing ==
  h.result = "definite" /\ h.method \notin Hasty =>
    /\ ~target.mine
    /\ target.marked => edits > h.seenEdits

\* What a clean-up of exception.set takes for its own: a breakpoint of the user's
\* that it has named, or one without a name.
Adopted == h.method = "exception_set" /\ (target.marked \/ target.look = "bare")

\* A queued removal, a handler's own or that of a clean-up, destroys a foreign
\* breakpoint only if the user put it there after the handler had last looked;
\* and a clean-up destroys any breakpoint that this call did not make only then,
\* except that exception.set deletes one of the user's that it has adopted.
CleanupSparesForeign ==
  [][/\ queue = "delete" /\ queue' = "none" /\ target.look # "absent" /\ target'.look = "absent"
     /\ \/ target.look = "foreign"
        \/ P.effect # "delete" /\ ~target.mine /\ ~Adopted
     => edits > h.seenEdits]_vars

\* A dump replaces its destination only with the whole range, read in one pause,
\* and never leaves its temporary file behind.
DumpIsAtomic ==
  h.method \in Dumps =>
    /\ target.mine => h.result \in {"none", "ok"} /\ h.reads = {h.snap}
    /\ h.result # "none" => temp = "none"

=============================================================================
