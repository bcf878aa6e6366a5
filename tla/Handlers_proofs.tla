--------------------------- MODULE Handlers_proofs ---------------------------
(***************************************************************************)
(* Proofs about Handlers, for every handler of the table, any number of    *)
(* moves of the debuggee and of the user's edits.  The table enters by the *)
(* rules its programs keep (ProgramsKeepTheRules) and in no other way.     *)
(* The steps of a handler are first reduced to a few kinds (Ends, Goes,    *)
(* Jumps, and those of a clean-up); the invariant is shown for the kinds.  *)
(***************************************************************************)
EXTENDS Handlers, TLAPS

-----------------------------------------------------------------------------
(* The inductive invariant.                                                *)

Fields == {"method", "pc", "snap", "cursor", "cursorLook", "reads", "seen", "seenEdits",
           "submitted", "looped", "before", "cleanup", "result"}

Steps == P.steps
Op == P.steps[h.pc]

\* A target: what the handler made it has not marked.
Shaped(t) ==
  /\ DOMAIN t = {"look", "mine", "marked"}
  /\ t.look \in Looks /\ t.mine \in BOOLEAN /\ t.marked \in BOOLEAN
  /\ t.look = "absent" => ~t.mine /\ ~t.marked
  /\ t.mine => ~t.marked

\* Where a handler can be, and what its surroundings look like.
HandlerShape ==
  /\ DOMAIN h = Fields
  /\ h.pc \in Nat /\ h.snap \in Nat /\ h.seenEdits \in Nat /\ h.submitted \in BOOLEAN
  /\ h.cleanup \in {"none", "look", "wait"}
  /\ h.result \in {"none", "ok", "unchecked", "definite", "unknown"}
  /\ generation \in Nat /\ pausedGeneration \in Nat /\ pausedGeneration <= generation
  /\ edits \in Nat /\ h.seenEdits <= edits
  /\ Shaped(target)
  /\ h.method = "none" => /\ h.pc = 0 /\ h.result = "none" /\ h.cleanup = "none"
                          /\ queue = "none" /\ temp = "none" /\ ~target.mine /\ ~target.marked
  /\ h.method # "none" => h.method \in DOMAIN Program /\ h.pc \in 1..Len(Steps)
  /\ h.result = "none" /\ h.cleanup # "none" => Op \in CleanupOps
  /\ h.result # "none" => temp = "none"

\* What was read lies between the snapshot and now, and behind a check it is of
\* the snapshot.
ReadsInv ==
  /\ h.pc < 2 => h.reads = {}
  /\ h.snap <= generation
  /\ \A r \in h.reads : r \in Nat /\ (h.result # "unchecked" => h.snap <= r) /\ r <= generation
  /\ h.result = "unchecked" => h.method \in Unchecked
  /\ h.result = "ok" => h.reads \subseteq {h.snap}
  /\ h.method # "none" /\ h.result = "none" /\ Sealed(Steps, h.pc) => h.reads \subseteq {h.snap}

\* A handler that is past its cursor's check has a cursor of its snapshot.
CursorInv ==
  h.method # "none" =>
    /\ h.cursor # 0 => \E i \in 1..Len(Steps) : Steps[i] = "cursor"
    /\ h.result = "none" /\ Behind(Steps, h.pc, {"cursor"}) => h.cursor \in {0, h.snap}
    /\ h.result = "ok" => h.cursor \in {0, h.snap}

\* Where a command can be waiting.  One that creates something belongs to a
\* handler that will not call its failure definite.
QueueInv ==
  queue # "none" =>
    /\ queue \in {"delete", P.effect}
    /\ h.method \notin Dumps
    /\ h.result = "none" => Behind(Steps, h.pc, QueueOps)
    /\ h.method \notin Polled =>
         \/ h.result = "unknown"
         \/ h.result = "none" /\ h.cleanup = "wait"
         \/ h.result = "none" /\ h.cleanup = "none" /\ Op = "fence"
    /\ queue # "delete" =>
         /\ h.submitted /\ h.result # "definite"
         /\ h.result = "none" => /\ h.cleanup = "none" /\ Loaded(Steps, h.pc)
                                 /\ Op = "fence" \/ Behind(Steps, h.pc, {"queue"})

\* A removal that waits was decided on what was no foreign breakpoint then.
SparesInv ==
  target.look = "foreign" =>
    /\ queue = "delete" => edits > h.seenEdits
    /\ /\ h.method # "none" /\ h.result = "none"
       /\ P.effect = "delete" /\ "foreign" \notin P.accept /\ Behind(Steps, h.pc, {"look"})
       => edits > h.seenEdits

\* What the handler made is of its kind, and leaves no room for a definite error.
OwnInv ==
  target.mine /\ h.method \notin Hasty =>
    /\ target.look \in MadeBy(P.effect)
    /\ h.result # "definite"
    /\ h.result = "none" => Loaded(Steps, h.pc) /\ (h.submitted \/ Op = "ok")

\* What a handler that cleans up did not make came after its look; what bears the
\* request's name it made, or it is exception.set and named it.  So its removal
\* that waits is of its own, or adopted, or came later.
MarkInv ==
  /\ target.marked => /\ h.method \in Assigners
                      /\ h.result = "none" => Behind(Steps, h.pc, QueueOps)
                      /\ h.result = "none" /\ h.cleanup # "wait" => edits > h.seenEdits
                      /\ h.result = "definite" => edits > h.seenEdits
  /\ /\ h.method # "none" /\ P.own # {} /\ Behind(Steps, h.pc, {"look"}) /\ target.look # "absent"
     => /\ h.result = "none" /\ h.cleanup # "wait" /\ ~target.mine => edits > h.seenEdits
        /\ target.look \in {"mine", "off"} =>
             target.mine \/ (target.marked /\ h.method = "exception_set")
  /\ queue = "delete" /\ P.effect # "delete" =>
       /\ P.own # {}
       /\ target.look # "absent" /\ ~target.mine /\ ~Adopted => edits > h.seenEdits

\* A dump has published only what it read in one pause.
DumpInv ==
  h.method \in Dumps =>
    /\ Behind(Steps, h.pc, {"read"}) => h.reads # {}
    /\ target.mine => /\ h.result \in {"none", "ok"} /\ h.reads = {h.snap}
                      /\ h.result = "none" => Op = "ok"

HandlerInv ==
  HandlerShape /\ ReadsInv /\ CursorInv /\ QueueInv /\ SparesInv /\ OwnInv /\ MarkInv /\ DumpInv

-----------------------------------------------------------------------------
(* The kinds of steps.                                                     *)

Alike == DOMAIN h' = Fields /\ h'.method = h.method /\ h'.cursor = h.cursor
Still == UNCHANGED <<snapshotVars, pausedGeneration, edits>>

\* The handler answers.
Ended(r) ==
  /\ Alike /\ Still /\ queue' = queue /\ temp' = "none"
  /\ h'.result = r /\ h'.pc = h.pc /\ h'.reads = h.reads
  /\ h'.snap = h.snap \/ (h'.snap = generation /\ r = "unchecked")
  /\ h'.seenEdits = h.seenEdits /\ h'.submitted = h.submitted /\ h'.cleanup = h.cleanup

UncheckedOps == {"okNow", "okUnchecked", "alreadyThere", "awaitStop"}

Ends(r) ==
  /\ Running /\ Ended(r)
  /\ target' = target \/ (target' = Apply(P.effect, target) /\ Op = "setContext")
  /\ r \in {"ok", "unchecked", "definite", "unknown"}
  /\ r = "ok" <=> Op = "ok"
  /\ r = "unchecked" => Op \in UncheckedOps
  /\ r = "definite" => /\ Op \notin {"fence", "poll"} \cup EndOps \cup StopOps \cup CleanupOps
                       /\ Op \in {"verify", "checkDone"} => ~h.submitted

\* It takes its next step: what this means for what it has read, for the queue
\* and for the target.
GoesReading ==
  /\ \/ h'.snap = h.snap /\ h'.reads = h.reads /\ Op \notin ReadOps \cup {"begin", "beginActive"}
     \/ h'.snap = h.snap /\ h'.reads = h.reads \cup {generation} /\ Op \in ReadOps
     \/ h'.snap = generation /\ h'.reads = h.reads /\ Op \in {"begin", "beginActive"}
     \/ h'.snap = pausedGeneration /\ h'.reads = {} /\ Op \in StopOps
  /\ Op \in SealOps => generation = h.snap
  /\ Op = "cursor" => h.cursor \in {0, h.snap}
  /\ \/ h'.seenEdits = h.seenEdits /\ Op # "look"
     \/ h'.seenEdits = edits /\ Op = "look" /\ target.look \in P.accept

\* What is there is named or completed: what the handler did not make is marked.
Assigns(look) ==
  /\ Op = "assign" /\ target.look # "absent"
  /\ DOMAIN target' = {"look", "mine", "marked"}
  /\ target'.look = look /\ target'.mine = target.mine /\ target'.marked = ~target.mine

GoesChanging ==
  /\ \/ queue' = queue
     \/ queue' = P.effect /\ Op \in QueueOps /\ h'.submitted
  /\ Op = "fence" => queue = "none"
  /\ \/ target' = target
     \/ target' = Apply(P.effect, target) /\ Op \in DirectOps /\ h'.submitted
     \/ target' = Apply("write", target) /\ Op = "publish"
     \/ \E look \in AssignedLooks(target.look) : Assigns(look)
  /\ h'.submitted \in BOOLEAN /\ (h.submitted => h'.submitted)

Goes ==
  /\ Running /\ Alike /\ Still
  /\ Op \notin EndOps \cup {"cleanup"}
  /\ h'.pc = h.pc + 1 /\ h'.result = "none" /\ h'.cleanup = "none"
  /\ GoesReading /\ GoesChanging

\* It goes back to a loop's beginning, or starts to clean up.
Turned ==
  /\ Running /\ Alike /\ Still /\ UNCHANGED <<queue, temp>>
  /\ h'.result = "none" /\ h'.snap = h.snap /\ h'.reads = h.reads
  /\ h'.seenEdits = h.seenEdits /\ h'.submitted = h.submitted

Jumps == Turned /\ target' = target /\ Op = "loop" /\ h'.pc = LastRepeat + 1 /\ h'.cleanup = "none"
Cleans ==
  /\ Turned /\ Op \in CleanupOps /\ h'.pc = h.pc /\ h'.cleanup = "look"
  /\ target' = target \/ Assigns(target.look)

\* A clean-up ends, well or not, or queues its removal.
Cleaning == h.result = "none" /\ h.cleanup # "none"
Waited == h.cleanup = "look" \/ h.method = "run_to" \/ queue = "none"

CleanEnds(r) ==
  /\ Cleaning /\ Ended(r) /\ target' = target
  /\ r \in {"definite", "unknown"}
  /\ r = "definite" => /\ Waited
                       /\ \/ target.look = "absent"
                          \/ /\ Op \in {"assign", "verifyOrCleanup"} /\ target.look \notin P.own
                             /\ h.cleanup = "look" \/ h.method = "run_to"

CleanMoves ==
  /\ Cleaning /\ Alike /\ Still /\ target' = target /\ temp' = temp
  /\ h'.result = "none" /\ h'.snap = h.snap /\ h'.reads = h.reads /\ h'.submitted = h.submitted

CleanGoes ==
  /\ CleanMoves /\ Waited /\ queue' = queue
  /\ Op = "cleanup" /\ target.look = "absent"
  /\ h'.pc = h.pc + 1 /\ h'.cleanup = "none" /\ h'.seenEdits = h.seenEdits

CleanQueues ==
  /\ CleanMoves /\ queue' = "delete" /\ target.look \in P.own
  /\ h'.pc = h.pc /\ h'.cleanup = "wait" /\ h'.seenEdits = edits

HandlerMoves ==
  \/ \E r \in {"ok", "unchecked", "definite", "unknown"} : Ends(r)
  \/ Goes \/ Jumps \/ Cleans
  \/ \E r \in {"definite", "unknown"} : CleanEnds(r)
  \/ CleanGoes \/ CleanQueues

\* A return changes the result and removes the temporary file.
LEMMA FinishIs ==
  ASSUME HandlerShape, NEW r, Finish(r), Still, queue' = queue
  PROVE  Ended(r)
<1>1. DOMAIN h = Fields
  BY DEF HandlerShape
<1>2. h' = [h EXCEPT !.result = r] /\ temp' = "none"
  BY DEF Finish
<1> QED
  BY <1>1, <1>2 DEF Ended, Alike, Fields

\* So does one with another generation.
LEMMA FinishAtIs ==
  ASSUME HandlerShape, FinishAt("unchecked", generation), Still, queue' = queue
  PROVE  Ended("unchecked")
<1>1. DOMAIN h = Fields
  BY DEF HandlerShape
<1>2. h' = [h EXCEPT !.result = "unchecked", !.snap = generation] /\ temp' = "none"
  BY DEF FinishAt
<1> QED
  BY <1>1, <1>2 DEF Ended, Alike, Fields

\* Going on changes the position only.
LEMMA GoIs ==
  ASSUME NEW g, DOMAIN g = Fields, Go(g)
  PROVE  /\ DOMAIN h' = Fields /\ h'.method = g.method /\ h'.cursor = g.cursor /\ h'.pc = g.pc + 1
         /\ h'.snap = g.snap /\ h'.reads = g.reads /\ h'.seenEdits = g.seenEdits
         /\ h'.submitted = g.submitted /\ h'.cleanup = g.cleanup /\ h'.result = g.result
BY DEF Go, Fields

\* g is the handler, but for what only its next step looks at.
Like(g) ==
  /\ DOMAIN g = Fields /\ g.method = h.method /\ g.cursor = h.cursor /\ g.pc = h.pc
  /\ g.snap = h.snap /\ g.reads = h.reads /\ g.seenEdits = h.seenEdits
  /\ g.submitted = h.submitted /\ g.cleanup = h.cleanup /\ g.result = h.result

\* Such changes.
LEMMA AlikeHandlers ==
  ASSUME HandlerShape, NEW x
  PROVE  Like(h) /\ Like([h EXCEPT !.looped = x]) /\ Like([h EXCEPT !.before = x])
<1>1. DOMAIN h = Fields
  BY DEF HandlerShape
<1>2. Like(h)
  BY <1>1 DEF Like
<1>3. Like([h EXCEPT !.looped = x])
  BY <1>1 DEF Like, Fields
<1>4. Like([h EXCEPT !.before = x])
  BY <1>1 DEF Like, Fields
<1> QED
  BY <1>2, <1>3, <1>4

\* Going on with nothing read, changed or looked at.
LEMMA PlainGo ==
  ASSUME HandlerShape, Running, NEW g, Like(g), Go(g), Still, queue' = queue, target' = target,
         Op \notin ReadOps \cup EndOps \cup {"begin", "beginActive", "look", "cleanup"},
         Op \in SealOps => generation = h.snap,
         Op = "cursor" => h.cursor \in {0, h.snap},
         Op = "fence" => queue = "none"
  PROVE  HandlerMoves
<1>1. h.submitted \in BOOLEAN
  BY DEF HandlerShape
<1>2. Goes
  BY <1>1, GoIs DEF Goes, GoesReading, GoesChanging, Like, Alike, Running
<1> QED
  BY <1>2 DEF HandlerMoves

\* Going on after a read.
LEMMA ReadGo ==
  ASSUME HandlerShape, Running, Go(HavingRead), Still, queue' = queue, target' = target,
         Op \in ReadOps
  PROVE  HandlerMoves
<1> DEFINE g == HavingRead
<1>0. DOMAIN h = Fields /\ h.submitted \in BOOLEAN
  BY DEF HandlerShape
<1>1. /\ DOMAIN g = Fields /\ g.method = h.method /\ g.cursor = h.cursor /\ g.pc = h.pc
      /\ g.snap = h.snap /\ g.reads = h.reads \cup {generation} /\ g.seenEdits = h.seenEdits
      /\ g.submitted = h.submitted /\ g.cleanup = h.cleanup /\ g.result = h.result
  BY <1>0 DEF Fields, HavingRead
<1>2. Go(g)
  OBVIOUS
<1> HIDE DEF g
<1>3. Op \notin EndOps \cup SealOps \cup {"cleanup", "cursor", "fence", "look"}
  BY DEF ReadOps, EndOps, SealOps
<1>4. Goes
  BY <1>0, <1>1, <1>2, <1>3, GoIs DEF Goes, GoesReading, GoesChanging, Alike, Running
<1> QED
  BY <1>4 DEF HandlerMoves

\* Keep, unpacked.
LEMMA KeepIs ==
  ASSUME Keep
  PROVE  Still /\ queue' = queue /\ target' = target
BY DEF Keep, Still

\* Ending with what the step allows.
LEMMA PlainEnd ==
  ASSUME HandlerShape, Running, Still, queue' = queue, target' = target,
         NEW r \in {"ok", "unchecked", "definite", "unknown"}, Finish(r),
         r = "ok" <=> Op = "ok",
         r = "unchecked" => Op \in UncheckedOps,
         r = "definite" => /\ Op \notin {"fence", "poll"} \cup EndOps \cup StopOps \cup CleanupOps
                           /\ Op \in {"verify", "checkDone"} => ~h.submitted
  PROVE  HandlerMoves
<1>1. Ended(r)
  BY FinishIs
<1>2. Ends(r)
  BY <1>1 DEF Ends
<1> QED
  BY <1>2 DEF HandlerMoves

\* Begin, Check, Read and Look.
LEMMA QueryMoves ==
  ASSUME HandlerShape, Begin \/ Check \/ Read \/ Look
  PROVE  HandlerMoves
<1> USE DEF CheckOps, ReadOps, SealOps, StopOps, EndOps, CleanupOps, QueueOps, DirectOps
<1>0. DOMAIN h = Fields /\ h.submitted \in BOOLEAN
  BY DEF HandlerShape
<1>1. CASE Begin
  <2>1. Running /\ Op \in {"begin", "beginActive"} /\ Keep
    BY <1>1 DEF Begin, At, Op
  <2>2. Still /\ queue' = queue /\ target' = target
    BY <2>1, KeepIs
  <2>3. CASE Finish("definite")
    BY <2>1, <2>2, <2>3, PlainEnd
  <2>4. CASE Go([h EXCEPT !.snap = generation])
    <3> DEFINE g == [h EXCEPT !.snap = generation]
    <3>1. /\ DOMAIN g = Fields /\ g.method = h.method /\ g.cursor = h.cursor /\ g.pc = h.pc
          /\ g.snap = generation /\ g.reads = h.reads /\ g.seenEdits = h.seenEdits
          /\ g.submitted = h.submitted /\ g.cleanup = h.cleanup /\ g.result = h.result
      BY <1>0 DEF Fields
    <3>2. Go(g)
      BY <2>4
    <3> HIDE DEF g
    <3>3. Goes
      BY <1>0, <2>1, <2>2, <3>1, <3>2, GoIs DEF Goes, GoesReading, GoesChanging, Alike, Running
    <3> QED
      BY <3>3 DEF HandlerMoves
  <2> QED
    BY <1>1, <2>3, <2>4 DEF Begin
<1>2. CASE Check
  <2>1. Running /\ Op \in CheckOps /\ Keep
    BY <1>2 DEF Check, At, Op
  <2>2. Still /\ queue' = queue /\ target' = target
    BY <2>1, KeepIs
  <2>3. CASE Finish(IF Op = "checkDone" THEN Error ELSE "definite")
    <3>1. CASE Op = "checkDone" /\ h.submitted
      <4>1. Finish("unknown")
        BY <2>3, <3>1 DEF Error
      <4> QED
        BY <2>1, <2>2, <4>1, PlainEnd
    <3>2. CASE Op # "checkDone" \/ ~h.submitted
      <4>1. Finish("definite")
        BY <2>3, <3>2 DEF Error
      <4> QED
        BY <2>1, <2>2, <3>2, <4>1, PlainEnd
    <3> QED
      BY <3>1, <3>2
  <2>4. CASE Holds(Op) /\ Go(h)
    <3>1. Op \in SealOps => generation = h.snap
      BY <2>1, <2>4 DEF Holds, PausedSnapshotCurrent, ActiveSnapshotCurrent
    <3>2. Op = "cursor" => h.cursor \in {0, h.snap}
      BY <2>4 DEF Holds
    <3>3. Like(h)
      BY AlikeHandlers
    <3> QED
      BY <2>1, <2>2, <2>4, <3>1, <3>2, <3>3, PlainGo
  <2> QED
    BY <1>2, <2>3, <2>4 DEF Check, Op
<1>3. CASE Read
  <2>1. Running /\ Op \in {"read", "readSome", "lastRead"} /\ Keep
    BY <1>3 DEF Read, At, Op
  <2>2. Still /\ queue' = queue /\ target' = target
    BY <2>1, KeepIs
  <2>3. CASE Finish("definite")
    BY <2>1, <2>2, <2>3, PlainEnd
  <2>4. CASE Go(HavingRead)
    BY <2>1, <2>2, <2>4, ReadGo
  <2> QED
    BY <1>3, <2>3, <2>4 DEF Read
<1>4. CASE Look
  <2>1. Running /\ Op = "look" /\ Keep
    BY <1>4 DEF Look, At, Op
  <2>2. Still /\ queue' = queue /\ target' = target
    BY <2>1, KeepIs
  <2>3. CASE Finish("definite")
    BY <2>1, <2>2, <2>3, PlainEnd
  <2>4. CASE target.look \in P.accept /\ Go([h EXCEPT !.seen = target.look, !.seenEdits = edits])
    <3> DEFINE g == [h EXCEPT !.seen = target.look, !.seenEdits = edits]
    <3>1. /\ DOMAIN g = Fields /\ g.method = h.method /\ g.cursor = h.cursor /\ g.pc = h.pc
          /\ g.snap = h.snap /\ g.reads = h.reads /\ g.seenEdits = edits
          /\ g.submitted = h.submitted /\ g.cleanup = h.cleanup /\ g.result = h.result
      BY <1>0 DEF Fields
    <3>2. Go(g)
      BY <2>4
    <3> HIDE DEF g
    <3>3. Goes
      BY <1>0, <2>1, <2>2, <2>4, <3>1, <3>2, GoIs
      DEF Goes, GoesReading, GoesChanging, Alike, Running
    <3> QED
      BY <3>3 DEF HandlerMoves
  <2> QED
    BY <1>4, <2>3, <2>4 DEF Look
<1> QED
  BY <1>1, <1>2, <1>3, <1>4

\* Loop and Ok.
LEMMA LoopMoves ==
  ASSUME HandlerShape, Loop \/ Ok
  PROVE  HandlerMoves
<1> USE DEF ReadOps, SealOps, StopOps, EndOps, CleanupOps
<1>0. DOMAIN h = Fields
  BY DEF HandlerShape
<1>1. CASE Loop
  <2>1. Running /\ Op \in {"repeat", "loop"} /\ Keep /\ temp' = temp
    BY <1>1 DEF Loop, At, Op
  <2>2. Still /\ queue' = queue /\ target' = target
    BY <2>1, KeepIs
  <2>3. CASE Go([h EXCEPT !.looped = FALSE])
    <3>1. Like([h EXCEPT !.looped = FALSE])
      BY AlikeHandlers
    <3> QED
      BY <2>1, <2>2, <2>3, <3>1, PlainGo
  <2>4. CASE Op = "loop" /\ h' = [h EXCEPT !.pc = LastRepeat + 1, !.looped = TRUE]
    <3>1. /\ Alike /\ h'.result = h.result /\ h'.snap = h.snap /\ h'.reads = h.reads
          /\ h'.seenEdits = h.seenEdits /\ h'.submitted = h.submitted /\ h'.cleanup = h.cleanup
          /\ h'.pc = LastRepeat + 1
      BY <1>0, <2>4 DEF Alike, Fields
    <3>2. Jumps
      BY <2>1, <2>2, <2>4, <3>1 DEF Jumps, Turned, Running
    <3> QED
      BY <3>2 DEF HandlerMoves
  <2> QED
    BY <1>1, <2>3, <2>4 DEF Loop, Op
<1>2. CASE Ok
  <2>1. Running /\ Op \in EndOps /\ Keep
    BY <1>2 DEF Ok, At, Op
  <2>2. Still /\ queue' = queue /\ target' = target
    BY <2>1, KeepIs
  <2>3. CASE Op = "ok"
    <3>1. Finish("ok")
      BY <1>2, <2>3 DEF Ok, Op
    <3> QED
      BY <2>1, <2>2, <2>3, <3>1, PlainEnd
  <2>4. CASE Op = "okUnchecked"
    <3>1. Finish("unchecked")
      BY <1>2, <2>4 DEF Ok, Op
    <3> QED
      BY <2>1, <2>2, <2>4, <3>1, PlainEnd DEF UncheckedOps
  <2>5. CASE Op = "okNow"
    <3>1. FinishAt("unchecked", generation)
      BY <1>2, <2>5 DEF Ok, Op
    <3>2. Ends("unchecked")
      BY <2>1, <2>2, <2>5, <3>1, FinishAtIs DEF Ends, UncheckedOps
    <3> QED
      BY <3>2 DEF HandlerMoves
  <2> QED
    BY <2>1, <2>3, <2>4, <2>5
<1> QED
  BY <1>1, <1>2

\* Submit.
LEMMA SubmitMoves ==
  ASSUME HandlerShape, Submit
  PROVE  HandlerMoves
<1> USE DEF ReadOps, SealOps, StopOps, EndOps, CleanupOps, QueueOps, DirectOps
<1>0. DOMAIN h = Fields
  BY DEF HandlerShape
<1>1. Running /\ Op \in QueueOps /\ Still /\ target' = target
  BY DEF Submit, At, Op, Still
<1>2. CASE Go(h) /\ queue' = queue
  BY <1>1, <1>2, AlikeHandlers, PlainGo
<1>3. CASE Finish("definite") /\ queue' = queue
  BY <1>1, <1>3, PlainEnd
<1>4. CASE queue' = P.effect /\ Go([h EXCEPT !.submitted = TRUE])
  <2> DEFINE g == [h EXCEPT !.submitted = TRUE]
  <2>1. /\ DOMAIN g = Fields /\ g.method = h.method /\ g.cursor = h.cursor /\ g.pc = h.pc
        /\ g.snap = h.snap /\ g.reads = h.reads /\ g.seenEdits = h.seenEdits
        /\ g.submitted = TRUE /\ g.cleanup = h.cleanup /\ g.result = h.result
    BY <1>0 DEF Fields
  <2>2. Go(g)
    BY <1>4
  <2> HIDE DEF g
  <2>3. Goes
    BY <1>1, <1>4, <2>1, <2>2, GoIs DEF Goes, GoesReading, GoesChanging, Alike, Running
  <2> QED
    BY <2>3 DEF HandlerMoves
<1> QED
  BY <1>2, <1>3, <1>4 DEF Submit

\* Direct.
LEMMA DirectMoves ==
  ASSUME HandlerShape, Direct
  PROVE  HandlerMoves
<1> USE DEF ReadOps, SealOps, StopOps, EndOps, CleanupOps, QueueOps, DirectOps
<1>0. DOMAIN h = Fields
  BY DEF HandlerShape
<1>1. Running /\ Op \in DirectOps /\ Still /\ queue' = queue
  BY DEF Direct, At, Op, Still
<1>2. CASE /\ target' = target \/ target' = Apply(P.effect, target)
           /\ Go([h EXCEPT !.submitted = TRUE])
  <2> DEFINE g == [h EXCEPT !.submitted = TRUE]
  <2>1. /\ DOMAIN g = Fields /\ g.method = h.method /\ g.cursor = h.cursor /\ g.pc = h.pc
        /\ g.snap = h.snap /\ g.reads = h.reads /\ g.seenEdits = h.seenEdits
        /\ g.submitted = TRUE /\ g.cleanup = h.cleanup /\ g.result = h.result
    BY <1>0 DEF Fields
  <2>2. Go(g)
    BY <1>2
  <2> HIDE DEF g
  <2>3. Goes
    BY <1>1, <1>2, <2>1, <2>2, GoIs DEF Goes, GoesReading, GoesChanging, Alike, Running
  <2> QED
    BY <2>3 DEF HandlerMoves
<1>3. CASE Finish("unknown") /\ target' = target
  BY <1>1, <1>3, PlainEnd
<1>4. CASE /\ Finish("definite")
           /\ target' = target \/ (target' = Apply(P.effect, target) /\ Op = "setContext")
  <2>1. Ended("definite")
    BY <1>1, <1>4, FinishIs
  <2>2. Ends("definite")
    BY <1>1, <1>4, <2>1 DEF Ends
  <2> QED
    BY <2>2 DEF HandlerMoves
<1> QED
  BY <1>2, <1>3, <1>4 DEF Direct, Op

\* Fence, Poll, Recapture, Verify and Marker.
LEMMA WaitMoves ==
  ASSUME HandlerShape, Fence \/ Poll \/ Recapture \/ Verify \/ Marker
  PROVE  HandlerMoves
<1> USE DEF ReadOps, SealOps, StopOps, EndOps, CleanupOps
<1>1. Like(h) /\ h.submitted \in BOOLEAN
  BY AlikeHandlers DEF HandlerShape
<1>2. Running /\ Still /\ queue' = queue /\ target' = target
  BY KeepIs DEF Fence, Poll, Recapture, Verify, Marker, At
<1>3. CASE Fence
  <2>1. Op = "fence" /\ ((queue = "none" /\ Go(h)) \/ Finish("unknown"))
    BY <1>3 DEF Fence, At, Op
  <2> QED
    BY <1>1, <1>2, <2>1, PlainGo, PlainEnd
<1>4. CASE Poll
  <2>1. Op = "poll" /\ (Go(HavingRead) \/ Finish("unknown"))
    BY <1>4 DEF Poll, At, Op
  <2> QED
    BY <1>2, <2>1, ReadGo, PlainEnd
<1>5. CASE Recapture
  <2>1. Op = "recapture" /\ (Go(HavingRead) \/ Finish("definite"))
    BY <1>5 DEF Recapture, At, Op
  <2> QED
    BY <1>2, <2>1, ReadGo, PlainEnd
<1>6. CASE Verify
  <2>1. Op = "verify" /\ (Go(HavingRead) \/ Finish(Error))
    BY <1>6 DEF Verify, At, Op
  <2>2. CASE Go(HavingRead)
    BY <1>2, <2>1, <2>2, ReadGo
  <2>3. CASE Finish(Error) /\ h.submitted
    <3>1. Finish("unknown")
      BY <2>3 DEF Error
    <3> QED
      BY <1>2, <2>1, <3>1, PlainEnd
  <2>4. CASE Finish(Error) /\ ~h.submitted
    <3>1. Finish("definite")
      BY <2>4 DEF Error
    <3> QED
      BY <1>2, <2>1, <2>4, <3>1, PlainEnd
  <2> QED
    BY <1>1, <2>1, <2>2, <2>3, <2>4
<1>7. CASE Marker
  <2>1. Op = "marker" /\ (Go(HavingRead) \/ Finish("definite"))
    BY <1>7 DEF Marker, At, Op
  <2> QED
    BY <1>2, <2>1, ReadGo, PlainEnd
<1> QED
  BY <1>3, <1>4, <1>5, <1>6, <1>7

\* The clean-up begins.
LEMMA StartCleanupMoves ==
  ASSUME HandlerShape, Running, Op \in CleanupOps, StartCleanup,
         Still, queue' = queue, temp' = temp, target' = target \/ Assigns(target.look)
  PROVE  HandlerMoves
<1>1. DOMAIN h = Fields
  BY DEF HandlerShape
<1>2. /\ Alike /\ h'.result = h.result /\ h'.snap = h.snap /\ h'.reads = h.reads
      /\ h'.seenEdits = h.seenEdits /\ h'.submitted = h.submitted /\ h'.cleanup = "look"
      /\ h'.pc = h.pc
  BY <1>1 DEF StartCleanup, Alike, Fields
<1>3. Cleans
  BY <1>2 DEF Cleans, Turned, Running
<1> QED
  BY <1>3 DEF HandlerMoves

\* Assign.
LEMMA AssignMoves ==
  ASSUME HandlerShape, Assign
  PROVE  HandlerMoves
<1> USE DEF ReadOps, SealOps, StopOps, EndOps, CleanupOps, QueueOps, DirectOps
<1>0. Like(h) /\ h.submitted \in BOOLEAN
  BY AlikeHandlers DEF HandlerShape
<1>1. Running /\ Op = "assign" /\ Still /\ queue' = queue /\ temp' = temp
  BY DEF Assign, At, Op, Still
<1>2. Shaped(target)
  BY DEF HandlerShape
<1>3. CASE StartCleanup /\ target' = target
  BY <1>1, <1>3, StartCleanupMoves
<1>4. CASE StartCleanup /\ target.look # "absent" /\ target' = Marked(target)
  <2>1. Assigns(target.look)
    BY <1>1, <1>2, <1>4 DEF Assigns, Marked, Shaped
  <2> QED
    BY <1>1, <1>4, <2>1, StartCleanupMoves
<1>5. ASSUME NEW look \in AssignedLooks(target.look), Go(h), target.look # "absent",
             target' = [Marked(target) EXCEPT !.look = look]
      PROVE  HandlerMoves
  <2>1. Assigns(look)
    BY <1>1, <1>2, <1>5 DEF Assigns, Marked, Shaped
  <2>2. GoesReading /\ GoesChanging
    BY <1>0, <1>1, <1>5, <2>1, GoIs DEF GoesReading, GoesChanging, Like
  <2>3. Goes
    BY <1>0, <1>1, <1>5, <2>2, GoIs DEF Goes, Like, Alike, Running
  <2> QED
    BY <2>3 DEF HandlerMoves
<1> QED
  BY <1>3, <1>4, <1>5 DEF Assign

\* VerifyOrCleanup, Run, FinalCleanup and AlreadyThere.
LEMMA RunToMoves ==
  ASSUME HandlerShape, VerifyOrCleanup \/ Run \/ FinalCleanup \/ AlreadyThere
  PROVE  HandlerMoves
<1> USE DEF ReadOps, SealOps, StopOps, EndOps, CleanupOps, QueueOps, DirectOps
<1>1. Like(h) /\ Like([h EXCEPT !.before = generation])
  BY AlikeHandlers
<1>2. Running /\ Still /\ queue' = queue /\ target' = target
  BY KeepIs DEF VerifyOrCleanup, Run, FinalCleanup, AlreadyThere, At
<1>3. CASE VerifyOrCleanup
  <2>1. Op \in {"verifyOrCleanup", "checkOrCleanup"} /\ temp' = temp
    BY <1>3 DEF VerifyOrCleanup, At, Op
  <2>2. CASE StartCleanup
    BY <1>2, <2>1, <2>2, StartCleanupMoves
  <2>3. CASE Go(h) /\ Op = "checkOrCleanup" /\ PausedSnapshotCurrent(h.snap)
    <3>1. generation = h.snap
      BY <2>3 DEF PausedSnapshotCurrent
    <3> QED
      BY <1>1, <1>2, <2>3, <3>1, PlainGo
  <2>4. CASE Go(HavingRead) /\ Op = "verifyOrCleanup"
    BY <1>2, <2>4, ReadGo
  <2> QED
    BY <1>3, <2>1, <2>2, <2>3, <2>4 DEF VerifyOrCleanup, HavingVerified, Op
<1>4. CASE Run
  <2>1. Op = "run" /\ temp' = temp /\ (Go([h EXCEPT !.before = generation]) \/ StartCleanup)
    BY <1>4 DEF Run, At, Op
  <2>2. CASE StartCleanup
    BY <1>2, <2>1, <2>2, StartCleanupMoves
  <2>3. CASE Go([h EXCEPT !.before = generation])
    BY <1>1, <1>2, <2>1, <2>3, PlainGo
  <2> QED
    BY <2>1, <2>2, <2>3
<1>5. CASE FinalCleanup
  <2>1. Op = "cleanup" /\ temp' = temp /\ StartCleanup
    BY <1>5 DEF FinalCleanup, At, Op
  <2> QED
    BY <1>2, <2>1, StartCleanupMoves
<1>6. CASE AlreadyThere
  <2>1. Op = "alreadyThere" /\ (Go(h) \/ Finish("unchecked"))
    BY <1>6 DEF AlreadyThere, At, Op
  <2> QED
    BY <1>1, <1>2, <2>1, PlainGo, PlainEnd DEF UncheckedOps
<1> QED
  BY <1>3, <1>4, <1>5, <1>6

\* AwaitStop and PauseOrStop.
LEMMA StopMoves ==
  ASSUME HandlerShape, AwaitStop \/ PauseOrStop
  PROVE  HandlerMoves
<1> USE DEF ReadOps, SealOps, StopOps, EndOps, CleanupOps, QueueOps, DirectOps
<1>1. Like(h) /\ Like([h EXCEPT !.before = generation])
  BY AlikeHandlers
<1>2. Running /\ Still /\ queue' = queue /\ target' = target
  BY KeepIs DEF AwaitStop, PauseOrStop, At
<1>3. Op \in StopOps
  BY DEF AwaitStop, PauseOrStop, At, Op
<1>4. CASE Go(StoppedAt(pausedGeneration))
  <2> DEFINE g == StoppedAt(pausedGeneration)
  <2>1. /\ DOMAIN g = Fields /\ g.method = h.method /\ g.cursor = h.cursor /\ g.pc = h.pc
        /\ g.snap = pausedGeneration /\ g.reads = {} /\ g.seenEdits = h.seenEdits
        /\ g.submitted = h.submitted /\ g.cleanup = h.cleanup /\ g.result = h.result
    BY DEF StoppedAt, HandlerShape, Fields
  <2>2. Go(g) /\ h.submitted \in BOOLEAN
    BY <1>4 DEF HandlerShape
  <2> HIDE DEF g
  <2>3. Goes
    BY <1>2, <1>3, <2>1, <2>2, GoIs DEF Goes, GoesReading, GoesChanging, Alike, Running
  <2> QED
    BY <2>3 DEF HandlerMoves
<1>5. CASE Go(h) \/ Go([h EXCEPT !.before = generation])
  BY <1>1, <1>2, <1>3, <1>5, PlainGo
<1>6. CASE Finish("unknown")
  BY <1>2, <1>3, <1>6, PlainEnd
<1>7. CASE FinishAt("unchecked", generation) /\ Op = "awaitStop"
  <2>1. Ends("unchecked")
    BY <1>2, <1>7, FinishAtIs DEF Ends, UncheckedOps
  <2> QED
    BY <2>1 DEF HandlerMoves
<1>8. CASE AwaitStop
  <2>1. Op = "awaitStop"
    BY <1>8 DEF AwaitStop, At, Op
  <2>2. CASE pluginState # "ready"
    BY <1>8, <2>2, <1>6 DEF AwaitStop
  <2>3. CASE pluginState = "ready" /\ debuggee \in {"absent", "exited"}
    BY <1>8, <2>1, <2>3, <1>6, <1>7 DEF AwaitStop
  <2>4. CASE pluginState = "ready" /\ debuggee \notin {"absent", "exited"}
    <3>1. Go(IF pausedGeneration > h.before THEN StoppedAt(pausedGeneration)
             ELSE [h EXCEPT !.before = generation])
      BY <1>8, <2>4 DEF AwaitStop
    <3>2. CASE pausedGeneration > h.before
      BY <3>1, <3>2, <1>4
    <3>3. CASE ~(pausedGeneration > h.before)
      BY <3>1, <3>3, <1>5
    <3> QED
      BY <3>2, <3>3
  <2> QED
    BY <2>2, <2>3, <2>4
<1>9. CASE PauseOrStop
  <2>1. Go(IF h.before = 0 THEN h ELSE StoppedAt(pausedGeneration)) \/ Finish("unknown")
    BY <1>9 DEF PauseOrStop
  <2>2. CASE Go(IF h.before = 0 THEN h ELSE StoppedAt(pausedGeneration)) /\ h.before = 0
    BY <2>2, <1>5
  <2>3. CASE Go(IF h.before = 0 THEN h ELSE StoppedAt(pausedGeneration)) /\ h.before # 0
    BY <2>3, <1>4
  <2> QED
    BY <2>1, <2>2, <2>3, <1>6
<1> QED
  BY <1>8, <1>9

\* DumpStep.
LEMMA DumpMoves ==
  ASSUME HandlerShape, DumpStep
  PROVE  HandlerMoves
<1> USE DEF ReadOps, SealOps, StopOps, EndOps, CleanupOps, QueueOps, DirectOps
<1>0. Like(h) /\ h.submitted \in BOOLEAN
  BY AlikeHandlers DEF HandlerShape
<1>1. Running /\ Op \in {"createTemp", "writeTemp", "flushTemp", "publish"} /\ Still /\ queue' = queue
  BY DEF DumpStep, At, Op, Still
<1>2. CASE Finish("definite") /\ target' = target
  BY <1>1, <1>2, PlainEnd
<1>3. CASE Go(h) /\ target' = target
  BY <1>0, <1>1, <1>3, PlainGo
<1>4. CASE Go(h) /\ Op = "publish" /\ target' = Apply("write", target)
  <2>1. Goes
    BY <1>0, <1>1, <1>4, GoIs DEF Goes, GoesReading, GoesChanging, Like, Alike, Running
  <2> QED
    BY <2>1 DEF HandlerMoves
<1> QED
  BY <1>2, <1>3, <1>4 DEF DumpStep, Op

\* What a clean-up's verdict does.
LEMMA CleanedUpMoves ==
  ASSUME HandlerShape, Cleaning, NEW code \in {0, 1, 2}, CleanedUp(code),
         Still, queue' = queue, target' = target,
         code # 2 => Waited,
         code = 0 => target.look = "absent",
         code = 1 => target.look \notin P.own /\ (h.cleanup = "look" \/ h.method = "run_to")
  PROVE  HandlerMoves
<1>1. DOMAIN h = Fields /\ Op \in CleanupOps
  BY DEF HandlerShape, Cleaning
<1>2. CASE Finish("unknown")
  <2>1. Ended("unknown")
    BY <1>2, FinishIs
  <2>2. CleanEnds("unknown")
    BY <2>1 DEF CleanEnds
  <2> QED
    BY <2>2 DEF HandlerMoves
<1>3. CASE Finish("definite") /\ (code = 0 \/ (code = 1 /\ Op \in {"assign", "verifyOrCleanup"}))
  <2>1. Ended("definite")
    BY <1>3, FinishIs
  <2>2. CleanEnds("definite")
    BY <1>3, <2>1 DEF CleanEnds
  <2> QED
    BY <2>2 DEF HandlerMoves
<1>4. CASE Op \in {"assign", "verifyOrCleanup"}
  <2>1. Finish(IF code = 2 THEN "unknown" ELSE "definite")
    BY <1>4 DEF CleanedUp, Op
  <2> QED
    BY <1>2, <1>3, <1>4, <2>1
<1>5. CASE Op \in {"checkOrCleanup", "run"}
  <2>1. Finish(IF code = 0 THEN "definite" ELSE "unknown")
    BY <1>5 DEF CleanedUp, Op
  <2> QED
    BY <1>2, <1>3, <2>1
<1>6. CASE Op = "cleanup"
  <2>1. IF code = 0 THEN h' = [h EXCEPT !.cleanup = "none", !.pc = @ + 1] /\ UNCHANGED temp
        ELSE Finish("unknown")
    BY <1>6 DEF CleanedUp, Op
  <2>2. CASE code # 0
    BY <2>1, <2>2, <1>2
  <2>3. CASE code = 0
    <3>1. /\ Alike /\ h'.result = h.result /\ h'.snap = h.snap /\ h'.reads = h.reads
          /\ h'.seenEdits = h.seenEdits /\ h'.submitted = h.submitted /\ h'.cleanup = "none"
          /\ h'.pc = h.pc + 1
      BY <1>1, <2>1, <2>3 DEF Alike, Fields
    <3>2. CleanGoes
      BY <1>6, <2>1, <2>3, <3>1 DEF CleanGoes, CleanMoves, Cleaning
    <3> QED
      BY <3>2 DEF HandlerMoves
  <2> QED
    BY <2>2, <2>3
<1> QED
  BY <1>1, <1>4, <1>5, <1>6 DEF CleanupOps

\* CleanupLook and CleanupWait.
LEMMA CleanupMoves ==
  ASSUME HandlerShape, CleanupLook \/ CleanupWait
  PROVE  HandlerMoves
<1>0. DOMAIN h = Fields
  BY DEF HandlerShape
<1>1. CASE CleanupLook
  <2>1. Cleaning /\ Waited /\ Still /\ target' = target /\ h.cleanup = "look"
    BY <1>1 DEF CleanupLook, Cleaning, Waited, Still
  <2>2. CASE CleanedUp(2) /\ queue' = queue
    BY <2>1, <2>2, CleanedUpMoves
  <2>3. CASE target.look = "absent"
    <3>1. CleanedUp(0) /\ queue' = queue
      BY <1>1, <2>3 DEF CleanupLook
    <3> QED
      BY <2>1, <2>3, <3>1, CleanedUpMoves
  <2>4. CASE target.look \notin P.own \cup {"absent"}
    <3>1. CleanedUp(1) /\ queue' = queue
      BY <1>1, <2>4 DEF CleanupLook
    <3> QED
      BY <2>1, <2>4, <3>1, CleanedUpMoves
  <2>5. CASE target.look # "absent" /\ target.look \in P.own
    <3>1. \/ /\ queue' = "delete" /\ h' = [h EXCEPT !.cleanup = "wait", !.seenEdits = edits]
             /\ temp' = temp
          \/ CleanedUp(2) /\ queue' = queue
      BY <1>1, <2>5 DEF CleanupLook
    <3>2. CASE /\ queue' = "delete" /\ h' = [h EXCEPT !.cleanup = "wait", !.seenEdits = edits]
               /\ temp' = temp
      <4>1. /\ Alike /\ h'.result = h.result /\ h'.snap = h.snap /\ h'.reads = h.reads
            /\ h'.seenEdits = edits /\ h'.submitted = h.submitted /\ h'.cleanup = "wait"
            /\ h'.pc = h.pc
        BY <1>0, <3>2 DEF Alike, Fields
      <4>2. CleanQueues
        BY <2>1, <2>5, <3>2, <4>1 DEF CleanQueues, CleanMoves, Cleaning
      <4> QED
        BY <4>2 DEF HandlerMoves
    <3> QED
      BY <2>2, <3>1, <3>2
  <2> QED
    BY <2>3, <2>4, <2>5
<1>2. CASE CleanupWait
  <2>1. Cleaning /\ h.cleanup = "wait" /\ Keep
    BY <1>2 DEF CleanupWait, Cleaning
  <2>2. Still /\ queue' = queue /\ target' = target
    BY <2>1, KeepIs
  <2>3. \/ target.look = "absent" /\ Waited /\ CleanedUp(0)
        \/ target.look \notin P.own /\ h.method = "run_to" /\ Waited /\ CleanedUp(1)
        \/ CleanedUp(2)
    BY <1>2 DEF CleanupWait, Fenced, Waited
  <2> QED
    BY <2>1, <2>2, <2>3, CleanedUpMoves
<1> QED
  BY <1>1, <1>2

\* Every step of a handler is of one of the kinds.
LEMMA StepMoves ==
  ASSUME HandlerShape, HandlerStep
  PROVE  HandlerMoves
BY QueryMoves, LoopMoves, SubmitMoves, DirectMoves, WaitMoves, AssignMoves, RunToMoves, StopMoves,
   DumpMoves, CleanupMoves DEF HandlerStep

-----------------------------------------------------------------------------
(* Positions in a program.                                                 *)

\* The rules, for the program of a handler.
LEMMA Rules ==
  ASSUME NEW m \in DOMAIN Program
  PROVE  /\ WellFormed(Program[m].steps) /\ ChecksLast(m, Program[m].steps)
         /\ Fences(m, Program[m].steps) /\ Spares(Program[m]) /\ KeepsToOwn(m, Program[m])
         /\ m \notin Hasty => Careful(Program[m])
         /\ m \in Dumps => Dumping(Program[m].steps)
BY ProgramsKeepTheRules

\* Only the answer is the last step.
LEMMA NextPosition ==
  ASSUME NEW s, WellFormed(s), NEW i \in 1..Len(s), s[i] \notin EndOps
  PROVE  i + 1 \in 1..Len(s)
<1>1. Len(s) \in Nat
  BY DEF WellFormed
<1>2. i # Len(s)
  BY DEF WellFormed
<1> QED
  BY <1>1, <1>2

\* A position is sealed by the step before it, or that step broke nothing.
LEMMA SealedNext ==
  ASSUME NEW s, NEW i \in Nat, Sealed(s, i + 1), s[i] \notin SealOps
  PROVE  Sealed(s, i) /\ s[i] \notin BreakOps
<1>1. PICK c \in 1..i : s[c] \in SealOps /\ \A j \in (c + 1)..i : s[j] \notin BreakOps
  BY DEF Sealed
<1>2. c # i
  BY <1>1
<1>3. c \in 1..(i - 1) /\ i \in (c + 1)..i /\ \A j \in (c + 1)..(i - 1) : j \in (c + 1)..i
  BY <1>2
<1> QED
  BY <1>1, <1>3 DEF Sealed

\* What a position is behind of.
LEMMA BehindNext ==
  ASSUME NEW s, NEW i \in Nat \ {0}, NEW ops
  PROVE  Behind(s, i + 1, ops) <=> Behind(s, i, ops) \/ s[i] \in ops
<1>1. \A e : e \in 1..((i + 1) - 1) <=> e \in 1..(i - 1) \/ e = i
  OBVIOUS
<1> QED
  BY <1>1 DEF Behind

\* The same for an earlier position.
LEMMA BehindLess ==
  ASSUME NEW s, NEW i \in Nat, NEW j \in Nat, j <= i, NEW ops, Behind(s, j, ops)
  PROVE  Behind(s, i, ops)
<1>1. \A e \in 1..(j - 1) : e \in 1..(i - 1)
  OBVIOUS
<1> QED
  BY <1>1 DEF Behind

\* A handler with work behind it keeps it until its clean-up.
LEMMA LoadedNext ==
  ASSUME NEW s, NEW i \in Nat \ {0}, s[i] # "cleanup", Loaded(s, i) \/ s[i] \in ChangeOps
  PROVE  Loaded(s, i + 1)
<1>1. CASE Loaded(s, i)
  <2>1. PICK e \in 1..(i - 1) : s[e] \in ChangeOps /\ \A j \in e..(i - 1) : s[j] # "cleanup"
    BY <1>1 DEF Loaded
  <2>2. e \in 1..((i + 1) - 1) /\ \A j \in e..((i + 1) - 1) : j \in e..(i - 1) \/ j = i
    OBVIOUS
  <2> QED
    BY <2>1, <2>2 DEF Loaded
<1>2. CASE s[i] \in ChangeOps
  <2>1. i \in 1..((i + 1) - 1) /\ \A j \in i..((i + 1) - 1) : j = i
    OBVIOUS
  <2> QED
    BY <1>2, <2>1 DEF Loaded
<1> QED
  BY <1>1, <1>2

\* A loop goes back behind a repeat, where nothing is sealed.
LEMMA LoopBack ==
  ASSUME NEW s, WellFormed(s), NEW i \in 1..Len(s), s[i] = "loop",
         NEW r, r = Max({j \in 1..i : s[j] = "repeat"})
  PROVE  r \in 1..(i - 1) /\ r + 1 \in 2..i /\ ~Sealed(s, r + 1)
<1> DEFINE S == {j \in 1..i : s[j] = "repeat"}
<1>1. PICK q \in 1..(i - 1) : s[q] = "repeat" /\ \A j \in (q + 1)..i : s[j] # "repeat"
  BY DEF WellFormed
<1>2. Len(s) \in Nat /\ i \in Nat
  BY DEF WellFormed
<1>3. q \in S /\ \A j \in S : q >= j
  BY <1>1, <1>2
<1>4. r \in S /\ \A j \in S : r >= j
  BY <1>3 DEF Max
<1>5. r = q
  BY <1>2, <1>3, <1>4
<1>6. r \in 1..(i - 1) /\ r + 1 \in 2..i
  BY <1>1, <1>2, <1>5
<1>7. ASSUME Sealed(s, r + 1) PROVE FALSE
  <2>1. r \in Nat /\ s[r] = "repeat"
    BY <1>1, <1>5
  <2> QED
    BY <1>7, <2>1, SealedNext DEF SealOps, BreakOps
<1> QED
  BY <1>6, <1>7

\* What an effect makes of the target.
LEMMA ApplyIs ==
  ASSUME NEW e, NEW t, Shaped(t), NEW u, u = Apply(e, t)
  PROVE  /\ Shaped(u)
         /\ u = t \/ ~u.marked
         /\ u.look = "foreign" => u = t
         /\ u.mine => u = t \/ u.look \in MadeBy(e)
         /\ e = "delete" => u.look = "absent" /\ ~u.mine
         /\ e \in {"create", "createBare", "createPart"} => u = t \/ u.mine
<1>1. \/ u = t /\ e # "delete"
      \/ u = Made("mine") /\ e \in {"create", "enable", "write"}
      \/ u = Made("bare") /\ e = "createBare"
      \/ u = Made("off") /\ e \in {"createPart", "disable"}
      \/ u = Others("absent") /\ e = "delete"
  BY DEF Apply
<1>2. CASE u = t /\ e # "delete"
  BY <1>2
<1>3. CASE u = Made("mine") /\ e \in {"create", "enable", "write"}
  BY <1>3 DEF Made, MadeBy, Looks, Shaped
<1>4. CASE u = Made("bare") /\ e = "createBare"
  BY <1>4 DEF Made, MadeBy, Looks, Shaped
<1>5. CASE u = Others("absent") /\ e = "delete"
  BY <1>5 DEF Others, Looks, Shaped
<1>6. CASE u = Made("off") /\ e \in {"createPart", "disable"}
  BY <1>6 DEF Made, MadeBy, Looks, Shaped
<1> QED
  BY <1>1, <1>2, <1>3, <1>4, <1>5, <1>6

\* What an assignment can make of the look.
LEMMA AssignedLooksAre ==
  ASSUME NEW l \in Looks \ {"absent"}, NEW look \in AssignedLooks(l) \cup {l}
  PROVE  /\ look \in Looks \ {"absent"}
         /\ look = "foreign" => l = "foreign"
         /\ look = l \/ look \in {"mine", "off"}
         /\ h.method # "exception_set" /\ look \in {"mine", "off"} => l \in {"mine", "off"}
BY DEF AssignedLooks, Managed, Looks

-----------------------------------------------------------------------------
(* The handler's steps keep the invariant.                                 *)

\* A handler at work has a program, and stays with it.
LEMMA AtWork ==
  ASSUME HandlerShape, HandlerMoves
  PROVE  /\ h.result = "none" /\ h.method # "none" /\ h.method \in DOMAIN Program
         /\ h.pc \in 1..Len(Steps) /\ h.pc \in Nat \ {0} /\ WellFormed(Steps)
         /\ Alike /\ P' = P /\ Steps' = Steps /\ h'.method = h.method
<1>1. h.result = "none" /\ Alike /\ (Running \/ Cleaning)
  BY DEF HandlerMoves, Ends, Goes, Jumps, Cleans, Turned, CleanEnds, Ended, CleanGoes, CleanQueues,
     CleanMoves, Running, Cleaning
<1>2. h.method # "none"
  BY <1>1 DEF HandlerShape, Running, Cleaning
<1>3. h.method \in DOMAIN Program /\ h.pc \in 1..Len(Steps)
  BY <1>2 DEF HandlerShape
<1>4. WellFormed(Steps)
  BY <1>3, Rules DEF Steps, P
<1>5. h.pc \in Nat \ {0}
  BY <1>3, <1>4 DEF WellFormed
<1>6. P' = P /\ Steps' = Steps
  BY <1>1 DEF Alike, P, Steps
<1> QED
  BY <1>1, <1>2, <1>3, <1>4, <1>5, <1>6 DEF Alike

\* What a step can make of the target.
LEMMA TargetMoves ==
  ASSUME HandlerMoves
  PROVE  \/ target' = target
         \/ target' = Apply(P.effect, target)
         \/ target' = Apply("write", target)
         \/ \E look \in AssignedLooks(target.look) \cup {target.look} : Assigns(look)
BY DEF HandlerMoves, Ends, Goes, GoesChanging, Jumps, Cleans, Turned, CleanEnds, CleanGoes,
   CleanQueues, CleanMoves

\* The shape of the target is kept.
LEMMA TargetKeeps ==
  ASSUME HandlerShape, HandlerMoves
  PROVE  Shaped(target')
<1>1. Shaped(target)
  BY DEF HandlerShape
<1>2. CASE target' = target
  BY <1>1, <1>2
<1>3. CASE target' = Apply(P.effect, target) \/ target' = Apply("write", target)
  BY <1>1, <1>3, ApplyIs
<1>4. ASSUME NEW look \in AssignedLooks(target.look) \cup {target.look}, Assigns(look)
      PROVE  Shaped(target')
  <2>1. look \in Looks \ {"absent"}
    BY <1>1, <1>4, AssignedLooksAre DEF Assigns, Shaped
  <2> QED
    BY <1>1, <1>4, <2>1 DEF Assigns, Shaped
<1> QED
  BY <1>2, <1>3, <1>4, TargetMoves

\* Where the handler is after a step.
LEMMA PlaceKeeps ==
  ASSUME HandlerShape, HandlerMoves
  PROVE  /\ h'.pc \in 1..Len(Steps) /\ h'.pc \in Nat
         /\ h'.cleanup \in {"none", "look", "wait"}
         /\ h'.result \in {"none", "ok", "unchecked", "definite", "unknown"}
         /\ h'.result = "none" /\ h'.cleanup # "none" => Steps[h'.pc] \in CleanupOps
         /\ h'.result # "none" => temp' = "none"
<1>0. /\ h.pc \in 1..Len(Steps) /\ h.pc \in Nat \ {0} /\ WellFormed(Steps) /\ h.result = "none"
      /\ h.cleanup \in {"none", "look", "wait"} /\ Op = Steps[h.pc] /\ Len(Steps) \in Nat
      /\ h.cleanup # "none" => Op \in CleanupOps
  BY AtWork DEF HandlerShape, Op, Steps, WellFormed
<1>1. ASSUME NEW r \in {"ok", "unchecked", "definite", "unknown"}, Ended(r)
      PROVE  /\ h'.pc = h.pc /\ h'.cleanup = h.cleanup /\ h'.result = r /\ temp' = "none"
  BY <1>1 DEF Ended
<1>2. CASE \E r \in {"ok", "unchecked", "definite", "unknown"} : Ends(r)
  BY <1>0, <1>1, <1>2 DEF Ends
<1>3. CASE \E r \in {"definite", "unknown"} : CleanEnds(r)
  BY <1>0, <1>1, <1>3 DEF CleanEnds
<1>4. CASE Goes \/ CleanGoes
  <2>1. h'.pc = h.pc + 1 /\ h'.cleanup = "none" /\ h'.result = "none" /\ Op \notin EndOps
    BY <1>4 DEF Goes, CleanGoes, CleanMoves, EndOps
  <2> QED
    BY <1>0, <2>1, NextPosition
<1>5. CASE Jumps
  <2>1. Op = "loop" /\ h'.pc = LastRepeat + 1 /\ h'.cleanup = "none" /\ h'.result = "none"
    BY <1>5 DEF Jumps, Turned
  <2>2. LastRepeat + 1 \in 2..h.pc
    BY <1>0, <2>1, LoopBack DEF LastRepeat, Steps
  <2> QED
    BY <1>0, <2>1, <2>2
<1>6. CASE Cleans \/ CleanQueues
  <2>1. h'.pc = h.pc /\ h'.cleanup \in {"look", "wait"} /\ h'.result = "none" /\ Op \in CleanupOps
    BY <1>0, <1>6 DEF Cleans, Turned, CleanQueues, CleanMoves, Cleaning
  <2> QED
    BY <1>0, <2>1
<1> QED
  BY <1>2, <1>3, <1>4, <1>5, <1>6 DEF HandlerMoves

\* HandlerShape is kept.
LEMMA ShapeStep ==
  ASSUME HandlerShape, HandlerMoves
  PROVE  HandlerShape'
<1>1. /\ h.method # "none" /\ h.method \in DOMAIN Program /\ h'.method = h.method
      /\ Alike /\ P' = P /\ Steps' = Steps
  BY AtWork
<1>2. Still
  BY DEF HandlerMoves, Ends, Ended, Goes, Jumps, Cleans, Turned, CleanEnds, CleanGoes, CleanQueues,
     CleanMoves
<1>3. /\ generation' = generation /\ pausedGeneration' = pausedGeneration /\ edits' = edits
      /\ generation \in Nat /\ pausedGeneration \in Nat /\ pausedGeneration <= generation
      /\ edits \in Nat
  BY <1>2 DEF Still, snapshotVars, HandlerShape
<1>4. h'.snap \in {h.snap, generation, pausedGeneration} /\ h'.seenEdits \in {h.seenEdits, edits}
  BY DEF HandlerMoves, Ends, Ended, Goes, GoesReading, Jumps, Cleans, Turned, CleanEnds, CleanGoes,
     CleanQueues, CleanMoves
<1>5. h'.snap \in Nat /\ h'.seenEdits \in Nat /\ h'.seenEdits <= edits'
  BY <1>3, <1>4 DEF HandlerShape
<1>6. h'.submitted \in BOOLEAN
  BY DEF HandlerMoves, Ends, Ended, Goes, GoesChanging, Jumps, Cleans, Turned, CleanEnds, CleanGoes,
     CleanQueues, CleanMoves, HandlerShape
<1>7. Op' = Steps[h'.pc]
  BY <1>1 DEF Op, Steps, P
<1> QED
  BY <1>1, <1>3, <1>5, <1>6, <1>7, PlaceKeeps, TargetKeeps DEF HandlerShape, Alike

\* The surroundings stand still while a handler steps.
LEMMA StillKeeps ==
  ASSUME HandlerMoves
  PROVE  /\ generation' = generation /\ pausedGeneration' = pausedGeneration /\ edits' = edits
         /\ debuggee' = debuggee
<1>1. Still
  BY DEF HandlerMoves, Ends, Ended, Goes, Jumps, Cleans, Turned, CleanEnds, CleanGoes, CleanQueues,
     CleanMoves
<1> QED
  BY <1>1 DEF Still, snapshotVars

\* ReadsInv, by its parts: what a handler has read and what it knows of it.
ReadsOK(s, pc, snap, reads, result) ==
  /\ pc < 2 => reads = {}
  /\ snap <= generation
  /\ \A r \in reads : r \in Nat /\ (result # "unchecked" => snap <= r) /\ r <= generation
  /\ result = "unchecked" => h.method \in Unchecked
  /\ result = "ok" => reads \subseteq {snap}
  /\ result = "none" /\ Sealed(s, pc) => reads \subseteq {snap}

\* ReadsInv is kept.
LEMMA ReadsStep ==
  ASSUME HandlerShape, ReadsInv, HandlerMoves
  PROVE  ReadsInv'
<1> DEFINE s == Steps
<1>0. /\ h.pc \in 1..Len(s) /\ h.pc \in Nat \ {0} /\ WellFormed(s) /\ h.result = "none"
      /\ h.method # "none" /\ h'.method = h.method /\ h.method \in DOMAIN Program
      /\ Op = s[h.pc] /\ Steps' = s /\ ChecksLast(h.method, s)
      /\ h.snap \in Nat /\ generation \in Nat /\ pausedGeneration \in Nat
      /\ pausedGeneration <= generation /\ generation' = generation
  BY AtWork, Rules, StillKeeps DEF HandlerShape, Op, Steps, P
<1>1. /\ h.pc < 2 => h.reads = {}
      /\ h.snap <= generation
      /\ \A r \in h.reads : r \in Nat /\ h.snap <= r /\ r <= generation
      /\ Sealed(s, h.pc) => h.reads \subseteq {h.snap}
  BY <1>0 DEF ReadsInv
<1> HIDE DEF s
<1>2. SUFFICES ReadsOK(s, h'.pc, h'.snap, h'.reads, h'.result)
  BY <1>0 DEF ReadsOK, ReadsInv
<1>3. ASSUME h'.pc = h.pc, h'.reads = h.reads,
             h'.snap = h.snap \/ (h'.snap = generation /\ h'.result = "unchecked"),
             h'.result = "ok" => Op = "ok",
             h'.result = "unchecked" => Op \in UncheckedOps
      PROVE  ReadsOK(s, h'.pc, h'.snap, h'.reads, h'.result)
  <2>1. Op = "ok" => Sealed(s, h.pc)
    BY <1>0 DEF ChecksLast
  <2>2. Op \in UncheckedOps => h.method \in Unchecked
    BY <1>0 DEF ChecksLast, UncheckedOps
  <2> QED
    BY <1>0, <1>1, <1>3, <2>1, <2>2 DEF ReadsOK
<1>4. CASE \E r \in {"ok", "unchecked", "definite", "unknown"} : Ends(r)
  BY <1>3, <1>4 DEF Ends, Ended
<1>5. CASE \E r \in {"definite", "unknown"} : CleanEnds(r)
  BY <1>3, <1>5 DEF CleanEnds, Ended
<1>6. CASE Cleans \/ CleanQueues
  BY <1>3, <1>6 DEF Cleans, Turned, CleanQueues, CleanMoves
<1>7. CASE Jumps
  <2>1. /\ Op = "loop" /\ h'.pc = LastRepeat + 1 /\ h'.result = "none" /\ h'.snap = h.snap
        /\ h'.reads = h.reads
    BY <1>7 DEF Jumps, Turned
  <2>2. LastRepeat + 1 \in 2..h.pc /\ ~Sealed(s, LastRepeat + 1)
    BY <1>0, <2>1, LoopBack DEF LastRepeat, Steps, s
  <2> QED
    BY <1>0, <1>1, <2>1, <2>2 DEF ReadsOK
<1>8. CASE CleanGoes
  <2>1. /\ Op = "cleanup" /\ h'.pc = h.pc + 1 /\ h'.result = "none" /\ h'.snap = h.snap
        /\ h'.reads = h.reads
    BY <1>8 DEF CleanGoes, CleanMoves
  <2>2. Sealed(s, h.pc + 1) => Sealed(s, h.pc)
    BY <1>0, <2>1, SealedNext DEF SealOps
  <2>3. ~(h.pc + 1 < 2)
    BY <1>0
  <2> QED
    BY <1>1, <2>1, <2>2, <2>3 DEF ReadsOK
<1>9. CASE Goes
  <2>1. h'.pc = h.pc + 1 /\ h'.result = "none" /\ GoesReading
    BY <1>9 DEF Goes
  <2>2. ~(h.pc + 1 < 2)
    BY <1>0
  <2>3. Sealed(s, h.pc + 1) => Op \in SealOps \/ (Sealed(s, h.pc) /\ Op \notin BreakOps)
    BY <1>0, SealedNext
  <2>4. Op \in SealOps => generation = h.snap
    BY <2>1 DEF GoesReading
  <2>5. CASE h'.snap = h.snap /\ h'.reads = h.reads
    <3>1. generation = h.snap => h.reads \subseteq {h.snap}
      BY <1>0, <1>1
    <3> QED
      BY <1>1, <2>1, <2>2, <2>3, <2>4, <2>5, <3>1 DEF ReadsOK
  <2>6. CASE h'.snap = h.snap /\ h'.reads = h.reads \cup {generation} /\ Op \in ReadOps
    <3>1. ~Sealed(s, h.pc + 1)
      BY <2>3, <2>6 DEF ReadOps, SealOps, BreakOps
    <3> QED
      BY <1>0, <1>1, <2>1, <2>2, <2>6, <3>1 DEF ReadsOK
  <2>7. CASE h'.snap = generation /\ h'.reads = h.reads /\ Op \in {"begin", "beginActive"}
    <3>1. h.pc = 1
      BY <1>0, <2>7 DEF WellFormed
    <3> QED
      BY <1>0, <1>1, <2>1, <2>2, <2>7, <3>1 DEF ReadsOK
  <2>8. CASE h'.snap = pausedGeneration /\ h'.reads = {} /\ Op \in StopOps
    BY <1>0, <2>1, <2>8 DEF ReadsOK
  <2> QED
    BY <2>1, <2>5, <2>6, <2>7, <2>8 DEF GoesReading
<1> QED
  BY <1>4, <1>5, <1>6, <1>7, <1>8, <1>9 DEF HandlerMoves

\* CursorInv, by its parts.
CursorOK(s, pc, snap, result) ==
  /\ h.cursor # 0 => \E i \in 1..Len(s) : s[i] = "cursor"
  /\ result = "none" /\ Behind(s, pc, {"cursor"}) => h.cursor \in {0, snap}
  /\ result = "ok" => h.cursor \in {0, snap}

\* CursorInv is kept.
LEMMA CursorStep ==
  ASSUME HandlerShape, CursorInv, HandlerMoves
  PROVE  CursorInv'
<1> DEFINE s == Steps
<1>0. /\ h.pc \in 1..Len(s) /\ h.pc \in Nat \ {0} /\ WellFormed(s) /\ h.result = "none"
      /\ h.method # "none" /\ h'.method = h.method /\ h.method \in DOMAIN Program
      /\ Op = s[h.pc] /\ Steps' = s /\ ChecksLast(h.method, s) /\ h'.cursor = h.cursor
  BY AtWork, Rules DEF HandlerShape, Op, Steps, P, Alike
<1>1. /\ h.cursor # 0 => \E i \in 1..Len(s) : s[i] = "cursor"
      /\ Behind(s, h.pc, {"cursor"}) => h.cursor \in {0, h.snap}
  BY <1>0 DEF CursorInv
<1> HIDE DEF s
<1>2. SUFFICES CursorOK(s, h'.pc, h'.snap, h'.result)
  BY <1>0 DEF CursorOK, CursorInv
<1>3. Op \in StopOps => h.cursor = 0
  BY <1>0, <1>1 DEF ChecksLast
<1>4. Op = "ok" /\ h.cursor # 0 => Behind(s, h.pc, {"cursor"})
  <2>1. SUFFICES ASSUME Op = "ok", h.cursor # 0 PROVE Behind(s, h.pc, {"cursor"})
    OBVIOUS
  <2>2. PICK i \in 1..Len(s) : s[i] = "cursor"
    BY <1>1, <2>1
  <2>3. h.pc = Len(s) /\ i # h.pc /\ Len(s) \in Nat
    BY <1>0, <2>1, <2>2 DEF WellFormed, EndOps
  <2>4. i \in 1..(h.pc - 1)
    BY <2>3
  <2> QED
    BY <2>2, <2>4 DEF Behind
<1>5. ASSUME h'.pc = h.pc, h'.snap = h.snap \/ h'.result = "unchecked",
             h'.result = "ok" => Op = "ok"
      PROVE  CursorOK(s, h'.pc, h'.snap, h'.result)
  BY <1>0, <1>1, <1>3, <1>4, <1>5 DEF CursorOK, StopOps
<1>6. CASE \E r \in {"ok", "unchecked", "definite", "unknown"} : Ends(r)
  BY <1>5, <1>6 DEF Ends, Ended
<1>7. CASE \E r \in {"definite", "unknown"} : CleanEnds(r)
  BY <1>5, <1>7 DEF CleanEnds, Ended
<1>8. CASE Cleans \/ CleanQueues
  BY <1>5, <1>8 DEF Cleans, Turned, CleanQueues, CleanMoves
<1>9. CASE Jumps
  <2>1. Op = "loop" /\ h'.pc = LastRepeat + 1 /\ h'.result = "none" /\ h'.snap = h.snap
    BY <1>9 DEF Jumps, Turned
  <2>2. LastRepeat + 1 \in 2..h.pc
    BY <1>0, <2>1, LoopBack DEF LastRepeat, Steps, s
  <2>3. LastRepeat + 1 \in Nat /\ LastRepeat + 1 <= h.pc
    BY <1>0, <2>2
  <2>4. Behind(s, LastRepeat + 1, {"cursor"}) => Behind(s, h.pc, {"cursor"})
    BY <1>0, <2>3, BehindLess
  <2> QED
    BY <1>1, <2>1, <2>4 DEF CursorOK
<1>10. CASE Goes \/ CleanGoes
  <2>1. h'.pc = h.pc + 1 /\ h'.result = "none"
    BY <1>10 DEF Goes, CleanGoes, CleanMoves
  <2>2. Behind(s, h.pc + 1, {"cursor"}) <=> Behind(s, h.pc, {"cursor"}) \/ Op = "cursor"
    BY <1>0, BehindNext
  <2>3. CASE h'.snap = h.snap /\ (Op = "cursor" => h.cursor \in {0, h.snap})
    BY <1>1, <2>1, <2>2, <2>3 DEF CursorOK
  <2>4. CASE Op \in {"begin", "beginActive"}
    <3>1. h.pc = 1
      BY <1>0, <2>4 DEF WellFormed
    <3>2. ~Behind(s, h.pc, {"cursor"})
      BY <3>1 DEF Behind
    <3> QED
      BY <1>1, <2>1, <2>2, <2>4, <3>2 DEF CursorOK
  <2>5. CASE Op \in StopOps
    BY <1>1, <1>3, <2>1, <2>5 DEF CursorOK
  <2> QED
    BY <1>10, <2>3, <2>4, <2>5 DEF Goes, GoesReading, CleanGoes, CleanMoves
<1> QED
  BY <1>6, <1>7, <1>8, <1>9, <1>10 DEF HandlerMoves

\* QueueInv, by its parts.
QueueOK(q, p, m, pc, result, cleanup, submitted) ==
  q # "none" =>
    /\ q \in {"delete", p.effect}
    /\ m \notin Dumps
    /\ result = "none" => Behind(p.steps, pc, QueueOps)
    /\ m \notin Polled => \/ result = "unknown"
                          \/ result = "none" /\ cleanup = "wait"
                          \/ result = "none" /\ cleanup = "none" /\ p.steps[pc] = "fence"
    /\ q # "delete" =>
         /\ submitted /\ result # "definite"
         /\ result = "none" => /\ cleanup = "none" /\ Loaded(p.steps, pc)
                               /\ p.steps[pc] = "fence" \/ Behind(p.steps, pc, {"queue"})

\* QueueInv is kept.
LEMMA QueueStep ==
  ASSUME HandlerShape, QueueInv, HandlerMoves
  PROVE  QueueInv'
<1> DEFINE p == P
           s == p.steps
           m == h.method
<1>0. /\ h.pc \in 1..Len(s) /\ h.pc \in Nat \ {0} /\ WellFormed(s) /\ h.result = "none"
      /\ m # "none" /\ h'.method = m /\ m \in DOMAIN Program /\ p = Program[m]
      /\ Op = s[h.pc] /\ P' = p /\ Fences(m, s) /\ (m \in Dumps => Dumping(s))
  BY AtWork, Rules DEF Op, Steps, P
<1>1. QueueOK(queue, p, m, h.pc, h.result, h.cleanup, h.submitted)
  BY DEF QueueInv, QueueOK, Steps, Op
<1>2. SUFFICES QueueOK(queue', p, m, h'.pc, h'.result, h'.cleanup, h'.submitted)
  BY <1>0 DEF QueueInv, QueueOK, Steps, Op
<1> HIDE DEF p, s, m
<1> USE DEF QueueOps
<1>3. /\ Op \in {"submit", "toggle"} => s[h.pc + 1] = "fence"
      /\ Op = "queue" => m \in Polled
      /\ Behind(s, h.pc, {"queue"}) => Op \in {"poll", "checkDone", "ok"}
      /\ Op \in CleanupOps => Behind(s, h.pc, QueueOps)
      /\ Behind(s, h.pc, QueueOps) => Op \notin {"look", "loop"}
      /\ Op \in QueueOps \cup CleanupOps => m \notin Dumps
  <2>1. Behind(s, h.pc, {"queue"}) => Op \in {"poll", "checkDone", "ok"}
    <3>1. SUFFICES ASSUME Behind(s, h.pc, {"queue"}) PROVE Op \in {"poll", "checkDone", "ok"}
      OBVIOUS
    <3>2. PICK e \in 1..(h.pc - 1) : s[e] = "queue"
      BY <3>1 DEF Behind
    <3>3. e \in 1..Len(s) /\ h.pc \in (e + 1)..Len(s)
      BY <1>0, <3>2 DEF WellFormed
    <3> QED
      BY <1>0, <3>2, <3>3 DEF Fences
  <2>2. Op \in QueueOps \cup CleanupOps => m \notin Dumps
    BY <1>0 DEF Dumping
  <2> QED
    BY <1>0, <2>1, <2>2 DEF Fences
<1>4. \A ops : Behind(s, h.pc + 1, ops) <=> Behind(s, h.pc, ops) \/ Op \in ops
  BY <1>0, BehindNext
<1>5. Op # "cleanup" /\ (Loaded(s, h.pc) \/ Op \in QueueOps) => Loaded(s, h.pc + 1)
  BY <1>0, LoadedNext DEF ChangeOps
<1>6. queue # "none" =>
        /\ queue \in {"delete", p.effect} /\ m \notin Dumps /\ Behind(s, h.pc, QueueOps)
        /\ m \notin Polled => h.cleanup = "wait" \/ (h.cleanup = "none" /\ Op = "fence")
        /\ queue # "delete" => /\ h.submitted /\ h.cleanup = "none" /\ Loaded(s, h.pc)
                               /\ Op \in {"fence", "poll", "checkDone", "ok"}
                               /\ Op = "fence" \/ Behind(s, h.pc, {"queue"})
  BY <1>0, <1>1, <1>3 DEF QueueOK, s
<1>7. CASE \E r \in {"ok", "unchecked", "definite", "unknown"} : Ends(r)
  <2>1. PICK r \in {"ok", "unchecked", "definite", "unknown"} : Ends(r)
    BY <1>7
  <2>2. /\ queue' = queue /\ h'.result = r /\ h'.pc = h.pc /\ h'.submitted = h.submitted
        /\ h.cleanup = "none"
        /\ r = "ok" => Op = "ok"
        /\ r = "unchecked" => Op \in UncheckedOps
        /\ r = "definite" => /\ Op \notin {"fence", "poll"} \cup EndOps
                             /\ Op \in {"verify", "checkDone"} => ~h.submitted
    BY <2>1 DEF Ends, Ended, Running
  <2> QED
    BY <1>6, <2>2 DEF QueueOK, UncheckedOps, EndOps
<1>8. CASE \E r \in {"definite", "unknown"} : CleanEnds(r)
  <2>1. PICK r \in {"definite", "unknown"} : CleanEnds(r)
    BY <1>8
  <2>2. /\ queue' = queue /\ h'.result = r /\ h.cleanup # "none"
        /\ r = "definite" => h.cleanup = "look" \/ m = "run_to" \/ queue = "none"
    BY <2>1 DEF CleanEnds, Ended, Cleaning, Waited, m
  <2> QED
    BY <1>6, <2>2 DEF QueueOK, Polled
<1>9. CASE Goes
  <2>1. /\ h'.pc = h.pc + 1 /\ h'.result = "none" /\ h'.cleanup = "none" /\ h.cleanup = "none"
        /\ Op \notin {"ok", "cleanup"} /\ (Op = "fence" => queue = "none")
        /\ h.submitted => h'.submitted
    BY <1>9 DEF Goes, GoesChanging, Running, EndOps
  <2>2. CASE queue' = queue
    BY <1>4, <1>5, <1>6, <2>1, <2>2 DEF QueueOK, s
  <2>3. CASE queue' = p.effect /\ Op \in QueueOps /\ h'.submitted
    BY <1>3, <1>4, <1>5, <2>1, <2>3 DEF QueueOK, s
  <2> QED
    BY <1>9, <2>2, <2>3 DEF Goes, GoesChanging, p
<1>10. CASE Jumps
  BY <1>3, <1>6, <1>10 DEF Jumps, Turned, QueueOK
<1>11. CASE Cleans
  <2>1. /\ queue' = queue /\ h'.pc = h.pc /\ h'.result = "none" /\ h.cleanup = "none"
        /\ Op \in CleanupOps
    BY <1>11 DEF Cleans, Turned, Running
  <2>2. Op \notin {"fence", "poll", "checkDone", "ok"}
    BY <2>1 DEF CleanupOps
  <2> QED
    BY <1>6, <2>1, <2>2 DEF QueueOK, s
<1>12. CASE CleanGoes
  <2>1. /\ queue' = queue /\ h'.pc = h.pc + 1 /\ h'.result = "none" /\ h.cleanup # "none"
        /\ h.cleanup = "look" \/ m = "run_to" \/ queue = "none"
    BY <1>12 DEF CleanGoes, CleanMoves, Cleaning, Waited, m
  <2> QED
    BY <1>4, <1>6, <2>1 DEF QueueOK, s, Polled
<1>13. CASE CleanQueues
  <2>1. queue' = "delete" /\ h'.pc = h.pc /\ h'.result = "none" /\ h'.cleanup = "wait"
    BY <1>13 DEF CleanQueues, CleanMoves
  <2>2. Op \in CleanupOps
    BY <1>13 DEF CleanQueues, CleanMoves, Cleaning, HandlerShape
  <2> QED
    BY <1>3, <2>1, <2>2 DEF QueueOK, s
<1> QED
  BY <1>7, <1>8, <1>9, <1>10, <1>11, <1>12, <1>13 DEF HandlerMoves

\* What is foreign after a step was foreign before.
LEMMA ForeignIsKept ==
  ASSUME HandlerShape, HandlerMoves, target'.look = "foreign"
  PROVE  target.look = "foreign"
<1>1. Shaped(target)
  BY DEF HandlerShape
<1>2. CASE target' = Apply(P.effect, target) \/ target' = Apply("write", target)
  BY <1>1, <1>2, ApplyIs
<1>3. ASSUME NEW look \in AssignedLooks(target.look) \cup {target.look}, Assigns(look)
      PROVE  target.look = "foreign"
  BY <1>1, <1>3, AssignedLooksAre DEF Assigns, Shaped
<1> QED
  BY <1>2, <1>3, TargetMoves

\* SparesInv is kept.
LEMMA SparesStep ==
  ASSUME HandlerShape, QueueInv, SparesInv, HandlerMoves
  PROVE  SparesInv'
<1> DEFINE p == P
           s == p.steps
           Seen(pc) == p.effect = "delete" /\ "foreign" \notin p.accept /\ Behind(s, pc, {"look"})
<1>0. /\ h.pc \in 1..Len(s) /\ h.pc \in Nat \ {0} /\ WellFormed(s) /\ h.result = "none"
      /\ h.method # "none" /\ h'.method = h.method /\ h.method \in DOMAIN Program
      /\ p = Program[h.method] /\ Op = s[h.pc] /\ P' = p /\ Fences(h.method, s) /\ Spares(p)
      /\ edits' = edits
  BY AtWork, Rules, StillKeeps DEF Op, Steps, P
<1>1. SUFFICES ASSUME target'.look = "foreign"
               PROVE  /\ queue' = "delete" => edits > h'.seenEdits
                      /\ h'.result = "none" /\ Seen(h'.pc) => edits > h'.seenEdits
  BY <1>0 DEF SparesInv, Steps
<1>2. target.look = "foreign"
  BY <1>1, ForeignIsKept
<1>3. /\ queue = "delete" => edits > h.seenEdits
      /\ Seen(h.pc) => edits > h.seenEdits
  BY <1>0, <1>2 DEF SparesInv, Steps
<1>4. /\ queue # "none" => Op \notin {"look", "loop"}
      /\ Op \in QueueOps /\ p.effect = "delete" => Seen(h.pc)
      /\ "foreign" \notin p.own
  BY <1>0 DEF QueueInv, Fences, Spares, Steps
<1>5. Seen(h.pc + 1) => Seen(h.pc) \/ (Op = "look" /\ "foreign" \notin p.accept)
  BY <1>0, BehindNext
<1>6. \A j \in 2..h.pc : Seen(j) => Seen(h.pc)
  <2>1. \A j \in 2..h.pc : j \in Nat /\ j <= h.pc
    BY <1>0
  <2> QED
    BY <1>0, <2>1, BehindLess
<1> HIDE DEF p, s, Seen
<1>7. CASE \E r \in {"ok", "unchecked", "definite", "unknown"} : Ends(r)
  BY <1>3, <1>7 DEF Ends, Ended
<1>8. CASE \E r \in {"definite", "unknown"} : CleanEnds(r)
  BY <1>3, <1>8 DEF CleanEnds, Ended
<1>9. CASE Goes
  <2>1. /\ h'.pc = h.pc + 1
        /\ \/ h'.seenEdits = h.seenEdits /\ Op # "look"
           \/ h'.seenEdits = edits /\ Op = "look" /\ target.look \in p.accept
        /\ queue' = queue \/ (queue' = p.effect /\ Op \in QueueOps)
    BY <1>9 DEF Goes, GoesReading, GoesChanging, p
  <2>2. CASE h'.seenEdits = h.seenEdits /\ Op # "look"
    BY <1>3, <1>4, <1>5, <2>1, <2>2
  <2>3. CASE Op = "look" /\ "foreign" \in p.accept
    <3>1. queue' # "delete"
      BY <1>4, <2>1, <2>3 DEF QueueOps
    <3>2. ~Seen(h.pc + 1)
      BY <2>3 DEF Seen
    <3> QED
      BY <2>1, <3>1, <3>2
  <2> QED
    BY <1>2, <2>1, <2>2, <2>3
<1>10. CASE Jumps
  <2>1. Op = "loop" /\ h'.pc = LastRepeat + 1 /\ queue' = queue /\ h'.seenEdits = h.seenEdits
    BY <1>10 DEF Jumps, Turned
  <2>2. LastRepeat + 1 \in 2..h.pc
    BY <1>0, <2>1, LoopBack DEF LastRepeat, Steps, s, p
  <2> QED
    BY <1>3, <1>6, <2>1, <2>2
<1>11. CASE Cleans
  BY <1>3, <1>11 DEF Cleans, Turned
<1>12. CASE CleanGoes
  BY <1>2, <1>12 DEF CleanGoes
<1>13. CASE CleanQueues
  BY <1>2, <1>4, <1>13 DEF CleanQueues, p
<1> QED
  BY <1>7, <1>8, <1>9, <1>10, <1>11, <1>12, <1>13 DEF HandlerMoves

\* OwnInv, by its parts.
OwnOK(t, p, pc, result, submitted) ==
  t.mine =>
    /\ t.look \in MadeBy(p.effect)
    /\ result # "definite"
    /\ result = "none" => Loaded(p.steps, pc) /\ (submitted \/ p.steps[pc] = "ok")

\* OwnInv is kept.
LEMMA OwnStep ==
  ASSUME HandlerShape, OwnInv, HandlerMoves
  PROVE  OwnInv'
<1> DEFINE p == P
           s == p.steps
<1>0. /\ h.pc \in 1..Len(s) /\ h.pc \in Nat \ {0} /\ WellFormed(s) /\ h.result = "none"
      /\ h'.method = h.method /\ h.method \in DOMAIN Program
      /\ p = Program[h.method] /\ Op = s[h.pc] /\ P' = p /\ KeepsToOwn(h.method, p)
      /\ h.method \notin Hasty => Careful(p)
  BY AtWork, Rules DEF Op, Steps, P
<1>1. SUFFICES ASSUME h.method \notin Hasty
               PROVE  OwnOK(target', p, h'.pc, h'.result, h'.submitted)
  BY <1>0 DEF OwnInv, OwnOK, Steps, Op
<1>2. Shaped(target) /\ h.submitted \in BOOLEAN
  BY DEF HandlerShape
<1>3. target.mine => /\ target.look \in MadeBy(p.effect) /\ Loaded(s, h.pc)
                     /\ h.submitted \/ Op = "ok"
  BY <1>0, <1>1 DEF OwnInv, Steps
<1>4. /\ Loaded(s, h.pc) => Op \in CarefulOps
      /\ Op # "setContext"
      /\ Op = "publish" => s[h.pc + 1] = "ok" /\ p.effect = "write"
      /\ Op \in {"assign", "verifyOrCleanup"} => MadeBy(p.effect) \subseteq p.own
      /\ Op = "assign" => p.effect \in {"createBare", "createPart"}
  BY <1>0, <1>1 DEF Careful, KeepsToOwn
<1>5. Op # "cleanup" /\ (Loaded(s, h.pc) \/ Op \in ChangeOps) => Loaded(s, h.pc + 1)
  BY <1>0, LoadedNext
<1> HIDE DEF p, s
<1>6. CASE \E r \in {"ok", "unchecked", "definite", "unknown"} : Ends(r)
  <2>1. PICK r \in {"ok", "unchecked", "definite", "unknown"} : Ends(r)
    BY <1>6
  <2>2. /\ target' = target /\ h'.result = r /\ h'.pc = h.pc
        /\ r = "definite" => /\ Op \notin {"fence", "poll"} \cup EndOps \cup StopOps \cup CleanupOps
                             /\ Op \in {"verify", "checkDone"} => ~h.submitted
    BY <1>4, <2>1 DEF Ends, Ended, p
  <2>3. target.mine => r # "definite"
    BY <1>2, <1>3, <1>4, <2>2 DEF CarefulOps, EndOps
  <2> QED
    BY <1>3, <2>2, <2>3 DEF OwnOK
<1>7. CASE \E r \in {"definite", "unknown"} : CleanEnds(r)
  <2>1. PICK r \in {"definite", "unknown"} : CleanEnds(r)
    BY <1>7
  <2>2. /\ target' = target /\ h'.result = r
        /\ r = "definite" => \/ target.look = "absent"
                             \/ Op \in {"assign", "verifyOrCleanup"} /\ target.look \notin p.own
    BY <2>1 DEF CleanEnds, Ended, p
  <2> QED
    BY <1>2, <1>3, <1>4, <2>2 DEF OwnOK, Shaped
<1>8. CASE Goes
  <2>1. /\ h'.pc = h.pc + 1 /\ h'.result = "none" /\ Op \notin {"ok", "cleanup"}
        /\ h'.submitted \in BOOLEAN /\ (h.submitted => h'.submitted)
        /\ \/ target' = target
           \/ target' = Apply(p.effect, target) /\ Op \in DirectOps /\ h'.submitted
           \/ target' = Apply("write", target) /\ Op = "publish"
           \/ \E look \in AssignedLooks(target.look) : Assigns(look)
    BY <1>8 DEF Goes, GoesChanging, EndOps, p
  <2>2. CASE target' = target
    BY <1>3, <1>5, <2>1, <2>2 DEF OwnOK, s
  <2>3. CASE target' = Apply(p.effect, target) /\ Op \in DirectOps /\ h'.submitted
    <3>1. target'.mine => target' = target \/ target'.look \in MadeBy(p.effect)
      BY <1>2, <2>3, ApplyIs
    <3>2. Loaded(s, h.pc + 1)
      BY <1>5, <2>1, <2>3 DEF ChangeOps
    <3> QED
      BY <1>3, <2>1, <2>3, <3>1, <3>2 DEF OwnOK, s
  <2>4. CASE target' = Apply("write", target) /\ Op = "publish"
    <3>1. target'.mine => target' = target \/ target'.look \in MadeBy(p.effect)
      BY <1>2, <1>4, <2>4, ApplyIs
    <3>2. Loaded(s, h.pc + 1)
      BY <1>5, <2>1, <2>4 DEF ChangeOps
    <3> QED
      BY <1>3, <1>4, <2>1, <2>4, <3>1, <3>2 DEF OwnOK, s
  <2>5. ASSUME NEW look \in AssignedLooks(target.look), Assigns(look)
        PROVE  OwnOK(target', p, h'.pc, h'.result, h'.submitted)
    <3>1. /\ target'.mine = target.mine /\ target'.look = look /\ Op = "assign"
          /\ target.look \in Looks \ {"absent"}
      BY <1>2, <2>5 DEF Assigns, Shaped
    <3>2. look = target.look \/ look \in {"mine", "off"}
      BY <2>5, <3>1, AssignedLooksAre
    <3>3. {"mine", "off"} \subseteq MadeBy(p.effect)
      BY <1>4, <3>1 DEF MadeBy
    <3> QED
      BY <1>3, <1>5, <2>1, <3>1, <3>2, <3>3 DEF OwnOK, s
  <2> QED
    BY <2>1, <2>2, <2>3, <2>4, <2>5
<1>9. CASE Jumps
  <2>1. Op = "loop" /\ target' = target
    BY <1>9 DEF Jumps, Turned
  <2>2. ~target.mine
    BY <1>3, <1>4, <2>1 DEF CarefulOps, CleanupOps, StopOps, EndOps
  <2> QED
    BY <2>1, <2>2 DEF OwnOK
<1>10. CASE Cleans \/ CleanQueues
  <2>1. /\ target' = target \/ (target'.mine = target.mine /\ target'.look = target.look)
        /\ h'.pc = h.pc /\ h'.result = "none" /\ h'.submitted = h.submitted
    BY <1>10 DEF Cleans, Turned, CleanQueues, CleanMoves, Assigns
  <2> QED
    BY <1>0, <1>3, <2>1 DEF OwnOK, s
<1>11. CASE CleanGoes
  BY <1>2, <1>11 DEF CleanGoes, CleanMoves, OwnOK, Shaped
<1> QED
  BY <1>6, <1>7, <1>8, <1>9, <1>10, <1>11 DEF HandlerMoves

\* MarkInv, by its parts.
MarkOK(t, q, p, m, pc, result, cleanup, seenEdits) ==
  /\ t.marked => /\ m \in Assigners
                 /\ result = "none" => Behind(p.steps, pc, QueueOps)
                 /\ result = "none" /\ cleanup # "wait" => edits > seenEdits
                 /\ result = "definite" => edits > seenEdits
  /\ p.own # {} /\ Behind(p.steps, pc, {"look"}) /\ t.look # "absent" =>
       /\ result = "none" /\ cleanup # "wait" /\ ~t.mine => edits > seenEdits
       /\ t.look \in {"mine", "off"} => t.mine \/ (t.marked /\ m = "exception_set")
  /\ q = "delete" /\ p.effect # "delete" =>
       /\ p.own # {}
       /\ t.look # "absent" /\ ~t.mine => \/ m = "exception_set" /\ (t.marked \/ t.look = "bare")
                                         \/ edits > seenEdits

\* MarkInv is kept.
LEMMA MarkStep ==
  ASSUME HandlerShape, QueueInv, MarkInv, HandlerMoves
  PROVE  MarkInv'
<1> DEFINE p == P
           s == p.steps
           m == h.method
           OK == MarkOK(target', queue', p, m, h'.pc, h'.result, h'.cleanup, h'.seenEdits)
<1>0. /\ h.pc \in 1..Len(s) /\ h.pc \in Nat \ {0} /\ WellFormed(s) /\ h.result = "none"
      /\ m # "none" /\ h'.method = m /\ m \in DOMAIN Program /\ p = Program[m]
      /\ Op = s[h.pc] /\ P' = p /\ Fences(m, s) /\ KeepsToOwn(m, p) /\ edits' = edits
  BY AtWork, Rules, StillKeeps DEF Op, Steps, P
<1>1. MarkOK(target, queue, p, m, h.pc, "none", h.cleanup, h.seenEdits)
  BY <1>0 DEF MarkInv, MarkOK, Adopted, Steps
<1>2. SUFFICES OK
  BY <1>0 DEF MarkInv, MarkOK, Adopted, Steps
<1>3. Shaped(target)
  BY DEF HandlerShape
<1>4. /\ Op \in CleanupOps => p.own # {} /\ Behind(s, h.pc, {"look"}) /\ Behind(s, h.pc, QueueOps)
      /\ Op = "assign" => m \in Assigners
      /\ p.own # {} => /\ p.accept = {"absent"}
                       /\ p.own \subseteq {"mine", "off", "bare"}
                       /\ "bare" \in p.own => m = "exception_set"
                       /\ Op \notin DirectOps \cup {"publish"}
      /\ Behind(s, h.pc, QueueOps) => Op \notin {"look", "loop"}
  BY <1>0 DEF KeepsToOwn, Fences
<1>5. queue # "none" => /\ Behind(s, h.pc, QueueOps)
                        /\ m \in Assigners => h.cleanup = "wait" \/ Op = "fence"
  BY <1>0 DEF QueueInv, Steps, Polled, Assigners
<1>6. \A ops : Behind(s, h.pc + 1, ops) <=> Behind(s, h.pc, ops) \/ Op \in ops
  BY <1>0, BehindNext
<1>7. h.cleanup # "none" => Op \in CleanupOps
  BY <1>0 DEF HandlerShape
<1> HIDE DEF p, s, m
\* An assignment marks only what came after the look.
<1>8. ASSUME NEW look \in AssignedLooks(target.look) \cup {target.look}, Assigns(look),
             h.cleanup = "none"
      PROVE  /\ m \in Assigners /\ queue # "delete" /\ target'.look # "absent"
             /\ p.own # {} /\ Behind(s, h.pc, {"look"}) /\ Behind(s, h.pc, QueueOps)
             /\ target'.marked => edits > h.seenEdits
             /\ ~target'.mine => edits > h.seenEdits
             /\ target'.look \in {"mine", "off"} =>
                  target'.mine \/ (target'.marked /\ m = "exception_set")
  <2>1. /\ Op = "assign" /\ target.look # "absent" /\ target'.look = look
        /\ target'.mine = target.mine /\ target'.marked = ~target.mine
        /\ target.look \in Looks \ {"absent"}
        /\ target.mine \in BOOLEAN /\ (target.mine => ~target.marked)
    BY <1>3, <1>8 DEF Assigns, Shaped
  <2>2. m \in Assigners /\ p.own # {} /\ Behind(s, h.pc, {"look"}) /\ Behind(s, h.pc, QueueOps)
    BY <1>4, <2>1 DEF CleanupOps
  <2>3. queue # "delete"
    BY <1>5, <1>8, <2>1, <2>2
  <2>4. ~target.mine => edits > h.seenEdits
    BY <1>1, <1>8, <2>1, <2>2 DEF MarkOK, s
  <2>5. look # "absent" /\ (m # "exception_set" /\ look \in {"mine", "off"} => target.look \in {"mine", "off"})
    BY <1>8, <2>1, AssignedLooksAre DEF m
  <2>6. target.look \in {"mine", "off"} => target.mine \/ m = "exception_set"
    BY <1>1, <2>1, <2>2 DEF MarkOK, s
  <2> QED
    BY <2>1, <2>2, <2>3, <2>4, <2>5, <2>6
<1>9. CASE \E r \in {"ok", "unchecked", "definite", "unknown"} : Ends(r)
  <2>1. PICK r \in {"ok", "unchecked", "definite", "unknown"} : Ends(r)
    BY <1>9
  <2>2. /\ h'.pc = h.pc /\ h'.result = r /\ h'.cleanup = h.cleanup /\ h'.seenEdits = h.seenEdits
        /\ queue' = queue /\ h.cleanup = "none" /\ r # "none"
        /\ target' = target \/ (target' = Apply(p.effect, target) /\ Op = "setContext")
    BY <2>1 DEF Ends, Ended, Running, p
  <2>3. CASE target' = target
    BY <1>1, <2>2, <2>3 DEF MarkOK
  <2>4. CASE target' = Apply(p.effect, target) /\ Op = "setContext"
    <3>1. target' = target \/ ~target'.marked
      BY <1>3, <2>4, ApplyIs
    <3>2. p.own = {}
      BY <1>4, <2>4 DEF DirectOps
    <3> QED
      BY <1>1, <2>2, <3>1, <3>2 DEF MarkOK
  <2> QED
    BY <2>2, <2>3, <2>4
<1>10. CASE \E r \in {"definite", "unknown"} : CleanEnds(r)
  <2>1. PICK r \in {"definite", "unknown"} : CleanEnds(r)
    BY <1>10
  <2>2. /\ h'.pc = h.pc /\ h'.result = r /\ h'.cleanup = h.cleanup /\ h'.seenEdits = h.seenEdits
        /\ queue' = queue /\ target' = target
        /\ r = "definite" => target.look = "absent" \/ h.cleanup = "look" \/ m = "run_to"
    BY <2>1 DEF CleanEnds, Ended, m
  <2>3. target.marked => target.look # "absent" /\ m # "run_to"
    BY <1>1, <1>3 DEF MarkOK, Shaped, Assigners
  <2> QED
    BY <1>1, <2>2, <2>3 DEF MarkOK
<1>11. CASE Goes
  <2>1. /\ h'.pc = h.pc + 1 /\ h'.result = "none" /\ h'.cleanup = "none" /\ h.cleanup = "none"
        /\ \/ h'.seenEdits = h.seenEdits /\ Op # "look"
           \/ h'.seenEdits = edits /\ Op = "look" /\ target.look \in p.accept
        /\ queue' = queue \/ (queue' = p.effect /\ Op \in QueueOps)
        /\ \/ target' = target
           \/ target' = Apply(p.effect, target) /\ Op \in DirectOps
           \/ target' = Apply("write", target) /\ Op = "publish"
           \/ \E look \in AssignedLooks(target.look) : Assigns(look)
    BY <1>11 DEF Goes, GoesReading, GoesChanging, Running, p
  <2>2. queue' = "delete" /\ p.effect # "delete" => queue = "delete"
    BY <2>1
  <2>3. CASE target' = target /\ Op # "look"
    BY <1>1, <1>6, <2>1, <2>2, <2>3 DEF MarkOK, s
  <2>4. CASE target' = target /\ Op = "look"
    <3>1. queue = "none" /\ ~target.marked
      BY <1>1, <1>4, <1>5, <2>4 DEF MarkOK, s
    <3>2. p.own # {} => target.look = "absent"
      BY <1>4, <2>1, <2>4
    <3> QED
      BY <2>1, <2>2, <2>4, <3>1, <3>2 DEF MarkOK
  <2>5. CASE /\ Op \in DirectOps \cup {"publish"}
             /\ target' = Apply(p.effect, target) \/ target' = Apply("write", target)
    <3>1. target' = target \/ ~target'.marked
      BY <1>3, <2>5, ApplyIs
    <3>2. p.own = {}
      BY <1>4, <2>5
    <3>3. Op # "look"
      BY <2>5 DEF DirectOps
    <3> QED
      BY <1>1, <1>6, <2>1, <2>2, <3>1, <3>2, <3>3 DEF MarkOK, s
  <2>6. ASSUME NEW look \in AssignedLooks(target.look), Assigns(look)
        PROVE  OK
    <3>1. Op = "assign"
      BY <2>6 DEF Assigns
    <3> QED
      BY <1>6, <1>8, <2>1, <2>2, <2>6, <3>1 DEF MarkOK, s
  <2> QED
    BY <2>1, <2>3, <2>4, <2>5, <2>6
<1>12. CASE Jumps
  <2>1. /\ Op = "loop" /\ h'.pc = LastRepeat + 1 /\ queue' = queue /\ target' = target
        /\ h'.result = "none" /\ h'.seenEdits = h.seenEdits /\ h.cleanup = "none"
    BY <1>12 DEF Jumps, Turned, Running
  <2>2. LastRepeat + 1 \in 2..h.pc
    BY <1>0, <2>1, LoopBack DEF LastRepeat, Steps, s, p
  <2>3. LastRepeat + 1 \in Nat /\ LastRepeat + 1 <= h.pc
    BY <1>0, <2>2
  <2>4. Behind(s, LastRepeat + 1, {"look"}) => Behind(s, h.pc, {"look"})
    BY <1>0, <2>3, BehindLess
  <2>5. ~target.marked
    BY <1>1, <1>4, <2>1 DEF MarkOK, s
  <2> QED
    BY <1>1, <2>1, <2>4, <2>5 DEF MarkOK, s
<1>13. CASE Cleans
  <2>1. /\ h'.pc = h.pc /\ queue' = queue /\ h'.result = "none" /\ h'.cleanup = "look"
        /\ h'.seenEdits = h.seenEdits /\ h.cleanup = "none"
        /\ target' = target \/ Assigns(target.look)
    BY <1>13 DEF Cleans, Turned, Running
  <2>2. CASE target' = target
    BY <1>1, <2>1, <2>2 DEF MarkOK
  <2>3. CASE Assigns(target.look)
    BY <1>8, <2>1, <2>3 DEF MarkOK, s
  <2> QED
    BY <2>1, <2>2, <2>3
<1>14. CASE CleanGoes
  <2>1. /\ target' = target /\ target.look = "absent" /\ queue' = queue
    BY <1>14 DEF CleanGoes, CleanMoves
  <2>2. ~target.marked
    BY <1>3, <2>1 DEF Shaped
  <2> QED
    BY <1>1, <2>1, <2>2 DEF MarkOK
<1>15. CASE CleanQueues
  <2>1. /\ target' = target /\ h'.pc = h.pc /\ h'.result = "none" /\ h'.cleanup = "wait"
        /\ target.look \in p.own /\ h.cleanup # "none"
    BY <1>15 DEF CleanQueues, CleanMoves, Cleaning, p
  <2>2. p.own # {} /\ Behind(s, h.pc, {"look"})
    BY <1>4, <1>7, <2>1
  <2>3. target.look # "absent" /\ (target.look = "bare" => m = "exception_set")
    BY <1>4, <2>1, <2>2
  <2>4. target.look # "bare" => target.mine \/ (target.marked /\ m = "exception_set")
    BY <1>1, <1>4, <2>1, <2>2, <2>3 DEF MarkOK, s
  <2> QED
    BY <1>1, <2>1, <2>2, <2>3, <2>4 DEF MarkOK
<1> QED
  BY <1>9, <1>10, <1>11, <1>12, <1>13, <1>14, <1>15 DEF HandlerMoves

\* DumpInv is kept.
LEMMA DumpStepKeeps ==
  ASSUME HandlerShape, ReadsInv, DumpInv, HandlerMoves
  PROVE  DumpInv'
<1> DEFINE p == P
           s == p.steps
<1>0. /\ h.pc \in 1..Len(s) /\ h.pc \in Nat \ {0} /\ WellFormed(s) /\ h.result = "none"
      /\ h.method # "none" /\ h'.method = h.method /\ h.method \in DOMAIN Program
      /\ p = Program[h.method] /\ Op = s[h.pc] /\ P' = p /\ Steps = s
      /\ h.method \in Dumps => Dumping(s) /\ h.method \notin Hasty \cup Unchecked
      /\ h.method \notin Hasty => Careful(p)
      /\ ChecksLast(h.method, s)
  BY AtWork, Rules DEF Op, Steps, P, Dumps, Hasty, Unchecked
<1>1. SUFFICES ASSUME h.method \in Dumps
               PROVE  /\ Behind(s, h'.pc, {"read"}) => h'.reads # {}
                      /\ target'.mine => /\ h'.result \in {"none", "ok"} /\ h'.reads = {h'.snap}
                                         /\ h'.result = "none" => s[h'.pc] = "ok"
  BY <1>0 DEF DumpInv, Steps, Op
<1>2. /\ Behind(s, h.pc, {"read"}) => h.reads # {}
      /\ target.mine => h.reads = {h.snap} /\ Op = "ok"
      /\ Sealed(s, h.pc) => h.reads \subseteq {h.snap}
  BY <1>0, <1>1 DEF DumpInv, ReadsInv
<1>3. /\ Op \notin QueueOps \cup DirectOps \cup CleanupOps \cup StopOps
      /\ Op = "publish" => Sealed(s, h.pc) /\ Behind(s, h.pc, {"read"}) /\ s[h.pc + 1] = "ok"
      /\ Op \notin UncheckedOps
  BY <1>0, <1>1 DEF Dumping, Careful, ChecksLast, UncheckedOps
<1>4. h.cleanup = "none"
  BY <1>0, <1>3 DEF HandlerShape
<1>5. Behind(s, h.pc + 1, {"read"}) <=> Behind(s, h.pc, {"read"}) \/ Op = "read"
  BY <1>0, BehindNext
<1> HIDE DEF p, s
<1>6. CASE \E r \in {"ok", "unchecked", "definite", "unknown"} : Ends(r)
  <2>1. PICK r \in {"ok", "unchecked", "definite", "unknown"} : Ends(r)
    BY <1>6
  <2>2. /\ target' = target /\ h'.result = r /\ h'.pc = h.pc /\ h'.reads = h.reads
        /\ h'.snap = h.snap /\ (Op = "ok" => r = "ok")
    BY <1>3, <2>1 DEF Ends, Ended, DirectOps
  <2> QED
    BY <1>2, <2>2
<1>7. CASE Goes
  <2>1. /\ h'.pc = h.pc + 1 /\ h'.result = "none" /\ Op # "ok"
        /\ \/ h'.reads = h.reads /\ Op \notin ReadOps
           \/ h'.reads = h.reads \cup {generation}
        /\ Op = "publish" => h'.reads = h.reads /\ h'.snap = h.snap
        /\ target' = target \/ Op = "publish"
    BY <1>3, <1>7 DEF Goes, GoesReading, GoesChanging, Assigns, ReadOps, CleanupOps, StopOps, EndOps
  <2>2. Behind(s, h'.pc, {"read"}) => h'.reads # {}
    BY <1>2, <1>5, <2>1 DEF ReadOps
  <2>3. Op = "publish" => h.reads = {h.snap}
    BY <1>2, <1>3
  <2> QED
    BY <1>2, <1>3, <2>1, <2>2, <2>3
<1>8. CASE Jumps
  <2>1. /\ Op = "loop" /\ h'.pc = LastRepeat + 1 /\ h'.reads = h.reads /\ target' = target
    BY <1>8 DEF Jumps, Turned
  <2>2. LastRepeat + 1 \in 2..h.pc
    BY <1>0, <2>1, LoopBack DEF LastRepeat, Steps, s, p
  <2>3. LastRepeat + 1 \in Nat /\ LastRepeat + 1 <= h.pc
    BY <1>0, <2>2
  <2>4. Behind(s, LastRepeat + 1, {"read"}) => Behind(s, h.pc, {"read"})
    BY <1>0, <2>3, BehindLess
  <2> QED
    BY <1>2, <2>1, <2>4
<1>9. CASE Cleans
  BY <1>3, <1>9 DEF Cleans
<1>10. CASE CleanGoes \/ CleanQueues \/ \E r \in {"definite", "unknown"} : CleanEnds(r)
  BY <1>4, <1>10 DEF CleanGoes, CleanQueues, CleanEnds, CleanMoves, Cleaning
<1> QED
  BY <1>6, <1>7, <1>8, <1>9, <1>10 DEF HandlerMoves

-----------------------------------------------------------------------------
(* The surroundings.                                                       *)

\* No handler has the name of the idle one.
LEMMA NoneIsNoMethod == "none" \notin DOMAIN Program
BY DEF Program

\* A request starts its handler.
LEMMA CallKeeps ==
  ASSUME HandlerInv, NEW m \in Calls, NEW cursor \in 0..generation, NEW look \in {"absent", "mine"},
         Call(m, cursor, look)
  PROVE  HandlerInv'
<1>1. m \in DOMAIN Program /\ m # "none"
  BY HandlersAssumption, NoneIsNoMethod
<1> DEFINE s == Program[m].steps
<1>2. WellFormed(s) /\ Len(s) \in Nat /\ 1 \in 1..Len(s) /\ DOMAIN s = 1..Len(s)
  BY <1>1, Rules DEF WellFormed
<1>3. h' = [Idle EXCEPT !.method = m, !.pc = 1, !.cursor = cursor, !.cursorLook = look]
  BY DEF Call
<1>4. /\ DOMAIN h' = Fields /\ h'.method = m /\ h'.pc = 1 /\ h'.snap = 0 /\ h'.cursor = cursor
      /\ h'.reads = {} /\ h'.seenEdits = 0 /\ h'.submitted = FALSE /\ h'.cleanup = "none"
      /\ h'.result = "none"
  BY <1>3 DEF Idle, Fields
<1>5. /\ generation' = generation /\ pausedGeneration' = pausedGeneration /\ edits' = edits
      /\ target' = target /\ queue' = "none" /\ temp' = "none" /\ ~target.mine /\ ~target.marked
  BY DEF Call, Keep, snapshotVars, HandlerInv, HandlerShape
<1>6. P' = Program[m] /\ Steps' = s
  BY <1>4 DEF P, Steps
<1>7. \A ops : ~Behind(s, 1, ops)
  BY DEF Behind
<1>8. HandlerShape'
  <2>1. /\ generation \in Nat /\ pausedGeneration \in Nat /\ pausedGeneration <= generation
        /\ edits \in Nat /\ Shaped(target)
    BY DEF HandlerInv, HandlerShape
  <2>2. h'.pc \in Nat /\ h'.snap \in Nat /\ h'.seenEdits \in Nat /\ h'.seenEdits <= edits
    BY <1>4, <2>1
  <2>3. h'.submitted \in BOOLEAN
    BY <1>4
  <2> QED
    BY <1>1, <1>2, <1>4, <1>5, <1>6, <2>1, <2>2, <2>3, Zenon DEF HandlerShape
<1>9. ReadsInv'
  <2>1. generation \in Nat
    BY DEF HandlerInv, HandlerShape
  <2> QED
    BY <1>4, <1>5, <2>1 DEF ReadsInv
<1>10. CursorInv'
  <2>1. cursor # 0 => \E i \in 1..Len(s) : s[i] = "cursor"
    BY <1>2 DEF Call
  <2>2. ~Behind(s, h'.pc, {"cursor"})
    BY <1>4, <1>7
  <2> QED
    BY <1>4, <1>6, <2>1, <2>2 DEF CursorInv
<1>11. QueueInv'
  BY <1>5 DEF QueueInv
<1>12. SparesInv'
  <2>1. ~Behind(s, h'.pc, {"look"})
    BY <1>4, <1>7
  <2> QED
    BY <1>5, <1>6, <2>1 DEF SparesInv
<1>13. OwnInv'
  BY <1>5 DEF OwnInv
<1>14. MarkInv'
  <2>1. ~Behind(s, h'.pc, {"look"})
    BY <1>4, <1>7
  <2> QED
    BY <1>5, <1>6, <2>1 DEF MarkInv
<1>15. DumpInv'
  <2>1. ~Behind(s, h'.pc, {"read"})
    BY <1>4, <1>7
  <2> QED
    BY <1>5, <1>6, <2>1 DEF DumpInv
<1> QED
  BY <1>8, <1>9, <1>10, <1>11, <1>12, <1>13, <1>14, <1>15 DEF HandlerInv

\* x64dbg executes a queued command.
LEMMA ExecuteKeeps ==
  ASSUME HandlerInv, Execute
  PROVE  HandlerInv'
<1> USE DEF HandlerInv
<1>1. /\ h' = h /\ temp' = temp /\ queue # "none" /\ queue' = "none" /\ generation' = generation
      /\ pausedGeneration' = pausedGeneration /\ edits' = edits
      /\ target' = target \/ target' = Apply(queue, target)
  BY DEF Execute, snapshotVars
<1>2. P' = P /\ Steps' = Steps /\ Op' = Op
  BY <1>1 DEF P, Steps, Op
<1>3. Shaped(target) /\ h.method # "none"
  BY <1>1 DEF HandlerShape
<1>4. /\ Shaped(target')
      /\ target' = target \/ ~target'.marked
      /\ queue = "delete" => target' = target \/ target'.look = "absent"
      /\ queue \in {"create", "createBare", "createPart"} => target' = target \/ target'.mine
      /\ target'.look = "foreign" => target' = target
      /\ target'.mine => target' = target \/ (queue # "delete" /\ target'.look \in MadeBy(queue))
  BY <1>1, <1>3, ApplyIs
<1>5. HandlerShape'
  BY <1>1, <1>2, <1>3, <1>4 DEF HandlerShape
<1>6. ReadsInv' /\ CursorInv'
  BY <1>1, <1>2 DEF ReadsInv, CursorInv
<1>7. QueueInv'
  BY <1>1 DEF QueueInv
<1>8. SparesInv'
  BY <1>1, <1>2, <1>4 DEF SparesInv
<1>9. OwnInv'
  <2>1. CASE target' = target
    BY <1>1, <1>2, <2>1 DEF OwnInv
  <2>2. CASE target'.mine /\ queue # "delete" /\ target'.look \in MadeBy(queue)
    <3>1. /\ queue = P.effect /\ h.submitted /\ h.result # "definite"
          /\ h.result = "none" => Loaded(Steps, h.pc)
      BY <1>1, <2>2 DEF QueueInv
    <3> QED
      BY <1>1, <1>2, <2>2, <3>1 DEF OwnInv
  <2>3. CASE ~target'.mine
    BY <2>3 DEF OwnInv
  <2> QED
    BY <1>4, <2>1, <2>2, <2>3
<1>10. DumpInv'
  BY <1>1 DEF DumpInv, QueueInv
<1>11. MarkInv'
  <2>1. CASE target' = target
    BY <1>1, <1>2, <2>1 DEF MarkInv
  <2>2. CASE ~target'.marked /\ target'.look = "absent"
    BY <1>1, <2>2 DEF MarkInv
  <2>3. CASE ~target'.marked /\ P.own = {}
    BY <1>1, <1>2, <2>3 DEF MarkInv
  <2>4. CASE ~target'.marked /\ target'.mine
    BY <1>1, <1>2, <2>4 DEF MarkInv
  <2>5. P.own # {} => P.effect \in {"create", "createBare", "createPart"}
    BY <1>3, Rules DEF KeepsToOwn, HandlerShape, P
  <2>6. queue \in {"delete", P.effect}
    BY <1>1 DEF QueueInv
  <2> QED
    BY <1>4, <2>1, <2>2, <2>3, <2>4, <2>5, <2>6
<1> QED
  BY <1>5, <1>6, <1>7, <1>8, <1>9, <1>10, <1>11

\* The debuggee moves.
LEMMA MovesKeeps ==
  ASSUME HandlerInv, NEW next \in DebuggeeStates, Moves(next)
  PROVE  HandlerInv'
<1> USE DEF HandlerInv
<1>1. /\ h' = h /\ temp' = temp /\ queue' = queue /\ generation' = generation + 1 /\ edits' = edits
      /\ pausedGeneration' \in {pausedGeneration, generation + 1}
      /\ target' = target \/ target' = Others("absent")
  BY DEF Moves, Observe
<1>2. P' = P /\ Steps' = Steps /\ Op' = Op
  BY <1>1 DEF P, Steps, Op
<1>3. /\ generation \in Nat /\ pausedGeneration \in Nat /\ pausedGeneration <= generation
      /\ h.snap \in Nat
  BY DEF HandlerShape
<1>4. generation' \in Nat /\ pausedGeneration' \in Nat /\ pausedGeneration' <= generation'
  BY <1>1, <1>3
<1>5. target' = target \/ (/\ Shaped(target') /\ target'.look = "absent" /\ ~target'.mine
                           /\ ~target'.marked)
  <2>1. CASE target' = Others("absent")
    BY <2>1 DEF Others, Shaped, Looks
  <2> QED
    BY <1>1, <2>1
<1>6. HandlerShape'
  <2>1. Shaped(target') /\ (target'.mine => target.mine) /\ (target'.marked => target.marked)
    BY <1>5 DEF HandlerShape
  <2> QED
    BY <1>1, <1>2, <1>4, <2>1 DEF HandlerShape
<1>7. ReadsInv'
  <2>1. h.snap <= generation'
    BY <1>1, <1>3 DEF ReadsInv
  <2>2. \A r \in h.reads : r \in Nat /\ (h.result # "unchecked" => h.snap <= r) /\ r <= generation'
    BY <1>1, <1>3 DEF ReadsInv
  <2> QED
    BY <1>1, <1>2, <2>1, <2>2 DEF ReadsInv
<1>8. CursorInv' /\ QueueInv'
  BY <1>1, <1>2 DEF CursorInv, QueueInv
<1>9. SparesInv' /\ OwnInv' /\ DumpInv'
  BY <1>1, <1>2, <1>5 DEF SparesInv, OwnInv, DumpInv
<1>10. MarkInv'
  BY <1>1, <1>2, <1>5 DEF MarkInv, Adopted
<1> QED
  BY <1>6, <1>7, <1>8, <1>9, <1>10

\* The user edits the target.
LEMMA EditKeeps ==
  ASSUME HandlerInv, NEW look \in {"absent", "foreign", "bare"}, UserEdits(look)
  PROVE  HandlerInv'
<1> USE DEF HandlerInv
<1>1. /\ h' = h /\ temp' = temp /\ queue' = queue /\ generation' = generation
      /\ edits' = edits + 1 /\ pausedGeneration' = pausedGeneration
      /\ target' = Others(look)
  BY DEF UserEdits, snapshotVars
<1>2. P' = P /\ Steps' = Steps /\ Op' = Op
  BY <1>1 DEF P, Steps, Op
<1>3. Shaped(target') /\ target'.look = look /\ ~target'.mine /\ ~target'.marked
  BY <1>1 DEF Others, Shaped, Looks
<1>4. edits' \in Nat /\ h.seenEdits <= edits' /\ edits' > h.seenEdits
  BY <1>1 DEF HandlerShape
<1>5. HandlerShape'
  BY <1>1, <1>2, <1>3, <1>4 DEF HandlerShape
<1>6. ReadsInv' /\ CursorInv' /\ QueueInv'
  BY <1>1, <1>2 DEF ReadsInv, CursorInv, QueueInv
<1>7. SparesInv' /\ OwnInv' /\ DumpInv'
  BY <1>1, <1>2, <1>3, <1>4 DEF SparesInv, OwnInv, DumpInv
<1>8. MarkInv'
  BY <1>1, <1>2, <1>3, <1>4 DEF MarkInv
<1> QED
  BY <1>5, <1>6, <1>7, <1>8

\* Nothing that the invariant is about changes.
LEMMA DrainKeeps ==
  ASSUME HandlerInv, UNCHANGED handlerVars, generation' = generation
  PROVE  HandlerInv'
<1>1. /\ h' = h /\ target' = target /\ queue' = queue /\ temp' = temp
      /\ pausedGeneration' = pausedGeneration /\ edits' = edits
  BY DEF handlerVars
<1> QED
  BY <1>1 DEF HandlerInv, HandlerShape, ReadsInv, CursorInv, QueueInv, SparesInv, OwnInv, MarkInv,
     DumpInv, Adopted, P, Steps, Op

-----------------------------------------------------------------------------
(* Theorems.                                                               *)

\* The invariant holds at first.
LEMMA HandlerInit ==
  ASSUME Init
  PROVE  HandlerInv
<1>1. /\ h.method = "none" /\ h.pc = 0 /\ h.snap = 0 /\ h.reads = {} /\ h.seenEdits = 0
      /\ h.submitted = FALSE /\ h.cleanup = "none" /\ h.result = "none" /\ DOMAIN h = Fields
  BY DEF Init, Idle, Fields
<1>2. Shaped(target) /\ ~target.mine /\ ~target.marked
  BY DEF Init, Shaped
<1>3. /\ generation = 1 /\ pausedGeneration = 1 /\ queue = "none" /\ temp = "none" /\ edits = 0
  BY DEF Init
<1>4. HandlerShape
  <2>1. /\ h.pc \in Nat /\ h.snap \in Nat /\ h.seenEdits \in Nat /\ generation \in Nat
        /\ pausedGeneration \in Nat /\ pausedGeneration <= generation /\ edits \in Nat
        /\ h.seenEdits <= edits
    BY <1>1, <1>3
  <2>2. h.submitted \in BOOLEAN
    BY <1>1
  <2>3. h.cleanup \in {"none", "look", "wait"}
    BY <1>1
  <2> QED
    BY <1>1, <1>2, <1>3, <2>1, <2>2, <2>3, Zenon DEF HandlerShape
<1>5. ReadsInv /\ CursorInv /\ QueueInv /\ SparesInv /\ OwnInv /\ MarkInv
  BY <1>1, <1>2, <1>3 DEF ReadsInv, CursorInv, QueueInv, SparesInv, OwnInv, MarkInv
<1>6. DumpInv
  BY <1>1 DEF DumpInv, Dumps
<1> QED
  BY <1>4, <1>5, <1>6 DEF HandlerInv

\* Every step keeps it.
LEMMA HandlerNext ==
  ASSUME HandlerInv, [Next]_vars
  PROVE  HandlerInv'
<1>1. CASE \E m \in Calls, cursor \in 0..generation, look \in {"absent", "mine"} :
             Call(m, cursor, look)
  BY <1>1, CallKeeps
<1>2. CASE HandlerStep
  <2>1. HandlerMoves
    BY <1>2, StepMoves DEF HandlerInv
  <2> QED
    BY <2>1, ShapeStep, ReadsStep, CursorStep, QueueStep, SparesStep, OwnStep, MarkStep,
       DumpStepKeeps
    DEF HandlerInv
<1>3. CASE Execute
  BY <1>3, ExecuteKeeps
<1>4. CASE \E next \in DebuggeeStates : Moves(next)
  BY <1>4, MovesKeeps
<1>5. CASE \E look \in {"absent", "foreign", "bare"} : UserEdits(look)
  BY <1>5, EditKeeps
<1>6. CASE Drains
  BY <1>6, DrainKeeps DEF Drains, Drain
<1>7. CASE UNCHANGED vars
  BY <1>7, DrainKeeps DEF vars, snapshotVars
<1> QED
  BY <1>1, <1>2, <1>3, <1>4, <1>5, <1>6, <1>7 DEF Next

\* In every run of a handler that keeps the rules: reads lie between its snapshot
\* and now, behind a check they are of the snapshot; a queued command belongs to
\* a handler that waits for it or gave up; what it made it will not deny, unless
\* it is hasty; what it named or gave a condition without having made it, the
\* user had put there after its look.
THEOREM HandlerInvHolds == Spec => []HandlerInv
<1>1. Init => HandlerInv
  BY HandlerInit
<1>2. HandlerInv /\ [Next]_vars => HandlerInv'
  BY HandlerNext
<1> QED
  BY <1>1, <1>2, PTL DEF Spec

\* A checked answer is of one pause, read back changes included, and so are all
\* pages of one cursor: the check that a handler of runtime.cpp makes after its
\* reads is enough, however often the debuggee runs and stops in between.  The
\* answers without such a check are those of the handlers in Unchecked.
THEOREM AnswerIsOfOnePauseHolds == Spec => []AnswerIsOfOnePause
<1>1. HandlerInv => AnswerIsOfOnePause
  <2>1. HandlerInv /\ h.result \in {"ok", "unchecked"} => h.method # "none"
    BY DEF HandlerInv, HandlerShape
  <2> QED
    BY <2>1 DEF HandlerInv, ReadsInv, CursorInv, AnswerIsOfOnePause
<1> QED
  BY <1>1, HandlerInvHolds, PTL

\* Behind a settled answer of a fenced handler nothing is queued
\* (submitFencedCommand).
THEOREM SettledMeansDoneHolds == Spec => []SettledMeansDone
<1>1. HandlerInv => SettledMeansDone
  BY DEF HandlerInv, QueueInv, SettledMeansDone
<1> QED
  BY <1>1, HandlerInvHolds, PTL

\* A definite error of a handler that is not hasty leaves nothing behind that the
\* call made, whatever the user and the debuggee did meanwhile (the clean-ups of
\* conditional.set, exception.set and run_to), and its name or condition only on
\* what the user put there after the handler's look.
THEOREM DefiniteLeavesNothingHolds == Spec => []DefiniteLeavesNothing
<1>1. HandlerInv => DefiniteLeavesNothing
  BY DEF HandlerInv, OwnInv, MarkInv, DefiniteLeavesNothing
<1> QED
  BY <1>1, HandlerInvHolds, PTL

\* A dump is published whole and of one pause, and leaves no temporary file
\* (DumpMemory).
THEOREM DumpIsAtomicHolds == Spec => []DumpIsAtomic
<1>1. HandlerInv => DumpIsAtomic
  BY DEF HandlerInv, HandlerShape, DumpInv, DumpIsAtomic
<1> QED
  BY <1>1, HandlerInvHolds, PTL

\* A queued removal destroys a foreign breakpoint, and a clean-up one that the
\* call did not make and exception.set did not adopt, only if the user put it
\* there after the handler's last look.
THEOREM CleanupSparesForeignHolds == Spec => CleanupSparesForeign
<1>1. HandlerInv /\ [Next]_vars =>
        [/\ queue = "delete" /\ queue' = "none" /\ target.look # "absent" /\ target'.look = "absent"
         /\ \/ target.look = "foreign"
            \/ P.effect # "delete" /\ ~target.mine /\ ~Adopted
         => edits > h.seenEdits]_vars
  BY DEF HandlerInv, SparesInv, MarkInv
<1> QED
  BY <1>1, HandlerInvHolds, PTL DEF Spec, CleanupSparesForeign

=============================================================================
