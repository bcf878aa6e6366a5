------------------------- MODULE CommandFence_proofs -------------------------
(***************************************************************************)
(* The safety of CommandFence for any number of operations.                *)
(*                                                                         *)
(* FenceInv is inductive.  A confirmation is given only to the armed token *)
(* of the waiting operation (SignalIsOwn); the token is signalled when its *)
(* fence is the head of a queue that is in submission order (QueueInOrder),*)
(* so its own command, which precedes the fence and is not lost (NotLost), *)
(* has run, and nothing submitted earlier is left.                         *)
(***************************************************************************)
EXTENDS CommandFence, SequenceTheorems, TLAPS

\* What appending to the queue and taking its head do to its elements.
LEMMA QueueAppend ==
  ASSUME commands \in Seq(Queued), NEW e \in Queued
  PROVE  /\ Append(commands, e) \in Seq(Queued)
         /\ Len(Append(commands, e)) = Len(commands) + 1
         /\ \A i \in 1..Len(commands) : Append(commands, e)[i] = commands[i]
         /\ Append(commands, e)[Len(commands) + 1] = e
  OBVIOUS

\* The tail of a queue: its members and their places.
LEMMA QueueTail ==
  ASSUME commands \in Seq(Queued), commands # <<>>
  PROVE  /\ Tail(commands) \in Seq(Queued)
         /\ Len(Tail(commands)) = Len(commands) - 1
         /\ Len(commands) \in Nat \ {0}
         /\ Head(commands) = commands[1]
         /\ commands[1] \in Queued
         /\ \A i \in 1..Len(Tail(commands)) :
              i + 1 \in 1..Len(commands) /\ Tail(commands)[i] = commands[i + 1]
  OBVIOUS

\* The initial state satisfies the invariant.
LEMMA FenceInvInit == FenceInit => FenceInv
<1> SUFFICES ASSUME FenceInit PROVE FenceInv
  OBVIOUS
<1>1. FenceTypeOK
  <2>1. commands \in Seq(Queued) /\ 0 \in 0..MaxOperations
    BY FenceAssumption DEF FenceInit
  <2>2. QED
    BY <2>1 DEF FenceInit, FenceTypeOK, Verdict
<1>2. Len(commands) = 0 /\ 1..Len(commands) = {}
  BY DEF FenceInit
<1>3. QueueInOrder
  BY <1>2 DEF QueueInOrder
<1>4. Numbered /\ NotLost /\ SignalIsOwn
  BY DEF FenceInit, Numbered, NotLost, SignalIsOwn
<1>5. ConfirmedHasRun /\ RejectedNeverRuns /\ ConfirmedFlushes
  BY DEF FenceInit, ConfirmedHasRun, RejectedNeverRuns, ConfirmedFlushes
<1>6. QED
  BY <1>1, <1>3, <1>4, <1>5 DEF FenceInv

\* Starting and stopping the fence leave the queue and the verdicts alone and
\* find or leave no token.
LEMMA LifecycleKeepsInv ==
  ASSUME FenceInv, Start \/ Stop
  PROVE  FenceInv'
<1>1. /\ FenceTypeOK /\ Numbered /\ QueueInOrder /\ NotLost
      /\ ConfirmedHasRun /\ RejectedNeverRuns /\ ConfirmedFlushes
  BY DEF FenceInv
<1>2. /\ accepting' \in BOOLEAN /\ pending' = 0 /\ completed' = FALSE
      /\ UNCHANGED <<last, step, result, commands, executed>>
  BY DEF Start, Stop, callerVars, loopVars
<1>3. FenceTypeOK'
  <2>1. pending' \in 0..MaxOperations
    BY <1>2, FenceAssumption
  <2>2. QED
    BY <1>1, <1>2, <2>1 DEF FenceTypeOK
<1>4. Numbered' /\ QueueInOrder' /\ NotLost'
  BY <1>1, <1>2 DEF Numbered, QueueInOrder, NotLost
<1>5. ConfirmedHasRun' /\ RejectedNeverRuns' /\ ConfirmedFlushes'
  BY <1>1, <1>2 DEF ConfirmedHasRun, RejectedNeverRuns, ConfirmedFlushes
<1>6. SignalIsOwn'
  BY <1>2 DEF SignalIsOwn
<1>7. QED
  BY <1>3, <1>4, <1>5, <1>6 DEF FenceInv

\* A new operation has a number above every number in the queue.
LEMMA DrawTokenKeepsInv ==
  ASSUME FenceInv, DrawToken
  PROVE  FenceInv'
<1>1. /\ FenceTypeOK /\ Numbered /\ QueueInOrder /\ SignalIsOwn
      /\ ConfirmedHasRun /\ RejectedNeverRuns /\ ConfirmedFlushes
  BY DEF FenceInv
<1>2. /\ step = "idle" /\ last \in Nat /\ last' = last + 1 /\ last' \in Operation
      /\ step' \in {"drawn", "idle"}
      /\ UNCHANGED <<accepting, pending, completed, commands, executed>>
      /\ pending = 0 /\ completed = FALSE
  <2>1. step = "idle" /\ last \in 0..MaxOperations /\ last < MaxOperations
    BY <1>1 DEF DrawToken, FenceTypeOK
  <2>2. pending = 0 /\ completed = FALSE
    BY <1>1, <2>1 DEF SignalIsOwn, FenceTypeOK
  <2>3. QED
    BY <2>1, <2>2, FenceAssumption DEF DrawToken, fenceVars, loopVars, Operation
<1>3. result[last'] = "none" /\ last' \notin executed
  BY <1>1, <1>2 DEF Numbered, Operation
<1>4. \/ step' = "drawn" /\ result' = result
      \/ step' = "idle" /\ result' = [result EXCEPT ![last'] = "rejected"]
  BY <1>2 DEF DrawToken
<1>5. \A i \in 1..Len(commands) : commands[i] \in Queued /\ commands[i].of < last'
  <2>1. \A i \in 1..Len(commands) : commands[i] \in Queued
    BY <1>1 DEF FenceTypeOK
  <2>2. \A i \in 1..Len(commands) : commands[i].of \in Operation /\ commands[i].of <= last
    BY <1>1, <2>1 DEF QueueInOrder, Queued
  <2>3. QED
    BY <1>2, <2>1, <2>2, FenceAssumption DEF Operation
<1>6. \A i \in 1..Len(commands) : commands[i].of # last'
  BY <1>2, <1>5, FenceAssumption DEF Queued, Operation
<1>7. FenceTypeOK'
  <2>1. last' \in 0..MaxOperations
    BY <1>2, FenceAssumption DEF Operation
  <2>2. result' \in [Operation -> Verdict \cup {"none"}]
    BY <1>1, <1>2, <1>4 DEF FenceTypeOK, Verdict
  <2>3. QED
    BY <1>1, <1>2, <2>1, <2>2 DEF FenceTypeOK
<1>8. Numbered'
  <2>1. \A o \in Operation : o > last' => o > last /\ o # last'
    BY <1>2, FenceAssumption DEF Operation
  <2>2. \A o \in Operation : o > last' => result'[o] = result[o]
    BY <1>1, <1>4, <2>1 DEF FenceTypeOK
  <2>3. QED
    BY <1>1, <1>2, <1>3, <1>4, <2>1, <2>2 DEF Numbered
<1>9. QueueInOrder'
  <2>1. \A i \in 1..Len(commands) : commands[i].of <= last'
    BY <1>2, <1>5, FenceAssumption DEF Queued, Operation
  <2>2. QED
    BY <1>1, <1>2, <1>6, <2>1 DEF QueueInOrder
<1>10. NotLost'
  BY <1>2, <1>3 DEF NotLost
<1>11. SignalIsOwn'
  BY <1>2 DEF SignalIsOwn
<1>12. \A o \in Operation : result'[o] = IF o = last' /\ step' = "idle" THEN "rejected" ELSE result[o]
  BY <1>1, <1>2, <1>4 DEF FenceTypeOK
<1>13. ConfirmedHasRun' /\ ConfirmedFlushes'
  BY <1>1, <1>2, <1>12 DEF ConfirmedHasRun, ConfirmedFlushes
<1>14. RejectedNeverRuns'
  BY <1>1, <1>2, <1>3, <1>6, <1>12 DEF RejectedNeverRuns
<1>15. QED
  BY <1>7, <1>8, <1>9, <1>10, <1>11, <1>13, <1>14 DEF FenceInv

\* An operation that finishes leaves no token and no signal behind, and its
\* verdict is one that the queue and the history support.
LEMMA FinishKeepsInv ==
  ASSUME FenceInv, NEW v \in Verdict, Finish(v), step # "idle",
         UNCHANGED <<accepting, loopVars>>, pending' = 0, completed' = FALSE,
         v = "confirmed" => /\ last \in executed
                            /\ \A i \in 1..Len(commands) : commands[i].of > last,
         v = "rejected"  => /\ last \notin executed
                            /\ \A i \in 1..Len(commands) : commands[i].of # last
  PROVE  FenceInv'
<1>1. /\ FenceTypeOK /\ Numbered /\ QueueInOrder
      /\ ConfirmedHasRun /\ RejectedNeverRuns /\ ConfirmedFlushes
  BY DEF FenceInv
<1>2. /\ step' = "idle" /\ last' = last /\ last \in Operation
      /\ result' = [result EXCEPT ![last] = v]
      /\ UNCHANGED <<accepting, commands, executed>>
  BY <1>1 DEF Finish, loopVars, Numbered
<1>3. \A o \in Operation : result'[o] = IF o = last THEN v ELSE result[o]
  BY <1>1, <1>2 DEF FenceTypeOK
<1>4. FenceTypeOK'
  <2>1. result' \in [Operation -> Verdict \cup {"none"}]
    BY <1>1, <1>2 DEF FenceTypeOK
  <2>2. pending' \in 0..MaxOperations
    BY FenceAssumption
  <2>3. QED
    BY <1>1, <1>2, <2>1, <2>2 DEF FenceTypeOK
<1>5. Numbered'
  <2>1. \A o \in Operation : o > last => o # last
    BY <1>2, FenceAssumption DEF Operation
  <2>2. QED
    BY <1>1, <1>2, <1>3, <2>1 DEF Numbered
<1>6. QueueInOrder'
  BY <1>1, <1>2 DEF QueueInOrder
<1>7. NotLost' /\ SignalIsOwn'
  BY <1>2 DEF NotLost, SignalIsOwn
<1>8. ConfirmedHasRun' /\ RejectedNeverRuns' /\ ConfirmedFlushes'
  BY <1>1, <1>2, <1>3 DEF ConfirmedHasRun, RejectedNeverRuns, ConfirmedFlushes
<1>9. QED
  BY <1>4, <1>5, <1>6, <1>7, <1>8 DEF FenceInv

\* Arming takes the free fence for the operation under way.
LEMMA ArmKeepsInv ==
  ASSUME FenceInv, Arm
  PROVE  FenceInv'
<1>1. /\ FenceTypeOK /\ Numbered /\ QueueInOrder /\ NotLost
      /\ ConfirmedHasRun /\ RejectedNeverRuns /\ ConfirmedFlushes
  BY DEF FenceInv
<1>2. /\ step = "drawn" /\ step' = "armed" /\ accepting
      /\ pending' = last /\ completed' = FALSE
      /\ UNCHANGED <<accepting, last, result, commands, executed>>
  BY DEF Arm, loopVars
<1>3. FenceTypeOK'
  BY <1>1, <1>2 DEF FenceTypeOK
<1>4. Numbered' /\ QueueInOrder' /\ NotLost' /\ SignalIsOwn'
  BY <1>1, <1>2 DEF Numbered, QueueInOrder, NotLost, SignalIsOwn
<1>5. ConfirmedHasRun' /\ RejectedNeverRuns' /\ ConfirmedFlushes'
  BY <1>1, <1>2 DEF ConfirmedHasRun, RejectedNeverRuns, ConfirmedFlushes
<1>6. QED
  BY <1>3, <1>4, <1>5 DEF FenceInv

\* Steps of the operation that queue nothing.
LEMMA CallerKeepsInv ==
  ASSUME FenceInv,
         \/ ArmRefused \/ Arm \/ CommandRefused \/ FenceRefused
         \/ WaitStopped \/ WaitCompleted \/ WaitTimedOut
  PROVE  FenceInv'
<1>1. FenceTypeOK /\ Numbered /\ QueueInOrder /\ NotLost /\ SignalIsOwn
  BY DEF FenceInv
<1>2. step \in {"drawn", "armed"} =>
        last \notin executed /\ \A i \in 1..Len(commands) : commands[i].of # last
  BY <1>1 DEF NotLost, QueueInOrder
<1>3. \/ pending = 0
      \/ pending = last
  BY <1>1 DEF SignalIsOwn
<1>4. ~accepting \/ step = "drawn" => pending = 0
  BY <1>1 DEF SignalIsOwn
<1>5. pending = 0 => completed = FALSE
  BY <1>1 DEF SignalIsOwn, FenceTypeOK, Numbered, Operation
<1>6. CASE ArmRefused
  BY <1>1, <1>2, <1>4, <1>5, <1>6, FinishKeepsInv DEF ArmRefused, fenceVars, Verdict
<1>7. CASE Arm
  BY <1>7, ArmKeepsInv
<1>8. CASE CommandRefused
  <2>1. pending' = 0 /\ completed' = FALSE
    BY <1>3, <1>5, <1>8 DEF CommandRefused, Cancel
  <2>2. QED
    BY <1>2, <1>8, <2>1, FinishKeepsInv DEF CommandRefused, Cancel, Verdict
<1>9. CASE FenceRefused
  <2>1. pending' = 0 /\ completed' = FALSE
    BY <1>3, <1>5, <1>9 DEF FenceRefused, Cancel
  <2>2. QED
    BY <1>9, <2>1, FinishKeepsInv DEF FenceRefused, Cancel, Verdict
<1>10. CASE WaitStopped
  BY <1>1, <1>4, <1>5, <1>10, FinishKeepsInv DEF WaitStopped, fenceVars, Verdict
<1>11. CASE WaitCompleted
  <2>1. last \in executed /\ \A i \in 1..Len(commands) : commands[i].of > last
    BY <1>1, <1>11 DEF WaitCompleted, Signalled, SignalIsOwn
  <2>2. QED
    BY <1>11, <2>1, FinishKeepsInv DEF WaitCompleted, Verdict
<1>12. CASE WaitTimedOut
  <2>1. pending' = 0
    BY <1>3, <1>12 DEF WaitTimedOut
  <2>2. QED
    BY <1>12, <2>1, FinishKeepsInv DEF WaitTimedOut, Verdict
<1>13. QED
  BY <1>6, <1>7, <1>8, <1>9, <1>10, <1>11, <1>12

\* Queueing the command or the fence of the operation under way: it goes behind
\* everything else, and nothing in the queue carries a higher number.
LEMMA SendKeepsInv ==
  ASSUME FenceInv, SendCommand \/ SendFence
  PROVE  FenceInv'
<1> DEFINE e == [kind |-> IF SendCommand THEN "command" ELSE "fence", of |-> last]
<1>1. /\ commands' = Append(commands, e)
      /\ step = (IF e.kind = "command" THEN "armed" ELSE "sent")
      /\ step' = (IF e.kind = "command" THEN "sent" ELSE "waiting")
      /\ e.kind \in {"command", "fence"}
      /\ e.of = last
      /\ UNCHANGED <<accepting, pending, completed, last, result, executed>>
  BY DEF SendCommand, SendFence, fenceVars
<1>2. /\ FenceTypeOK /\ Numbered /\ QueueInOrder /\ NotLost /\ SignalIsOwn
      /\ ConfirmedHasRun /\ RejectedNeverRuns /\ ConfirmedFlushes
  BY DEF FenceInv
<1>3. last \in Operation /\ result[last] = "none" /\ ~completed
  BY <1>1, <1>2 DEF Numbered, SignalIsOwn, FenceTypeOK
<1>4. e \in Queued
  BY <1>1, <1>3 DEF Queued
<1>5. /\ commands' \in Seq(Queued)
      /\ Len(commands') = Len(commands) + 1
      /\ Len(commands) \in Nat
      /\ \A i \in 1..Len(commands) : commands'[i] = commands[i] /\ commands[i] \in Queued
      /\ commands'[Len(commands) + 1] = e
  BY <1>1, <1>2, <1>4, QueueAppend DEF FenceTypeOK
<1> HIDE DEF e
<1>6. FenceTypeOK'
  BY <1>1, <1>2, <1>5 DEF FenceTypeOK
<1>7. Numbered'
  BY <1>1, <1>2, <1>3 DEF Numbered
<1>8. QueueInOrder'
  BY <1>1, <1>2, <1>3, <1>4, <1>5 DEF QueueInOrder, Queued, Operation
<1>9. NotLost'
  BY <1>1, <1>2, <1>4, <1>5 DEF NotLost, Queued
<1>10. SignalIsOwn'
  BY <1>1, <1>2, <1>3, <1>5 DEF SignalIsOwn
<1>11. ConfirmedHasRun' /\ RejectedNeverRuns' /\ ConfirmedFlushes'
  <2>1. ConfirmedHasRun'
    BY <1>1, <1>2 DEF ConfirmedHasRun
  <2>2. RejectedNeverRuns'
    BY <1>1, <1>2, <1>3, <1>5 DEF RejectedNeverRuns, Operation
  <2>3. ASSUME NEW o \in Operation, result[o] = "confirmed"
        PROVE  last > o
    BY <1>2, <1>3, <2>3, FenceAssumption DEF Numbered, FenceTypeOK, Operation
  <2>4. ConfirmedFlushes'
    BY <1>1, <1>2, <1>5, <2>3 DEF ConfirmedFlushes, Operation
  <2>5. QED
    BY <2>1, <2>2, <2>4
<1>12. QED
  BY <1>6, <1>7, <1>8, <1>9, <1>10, <1>11 DEF FenceInv

\* x64dbg's loop takes the head of the queue.  When it is the armed fence, order
\* puts every other queued number above it and its own command among the run.
LEMMA LoopKeepsInv ==
  ASSUME FenceInv, LoopCommand \/ LoopFence
  PROVE  FenceInv'
<1> DEFINE h == commands[1]
<1>1. /\ FenceTypeOK /\ Numbered /\ QueueInOrder /\ NotLost /\ SignalIsOwn
      /\ ConfirmedHasRun /\ RejectedNeverRuns /\ ConfirmedFlushes
  BY DEF FenceInv
<1>2. commands \in Seq(Queued) /\ commands # <<>>
  BY <1>1 DEF FenceTypeOK, LoopCommand, LoopFence
<1>3. /\ commands' = Tail(commands)
      /\ commands' \in Seq(Queued)
      /\ Len(commands') = Len(commands) - 1
      /\ Len(commands) \in Nat \ {0}
      /\ Head(commands) = h
      /\ h \in Queued
      /\ \A i \in 1..Len(commands') :
           i + 1 \in 1..Len(commands) /\ commands'[i] = commands[i + 1]
  BY <1>2, QueueTail DEF LoopCommand, LoopFence
<1>4. /\ UNCHANGED <<accepting, pending, last, step, result>>
      /\ h.kind \in {"command", "fence"} /\ h.of \in Operation
      /\ executed' = IF h.kind = "command" THEN executed \cup {h.of} ELSE executed
      /\ completed' = (completed \/ (h.kind = "fence" /\ accepting /\ pending = h.of))
  <2>1. h.kind \in {"command", "fence"} /\ h.of \in Operation
    BY <1>3 DEF Queued
  <2>2. CASE LoopCommand
    BY <1>1, <1>3, <2>1, <2>2 DEF LoopCommand, fenceVars, callerVars, FenceTypeOK
  <2>3. CASE LoopFence
    BY <1>1, <1>3, <2>1, <2>3 DEF LoopFence, Signal, callerVars, FenceTypeOK
  <2>4. QED
    BY <2>2, <2>3
<1>5. \A i \in 1..Len(commands') :
        /\ commands'[i] \in Queued
        /\ \/ h.of < commands'[i].of
           \/ h.of = commands'[i].of /\ h.kind = "command" /\ commands'[i].kind = "fence"
  <2>1. TAKE i \in 1..Len(commands')
  <2>2. 1 \in 1..Len(commands) /\ i + 1 \in 1..Len(commands) /\ 1 < i + 1
    BY <1>3
  <2>3. commands[i + 1] \in Queued /\ commands'[i] = commands[i + 1]
    BY <1>2, <1>3, <2>2
  <2>4. QED
    BY <1>1, <2>2, <2>3 DEF QueueInOrder
<1>6. h.of <= last /\ (h.of = last => step \notin {"drawn", "armed"})
  BY <1>1, <1>3 DEF QueueInOrder
<1> HIDE DEF h
<1>7. FenceTypeOK'
  <2>1. completed' \in BOOLEAN
    BY <1>1, <1>4 DEF FenceTypeOK
  <2>2. executed' \in SUBSET Operation
    BY <1>1, <1>4 DEF FenceTypeOK
  <2>3. QED
    BY <1>1, <1>3, <1>4, <2>1, <2>2 DEF FenceTypeOK
<1>8. Numbered'
  BY <1>1, <1>4, <1>6 DEF Numbered, FenceTypeOK, Operation
<1>9. QueueInOrder'
  <2>1. \A i \in 1..Len(commands') :
          /\ commands'[i].of <= last
          /\ commands'[i].of = last /\ step \in {"drawn", "armed"} => FALSE
          /\ commands'[i].of = last /\ step = "sent" => commands'[i].kind = "command"
    BY <1>1, <1>3 DEF QueueInOrder
  <2>2. ASSUME NEW i \in 1..Len(commands'), NEW j \in 1..Len(commands'), i < j
        PROVE  \/ commands'[i].of < commands'[j].of
               \/ /\ commands'[i].of = commands'[j].of
                  /\ commands'[i].kind = "command"
                  /\ commands'[j].kind = "fence"
    <3>1. i + 1 \in 1..Len(commands) /\ j + 1 \in 1..Len(commands) /\ i + 1 < j + 1
      BY <1>3, <2>2
    <3>2. commands'[i] = commands[i + 1] /\ commands'[j] = commands[j + 1]
      BY <1>3
    <3>3. QED
      BY <1>1, <3>1, <3>2 DEF QueueInOrder
  <2>3. QED
    BY <1>4, <2>1, <2>2 DEF QueueInOrder
<1>10. NotLost'
  <2>1. step \in {"drawn", "armed"} => last \notin executed'
    BY <1>1, <1>4, <1>6 DEF NotLost
  <2>2. ASSUME step \in {"sent", "waiting"}, last \notin executed'
        PROVE  \E i \in 1..Len(commands') : commands'[i] = [kind |-> "command", of |-> last]
    <3>1. PICK k \in 1..Len(commands) : commands[k] = [kind |-> "command", of |-> last]
      BY <1>1, <1>4, <2>2 DEF NotLost
    <3>2. k # 1
      BY <1>4, <2>2, <3>1 DEF h
    <3>3. k - 1 \in 1..Len(commands') /\ commands'[k - 1] = commands[k - 1 + 1] /\ k - 1 + 1 = k
      BY <1>3, <3>1, <3>2
    <3>4. QED
      BY <3>1, <3>3
  <2>3. QED
    BY <1>4, <2>1, <2>2 DEF NotLost
<1>11. SignalIsOwn'
  <2>1. CASE completed
    BY <1>1, <1>3, <1>4, <2>1 DEF SignalIsOwn
  <2>2. CASE ~completed /\ completed'
    <3>1. h.kind = "fence" /\ pending = h.of /\ pending = last /\ step \notin {"idle", "drawn"}
      <4>1. h.kind = "fence" /\ pending = h.of
        BY <1>4, <2>2
      <4>2. pending # 0
        BY <1>4, <4>1, FenceAssumption DEF Operation
      <4>3. QED
        BY <1>1, <4>1, <4>2 DEF SignalIsOwn
    <3>2. step = "waiting"
      <4>1. 1 \in 1..Len(commands) /\ commands[1].kind = "fence" /\ commands[1].of = last
        BY <1>3, <3>1 DEF h
      <4>2. step # "sent" /\ step # "armed"
        BY <1>1, <4>1 DEF QueueInOrder
      <4>3. QED
        BY <1>1, <3>1, <4>2 DEF FenceTypeOK
    <3>3. \A i \in 1..Len(commands') : commands'[i].of > last
      BY <1>4, <1>5, <3>1, FenceAssumption DEF Queued, Operation
    <3>4. last \in executed
      <4>1. SUFFICES ASSUME last \notin executed PROVE FALSE
        OBVIOUS
      <4>2. PICK k \in 1..Len(commands) : commands[k] = [kind |-> "command", of |-> last]
        BY <1>1, <3>2, <4>1 DEF NotLost
      <4>3. k # 1
        BY <3>1, <4>2 DEF h
      <4>4. k - 1 \in 1..Len(commands') /\ commands'[k - 1] = commands[k - 1 + 1] /\ k - 1 + 1 = k
        BY <1>3, <4>2, <4>3
      <4>5. commands'[k - 1].of > last /\ commands'[k - 1].of = last
        BY <3>3, <4>2, <4>4
      <4>6. QED
        BY <1>1, <4>5 DEF FenceTypeOK
    <3>5. QED
      BY <1>1, <1>4, <3>1, <3>2, <3>3, <3>4 DEF SignalIsOwn
  <2>3. CASE ~completed'
    BY <1>1, <1>4, <2>3 DEF SignalIsOwn
  <2>4. QED
    BY <2>1, <2>2, <2>3
<1>12. ConfirmedHasRun'
  BY <1>1, <1>4 DEF ConfirmedHasRun
<1>13. RejectedNeverRuns'
  <2>1. ASSUME NEW o \in Operation, result[o] = "rejected"
        PROVE  o # h.of /\ o \notin executed /\ \A i \in 1..Len(commands) : commands[i].of # o
    BY <1>1, <1>3, <2>1 DEF RejectedNeverRuns, h
  <2>2. QED
    BY <1>3, <1>4, <2>1 DEF RejectedNeverRuns
<1>14. ConfirmedFlushes'
  BY <1>1, <1>3, <1>4 DEF ConfirmedFlushes
<1>15. QED
  BY <1>7, <1>8, <1>9, <1>10, <1>11, <1>12, <1>13, <1>14 DEF FenceInv

-----------------------------------------------------------------------------
\* FenceInv holds in every reachable state, however many operations are fenced
\* and wherever timeouts, refusals, stops and restarts fall.
THEOREM FenceInvariant == FenceSpec => []FenceInv
<1>1. FenceInit => FenceInv
  BY FenceInvInit
<1>2. FenceInv /\ [FenceNext]_commandVars => FenceInv'
  <2> SUFFICES ASSUME FenceInv, [FenceNext]_commandVars PROVE FenceInv'
    OBVIOUS
  <2>1. CASE Start \/ Stop
    BY <2>1, LifecycleKeepsInv
  <2>2. CASE DrawToken
    BY <2>2, DrawTokenKeepsInv
  <2>3. CASE OperationStep
    BY <2>3, CallerKeepsInv, SendKeepsInv DEF OperationStep
  <2>4. CASE LoopCommand \/ LoopFence
    BY <2>4, LoopKeepsInv
  <2>5. CASE UNCHANGED commandVars
    BY <2>5
    DEF commandVars, fenceVars, callerVars, loopVars, FenceInv, FenceTypeOK, Numbered,
        QueueInOrder, NotLost, SignalIsOwn, ConfirmedHasRun, RejectedNeverRuns, ConfirmedFlushes
  <2>6. QED
    BY <2>1, <2>2, <2>3, <2>4, <2>5 DEF FenceNext
<1>3. QED
  BY <1>1, <1>2, PTL DEF FenceSpec

\* submitFencedCommand returns 0 only after x64dbg has run the command.
THEOREM ConfirmationsAreTrue == FenceSpec => []ConfirmedHasRun
  BY FenceInvariant, PTL DEF FenceInv

\* submitFencedCommand returns 1 only for a command that never runs.
THEOREM RejectionsAreTrue == FenceSpec => []RejectedNeverRuns
  BY FenceInvariant, PTL DEF FenceInv

\* A confirmed command leaves nothing submitted earlier in x64dbg's queue.
THEOREM ConfirmationsFlush == FenceSpec => []ConfirmedFlushes
  BY FenceInvariant, PTL DEF FenceInv

\* No sequence of timeouts, refusals and stops leaves a token armed behind it.
THEOREM TokensAreNotLeaked == FenceSpec => []NoLeakedToken
<1>1. FenceInv => NoLeakedToken
  BY DEF FenceInv, SignalIsOwn, NoLeakedToken
<1>2. QED
  BY <1>1, FenceInvariant, PTL

\* The verdicts 0 and 1 of submitFencedCommand are true and stay true.
THEOREM VerdictsAreAlwaysTrue == FenceSpec => []VerdictsAreTrue
<1>1. FenceInv => VerdictsAreTrue
  BY DEF FenceInv, VerdictsAreTrue
<1> QED
  BY <1>1, FenceInvariant, PTL

=============================================================================
