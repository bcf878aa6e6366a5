----------------------------- MODULE CommandFence -----------------------------
(***************************************************************************)
(* The command fence, plugin/src/command_fence.cpp, and the handler code   *)
(* that uses it (submitFencedCommand in runtime.cpp, repeated in run-to    *)
(* and in analysis).  A debugger operation queues a text command on        *)
(* x64dbg's command loop, then a private fence command carrying a random   *)
(* token, and waits until the loop has run the fence, the request's        *)
(* deadline passes, or the plugin stops.                                   *)
(*                                                                         *)
(* Operations run one at a time on the executor's worker (DebuggerExecutor)*)
(* and are numbered in that order; an operation's number stands for the    *)
(* nonzero 64-bit random token it draws, so tokens do not repeat.          *)
(* x64dbg's command loop is external: a FIFO drained by its own thread.    *)
(***************************************************************************)
EXTENDS Integers, Sequences

CONSTANT
  MaxOperations    \* bound on the fenced operations of a finite model

ASSUME FenceAssumption == MaxOperations \in Nat

VARIABLES
  accepting,   \* accepting_
  pending,     \* pending_: the armed token, 0 when it is empty
  completed,   \* completed_
  last,        \* the number of the newest operation
  step,        \* where that operation is
  result,      \* submitFencedCommand's verdict for each finished operation
  commands,    \* x64dbg's queue
  executed     \* history: the operations whose command the loop has run

fenceVars == <<accepting, pending, completed>>
callerVars == <<last, step, result>>
loopVars == <<commands, executed>>
commandVars == <<fenceVars, callerVars, loopVars>>

Operation == 1..MaxOperations

\* What submitFencedCommand returns: 0, 1 and 2.
Verdict == {"confirmed", "rejected", "unknown"}

Queued == [kind : {"command", "fence"}, of : Operation]

FenceTypeOK ==
  /\ accepting \in BOOLEAN
  /\ pending \in 0..MaxOperations
  /\ completed \in BOOLEAN
  /\ last \in 0..MaxOperations
  /\ step \in {"idle", "drawn", "armed", "sent", "waiting"}
  /\ result \in [Operation -> Verdict \cup {"none"}]
  /\ commands \in Seq(Queued)
  /\ executed \in SUBSET Operation

-----------------------------------------------------------------------------
(* Lifecycle.  Runtime::Stop calls Stop while an operation may be waiting; *)
(* the executor is stopped before Runtime::Start can run again.            *)

Start ==
  /\ step = "idle"
  /\ ~accepting
  /\ pending = 0
  /\ accepting' = TRUE
  /\ completed' = FALSE
  /\ UNCHANGED <<pending, callerVars, loopVars>>

Stop ==
  /\ accepting
  /\ accepting' = FALSE
  /\ pending' = 0
  /\ completed' = FALSE
  /\ UNCHANGED <<callerVars, loopVars>>

-----------------------------------------------------------------------------
(* The operation.                                                          *)

Finish(verdict) ==
  /\ step' = "idle"
  /\ result' = [result EXCEPT ![last] = verdict]
  /\ UNCHANGED last

\* Cancel(token): only the caller's own token is cleared.
Cancel ==
  /\ pending' = IF pending = last THEN 0 ELSE pending
  /\ completed' = IF pending = last THEN FALSE ELSE completed
  /\ UNCHANGED accepting

\* The next operation reaches submitFencedCommand and draws a token, or gives
\* up when four draws yield none.
DrawToken ==
  /\ step = "idle"
  /\ last < MaxOperations
  /\ last' = last + 1
  /\ UNCHANGED <<fenceVars, loopVars>>
  /\ \/ /\ step' = "drawn"
        /\ UNCHANGED result
     \/ /\ UNCHANGED step
        /\ result' = [result EXCEPT ![last + 1] = "rejected"]

ArmRefused ==
  /\ step = "drawn"
  /\ ~accepting \/ pending # 0
  /\ Finish("rejected")
  /\ UNCHANGED <<fenceVars, loopVars>>

Arm ==
  /\ step = "drawn"
  /\ accepting
  /\ pending = 0
  /\ pending' = last
  /\ completed' = FALSE
  /\ step' = "armed"
  /\ UNCHANGED <<accepting, last, result, loopVars>>

\* DbgCmdExec(command) queues the command or refuses it.
SendCommand ==
  /\ step = "armed"
  /\ commands' = Append(commands, [kind |-> "command", of |-> last])
  /\ step' = "sent"
  /\ UNCHANGED <<fenceVars, last, result, executed>>

\* Mutant: a refused command leaves its token armed.
CommandRefusedLeaky ==
  /\ step = "armed"
  /\ Finish("rejected")
  /\ UNCHANGED <<fenceVars, loopVars>>

CommandRefused ==
  /\ step = "armed"
  /\ Cancel
  /\ Finish("rejected")
  /\ UNCHANGED loopVars

\* DbgCmdExec(fence) queues the fence or refuses it.
SendFence ==
  /\ step = "sent"
  /\ commands' = Append(commands, [kind |-> "fence", of |-> last])
  /\ step' = "waiting"
  /\ UNCHANGED <<fenceVars, last, result, executed>>

FenceRefused ==
  /\ step = "sent"
  /\ Cancel
  /\ Finish("unknown")
  /\ UNCHANGED loopVars

\* Wait's predicate, apart from the stop.
Signalled == pending = last /\ completed

WaitStopped ==
  /\ step = "waiting"
  /\ ~accepting
  /\ Finish("unknown")
  /\ UNCHANGED <<fenceVars, loopVars>>

WaitCompleted ==
  /\ step = "waiting"
  /\ accepting
  /\ Signalled
  /\ pending' = 0
  /\ completed' = FALSE
  /\ Finish("confirmed")
  /\ UNCHANGED <<accepting, loopVars>>

\* Mutant: the wait has no deadline.
WaitUntilSignalled ==
  /\ FALSE
  /\ UNCHANGED commandVars

\* The deadline passes with the predicate false; the token is disarmed.
WaitTimedOut ==
  /\ step = "waiting"
  /\ accepting
  /\ ~Signalled
  /\ pending' = IF pending = last THEN 0 ELSE pending
  /\ completed' = FALSE
  /\ Finish("unknown")
  /\ UNCHANGED <<accepting, loopVars>>

-----------------------------------------------------------------------------
(* x64dbg's command loop.                                                  *)

LoopCommand ==
  /\ commands # <<>>
  /\ Head(commands).kind = "command"
  /\ commands' = Tail(commands)
  /\ executed' = executed \cup {Head(commands).of}
  /\ UNCHANGED <<fenceVars, callerVars>>

\* Mutant: any fence completes whatever token is armed.
SignalAny(token) ==
  /\ completed' = (completed \/ (accepting /\ pending # 0))
  /\ UNCHANGED <<accepting, pending>>

\* Signal(token): a fence completes only the token that is armed.
Signal(token) ==
  /\ completed' = (completed \/ (accepting /\ pending = token))
  /\ UNCHANGED <<accepting, pending>>

LoopFence ==
  /\ commands # <<>>
  /\ Head(commands).kind = "fence"
  /\ commands' = Tail(commands)
  /\ Signal(Head(commands).of)
  /\ UNCHANGED <<callerVars, executed>>

-----------------------------------------------------------------------------
OperationStep ==
  \/ ArmRefused
  \/ Arm
  \/ SendCommand
  \/ CommandRefused
  \/ SendFence
  \/ FenceRefused
  \/ WaitStopped
  \/ WaitCompleted
  \/ WaitTimedOut

FenceInit ==
  /\ accepting = FALSE
  /\ pending = 0
  /\ completed = FALSE
  /\ last = 0
  /\ step = "idle"
  /\ result = [o \in Operation |-> "none"]
  /\ commands = <<>>
  /\ executed = {}

FenceNext ==
  \/ Start
  \/ Stop
  \/ DrawToken
  \/ OperationStep
  \/ LoopCommand
  \/ LoopFence

\* The worker thread runs on and its wait has a deadline.  x64dbg's loop may
\* block for good (a command can), and nobody has to start an operation.
FenceSpec == FenceInit /\ [][FenceNext]_commandVars /\ WF_commandVars(OperationStep)

-----------------------------------------------------------------------------
(* Properties.                                                             *)

\* An operation told 0 has had its command run by x64dbg's loop: neither the
\* late fence of an operation that timed out nor a stop can confirm it.
ConfirmedHasRun ==
  \A o \in Operation : result[o] = "confirmed" => o \in executed

\* An operation told 1 reports BUSY with outcome_unknown false: its command is
\* not in x64dbg's queue and has not run.
RejectedNeverRuns ==
  \A o \in Operation : result[o] = "rejected" =>
    /\ o \notin executed
    /\ \A i \in 1..Len(commands) : commands[i].of # o

\* A confirmed operation flushes the queue: the command of an earlier operation
\* whose outcome was reported unknown cannot run any more.  The handlers rely
\* on it when a fenced cleanup command undoes an earlier mutation.
ConfirmedFlushes ==
  \A o \in Operation : result[o] = "confirmed" =>
    \A i \in 1..Len(commands) : commands[i].of > o

\* What submitFencedCommand reports of a command is what became of it: late
\* fences, timeouts and stops never make a 0 or a 1 untrue.
VerdictsAreTrue == ConfirmedHasRun /\ RejectedNeverRuns /\ ConfirmedFlushes

\* No path leaks an armed token: when no operation is under way the fence is
\* free, so Arm refuses an operation only while the plugin is stopped.
NoLeakedToken == step \in {"idle", "drawn"} => pending = 0

\* Every operation that reaches the fence returns, even if x64dbg's command
\* loop never runs another command.
OperationReturns == (step # "idle") ~> (step = "idle")

-----------------------------------------------------------------------------
(* The inductive invariant behind the safety properties.                   *)

\* Operations are numbered in the order in which they ran; the one under way
\* has no verdict yet.
Numbered ==
  /\ step # "idle" => last \in Operation /\ result[last] = "none"
  /\ \A o \in Operation : o > last => result[o] = "none" /\ o \notin executed

\* The queue is in submission order, a command before its own fence; an
\* operation has queued only what its step says.
QueueInOrder ==
  /\ \A i \in 1..Len(commands) :
       /\ commands[i].of <= last
       /\ commands[i].of = last /\ step \in {"drawn", "armed"} => FALSE
       /\ commands[i].of = last /\ step = "sent" => commands[i].kind = "command"
  /\ \A i, j \in 1..Len(commands) : i < j =>
       \/ commands[i].of < commands[j].of
       \/ /\ commands[i].of = commands[j].of
          /\ commands[i].kind = "command"
          /\ commands[j].kind = "fence"

\* An operation whose command went into the queue finds it there or run.
NotLost ==
  /\ step \in {"sent", "waiting"} =>
       last \in executed \/ \E i \in 1..Len(commands) :
         commands[i] = [kind |-> "command", of |-> last]
  /\ step \in {"drawn", "armed"} => last \notin executed

\* completed_ is set only for the armed token of the waiting operation, whose
\* fence and everything before it have left the queue.
SignalIsOwn ==
  /\ pending # 0 => pending = last /\ accepting /\ step \notin {"idle", "drawn"}
  /\ completed => /\ pending = last
                  /\ step = "waiting"
                  /\ last \in executed
                  /\ \A i \in 1..Len(commands) : commands[i].of > last

FenceInv ==
  /\ FenceTypeOK
  /\ Numbered
  /\ QueueInOrder
  /\ NotLost
  /\ SignalIsOwn
  /\ ConfirmedHasRun
  /\ RejectedNeverRuns
  /\ ConfirmedFlushes
=============================================================================
