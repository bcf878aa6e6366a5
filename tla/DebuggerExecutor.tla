--------------------------- MODULE DebuggerExecutor ---------------------------
(***************************************************************************)
(* The plugin's serialized debugger executor, plugin/src/                  *)
(* debugger_executor.cpp: a bounded queue drained by one worker thread.    *)
(* Execute() queues a Work item and waits on its future until a deadline;  *)
(* on expiry it stores `cancelled' and then loads `started' to classify    *)
(* the timeout.  The worker loads `cancelled' and then stores `started'.   *)
(* Those two atomics are the only synchronisation between a caller that    *)
(* gives up and a worker that is about to run the operation, so the store  *)
(* and the load of each side are separate actions.                         *)
(*                                                                         *)
(* A Work item is named by the request it carries.                         *)
(***************************************************************************)
EXTENDS Requests, Integers, Sequences, SequencesExt

CONSTANTS
  Capacity,    \* kCapacity, 32 in debugger_executor.h
  Response     \* the responses operations return

ASSUME ExecutorAssumption ==
  /\ Capacity \in Nat \ {0}
  /\ Response \cap {"none", "empty"} = {}

VARIABLES
  accepting,   \* accepting_
  stopping,    \* stopping_
  queue,       \* queue_
  cancelled,   \* Work::cancelled, per work item
  started,     \* Work::started
  completion,  \* the promise: "none", a Response or "empty" (set_value({}))
  execute,     \* the Execute() call: where it is
  status,      \* ... and the ExecutionStatus it returned
  worker,      \* the worker thread: where it is
  work,        \* ... and the item it has popped
  admitted,    \* history: the items queued so far, in order
  ran          \* history: the operations run so far, in order

gateVars == <<accepting, stopping>>
workVars == <<cancelled, started, completion>>
callVars == <<execute, status>>
threadVars == <<worker, work>>
historyVars == <<admitted, ran>>
executorVars == <<gateVars, queue, workVars, callVars, threadVars, historyVars>>

ExecutionStatus ==
  {"completed", "busy", "timedOutQueued", "timedOutStarted", "stopped"}

ExecutorTypeOK ==
  /\ accepting \in BOOLEAN
  /\ stopping \in BOOLEAN
  /\ queue \in Seq(Request)
  /\ Len(queue) <= Capacity
  /\ cancelled \in [Request -> BOOLEAN]
  /\ started \in [Request -> BOOLEAN]
  /\ completion \in [Request -> Response \cup {"none", "empty"}]
  /\ execute \in [Request -> {"idle", "waiting", "cancelling", "returned"}]
  /\ status \in [Request -> ExecutionStatus \cup {"none"}]
  /\ worker \in {"absent", "idle", "popped", "checked", "started", "ran", "exited"}
  /\ work \in Request \cup {NoRequest}
  /\ admitted \in Seq(Request)
  /\ ran \in Seq(Request)

HasRun(r) == \E i \in 1..Len(ran) : ran[i] = r

Queued(r) == \E i \in 1..Len(queue) : queue[i] = r

-----------------------------------------------------------------------------
(* Start() and the two halves of Stop().                                   *)

Start ==
  /\ ~accepting
  /\ worker = "absent"
  /\ accepting' = TRUE
  /\ stopping' = FALSE
  /\ worker' = "idle"
  /\ UNCHANGED <<queue, workVars, callVars, work, historyVars>>

\* Mutant: Stop closes the queue but leaves its work items to run.
DrainWithoutCancel ==
  /\ ~stopping
  /\ worker # "absent"
  /\ accepting' = FALSE
  /\ stopping' = TRUE
  /\ UNCHANGED <<queue, workVars, callVars, threadVars, historyVars>>

\* Stop's first critical section: refuse new work and cancel what is queued.
Drain ==
  /\ ~stopping
  /\ worker # "absent"
  /\ accepting' = FALSE
  /\ stopping' = TRUE
  /\ cancelled' = [r \in Request |-> cancelled[r] \/ Queued(r)]
  /\ UNCHANGED <<queue, started, completion, callVars, threadVars, historyVars>>

\* The rest of Stop: join the worker, then clear the queue.
Join ==
  /\ stopping
  /\ worker = "exited"
  /\ worker' = "absent"
  /\ queue' = <<>>
  /\ stopping' = FALSE
  /\ UNCHANGED <<accepting, workVars, callVars, work, historyVars>>

-----------------------------------------------------------------------------
(* Execute(): admission under the mutex, then the wait on the future.      *)

Return(r, s) ==
  /\ execute' = [execute EXCEPT ![r] = "returned"]
  /\ status' = [status EXCEPT ![r] = s]

ExecuteStopped(r) ==
  /\ execute[r] = "idle"
  /\ ~accepting
  /\ Return(r, "stopped")
  /\ UNCHANGED <<gateVars, queue, workVars, threadVars, historyVars>>

ExecuteBusy(r) ==
  /\ execute[r] = "idle"
  /\ accepting
  /\ Len(queue) >= Capacity
  /\ Return(r, "busy")
  /\ UNCHANGED <<gateVars, queue, workVars, threadVars, historyVars>>

Enqueue(r) ==
  /\ queue' = Append(queue, r)
  /\ admitted' = Append(admitted, r)
  /\ execute' = [execute EXCEPT ![r] = "waiting"]
  /\ UNCHANGED <<gateVars, workVars, status, threadVars, ran>>

ExecuteQueued(r) ==
  /\ execute[r] = "idle"
  /\ accepting
  /\ Len(queue) < Capacity
  /\ Enqueue(r)

WaitReady(r) ==
  /\ execute[r] = "waiting"
  /\ completion[r] # "none"
  /\ Return(r, "completed")
  /\ UNCHANGED <<gateVars, queue, workVars, threadVars, historyVars>>

\* Mutant: wait() instead of wait_until().
WaitForever(r) ==
  /\ FALSE
  /\ UNCHANGED executorVars

\* wait_until passes the deadline; the caller stores `cancelled'.
WaitExpires(r) ==
  /\ execute[r] = "waiting"
  /\ completion[r] = "none"
  /\ cancelled' = [cancelled EXCEPT ![r] = TRUE]
  /\ execute' = [execute EXCEPT ![r] = "cancelling"]
  /\ UNCHANGED <<gateVars, queue, started, completion, status, threadVars, historyVars>>

\* ... and then loads `started' to tell the two timeouts apart.
ClassifyExpiry(r) ==
  /\ execute[r] = "cancelling"
  /\ Return(r, IF started[r] THEN "timedOutStarted" ELSE "timedOutQueued")
  /\ UNCHANGED <<gateVars, queue, workVars, threadVars, historyVars>>

-----------------------------------------------------------------------------
(* Worker(): one action per shared access.                                 *)

\* Mutant: the worker takes the newest item.
PopNewest ==
  /\ worker = "idle"
  /\ queue # <<>>
  /\ work' = Last(queue)
  /\ queue' = Front(queue)
  /\ worker' = "popped"
  /\ UNCHANGED <<gateVars, workVars, callVars, historyVars>>

\* Mutant: `started' is stored when the item is popped, before the check.
PopStarted ==
  /\ worker = "idle"
  /\ queue # <<>>
  /\ work' = Head(queue)
  /\ queue' = Tail(queue)
  /\ worker' = "popped"
  /\ started' = [started EXCEPT ![Head(queue)] = TRUE]
  /\ UNCHANGED <<gateVars, cancelled, completion, callVars, historyVars>>

Pop ==
  /\ worker = "idle"
  /\ queue # <<>>
  /\ work' = Head(queue)
  /\ queue' = Tail(queue)
  /\ worker' = "popped"
  /\ UNCHANGED <<gateVars, workVars, callVars, historyVars>>

Exit ==
  /\ worker = "idle"
  /\ stopping
  /\ queue = <<>>
  /\ worker' = "exited"
  /\ UNCHANGED <<gateVars, queue, workVars, callVars, work, historyVars>>

Skip(value) ==
  /\ completion' = [completion EXCEPT ![work] = value]
  /\ worker' = "idle"
  /\ work' = NoRequest
  /\ UNCHANGED <<gateVars, queue, cancelled, started, callVars, historyVars>>

Proceed ==
  /\ worker' = "checked"
  /\ UNCHANGED <<gateVars, queue, workVars, callVars, work, historyVars>>

\* A cancelled item is completed empty and skipped; any other goes on.
CheckCancelled ==
  /\ worker = "popped"
  /\ IF cancelled[work] THEN Skip("empty") ELSE Proceed

MarkStarted ==
  /\ worker = "checked"
  /\ started' = [started EXCEPT ![work] = TRUE]
  /\ worker' = "started"
  /\ UNCHANGED <<gateVars, queue, cancelled, completion, callVars, work, historyVars>>

RunOperation ==
  /\ worker = "started"
  /\ ran' = Append(ran, work)
  /\ worker' = "ran"
  /\ UNCHANGED <<gateVars, queue, workVars, callVars, work, admitted>>

\* set_value with the operation's response, or empty when it threw.
Publish(outcome) ==
  /\ worker = "ran"
  /\ completion' = [completion EXCEPT ![work] = outcome]
  /\ worker' = "idle"
  /\ work' = NoRequest
  /\ UNCHANGED <<gateVars, queue, cancelled, started, callVars, historyVars>>

\* The steps the worker takes by itself, as opposed to the operation it runs.
WorkerStep ==
  \/ Pop
  \/ Exit
  \/ CheckCancelled
  \/ MarkStarted

OperationStep ==
  \/ RunOperation
  \/ \E outcome \in Response \cup {"empty"} : Publish(outcome)

WaitStep(r) ==
  \/ WaitReady(r)
  \/ WaitExpires(r)
  \/ ClassifyExpiry(r)

-----------------------------------------------------------------------------
ExecutorInit ==
  /\ accepting = FALSE
  /\ stopping = FALSE
  /\ queue = <<>>
  /\ cancelled = [r \in Request |-> FALSE]
  /\ started = [r \in Request |-> FALSE]
  /\ completion = [r \in Request |-> "none"]
  /\ execute = [r \in Request |-> "idle"]
  /\ status = [r \in Request |-> "none"]
  /\ worker = "absent"
  /\ work = NoRequest
  /\ admitted = <<>>
  /\ ran = <<>>

ExecutorNext ==
  \/ Start
  \/ Drain
  \/ Join
  \/ \E r \in Request :
       \/ ExecuteStopped(r)
       \/ ExecuteBusy(r)
       \/ ExecuteQueued(r)
       \/ WaitStep(r)
  \/ WorkerStep
  \/ OperationStep

\* The worker thread and the callers' timers keep going and a Stop that has
\* begun is carried through.  Nobody has to call Execute, Start or Stop, and an
\* operation handed to the debugger may never return.
ExecutorFairness ==
  /\ WF_executorVars(WorkerStep)
  /\ WF_executorVars(Join)
  /\ \A r \in Request : WF_executorVars(WaitStep(r))

ExecutorSpec == ExecutorInit /\ [][ExecutorNext]_executorVars /\ ExecutorFairness

-----------------------------------------------------------------------------
(* Properties.                                                             *)

\* Debugger operations run at most once each and in the order in which
\* Execute() admitted them: the queue neither repeats nor reorders commands.
RunsOnceInOrder ==
  \A i, j \in 1..Len(ran) :
    i < j => \E k, l \in 1..Len(admitted) :
               k < l /\ admitted[k] = ran[i] /\ admitted[l] = ran[j]

\* A caller told `busy' or `stopped' has a guarantee: its operation is not in
\* the queue, not in the worker's hands, and never runs.
RefusedNeverRuns ==
  \A r \in Request : status[r] \in {"busy", "stopped"} =>
    ~HasRun(r) /\ ~Queued(r) /\ r # work

\* What runs was admitted, and runs in its turn.
RunsAreAdmitted == RunsOnceInOrder /\ RefusedNeverRuns

\* `timedOutStarted' is the ambiguous verdict (the outcome is reported unknown):
\* it is given only to an operation that has run or is about to.
StartedExpiryIsHonest ==
  \A r \in Request : status[r] = "timedOutStarted" =>
    HasRun(r) \/ (work = r /\ worker = "started")

\* An operation that is still in the queue when its caller's deadline cancels
\* it, or when Stop begins, never runs, whatever is started afterwards.
GivenUpInQueueNeverRuns ==
  \A r \in Request :
    []((Queued(r) /\ (cancelled[r] \/ stopping)) => [](~HasRun(r)))

\* Every admitted call returns, even when an operation blocks the worker for
\* good: the deadline frees the caller.
ExecuteReturns ==
  \A r \in Request : (execute[r] = "waiting") ~> (execute[r] = "returned")

\* Stop terminates if the operation the worker is in returns.
StopTerminates ==
  []<>(worker \in {"absent", "idle", "exited"}) => (stopping ~> ~stopping)

\* A blocked operation blocks neither its caller nor, once it returns, Stop.
ExecutorProgresses == ExecuteReturns /\ StopTerminates

\* The executor test's expectation: an operation whose caller was told that it
\* expired in the queue "must-not-run" (plugin/tests/executor_test.cpp:41).
\* The race of the two atomics breaks it: README.md, Observations.
ExpiredInQueueMustNotRun ==
  \A r \in Request : status[r] = "timedOutQueued" => ~HasRun(r)
=============================================================================
