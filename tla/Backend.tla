------------------------------- MODULE Backend -------------------------------
(***************************************************************************)
(* The sidecar and the plugin together: IpcAdapter's calls on one end of   *)
(* the pipe, and on the other the plugin's IPC loop (Runtime::Worker in    *)
(* plugin/src/runtime.cpp), which reads one request at a time, submits it  *)
(* to the DebuggerExecutor with the request's deadline and writes the      *)
(* answer, and Runtime::Stop, which takes the plugin down.                 *)
(*                                                                         *)
(* The refinement Peer shows that this plugin is one that IpcAdapter       *)
(* allows for, so what is proved there holds of the whole.                 *)
(***************************************************************************)
EXTENDS IpcAdapter, DebuggerExecutor

VARIABLES
  loop,       \* where the IPC loop is; "ended" once it has left its for (;;)
  serving,    \* the request it has read and not yet answered
  draining    \* pluginState_ = draining: Runtime::Stop has begun

CONSTANT
  Hasty       \* the calls whose handler may answer a definite error after acting

ASSUME BackendAssumption == Response = Answer /\ Hasty \subseteq Request

loopVars == <<loop, serving, draining>>
backendVars == <<adapterVars, executorVars, loopVars>>

BackendTypeOK ==
  /\ AdapterTypeOK
  /\ ExecutorTypeOK
  /\ loop \in {"reading", "serving", "inline", "ended"}
  /\ serving \in Request \cup {NoRequest}
  /\ draining \in BOOLEAN

sidecarVars == <<ledgerVars, futureVars, ready, stream, abandoned>>

-----------------------------------------------------------------------------
(* The IPC loop.                                                           *)

\* A request read after Stop has begun is dropped and the loop ends.
ReadRequest ==
  /\ loop = "reading"
  /\ pipeOpen
  /\ toPlugin # <<>>
  /\ Head(toPlugin) # NoRequest
  /\ serving' = Head(toPlugin)
  /\ toPlugin' = Tail(toPlugin)
  /\ loop' = IF draining THEN "ended" ELSE "serving"
  /\ UNCHANGED <<sidecarVars, toSidecar, pipeOpen, ghostVars, executorVars, draining>>

\* A frame that is cut short, too long or not a request ends the loop, and so
\* does a closed pipe.  The handle stays open until Stop.
LoopEnds ==
  /\ loop = "reading"
  /\ \/ ~pipeOpen
     \/ toPlugin # <<>> /\ Head(toPlugin) = NoRequest
  /\ loop' = "ended"
  /\ UNCHANGED <<adapterVars, executorVars, serving, draining>>

\* WriteFrame, and back to the top of the loop.  It refuses an empty response
\* (and one over a megabyte) and fails on a closed pipe: the loop ends, and the
\* request is never answered.
Reply(a) ==
  /\ \/ /\ pipeOpen
        /\ a # "empty"
        /\ toSidecar' = Append(toSidecar, [id |-> serving, answer |-> a])
        /\ loop' = "reading"
        /\ serving' = NoRequest
     \/ /\ ~pipeOpen \/ a = "empty"
        /\ loop' = "ended"
        /\ UNCHANGED <<toSidecar, serving>>
  /\ UNCHANGED <<sidecarVars, toPlugin, pipeOpen, ghostVars, executorVars, draining>>

\* A trace helper's pause refuses mutations before they reach the executor.
RejectEarly ==
  /\ loop = "serving"
  /\ execute[serving] = "idle"
  /\ Mutation(serving)
  /\ Reply("error")

\* scyllahide.profile is served on the loop's own thread, unless its deadline
\* has already passed; "set" replaces the configuration file.
ServeInline ==
  /\ loop = "serving"
  /\ execute[serving] = "idle"
  /\ loop' = "inline"
  /\ \/ Mutation(serving) /\ applied' = applied \cup {serving}
     \/ UNCHANGED applied
  /\ UNCHANGED <<sidecarVars, pipeVars, sent, owner, expired, executorVars, serving, draining>>

\* What a handler may say of a mutation: "ok" has performed it, and a handler
\* that lost track of it says so.  A definite error means that nothing was done,
\* except from the handlers that act first and judge afterwards.  Hasty are the
\* calls of these: step_into, step_over and run_to_address when the registers
\* cannot be read at the stop they have confirmed, or the debuggee has moved on
\* from it; continue_exception when it has written registers and the resume is
\* refused; analysis.function when the marker it queued is not valid;
\* registers.write; and the handlers that put a name or a condition on a
\* breakpoint that turns out to be the user's.
Truthful(a, r) ==
  /\ a = "ok" => (Mutation(r) => r \in applied)
  /\ a = "error" => r \notin applied \/ r \in Hasty

ReplyInline ==
  /\ loop = "inline"
  /\ \E a \in Answer : Truthful(a, serving) /\ Reply(a)

\* executor_.Execute(handler, deadline).
Submit ==
  /\ loop = "serving"
  /\ \/ ExecuteStopped(serving)
     \/ ExecuteBusy(serving)
     \/ ExecuteQueued(serving)
     \/ WaitStep(serving)
  /\ UNCHANGED <<adapterVars, loopVars>>

\* Mutant: an expired operation is always reported as a definite error.
ResponseAlwaysDefinite(r) ==
  IF status[r] = "completed" THEN completion[r] ELSE "error"

\* Mutant: a started operation that ran out of time is reported as done.
ResponseOptimistic(r) ==
  CASE status[r] = "completed" -> completion[r]
    [] status[r] = "timedOutStarted" -> "ok"
    [] status[r] \in {"busy", "timedOutQueued", "stopped"} -> "error"

\* The switch over the execution status.  Only a started mutation that ran out
\* of time is answered with an unknown outcome.
ResponseFor(r) ==
  CASE status[r] = "completed" -> completion[r]
    [] status[r] = "timedOutStarted" -> IF Mutation(r) THEN "unknown" ELSE "error"
    [] status[r] \in {"busy", "timedOutQueued", "stopped"} -> "error"

Respond ==
  /\ loop = "serving"
  /\ execute[serving] = "returned"
  /\ Reply(ResponseFor(serving))

-----------------------------------------------------------------------------
(* The executor's thread.                                                  *)

ExecutorWorks ==
  /\ WorkerStep
  /\ UNCHANGED <<adapterVars, loopVars>>

\* The handler runs in the debugger and may or may not change it ...
RunHandler ==
  /\ RunOperation
  /\ \/ Mutation(work) /\ applied' = applied \cup {work}
     \/ UNCHANGED applied
  /\ UNCHANGED <<sidecarVars, pipeVars, sent, owner, expired, loopVars>>

\* ... and then says what happened, or throws, which publishes nothing.
HandlerReturns ==
  /\ worker = "ran"
  /\ \E a \in Answer \cup {"empty"} : Truthful(a, work) /\ Publish(a)
  /\ UNCHANGED <<adapterVars, loopVars>>

-----------------------------------------------------------------------------
(* Runtime::Stop: drain, disconnect, join the loop, stop the executor.     *)

BeginStop ==
  /\ ~draining
  /\ draining' = TRUE
  /\ UNCHANGED <<adapterVars, executorVars, loop, serving>>

Disconnect ==
  /\ draining
  /\ PluginCloses
  /\ UNCHANGED <<executorVars, loopVars>>

\* Mutant: the executor is stopped without waiting for the loop.
StopExecutorEarly ==
  /\ ~pipeOpen
  /\ Drain \/ Join
  /\ UNCHANGED <<adapterVars, loopVars>>

StopExecutor ==
  /\ ~pipeOpen
  /\ loop = "ended"
  /\ Drain \/ Join
  /\ UNCHANGED <<adapterVars, loopVars>>

-----------------------------------------------------------------------------
\* A session in progress: Runtime::Start has started the executor and the
\* handshake is done.
BackendInit ==
  /\ AdapterInit
  /\ accepting = TRUE
  /\ stopping = FALSE
  /\ queue = <<>>
  /\ cancelled = [r \in Request |-> FALSE]
  /\ started = [r \in Request |-> FALSE]
  /\ completion = [r \in Request |-> "none"]
  /\ execute = [r \in Request |-> "idle"]
  /\ status = [r \in Request |-> "none"]
  /\ worker = "idle"
  /\ work = NoRequest
  /\ admitted = <<>>
  /\ ran = <<>>
  /\ loop = "reading"
  /\ serving = NoRequest
  /\ draining = FALSE

IpcLoop ==
  \/ ReadRequest
  \/ LoopEnds
  \/ RejectEarly
  \/ ServeInline
  \/ ReplyInline
  \/ Submit
  \/ Respond

BackendNext ==
  \/ Sidecar /\ UNCHANGED <<executorVars, loopVars>>
  \/ IpcLoop
  \/ ExecutorWorks
  \/ RunHandler
  \/ HandlerReturns
  \/ BeginStop
  \/ Disconnect
  \/ StopExecutor

BackendSafety == BackendInit /\ [][BackendNext]_backendVars

\* Both processes keep running their threads; handlers may block, and nobody
\* has to unload the plugin.
BackendSpec ==
  /\ BackendSafety
  /\ \A c \in Request :
       WF_backendVars(Progress(c) /\ UNCHANGED <<executorVars, loopVars>>)
  /\ WF_backendVars(IpcLoop)
  /\ WF_backendVars(ExecutorWorks)
  /\ WF_backendVars(Disconnect)
  /\ WF_backendVars(StopExecutor)

-----------------------------------------------------------------------------
(* Properties.                                                             *)

\* The request that the loop is serving is, for the sidecar, still unanswered
\* in the pipe.
Unanswered ==
  IF pipeOpen /\ serving # NoRequest THEN <<serving>> \o toPlugin ELSE toPlugin

Peer == INSTANCE IpcAdapter WITH toPlugin <- Unanswered

\* The plugin's loop and executor implement the plugin that IpcAdapter assumes:
\* one answer per request, in order, success only for a mutation performed, and
\* no mutation performed twice.
ImplementsPeer == Peer!AdapterSafety

\* A definite error, told to the caller or replayed by the ledger, means that
\* the mutation was not performed.  There are two exceptions.  A deadline passes
\* between the worker's look at `cancelled' and its store of `started': the
\* operation runs although its caller was told that it expired in the queue.
\* And the handler itself says so of a mutation it has performed, which those of
\* the Hasty calls may (see Truthful): for these the loop, the executor and the
\* ledger promise no more than to pass the handler's word on.
DefiniteErrorIsHonest ==
  \A c \in applied \ Hasty :
    (\/ result[c] = "error"
     \/ \E i \in DOMAIN entries : owner[i] = c /\ entries[i].value = "error")
      => status[c] = "timedOutQueued"

\* Stop never takes the executor away from a request that is waiting in it: the
\* loop sees a refusal only as the executor's own answer to a new request.
StopFindsLoopGone ==
  [][stopping' => \A r \in Request : execute[r] \notin {"waiting", "cancelling"}]_backendVars

\* The contract says of an invalid or truncated frame that it closes the
\* connection (docs/contracts/ipc-v1.md:10).
\* The loop ends and leaves the pipe open: README.md, Observations.
InvalidFrameClosesConnection == (loop = "ended") ~> ~pipeOpen
=============================================================================
