# TLA+ models of the x64dbg MCP backend

The backend lets MCP clients drive the x64dbg debugger. It is three programs: a
*sidecar* (Rust, `crates/server`), an HTTP server that speaks MCP; a *plugin* (C++,
`plugin/`) inside x64dbg; and a *host controller* (C++, `controller/`), a command that
starts and stops debugger hosts. Sidecar and plugin talk over one named pipe with
length-prefixed JSON frames; a second pipe carries debugger events. This directory
holds models of the parts where concurrency, failure and ordering decide whether a client
is told the truth about what happened to the debuggee.

## Inventory

| Component | State it keeps | Operations | What makes it correct |
|---|---|---|---|
| Operation ledger (`operation_ledger.rs`) | map operation_id -> arguments, status, time | begin, complete, mark_unknown, abandon_unstarted | bounded; a live operation is never forgotten; a recorded outcome is stable for its TTL |
| IPC adapter (`ipc_adapter.rs`, `ipc.rs`) | stream mutex, `ready`, ids of abandoned requests | `call`: admit, check, exchange, settle; future cancellation, timeout | at most one execution per operation_id; success is true; every call returns |
| Plugin IPC loop (`Runtime::Worker`) | the request being served | read, reject, serve inline, execute, reply | one answer per request, in order; unknown exactly when unknown |
| Debugger executor (`debugger_executor.cpp`) | bounded queue, worker thread, per item `cancelled`, `started` and promise | Start, Execute, Stop | order, bounded, refused work never runs, callers are never stuck |
| Command fence (`command_fence.cpp`) | armed token, completed flag | Arm, Signal, Cancel, Wait, Start, Stop | a confirmation means that x64dbg ran the command |
| Trace policy and coordinator (`trace_policy.cpp`) | trace state, pending reason, about fifteen flags | Begin, Submitted, Request, Step, Reserve, Issue, FinishInterrupt, ... | one stop per trace; an interrupt is never lost track of |
| Trace session (`runtime.cpp`) | supervisor thread, helper handle, pause callback | trace.start, trace.cancel, supervisor, callbacks, unload | no trace is terminal with work left behind; unload is safe |
| Debugger state and events (`runtime.cpp`) | generations, pause reason, event sessions and history | debugger callbacks, snapshots, waits, run-state operations | the state is the debuggee's; a capture is of one pause; a success was witnessed; history has no silent hole |
| Operation handlers (`runtime.cpp`) | none between calls; x64dbg's breakpoints, bytes, registers | some fifty methods | an answer is of one pause; an error says what was left behind |
| Memory dump (`dump_memory.cpp`) | temporary file | write, check, publish | nothing partial is published, no file is left |
| Event stream (`event_stream.cpp`, `main.rs`) | queue of 4096 events, dropped counter, pipe | Start, Enqueue, Worker, Stop; receive_events | order; a gap is reported; the stream recovers |
| Audit log and event waits (`audit_log.rs`, `mcp.rs`) | queue with a byte budget, files, broadcast channel | record, publish_event, wait_event, read, flush | budget balanced; a wait misses nothing |
| Host controller (`controller/`) | none between runs; processes, configuration file | status, start, stop, restart, profile | it closes the host it found; its answers are true; the file is never torn |
| Pure policies (`*_policy.cpp`, `utf8.cpp`, ...) | none | functions | their reference definitions |
| HTTP server (`http_server.rs`) | rate window, permits | request limits, SSE, shutdown | limits hold; permits returned |
| Runtime lifecycle (`runtime.cpp`, `main.rs`) | plugin state, mutex, pipe, processes | Start, handshake, Stop, sidecar shutdown | both processes end; no half start |
| Tool schemas, configuration | none | functions | their own definitions |

Interactions: HTTP handlers call `IpcAdapter::call` concurrently; it admits mutations
through the ledger and exchanges frames with the plugin's loop; the loop submits each
request to the executor and waits up to the request's deadline; handlers on the
executor's thread read x64dbg, queue commands behind the fence, wait for states or start
a trace; x64dbg calls back on its debug thread, its command thread and the GUI thread; the
callbacks move the generation that handlers compare, and enqueue events that the event
stream carries to the sidecar's subscribers and audit log; `Runtime::Stop` takes all of it
down from the GUI thread. The controller sees only processes, a port and a file.

Hard behaviours: a client that goes away at any await; a timeout racing an answer; torn
frames; two atomics read in opposite orders; a late fence; a trace stopped from four
threads; unload and reload with a thread left in the debuggee; callbacks that come late,
twice or not at all; a debuggee that moves between two reads; a user who edits what a
handler is about to change; a pipe that breaks between events; a process id that is
reused. `PROJECT.json` lists each with its line (`hazards`).

## Modules

| Module | Models | State and actions |
|---|---|---|
| `Requests` | request ids | shared constants |
| `OperationLedger` | the ledger | one action per method; `entries` is the HashMap as a function |
| `IpcAdapter` (extends both) | `IpcAdapter::call` and, abstractly, the plugin | `call[c]` is the await a call is at; one action per stretch between awaits; `Cancel` and `Timeout` at each |
| `DebuggerExecutor` | executor | one action per shared access: `cancelled` and `started` are stored and loaded in separate steps |
| `Backend` (extends `IpcAdapter`, `DebuggerExecutor`) | the IPC loop and `Runtime::Stop`, composed with both | replaces the abstract plugin; instantiates `IpcAdapter` as `Peer` |
| `CommandFence` | fence and `submitFencedCommand` | the handler's steps, the fence's methods, x64dbg's command queue |
| `TraceStop` | `TracePolicy`, `TraceStopCoordinator` | one definition per method, all under `traceMutex_` |
| `TraceSession` (extends `TraceStop`) | the threads that call them | executor, supervisor, debug thread, GUI thread; one action per critical section |
| `PausedSnapshot` | what a handler may assume of the debugger state: a generation that moves, snapshots and their checks | abstract specification `ObserverSpec` |
| `DebuggerState` | `OnDebuggerEvent`, `RecordEventLocked`, `CommitTraceEventLocked` | one action per callback, next to `Native*` actions for what the debuggee really does and which callbacks x64dbg then owes |
| `DebuggerOperations` (extends it) | run-state operations and their waits, liveness reconciliation, captures, `events.list` | one operation, one capture and one paging client at a time; instantiates `PausedSnapshot` as `Observer` |
| `HandlerPrograms` | each handler: its reads, checks, commands and clean-ups in order | a program is a sequence of steps with the looks it accepts, wants and owns; `ProgramsKeepTheRules` says what the handlers have in common |
| `Handlers` (extends it and `PausedSnapshot`) | one handler at work | one action per kind of step, next to the debuggee, the user, the command queue and a drain |
| `EventStream` | `EventStream` and `receive_events` | worker, `Stop`, reader; one action per critical section or blocking pipe call |
| `EventDelivery` (extends it) | publication, `wait_event`, audit queue and writer | composed with the stream |
| `ScyllaHideConfig` | the two functions on the configuration text | operators on sequences of lines |
| `HostController` (extends it) | the controller, `AtomicReplace`, the plugin's profile tool | one action per system call, next to a process table |
| `Policies` | pure functions | operators, and reference definitions of what they promise |
| `*_proofs` | theorems | |
| `MC*` | constants for TLC | |

Definitions keep the code's names; `PROJECT.json` gives the lines of each (`map`).
Definitions introduced by a comment "Mutant:" are faulty variants used to check that
the properties can fail; no specification uses them.

Abstractions. Arguments are fingerprints; a plugin answer is "ok", a definite "error"
or "unknown"; a frame is whole or torn. The ledger's clock is a counter; trace time is
two facts, deadline passed and grace over. Tokens of the fence are operation numbers
(64-bit random values are taken not to repeat). x64dbg and Windows are external: the
command loop is a FIFO that may block for good; the debug thread handles one event at a
time and waits while paused; a thread's create event may precede the return of
`CreateRemoteThread`; a dead process has no threads. In `Backend` a handler of `runtime.cpp`
is what it may do and say: it may change the debuggee, and then throws or answers as `Truthful`
allows. The calls in the constant `Hasty` are those of the handlers that answer a definite error
after they have acted (Observations); of every other call a definite error means that nothing was
done. `TraceSession` does not follow x64dbg's selected thread, so it allows more trace starts
than the code, which also refuses one while the helper is the active thread.

`DebuggerState` keeps two states, the debuggee's own and the one the plugin derives from
callbacks; `StateAgrees` compares them whenever no callback is owed. Which callbacks a
native step owes, in which order and how late, follows the code's own treatment of them
(a trace's resume may come after its pause, a stop is announced once or twice). In
`Handlers` the target of a handler (a breakpoint, bytes, a register, a file) has one of five
*looks*: absent; exactly as requested ("mine"); with the request's name but disabled or without its
condition ("off"); without a name ("bare"); foreign. Next to the look stands whether this call made
the target, and whether it has put its name or its condition on one that it did not make
(`marked`). A loop runs once or twice, and what a read returns is the generation it was made in;
what is read back after a change counts as a read. The removal of DumpMemory's temporary file is
taken to succeed (`dump_memory.cpp:73` ignores the result of `DeleteFileW`). In `EventDelivery` a behaviour has a waiting client or an audit store, not both: they
share no state. Allocation failures (the `catch (...)` of `Enqueue` and `Worker`) and the
event_transport records are left out. In `HostController` one run of the controller is
followed; other runs act on processes and the file as the user and the plugin do, and
processes are not followed after the last answer. Each look at all processes (`FindHosts`) and
at all windows with the message to the one found (`CloseWindow`) is one step, so the reuse of a
window handle between `EnumWindows` and `PostMessageW` is not covered. A text of `ScyllaHideConfig`
is a sequence of lines; what stands between brackets and behind "=" keeps its blanks and its case,
and `Trim`, `Fold` and `Fits` (the bound of 1 MiB) say what the code makes of them. In `Policies` addresses end at a
`MaxAddress`, a command line consists of the kinds of characters that quoting tells apart, and the
bytes of UTF-8 are the ones that begin or end a class the code distinguishes.

Smaller merges: the supervisor's sleep until `WakeAt` (`runtime.cpp:8758-8764`) is replaced by the
fairness of its steps, so a wrong wake-up time would not be seen; `Confirmed` joins the end of a
wait with the load of `pausedGeneration_` after it; `TraceCommit` of `DebuggerState` ends an active
trace at its pause, where the code may keep it with an unresolved interrupt (`TraceSession` follows
that).

## Runs

| Run | Shows | Bounds |
|---|---|---|
| `adapter` | at most once, truthful success, final verdicts, retention; every call returns and settles unless its client left | 2 calls, 2 operation ids, 2 argument values, capacity 1, TTL 1, clock 1: a retry, a conflict, a full ledger and an eviction. The safety part is proved for any number of calls; the run adds liveness |
| `executor` | order, refusals, expiry verdicts, stop and restart, termination | 3 items, queue of 2: full queue while one item is in the worker |
| `backend` | definite errors are honest, the plugin refines the adapter's view of it, stop order | 2 calls, one of them hasty, 1 operation id |
| `fence` | verdicts about commands, no leaked token, every operation returns | 4 operations: a timeout, a later confirmation, a stop, a restart |
| `trace` | interrupts are owned, single and finished; safe unload; first reason; supervised deadline | 2 traces in 1 process, 1 step; unbounded plugin reloads |
| `events` | each event arrives once and in order or is counted; waits miss nothing; the budget comes back; the stream recovers | 3 events, a queue, a pipe and a broadcast channel of one each, 1 broken connection, a session change with the last event, 1 audit record: overflow, a frame put back, a lagging subscriber |
| `state` | the plugin's state is the debuggee's; successes were witnessed; captures are of one pause; pages are contiguous; `PausedSnapshot` is implemented | 1 operation of each kind, 2 processes one after another, 6 generations, a history of 2 events, every callback kind |
| `handlers` | checked answers are of one pause; nothing queued after a settled answer; definite errors leave nothing; atomic dumps; clean-ups spare what others made | all 48 programs, 4 generations (a run, a pause and one more), 2 user edits |
| `controller` | the found host is the one closed; answers are true; the file stays usable | 1 run of any command, 2 process ids and 3 births (so one is reused), the controller and the plugin as writers, requests for a profile in another spelling and for SETTINGS, an installed text that assigns its profile with blanks |
| `policies` | quoting survives parsing; repaired text is UTF-8; paged search finds each match once; ranges are sets | all inputs up to 3 to 6 symbols, by family; UTF-8 over the bytes that bound a class; a largest address of 7, patches of at most 4 bytes; memory of 6 cells of two values, every pattern of up to 3 cells, pages of 1 and 2, a search window of 3; texts of 5 lines with at most 2 profiles, whose names differ in case or blanks, hold a bracket, or fit a text only once. The properties are proved for every bound |
| `event_stop`, `in_flight_forever` | violations, see Findings | as `events`; as small as the counterexample allows |

No run uses symmetry. `backend` uses a view: the executor's record of a
call is ignored once the loop, the worker and the queue no longer refer to it (the code has
freed it by then), except the one fact a property names; the executor's history is ignored.
`CHECK_DEADLOCK FALSE` stands where the system may stop: all calls returned, the handler
has answered, the plugin unloaded, the clock or the generation at its bound. Two traces in
each of two processes (5.4 million states) were also explored without an error for
`TraceSession`. The type invariants of the ledger, the adapter, the executor, the backend, the
fence and the session are proved; `StateTypeOK`, `DeliveryTypeOK` and `HandlersTypeOK`, which also
bound counters, hold in the state spaces of their runs, and the proofs about those modules use
shapes of their own (`Shapes`, `StreamShapes`, `HandlerShape`).

Fairness. Sidecar tasks and their timers are polled (`Progress`); the executor's worker,
the IPC loop, the event worker, the supervisor and callbacks already entered run on; waits
with a deadline end. Nothing is assumed of clients, of the plugin as the adapter sees it,
of debugger handlers, of x64dbg's command loop, of debuggee events or of the user: each may
block for good. `ExecutorProgresses` states its own condition, that the operation returns,
and `StreamProgresses` that the sidecar lives.

`AtMostOnce` makes one exception: once the ledger has evicted a settled operation by age,
the same operation_id is performed again. `docs/contracts/ipc-v1.md:66` promises the
lifetime of the sidecar; the TTL of ten minutes is the code's. Other properties have exemptions
too, each stated in its formula, each an Observation below, and each needed: TLC refutes the
property without it.

- `DefiniteErrorIsHonest`: the executor's race, and the calls in `Hasty`.
- `AnswerIsOfOnePause`: the answers whose last read no check follows (`Unchecked`): memory.write,
  breakpoints.set and remove, analysis.function, and run-to at its target or after an exit.
- `SettledMeansDone`: the polled breakpoints and run-to.
- `DefiniteLeavesNothing`: registers.write and analysis.function; and a name or a condition on a
  breakpoint that the user put there after the handler's look.
- `CleanupSparesForeign`: what exception.set has adopted, by naming it or because it has no name.
- `IniStaysUsable` and `SetProfileTakesEffect`: a request for SETTINGS, for a section with blanks
  inside its brackets, or for a name that makes the text exceed its bound (`policies` meets all
  three, `controller` the first).

## Findings

- `in_flight_forever`: a cancelled client leaves its operation in flight for good, and
  the ledger tells the next caller to wait for it.
- `event_stop`: `EventStream::Stop` disconnects the pipe under its worker, which goes back
  to `ConnectNamedPipe` without looking at `stopping_`; when the sidecar is gone, the join
  waits for ever.

Each is quoted with its source in `PROJECT.json`.

## Observations

Stated in the modules and refuted by TLC, but not kept as runs:

- `IpcAdapter!CancellationKeepsReady`: cancelling a call releases the stream before the id
  is remembered (`ipc_adapter.rs:206-219`, 312); a call already waiting for the stream can
  take the stale answer for a mismatch and disconnect the adapter.
- `DebuggerExecutor!ExpiredInQueueMustNotRun`: the caller stores `cancelled` and loads
  `started`, the worker loads `cancelled` and stores `started` (`debugger_executor.cpp:44-66`);
  an operation reported as expired in the queue can still run.
- `Backend!InvalidFrameClosesConnection`: an invalid frame or an empty response ends the IPC
  loop without closing the pipe (`runtime.cpp:2870-2876`, 7909-7917), against
  `docs/contracts/ipc-v1.md:10`.
- `TraceSession!TimeoutRequestsStop`: a trace admitted during `Runtime::Stop` has no
  supervisor (`runtime.cpp:3326`, 8811-8825).

Met while modelling, and visible in the models as the exemptions or outcomes they have:

- Errors reported as definite after an effect (`Hasty`): run-to's last check (4464-4469), step
  (5143-5158), continue-exception (5048-5054, 5111-5117), analysis.function without a good marker
  (4571-4592), registers.write when the context cannot be read back, and the clean-ups that
  find a foreign breakpoint.
- Answers that read after their last check: memory.write reads back (5193) and answers with
  `generation_.load()` (5200), breakpoints.set and remove do so at 5537 and 5544, analysis.function
  reports the marker it reads at 4571, and run-to that finds the thread at its target answers at
  once (4246-4266).
- exception.set names whatever breakpoint it finds after its command (3702-3705); one that the user
  put there meanwhile keeps the name, or is deleted by the clean-up (3652-3676) when the
  verification fails. conditional.set writes its condition and fast-resume flag likewise
  (5461-5468), and answers CONFLICT with them left in place (5469-5484).
- Hardware and memory breakpoints are polled without a fence, and run-to's clean-up too:
  a command that timed out may run after the answer.
- The clean-up of exception.set takes an unnamed breakpoint for its own (3652-3673).
- A frame put back at the front of the full event queue exceeds its bound by one, and the
  comparison with `==` then no longer bounds it (`event_stream.h:57`).
- `SetScyllaHideProfile` accepts the section SETTINGS as a profile, which
  `ParseScyllaHideConfig` rejects. Names in brackets keep their blanks and an assigned name loses
  them (`control_policy.cpp:159`, 207, 226), so a section " Deep " is set and then not found. The
  bound of 1 MiB is checked before the line is rewritten and not after. Of two spellings of one section the first function takes
  the last, the second the first, so a completed write fails its verification. Two
  writers of the file read, compare and replace without a lock.
- `FindHosts` skips processes it may not open, so a second host can be started; health is
  asked of the port, not of the process found; restart starts a host although its deadline
  has passed.

## Proofs

For every value of the constants, from assumptions that say no more than that bounds are
numbers, that sets have the shapes they must and that loop and adapter mean the same by an answer
(`LedgerAssumption`, `RequestAssumption`,
`AdapterAssumption`, `ExecutorAssumption`, `BackendAssumption`, `FenceAssumption`,
`StateAssumption`, `ControllerAssumption`, `StreamAssumption`, `DeliveryAssumption`,
`HandlersAssumption`, `PoliciesAssumption`, `ConfigAssumption`; the trace theorems need none). Two say more:
`InstalledAssumption`, that the configuration file is at first a text that the parser takes, and
`ProgramsKeepTheRules`, on which `Handlers_proofs` rests.
Every safety property of a run, and each of the two refinements, is the statement of a theorem.

- `Backend_proofs`, ledger and adapter. First the ledger: type correctness with "no entry is younger than the
  clock", the capacity bound (cardinalities of what `begin` keeps and inserts), retention of
  in-flight and of recorded entries (`EntriesAreKept`). Then the adapter: `AdapterInv` is
  inductive together with `AdapterTypeOK`. `AtMostOnce` is not inductive: it needs that a call
  under way owns an in-flight entry with its own arguments (`Owned`), that a sent mutation is
  remembered unless evicted (`SentIsRemembered`), and that frames and records tell the truth
  (`FramesAreHonest`, `RecordsAreHonest`). At most once, truthful success, no lost entry and
  final verdicts follow.
- `Backend_proofs`, executor and composition. First the executor: `ExecutorInv` says that what ran, what the worker holds
  and what is queued form one line in the order of admission, in which no item stands twice; that
  what ran was admitted, that expiry verdicts are honest and that a caller who gave up in the
  queue is not run follow. Then the composition: `BackendIInv` joins the adapter's and the
  executor's invariants with `BackendInv`, that the loop serves one request and its executor item
  is that request's (`LoopHolds`, `LoopOwnsCalls`), that an item belongs to a call that was sent
  (`CallsWereSent`), and that what is still in the pipe was not yet served (`PipeIsFresh`). `BackendImplementsPeer`
  proves that every step of loop, executor and `Runtime::Stop` is a step of the plugin that
  `IpcAdapter` assumes, or none; at most once and truthful success therefore hold end to end
  (`MutationsAreSafeEndToEnd`), and definite errors are honest, for any choice of `Hasty`.
- `CommandFence_proofs`: `FenceInv` is inductive. That a confirmed command has run needs
  that the queue is in submission order, a command before its own fence (`QueueInOrder`),
  that what was queued is there or has run (`NotLost`), and that `completed_` belongs to the
  waiting operation (`SignalIsOwn`). `VerdictsAreTrue` collects what the three verdicts mean.
- `TraceSession_proofs`: `SessionInv`, with the places the two threads can be in, is
  inductive. None of the trace properties is by itself: that a helper is owned needs that
  an interrupt is in flight exactly while the supervisor works on it
  (`InterruptIsSupervised`) and that its process is alive (`OutstandingIsHeld`); a quiet
  terminal state needs `SubmissionIsPending`; a single stop needs that ownership excludes a
  cooperative stop (`OwnershipIsExclusive`); `InterruptIsContained` is the three together; a
  safe unload needs `LifecycleIsOrderly`. `FirstReasonWins` is proved step by step from it.
- `DebuggerOperations_proofs`: for any number of processes, events and generations. `StateAgrees`
  needs `AgreeInv`, which says how the plugin's state stands to the debuggee's while callbacks are
  still owed; a capture of one pause needs that the generation has moved past the snapshot
  whenever the debuggee has, at each stage of the operation (`CaptureInv`), a success that was witnessed what each wait has seen
  (`WitnessInv`), an unbroken history what the ring and the paging client hold (`HistoryInv`).
  `ImplementsObserverHolds` proves the refinement of `PausedSnapshot`, step by step: the debuggee
  that `Handlers` assumes is the one `DebuggerState` has.
- `Handlers_proofs`: the argument is about any table of programs that keeps seven rules:
  programs are well formed, a check follows the last read but in `Unchecked`, commands are fenced or
  polled, what is left is owned up to but in `Hasty`, a handler that cleans up began with nothing
  there, removals spare what is foreign, a dump publishes last.
  That the table of the code keeps them is `ProgramsKeepTheRules`, a formula about a finite
  constant that TLC evaluates in full in the `handlers` run. From it, `HandlerInv` is inductive for
  any number of generations and edits: what reads are of which pause, what was queued, what the
  target looks like and whose it is, what bears a mark and since when (`MarkInv`), what the dump's
  files are. The five properties of the run
  follow.
- `EventDelivery_proofs`: for queues, pipes, channels and numbers of events of any size.
  `PublishedInOrder` needs that published, wire, hand and queue are one ascending sequence
  (`OrderInv`); waits and accounts need that READY is taken by the client that waits for it and
  by no other (`HandshakeInv`). `EveryEventAccounted` needs only itself; that holes are announced
  needs a bound for an event at each place it passes (`AccountInv`): it has at most as many before
  it as are accounted for ahead of it. The sums over frames are those of the recursive function
  `Weights`, which is shown to exist and to follow `Append` and `Tail` by the least number for which
  it would not (`UpTo`). `WaitInv` and `AuditInv` carry the wait and the audit log.
- `HostController_proofs`: births of processes are unique and an open handle keeps the id with
  the process found (`ProcOK`, `HandleHolds`), which makes the host closed the host found in spite
  of reused ids; what an answer claims, and from which looks, is `AloneHolds` and `ClaimsHold`. For `IniStaysUsableHolds` the file, and whatever a writer holds, is the installed
  text but for the assigned name, which is a section's: whether the file selects a profile then
  depends on that name alone.
- `Policies_proofs`: every function of `Policies` is a loop over its input, written with `Scan`, a
  recursive function. Two arguments are made once and used for all of them: a loop whose turns stay
  in a set has a state in that set after each turn (`Trajectory`), and what holds of the beginning
  and is kept by each turn holds to the end, by the least turn at which it would not (`UpTo`).
  `PoliciesInv` says that inputs are texts of the family's symbols and that a search has found what
  it has passed; `SearchFindsEachMatchOnce` and `TextReachesItsReader` rest on it.
  - Quoting: while the C runtime's parser reads a quoted word it is in one of three states, holding
    backslashes, after the closing quote, or between words (`Held`, `Closed`, `Between`), and it
    gives back the word (`Parses`); x64dbg's own reading gives back the command (`Reads`).
  - UTF-8: the code accepts the encoding of every scalar, by the four lengths
    (`AcceptsEncodings`); a valid text is one whose bytes are cut by the places between its
    characters (`Marks`), which makes validity closed under joining and under dropping a beginning,
    and so repaired, truncated and sliced texts are valid.
  - Ranges and patches: the sort exists (`SortInsert`), and the ranges of a set of patches are its
    maximal runs (`Covers`). The proof attempt showed that the
    property had left out the code's bound of 16 bytes for a patch, which never bites where every
    address is below 16; the bound is now a constant (`MaxPatchSize`) small enough to bite in the
    run.
  - The Scylla profile: the sections and the number of assignments are those of the text before, so
    a name that `Trim` leaves alone is found again (`SetSelects`).

Only model-checked: liveness and termination, which the prover does not reach, and the evaluation
of `ProgramsKeepTheRules`.

## Plan

1. Done: ledger, adapter, executor, backend, fence, traces; debugger state and operations,
   handlers, dump, event stream and delivery, host controller, policies.
2. Done: the proofs of every safety property of the runs and of both refinements.
3. `RuntimeLifecycle`: Start with its failures, handshake, sidecar shutdown; HTTP limits; log
   reading and rotation.

## Not modelled

Request parsing and JSON, HTTP routing, tool schemas, error wording, recorded trace
addresses, what x64dbg's reads return and how it is formatted (registers, PE layouts,
conditional expressions), the syntax of dump paths, reading and rotating the audit log,
packaging and test scripts; the third point of the plan.
