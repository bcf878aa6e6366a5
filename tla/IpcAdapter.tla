------------------------------ MODULE IpcAdapter ------------------------------
(***************************************************************************)
(* IpcAdapter::call, crates/server/src/ipc_adapter.rs: concurrent MCP tool *)
(* calls share one pipe to the plugin.  A call is admitted by the ledger   *)
(* (mutations only), checks `ready', waits for the stream mutex, writes    *)
(* its request and reads frames until one carries its own request id,      *)
(* draining answers to requests that were abandoned earlier.               *)
(*                                                                         *)
(* Every .await is a point where the HTTP client may go away (the future   *)
(* is dropped: Cancel) or the operation timeout may fire.  Both first drop *)
(* the exchange, which releases the stream, and only later run the guard's *)
(* destructor, which remembers the request id: two separate steps.         *)
(*                                                                         *)
(* The plugin is represented by what the adapter can see of it: it applies *)
(* a request it was sent at most once, answers requests in order, may      *)
(* never answer, and may close the pipe.  Backend shows that the detailed  *)
(* plugin behaves like this.                                               *)
(***************************************************************************)
EXTENDS OperationLedger, Requests, Sequences, SequencesExt

CONSTANTS
  NoOperation,        \* the operation_id of a read: None
  AbandonedCapacity   \* ABANDONED_REQUEST_CAPACITY, 64

\* A plugin answer: success, a definite error, an error with outcome unknown.
Answer == {"ok", "error", "unknown"}

ASSUME AdapterAssumption ==
  /\ NoOperation \notin OperationId
  /\ AbandonedCapacity \in Nat \ {0}
  /\ Value = Answer
  /\ NoOperation \notin Fingerprint

VARIABLES
  call,       \* where each call is
  op, fp,     \* its operation_id (NoOperation for a read) and arguments
  result,     \* what it has learnt, and in the end returns
  ready,      \* the AtomicBool
  stream,     \* the holder of the stream mutex
  abandoned,  \* abandoned_request_ids
  toPlugin,   \* request frames in the pipe
  toSidecar,  \* response frames in the pipe
  pipeOpen,   \* FALSE once the plugin has disconnected the pipe
  sent,       \* history: requests written as a whole frame
  applied,    \* history: mutations the debugger has performed
  owner,      \* history: the call whose begin() inserted the present entry
  expired     \* history: calls whose entry was evicted by age

futureVars == <<call, op, fp, result>>
pipeVars == <<toPlugin, toSidecar, pipeOpen>>
ghostVars == <<sent, applied, owner, expired>>
adapterVars ==
  <<ledgerVars, futureVars, ready, stream, abandoned, pipeVars, ghostVars>>

Mutation(c) == op[c] # NoOperation

Frame == [id : Request \cup {NoRequest}, answer : Answer]
Torn == [id |-> NoRequest, answer |-> "error"]

Result ==
  Answer \cup {"none", "timeout", "io", "mismatch", "cancelled", "busy",
               "conflict", "unavailable", "internal"}

Stage ==
  {"idle", "admitted", "queued", "writing", "reading", "answered", "failing",
   "dropping", "returned"}

FuturesTypeOK ==
  /\ call \in [Request -> Stage]
  /\ op \in [Request -> OperationId \cup {NoOperation}]
  /\ fp \in [Request -> Fingerprint \cup {NoOperation}]
  /\ result \in [Request -> Result]

ConnectionTypeOK ==
  /\ ready \in BOOLEAN
  /\ stream \in Request \cup {NoRequest}
  /\ abandoned \in Seq(Request)
  /\ Len(abandoned) <= AbandonedCapacity

PipeTypeOK ==
  /\ toPlugin \in Seq(Request \cup {NoRequest})
  /\ toSidecar \in Seq(Frame)
  /\ pipeOpen \in BOOLEAN

HistoryTypeOK ==
  /\ sent \subseteq Request
  /\ applied \subseteq Request
  /\ owner \in [OperationId -> Request \cup {NoRequest}]
  /\ expired \subseteq Request

AdapterTypeOK ==
  /\ LedgerTypeOK
  /\ FuturesTypeOK
  /\ ConnectionTypeOK
  /\ PipeTypeOK
  /\ HistoryTypeOK

Goto(c, where) == call' = [call EXCEPT ![c] = where]
Learn(c, what) == result' = [result EXCEPT ![c] = what]

-----------------------------------------------------------------------------
(* Admission.  Nothing is awaited before the stream mutex, but other       *)
(* threads run between begin(), the ready check and the first poll.        *)

CallRead(c) ==
  /\ call[c] = "idle"
  /\ Goto(c, "admitted")
  /\ UNCHANGED <<ledgerVars, op, fp, result, ready, stream, abandoned, pipeVars, ghostVars>>

\* What a mutation that begin() does not start returns at once.
Refusal(admission, id) ==
  CASE admission = "InFlight"  -> "busy"
    [] admission = "Capacity"  -> "busy"
    [] admission = "Conflict"  -> "conflict"
    [] admission = "Unknown"   -> "unknown"
    [] admission = "Completed" -> entries[id].value

MayStart(admission) == admission = "Started"

CallMutation(c, id, f) ==
  /\ call[c] = "idle"
  /\ op' = [op EXCEPT ![c] = id]
  /\ fp' = [fp EXCEPT ![c] = f]
  /\ Begin(id, f)
  /\ expired' = expired \cup {owner[i] : i \in Evicted}
  /\ IF MayStart(Admission(id, f))
       THEN /\ Goto(c, "admitted")
            /\ owner' = [owner EXCEPT ![id] = c]
            /\ UNCHANGED result
       ELSE /\ Goto(c, "returned")
            /\ Learn(c, Refusal(Admission(id, f), id))
            /\ UNCHANGED owner
  /\ UNCHANGED <<ready, stream, abandoned, pipeVars, sent, applied>>

PassReadyCheck(c) ==
  /\ call[c] = "admitted"
  /\ ready
  /\ Goto(c, "queued")
  /\ UNCHANGED <<ledgerVars, op, fp, result, ready, stream, abandoned, pipeVars, ghostVars>>

\* With the plugin gone the admission is withdrawn: nothing was sent.
FailReadyCheck(c) ==
  /\ call[c] = "admitted"
  /\ ~ready
  /\ Goto(c, "returned")
  /\ \/ /\ ~Mutation(c)
        /\ Learn(c, "unavailable")
        /\ UNCHANGED ledgerVars
     \/ /\ Mutation(c)
        /\ AbandonUnstarted(op[c], fp[c])
        /\ Learn(c, "unavailable")
     \/ /\ Mutation(c)
        /\ ~Removable(op[c], fp[c])
        /\ Learn(c, "internal")
        /\ UNCHANGED ledgerVars
  /\ UNCHANGED <<op, fp, ready, stream, abandoned, pipeVars, ghostVars>>

-----------------------------------------------------------------------------
(* The exchange, under the stream mutex.                                   *)

AcquireStream(c) ==
  /\ call[c] = "queued"
  /\ stream = NoRequest
  /\ stream' = c
  /\ Goto(c, "writing")
  /\ UNCHANGED <<ledgerVars, op, fp, result, ready, abandoned, pipeVars, ghostVars>>

WriteRequest(c) ==
  /\ call[c] = "writing"
  /\ pipeOpen
  /\ toPlugin' = Append(toPlugin, c)
  /\ sent' = sent \cup {c}
  /\ Goto(c, "reading")
  /\ UNCHANGED <<ledgerVars, op, fp, result, ready, stream, abandoned, toSidecar,
                 pipeOpen, applied, owner, expired>>

\* The frame at the head of the pipe, for the call that holds the stream.
Arrived(c) ==
  /\ call[c] = "reading"
  /\ toSidecar # <<>>

\* Mutant: any answer is taken for the call's own.
AnyFrame(c) == Head(toSidecar).id # NoRequest

OwnFrame(c) == Head(toSidecar).id = c

ReadOwn(c) ==
  /\ Arrived(c)
  /\ OwnFrame(c)
  /\ toSidecar' = Tail(toSidecar)
  /\ stream' = NoRequest
  /\ Goto(c, "answered")
  /\ Learn(c, Head(toSidecar).answer)
  /\ UNCHANGED <<ledgerVars, op, fp, ready, abandoned, toPlugin, pipeOpen, ghostVars>>

\* consume_abandoned_response: drop the frame and forget its id, read on.
DrainStale(c) ==
  /\ Arrived(c)
  /\ ~OwnFrame(c)
  /\ \E i \in 1..Len(abandoned) :
       /\ abandoned[i] = Head(toSidecar).id
       /\ \A j \in 1..(i - 1) : abandoned[j] # Head(toSidecar).id
       /\ abandoned' = RemoveAt(abandoned, i)
  /\ toSidecar' = Tail(toSidecar)
  /\ UNCHANGED <<ledgerVars, futureVars, ready, stream, toPlugin, pipeOpen, ghostVars>>

\* Leaving the exchange without an answer drops it, which frees the stream.
Release(c) == stream' = IF stream = c THEN NoRequest ELSE stream

ReadForeign(c) ==
  /\ Arrived(c)
  /\ ~OwnFrame(c)
  /\ Head(toSidecar).id # NoRequest
  /\ \A i \in 1..Len(abandoned) : abandoned[i] # Head(toSidecar).id
  /\ toSidecar' = Tail(toSidecar)
  /\ Release(c)
  /\ Goto(c, "failing")
  /\ Learn(c, "mismatch")
  /\ UNCHANGED <<ledgerVars, op, fp, ready, abandoned, toPlugin, pipeOpen, ghostVars>>

\* The pipe is closed, or what is read is not a frame.
ExchangeError(c) ==
  /\ \/ call[c] \in {"writing", "reading"} /\ ~pipeOpen
     \/ Arrived(c) /\ Head(toSidecar).id = NoRequest
  /\ Release(c)
  /\ Goto(c, "failing")
  /\ Learn(c, "io")
  /\ UNCHANGED <<ledgerVars, op, fp, ready, abandoned, pipeVars, ghostVars>>

\* write_all and read_exact are not cancel safe: dropping them half way leaves
\* a partial request behind, or a response whose first bytes are gone.
Tear(c) ==
  \/ UNCHANGED <<toPlugin, toSidecar>>
  \/ /\ call[c] = "writing"
     /\ toPlugin' = Append(toPlugin, NoRequest)
     /\ UNCHANGED toSidecar
  \/ /\ Arrived(c)
     /\ toSidecar' = <<Torn>> \o Tail(toSidecar)
     /\ UNCHANGED toPlugin

Suspended(c) == call[c] \in {"queued", "writing", "reading"}

Timeout(c) ==
  /\ Suspended(c)
  /\ Tear(c)
  /\ Release(c)
  /\ Goto(c, "failing")
  /\ Learn(c, "timeout")
  /\ UNCHANGED <<ledgerVars, op, fp, ready, abandoned, pipeOpen, ghostVars>>

\* Mutant: a cancelled operation is withdrawn from the ledger, although its
\* request may have been sent.
CancelAbandons(c) ==
  /\ Suspended(c)
  /\ Tear(c)
  /\ Release(c)
  /\ Goto(c, "dropping")
  /\ Learn(c, "cancelled")
  /\ IF Mutation(c) THEN AbandonUnstarted(op[c], fp[c]) ELSE UNCHANGED ledgerVars
  /\ UNCHANGED <<op, fp, ready, abandoned, pipeOpen, ghostVars>>

\* The HTTP request is gone and its future with it: the ledger is not told.
Cancel(c) ==
  /\ Suspended(c)
  /\ Tear(c)
  /\ Release(c)
  /\ Goto(c, "dropping")
  /\ Learn(c, "cancelled")
  /\ UNCHANGED <<ledgerVars, op, fp, ready, abandoned, pipeOpen, ghostVars>>

-----------------------------------------------------------------------------
(* After the exchange.                                                     *)

\* The guard is disarmed and the ledger records the answer.
Settle(c) ==
  /\ call[c] = "answered"
  /\ Goto(c, "returned")
  /\ \/ ~Mutation(c) /\ UNCHANGED <<ledgerVars, result>>
     \/ Mutation(c) /\ Complete(op[c], result[c]) /\ UNCHANGED result
     \/ /\ Mutation(c)
        /\ op[c] \notin DOMAIN entries
        /\ Learn(c, "internal")
        /\ UNCHANGED ledgerVars
  /\ UNCHANGED <<op, fp, ready, stream, abandoned, pipeVars, ghostVars>>

\* Mutant: the failure is reported but the ledger is not told.
FailUnrecorded(c) ==
  /\ call[c] = "failing"
  /\ ready' = FALSE
  /\ Goto(c, "dropping")
  /\ UNCHANGED <<ledgerVars, op, fp, result, stream, abandoned, pipeVars, ghostVars>>

\* A failed exchange: the mutation is marked unknown, the adapter is not ready.
Fail(c) ==
  /\ call[c] = "failing"
  /\ \/ Mutation(c) /\ MarkUnknown(op[c])
     \/ (~Mutation(c) \/ op[c] \notin DOMAIN entries) /\ UNCHANGED ledgerVars
  /\ ready' = FALSE
  /\ Goto(c, "dropping")
  /\ UNCHANGED <<op, fp, result, stream, abandoned, pipeVars, ghostVars>>

\* AbandonedRequestGuard::drop, remember_abandoned_request.
Remember(c) ==
  /\ call[c] = "dropping"
  /\ abandoned' = Append(IF Len(abandoned) = AbandonedCapacity
                           THEN Tail(abandoned) ELSE abandoned, c)
  /\ Goto(c, "returned")
  /\ UNCHANGED <<ledgerVars, op, fp, result, ready, stream, pipeVars, ghostVars>>

-----------------------------------------------------------------------------
(* The plugin as the adapter sees it.                                      *)

\* The debugger performs a mutation it was sent, at most once.
PluginApplies(c) ==
  /\ c \in sent
  /\ Mutation(c)
  /\ c \notin applied
  /\ applied' = applied \cup {c}
  /\ UNCHANGED <<ledgerVars, futureVars, ready, stream, abandoned, pipeVars, sent, owner, expired>>

\* One answer per request, in order; success only for what was performed.
PluginAnswers(a) ==
  /\ pipeOpen
  /\ toPlugin # <<>>
  /\ Head(toPlugin) # NoRequest
  /\ (a = "ok" /\ Mutation(Head(toPlugin))) => Head(toPlugin) \in applied
  /\ toPlugin' = Tail(toPlugin)
  /\ toSidecar' = Append(toSidecar, [id |-> Head(toPlugin), answer |-> a])
  /\ UNCHANGED <<ledgerVars, futureVars, ready, stream, abandoned, pipeOpen, ghostVars>>

\* Runtime::Stop disconnects the pipe; what is buffered in it is lost.
PluginCloses ==
  /\ pipeOpen
  /\ pipeOpen' = FALSE
  /\ toPlugin' = <<>>
  /\ toSidecar' = <<>>
  /\ UNCHANGED <<ledgerVars, futureVars, ready, stream, abandoned, ghostVars>>

-----------------------------------------------------------------------------
\* established(): an authenticated stream, nothing called yet.
AdapterInit ==
  /\ LedgerInit
  /\ call = [c \in Request |-> "idle"]
  /\ op = [c \in Request |-> NoOperation]
  /\ fp = [c \in Request |-> NoOperation]
  /\ result = [c \in Request |-> "none"]
  /\ ready = TRUE
  /\ stream = NoRequest
  /\ abandoned = <<>>
  /\ toPlugin = <<>>
  /\ toSidecar = <<>>
  /\ pipeOpen = TRUE
  /\ sent = {}
  /\ applied = {}
  /\ owner = [i \in OperationId |-> NoRequest]
  /\ expired = {}

\* Steps a call takes by itself, and the timer that bounds its exchange.
Progress(c) ==
  \/ PassReadyCheck(c)
  \/ FailReadyCheck(c)
  \/ AcquireStream(c)
  \/ WriteRequest(c)
  \/ ReadOwn(c)
  \/ DrainStale(c)
  \/ ReadForeign(c)
  \/ ExchangeError(c)
  \/ Timeout(c)
  \/ Settle(c)
  \/ Fail(c)
  \/ Remember(c)

Client(c) ==
  \/ CallRead(c)
  \/ \E id \in OperationId, f \in Fingerprint : CallMutation(c, id, f)
  \/ Cancel(c)

LedgerTick ==
  /\ Tick
  /\ UNCHANGED <<futureVars, ready, stream, abandoned, pipeVars, ghostVars>>

Sidecar ==
  \/ \E c \in Request : Client(c) \/ Progress(c)
  \/ LedgerTick

Plugin ==
  \/ \E c \in Request : PluginApplies(c)
  \/ \E a \in Answer : PluginAnswers(a)
  \/ PluginCloses

AdapterNext == Sidecar \/ Plugin

AdapterSafety == AdapterInit /\ [][AdapterNext]_adapterVars

\* The runtime polls every call and its timer; neither the plugin nor the
\* client has to do anything.
AdapterSpec ==
  AdapterSafety /\ \A c \in Request : WF_adapterVars(Progress(c))

-----------------------------------------------------------------------------
(* Properties.                                                             *)

\* A mutation is performed at most once per operation_id for as long as the
\* ledger remembers it: two performed calls with the same id are possible only
\* across an eviction by age.  Retries, cancellations, timeouts, torn frames
\* and a closing pipe do not repeat it.
AtMostOnce ==
  \A c, d \in applied : (c # d /\ op[c] = op[d]) => {c, d} \cap expired # {}

\* A mutation answered "ok", first hand or replayed from the ledger, has been
\* performed, with the arguments of the call that is answered.
OkIsTruthful ==
  \A c \in Request : (Mutation(c) /\ result[c] = "ok") =>
    \E d \in applied : op[d] = op[c] /\ fp[d] = fp[c]

\* No call finds its ledger entry gone when it settles: an admission is owned
\* by one call until that call records the outcome.
NoLostEntry == \A c \in Request : result[c] # "internal"

\* A recorded outcome is final: while its entry lives, neither a late answer,
\* a retry nor a late failure changes it, although set_status would.
VerdictFinal ==
  [][\A i \in DOMAIN entries \cap DOMAIN entries' :
       (entries[i].status # "InFlight" /\ owner'[i] = owner[i]) =>
         /\ entries'[i].status = entries[i].status
         /\ entries'[i].value = entries[i].value]_adapterVars

(* The facts behind these properties: together with AdapterTypeOK they are *)
(* inductive, which is what Backend_proofs uses.                           *)

\* Nothing is known of a call that has not been made.
IdleIsFresh ==
  \A c \in Request : call[c] = "idle" => op[c] = NoOperation /\ result[c] = "none"

\* A mutation under way has an entry in flight that is its own and carries its
\* arguments, up to the step in which it settles.
Owned ==
  \A c \in Request :
    (/\ Mutation(c)
     /\ call[c] \in {"admitted", "queued", "writing", "reading", "answered", "failing"})
      => /\ Removable(op[c], fp[c])
         /\ owner[op[c]] = c

\* Every entry was admitted by a call with that id and those arguments.
EntryHasOwner ==
  \A o \in DOMAIN entries :
    /\ owner[o] \in Request
    /\ op[owner[o]] = o
    /\ fp[owner[o]] = entries[o].fingerprint

\* A mutation that was sent still has its entry, unless age evicted it.
SentIsRemembered ==
  \A c \in sent \ expired :
    Mutation(c) => op[c] \in DOMAIN entries /\ owner[op[c]] = c

SentIsPastWriting ==
  \A c \in sent : call[c] \notin {"idle", "admitted", "queued", "writing"}

AppliedWasSent == \A c \in applied : c \in sent /\ Mutation(c)

\* The frames in the pipe belong to requests that were sent, and a success to a
\* mutation that was performed.
FramesAreHonest ==
  /\ \A k \in 1..Len(toPlugin) : toPlugin[k] \in sent \cup {NoRequest}
  /\ \A k \in 1..Len(toSidecar) :
       /\ toSidecar[k].id \in sent \cup {NoRequest}
       /\ (/\ toSidecar[k].id \in Request
           /\ toSidecar[k].answer = "ok"
           /\ Mutation(toSidecar[k].id)) => toSidecar[k].id \in applied

\* What the ledger replays is an answer, and "ok" only for what was performed.
RecordsAreHonest ==
  /\ \A c \in Request : call[c] = "answered" => result[c] \in Answer
  /\ \A o \in DOMAIN entries : entries[o].status = "Completed" =>
       /\ entries[o].value \in Answer
       /\ entries[o].value = "ok" =>
            \E d \in applied : op[d] = o /\ fp[d] = entries[o].fingerprint

\* The inductive invariant: who owns what, from admission to settlement.
AdapterInv ==
  /\ IdleIsFresh
  /\ Owned
  /\ EntryHasOwner
  /\ SentIsRemembered
  /\ SentIsPastWriting
  /\ AppliedWasSent
  /\ FramesAreHonest
  /\ RecordsAreHonest

\* Every call comes back to its client, whatever the plugin does.
CallReturns ==
  \A c \in Request : (call[c] # "idle") ~> (call[c] = "returned")

\* An operation in flight is settled, unless its client went away.
InFlightSettles ==
  \A i \in OperationId :
    (i \in DOMAIN entries /\ entries[i].status = "InFlight")
      ~> \/ i \notin DOMAIN entries
         \/ entries[i].status # "InFlight"
         \/ result[owner[i]] = "cancelled"

\* Neither a silent plugin nor a lost answer leaves a call or an entry hanging.
CallsSettle == CallReturns /\ InFlightSettles

\* What the ledger's BUSY answer tells the client to wait for: "Wait for the
\* in-flight operation to finish, then retry with the same operation_id"
\* (crates/server/src/ipc_adapter.rs:155).
InFlightFinishes ==
  \A i \in OperationId :
    (i \in DOMAIN entries /\ entries[i].status = "InFlight")
      ~> (i \notin DOMAIN entries \/ entries[i].status # "InFlight")

\* The regression test cancelled_call_stale_response_is_drained_before_next_
\* response asserts that the adapter is still ready after a cancellation: only
\* a timeout or an I/O failure disconnects it.
\* The code does not keep this promise: README.md, Observations.
CancellationKeepsReady ==
  ~ready => \E c \in Request : result[c] \in {"timeout", "io"}
=============================================================================
