---------------------------- MODULE EventDelivery ----------------------------
(***************************************************************************)
(* The event pipe composed with the consumers in the sidecar: the broadcast*)
(* channel and one events.wait call (call_tool in mcp.rs, wait_event in    *)
(* audit_log.rs), and the audit log's bounded queue and writer.            *)
(*                                                                         *)
(* A wait subscribes to the broadcast, then asks the plugin for the latest *)
(* sequence number and session over the request pipe, and then consumes    *)
(* the frames broadcast since it subscribed.  publish_event first records  *)
(* the frame in the audit queue, then broadcasts it.                       *)
(***************************************************************************)
EXTENDS EventStream

CONSTANTS
  Created,            \* the process_created events: each opens a session
  Wanted,             \* the events that the wait's type filter selects
  BroadcastCapacity,  \* broadcast::channel(1024)
  AuditRecords        \* QUEUE_RECORDS of the audit channel

ASSUME DeliveryAssumption ==
  /\ Created \subseteq Event
  /\ Wanted \subseteq Event
  /\ BroadcastCapacity \in Nat \ {0}
  /\ AuditRecords \in Nat \ {0}

VARIABLES
  wait,      \* the events.wait call
  audit      \* the audit log: channel, writer's line, counters, file

deliveryVars == <<streamVars, wait, audit>>

\* The session that event e belongs to.
SessionOf(e) == Cardinality({c \in Created : c <= e})

WaitStage == {"absent", "none", "armed", "asked", "waiting", "ok", "cancelled", "overflow", "timeout", "failed"}

DeliveryTypeOK ==
  /\ StreamTypeOK
  /\ wait \in [at : WaitStage,
               next : Nat,             \* the receiver's place in the broadcast
               after : 0..MaxEvents,   \* after_sequence
               session : 0..MaxEvents, \* session_id
               event : 0..MaxEvents]   \* the answer
  /\ audit \in [open : BOOLEAN, channel : Seq(Frame), line : Frame \cup {NoFrame},
                queued : 0..AuditRecords + 1,
                dropped : 0..(2 * MaxEvents), reported : 0..(2 * MaxEvents),
                written : 0..(2 * MaxEvents), gaps : 0..(2 * MaxEvents)]

-----------------------------------------------------------------------------
(* events.wait                                                             *)

\* arm_event_wait subscribes before the barrier is asked for.
Arm ==
  /\ wait.at = "none"
  /\ wait' = [wait EXCEPT !.at = "armed", !.next = Len(published) + 1]
  /\ UNCHANGED <<streamVars, audit>>

\* events.list over the request pipe: the plugin takes its latest sequence and
\* session, or the call fails.
Barrier ==
  /\ wait.at = "armed"
  /\ \/ wait' = [wait EXCEPT !.at = "asked", !.after = produced,
                             !.session = SessionOf(produced)]
     \/ wait' = [wait EXCEPT !.at = "failed"]
  /\ UNCHANGED <<streamVars, audit>>

\* Mutant: the wait subscribes once it knows the barrier.
BarrierArrivesThenArm ==
  /\ wait.at = "asked"
  /\ wait' = [wait EXCEPT !.at = "waiting", !.next = Len(published) + 1]
  /\ UNCHANGED <<streamVars, audit>>

\* The answer arrives later, and the loop of wait_event begins.
BarrierArrives ==
  /\ wait.at = "asked"
  /\ wait' = [wait EXCEPT !.at = "waiting"]
  /\ UNCHANGED <<streamVars, audit>>

Matches(f) ==
  /\ f.type = "event"
  /\ SessionOf(f.n) = wait.session
  /\ f.n > wait.after
  /\ f.n \in Wanted

NewSession(f) ==
  /\ f.type = "event"
  /\ SessionOf(f.n) # wait.session
  /\ f.n \in Created

\* One recv of the loop in wait_event.  A receiver that has fallen behind by
\* more than the channel holds is told so; gaps and other events are skipped.
Receive ==
  /\ wait.at = "waiting"
  /\ wait.next <= Len(published)
  /\ LET f == published[wait.next]
         lagged == Len(published) - wait.next + 1 > BroadcastCapacity
     IN wait' = IF lagged THEN [wait EXCEPT !.at = "overflow"]
                ELSE IF NewSession(f) THEN [wait EXCEPT !.at = "cancelled"]
                ELSE IF Matches(f) THEN [wait EXCEPT !.at = "ok", !.event = f.n]
                ELSE [wait EXCEPT !.next = @ + 1]
  /\ UNCHANGED <<streamVars, audit>>

\* tokio::time::timeout polls the receiver first: it expires on an empty one.
WaitTimesOut ==
  /\ wait.at = "waiting"
  /\ wait.next > Len(published)
  /\ wait' = [wait EXCEPT !.at = "timeout"]
  /\ UNCHANGED <<streamVars, audit>>

WaitStep == Arm \/ Barrier \/ BarrierArrives \/ Receive \/ WaitTimesOut

-----------------------------------------------------------------------------
(* The audit log: record and writer_loop.  Every record counts as one byte.*)

\* Mutant: a record that finds the channel full keeps its reservation.
RecordedLeaky(frame) ==
  audit' = IF audit.open /\ audit.queued < AuditRecords + 1
           THEN IF Len(audit.channel) < AuditRecords
                THEN [audit EXCEPT !.channel = Append(@, frame), !.queued = @ + 1]
                ELSE [audit EXCEPT !.dropped = @ + 1, !.queued = @ + 1]
           ELSE [audit EXCEPT !.dropped = @ + 1]

\* record: without a store the record is counted as dropped; otherwise reserve,
\* try_send, and on a full channel return the reservation.
Recorded(frame) ==
  audit' = IF audit.open /\ audit.queued < AuditRecords + 1 /\ Len(audit.channel) < AuditRecords
           THEN [audit EXCEPT !.channel = Append(@, frame), !.queued = @ + 1]
           ELSE [audit EXCEPT !.dropped = @ + 1]

\* publish_event
Publish == ReadFrame /\ Recorded(Head(wire)) /\ UNCHANGED wait

WriterTakes ==
  /\ audit.line = NoFrame
  /\ audit.channel # <<>>
  /\ audit' = [audit EXCEPT !.channel = Tail(@), !.line = Head(audit.channel)]
  /\ UNCHANGED <<streamVars, wait>>

\* The writer appends a gap record when the drop counter has moved, then the
\* line; either append may fail, and a failure counts the line as dropped.
WriterAppends ==
  /\ audit.line # NoFrame
  /\ LET due == audit.dropped - audit.reported
         taken == [audit EXCEPT !.line = NoFrame, !.queued = @ - 1]
         told == [taken EXCEPT !.reported = audit.dropped, !.gaps = @ + due]
     IN \/ audit' = [told EXCEPT !.written = @ + 1]
        \/ audit' = [told EXCEPT !.dropped = @ + 1]
        \/ due # 0 /\ audit' = [taken EXCEPT !.dropped = @ + 1]
  /\ UNCHANGED <<streamVars, wait>>

-----------------------------------------------------------------------------
\* The store of the audit log may have failed to open; a wait and the writer
\* share no state, so a behaviour has a wait or an open store, not both.
Init ==
  /\ queue = <<>> /\ dropped = 0
  /\ stopping = FALSE /\ instanceId = FALSE
  /\ worker = "accepting" /\ hand = NoFrame
  /\ stopper = "none"
  /\ pipe = "listening" /\ wire = <<>>
  /\ reader \in {"away", "dead"} /\ breaks = 0
  /\ produced = 0 /\ lost = 0
  /\ published = <<>>
  /\ wait \in [at : {"absent", "none"}, next : {0}, after : {0}, session : {0}, event : {0}]
  /\ audit = [open |-> wait.at = "absent", channel |-> <<>>, line |-> NoFrame, queued |-> 0, dropped |-> 0,
              reported |-> 0, written |-> 0, gaps |-> 0]

StreamStep ==
  /\ \/ Enqueue
     \/ SetInstanceId
     \/ WorkerStep
     \/ StopStep
     \/ Open
     \/ SayHello
     \/ ReadReady
     \/ LoseConnection
     \/ CloseEnd
  /\ UNCHANGED <<wait, audit>>

Next ==
  \/ StreamStep
  \/ Publish
  \/ WaitStep
  \/ WriterTakes
  \/ WriterAppends

Keep(A) == A /\ UNCHANGED <<wait, audit>>

\* The worker and Stop run on; the sidecar's task is polled and its timers fire.
\* Nothing is assumed of callbacks, of the unload or of faults.
Spec ==
  /\ Init
  /\ [][Next]_deliveryVars
  /\ WF_deliveryVars(Keep(WorkerStep))
  /\ WF_deliveryVars(Keep(StopCancels \/ StopDisconnects \/ StopJoins))
  /\ WF_deliveryVars(Keep(Open \/ SayHello \/ ReadReady \/ LoseConnection))
  /\ WF_deliveryVars(Publish)
  /\ WF_deliveryVars(Barrier \/ BarrierArrives \/ Receive \/ WaitTimesOut)

-----------------------------------------------------------------------------
(* Properties.                                                             *)

\* Every event recorded before Stop is queued, counted as dropped, on its way,
\* published, covered by a published gap, or was lost with the pipe's buffer
\* (Enqueue, Worker: no path forgets an event or counts one twice).
EveryEventAccounted ==
  ~stopping => produced = Len(queue) + dropped + Weight(hand) + Carried(wire)
                          + Carried(published) + lost

\* The sidecar publishes events in sequence order and never twice, across
\* failed writes, overflows and reconnections (push_front at the old place).
PublishedInOrder ==
  \A i, j \in DOMAIN published :
    (i < j /\ published[i].type = "event" /\ published[j].type = "event")
      => published[i].n < published[j].n

\* A reader that sees a jump in the sequence has been told of gaps at least as
\* large before it, up to what broke with the pipe: the worker reports drops first.
HolesAreAnnounced ==
  \A i \in DOMAIN published :
    published[i].type = "event" => published[i].n <= Weights(published)[i] + lost

\* The stream that the sidecar publishes can be read as it is: in order, and
\* with every hole announced.
StreamIsHonest == PublishedInOrder /\ HolesAreAnnounced

\* events.wait misses no event that followed its barrier: it answers with the
\* first such event that was published, and times out only when there is none.
WaitSeesEverything ==
  LET first == {i \in DOMAIN published : Matches(published[i])}
  IN /\ wait.at = "ok" => /\ first # {}
                          /\ published[Min(first)].n = wait.event
     /\ wait.at = "waiting" => \A i \in first : i >= wait.next

\* The bytes reserved in the audit queue are those of the queued lines and the
\* one being written, so the budget is never leaked; every record of an event
\* was written, is queued, or was counted, and the file's gap records never
\* claim more than was dropped.
AuditBalanced ==
  LET line == IF audit.line = NoFrame THEN 0 ELSE 1
  IN /\ audit.queued = Len(audit.channel) + line
     /\ Len(published) = audit.written + audit.queued + audit.dropped
     /\ audit.gaps = audit.reported /\ audit.gaps <= audit.dropped

\* With a sidecar that stays, queued events reach it: Worker never sleeps on a
\* queue that is not empty, and reconnections resume it.
QueueDrains ==
  (queue # <<>> /\ instanceId) ~> (queue = <<>> \/ stopping \/ reader = "dead" \/ worker = "ended")

\* Stop returns while the sidecar lives: a worker that misses the cancellation
\* and waits for a client gets one, and then sees stopping_.
StopReturnsWithSidecar ==
  (stopper = "flagged") ~> (stopper = "joined" \/ reader = "dead")

\* Neither the queue nor Stop waits for ever on a sidecar that is there.
StreamProgresses == QueueDrains /\ StopReturnsWithSidecar

\* The lifecycle harness kills the sidecar and requires Runtime::Stop to return.
StopReturns == (stopper = "flagged") ~> (stopper = "joined")

=============================================================================
