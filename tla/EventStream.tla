----------------------------- MODULE EventStream -----------------------------
(***************************************************************************)
(* The event pipe: plugin/src/event_stream.cpp and the loop of the sidecar *)
(* that reads it (receive_events).  Debugger callbacks enqueue events under*)
(* a mutex; a worker thread accepts one client, authenticates it and writes*)
(* one frame at a time, a gap frame before any event when events have been *)
(* dropped; Stop may come at any point.                                    *)
(*                                                                         *)
(* Events are numbered in the order of their sequence numbers.  The named  *)
(* pipe is external: it buffers frames, a client can open it while it      *)
(* listens, a closed client makes the server's calls fail, and what is     *)
(* unread when the server disconnects is discarded.                        *)
(***************************************************************************)
EXTENDS Integers, Sequences, SequencesExt, FiniteSetsExt

CONSTANTS
  MaxEvents,       \* bound on the events of a finite model
  MaxBreaks,       \* bound on the closes of the pipe by the sidecar
  MaxQueuedEvents, \* kMaxQueuedEvents
  PipeFrames       \* frames the pipe buffers before a write blocks

ASSUME StreamAssumption ==
  /\ MaxEvents \in Nat
  /\ MaxBreaks \in Nat
  /\ MaxQueuedEvents \in Nat \ {0}
  /\ PipeFrames \in Nat \ {0}

VARIABLES
  queue, dropped,       \* queue_, dropped_
  stopping, instanceId, \* stopping_, and whether instanceId_ is set
  worker, hand,         \* where Worker is, and the frame it holds
  stopper,              \* where Stop is
  pipe, wire,           \* the pipe's state and its unread frames
  reader, breaks,       \* where receive_events is, and how often it closed
  produced, lost,       \* history: events recorded, events lost with the pipe
  published             \* history: frames the sidecar has published

queueVars == <<queue, dropped, produced>>
pipeVars == <<pipe, wire, lost>>
readerVars == <<reader, breaks, published>>
streamVars == <<queueVars, stopping, instanceId, worker, hand, stopper,
                pipeVars, readerVars>>

Event == 1..MaxEvents
Frame == [type : {"event"}, n : Event] \cup [type : {"gap"}, n : Event]
NoFrame == [type |-> "none", n |-> 0]
EventFrame(e) == [type |-> "event", n |-> e]
GapFrame(k) == [type |-> "gap", n |-> k]

\* The events that a frame stands for, and those of the first i of the frames.
Weight(f) == IF f.type = "event" THEN 1 ELSE f.n
Weights(frames) ==
  LET W[i \in 0..Len(frames)] == IF i = 0 THEN 0 ELSE W[i - 1] + Weight(frames[i])
  IN W
Carried(frames) == Weights(frames)[Len(frames)]

StreamTypeOK ==
  /\ queue \in Seq(Event)
  /\ dropped \in 0..MaxEvents
  /\ stopping \in BOOLEAN
  /\ instanceId \in BOOLEAN
  /\ worker \in {"accepting", "connecting", "hello", "instance", "greet", "idle",
                 "writing", "failed", "ended"}
  /\ hand \in Frame \cup {NoFrame}
  /\ stopper \in {"none", "flagged", "cancelled", "disconnected", "joined"}
  /\ pipe \in {"listening", "connected", "broken", "disconnected"}
  /\ wire \in Seq(Frame \cup {NoFrame})
  /\ reader \in {"away", "opened", "greeted", "reading", "dead"}
  /\ breaks \in 0..MaxBreaks
  /\ produced \in 0..MaxEvents
  /\ lost \in 0..MaxEvents
  /\ published \in Seq(Frame)

-----------------------------------------------------------------------------
(* Producers.                                                              *)

\* Mutant: the front is popped and not counted.
EnqueueUncounted ==
  /\ produced < MaxEvents
  /\ produced' = produced + 1
  /\ queue' = IF stopping THEN queue
              ELSE Append(IF Len(queue) = MaxQueuedEvents THEN Tail(queue) ELSE queue, produced + 1)
  /\ UNCHANGED <<dropped, stopping, instanceId, worker, hand, stopper, pipeVars, readerVars>>

\* A callback records an event; the queue at its limit gives up its oldest.
\* An event recorded while the stream stops is not queued.
Enqueue ==
  /\ produced < MaxEvents
  /\ produced' = produced + 1
  /\ \/ /\ stopping
        /\ UNCHANGED <<queue, dropped>>
     \/ /\ ~stopping
        /\ Len(queue) = MaxQueuedEvents
        /\ queue' = Append(Tail(queue), produced + 1)
        /\ dropped' = dropped + 1
     \/ /\ ~stopping
        /\ Len(queue) # MaxQueuedEvents
        /\ queue' = Append(queue, produced + 1)
        /\ UNCHANGED dropped
  /\ UNCHANGED <<stopping, instanceId, worker, hand, stopper, pipeVars, readerVars>>

SetInstanceId ==
  /\ ~instanceId
  /\ stopper = "none"
  /\ instanceId' = TRUE
  /\ UNCHANGED <<queueVars, stopping, worker, hand, stopper, pipeVars, readerVars>>

-----------------------------------------------------------------------------
(* The worker.                                                             *)

Worker(from, to) == worker = from /\ worker' = to

\* DisconnectNamedPipe: unread frames are discarded.
Disconnected ==
  /\ pipe' = "disconnected"
  /\ wire' = <<>>
  /\ lost' = lost + Carried(wire)

WorkerOnly == UNCHANGED <<stopping, instanceId, stopper, readerVars>>

\* ConnectNamedPipe: at once when a client is already there, an error when it
\* has come and gone, and otherwise a wait.
Connect ==
  /\ worker = "accepting"
  /\ worker' = CASE pipe = "connected" -> "hello"
                 [] pipe = "broken" -> "ended"
                 [] OTHER -> "connecting"
  /\ pipe' = IF pipe = "disconnected" THEN "listening" ELSE pipe
  /\ UNCHANGED <<queueVars, hand, wire, lost>>
  /\ WorkerOnly

Connected ==
  /\ Worker("connecting", "hello")
  /\ pipe \in {"connected", "broken"}
  /\ UNCHANGED <<queueVars, hand, pipeVars>>
  /\ WorkerOnly

\* Mutant: the read blocks until the hello comes.
ReadFrameUnbounded ==
  /\ Worker("hello", "instance")
  /\ reader = "greeted"
  /\ pipe = "connected"
  /\ UNCHANGED <<queueVars, hand, pipeVars, readerVars, stopping, instanceId, stopper>>

\* ReadFrameBounded: a whole frame within three seconds, or a disconnect.  A
\* hello that comes too late counts as a fault of the sidecar.
ReadFrameBounded ==
  /\ \/ /\ Worker("hello", "instance")
        /\ reader = "greeted"
        /\ pipe = "connected"
        /\ UNCHANGED <<pipeVars, breaks>>
     \/ /\ Worker("hello", "accepting")
        /\ pipe # "connected"
        /\ Disconnected
        /\ UNCHANGED breaks
     \/ /\ Worker("hello", "accepting")
        /\ pipe = "connected" /\ reader = "opened" /\ breaks < MaxBreaks
        /\ breaks' = breaks + 1
        /\ Disconnected
  /\ UNCHANGED <<queueVars, hand, stopping, instanceId, stopper, reader, published>>

AwaitInstanceId ==
  /\ \/ stopping /\ Worker("instance", "ended")
     \/ ~stopping /\ instanceId /\ Worker("instance", "greet")
  /\ UNCHANGED <<queueVars, hand, pipeVars>>
  /\ WorkerOnly

\* ValidHello accepts the sidecar's hello (its nonce and instance are this
\* plugin's); READY is written, or the pipe is broken.
Greet ==
  /\ \/ /\ Worker("greet", "idle")
        /\ pipe = "connected"
        /\ wire' = Append(wire, NoFrame)
        /\ UNCHANGED <<pipe, lost>>
     \/ /\ Worker("greet", "accepting")
        /\ pipe # "connected"
        /\ Disconnected
  /\ UNCHANGED <<queueVars, hand>>
  /\ WorkerOnly

\* Mutant: events go first and the gap follows.
TakeEventsFirst ==
  /\ ~stopping
  /\ dropped > 0 \/ queue # <<>>
  /\ Worker("idle", "writing")
  /\ IF queue # <<>>
     THEN /\ hand' = EventFrame(Head(queue))
          /\ queue' = Tail(queue)
          /\ UNCHANGED dropped
     ELSE /\ hand' = GapFrame(dropped)
          /\ dropped' = 0
          /\ UNCHANGED queue
  /\ UNCHANGED <<produced, pipeVars>>
  /\ WorkerOnly

\* The locked section of the inner loop: drops are reported before events.
Take ==
  /\ ~stopping
  /\ Worker("idle", "writing")
  /\ \/ /\ dropped > 0
        /\ hand' = GapFrame(dropped)
        /\ dropped' = 0
        /\ UNCHANGED queue
     \/ /\ dropped = 0
        /\ queue # <<>>
        /\ hand' = EventFrame(Head(queue))
        /\ queue' = Tail(queue)
        /\ UNCHANGED dropped
  /\ UNCHANGED <<produced, pipeVars>>
  /\ WorkerOnly

\* With nothing to send, the wait ends on stopping_ or, every quarter second,
\* on a pipe found closed.
IdleEnds ==
  /\ \/ /\ stopping
        /\ Worker("idle", "ended")
        /\ UNCHANGED pipeVars
     \/ /\ ~stopping
        /\ dropped = 0 /\ queue = <<>>
        /\ pipe # "connected"
        /\ Worker("idle", "accepting")
        /\ Disconnected
  /\ UNCHANGED <<queueVars, hand>>
  /\ WorkerOnly

WriteFrame ==
  /\ \/ /\ Worker("writing", "idle")
        /\ pipe = "connected"
        /\ Len(wire) < PipeFrames
        /\ wire' = Append(wire, hand)
        /\ hand' = NoFrame
     \/ /\ Worker("writing", "failed")
        /\ pipe # "connected"
        /\ UNCHANGED <<hand, wire>>
  /\ UNCHANGED <<queueVars, pipe, lost>>
  /\ WorkerOnly

\* After a failed write the event goes back to the front of the queue and a
\* gap to the counter; then the pipe is disconnected.
PutBack ==
  /\ Worker("failed", "accepting")
  /\ \/ /\ hand.type = "event"
        /\ queue' = <<hand.n>> \o queue
        /\ UNCHANGED dropped
     \/ /\ hand.type = "gap"
        /\ dropped' = dropped + hand.n
        /\ UNCHANGED queue
  /\ hand' = NoFrame
  /\ Disconnected
  /\ UNCHANGED produced
  /\ WorkerOnly

WorkerStep ==
  \/ Connect
  \/ Connected
  \/ ReadFrameBounded
  \/ AwaitInstanceId
  \/ Greet
  \/ Take
  \/ IdleEnds
  \/ WriteFrame
  \/ PutBack

-----------------------------------------------------------------------------
(* Stop, on the thread that unloads the plugin.                            *)

StopFlags ==
  /\ stopper = "none"
  /\ stopper' = "flagged"
  /\ stopping' = TRUE
  /\ UNCHANGED <<queueVars, instanceId, worker, hand, pipeVars, readerVars>>

\* CancelSynchronousIo, CancelIoEx: a call that is blocked at this moment fails.
StopCancels ==
  /\ stopper = "flagged"
  /\ stopper' = "cancelled"
  /\ worker' = CASE worker = "connecting" -> "ended"
                 [] worker = "writing" /\ Len(wire) >= PipeFrames -> "failed"
                 [] OTHER -> worker
  /\ UNCHANGED <<queueVars, stopping, instanceId, hand, pipeVars, readerVars>>

\* DisconnectNamedPipe, which also fails a wait for a client.
StopDisconnects ==
  /\ stopper = "cancelled"
  /\ stopper' = "disconnected"
  /\ worker' = IF worker = "connecting" THEN "ended" ELSE worker
  /\ Disconnected
  /\ UNCHANGED <<queueVars, stopping, instanceId, hand, readerVars>>

StopJoins ==
  /\ stopper = "disconnected"
  /\ worker = "ended"
  /\ stopper' = "joined"
  /\ queue' = <<>>
  /\ dropped' = 0
  /\ instanceId' = FALSE
  /\ UNCHANGED <<produced, stopping, worker, hand, pipeVars, readerVars>>

StopStep == StopFlags \/ StopCancels \/ StopDisconnects \/ StopJoins

-----------------------------------------------------------------------------
(* The sidecar: receive_events.                                            *)

ReaderOnly == UNCHANGED <<queueVars, stopping, instanceId, worker, hand, stopper>>

Open ==
  /\ reader = "away"
  /\ pipe = "listening"
  /\ reader' = "opened"
  /\ pipe' = "connected"
  /\ UNCHANGED <<wire, lost, breaks, published>>
  /\ ReaderOnly

SayHello ==
  /\ reader = "opened"
  /\ pipe = "connected"
  /\ reader' = "greeted"
  /\ UNCHANGED <<pipeVars, breaks, published>>
  /\ ReaderOnly

ReadReady ==
  /\ reader = "greeted"
  /\ wire # <<>>
  /\ wire' = Tail(wire)
  /\ reader' = "reading"
  /\ UNCHANGED <<pipe, lost, breaks, published>>
  /\ ReaderOnly

\* read_frame, then publish_event: each frame is published as it is read.
ReadFrame ==
  /\ reader = "reading"
  /\ wire # <<>>
  /\ published' = Append(published, Head(wire))
  /\ wire' = Tail(wire)
  /\ UNCHANGED <<pipe, lost, reader, breaks>>
  /\ ReaderOnly

\* The loop finds the pipe disconnected and tries again later.
LoseConnection ==
  /\ reader \in {"opened", "greeted", "reading"}
  /\ pipe # "connected"
  /\ reader' = "away"
  /\ UNCHANGED <<pipeVars, breaks, published>>
  /\ ReaderOnly

\* The sidecar closes its end: the hello took three seconds, a frame was
\* malformed, or the process died and, with it, the stream for good.
CloseEnd ==
  /\ reader \in {"opened", "greeted", "reading", "away"}
  /\ breaks < MaxBreaks
  /\ breaks' = breaks + 1
  /\ reader' \in IF reader = "away" THEN {"dead"} ELSE {"away", "dead"}
  /\ pipe' = IF pipe = "connected" /\ reader # "away" THEN "broken" ELSE pipe
  /\ UNCHANGED <<wire, lost, published>>
  /\ ReaderOnly

=============================================================================
