---------------------------- MODULE PausedSnapshot ----------------------------
(***************************************************************************)
(* What a handler knows of the debuggee while it works: the state and the  *)
(* generation that the runtime publishes under stateMutex_.  The runtime   *)
(* promises that nothing about the debuggee changes under a generation     *)
(* that has not moved (Observe); handlers capture a generation, work, and  *)
(* check it again.  DebuggerState implements this specification; the       *)
(* handlers are modelled on top of it.                                     *)
(***************************************************************************)
EXTENDS Integers

CONSTANT MaxGeneration   \* bound on generation_

VARIABLES
  debuggee,     \* debuggeeState_
  generation,   \* generation_
  pluginState   \* pluginState_

snapshotVars == <<debuggee, generation, pluginState>>

\* A callback or a reconciliation is committed: the generation moves with it.
Observe(next) ==
  /\ generation < MaxGeneration
  /\ debuggee' = next
  /\ generation' = generation + 1
  /\ UNCHANGED pluginState

\* Runtime::Stop begins.
Drain ==
  /\ pluginState = "ready"
  /\ pluginState' = "draining"
  /\ UNCHANGED <<debuggee, generation>>

DebuggeeStates == {"absent", "starting", "paused", "running", "stopping", "exited"}

ObserverInit ==
  /\ debuggee \in DebuggeeStates
  /\ generation \in 0..MaxGeneration
  /\ pluginState = "ready"

ObserverNext == Drain \/ \E next \in DebuggeeStates : Observe(next)

ObserverSpec == ObserverInit /\ [][ObserverNext]_snapshotVars

-----------------------------------------------------------------------------
\* BeginPausedSnapshot and BeginActiveSnapshot have a generation to give.
PausedSnapshotAvailable == pluginState = "ready" /\ debuggee = "paused"
ActiveSnapshotAvailable == pluginState = "ready" /\ debuggee \in {"paused", "running"}

\* Mutant: any pause will do.
PausedSnapshotOfState(snapshot) == PausedSnapshotAvailable /\ generation >= snapshot

PausedSnapshotCurrent(snapshot) == PausedSnapshotAvailable /\ generation = snapshot
ActiveSnapshotCurrent(snapshot) == ActiveSnapshotAvailable /\ generation = snapshot

=============================================================================
