-------------------------- MODULE MCDebuggerExecutor --------------------------
(* Model values for checking DebuggerExecutor on its own.                  *)
EXTENDS DebuggerExecutor, TLC

CONSTANTS r1, r2, r3, none

MCRequest == {r1, r2, r3}
=============================================================================
