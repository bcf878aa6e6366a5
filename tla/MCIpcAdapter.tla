----------------------------- MODULE MCIpcAdapter -----------------------------
(* Model values for checking IpcAdapter.                                   *)
EXTENDS IpcAdapter

CONSTANTS c1, c2, c3, o1, o2, f1, f2, none, nop

MCRequest == {c1, c2, c3}
MCRequest2 == {c1, c2}
MCOperationId == {o1, o2}
MCOperationId1 == {o1}
MCFingerprint == {f1, f2}
MCSymmetry == Permutations(MCRequest) \cup Permutations(MCFingerprint) \cup Permutations(MCOperationId)
=============================================================================
