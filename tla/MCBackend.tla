------------------------------ MODULE MCBackend ------------------------------
(* Model values for checking Backend.                                      *)
EXTENDS Backend

CONSTANTS c1, c2, o1, f1, none, nop

MCRequest == {c1, c2}
MCOperationId == {o1}
MCFingerprint == {f1}
MCHasty == {c2}

\* States that differ only in what nothing reads any more are one: the Work item
\* of a call that has returned and left the executor (the code has freed it by
\* then), all of its status but the one DefiniteErrorIsHonest names, and the
\* order of the executor's history.
Live(r) == serving = r \/ work = r \/ Queued(r)
MCView ==
  <<adapterVars, gateVars, queue, execute, threadVars, loopVars,
    [r \in Request |->
       IF Live(r) THEN <<cancelled[r], started[r], completion[r], status[r]>>
                  ELSE <<status[r] = "timedOutQueued">>]>>
=============================================================================
