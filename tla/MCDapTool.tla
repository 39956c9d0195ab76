----------------------------- MODULE MCDapTool -----------------------------
(* Traces on which TLC runs DapTool.                                     *)
EXTENDS DapTool

CONSTANTS k1, k2

S(key, depth) == [key |-> key, depth |-> depth]

ValidTraces == {<<>>, <<S(k1, 1)>>, <<S(k1, 0), S(k2, 2), S(k1, 1)>>}

\* Traces whose second line or last line is invalid.
CutTraces == {<<S(k1, 0), Invalid, S(k2, 1)>>, <<S(k1, 0), Invalid>>}

AllTraces == ValidTraces \cup CutTraces

=============================================================================
