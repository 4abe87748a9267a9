----------------------------- MODULE MCDrainLoop -----------------------------
(* DrainLoop on a few entries and workers.  Workers are interchangeable, and   *)
(* so are fresh eligible entries that no other entry has to do with.           *)
EXTENDS DrainLoop, TLC

CONSTANTS a, b, c, d

\* c waits for the entry that an earlier run or a human may have touched.
Waits == {<<c, a>>}

\* c and d wait for each other, and c for a as well.
Knot == {<<c, d>>, <<d, c>>, <<c, a>>}

Related == {e[1] : e \in BlockedBy} \cup {e[2] : e \in BlockedBy}

Symmetry == Permutations(Worker) \cup Permutations(Eligible \ (Disturbed \cup Related))
=============================================================================
