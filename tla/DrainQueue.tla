------------------------------ MODULE DrainQueue ------------------------------
(***************************************************************************)
(* What a drain promises whoever starts it.  An entry is taken at most     *)
(* MaxTries times, and MaxTaken times in all; each taking is settled by    *)
(* itself: the entry ships, goes back for another try while it has one, or *)
(* is passed over for good, as it may be before it is ever taken.  Shipped *)
(* entries and those under way are never more than Cap.  A drain ends with *)
(* nothing under way, or it broke, and says so; then nothing goes on.      *)
(***************************************************************************)
EXTENDS Naturals, FiniteSets

CONSTANTS Entry, Cap, MaxTries, MaxTaken

VARIABLES taken, shipped, passed,
          tries,    \* how often each entry was taken
          total,    \* how often any was
          broken,   \* a systemic failure: nothing is taken any more
          outcome   \* the exit code

queueVars == <<taken, shipped, passed, tries, total, broken, outcome>>

QueueInit ==
    /\ taken = {} /\ shipped = {} /\ passed = {}
    /\ tries = [e \in Entry |-> 0] /\ total = 0
    /\ broken = FALSE /\ outcome = "running"

Running == outcome = "running"

Waiting == Entry \ (taken \cup shipped \cup passed)

Take(e) ==
    /\ Running /\ ~broken
    /\ e \in Waiting /\ tries[e] < MaxTries /\ total < MaxTaken
    /\ Cardinality(taken \cup shipped) < Cap
    /\ taken' = taken \cup {e}
    /\ tries' = [tries EXCEPT ![e] = @ + 1]
    /\ total' = total + 1
    /\ UNCHANGED <<shipped, passed, broken, outcome>>

Returned(e) ==
    /\ Running /\ e \in taken
    /\ taken' = taken \ {e}
    /\ UNCHANGED <<tries, total, outcome>>

Ship(e) == Returned(e) /\ shipped' = shipped \cup {e} /\ UNCHANGED <<passed, broken>>

Retry(e) == Returned(e) /\ tries[e] < MaxTries /\ UNCHANGED <<shipped, passed, broken>>

GiveUp(e) == Returned(e) /\ passed' = passed \cup {e} /\ UNCHANGED <<shipped, broken>>

Break(e) == Returned(e) /\ broken' = TRUE /\ UNCHANGED <<shipped, passed>>

PassOver(e) ==
    /\ Running /\ e \in Waiting
    /\ passed' = passed \cup {e}
    /\ UNCHANGED <<taken, shipped, tries, total, broken, outcome>>

End ==
    /\ Running /\ (taken = {} \/ broken)
    /\ outcome' \in IF broken THEN {"1"} ELSE {"0", "130"}
    /\ UNCHANGED <<taken, shipped, passed, tries, total, broken>>

QueueNext ==
    \/ \E e \in Entry : Take(e) \/ Ship(e) \/ Retry(e) \/ GiveUp(e) \/ Break(e) \/ PassOver(e)
    \/ End

QueueSpec == QueueInit /\ [][QueueNext]_queueVars
===============================================================================
