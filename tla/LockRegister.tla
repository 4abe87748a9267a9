----------------------------- MODULE LockRegister -----------------------------
(***************************************************************************)
(* What the pid lock promises its callers: one register that names the     *)
(* process that owns it.  A live process takes the register when it is     *)
(* free or names a dead process, learns that it did, and gives it back;    *)
(* any process may die at any time and leaves the register as it is.       *)
(***************************************************************************)
CONSTANTS Process, Free

VARIABLES owner, live, inside

registerVars == <<owner, live, inside>>

RegisterInit == owner = Free /\ live = {} /\ inside = {}

Start(x) == x \notin live /\ live' = live \cup {x} /\ UNCHANGED <<owner, inside>>

Die(x) ==
    /\ x \in live
    /\ live' = live \ {x}
    /\ inside' = inside \ {x}
    /\ UNCHANGED owner

Take(x) ==
    /\ x \in live /\ owner \notin live
    /\ owner' = x
    /\ UNCHANGED <<live, inside>>

Enter(x) ==
    /\ x \in live /\ owner = x
    /\ inside' = inside \cup {x}
    /\ UNCHANGED <<owner, live>>

Leave(x) ==
    /\ x \in inside
    /\ inside' = inside \ {x}
    /\ UNCHANGED <<owner, live>>

GiveBack(x) ==
    /\ x \in live \ inside /\ owner = x
    /\ owner' = Free
    /\ UNCHANGED <<live, inside>>

RegisterNext ==
    \E x \in Process :
        Start(x) \/ Die(x) \/ Take(x) \/ Enter(x) \/ Leave(x) \/ GiveBack(x)

RegisterSpec == RegisterInit /\ [][RegisterNext]_registerVars
=============================================================================
