------------------------------ MODULE DayLifecycle ------------------------------
(***************************************************************************)
(* What the API promises of a daily submission, whoever calls and however  *)
(* the calls overlap: it is started once, completed only from CHECKED_OUT, *)
(* and never IN_PROGRESS again.  A call that ends the drive is let in while *)
(* the day is IN_PROGRESS; its change takes effect once, or never, and the *)
(* day may have been completed by then.                                    *)
(***************************************************************************)
CONSTANTS Days, Callers, None

VARIABLES
    day,      \* the status of each day, None before it is started
    ending    \* the day each caller has been let in to check out, if any

vars == <<day, ending>>

Init == day = [d \in Days |-> None] /\ ending = [c \in Callers |-> None]

Move(d, from, to) ==
    /\ day[d] = from
    /\ day' = [day EXCEPT ![d] = to]
    /\ UNCHANGED ending

Start(d) == Move(d, None, "IN_PROGRESS")
Complete(d) == Move(d, "CHECKED_OUT", "COMPLETED")
Reopen(d) == Move(d, "COMPLETED", "CHECKED_OUT")

LetIn(c, d) ==
    /\ ending[c] = None /\ day[d] = "IN_PROGRESS"
    /\ ending' = [ending EXCEPT ![c] = d]
    /\ UNCHANGED day

\* A second call can find the day completed: end_drive looks before it locks.
CheckOut(c) ==
    /\ ending[c] # None
    /\ day' = [day EXCEPT ![ending[c]] = "CHECKED_OUT"]
    /\ ending' = [ending EXCEPT ![c] = None]

Abandon(c) ==
    /\ ending' = [ending EXCEPT ![c] = None]
    /\ UNCHANGED day

Next == \/ \E d \in Days : Start(d) \/ Complete(d) \/ Reopen(d)
        \/ \E c \in Callers : CheckOut(c) \/ Abandon(c) \/ \E d \in Days : LetIn(c, d)

Spec == Init /\ [][Next]_vars
=============================================================================
