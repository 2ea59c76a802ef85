------------------------------ MODULE TimedSem -----------------------------
(***************************************************************************)
(* What a counting semaphore with a time limit promises: a wait that       *)
(* succeeds has used up one post, one that fails has used up none, and a   *)
(* wait that times out has waited for as long as was asked for.            *)
(***************************************************************************)
EXTENDS Naturals

CONSTANTS Task, Delay, Forever

VARIABLES
    count,      \* posts that nobody has taken
    limit,      \* ticks a call may wait, or Forever
    waited,     \* ticks since it was made, not counted beyond the limit
    ret         \* what the call has come to

vars == <<count, limit, waited, ret>>

Init ==
    /\ count = 0
    /\ limit = [t \in Task |-> Forever] /\ waited = [t \in Task |-> 0]
    /\ ret = [t \in Task |-> "idle"]

\* A call that has come to an end has no time limit any more.
Ends(t, r) ==
    /\ ret' = [ret EXCEPT ![t] = r]
    /\ limit' = [limit EXCEPT ![t] = Forever] /\ waited' = [waited EXCEPT ![t] = 0]

Busy(t) == ret[t] = "busy"

Call(t, d) ==
    /\ ret[t] = "idle"
    /\ ret' = [ret EXCEPT ![t] = "busy"]
    /\ limit' = [limit EXCEPT ![t] = d]
    /\ UNCHANGED <<count, waited>>

Post == count' = count + 1 /\ UNCHANGED <<limit, waited, ret>>

Take(t) == Busy(t) /\ count > 0 /\ count' = count - 1 /\ Ends(t, "ok")

\* A post for somebody who waits.
HandOver(t) == Busy(t) /\ count = 0 /\ Ends(t, "ok") /\ UNCHANGED count

\* No memory for the call, no post to be had at once, or a signal.
Fail(t) == (Busy(t) \/ ret[t] = "idle") /\ Ends(t, "failed") /\ UNCHANGED count

\* The time is over; nobody fails for that while there is a post.
Overdue(t) == Busy(t) /\ limit[t] # Forever /\ waited[t] >= limit[t]
TimeOut(t) == Overdue(t) /\ count = 0 /\ Ends(t, "timedout") /\ UNCHANGED count

\* A tick may end any number of waits whose time is over.
Tick ==
    \E T \in SUBSET {t \in Task : Overdue(t)} :
        /\ T # {} => count = 0
        /\ ret' = [t \in Task |-> IF t \in T THEN "timedout" ELSE ret[t]]
        /\ limit' = [t \in Task |-> IF t \in T THEN Forever ELSE limit[t]]
        /\ waited' = [t \in Task |->
                         CASE t \in T -> 0
                           [] limit[t] # Forever /\ waited[t] < limit[t] -> waited[t] + 1
                           [] OTHER -> waited[t]]
        /\ UNCHANGED count

Return(t) == ret[t] \notin {"idle", "busy"} /\ Ends(t, "idle") /\ UNCHANGED count

Next ==
    \/ Post \/ Tick
    \/ \E t \in Task :
          \/ \E d \in Delay \cup {Forever} : Call(t, d)
          \/ Take(t) \/ HandOver(t) \/ Fail(t) \/ TimeOut(t) \/ Return(t)

Spec == Init /\ [][Next]_vars
=============================================================================
