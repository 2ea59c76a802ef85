-------------------------------- MODULE Wdog -------------------------------
(***************************************************************************)
(* The watchdog timers of the kernel: g_wdactivelist, a list ordered by    *)
(* expiry in which each entry only holds the ticks (lag) that it has to    *)
(* wait after the one before it, so that a tick touches the first alone.   *)
(* A list is a sequence of records [wd, lag]; the operators return what    *)
(* the functions, each a critical section, make of it.                     *)
(***************************************************************************)
EXTENDS Integers, Sequences, SequencesExt

\* Ticks until entry k expires: the running sum the loops keep in now.
Now(list, k) ==
    LET now[i \in 0 .. Len(list)] == IF i = 0 THEN 0 ELSE now[i - 1] + list[i].lag
    IN  now[k]

Wds(list) == {list[k].wd : k \in DOMAIN list}

IndexOf(list, wd) == CHOOSE k \in DOMAIN list : list[k].wd = wd

\* Mutant of WdCancel: the entry behind does not inherit the lag.
WdCancelShort(list, wd) ==
    IF wd \notin Wds(list) THEN list ELSE RemoveAt(list, IndexOf(list, wd))

\* wd_cancel(): the entry behind inherits the lag.
WdCancel(list, wd) ==
    IF wd \notin Wds(list)
    THEN list
    ELSE LET k == IndexOf(list, wd)
         IN  RemoveAt([i \in DOMAIN list |->
                          IF i = k + 1 THEN [list[i] EXCEPT !.lag = @ + list[k].lag] ELSE list[i]], k)

\* wd_start(): one tick more than asked for, since the current one has begun.
\* The entry goes in front of the first one that expires later, which then has
\* to wait that much less, or to the end.
WdStart(list, wd, delay) ==
    LET due   == delay + 1
        later == {k \in DOMAIN list : Now(list, k) > due}
        curr  == Min(later)
        lag   == due - Now(list, curr - 1)
    IN  IF later = {}
        THEN Append(list, [wd |-> wd, lag |-> due - Now(list, Len(list))])
        ELSE InsertAt([list EXCEPT ![curr].lag = @ - lag], curr, [wd |-> wd, lag |-> lag])

\* --lag of the first entry, in wd_timer()
Ticked(list) == [list EXCEPT ![1].lag = @ - 1]

\* wd_timer() and wd_expiration(): entries expire from the front until one has
\* ticks left; what an entry was late is added to the next.
Expired(list) ==
    {list[k].wd : k \in {j \in DOMAIN list : \A i \in 1 .. j : Now(Ticked(list), i) <= 0}}

WdTimer(list) ==
    LET n == Cardinality(Expired(list))
    IN  IF n = Len(list)
        THEN <<>>
        ELSE [SubSeq(list, n + 1, Len(list)) EXCEPT ![1].lag = Now(Ticked(list), n + 1)]
=============================================================================
