----------------------------- MODULE TimedWait -----------------------------
(***************************************************************************)
(* A semaphore of the kernel as poll(), and with it every select() of the  *)
(* firmware, waits on it: sem_tickwait() with its watchdog timer, beside   *)
(* sem_wait() and sem_post(), the clock interrupt, and signals.            *)
(*                                                                         *)
(* The critical sections are the steps.  The waiting tasks are a set: the  *)
(* kernel takes the first of the highest priority, any task here.          *)
(***************************************************************************)
EXTENDS Wdog, FiniteSets

CONSTANTS
    Task,
    Delay,          \* time limits, in ticks
    Forever,        \* no limit: sem_wait()
    MaxCount,       \* bound on posts that nobody has taken
    Prealloc,       \* CONFIG_PREALLOC_WDOGS
    IntReserve      \* CONFIG_WDOG_INTRESERVE

ASSUME TaskAssumption  == IsFiniteSet(Task)
ASSUME DelayAssumption == Delay \subseteq Nat /\ Forever \notin Delay
ASSUME CountAssumption == MaxCount \in Nat
ASSUME PoolAssumption  == Prealloc \in Nat /\ IntReserve \in Nat

VARIABLES
    semcount,
    pc,
    limit,          \* delay of sem_tickwait(), or Forever
    waited,         \* clock_systimer() - start, not counted beyond the limit
    ret,            \* what the call has come to
    active,         \* g_wdactivelist, its entries named by the task that waits
    waitdog,        \* where the task's watchdog comes from
    nfree           \* g_wdnfree

call == <<limit, waited>>
pool == <<waitdog, nfree>>
vars == <<semcount, pc, call, ret, active, pool>>

Init ==
    /\ semcount = 0
    /\ pc = [t \in Task |-> "idle"] /\ ret = [t \in Task |-> "idle"]
    /\ limit = [t \in Task |-> Forever] /\ waited = [t \in Task |-> 0]
    /\ active = <<>> /\ waitdog = [t \in Task |-> "none"] /\ nfree = Prealloc

At(t, p) == pc[t] = p
GoTo(t, p) == pc' = [pc EXCEPT ![t] = p]

\* A call has come to an end; its time is of no interest any more.
Ends(t, r) ==
    /\ ret' = [ret EXCEPT ![t] = r]
    /\ limit' = [limit EXCEPT ![t] = Forever] /\ waited' = [waited EXCEPT ![t] = 0]

\* task_state == TSTATE_WAIT_SEM
Blocked == {t \in Task : At(t, "wait")}

-----------------------------------------------------------------------------
(***************************************************************************)
(* The waiting task.                                                       *)
(***************************************************************************)

\* sem_wait() is called.
SemWait(t) ==
    /\ At(t, "idle")
    /\ ret' = [ret EXCEPT ![t] = "busy"]
    /\ GoTo(t, "enter")
    /\ UNCHANGED <<semcount, call, active, pool>>

\* sem_tickwait() is called, and begins with wd_create(): a watchdog comes from
\* the pool while that has more than the reserve, else from the heap, which may
\* have nothing left (-ENOMEM).
SemTickWait(t, d) ==
    /\ At(t, "idle")
    /\ \/ /\ limit' = [limit EXCEPT ![t] = d]
          /\ ret' = [ret EXCEPT ![t] = "busy"]
          /\ waitdog' = [waitdog EXCEPT ![t] = IF nfree > IntReserve THEN "pool" ELSE "heap"]
          /\ nfree' = IF nfree > IntReserve THEN nfree - 1 ELSE nfree
          /\ GoTo(t, "enter")
       \/ /\ nfree <= IntReserve
          /\ ret' = [ret EXCEPT ![t] = "failed"]
          /\ GoTo(t, "return")
          /\ UNCHANGED <<limit, pool>>
    /\ UNCHANGED <<semcount, waited, active>>

\* sem_trywait(), or the first branch of sem_wait(): a post is there.
Taken(t) ==
    /\ At(t, "enter") /\ semcount > 0
    /\ semcount' = semcount - 1
    /\ Ends(t, "ok") /\ GoTo(t, "return")
    /\ UNCHANGED <<active, pool>>

\* Mutant of NotTaken: the time that has passed is tested one tick too early.
NotTakenEarly(t) ==
    /\ At(t, "enter") /\ semcount <= 0 /\ limit[t] # Forever
    /\ waited[t] + 1 >= limit[t]
    /\ Ends(t, IF limit[t] = 0 THEN "failed" ELSE "timedout")
    /\ GoTo(t, "return")
    /\ UNCHANGED <<semcount, active, pool>>

\* No post, and no time to wait: delay == 0, or elapsed >= delay.
NotTaken(t) ==
    /\ At(t, "enter") /\ semcount <= 0 /\ limit[t] # Forever
    /\ waited[t] >= limit[t]
    /\ Ends(t, IF limit[t] = 0 THEN "failed" ELSE "timedout")
    /\ GoTo(t, "return")
    /\ UNCHANGED <<semcount, active, pool>>

\* Mutant of Block: the watchdog is only started when the call has just begun.
BlockUntimed(t) ==
    /\ At(t, "enter") /\ semcount <= 0
    /\ limit[t] # Forever => waited[t] < limit[t]
    /\ active' = IF limit[t] = Forever \/ waited[t] > 0
                 THEN active ELSE WdStart(active, t, limit[t])
    /\ semcount' = semcount - 1
    /\ GoTo(t, "wait")
    /\ UNCHANGED <<call, ret, pool>>

\* The watchdog is started for the time left, and sem_wait() blocks.
Block(t) ==
    /\ At(t, "enter") /\ semcount <= 0
    /\ limit[t] # Forever => waited[t] < limit[t]
    /\ active' = IF limit[t] = Forever
                 THEN active ELSE WdStart(active, t, limit[t] - waited[t])
    /\ semcount' = semcount - 1
    /\ GoTo(t, "wait")
    /\ UNCHANGED <<call, ret, pool>>

\* sem_wait() returns to sem_tickwait(): only after a success is the watchdog
\* cancelled before the critical section ends.
Resume(t) ==
    /\ At(t, "ready")
    /\ active' = IF ret[t] = "ok" THEN WdCancel(active, t) ELSE active
    /\ GoTo(t, "return")
    /\ UNCHANGED <<semcount, call, ret, pool>>

\* Mutant of Return: a pooled watchdog that is still active is not cancelled.
ReturnActive(t) ==
    /\ At(t, "return")
    /\ nfree' = IF waitdog[t] = "pool" THEN nfree + 1 ELSE nfree
    /\ waitdog' = [waitdog EXCEPT ![t] = "none"]
    /\ Ends(t, "idle") /\ GoTo(t, "idle")
    /\ UNCHANGED <<semcount, active>>

\* wd_delete(), and the call returns.
Return(t) ==
    /\ At(t, "return")
    /\ active' = WdCancel(active, t)
    /\ nfree' = IF waitdog[t] = "pool" THEN nfree + 1 ELSE nfree
    /\ waitdog' = [waitdog EXCEPT ![t] = "none"]
    /\ Ends(t, "idle") /\ GoTo(t, "idle")
    /\ UNCHANGED semcount

Waits(t) == Taken(t) \/ NotTaken(t) \/ Block(t) \/ Resume(t) \/ Return(t)

-----------------------------------------------------------------------------
(***************************************************************************)
(* What ends a wait.                                                       *)
(***************************************************************************)

\* sem_post(), by a task or an interrupt.
Post ==
    /\ semcount < MaxCount
    /\ semcount' = semcount + 1
    /\ IF semcount < 0
       THEN \E t \in Blocked : GoTo(t, "ready") /\ Ends(t, "ok")
       ELSE UNCHANGED <<pc, ret, call>>
    /\ UNCHANGED <<active, pool>>

\* sem_waitirq(wtcb, EINTR)
Signal(t) ==
    /\ At(t, "wait")
    /\ semcount' = semcount + 1
    /\ GoTo(t, "ready") /\ Ends(t, "failed")
    /\ UNCHANGED <<active, pool>>

\* Mutant of TimedOut: sem_timeout() does not ask whether the task still waits.
TimedOutAny == Expired(active)

\* sem_timeout(): the tasks whose watchdog expires while they still wait.
TimedOut == Expired(active) \cap Blocked

\* The clock interrupt: wd_timer(), and sem_waitirq(wtcb, ETIMEDOUT) for each.
Tick ==
    /\ active' = WdTimer(active)
    /\ semcount' = semcount + Cardinality(TimedOut)
    /\ pc' = [t \in Task |-> IF t \in TimedOut THEN "ready" ELSE pc[t]]
    /\ ret' = [t \in Task |-> IF t \in TimedOut THEN "timedout" ELSE ret[t]]
    /\ limit' = [t \in Task |-> IF t \in TimedOut THEN Forever ELSE limit[t]]
    /\ waited' = [t \in Task |->
                     CASE t \in TimedOut -> 0
                       [] limit[t] # Forever /\ waited[t] < limit[t] -> waited[t] + 1
                       [] OTHER -> waited[t]]
    /\ UNCHANGED pool

-----------------------------------------------------------------------------

Next ==
    \/ Post \/ Tick
    \/ \E t \in Task :
          \/ SemWait(t) \/ \E d \in Delay : SemTickWait(t, d)
          \/ Waits(t) \/ Signal(t)

Spec == Init /\ [][Next]_vars

\* The clock runs, and a task that can run does.  Nobody has to call, to post or
\* to send a signal.
FairSpec == Spec /\ WF_vars(Tick) /\ \A t \in Task : WF_vars(Waits(t))

-----------------------------------------------------------------------------

\* Types, and the number of watchdogs in the pool never exceeds Prealloc.
TypeOK ==
    /\ semcount \in -Cardinality(Task) .. MaxCount
    /\ pc \in [Task -> {"idle", "enter", "wait", "ready", "return"}]
    /\ ret \in [Task -> {"idle", "busy", "ok", "failed", "timedout"}]
    /\ limit \in [Task -> Delay \cup {Forever}] /\ waited \in [Task -> Nat]
    /\ active \in Seq([wd : Task, lag : Nat])
    /\ waitdog \in [Task -> {"none", "pool", "heap"}] /\ nfree \in 0 .. Prealloc

\* A negative count is the number of tasks that wait: a post between a time-out
\* or a signal and the task's return goes to somebody who still waits.
WaitersCounted ==
    IF semcount < 0 THEN Cardinality(Blocked) = -semcount ELSE Blocked = {}

\* However entries are put in front of, behind and between others, cancelled and
\* expired: the watchdog of a waiting task is due one tick after its time limit.
OnTime ==
    \A t \in Blocked :
        limit[t] # Forever =>
            /\ t \in Wds(active)
            /\ waited[t] + Now(active, IndexOf(active, t)) = limit[t] + 1

\* Every watchdog that is running belongs to a call of sem_tickwait(), and
\* watchdogs that no call has are back in the pool.
WatchdogsOwned ==
    /\ Len(active) = Cardinality(Wds(active))
    /\ \A t \in Wds(active) : waitdog[t] # "none"
    /\ nfree + Cardinality({t \in Task : waitdog[t] = "pool"}) = Prealloc

Sem == INSTANCE TimedSem WITH count <- IF semcount > 0 THEN semcount ELSE 0

\* Posts, time-outs, signals and returns in any order: no post is lost or taken
\* twice, and no wait times out before its time or without having a time limit.
SemKept == Sem!Spec

\* A wait with a time limit returns, whether or not there is ever a post.
WaitReturns == \A t \in Task : limit[t] # Forever ~> At(t, "idle")

=============================================================================
