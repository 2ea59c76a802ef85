----------------------------- MODULE UartProofs ----------------------------
(***************************************************************************)
(* For every buffer size, every number of users and of poll slots: no      *)
(* reader sleeps through a byte, no poll() misses one, and the receive     *)
(* buffer is a queue.  What depends on the tail index being the reader's   *)
(* alone is proved for ports that nobody flushes or that have one user.    *)
(***************************************************************************)
EXTENDS Uart, FiniteSetTheorems, SequenceTheorems, TLAPS

Testing == {"pollxmit", "polltest", "notify"}
Polling == {"pollxmit", "polltest", "notify", "pollwait", "teardown"}
Place   == Reading \cup {"idle", "sem", "setup", "pollxmit", "polltest", "notify", "pollwait",
                        "teardown", "write"}

\* recv.sem and pollsem are held by exactly the users that are where the code
\* holds them, and the slots of dev->fds belong to those between set-up and
\* teardown.
Exclusive ==
    \A u \in User :
        /\ pc[u] \in Reading <=> sem = u
        /\ pc[u] \in Testing <=> pollsem = u
        /\ pc[u] \in Polling <=> u \in fds

\* Slots that are in use and slots that are lost are not more than there are.
Slots == IsFiniteSet(fds) /\ Cardinality(fds) + leaked <= NPOLLWAITERS

\* A wake-up is only given to a reader that has said that it waits.
WakeupOnce == recvwaiting => recvsem = 0

\* A reader that takes a byte has room for it.
Room == \A u \in User : pc[u] \in {"copy", "store"} => recvd < BufLen

\* The inductive invariant of every port.
IInv == TypeOK /\ Exclusive /\ Slots /\ Room /\ WakeupOnce /\ NoLostWakeup

\* A port that somebody flushes has no other user.
Sole == \A f \in Flusher : User = {f}

\* Between its test and its assignment of the tail index, a reader has the oldest
\* byte of the buffer in hand.
InHand ==
    \A u \in User :
        /\ pc[u] \in {"copy", "store"} => ltail = tail /\ head # tail
        /\ pc[u] = "store" => ch = buffer[tail]

\* The inductive invariant of a port whose tail index is the reader's.
QInv == InHand /\ NoLostEvent

\* One user: what its poll() has found is there until it reads.
Found ==
    \A u \in User :
        /\ pc[u] = "setup" => u \notin revents
        /\ pc[u] = "notify" => head # tail
        /\ u \in fds \cap revents => head # tail
        /\ u \in ready => /\ pc[u] \in {"idle", "write", "sem", "loop", "copy", "store"}
                          /\ pc[u] \in {"idle", "write", "sem"} => head # tail
                          /\ pc[u] = "loop" /\ recvd = 0 => head # tail

-----------------------------------------------------------------------------
(***************************************************************************)
(* The ring buffer, and what the parts of an action do.                    *)
(***************************************************************************)

\* The next index is in the buffer, and is another one.
LEMMA IncInIndex == \A i \in Index : Inc(i) \in Index /\ Inc(i) # i
  BY SizeAssumption DEF Index, Inc

\* A user moves to another place, the others stay.
LEMMA GoToFacts ==
  ASSUME TypeOK, NEW u \in User, NEW p \in Place, GoTo(u, p)
  PROVE  /\ pc' \in [User -> Place]
         /\ pc'[u] = p /\ \A v \in User : v # u => pc'[v] = pc[v]
  BY DEF TypeOK, GoTo, Place

\* The holder of recv.sem alone reads.
LEMMA Holder ==
  ASSUME IInv, NEW u \in User, pc[u] \in Reading
  PROVE  sem = u /\ \A v \in User : v # u => pc[v] \notin Reading
  BY DEF IInv, Exclusive

-----------------------------------------------------------------------------
(***************************************************************************)
(* One lemma per action.                                                   *)
(***************************************************************************)

\* At the start nobody is inside, and nothing has been received.
LEMMA InitIInv == Init => IInv
  <1> SUFFICES ASSUME Init PROVE IInv
    OBVIOUS
  <1>1. \A u \in User : pc[u] = "idle"
    BY DEF Init
  <1>2. /\ 0 \in Index /\ buffer \in [Index -> Byte] /\ 0 \in 0 .. BufLen
        /\ 0 \in 0 .. NPOLLWAITERS
    BY SizeAssumption, BufLenAssumption, ByteAssumption, SlotsAssumption DEF Init, Index
  <1>3. TypeOK
    BY <1>2, ByteAssumption DEF Init, TypeOK
  <1>4. Exclusive
    BY <1>1, NoneAssumption DEF Init, Exclusive, Reading, Testing, Polling
  <1>5. Slots
    BY SlotsAssumption, FS_EmptySet DEF Init, Slots
  <1>6. Room /\ WakeupOnce /\ NoLostWakeup
    BY <1>1 DEF Init, Room, WakeupOnce, NoLostWakeup, At
  <1> QED BY <1>3, <1>4, <1>5, <1>6 DEF IInv

\* The interrupt wakes the reader that waits.
LEMMA RecvCharsKeeps ==
  ASSUME IInv, NEW b \in Byte, RecvChars(b)
  PROVE  IInv'
  <1>1. /\ TypeOK /\ head' = Inc(head) /\ buffer' = [buffer EXCEPT ![head] = b]
        /\ recvwaiting' = FALSE /\ recvsem' = IF recvwaiting THEN recvsem + 1 ELSE recvsem
        /\ revents' = revents \cup fds
        /\ UNCHANGED <<tail, rxint, sem, pc, ltail, ch, recvd, pollsem, fds, leaked, ready, given, writer>>
    BY DEF IInv, RecvChars, DataReceived, local
  <1>2. head' \in Index /\ buffer' \in [Index -> Byte] /\ recvsem' \in Nat /\ revents' \subseteq User
    BY <1>1, IncInIndex DEF TypeOK
  <1>3. TypeOK'
    BY <1>1, <1>2 DEF TypeOK
  <1>4. Exclusive' /\ Slots' /\ Room' /\ WakeupOnce'
    BY <1>1 DEF IInv, Exclusive, Slots, Room, WakeupOnce
  <1>5. NoLostWakeup'
    BY <1>1 DEF IInv, WakeupOnce, NoLostWakeup, At, TypeOK
  <1> QED BY <1>3, <1>4, <1>5 DEF IInv

\* A step of one user: the semaphores and its slot go with the place it comes to,
\* and only the holder of recv.sem touches the wake-ups.
LEMMA StepKeeps ==
  ASSUME IInv, TypeOK', Slots', NEW u \in User, NEW p \in Place, GoTo(u, p),
         IF p \in Reading THEN sem' = u /\ (sem = u \/ sem = None)
                          ELSE sem' = IF pc[u] \in Reading THEN None ELSE sem,
         IF p \in Testing THEN pollsem' = u /\ (pollsem = u \/ pollsem = None)
                          ELSE pollsem' = IF pc[u] \in Testing THEN None ELSE pollsem,
         fds' = IF p \in Polling THEN fds \cup {u} ELSE fds \ {u},
         p \in {"copy", "store"} => recvd' < BufLen,
         pc[u] \in Reading \/ sem = None \/ UNCHANGED recvd,
         \/ UNCHANGED <<head, tail, wakeup>>
         \/ /\ pc[u] \in Reading /\ (recvwaiting' => recvsem' = 0) /\ recvsem' <= 1
            /\ p = "wait" => recvsem' = 0 /\ head' = tail' /\ recvwaiting',
         p = "wait" => pc[u] \in Reading /\ recvsem' = 0 /\ head' = tail' /\ recvwaiting'
  PROVE  IInv'
  <1>1. pc'[u] = p /\ \A v \in User : v # u => pc'[v] = pc[v]
    BY GoToFacts DEF IInv
  <1>2. \A v \in User : pc'[v] \in Reading <=> sem' = v
    BY <1>1, NoneAssumption DEF IInv, Exclusive
  <1>3. \A v \in User : pc'[v] \in Testing <=> pollsem' = v
    BY <1>1, NoneAssumption DEF IInv, Exclusive
  <1>4. \A v \in User : pc'[v] \in Polling <=> v \in fds'
    BY <1>1 DEF IInv, Exclusive
  <1>5. WakeupOnce'
    BY DEF IInv, WakeupOnce, wakeup
  <1>6. NoLostWakeup'
    <2>1. CASE UNCHANGED <<head, tail, wakeup>>
      BY <1>1, <2>1 DEF IInv, NoLostWakeup, At, wakeup
    <2>2. CASE pc[u] \in Reading /\ recvsem' <= 1
      <3>1. \A v \in User : v # u => pc[v] # "wait"
        BY <2>2, Holder DEF Reading
      <3> QED BY <1>1, <2>2, <3>1 DEF NoLostWakeup, At
    <2> QED BY <2>1, <2>2
  <1>7. Room'
    <2>1. \A v \in User : v # u /\ pc[v] \in {"copy", "store"} => UNCHANGED recvd
      BY NoneAssumption DEF IInv, Exclusive, Reading
    <2> QED BY <1>1, <2>1 DEF IInv, Room
  <1> QED BY <1>2, <1>3, <1>4, <1>5, <1>6, <1>7 DEF IInv, Exclusive

\* A step that leaves the slots alone.
LEMMA SlotsKept == IInv /\ UNCHANGED <<fds, leaked>> => Slots'
  BY DEF IInv, Slots

\* Calling changes nothing but the caller's place, or what it has been told.
LEMMA CallKeeps ==
  ASSUME IInv, NEW u \in User, ReadCall(u) \/ PollCall(u)
  PROVE  IInv'
  <1>1. PICK p \in {"sem", "setup"} :
            /\ TypeOK /\ pc[u] = "idle" /\ GoTo(u, p)
            /\ revents' \subseteq User /\ ready' \subseteq User
            /\ UNCHANGED <<buffer, head, tail, rxint, wakeup, sem, ltail, ch, recvd, pollsem, fds,
                           leaked, given, writer>>
    BY DEF IInv, ReadCall, PollCall, At, TypeOK, ring, local, polling
  <1>2. p \in Place /\ p \notin Reading \cup Testing \cup Polling /\ p \notin {"wait", "copy", "store"}
        /\ pc[u] \notin Reading \cup Testing \cup Polling
    BY <1>1 DEF Place, Reading, Testing, Polling
  <1>3. TypeOK'
    BY <1>1, <1>2, GoToFacts DEF TypeOK, wakeup, Place
  <1>4. u \notin fds
    BY <1>1, <1>2 DEF IInv, Exclusive
  <1> QED BY <1>1, <1>2, <1>3, <1>4, StepKeeps, SlotsKept

\* A reader comes in only when nobody reads.
LEMMA TakeSemKeeps ==
  ASSUME IInv, NEW u \in User, TakeSem(u)
  PROVE  IInv'
  <1>1. /\ TypeOK /\ pc[u] = "sem" /\ sem = None /\ sem' = u /\ recvd' = 0 /\ GoTo(u, "loop")
        /\ UNCHANGED <<buffer, head, tail, rxint, wakeup, ltail, ch, pollsem, fds, revents, leaked,
                       ready, given, writer>>
    BY DEF IInv, TakeSem, At, ring, polling
  <1>2. /\ "loop" \in Place \cap Reading /\ "loop" \notin Testing \cup Polling
        /\ pc[u] \notin Reading \cup Testing \cup Polling
    BY <1>1 DEF Place, Reading, Testing, Polling
  <1>3. TypeOK'
    BY <1>1, <1>2, GoToFacts, BufLenAssumption DEF TypeOK, wakeup, Place
  <1>4. u \notin fds
    BY <1>1, <1>2 DEF IInv, Exclusive
  <1> QED BY <1>1, <1>2, <1>3, <1>4, StepKeeps, SlotsKept

\* The steps of the holder of recv.sem that keep it and do not sleep.
LEMMA ReadingKeeps ==
  ASSUME IInv, TypeOK', NEW u \in User, NEW p \in Reading \ {"wait"}, pc[u] \in Reading, GoTo(u, p),
         UNCHANGED <<sem, pollsem, fds, leaked>>,
         recvwaiting' => recvsem' = 0, recvsem' <= 1,
         p \in {"copy", "store"} => recvd' < BufLen
  PROVE  IInv'
  <1>1. /\ p \in Place /\ p \notin Testing \cup Polling
        /\ pc[u] \notin Testing \cup Polling
    BY DEF Place, Reading, Testing, Polling
  <1>2. u \notin fds /\ sem = u
    BY <1>1 DEF IInv, Exclusive
  <1> QED BY <1>1, <1>2, StepKeeps, SlotsKept

\* The holder gives recv.sem back.
LEMMA ReturnKeeps ==
  ASSUME IInv, TypeOK', NEW u \in User, pc[u] \in Reading, Return(u),
         UNCHANGED <<head, tail, wakeup, pollsem, fds, leaked>>
  PROVE  IInv'
  <1>1. /\ "idle" \in Place /\ "idle" \notin Reading \cup Testing \cup Polling \cup {"copy", "store"}
        /\ pc[u] \notin Testing \cup Polling
    BY DEF Place, Reading, Testing, Polling
  <1>2. u \notin fds /\ sem = u
    BY <1>1 DEF IInv, Exclusive
  <1>3. sem' = None /\ GoTo(u, "idle")
    BY DEF Return
  <1> QED BY <1>1, <1>2, <1>3, StepKeeps, SlotsKept

\* The tests of the loop.
LEMMA TestKeeps ==
  ASSUME IInv, NEW u \in User, Test(u)
  PROVE  IInv'
  <1>1. /\ TypeOK /\ pc[u] = "loop" /\ (recvwaiting => recvsem = 0)
        /\ recvsem <= 1
        /\ UNCHANGED <<buffer, head, tail, rxint, recvwaiting, recvsem, ch, recvd, pollsem, fds,
                       revents, leaked, given, writer>>
    BY DEF IInv, WakeupOnce, NoLostWakeup, Test, At, ring, wakeup, polling
  <1>2. {"loop", "copy", "disable"} \subseteq Reading \ {"wait"} /\ Reading \subseteq Place /\ "idle" \in Place
    BY DEF Reading, Place
  <1>3. ASSUME NEW p \in {"copy", "disable"}, GoTo(u, p), UNCHANGED <<sem, ready>>, ltail' \in Index,
               p = "copy" => recvd < BufLen
        PROVE  IInv'
    <2>1. TypeOK'
      BY <1>1, <1>2, <1>3, GoToFacts DEF TypeOK, Place
    <2> QED BY <1>1, <1>2, <1>3, <2>1, ReadingKeeps
  <1>4. CASE Return(u) /\ UNCHANGED ltail
    <2>1. TypeOK'
      BY <1>1, <1>2, <1>4, GoToFacts DEF TypeOK, Return, Place
    <2> QED BY <1>1, <1>2, <1>4, <2>1, ReturnKeeps DEF wakeup
  <1>5. ltail \in Index /\ tail \in Index
    BY <1>1 DEF TypeOK
  <1> QED BY <1>3, <1>4, <1>5 DEF Test

\* Taking the byte.
LEMMA CopyKeeps ==
  ASSUME IInv, NEW u \in User, Copy(u)
  PROVE  IInv'
  <1>1. /\ TypeOK /\ pc[u] = "copy" /\ (recvwaiting => recvsem = 0)
        /\ recvsem <= 1 /\ ch' = buffer[ltail] /\ recvd < BufLen /\ GoTo(u, "store")
        /\ UNCHANGED <<buffer, head, tail, rxint, recvwaiting, recvsem, sem, ltail, recvd, pollsem, fds,
                       revents, leaked, ready, given, writer>>
    BY DEF IInv, WakeupOnce, NoLostWakeup, Room, Copy, At, ring, wakeup, polling
  <1>2. {"store", "copy"} \subseteq Reading \ {"wait"} /\ "store" \in Place
    BY DEF Reading, Place
  <1>3. ch' \in Byte
    BY <1>1 DEF TypeOK
  <1>4. TypeOK'
    BY <1>1, <1>2, <1>3, GoToFacts DEF TypeOK, Place
  <1> QED BY <1>1, <1>2, <1>4, ReadingKeeps

\* Giving it to the user.
LEMMA StoreKeeps ==
  ASSUME IInv, NEW u \in User, Store(u)
  PROVE  IInv'
  <1>1. /\ TypeOK /\ pc[u] = "store" /\ (recvwaiting => recvsem = 0)
        /\ recvsem <= 1 /\ tail' = Inc(ltail) /\ given' = ch /\ recvd < BufLen /\ recvd' = recvd + 1
        /\ GoTo(u, "loop")
        /\ UNCHANGED <<buffer, head, rxint, recvwaiting, recvsem, sem, ltail, ch, pollsem, fds,
                       revents, leaked, ready, writer>>
    BY DEF IInv, WakeupOnce, NoLostWakeup, Room, Store, At, wakeup, polling
  <1>2. {"store", "loop"} \subseteq Reading \ {"wait"} /\ "loop" \in Place
    BY DEF Reading, Place
  <1>3. tail' \in Index /\ given' \in Byte /\ recvd' \in 0 .. BufLen
    BY <1>1, IncInIndex, BufLenAssumption DEF TypeOK
  <1>4. TypeOK'
    BY <1>1, <1>2, <1>3, GoToFacts DEF TypeOK, Place
  <1> QED BY <1>1, <1>2, <1>4, ReadingKeeps

\* Going to wait: first the interrupt is disabled.
LEMMA DisableRxIntKeeps ==
  ASSUME IInv, NEW u \in User, DisableRxInt(u)
  PROVE  IInv'
  <1>1. /\ TypeOK /\ pc[u] = "disable" /\ (recvwaiting => recvsem = 0)
        /\ recvsem <= 1 /\ rxint' = FALSE /\ GoTo(u, "retest")
        /\ UNCHANGED <<buffer, head, tail, recvwaiting, recvsem, sem, ltail, ch, recvd, pollsem, fds,
                       revents, leaked, ready, given, writer>>
    BY DEF IInv, WakeupOnce, NoLostWakeup, DisableRxInt, At, ring, wakeup, local, polling
  <1>2. {"disable", "retest"} \subseteq Reading \ {"wait"} /\ "retest" \in Place
    BY DEF Reading, Place
  <1>3. TypeOK'
    BY <1>1, <1>2, GoToFacts DEF TypeOK, Place
  <1> QED BY <1>1, <1>2, <1>3, ReadingKeeps

\* Then the buffer is looked at again, and a left-over wake-up ends the wait at
\* once.
LEMMA RetestKeeps ==
  ASSUME IInv, NEW u \in User, Retest(u)
  PROVE  IInv'
  <1>1. /\ TypeOK /\ pc[u] = "retest" /\ (recvwaiting => recvsem = 0)
        /\ recvsem <= 1 /\ rxint' = TRUE
        /\ UNCHANGED <<buffer, head, tail, sem, ltail, ch, recvd, pollsem, fds,
                       revents, leaked, ready, given, writer>>
    BY DEF IInv, WakeupOnce, NoLostWakeup, Retest, At, ring, local, polling
  <1>2. {"loop", "retest"} \subseteq Reading \ {"wait"} /\ {"loop", "wait"} \subseteq Reading \cap Place
    BY DEF Reading, Place
  <1>3. recvsem \in Nat
    BY <1>1 DEF TypeOK
  <1>4. ASSUME GoTo(u, "loop"), recvwaiting' \in BOOLEAN, recvwaiting' => recvsem' = 0,
               recvsem' \in Nat, recvsem' <= 1
        PROVE  IInv'
    <2>1. TypeOK'
      BY <1>1, <1>2, <1>4, GoToFacts DEF TypeOK, Place
    <2> QED BY <1>1, <1>2, <1>4, <2>1, ReadingKeeps
  <1>5. CASE head = tail /\ recvsem = 0
    <2>1. recvwaiting' = TRUE /\ recvsem' = 0 /\ GoTo(u, "wait")
      BY <1>5 DEF Retest, Sleep
    <2>2. TypeOK'
      BY <1>1, <1>2, <2>1, GoToFacts DEF TypeOK, Place
    <2>3. /\ "wait" \notin Testing \cup Polling \cup {"copy", "store"}
          /\ pc[u] \notin Testing \cup Polling
      BY <1>1 DEF Testing, Polling
    <2>4. u \notin fds /\ sem = u
      BY <1>1, <1>2, <2>3 DEF IInv, Exclusive
    <2> QED BY <1>1, <1>2, <1>5, <2>1, <2>2, <2>3, <2>4, StepKeeps, SlotsKept
  <1>6. CASE head = tail /\ recvsem # 0
    <2>1. recvwaiting' = TRUE /\ recvsem' = recvsem - 1 /\ GoTo(u, "loop")
      BY <1>3, <1>6 DEF Retest, Sleep
    <2> QED BY <1>1, <1>3, <1>4, <1>6, <2>1
  <1>7. CASE head # tail
    <2>1. UNCHANGED <<recvwaiting, recvsem>> /\ GoTo(u, "loop")
      BY <1>7 DEF Retest, wakeup
    <2> QED BY <1>1, <1>4, <2>1 DEF TypeOK
  <1> QED BY <1>5, <1>6, <1>7

\* A wake-up is used up.
LEMMA WakeKeeps ==
  ASSUME IInv, NEW u \in User, Wake(u)
  PROVE  IInv'
  <1>1. /\ TypeOK /\ pc[u] = "wait" /\ (recvwaiting => recvsem = 0)
        /\ recvsem <= 1 /\ recvsem > 0 /\ recvsem' = recvsem - 1 /\ GoTo(u, "loop")
        /\ UNCHANGED <<buffer, head, tail, rxint, recvwaiting, sem, ltail, ch, recvd, pollsem, fds,
                       revents, leaked, ready, given, writer>>
    BY DEF IInv, WakeupOnce, NoLostWakeup, Wake, At, ring, local, polling
  <1>2. {"wait", "loop"} \subseteq Reading \cap Place
    BY DEF Reading, Place
  <1>3. recvsem' \in Nat /\ recvsem' <= 1 /\ recvsem' = 0
    BY <1>1 DEF TypeOK
  <1>4. TypeOK'
    BY <1>1, <1>2, <1>3, GoToFacts DEF TypeOK, Place
  <1> QED BY <1>1, <1>2, <1>3, <1>4, ReadingKeeps

\* A signal ends one of the waits of uart_read().
LEMMA InterruptedKeeps ==
  ASSUME IInv, NEW u \in User, Interrupted(u)
  PROVE  IInv'
  <1>1. /\ TypeOK
        /\ UNCHANGED <<buffer, head, tail, rxint, wakeup, ltail, ch, recvd, pollsem, fds,
                       revents, leaked, given, writer>>
    BY DEF IInv, Interrupted, ring, local, polling
  <1>2. "idle" \in Place /\ "wait" \in Reading
    BY DEF Place, Reading
  <1>3. CASE pc[u] = "sem" /\ GoTo(u, "idle") /\ UNCHANGED <<sem, ready>>
    <2>1. TypeOK'
      BY <1>1, <1>2, <1>3, GoToFacts DEF TypeOK, wakeup, Place
    <2>2. /\ "idle" \notin Reading \cup Testing \cup Polling \cup {"copy", "store", "wait"}
          /\ pc[u] \notin Reading \cup Testing \cup Polling
      BY <1>3 DEF Reading, Testing, Polling
    <2>3. u \notin fds
      BY <2>2 DEF IInv, Exclusive
    <2> QED BY <1>1, <1>2, <1>3, <2>1, <2>2, <2>3, StepKeeps, SlotsKept
  <1>4. CASE pc[u] = "wait" /\ Return(u)
    <2>1. TypeOK'
      BY <1>1, <1>2, <1>4, GoToFacts DEF TypeOK, Return, wakeup, Place
    <2> QED BY <1>1, <1>2, <1>4, <2>1, ReturnKeeps
  <1> QED BY <1>3, <1>4 DEF Interrupted, At

\* The steps of poll() leave the readers alone.
LEMMA PollStepKeeps ==
  ASSUME IInv, TypeOK', Slots', NEW u \in User, NEW p \in Polling \cup {"idle"},
         pc[u] \in Polling \cup {"setup"}, GoTo(u, p),
         fds' = IF p \in Polling THEN fds \cup {u} ELSE fds \ {u},
         IF p \in Testing THEN pollsem' = u /\ (pollsem = u \/ pollsem = None)
                          ELSE pollsem' = IF pc[u] \in Testing THEN None ELSE pollsem,
         UNCHANGED <<head, tail, recvd, wakeup, sem>>
  PROVE  IInv'
  <1>1. /\ p \in Place /\ p \notin Reading /\ pc[u] \notin Reading
        /\ p \notin {"copy", "store", "wait"}
    BY DEF Place, Reading, Polling
  <1> QED BY <1>1, StepKeeps

\* poll() takes pollsem and a slot, if there is one.
LEMMA PollSetupKeeps ==
  ASSUME IInv, NEW u \in User, PollSetup(u)
  PROVE  IInv'
  <1>1. /\ TypeOK /\ pc[u] = "setup" /\ pollsem = None
        /\ UNCHANGED <<buffer, head, tail, rxint, wakeup, sem, ltail, ch, recvd, revents,
                       leaked, ready, given, writer>>
    BY DEF IInv, PollSetup, At, ring, local
  <1>2. /\ {"idle", "pollxmit"} \subseteq Place /\ "pollxmit" \in Polling \cap Testing
        /\ "idle" \notin Testing \cup Polling /\ pc[u] \notin Testing \cup Polling
    BY <1>1 DEF Place, Polling, Testing
  <1>3. u \notin fds /\ leaked \in Nat /\ IsFiniteSet(fds)
    BY <1>1, <1>2, SlotsAssumption DEF IInv, Exclusive, TypeOK, Slots
  <1>4. Cardinality(fds) \in Nat /\ IsFiniteSet(fds \cup {u})
        /\ Cardinality(fds \cup {u}) = Cardinality(fds) + 1
    BY <1>3, FS_CardinalityType, FS_AddElement
  <1>5. CASE Cardinality(fds) + leaked < NPOLLWAITERS
    <2>1. fds' = fds \cup {u} /\ pollsem' = u /\ GoTo(u, "pollxmit")
      BY <1>5 DEF PollSetup
    <2>2. TypeOK'
      BY <1>1, <1>2, <2>1, GoToFacts DEF TypeOK, wakeup, Place
    <2>3. Slots'
      BY <1>1, <1>3, <1>4, <1>5, <2>1, SlotsAssumption DEF Slots
    <2> QED BY <1>1, <1>2, <2>1, <2>2, <2>3, PollStepKeeps
  <1>6. CASE ~(Cardinality(fds) + leaked < NPOLLWAITERS)
    <2>1. UNCHANGED <<fds, pollsem>> /\ GoTo(u, "idle")
      BY <1>6 DEF PollSetup
    <2>2. TypeOK'
      BY <1>1, <1>2, <2>1, GoToFacts DEF TypeOK, wakeup, Place
    <2>3. fds' = fds \ {u}
      BY <1>3, <2>1
    <2> QED BY <1>1, <1>2, <2>1, <2>2, <2>3, PollStepKeeps, SlotsKept
  <1> QED BY <1>5, <1>6

\* The tests of the buffers, the notification, and the wait.
LEMMA PollingKeeps ==
  ASSUME IInv, NEW u \in User, PollXmit(u) \/ PollTest(u) \/ PollNotify(u) \/ PollWait(u)
  PROVE  IInv'
  <1>1. PICK p \in {"polltest", "notify", "pollwait", "teardown"} :
           /\ TypeOK /\ pc[u] \in {"pollxmit", "polltest", "notify", "pollwait"} /\ GoTo(u, p)
           /\ p = "polltest" => pc[u] = "pollxmit" /\ pollsem' = pollsem
           /\ p = "notify" => pc[u] = "polltest" /\ pollsem' = pollsem
           /\ p = "pollwait" => pc[u] \in Testing /\ pollsem' = None
           /\ p = "teardown" => pc[u] = "pollwait" /\ pollsem' = pollsem
           /\ revents' \in {revents, revents \cup fds}
           /\ UNCHANGED <<buffer, head, tail, rxint, wakeup, sem, ltail, ch, recvd, fds,
                          leaked, ready, given, writer>>
    BY DEF IInv, PollXmit, PollTest, PollNotify, PollWait, At, Testing, ring, local, polling
  <1>2. /\ p \in Place /\ p \in Polling /\ pc[u] \in Polling
        /\ p \in Testing <=> p \in {"polltest", "notify"}
        /\ pc[u] \in Testing <=> pc[u] # "pollwait"
    BY <1>1 DEF Place, Polling, Testing
  <1>3. u \in fds /\ (pc[u] \in Testing => pollsem = u)
    BY <1>2 DEF IInv, Exclusive
  <1>4. TypeOK'
    BY <1>1, <1>2, <1>3, GoToFacts DEF TypeOK, wakeup, Place
  <1>5. fds' = fds \cup {u}
    BY <1>1, <1>3
  <1> QED BY <1>1, <1>2, <1>3, <1>4, <1>5, PollStepKeeps, SlotsKept

\* poll() gives its slot back, or fails and does not.
LEMMA PollEndKeeps ==
  ASSUME IInv, NEW u \in User, PollTeardown(u) \/ PollInterrupted(u)
  PROVE  IInv'
  <1>1. /\ TypeOK /\ pc[u] \in {"setup", "teardown"} /\ GoTo(u, "idle")
        /\ \/ pc[u] = "setup" /\ UNCHANGED <<fds, leaked>>
           \/ pc[u] = "teardown" /\ fds' = fds \ {u} /\ leaked' \in {leaked, leaked + 1}
        /\ ready' \subseteq User
        /\ UNCHANGED <<buffer, head, tail, rxint, wakeup, sem, ltail, ch, recvd, pollsem, revents, given, writer>>
    BY DEF IInv, PollTeardown, PollInterrupted, At, TypeOK, ring, local
  <1>2. /\ "idle" \in Place /\ "idle" \notin Testing \cup Polling /\ pc[u] \notin Testing
        /\ pc[u] \in Polling <=> pc[u] = "teardown"
        /\ pc[u] \in Polling \cup {"setup"}
    BY <1>1 DEF Place, Polling, Testing
  <1>3. (u \in fds <=> pc[u] = "teardown") /\ leaked \in Nat /\ IsFiniteSet(fds)
        /\ Cardinality(fds) + leaked <= NPOLLWAITERS
    BY <1>1, <1>2, SlotsAssumption DEF IInv, Exclusive, TypeOK, Slots
  <1>4. /\ Cardinality(fds) \in Nat /\ IsFiniteSet(fds \ {u}) /\ Cardinality(fds \ {u}) \in Nat
        /\ u \in fds => Cardinality(fds \ {u}) = Cardinality(fds) - 1
    BY <1>3, FS_CardinalityType, FS_RemoveElement
  <1>5. fds' = fds \ {u}
    BY <1>1, <1>3
  <1>6. Slots' /\ leaked' \in 0 .. NPOLLWAITERS
    <2>1. CASE pc[u] = "setup"
      BY <1>1, <2>1, SlotsKept DEF TypeOK
    <2>2. CASE pc[u] = "teardown"
      <3>1. leaked' \in Nat /\ Cardinality(fds') + leaked' <= NPOLLWAITERS /\ IsFiniteSet(fds')
        BY <1>1, <1>3, <1>4, <1>5, <2>2, SlotsAssumption
      <3> QED BY <1>4, <1>5, <3>1, SlotsAssumption DEF Slots
    <2> QED BY <1>1, <2>1, <2>2
  <1>7. TypeOK'
    BY <1>1, <1>2, <1>5, <1>6, GoToFacts DEF TypeOK, wakeup, Place
  <1> QED BY <1>1, <1>2, <1>5, <1>6, <1>7, PollStepKeeps

\* A flush leaves the buffer empty, so that whoever sleeps still may.
LEMMA FlushKeeps ==
  ASSUME IInv, NEW u \in User, Flush(u)
  PROVE  IInv'
  <1>1. /\ TypeOK /\ head' = 0 /\ tail' = 0 /\ ready' \subseteq User
        /\ UNCHANGED <<buffer, rxint, recvwaiting, recvsem, sem, pc, ltail, ch, recvd, pollsem, fds,
                       revents, leaked, given, writer>>
    BY DEF IInv, Flush, TypeOK, wakeup, local, polling
  <1>2. 0 \in Index
    BY SizeAssumption DEF Index
  <1>3. TypeOK'
    BY <1>1, <1>2 DEF TypeOK
  <1>4. Exclusive' /\ Slots' /\ Room' /\ WakeupOnce'
    BY <1>1 DEF IInv, Exclusive, Slots, Room, WakeupOnce
  <1>5. NoLostWakeup'
    BY <1>1 DEF IInv, NoLostWakeup, At
  <1> QED BY <1>3, <1>4, <1>5 DEF IInv

\* A write or drain leaves the readers and the pollers alone.
LEMMA WriteKeeps ==
  ASSUME IInv, NEW u \in User, Write(u) \/ WriteReturn(u)
  PROVE  IInv'
  <1>1. PICK p \in {"write", "idle"} :
            /\ TypeOK /\ pc[u] \in {"idle", "write"} /\ GoTo(u, p) /\ writer' \in User \cup {None}
            /\ UNCHANGED <<buffer, head, tail, rxint, wakeup, sem, ltail, ch, recvd, pollsem, fds,
                           revents, leaked, ready, given>>
    BY DEF IInv, Write, WriteReturn, At, ring, local, polling
  <1>2. p \in Place /\ p \notin Reading \cup Testing \cup Polling /\ p \notin {"wait", "copy", "store"}
        /\ pc[u] \notin Reading \cup Testing \cup Polling
    BY <1>1 DEF Place, Reading, Testing, Polling
  <1>3. TypeOK'
    BY <1>1, <1>2, GoToFacts DEF TypeOK, wakeup, Place
  <1>4. u \notin fds
    BY <1>1, <1>2 DEF IInv, Exclusive
  <1> QED BY <1>1, <1>2, <1>3, <1>4, StepKeeps, SlotsKept

\* Every step keeps the invariant.
LEMMA NextKeeps ==
  ASSUME IInv, [Next]_vars
  PROVE  IInv'
  <1>1. CASE \E b \in Byte : RecvChars(b)
    BY <1>1, RecvCharsKeeps
  <1>2. ASSUME NEW u \in User, ReadCall(u) \/ Reads(u) \/ Interrupted(u)
        PROVE  IInv'
    BY <1>2, CallKeeps, TakeSemKeeps, TestKeeps, CopyKeeps, StoreKeeps, DisableRxIntKeeps, RetestKeeps,
       WakeKeeps, InterruptedKeeps DEF Reads
  <1>3. ASSUME NEW u \in User, PollCall(u) \/ Polls(u) \/ PollInterrupted(u) \/ Flush(u)
        PROVE  IInv'
    BY <1>3, CallKeeps, PollSetupKeeps, PollingKeeps, PollEndKeeps, FlushKeeps DEF Polls
  <1>4. ASSUME NEW u \in User, Write(u) \/ WriteReturn(u)
        PROVE  IInv'
    BY <1>4, WriteKeeps
  <1>5. CASE UNCHANGED vars
    BY <1>5 DEF IInv, TypeOK, Exclusive, Slots, Room, WakeupOnce, NoLostWakeup, At,
                vars, ring, wakeup, local, polling
  <1> QED BY <1>1, <1>2, <1>3, <1>4, <1>5 DEF Next

\* recv.sem and pollsem have one holder each, and the slots of poll() are counted,
\* for every number of users.
THEOREM Invariance == Spec => []IInv
  <1>1. IInv /\ [Next]_vars => IInv'
    BY NextKeeps
  <1> QED BY InitIInv, <1>1, PTL DEF Spec

\* The indices of the receive buffer never leave it, and no more slots are lost
\* than there are.
THEOREM TypeCorrect == Spec => []TypeOK
  <1>1. IInv => TypeOK
    BY DEF IInv
  <1> QED BY Invariance, <1>1, PTL

\* No reader sleeps while there is a byte, whoever polls, flushes or is
\* interrupted meanwhile, and left-over wake-ups do not pile up.
THEOREM ReadersWoken == Spec => []NoLostWakeup
  <1>1. IInv => NoLostWakeup
    BY DEF IInv
  <1> QED BY Invariance, <1>1, PTL

-----------------------------------------------------------------------------
(***************************************************************************)
(* Ports that nobody flushes, or that have one user.                       *)
(***************************************************************************)

\* A step of one user that is not a flush.
LEMMA QStep ==
  ASSUME IInv, QInv, NEW u \in User, NEW p \in Place, GoTo(u, p), UNCHANGED <<buffer, head>>,
         pc[u] \in Reading \/ UNCHANGED <<tail, ltail, ch>>,
         UNCHANGED tail \/ head # tail,
         p \in {"copy", "store"} => pc[u] \in Reading /\ ltail' = tail' /\ head # tail',
         p = "store" => ch' = buffer[tail'],
         \A v \in revents : v # u => v \in revents',
         p = "pollwait" => u \in revents' \/ (head = tail /\ UNCHANGED tail)
  PROVE  QInv'
  <1>1. pc'[u] = p /\ \A v \in User : v # u => pc'[v] = pc[v]
    BY GoToFacts DEF IInv
  <1>2. ASSUME NEW v \in User, v # u, pc[v] \in {"copy", "store"}
        PROVE  UNCHANGED <<tail, ltail, ch>>
    BY <1>2, Holder DEF Reading
  <1>3. InHand'
    BY <1>1, <1>2 DEF QInv, InHand
  <1>4. NoLostEvent'
    BY <1>1 DEF QInv, NoLostEvent, At
  <1> QED BY <1>3, <1>4 DEF QInv

\* The byte in hand is not the one the interrupt writes, and everybody who polls
\* is told.
LEMMA RecvCharsQ ==
  ASSUME IInv, QInv, NEW b \in Byte, RecvChars(b)
  PROVE  QInv'
  <1>1. /\ head' = Inc(head) /\ Inc(head) # tail /\ buffer' = [buffer EXCEPT ![head] = b]
        /\ revents' = revents \cup fds /\ UNCHANGED <<tail, pc, ltail, ch, fds>>
    BY DEF RecvChars, DataReceived, local
  <1>2. buffer \in [Index -> Byte] /\ head \in Index /\ tail \in Index
    BY DEF IInv, TypeOK
  <1>3. InHand'
    BY <1>1, <1>2 DEF QInv, InHand
  <1>4. \A u \in User : pc[u] = "pollwait" => u \in fds
    BY DEF IInv, Exclusive, Polling
  <1>5. NoLostEvent'
    BY <1>1, <1>4 DEF QInv, NoLostEvent, At
  <1> QED BY <1>3, <1>5 DEF QInv

\* Only the reader moves the tail index, and only to take a byte.
LEMMA ReadsQ ==
  ASSUME IInv, QInv, NEW u \in User, ReadCall(u) \/ Reads(u) \/ Interrupted(u)
  PROVE  QInv'
  <1>0. /\ {"sem", "idle"} \subseteq Place /\ Reading \subseteq Place /\ Reading \cap {"sem", "idle", "pollwait"} = {}
        /\ {"loop", "copy", "store", "disable", "retest", "wait"} \subseteq Reading
    BY DEF Place, Reading
  <1>1. CASE ReadCall(u) \/ TakeSem(u) \/ Interrupted(u)
    <2>1. PICK p \in {"sem", "loop", "idle"} :
              GoTo(u, p) /\ UNCHANGED <<buffer, head, tail, ltail, ch, revents>>
      BY <1>1 DEF ReadCall, TakeSem, Interrupted, Return, ring, local, polling
    <2> QED BY <1>0, <2>1, QStep
  <1>2. CASE Test(u)
    <2>1. PICK p \in {"copy", "idle", "disable"} :
              /\ GoTo(u, p) /\ pc[u] = "loop" /\ UNCHANGED <<buffer, head, tail, revents>>
              /\ p = "copy" => ltail' = tail /\ head # tail
      BY <1>2 DEF Test, Return, At, ring, polling
    <2> QED BY <1>0, <2>1, QStep
  <1>3. CASE Copy(u)
    <2>1. /\ GoTo(u, "store") /\ pc[u] = "copy" /\ ch' = buffer[ltail]
          /\ UNCHANGED <<buffer, head, tail, ltail, revents>>
      BY <1>3 DEF Copy, At, ring, polling
    <2>2. ltail = tail /\ head # tail
      BY <2>1 DEF QInv, InHand
    <2> QED BY <1>0, <2>1, <2>2, QStep
  <1>4. CASE Store(u)
    <2>1. /\ GoTo(u, "loop") /\ pc[u] = "store" /\ UNCHANGED <<buffer, head, ltail, ch, revents>>
      BY <1>4 DEF Store, At, polling
    <2>2. head # tail
      BY <2>1 DEF QInv, InHand
    <2> QED BY <1>0, <2>1, <2>2, QStep
  <1>5. CASE DisableRxInt(u) \/ Retest(u) \/ Wake(u)
    <2>1. PICK p \in {"retest", "wait", "loop"} :
              /\ GoTo(u, p) /\ UNCHANGED <<buffer, head, tail, ltail, ch, revents>>
      BY <1>5 DEF DisableRxInt, Retest, Sleep, Wake, ring, local, polling
    <2> QED BY <1>0, <2>1, QStep
  <1> QED BY <1>1, <1>2, <1>3, <1>4, <1>5 DEF Reads

\* poll() waits without a notification only if it has found the buffer empty.
LEMMA PollsQ ==
  ASSUME IInv, QInv, NEW u \in User, PollCall(u) \/ Polls(u) \/ PollInterrupted(u)
  PROVE  QInv'
  <1>1. PICK p \in {"setup", "pollxmit", "polltest", "notify", "pollwait", "teardown", "idle"} :
            /\ GoTo(u, p) /\ UNCHANGED <<buffer, head, tail, ltail, ch>>
            /\ revents' \in {revents, revents \ {u}, revents \cup fds}
            /\ revents' = revents \cup fds \/ (p = "pollwait" => head = tail)
            /\ revents' = revents \ {u} => p = "setup" \/ revents' = revents
            /\ p = "pollwait" => pc[u] \in Testing
    BY DEF PollCall, Polls, PollSetup, PollXmit, PollTest, PollNotify, PollWait, PollTeardown, PollInterrupted,
           At, Testing, ring, local, polling
  <1>2. /\ p \in Place /\ p \notin {"copy", "store"}
    BY DEF Place
  <1>3. p = "pollwait" => u \in fds
    BY <1>1 DEF IInv, Exclusive, Testing, Polling
  <1> QED BY <1>1, <1>2, <1>3, QStep

\* A write or drain.
LEMMA WriteQ ==
  ASSUME IInv, QInv, NEW u \in User, Write(u) \/ WriteReturn(u)
  PROVE  QInv'
  <1>1. PICK p \in {"write", "idle"} :
            GoTo(u, p) /\ UNCHANGED <<buffer, head, tail, ltail, ch, revents>>
    BY DEF Write, WriteReturn, ring, local, polling
  <1>2. p \in Place /\ p \notin {"copy", "store", "pollwait"}
    BY DEF Place
  <1> QED BY <1>1, <1>2, QStep

\* A flush by the only user.
LEMMA FlushQ ==
  ASSUME Sole, QInv, NEW u \in User, Flush(u)
  PROVE  QInv'
  <1>1. User = {u} /\ pc[u] = "idle" /\ head' = 0 /\ tail' = 0 /\ UNCHANGED pc
    BY DEF Sole, Flush, At
  <1> QED BY <1>1 DEF QInv, InHand, NoLostEvent, At

\* Every step keeps it.
LEMMA NextQ ==
  ASSUME Sole, IInv, QInv, [Next]_vars
  PROVE  QInv'
  <1>1. CASE UNCHANGED vars
    BY <1>1 DEF QInv, InHand, NoLostEvent, At, vars, ring, local, polling
  <1> QED BY <1>1, RecvCharsQ, ReadsQ, PollsQ, WriteQ, FlushQ DEF Next

\* At the start nobody reads or polls.
LEMMA InitQ == Init => QInv
  BY DEF Init, QInv, InHand, NoLostEvent, At

\* Where nobody, or the only user, flushes, a reader's byte is the oldest in the
\* buffer from its test to its assignment, although no interrupt is disabled.
THEOREM QInvariance ==
  ASSUME Sole
  PROVE  Spec => []QInv
  <1>1. IInv /\ QInv /\ [Next]_vars => QInv'
    BY NextQ
  <1> QED BY InitQ, <1>1, Invariance, PTL DEF Spec

\* No poll() waits without a notification in front of a byte: not when the byte
\* comes between its test and its wait, and not when another poll() is told.
THEOREM PollersNotified ==
  ASSUME Sole
  PROVE  Spec => []NoLostEvent
  <1>1. QInv => NoLostEvent
    BY DEF QInv
  <1> QED BY QInvariance, <1>1, PTL

-----------------------------------------------------------------------------
(***************************************************************************)
(* A port with one user.                                                   *)
(***************************************************************************)

\* Bytes are only added by the interrupt.
LEMMA RecvCharsFound ==
  ASSUME Found, NEW b \in Byte, RecvChars(b), IInv
  PROVE  Found'
  <1>1. /\ Inc(head) # tail /\ head' = Inc(head) /\ revents' = revents \cup fds
        /\ UNCHANGED <<tail, pc, fds, ready, recvd>>
    BY DEF RecvChars, DataReceived, local
  <1>2. \A u \in User : pc[u] = "setup" => u \notin fds
    BY DEF IInv, Exclusive, Polling
  <1> QED BY <1>1, <1>2 DEF Found

\* What was found is there when the reader comes to its test, so that it does not
\* go to wait.
LEMMA ReadsFound ==
  ASSUME IInv, Found, NEW u, User = {u}, ReadCall(u) \/ Reads(u) \/ Interrupted(u)
  PROVE  Found'
  <1>1. u \in User /\ TypeOK /\ recvd \in Nat
    BY BufLenAssumption DEF IInv, TypeOK
  <1>2. u \in fds <=> pc[u] \in Polling
    BY <1>1 DEF IInv, Exclusive
  <1>3. ASSUME NEW p \in Place, GoTo(u, p)
        PROVE  pc'[u] = p
    BY <1>1, <1>3, GoToFacts
  <1>4. {"sem", "loop", "copy", "store", "idle", "disable", "retest", "wait"} \subseteq Place
    BY DEF Place, Reading
  <1>5. CASE ReadCall(u)
    <2>1. pc[u] = "idle" /\ pc'[u] = "sem" /\ UNCHANGED <<head, tail, fds, revents, ready>>
      BY <1>3, <1>4, <1>5 DEF ReadCall, At, ring, polling
    <2> QED BY <1>1, <2>1 DEF Found
  <1>6. CASE TakeSem(u)
    <2>1. pc[u] = "sem" /\ pc'[u] = "loop" /\ UNCHANGED <<head, tail, fds, revents, ready>>
      BY <1>3, <1>4, <1>6 DEF TakeSem, At, ring, polling
    <2> QED BY <1>1, <2>1 DEF Found
  <1>7. CASE Test(u)
    <2>1. pc[u] = "loop" /\ UNCHANGED <<head, tail, recvd, fds, revents>>
      BY <1>7 DEF Test, At, ring, polling
    <2>2. u \notin fds
      BY <1>2, <2>1 DEF Polling
    <2>3. \/ pc'[u] = "copy" /\ UNCHANGED ready
          \/ pc'[u] = "idle" /\ ready' = ready \ {u}
          \/ pc'[u] = "disable" /\ UNCHANGED ready /\ recvd = 0 /\ head = tail
      BY <1>3, <1>4, <1>7 DEF Test, Return
    <2> QED BY <1>1, <2>1, <2>2, <2>3 DEF Found
  <1>8. CASE Copy(u)
    <2>1. pc[u] = "copy" /\ pc'[u] = "store" /\ UNCHANGED <<head, tail, fds, revents, ready>>
      BY <1>3, <1>4, <1>8 DEF Copy, At, ring, polling
    <2> QED BY <1>1, <2>1 DEF Found
  <1>9. CASE Store(u)
    <2>1. pc[u] = "store" /\ pc'[u] = "loop" /\ recvd' = recvd + 1 /\ UNCHANGED <<fds, revents, ready>>
      BY <1>3, <1>4, <1>9 DEF Store, At, polling
    <2>2. u \notin fds /\ recvd' # 0
      BY <1>1, <1>2, <2>1 DEF Polling
    <2> QED BY <1>1, <2>1, <2>2 DEF Found
  <1>10. CASE DisableRxInt(u) \/ Retest(u) \/ Wake(u)
    <2>1. /\ pc[u] \in {"disable", "retest", "wait"} /\ pc'[u] \in {"retest", "loop", "wait"}
          /\ UNCHANGED <<head, tail, fds, revents, ready>>
      BY <1>3, <1>4, <1>10 DEF DisableRxInt, Retest, Sleep, Wake, At, ring, polling
    <2> QED BY <1>1, <2>1 DEF Found
  <1>11. CASE Interrupted(u)
    <2>1. /\ \/ pc[u] = "sem" /\ UNCHANGED ready
             \/ ready' = ready \ {u}
          /\ pc'[u] = "idle" /\ UNCHANGED <<head, tail, fds, revents>>
      BY <1>3, <1>4, <1>11 DEF Interrupted, Return, At, ring, polling
    <2> QED BY <1>1, <2>1 DEF Found
  <1> QED BY <1>5, <1>6, <1>7, <1>8, <1>9, <1>10, <1>11 DEF Reads

\* poll() reports only what is there.
LEMMA PollsFound ==
  ASSUME IInv, Found, NEW u, User = {u}, PollCall(u) \/ Polls(u) \/ PollInterrupted(u) \/ Flush(u)
  PROVE  Found'
  <1>1. u \in User /\ TypeOK
    BY DEF IInv
  <1>2. u \in fds <=> pc[u] \in Polling
    BY <1>1 DEF IInv, Exclusive
  <1>3. ASSUME NEW p \in Place, GoTo(u, p)
        PROVE  pc'[u] = p
    BY <1>1, <1>3, GoToFacts
  <1>4. {"setup", "pollxmit", "polltest", "notify", "pollwait", "teardown", "idle"} \subseteq Place
    BY DEF Place
  <1>5. CASE PollCall(u)
    <2>1. /\ pc'[u] = "setup" /\ ready' = ready \ {u} /\ revents' = revents \ {u}
      BY <1>3, <1>4, <1>5 DEF PollCall
    <2> QED BY <1>1, <2>1 DEF Found
  <1>6. CASE PollSetup(u)
    <2>1. /\ pc[u] = "setup" /\ pc'[u] \in {"pollxmit", "idle"} /\ fds' \in {fds, fds \cup {u}}
          /\ UNCHANGED <<head, tail, revents, ready>>
      BY <1>3, <1>4, <1>6 DEF PollSetup, At, ring
    <2> QED BY <1>1, <1>2, <2>1 DEF Found, Polling
  <1>7. CASE PollTest(u)
    <2>1. /\ pc[u] = "polltest" /\ UNCHANGED <<head, tail, fds, revents, ready>>
          /\ pc'[u] = "pollwait" \/ (pc'[u] = "notify" /\ head # tail)
      BY <1>3, <1>4, <1>7 DEF PollTest, At, ring
    <2> QED BY <1>1, <2>1 DEF Found
  <1>8. CASE PollNotify(u)
    <2>1. pc[u] = "notify" /\ pc'[u] = "pollwait" /\ UNCHANGED <<head, tail, fds, ready>>
      BY <1>3, <1>4, <1>8 DEF PollNotify, At, ring
    <2> QED BY <1>1, <2>1 DEF Found
  <1>9. CASE PollWait(u)
    <2>1. pc[u] = "pollwait" /\ pc'[u] = "teardown" /\ UNCHANGED <<head, tail, fds, revents, ready>>
      BY <1>3, <1>4, <1>9 DEF PollWait, At, ring, polling
    <2> QED BY <1>1, <2>1 DEF Found
  <1>10. CASE PollTeardown(u)
    <2>1. /\ pc[u] = "teardown" /\ pc'[u] = "idle" /\ fds' = fds \ {u}
          /\ ready' = IF u \in revents THEN ready \cup {u} ELSE ready
          /\ UNCHANGED <<head, tail, revents>>
      BY <1>3, <1>4, <1>10 DEF PollTeardown, At, ring
    <2>2. u \in fds
      BY <1>2, <2>1 DEF Polling
    <2> QED BY <1>1, <2>1, <2>2 DEF Found
  <1>11. CASE PollInterrupted(u)
    <2>1. /\ pc[u] \in {"setup", "teardown"} /\ pc'[u] = "idle" /\ fds' \in {fds, fds \ {u}}
          /\ pc[u] = "teardown" => fds' = fds \ {u}
          /\ UNCHANGED <<head, tail, revents, ready>>
      BY <1>3, <1>4, <1>11 DEF PollInterrupted, At, ring
    <2> QED BY <1>1, <1>2, <2>1 DEF Found, Polling
  <1>12. CASE Flush(u)
    <2>1. pc[u] = "idle" /\ ready' = ready \ {u} /\ UNCHANGED <<pc, fds, revents>>
      BY <1>12 DEF Flush, At, polling
    <2> QED BY <1>1, <1>2, <2>1 DEF Found, Polling
  <1>13. CASE PollXmit(u)
    <2>1. pc[u] = "pollxmit" /\ pc'[u] = "polltest" /\ UNCHANGED <<head, tail, fds, revents, ready>>
      BY <1>3, <1>4, <1>13 DEF PollXmit, At, ring, polling
    <2> QED BY <1>1, <2>1 DEF Found
  <1> QED BY <1>5, <1>6, <1>7, <1>8, <1>9, <1>10, <1>11, <1>12, <1>13 DEF Polls

\* A write or drain takes no byte.
LEMMA WriteFound ==
  ASSUME IInv, Found, NEW u, User = {u}, Write(u) \/ WriteReturn(u)
  PROVE  Found'
  <1>1. u \in User /\ TypeOK /\ {"idle", "write"} \subseteq Place
    BY DEF IInv, Place
  <1>2. /\ pc[u] \in {"idle", "write"} /\ pc'[u] \in {"idle", "write"}
        /\ UNCHANGED <<head, tail, fds, revents, ready, recvd>>
    BY <1>1, GoToFacts DEF Write, WriteReturn, At, ring, local, polling
  <1> QED BY <1>1, <1>2 DEF Found

\* Every step keeps it.
LEMMA NextFound ==
  ASSUME NEW w, User = {w}, IInv, Found, [Next]_vars
  PROVE  Found'
  <1>1. CASE UNCHANGED vars
    BY <1>1 DEF Found, vars, ring, local, polling
  <1>2. CASE \E b \in Byte : RecvChars(b)
    BY <1>2, RecvCharsFound
  <1>3. ASSUME NEW u \in User, ReadCall(u) \/ Reads(u) \/ Interrupted(u)
        PROVE  Found'
    BY <1>3, ReadsFound
  <1>4. ASSUME NEW u \in User, PollCall(u) \/ Polls(u) \/ PollInterrupted(u) \/ Flush(u)
        PROVE  Found'
    BY <1>4, PollsFound
  <1>5. ASSUME NEW u \in User, Write(u) \/ WriteReturn(u)
        PROVE  Found'
    BY <1>5, WriteFound
  <1> QED BY <1>1, <1>2, <1>3, <1>4, <1>5 DEF Next

\* A port with one user, as each of the firmware's has: a read() after a select()
\* that reported data does not wait, also on a descriptor that blocks.
THEOREM ReadFinds ==
  ASSUME NEW w, User = {w}
  PROVE  Spec => []ReadyMeansData
  <1>1. Init => Found
    BY DEF Init, Found
  <1>2. IInv /\ Found /\ [Next]_vars => Found'
    BY NextFound
  <1>3. IInv /\ Found => ReadyMeansData
    BY DEF IInv, TypeOK, Found, ReadyMeansData, At
  <1> QED BY <1>1, <1>2, <1>3, Invariance, PTL DEF Spec

-----------------------------------------------------------------------------
(***************************************************************************)
(* The refinement: the bytes between tail and head are a queue.            *)
(***************************************************************************)

\* As many bytes as the indices are apart, each at its place in the buffer.
RingIsSeq ==
    /\ Count \in 0 .. Size - 1
    /\ Contents \in Seq(Byte) /\ Len(Contents) = Count
    /\ \A i \in 1 .. Count : Slot(i) \in Index /\ Contents[i] = buffer[Slot(i)]
    /\ Contents = <<>> <=> head = tail

\* The indices' types suffice for that.
LEMMA RingFacts == TypeOK => RingIsSeq
  <1> SUFFICES ASSUME TypeOK PROVE RingIsSeq
    OBVIOUS
  <1>1. head \in 0 .. Size - 1 /\ tail \in 0 .. Size - 1 /\ buffer \in [Index -> Byte]
    BY DEF TypeOK, Index
  <1>2. Count \in 0 .. Size - 1 /\ (Count = 0 <=> head = tail)
    BY <1>1, SizeAssumption DEF Count
  <1>3. ASSUME NEW i \in 1 .. Count
        PROVE  Slot(i) \in Index
    BY <1>1, <1>2, <1>3, SizeAssumption DEF Slot, Count, Index
  <1>4. \A i \in 1 .. Count : buffer[Slot(i)] \in Byte
    BY <1>1, <1>3
  <1>5. Contents \in [1 .. Count -> Byte]
    BY <1>4 DEF Contents
  <1>6. Contents \in Seq(Byte) /\ Len(Contents) = Count
    BY <1>2, <1>5
  <1>7. \A i \in 1 .. Count : Contents[i] = buffer[Slot(i)]
    BY DEF Contents
  <1>8. Contents = <<>> <=> Count = 0
    BY <1>2, <1>6, EmptySeq
  <1> QED BY <1>2, <1>3, <1>6, <1>7, <1>8 DEF RingIsSeq

\* The same of the next state.
LEMMA RingFactsNext == TypeOK' => RingIsSeq'
  BY RingFacts, PTL

\* A received byte is the last in the queue, and there was room for it.
LEMMA RecvCharsPuts ==
  ASSUME TypeOK, TypeOK', NEW b \in Byte, RecvChars(b)
  PROVE  Fifo!Put(b)
  <1>1. /\ Inc(head) # tail /\ head' = Inc(head) /\ tail' = tail /\ given' = given
        /\ buffer' = [buffer EXCEPT ![head] = b]
    BY DEF RecvChars
  <1>2. head \in 0 .. Size - 1 /\ tail \in 0 .. Size - 1 /\ buffer \in [Index -> Byte] /\ head \in Index
    BY DEF TypeOK, Index
  <1>3. Count < Size - 1 /\ Count \in Nat /\ Count' = Count + 1
    BY <1>1, <1>2, SizeAssumption DEF Count, Inc
  <1>4. \A i \in 1 .. Count : Slot(i)' = Slot(i) /\ Slot(i) # head
    BY <1>1, <1>2, <1>3, SizeAssumption DEF Count, Slot
  <1>5. ASSUME NEW k \in Nat, k = Count + 1
        PROVE  Slot(k)' = head
    BY <1>1, <1>2, <1>3, <1>5, SizeAssumption DEF Count, Slot, Inc
  <1>6. /\ Contents \in Seq(Byte) /\ Len(Contents) = Count
        /\ \A i \in 1 .. Count : Slot(i) \in Index /\ Contents[i] = buffer[Slot(i)]
    BY RingFacts DEF RingIsSeq
  <1>7. /\ Contents' \in Seq(Byte) /\ Len(Contents') = Count'
        /\ \A i \in 1 .. Count' : Contents'[i] = buffer'[Slot(i)']
    BY RingFactsNext DEF RingIsSeq
  <1>8. \A i \in 1 .. Count : Contents'[i] = Contents[i]
    BY <1>1, <1>2, <1>3, <1>4, <1>6, <1>7
  <1>9. Contents'[Count + 1] = b
    BY <1>1, <1>2, <1>3, <1>5, <1>7
  <1>10. /\ Append(Contents, b) \in Seq(Byte) /\ Len(Append(Contents, b)) = Count + 1
         /\ \A i \in 1 .. Count : Append(Contents, b)[i] = Contents[i]
         /\ Append(Contents, b)[Count + 1] = b
    BY <1>3, <1>6, AppendProperties
  <1>11. Contents' = Append(Contents, b)
    BY <1>3, <1>7, <1>8, <1>9, <1>10, SeqEqual
  <1> QED BY <1>1, <1>3, <1>6, <1>11 DEF Fifo!Put

\* A reader gives its user the oldest byte.
LEMMA StoreGets ==
  ASSUME TypeOK, TypeOK', InHand, NEW u \in User, Store(u)
  PROVE  Fifo!Get
  <1>1. /\ head # tail /\ tail' = Inc(tail) /\ given' = buffer[tail] /\ head' = head /\ buffer' = buffer
    BY DEF Store, At, InHand
  <1>2. head \in 0 .. Size - 1 /\ tail \in 0 .. Size - 1
    BY DEF TypeOK, Index
  <1>3. Count > 0 /\ Count' = Count - 1
    BY <1>1, <1>2, SizeAssumption DEF Count, Inc
  <1>4. \A i \in 1 .. Count - 1 : Slot(i)' = Slot(i + 1)
    BY <1>1, <1>2, <1>3, SizeAssumption DEF Count, Slot, Inc
  <1>5. Slot(1) = tail
    BY <1>2, SizeAssumption DEF Slot
  <1>6. Contents # <<>> /\ Contents \in Seq(Byte) /\ Len(Contents) = Count
    BY <1>1, RingFacts DEF RingIsSeq
  <1>7. Head(Contents) = buffer[tail]
    BY <1>3, <1>5, <1>6, RingFacts DEF RingIsSeq
  <1>8. /\ Tail(Contents) \in Seq(Byte) /\ Len(Tail(Contents)) = Count - 1
        /\ \A i \in 1 .. Count - 1 : Tail(Contents)[i] = Contents[i + 1]
    BY <1>6, HeadTailProperties
  <1>9. /\ Contents' \in Seq(Byte) /\ Len(Contents') = Count'
        /\ \A i \in 1 .. Count' : Contents'[i] = buffer'[Slot(i)']
    BY RingFactsNext DEF RingIsSeq
  <1>10. \A i \in 1 .. Count - 1 : Contents'[i] = Tail(Contents)[i]
    BY <1>1, <1>3, <1>4, <1>8, <1>9, RingFacts DEF RingIsSeq
  <1>11. Contents' = Tail(Contents)
    BY <1>3, <1>8, <1>9, <1>10, SeqEqual
  <1> QED BY <1>1, <1>6, <1>7, <1>11 DEF Fifo!Get

\* A flush leaves an empty queue.
LEMMA FlushEmpties ==
  ASSUME TypeOK', NEW u \in User, Flush(u)
  PROVE  Fifo!Flush
  <1>1. head' = tail' /\ given' = given
    BY DEF Flush
  <1>2. Contents' = <<>>
    BY <1>1, RingFactsNext DEF RingIsSeq
  <1> QED BY <1>1, <1>2 DEF Fifo!Flush

\* Every step puts a byte, gets one, flushes, or leaves the queue as it is.
LEMMA StepRefines ==
  ASSUME IInv, IInv', QInv, [Next]_vars
  PROVE  /\ [Fifo!Moves \/ Fifo!Flush]_<<Contents, given>>
         /\ Flusher = {} => [Fifo!Moves]_<<Contents, given>>
  <1>0. TypeOK /\ TypeOK' /\ InHand
    BY DEF IInv, QInv
  <1>1. CASE \E b \in Byte : RecvChars(b)
    BY <1>0, <1>1, RecvCharsPuts DEF Fifo!Moves
  <1>2. ASSUME NEW u \in User, Store(u)
        PROVE  Fifo!Moves
    BY <1>0, <1>2, StoreGets DEF Fifo!Moves
  <1>3. ASSUME NEW u \in User, Flush(u)
        PROVE  Fifo!Flush /\ Flusher # {}
    <2>1. Flusher # {}
      BY <1>3 DEF Flush
    <2> QED BY <1>0, <1>3, <2>1, FlushEmpties
  <1>4. CASE UNCHANGED <<ring, given>>
    BY <1>4 DEF ring, Contents, Count, Slot
  <1>5. ASSUME NEW u \in User, ReadCall(u) \/ (Reads(u) /\ ~Store(u)) \/ Interrupted(u)
        PROVE  UNCHANGED <<ring, given>>
    BY <1>5 DEF ReadCall, Reads, TakeSem, Test, Copy, DisableRxInt, Retest, Wake, Interrupted
  <1>6. ASSUME NEW u \in User, PollCall(u) \/ Polls(u) \/ PollInterrupted(u)
        PROVE  UNCHANGED <<ring, given>>
    BY <1>6 DEF PollCall, Polls, PollSetup, PollXmit, PollTest, PollNotify, PollWait,
                PollTeardown, PollInterrupted
  <1>7. ASSUME NEW u \in User, Write(u) \/ WriteReturn(u)
        PROVE  UNCHANGED <<ring, given>>
    BY <1>7 DEF Write, WriteReturn
  <1>8. CASE UNCHANGED vars
    BY <1>4, <1>8 DEF vars
  <1> QED BY <1>1, <1>2, <1>3, <1>4, <1>5, <1>6, <1>7, <1>8 DEF Next

\* The buffer is empty at the start.
LEMMA InitRefines == Init => Fifo!Init
  BY InitIInv, RingFacts DEF Init, IInv, RingIsSeq, Fifo!Init

\* On a port that nobody flushes, interrupt and readers implement the queue of
\* UartFifo without a lock between them, for every buffer size and any number of
\* readers: no byte is lost, doubled or given out of order.
THEOREM InputIsQueue ==
  ASSUME Flusher = {}
  PROVE  Spec => QueueKept
  <1>1. Sole
    BY DEF Sole
  <1>2. IInv /\ IInv' /\ QInv /\ [Next]_vars => [Fifo!Moves]_<<Contents, given>>
    BY StepRefines
  <1> QED BY <1>1, <1>2, InitRefines, Invariance, QInvariance, PTL DEF Spec, QueueKept, Fifo!Lossless

\* On a port whose only user flushes, what remains of the queue is an empty one.
THEOREM FlushedIsQueue ==
  ASSUME Sole
  PROVE  Spec => FifoKept
  <1>1. IInv /\ IInv' /\ QInv /\ [Next]_vars => [Fifo!Moves \/ Fifo!Flush]_<<Contents, given>>
    BY StepRefines
  <1> QED BY <1>1, InitRefines, Invariance, QInvariance, PTL DEF Spec, FifoKept, Fifo!Spec
=============================================================================
