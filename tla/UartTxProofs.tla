--------------------------- MODULE UartTxProofs ----------------------------
(***************************************************************************)
(* For every buffer size, every number of users and every length of write: *)
(* no writer waits for an interrupt that does not come, what is in the     *)
(* buffer when the driver is left is sent, and the buffer is a queue.      *)
(***************************************************************************)
EXTENDS UartTx, SequenceTheorems, TLAPS

Inside == Writing \cup Draining

\* xmit.sem is held by exactly the user that is inside the driver.
Exclusive == \A u \in User : pc[u] \in Inside <=> sem = u

\* What the code has established where its holder is: uart_write() has the
\* interrupt off but while it waits, its next index goes with the head index,
\* and a drain is over when the buffer is empty.
Position ==
    \A u \in User :
        /\ pc[u] \in {"next", "put", "finish"} => ~txint
        /\ pc[u] = "put" => nexthead = Inc(head) /\ buflen > 0
        /\ pc[u] = "wait" => nexthead = Inc(head) /\ buflen > 0
        /\ pc[u] = "empty" => head = tail

\* The inductive invariant.
IInv == TypeOK /\ Exclusive /\ Position /\ NoStuckWriter /\ OutputGoesOn

-----------------------------------------------------------------------------
(***************************************************************************)
(* The ring buffer.                                                        *)
(***************************************************************************)

\* The next index is in the buffer, and is another one.
LEMMA IncInIndex == \A i \in Index : Inc(i) \in Index /\ Inc(i) # i
  BY SizeAssumption DEF Index, Inc

\* Sending a byte keeps the types, and does nothing to an empty buffer or while
\* the data register is in use.
LEMMA SendByteFacts ==
  ASSUME TypeOK, SendByte
  PROVE  /\ UNCHANGED <<buffer, head>>
         /\ tail' \in Index /\ tdr' \in Byte \cup {None} /\ given' \in Byte
         /\ ~Sends => UNCHANGED <<tail, tdr, given>>
  <1>1. tail \in Index /\ buffer \in [Index -> Byte] /\ tdr \in Byte \cup {None} /\ given \in Byte
    BY DEF TypeOK
  <1>2. tail' = (IF Sends THEN Inc(tail) ELSE tail) /\ UNCHANGED <<buffer, head>>
    BY DEF SendByte
  <1>3. tdr' = (IF Sends THEN buffer[tail] ELSE tdr) /\ given' = (IF Sends THEN buffer[tail] ELSE given)
    BY DEF SendByte
  <1>4. buffer[tail] \in Byte
    BY <1>1
  <1> QED BY <1>1, <1>2, <1>3, <1>4, IncInIndex

-----------------------------------------------------------------------------
(***************************************************************************)
(* What the parts of an action do.                                         *)
(***************************************************************************)

\* A user moves to another place, the others stay.
LEMMA GoToFacts ==
  ASSUME TypeOK, NEW u \in User, NEW p, GoTo(u, p)
  PROVE  pc'[u] = p /\ \A v \in User : v # u => pc'[v] = pc[v]
  BY DEF TypeOK, GoTo

\* The places are places.
LEMMA GoToTypes ==
  ASSUME TypeOK, NEW u \in User, NEW p \in Inside \cup {"idle", "wsem", "dsem"}, GoTo(u, p)
  PROVE  pc' \in [User -> Writing \cup Draining \cup {"idle", "wsem", "dsem"}]
  BY DEF TypeOK, GoTo, Inside

\* The holder alone is inside.
LEMMA Holder ==
  ASSUME IInv, NEW u \in User, pc[u] \in Inside
  PROVE  sem = u /\ sem # None /\ \A v \in User : v # u => pc[v] \notin Inside
  BY NoneAssumption DEF IInv, Exclusive

\* A step of the holder that stays inside, in terms of the holder alone.
LEMMA InsideStep ==
  ASSUME IInv, TypeOK', NEW u \in User, NEW p \in Inside, pc[u] \in Inside,
         GoTo(u, p), sem' = sem,
         p \in {"next", "put", "finish"} => ~txint',
         p \in {"put", "wait"} => nexthead' = Inc(head') /\ buflen' > 0,
         p = "empty" => head' = tail',
         p \in {"wait", "dwait"} /\ xmitsem' = 0 => head' # tail' /\ xmitwaiting' /\ txint'
  PROVE  IInv'
  <1>1. pc'[u] = p /\ \A v \in User : v # u => pc'[v] = pc[v]
    BY GoToFacts DEF IInv
  <1>2. sem = u /\ sem # None /\ \A v \in User : v # u => pc[v] \notin Inside
    BY Holder
  <1>3. Exclusive'
    BY <1>1, <1>2 DEF Exclusive
  <1>4. \A v \in User : v # u => pc'[v] \notin Inside
    BY <1>1, <1>2
  <1>5. {"next", "put", "finish", "wait", "dwait", "empty"} \subseteq Inside
    BY DEF Inside, Writing, Draining
  <1>6. Position'
    BY <1>1, <1>4, <1>5 DEF Position, Inc
  <1>7. NoStuckWriter'
    BY <1>1, <1>4, <1>5 DEF NoStuckWriter, At
  <1>8. OutputGoesOn'
    BY <1>2 DEF OutputGoesOn
  <1> QED BY <1>3, <1>6, <1>7, <1>8 DEF IInv

\* A step in which the holder leaves.
LEMMA LeaveStep ==
  ASSUME IInv, TypeOK', NEW u \in User, pc[u] \in Inside, GoTo(u, "idle"), sem' = None,
         OutputGoesOn'
  PROVE  IInv'
  <1>1. pc'[u] = "idle" /\ \A v \in User : v # u => pc'[v] = pc[v]
    BY GoToFacts DEF IInv
  <1>2. \A v \in User : v # u => pc[v] \notin Inside
    BY Holder
  <1>3. "idle" \notin Inside
    BY DEF Inside, Writing, Draining
  <1>4. \A v \in User : pc'[v] \notin Inside
    BY <1>1, <1>2, <1>3
  <1>5. {"next", "put", "finish", "wait", "dwait", "empty"} \subseteq Inside
    BY DEF Inside, Writing, Draining
  <1>6. Exclusive'
    BY <1>4, NoneAssumption DEF Exclusive
  <1>7. Position' /\ NoStuckWriter'
    BY <1>4, <1>5 DEF Position, NoStuckWriter, At
  <1> QED BY <1>6, <1>7 DEF IInv

\* A step of a user that is outside before and after it.
LEMMA OutsideStep ==
  ASSUME IInv, NEW u \in User, NEW p \in {"idle", "wsem", "dsem"},
         pc[u] \in {"idle", "wsem", "dsem"}, GoTo(u, p),
         UNCHANGED <<ring, txint, wakeup, sem, local, tdr, given, stalled>>
  PROVE  IInv'
  <1>1. pc'[u] = p /\ \A v \in User : v # u => pc'[v] = pc[v]
    BY GoToFacts DEF IInv
  <1>2. pc' \in [User -> Writing \cup Draining \cup {"idle", "wsem", "dsem"}]
    BY GoToTypes DEF IInv
  <1>3. TypeOK'
    BY <1>2 DEF IInv, TypeOK, ring, wakeup, local
  <1>4. {"idle", "wsem", "dsem"} \cap (Inside \cup {"next", "put", "finish", "wait", "dwait", "empty"}) = {}
    BY DEF Inside, Writing, Draining
  <1>5. Exclusive'
    BY <1>1, <1>4 DEF IInv, Exclusive
  <1>6. Position'
    BY <1>1, <1>4 DEF IInv, Position, ring, local, Inc
  <1>7. NoStuckWriter'
    BY <1>1, <1>4 DEF IInv, NoStuckWriter, At, ring, wakeup
  <1>8. OutputGoesOn'
    BY DEF IInv, OutputGoesOn, ring
  <1> QED BY <1>3, <1>5, <1>6, <1>7, <1>8 DEF IInv

-----------------------------------------------------------------------------
(***************************************************************************)
(* One lemma per action.                                                   *)
(***************************************************************************)

\* At the start nobody is inside, and there is nothing to send.
LEMMA InitIInv == Init => IInv
  <1> SUFFICES ASSUME Init PROVE IInv
    OBVIOUS
  <1>0. /\ 0 \in Index /\ buffer \in [Index -> Byte] /\ 0 \in 0 .. BufLen
        /\ pc \in [User -> Writing \cup Draining \cup {"idle", "wsem", "dsem"}]
    BY SizeAssumption, BufLenAssumption, ByteAssumption DEF Init, Index
  <1>1. TypeOK
    BY <1>0, ByteAssumption DEF Init, TypeOK
  <1>2. \A u \in User : pc[u] = "idle"
    BY DEF Init
  <1>3. Exclusive
    BY <1>2, NoneAssumption DEF Init, Exclusive, Inside, Writing, Draining
  <1>4. Position /\ NoStuckWriter /\ OutputGoesOn
    BY <1>2 DEF Init, Position, NoStuckWriter, OutputGoesOn, At
  <1> QED BY <1>1, <1>3, <1>4 DEF IInv

\* The interrupt wakes the writer when it sends, and disables itself only at an
\* empty buffer, where nobody waits.
LEMMA TxIntKeeps ==
  ASSUME IInv, TxInt
  PROVE  IInv'
  <1>1. /\ TypeOK /\ txint /\ tdr = None
        /\ txint' = (head # tail')
        /\ UNCHANGED <<sem, pc, nexthead, buflen, stalled>>
    BY DEF IInv, TxInt, XmitChars, local
  <1>2. /\ UNCHANGED <<buffer, head>>
        /\ tail' \in Index /\ tdr' \in Byte \cup {None} /\ given' \in Byte
        /\ ~Sends => UNCHANGED <<tail, tdr, given>>
    BY <1>1, SendByteFacts DEF TxInt, XmitChars
  <1>3. /\ xmitwaiting' = (xmitwaiting /\ ~Sends)
        /\ xmitsem' = IF Sends /\ xmitwaiting THEN xmitsem + 1 ELSE xmitsem
    BY DEF TxInt, DataSent
  <1>4. TypeOK'
    BY <1>1, <1>2, <1>3 DEF TypeOK
  <1>5. Exclusive'
    BY <1>1 DEF IInv, Exclusive
  <1>6. Sends <=> head # tail
    BY <1>1 DEF Sends
  <1>7. Position'
    BY <1>1, <1>2, <1>6 DEF IInv, Position, Inc
  <1>8. xmitsem \in Nat
    BY DEF IInv, TypeOK
  <1>9. NoStuckWriter'
    BY <1>1, <1>2, <1>3, <1>6, <1>8 DEF IInv, NoStuckWriter, At
  <1>10. OutputGoesOn'
    BY <1>1, <1>2 DEF OutputGoesOn
  <1> QED BY <1>4, <1>5, <1>7, <1>9, <1>10 DEF IInv

\* The hardware changes nothing that is shared.
LEMMA ShiftKeeps ==
  ASSUME IInv, Shift
  PROVE  IInv'
  BY DEF IInv, Shift, TypeOK, Exclusive, Position, NoStuckWriter, OutputGoesOn, At, Inc,
         ring, wakeup, local

\* Calling changes nothing but the caller's place.
LEMMA CallKeeps ==
  ASSUME IInv, NEW u \in User, Call(u)
  PROVE  IInv'
  <1>1. CASE GoTo(u, "wsem")
    BY <1>1, OutsideStep DEF Call, At
  <1>2. CASE GoTo(u, "dsem")
    BY <1>2, OutsideStep DEF Call, At
  <1> QED BY <1>1, <1>2 DEF Call

\* A user comes in only when nobody is inside.
LEMMA TakeSemKeeps ==
  ASSUME IInv, NEW u \in User, TakeSem(u)
  PROVE  IInv'
  <1>1. /\ TypeOK /\ sem = None /\ sem' = u
        /\ UNCHANGED <<buffer, head, tail, xmitwaiting, xmitsem, nexthead, tdr, given, stalled>>
    BY DEF IInv, TakeSem, ring, wakeup
  <1>2. \A v \in User : pc[v] \notin Inside
    BY <1>1, NoneAssumption DEF IInv, Exclusive
  <1>3. \E p \in {"next", "drain"} :
            GoTo(u, p) /\ txint' \in BOOLEAN /\ buflen' \in 0 .. BufLen /\ (p = "next" => ~txint')
    <2>1. BufLen \in 0 .. BufLen
      BY BufLenAssumption
    <2>2. CASE At(u, "wsem") /\ txint' = FALSE /\ buflen' = BufLen /\ GoTo(u, "next")
      BY <2>1, <2>2
    <2>3. CASE At(u, "dsem") /\ UNCHANGED <<txint, buflen>> /\ GoTo(u, "drain")
      <3>1. txint' \in BOOLEAN /\ buflen' \in 0 .. BufLen
        BY <1>1, <2>3 DEF TypeOK
      <3> QED BY <2>3, <3>1
    <2> QED BY <2>2, <2>3 DEF TakeSem
  <1>4. PICK p \in {"next", "drain"} :
            GoTo(u, p) /\ txint' \in BOOLEAN /\ buflen' \in 0 .. BufLen /\ (p = "next" => ~txint')
    BY <1>3
  <1>5. pc'[u] = p /\ \A v \in User : v # u => pc'[v] = pc[v]
    BY <1>1, <1>4, GoToFacts
  <1>6. {"next", "drain", "put", "finish", "wait", "dwait", "empty"} \subseteq Inside
    BY DEF Inside, Writing, Draining
  <1>7. pc' \in [User -> Writing \cup Draining \cup {"idle", "wsem", "dsem"}]
    BY <1>1, <1>4, <1>6, GoToTypes
  <1>8. TypeOK'
    BY <1>1, <1>4, <1>7 DEF TypeOK
  <1>9. Exclusive'
    BY <1>1, <1>2, <1>5, <1>6 DEF Exclusive
  <1>10. Position' /\ NoStuckWriter'
    BY <1>2, <1>4, <1>5, <1>6 DEF Position, NoStuckWriter, At
  <1>11. OutputGoesOn'
    BY <1>1, NoneAssumption DEF OutputGoesOn
  <1> QED BY <1>8, <1>9, <1>10, <1>11 DEF IInv

\* The critical section that waits for the interrupt: with a byte to send it ends
\* in a wait that will be ended, or back in its loop with the interrupt off.
LEMMA BlockKeeps ==
  ASSUME IInv, NEW u \in User, pc[u] \in Inside, head # tail,
         NEW loop \in {"put", "drain"}, NEW wait \in {"wait", "dwait"}, Block(u, loop, wait),
         UNCHANGED <<sem, local, stalled>>,
         "put" = loop \/ "wait" = wait => nexthead = Inc(head) /\ buflen > 0
  PROVE  IInv'
  <1>1. TypeOK /\ UNCHANGED <<sem, nexthead, buflen, stalled>>
    BY DEF IInv, local
  <1>2. /\ UNCHANGED <<buffer, head>>
        /\ tail' \in Index /\ tdr' \in Byte \cup {None} /\ given' \in Byte
        /\ ~Sends => UNCHANGED <<tail, tdr, given>>
    BY <1>1, SendByteFacts DEF Block
  <1>3. {"put", "drain", "wait", "dwait"} \subseteq Inside
    BY DEF Inside, Writing, Draining
  <1>4. CASE Sends \/ xmitsem > 0
    <2>1. /\ GoTo(u, loop) /\ txint' = FALSE /\ xmitwaiting' = ~Sends
          /\ xmitsem' = IF Sends THEN xmitsem ELSE xmitsem - 1
      BY <1>4 DEF Block
    <2>2. xmitsem' \in Nat
      BY <1>1, <1>4, <2>1 DEF TypeOK
    <2>3. TypeOK'
      BY <1>1, <1>2, <1>3, <2>1, <2>2, GoToTypes DEF TypeOK
    <2> QED BY <1>1, <1>2, <1>3, <2>1, <2>3, InsideStep
  <1>5. CASE ~(Sends \/ xmitsem > 0)
    <2>1. GoTo(u, wait) /\ xmitwaiting' = TRUE /\ txint' = (head # tail) /\ xmitsem' = xmitsem
      BY <1>5 DEF Block
    <2>2. TypeOK'
      BY <1>1, <1>2, <1>3, <2>1, GoToTypes DEF TypeOK
    <2> QED BY <1>1, <1>2, <1>3, <1>5, <2>1, <2>2, InsideStep
  <1> QED BY <1>4, <1>5

\* The loop of uart_write(): its next index is that of the current head.
LEMMA NextCharKeeps ==
  ASSUME IInv, NEW u \in User, NextChar(u)
  PROVE  IInv'
  <1>1. /\ TypeOK /\ pc[u] = "next" /\ ~txint
        /\ UNCHANGED <<buffer, head, tail, txint, xmitwaiting, xmitsem, sem, buflen, tdr, given, stalled>>
    BY DEF IInv, NextChar, At, Position, ring, wakeup
  <1>2. {"next", "finish", "put"} \subseteq Inside
    BY DEF Inside, Writing
  <1>3. CASE buflen = 0
    <2>1. GoTo(u, "finish") /\ nexthead' = nexthead
      BY <1>3 DEF NextChar
    <2>2. TypeOK'
      BY <1>1, <1>2, <2>1, GoToTypes DEF TypeOK
    <2> QED BY <1>1, <1>2, <2>1, <2>2, InsideStep
  <1>4. CASE buflen # 0
    <2>1. GoTo(u, "put") /\ nexthead' = Inc(head) /\ Inc(head) \in Index
      BY <1>1, <1>4, IncInIndex DEF NextChar, TypeOK
    <2>2. buflen > 0
      BY <1>1, <1>4, BufLenAssumption DEF TypeOK
    <2>3. TypeOK'
      BY <1>1, <1>2, <2>1, GoToTypes DEF TypeOK
    <2> QED BY <1>1, <1>2, <2>1, <2>2, <2>3, InsideStep
  <1> QED BY <1>3, <1>4

\* A byte is put while the interrupt is off.
LEMMA PutXmitCharKeeps ==
  ASSUME IInv, NEW u \in User, PutXmitChar(u)
  PROVE  IInv'
  <1>1. /\ TypeOK /\ pc[u] = "put" /\ ~txint /\ buflen > 0
        /\ UNCHANGED <<tail, txint, xmitwaiting, xmitsem, sem, nexthead, tdr, given, stalled>>
    BY DEF IInv, PutXmitChar, At, Position, wakeup
  <1>2. {"next", "put"} \subseteq Inside
    BY DEF Inside, Writing
  <1>3. GoTo(u, "next") /\ head' = nexthead /\ buflen' = buflen - 1
    BY DEF PutXmitChar
  <1>4. buflen' \in 0 .. BufLen
    BY <1>1, <1>3, BufLenAssumption DEF TypeOK
  <1>5. buffer' \in [Index -> Byte]
    BY <1>1 DEF PutXmitChar, TypeOK
  <1>6. TypeOK'
    BY <1>1, <1>2, <1>3, <1>4, <1>5, GoToTypes DEF TypeOK
  <1> QED BY <1>1, <1>2, <1>3, <1>6, InsideStep

\* -EAGAIN leads to the end of uart_write(), like a finished loop.
LEMMA TryAgainKeeps ==
  ASSUME IInv, NEW u \in User, TryAgain(u)
  PROVE  IInv'
  <1>1. /\ TypeOK /\ pc[u] = "put" /\ ~txint /\ GoTo(u, "finish")
        /\ UNCHANGED <<buffer, head, tail, txint, xmitwaiting, xmitsem, sem, nexthead, buflen,
                       tdr, given, stalled>>
    BY DEF IInv, TryAgain, At, Position, ring, wakeup, local
  <1>2. {"finish", "put"} \subseteq Inside
    BY DEF Inside, Writing
  <1>3. TypeOK'
    BY <1>1, <1>2, GoToTypes DEF TypeOK
  <1> QED BY <1>1, <1>2, <1>3, InsideStep

\* A full buffer is not an empty one, since it has room for one byte at least.
LEMMA FullKeeps ==
  ASSUME IInv, NEW u \in User, Full(u)
  PROVE  IInv'
  <1>1. /\ pc[u] = "put" /\ nexthead = tail /\ nexthead = Inc(head) /\ buflen > 0
        /\ head \in Index
    BY DEF IInv, TypeOK, Full, At, Position
  <1>2. head # tail
    BY <1>1, IncInIndex
  <1>3. "put" \in Inside
    BY DEF Inside, Writing
  <1>4. Block(u, "put", "wait") /\ UNCHANGED <<sem, local, stalled>>
    BY DEF Full
  <1> QED BY <1>1, <1>2, <1>3, <1>4, BlockKeeps

\* A woken user is back in its loop, with the interrupt off again.
LEMMA WakeKeeps ==
  ASSUME IInv, NEW u \in User, Wake(u)
  PROVE  IInv'
  <1>1. /\ TypeOK /\ xmitsem > 0 /\ xmitsem' = xmitsem - 1 /\ txint' = FALSE
        /\ UNCHANGED <<buffer, head, tail, xmitwaiting, sem, nexthead, buflen, tdr, given, stalled>>
    BY DEF IInv, Wake, ring, local
  <1>2. xmitsem' \in Nat
    BY <1>1 DEF TypeOK
  <1>3. {"wait", "dwait", "put", "drain"} \subseteq Inside
    BY DEF Inside, Writing, Draining
  <1>4. CASE pc[u] = "wait"
    <2>1. GoTo(u, "put") /\ nexthead = Inc(head) /\ buflen > 0
      BY <1>4 DEF IInv, Wake, At, Position
    <2>2. TypeOK'
      BY <1>1, <1>2, <1>3, <2>1, GoToTypes DEF TypeOK
    <2> QED BY <1>1, <1>3, <1>4, <2>1, <2>2, InsideStep
  <1>5. CASE pc[u] = "dwait"
    <2>1. GoTo(u, "drain")
      BY <1>5 DEF Wake, At
    <2>2. TypeOK'
      BY <1>1, <1>2, <1>3, <2>1, GoToTypes DEF TypeOK
    <2> QED BY <1>1, <1>3, <1>5, <2>1, <2>2, InsideStep
  <1> QED BY <1>4, <1>5 DEF Wake, At

\* uart_write() leaves with the interrupt enabled when there is something to send.
LEMMA FinishKeeps ==
  ASSUME IInv, NEW u \in User, Finish(u)
  PROVE  IInv'
  <1>1. /\ TypeOK /\ pc[u] = "finish" /\ sem' = None /\ stalled' = FALSE /\ GoTo(u, "idle")
        /\ UNCHANGED <<nexthead, buflen>>
    BY DEF IInv, Finish, At, local
  <1>2. "finish" \in Inside
    BY DEF Inside, Writing
  <1>3. pc' \in [User -> Writing \cup Draining \cup {"idle", "wsem", "dsem"}]
    BY <1>1, GoToTypes
  <1>4. CASE head # tail
    <2>1. SendByte /\ txint' = (head # tail') /\ DataSent
      BY <1>4 DEF Finish, XmitChars
    <2>2. /\ UNCHANGED <<buffer, head>>
          /\ tail' \in Index /\ tdr' \in Byte \cup {None} /\ given' \in Byte
      BY <1>1, <2>1, SendByteFacts
    <2>3. xmitwaiting' \in BOOLEAN /\ xmitsem' \in Nat
      BY <1>1, <2>1 DEF DataSent, TypeOK
    <2>4. TypeOK'
      BY <1>1, <1>3, <2>1, <2>2, <2>3 DEF TypeOK
    <2>5. OutputGoesOn'
      BY <2>1, <2>2 DEF OutputGoesOn
    <2> QED BY <1>1, <1>2, <2>4, <2>5, LeaveStep
  <1>5. CASE head = tail
    <2>1. UNCHANGED <<buffer, head, tail, txint, xmitwaiting, xmitsem, tdr, given>>
      BY <1>5 DEF Finish, ring, wakeup
    <2>2. TypeOK'
      BY <1>1, <1>3, <2>1 DEF TypeOK
    <2>3. OutputGoesOn'
      BY <1>5, <2>1 DEF OutputGoesOn
    <2> QED BY <1>1, <1>2, <2>2, <2>3, LeaveStep
  <1> QED BY <1>4, <1>5

\* A drain waits for the interrupt or has found the buffer empty.
LEMMA DrainKeeps ==
  ASSUME IInv, NEW u \in User, Drain(u)
  PROVE  IInv'
  <1>1. /\ TypeOK /\ pc[u] = "drain" /\ UNCHANGED <<sem, local, stalled>>
    BY DEF IInv, Drain, At
  <1>2. {"drain", "dwait", "empty"} \subseteq Inside
    BY DEF Inside, Draining
  <1>3. CASE head # tail
    BY <1>1, <1>2, <1>3, BlockKeeps DEF Drain
  <1>4. CASE head = tail
    <2>1. /\ GoTo(u, "empty")
          /\ UNCHANGED <<buffer, head, tail, txint, xmitwaiting, xmitsem, tdr, given>>
      BY <1>4 DEF Drain, ring, wakeup
    <2>2. TypeOK'
      BY <1>1, <1>2, <2>1, GoToTypes DEF TypeOK, local
    <2> QED BY <1>1, <1>2, <1>4, <2>1, <2>2, InsideStep
  <1> QED BY <1>3, <1>4

\* A drain that leaves has nothing to send.
LEMMA DrainEmptyKeeps ==
  ASSUME IInv, NEW u \in User, DrainEmpty(u)
  PROVE  IInv'
  <1>1. /\ TypeOK /\ pc[u] = "empty" /\ sem' = None /\ GoTo(u, "idle")
        /\ UNCHANGED <<buffer, head, tail, txint, xmitwaiting, xmitsem, nexthead, buflen,
                       tdr, given, stalled>>
    BY DEF IInv, DrainEmpty, At, ring, wakeup, local
  <1>2. "empty" \in Inside
    BY DEF Inside, Draining
  <1>3. TypeOK'
    BY <1>1, GoToTypes DEF TypeOK
  <1>4. OutputGoesOn'
    BY <1>1 DEF IInv, Position, OutputGoesOn
  <1> QED BY <1>1, <1>2, <1>3, <1>4, LeaveStep

\* A signal, in each of the waits it can end.
LEMMA InterruptedKeeps ==
  ASSUME IInv, NEW u \in User, Interrupted(u)
  PROVE  IInv'
  <1>1. /\ TypeOK
        /\ UNCHANGED <<buffer, head, tail, xmitwaiting, xmitsem, nexthead, buflen, tdr, given>>
    BY DEF IInv, Interrupted, ring, wakeup, local
  <1>2. {"wait", "dwait", "finish"} \subseteq Inside
    BY DEF Inside, Writing, Draining
  <1>3. CASE /\ (At(u, "wsem") \/ At(u, "dsem")) /\ GoTo(u, "idle")
             /\ UNCHANGED <<txint, sem, stalled>>
    BY <1>1, <1>3, OutsideStep DEF At, ring, wakeup, local
  <1>4. CASE /\ At(u, "wait") /\ txint' = FALSE /\ GoTo(u, "finish")
             /\ UNCHANGED <<sem, stalled>>
    <2>1. TypeOK'
      BY <1>1, <1>2, <1>4, GoToTypes DEF TypeOK
    <2> QED BY <1>1, <1>2, <1>4, <2>1, InsideStep DEF At
  <1>5. CASE /\ At(u, "dwait") /\ txint' = FALSE /\ sem' = None /\ stalled' = TRUE
             /\ GoTo(u, "idle")
    <2>1. TypeOK'
      BY <1>1, <1>5, GoToTypes DEF TypeOK
    <2>2. OutputGoesOn'
      BY <1>5 DEF OutputGoesOn
    <2> QED BY <1>1, <1>2, <1>5, <2>1, <2>2, LeaveStep DEF At
  <1> QED BY <1>3, <1>4, <1>5 DEF Interrupted

-----------------------------------------------------------------------------
(***************************************************************************)
(* The theorems.                                                           *)
(***************************************************************************)

\* Every step keeps the invariant.
LEMMA NextKeeps ==
  ASSUME IInv, [Next]_vars
  PROVE  IInv'
  <1>1. CASE TxInt \/ Shift
    BY <1>1, TxIntKeeps, ShiftKeeps
  <1>2. ASSUME NEW u \in User, Call(u) \/ Steps(u) \/ Interrupted(u)
        PROVE  IInv'
    BY <1>2, CallKeeps, TakeSemKeeps, NextCharKeeps, PutXmitCharKeeps, TryAgainKeeps, FullKeeps,
       WakeKeeps, FinishKeeps, DrainKeeps, DrainEmptyKeeps, InterruptedKeeps DEF Steps
  <1>3. CASE UNCHANGED vars
    BY <1>3 DEF IInv, TypeOK, Exclusive, Position, NoStuckWriter, OutputGoesOn, At, Inc,
                vars, ring, wakeup, local
  <1> QED BY <1>1, <1>2, <1>3 DEF Next

\* xmit.sem has one holder, and the driver's state is what the holder's place in
\* the code says; for every number of users and every buffer size.
THEOREM Invariance == Spec => []IInv
  <1>1. IInv /\ [Next]_vars => IInv'
    BY NextKeeps
  <1> QED BY InitIInv, <1>1, PTL DEF Spec

\* The indices of the transmit buffer never leave it, whatever order writes,
\* drains, signals and interrupts come in.
THEOREM TypeCorrect == Spec => []TypeOK
  <1>1. IInv => TypeOK
    BY DEF IInv
  <1> QED BY Invariance, <1>1, PTL

\* The answer to the question in uart_xmitchars(): no writer or drain waits with
\* the interrupt disabled and nobody to wake it.
THEOREM WritersWoken == Spec => []NoStuckWriter
  <1>1. IInv => NoStuckWriter
    BY DEF IInv
  <1> QED BY Invariance, <1>1, PTL

\* What is in the buffer when the driver is left has its interrupt enabled, but
\* for a drain that a signal has ended.
THEOREM OutputContinues == Spec => []OutputGoesOn
  <1>1. IInv => OutputGoesOn
    BY DEF IInv
  <1> QED BY Invariance, <1>1, PTL

-----------------------------------------------------------------------------
(***************************************************************************)
(* The refinement: the bytes between tail and head are a queue.            *)
(***************************************************************************)

\* As many bytes as the indices are apart, each at its place in the buffer.
RingIsSeq ==
    /\ Count \in 0 .. Size - 1
    /\ \A i \in 1 .. Count : Slot(i) \in Index
    /\ Contents \in Seq(Byte) /\ Len(Contents) = Count
    /\ \A i \in 1 .. Count : Contents[i] = buffer[Slot(i)]
    /\ Contents = <<>> <=> head = tail

\* The indices' types suffice for that.
LEMMA RingFacts == TypeOK => RingIsSeq
  <1> SUFFICES ASSUME TypeOK PROVE RingIsSeq
    OBVIOUS
  <1>1. head \in 0 .. Size - 1 /\ tail \in 0 .. Size - 1 /\ buffer \in [Index -> Byte]
    BY DEF TypeOK, Index
  <1>2. Count \in 0 .. Size - 1 /\ (Count = 0 <=> head = tail)
    BY <1>1, SizeAssumption DEF Count
  <1>3. ASSUME NEW i \in 1 .. Count
        PROVE  Slot(i) \in Index
    BY <1>1, <1>2, <1>3, SizeAssumption DEF Slot, Count, Index
  <1>4. \A i \in 1 .. Count : buffer[Slot(i)] \in Byte
    BY <1>1, <1>3
  <1>5. Contents \in [1 .. Count -> Byte]
    BY <1>4 DEF Contents
  <1>6. Contents \in Seq(Byte) /\ Len(Contents) = Count
    BY <1>2, <1>5
  <1>7. \A i \in 1 .. Count : Contents[i] = buffer[Slot(i)]
    BY DEF Contents
  <1>8. Contents = <<>> <=> Count = 0
    BY <1>2, <1>6, EmptySeq
  <1> QED BY <1>2, <1>3, <1>6, <1>7, <1>8 DEF RingIsSeq

\* The same of the next state.
LEMMA RingFactsNext == TypeOK' => RingIsSeq'
  BY RingFacts, PTL

\* Sending a byte takes the oldest one out of the queue.
LEMMA SendByteGets ==
  ASSUME TypeOK, TypeOK', SendByte
  PROVE  Fifo!Get \/ UNCHANGED <<Contents, given>>
  <1>1. CASE ~Sends
    <2>1. UNCHANGED <<buffer, head, tail, given>>
      BY <1>1, SendByteFacts
    <2> QED BY <2>1 DEF Contents, Count, Slot
  <1>2. CASE Sends
    <2>1. head # tail /\ tail' = Inc(tail) /\ given' = buffer[tail] /\ head' = head /\ buffer' = buffer
      BY <1>2 DEF SendByte, Sends
    <2>2. head \in 0 .. Size - 1 /\ tail \in 0 .. Size - 1
      BY DEF TypeOK, Index
    <2>3. Count > 0 /\ Count' = Count - 1
      BY <2>1, <2>2, SizeAssumption DEF Count, Inc
    <2>4. \A i \in 1 .. Count - 1 : Slot(i)' = Slot(i + 1)
      BY <2>1, <2>2, <2>3, SizeAssumption DEF Count, Slot, Inc
    <2>5. Slot(1) = tail
      BY <2>2, SizeAssumption DEF Slot
    <2>6. Contents # <<>> /\ Contents \in Seq(Byte) /\ Len(Contents) = Count
      BY <2>1, RingFacts DEF RingIsSeq
    <2>7. Head(Contents) = buffer[tail]
      BY <2>3, <2>5, <2>6, RingFacts DEF RingIsSeq
    <2>8. /\ Tail(Contents) \in Seq(Byte) /\ Len(Tail(Contents)) = Count - 1
          /\ \A i \in 1 .. Count - 1 : Tail(Contents)[i] = Contents[i + 1]
      BY <2>6, HeadTailProperties
    <2>9. /\ Contents' \in Seq(Byte) /\ Len(Contents') = Count'
          /\ \A i \in 1 .. Count' : Contents'[i] = buffer'[Slot(i)']
      BY RingFactsNext DEF RingIsSeq
    <2>10. \A i \in 1 .. Count - 1 : Contents'[i] = Tail(Contents)[i]
      BY <2>1, <2>3, <2>4, <2>8, <2>9, RingFacts DEF RingIsSeq
    <2>11. Contents' = Tail(Contents)
      BY <2>3, <2>8, <2>9, <2>10, SeqEqual
    <2> QED BY <2>1, <2>6, <2>7, <2>11 DEF Fifo!Get
  <1> QED BY <1>1, <1>2

\* A byte that is put is the last in the queue, and there was room for it.
LEMMA PutXmitCharPuts ==
  ASSUME IInv, IInv', NEW u \in User, PutXmitChar(u)
  PROVE  \E b \in Byte : Fifo!Put(b)
  <1>1. /\ TypeOK /\ TypeOK' /\ nexthead = Inc(head) /\ nexthead # tail /\ head' = nexthead
        /\ tail' = tail /\ given' = given
    BY DEF IInv, Position, PutXmitChar, At
  <1>2. PICK b \in Byte : buffer' = [buffer EXCEPT ![head] = b]
    BY DEF PutXmitChar
  <1>3. head \in 0 .. Size - 1 /\ tail \in 0 .. Size - 1 /\ buffer \in [Index -> Byte] /\ head \in Index
    BY <1>1 DEF TypeOK, Index
  <1>4. Count < Size - 1 /\ Count \in Nat /\ Count' = Count + 1
    BY <1>1, <1>3, SizeAssumption DEF Count, Inc
  <1>5. \A i \in 1 .. Count : Slot(i)' = Slot(i) /\ Slot(i) # head
    BY <1>1, <1>3, <1>4, SizeAssumption DEF Count, Slot
  <1>6. ASSUME NEW k \in Nat, k = Count + 1
        PROVE  Slot(k)' = head
    BY <1>1, <1>3, <1>4, <1>6, SizeAssumption DEF Count, Slot, Inc
  <1>7. /\ Contents \in Seq(Byte) /\ Len(Contents) = Count
        /\ \A i \in 1 .. Count : Slot(i) \in Index /\ Contents[i] = buffer[Slot(i)]
    BY <1>1, RingFacts DEF RingIsSeq
  <1>8. /\ Contents' \in Seq(Byte) /\ Len(Contents') = Count'
        /\ \A i \in 1 .. Count' : Contents'[i] = buffer'[Slot(i)']
    BY <1>1, RingFactsNext DEF RingIsSeq
  <1>9. \A i \in 1 .. Count : Contents'[i] = Contents[i]
    BY <1>2, <1>3, <1>4, <1>5, <1>7, <1>8
  <1>10. Contents'[Count + 1] = b
    BY <1>2, <1>3, <1>4, <1>6, <1>8
  <1>11. /\ Append(Contents, b) \in Seq(Byte) /\ Len(Append(Contents, b)) = Count + 1
         /\ \A i \in 1 .. Count : Append(Contents, b)[i] = Contents[i]
         /\ Append(Contents, b)[Count + 1] = b
    BY <1>4, <1>7, AppendProperties
  <1>12. Contents' = Append(Contents, b)
    BY <1>4, <1>8, <1>9, <1>10, <1>11, SeqEqual
  <1> QED BY <1>1, <1>4, <1>7, <1>12 DEF Fifo!Put

\* Every step puts a byte, gets one, or leaves the queue as it is.
LEMMA StepRefines ==
  ASSUME IInv, IInv', [Next]_vars
  PROVE  [Fifo!Moves]_<<Contents, given>>
  <1>0. TypeOK /\ TypeOK'
    BY DEF IInv
  <1>1. CASE SendByte
    BY <1>0, <1>1, SendByteGets DEF Fifo!Moves
  <1>2. ASSUME NEW u \in User, PutXmitChar(u)
        PROVE  Fifo!Moves
    BY <1>2, PutXmitCharPuts DEF Fifo!Moves
  <1>3. CASE UNCHANGED <<ring, given>>
    BY <1>3 DEF ring, Contents, Count, Slot
  <1>4. ASSUME NEW u \in User, Steps(u), ~PutXmitChar(u)
        PROVE  SendByte \/ UNCHANGED <<ring, given>>
    BY <1>4 DEF Steps, TakeSem, NextChar, TryAgain, Full, Block, Wake, Finish, XmitChars, Drain, DrainEmpty
  <1>5. ASSUME NEW u \in User, Call(u) \/ Interrupted(u)
        PROVE  UNCHANGED <<ring, given>>
    BY <1>5 DEF Call, Interrupted
  <1>6. CASE TxInt \/ Shift \/ UNCHANGED vars
    BY <1>1, <1>3, <1>6 DEF TxInt, XmitChars, Shift, vars
  <1> QED BY <1>1, <1>2, <1>3, <1>4, <1>5, <1>6 DEF Next

\* Writers and interrupt implement the queue of UartFifo, with no lock between
\* them, for every buffer size: no byte is lost, doubled or sent out of order.
THEOREM OutputIsQueue == Spec => OutputKept
  <1>1. Init => Fifo!Init
    BY InitIInv, RingFacts DEF Init, IInv, RingIsSeq, Fifo!Init
  <1>2. IInv /\ IInv' /\ [Next]_vars => [Fifo!Moves]_<<Contents, given>>
    BY StepRefines
  <1> QED BY <1>1, <1>2, Invariance, PTL DEF Spec, OutputKept, Fifo!Lossless
=============================================================================
