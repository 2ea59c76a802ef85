-------------------------------- MODULE Uart -------------------------------
(***************************************************************************)
(* The receive side of the serial driver below the four serial users: the  *)
(* ring buffer recv, filled by the receive interrupt and emptied by        *)
(* uart_read(), the semaphores a blocking read sleeps on, poll() as        *)
(* select() calls it, and the TCFLSH request that tcflush() makes.  Of     *)
(* uart_write() and uart_tcdrain(), the subject of UartTx, it has that     *)
(* they keep xmit.sem, which poll() waits for.                             *)
(*                                                                         *)
(* An interrupt runs between any two steps of the users while it is        *)
(* enabled.  One byte is received per interrupt.  recv.sem lets one user   *)
(* at a time be inside uart_read(), so its local variables are global      *)
(* here.  No input translation is on (tc_iflag is 0 but for a console).    *)
(***************************************************************************)
EXTENDS Naturals, FiniteSets

CONSTANTS
    User,
    NonBlock,       \* users whose descriptor has O_NONBLOCK
    Flusher,        \* users that call tcflush()
    None,
    Byte, Size,     \* the buffer has room for Size - 1 bytes
    BufLen,         \* what a read() asks for
    NPOLLWAITERS

ASSUME SizeAssumption   == Size \in Nat /\ Size >= 2
ASSUME BufLenAssumption == BufLen \in Nat \ {0}
ASSUME NoneAssumption   == None \notin User
ASSUME ByteAssumption   == 0 \in Byte
ASSUME SlotsAssumption  == NPOLLWAITERS \in Nat

VARIABLES
    buffer, head, tail,     \* dev->recv
    rxint,                  \* the receive interrupt is enabled
    recvwaiting, recvsem,
    sem,                    \* holder of recv.sem
    writer,                 \* holder of xmit.sem
    pc,
    ltail, ch, recvd,       \* tail, ch, recvd of uart_read()
    pollsem,                \* holder of pollsem
    fds, revents,           \* users in dev->fds, users that have been notified
    leaked,                 \* slots of dev->fds whose poll() is over
    ready,                  \* history: users whose poll() reported data, until they read
    given                   \* history: the last byte given to a user

ring    == <<buffer, head, tail>>
wakeup  == <<recvwaiting, recvsem>>
local   == <<ltail, ch, recvd>>
polling == <<pollsem, fds, revents, leaked>>
vars    == <<ring, rxint, wakeup, sem, writer, pc, local, polling, ready, given>>

Index == 0 .. Size - 1

\* if (++i >= size) i = 0
Inc(i) == IF i + 1 >= Size THEN 0 ELSE i + 1

Init ==
    /\ buffer = [i \in Index |-> 0] /\ head = 0 /\ tail = 0
    /\ rxint = TRUE /\ recvwaiting = FALSE /\ recvsem = 0
    /\ sem = None /\ writer = None /\ pc = [u \in User |-> "idle"]
    /\ ltail = 0 /\ ch = 0 /\ recvd = 0
    /\ pollsem = None /\ fds = {} /\ revents = {} /\ leaked = 0 /\ ready = {}
    /\ given = 0

At(u, p) == pc[u] = p
GoTo(u, p) == pc' = [pc EXCEPT ![u] = p]

-----------------------------------------------------------------------------
(***************************************************************************)
(* The receive interrupt.                                                  *)
(***************************************************************************)

\* Mutant of DataReceived: a sleeping reader is not woken.
DataReceivedPollOnly ==
    /\ UNCHANGED wakeup
    /\ revents' = revents \cup fds

\* uart_datareceived(): a waiting reader is woken, every poll() is notified.
DataReceived ==
    /\ recvwaiting' = FALSE
    /\ recvsem' = IF recvwaiting THEN recvsem + 1 ELSE recvsem
    /\ revents' = revents \cup fds

\* Mutant of RecvChars: the test for a full buffer comes one byte late.
RecvCharsOver(b) ==
    /\ rxint
    /\ buffer' = [buffer EXCEPT ![head] = b]
    /\ head' = Inc(head)
    /\ DataReceived
    /\ UNCHANGED <<tail, rxint, sem, pc, local, pollsem, fds, leaked, ready, given, writer>>

\* uart_recvchars(): a byte that finds the buffer full is dropped.
RecvChars(b) ==
    /\ rxint
    /\ Inc(head) # tail
    /\ buffer' = [buffer EXCEPT ![head] = b]
    /\ head' = Inc(head)
    /\ DataReceived
    /\ UNCHANGED <<tail, rxint, sem, pc, local, pollsem, fds, leaked, ready, given, writer>>

-----------------------------------------------------------------------------
(***************************************************************************)
(* uart_read()                                                             *)
(***************************************************************************)

ReadCall(u) ==
    /\ At(u, "idle")
    /\ GoTo(u, "sem")
    /\ UNCHANGED <<ring, rxint, wakeup, sem, local, polling, ready, given, writer>>

TakeSem(u) ==
    /\ At(u, "sem") /\ sem = None
    /\ sem' = u
    /\ recvd' = 0
    /\ GoTo(u, "loop")
    /\ UNCHANGED <<ring, rxint, wakeup, ltail, ch, polling, ready, given, writer>>

\* uart_givesem(&dev->recv.sem); return recvd.
Return(u) ==
    /\ sem' = None
    /\ ready' = ready \ {u}
    /\ GoTo(u, "idle")

\* The tests of the loop: enough, a byte, no byte but some taken, not willing
\* to wait, or about to wait.
Test(u) ==
    /\ At(u, "loop")
    /\ \/ /\ recvd < BufLen /\ head # tail
          /\ ltail' = tail
          /\ GoTo(u, "copy")
          /\ UNCHANGED <<sem, ready>>
       \/ /\ recvd = BufLen \/ (head = tail /\ (recvd > 0 \/ u \in NonBlock))
          /\ Return(u)
          /\ UNCHANGED ltail
       \/ /\ recvd = 0 /\ head = tail /\ u \notin NonBlock
          /\ GoTo(u, "disable")
          /\ UNCHANGED <<ltail, sem, ready>>
    /\ UNCHANGED <<ring, rxint, wakeup, ch, recvd, polling, given, writer>>

Copy(u) ==
    /\ At(u, "copy")
    /\ ch' = buffer[ltail]
    /\ GoTo(u, "store")
    /\ UNCHANGED <<ring, rxint, wakeup, sem, ltail, recvd, polling, ready, given, writer>>

\* rxbuf->tail = tail, and the byte is stored for the user.
Store(u) ==
    /\ At(u, "store")
    /\ tail' = Inc(ltail)
    /\ given' = ch
    /\ recvd' = recvd + 1
    /\ GoTo(u, "loop")
    /\ UNCHANGED <<buffer, head, rxint, wakeup, sem, ltail, ch, polling, ready, writer>>

DisableRxInt(u) ==
    /\ At(u, "disable")
    /\ rxint' = FALSE
    /\ GoTo(u, "retest")
    /\ UNCHANGED <<ring, wakeup, sem, local, polling, ready, given, writer>>

\* The critical section: uart_takesem(&dev->recvsem) returns at once when a
\* wake-up is left over.
Sleep(u) ==
    /\ recvwaiting' = TRUE
    /\ IF recvsem > 0
       THEN recvsem' = recvsem - 1 /\ GoTo(u, "loop")
       ELSE UNCHANGED recvsem /\ GoTo(u, "wait")

\* Mutant of Retest: no second test of the buffer.
RetestNot(u) ==
    /\ At(u, "retest")
    /\ rxint' = TRUE
    /\ Sleep(u)
    /\ UNCHANGED <<ring, sem, local, polling, ready, given, writer>>

\* Still empty: sleep, with the interrupt enabled again; otherwise go on.
Retest(u) ==
    /\ At(u, "retest")
    /\ rxint' = TRUE
    /\ IF head = tail
       THEN Sleep(u)
       ELSE UNCHANGED wakeup /\ GoTo(u, "loop")
    /\ UNCHANGED <<ring, sem, local, polling, ready, given, writer>>

\* uart_takesem(&dev->recvsem) returns.
Wake(u) ==
    /\ At(u, "wait") /\ recvsem > 0
    /\ recvsem' = recvsem - 1
    /\ GoTo(u, "loop")
    /\ UNCHANGED <<ring, rxint, recvwaiting, sem, local, polling, ready, given, writer>>

\* A signal ends the wait for recv.sem, or for data: -EINTR.  recvwaiting is left
\* as it is.
Interrupted(u) ==
    /\ \/ At(u, "sem") /\ sem # None /\ GoTo(u, "idle") /\ UNCHANGED <<sem, ready>>
       \/ At(u, "wait") /\ recvsem = 0 /\ Return(u)
    /\ UNCHANGED <<ring, rxint, wakeup, local, polling, given, writer>>

Reads(u) ==
    \/ TakeSem(u) \/ Test(u) \/ Copy(u) \/ Store(u)
    \/ DisableRxInt(u) \/ Retest(u) \/ Wake(u)

-----------------------------------------------------------------------------
(***************************************************************************)
(* poll(), and TCFLSH.                                                     *)
(***************************************************************************)

\* Mutant of PollCall: revents keeps what an earlier poll() has found.
PollCallKept(u) ==
    /\ At(u, "idle")
    /\ GoTo(u, "setup")
    /\ ready' = ready \ {u}
    /\ UNCHANGED <<ring, rxint, wakeup, sem, local, polling, given, writer>>

\* poll_setup(): the entry's revents is cleared.
PollCall(u) ==
    /\ At(u, "idle")
    /\ GoTo(u, "setup")
    /\ revents' = revents \ {u}
    /\ ready' = ready \ {u}
    /\ UNCHANGED <<ring, rxint, wakeup, sem, local, pollsem, fds, leaked, given, writer>>

\* uart_poll() takes pollsem and a slot of dev->fds, or fails with -EBUSY.
PollSetup(u) ==
    /\ At(u, "setup") /\ pollsem = None
    /\ IF Cardinality(fds) + leaked < NPOLLWAITERS
       THEN fds' = fds \cup {u} /\ pollsem' = u /\ GoTo(u, "pollxmit")
       ELSE GoTo(u, "idle") /\ UNCHANGED <<fds, pollsem>>
    /\ UNCHANGED <<ring, rxint, wakeup, sem, local, revents, leaked, ready, given, writer>>

\* Mutant of PollXmit: xmit.sem is taken and not given back.
PollXmitKeeps(u) ==
    /\ At(u, "pollxmit") /\ writer = None
    /\ writer' = u
    /\ GoTo(u, "polltest")
    /\ UNCHANGED <<ring, rxint, wakeup, sem, local, polling, ready, given>>

\* The test of the transmit buffer, which tells a select() for input nothing, needs
\* xmit.sem; no signal ends this wait.
PollXmit(u) ==
    /\ At(u, "pollxmit") /\ writer = None
    /\ GoTo(u, "polltest")
    /\ UNCHANGED <<ring, rxint, wakeup, sem, local, polling, ready, given, writer>>

\* Mutant of PollTest: what is already in the buffer is not looked at.
PollTestNot(u) ==
    /\ At(u, "polltest") /\ sem = None
    /\ pollsem' = None
    /\ GoTo(u, "pollwait")
    /\ UNCHANGED <<ring, rxint, wakeup, sem, local, fds, revents, leaked, ready, given, writer>>

\* The test of the receive buffer needs recv.sem, and no signal ends this wait either.
PollTest(u) ==
    /\ At(u, "polltest") /\ sem = None
    /\ IF head # tail
       THEN GoTo(u, "notify") /\ UNCHANGED pollsem
       ELSE GoTo(u, "pollwait") /\ pollsem' = None
    /\ UNCHANGED <<ring, rxint, wakeup, sem, local, fds, revents, leaked, ready, given, writer>>

\* Everybody who polls is notified, not only the caller.
PollNotify(u) ==
    /\ At(u, "notify")
    /\ revents' = revents \cup fds
    /\ pollsem' = None
    /\ GoTo(u, "pollwait")
    /\ UNCHANGED <<ring, rxint, wakeup, sem, local, fds, leaked, ready, given, writer>>

\* A notification, the time-out or a signal.
PollWait(u) ==
    /\ At(u, "pollwait")
    /\ GoTo(u, "teardown")
    /\ UNCHANGED <<ring, rxint, wakeup, sem, local, polling, ready, given, writer>>

PollTeardown(u) ==
    /\ At(u, "teardown") /\ pollsem = None
    /\ fds' = fds \ {u}
    /\ ready' = IF u \in revents THEN ready \cup {u} ELSE ready
    /\ GoTo(u, "idle")
    /\ UNCHANGED <<ring, rxint, wakeup, sem, local, pollsem, revents, leaked, given, writer>>

\* A signal ends the wait for pollsem: poll() fails with -EINTR, and a slot that
\* was to be given back is not.
PollInterrupted(u) ==
    /\ pollsem # None
    /\ \/ At(u, "setup") /\ UNCHANGED <<fds, leaked>>
       \/ At(u, "teardown") /\ fds' = fds \ {u} /\ leaked' = leaked + 1
    /\ GoTo(u, "idle")
    /\ UNCHANGED <<ring, rxint, wakeup, sem, local, pollsem, revents, ready, given, writer>>

Polls(u) ==
    \/ PollSetup(u) \/ PollXmit(u) \/ PollTest(u) \/ PollNotify(u)
    \/ PollWait(u) \/ PollTeardown(u)

\* Mutant of Flush: only one of the indices is reset.
FlushHead(u) ==
    /\ At(u, "idle") /\ u \in Flusher
    /\ head' = 0
    /\ ready' = ready \ {u}
    /\ UNCHANGED <<buffer, tail, rxint, wakeup, sem, pc, local, polling, given, writer>>

\* TCFLSH with TCIFLUSH, in a critical section but without recv.sem.
Flush(u) ==
    /\ At(u, "idle") /\ u \in Flusher
    /\ head' = 0 /\ tail' = 0
    /\ ready' = ready \ {u}
    /\ UNCHANGED <<buffer, rxint, wakeup, sem, pc, local, polling, given, writer>>

-----------------------------------------------------------------------------
(***************************************************************************)
(* uart_write() and uart_tcdrain().                                        *)
(***************************************************************************)

\* A write or drain has got xmit.sem and keeps it while it waits for the USART.
Write(u) ==
    /\ At(u, "idle") /\ writer = None
    /\ writer' = u
    /\ GoTo(u, "write")
    /\ UNCHANGED <<ring, rxint, wakeup, sem, local, polling, ready, given>>

\* Done, or ended by a signal.
WriteReturn(u) ==
    /\ At(u, "write")
    /\ writer' = None
    /\ GoTo(u, "idle")
    /\ UNCHANGED <<ring, rxint, wakeup, sem, local, polling, ready, given>>

-----------------------------------------------------------------------------

Next ==
    \/ \E b \in Byte : RecvChars(b)
    \/ \E u \in User :
          \/ ReadCall(u) \/ Reads(u) \/ Interrupted(u)
          \/ PollCall(u) \/ Polls(u) \/ PollInterrupted(u) \/ Flush(u)
          \/ Write(u) \/ WriteReturn(u)

Spec == Init /\ [][Next]_vars

\* A call that can go on goes on, and a semaphore goes to whoever has waited
\* longest; nobody has to call, and nothing has to arrive.  A write or drain
\* returns: UartTx, WriteReturns.
FairSpec ==
    /\ Spec
    /\ \A u \in User :
          SF_vars(Reads(u)) /\ SF_vars(Polls(u)) /\ WF_vars(WriteReturn(u))

-----------------------------------------------------------------------------

Reading == {"loop", "copy", "store", "disable", "retest", "wait"}

\* Types of the driver's state; the indices never leave the buffer.
TypeOK ==
    /\ buffer \in [Index -> Byte] /\ head \in Index /\ tail \in Index
    /\ rxint \in BOOLEAN /\ recvwaiting \in BOOLEAN /\ recvsem \in Nat
    /\ sem \in User \cup {None} /\ pollsem \in User \cup {None}
    /\ writer \in User \cup {None}
    /\ pc \in [User -> Reading \cup {"idle", "sem", "setup", "pollxmit", "polltest",
                                     "notify", "pollwait", "teardown", "write"}]
    /\ ltail \in Index /\ ch \in Byte /\ recvd \in 0 .. BufLen
    /\ fds \subseteq User /\ revents \subseteq User /\ ready \subseteq User
    /\ leaked \in 0 .. NPOLLWAITERS /\ given \in Byte

\* The bytes between tail and head, oldest first.
Count == IF head >= tail THEN head - tail ELSE head + Size - tail
Slot(i) == IF tail + i - 1 >= Size THEN tail + i - 1 - Size ELSE tail + i - 1
Contents == [i \in 1 .. Count |-> buffer[Slot(i)]]

Fifo == INSTANCE UartFifo WITH queue <- Contents, Capacity <- Size - 1

\* Interrupt and readers implement a queue, without any lock between them: every
\* byte a user is given is the oldest one that is in the buffer, and none is lost.
QueueKept == Fifo!Lossless

\* The same with a user that flushes: what it leaves is an empty queue.
FifoKept == Fifo!Spec

\* A reader sleeps only while the buffer is empty, and will be woken by the next
\* byte: none is received unnoticed between its test and its wait.  Wake-ups for
\* readers that a signal has taken away do not pile up.
NoLostWakeup ==
    /\ \A u \in User : At(u, "wait") /\ recvsem = 0 => head = tail /\ recvwaiting
    /\ recvsem <= 1

\* A poll() that has not been notified waits in front of an empty buffer.
NoLostEvent == \A u \in User : At(u, "pollwait") /\ u \notin revents => head = tail

\* A port with one user: when select() has reported data, the read() that
\* follows finds a byte and does not wait, blocking descriptor or not.
ReadyMeansData ==
    \A u \in ready : At(u, "loop") /\ recvd = 0 => head # tail

\* A poll() with a time-out returns, unless some reader of the port sleeps.  uart_poll()
\* waits, with pollsem in hand, for the xmit.sem that a writer or drain keeps while it
\* waits for the USART, and for the recv.sem that a sleeping reader keeps.  Writers,
\* however many, only delay it; a reader keeps recv.sem until a byte arrives.
PollReturns ==
    \A u \in User : At(u, "setup") ~> (At(u, "idle") \/ \E v \in User : At(v, "wait"))

\* A read() that waits while there is data returns.
DataReturned == \A u \in User : At(u, "wait") /\ head # tail ~> At(u, "idle")

=============================================================================
