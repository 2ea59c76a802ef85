------------------------------- MODULE UartTx ------------------------------
(***************************************************************************)
(* The transmit side of the serial driver: the ring buffer xmit, filled by *)
(* uart_write() and emptied by the transmit interrupt, and uart_tcdrain()  *)
(* as tcdrain() and close() call it; below it the data register of the     *)
(* STM32 USART.                                                            *)
(*                                                                         *)
(* xmit.sem lets one user at a time be inside uart_write() or              *)
(* uart_tcdrain(), so their local variables are global here.  No output    *)
(* translation is on (tc_oflag is 0 but for a console).  A call of         *)
(* uart_xmitchars() finds the data register empty once: a second byte it   *)
(* might send is sent by the next interrupt here.                          *)
(***************************************************************************)
EXTENDS Naturals

CONSTANTS
    User,
    NonBlock,       \* users whose descriptor has O_NONBLOCK
    None,           \* no user, and no byte in the data register
    Byte, Size,     \* the buffer has room for Size - 1 bytes
    BufLen          \* what a write() asks for

ASSUME SizeAssumption   == Size \in Nat /\ Size >= 2
ASSUME BufLenAssumption == BufLen \in Nat \ {0}
ASSUME NoneAssumption   == None \notin User /\ None \notin Byte
ASSUME ByteAssumption   == 0 \in Byte

VARIABLES
    buffer, head, tail,     \* dev->xmit
    txint,                  \* the transmit interrupt is enabled
    xmitwaiting, xmitsem,
    sem,                    \* holder of xmit.sem
    pc,
    nexthead,               \* nexthead of uart_putxmitchar()
    buflen,                 \* buflen of uart_write(): bytes still to be put
    tdr,                    \* data register of the USART
    given,                  \* history: the last byte put into the data register
    stalled                 \* history: a drain has failed, and no write() came after it

ring   == <<buffer, head, tail>>
wakeup == <<xmitwaiting, xmitsem>>
local  == <<nexthead, buflen>>
vars   == <<ring, txint, wakeup, sem, pc, local, tdr, given, stalled>>

Index == 0 .. Size - 1

\* if (++i >= size) i = 0
Inc(i) == IF i + 1 >= Size THEN 0 ELSE i + 1

Init ==
    /\ buffer = [i \in Index |-> 0] /\ head = 0 /\ tail = 0
    /\ txint = FALSE /\ xmitwaiting = FALSE /\ xmitsem = 0
    /\ sem = None /\ pc = [u \in User |-> "idle"]
    /\ nexthead = 0 /\ buflen = 0
    /\ tdr = None /\ given = 0 /\ stalled = FALSE

At(u, p) == pc[u] = p
GoTo(u, p) == pc' = [pc EXCEPT ![u] = p]

-----------------------------------------------------------------------------
(***************************************************************************)
(* The transmit interrupt, and the hardware.                               *)
(***************************************************************************)

\* There is a byte to send, and stm32l4serial_txready() holds.
Sends == head # tail /\ tdr = None

\* The loop of uart_xmitchars(): the data register takes the oldest byte.
SendByte ==
    /\ tail' = IF Sends THEN Inc(tail) ELSE tail
    /\ tdr' = IF Sends THEN buffer[tail] ELSE tdr
    /\ given' = IF Sends THEN buffer[tail] ELSE given
    /\ UNCHANGED <<buffer, head>>

\* Mutant of XmitChars: the interrupt is disabled when the register is busy.
XmitCharsOff == SendByte /\ txint' = (head # tail' /\ Sends)

\* uart_xmitchars() with the interrupt enabled: an empty buffer disables it.
XmitChars == SendByte /\ txint' = (head # tail')

\* Mutant of DataSent: xmitsem is only posted when the buffer is empty.
DataSentEmpty ==
    /\ xmitwaiting' = (xmitwaiting /\ ~Sends)
    /\ xmitsem' = IF Sends /\ xmitwaiting /\ head = tail' THEN xmitsem + 1 ELSE xmitsem

\* uart_datasent(), called when a byte was sent: whoever waits is woken.
DataSent ==
    /\ xmitwaiting' = (xmitwaiting /\ ~Sends)
    /\ xmitsem' = IF Sends /\ xmitwaiting THEN xmitsem + 1 ELSE xmitsem

\* up_interrupt(): TXE with TXEIE.
TxInt ==
    /\ txint /\ tdr = None
    /\ XmitChars /\ DataSent
    /\ UNCHANGED <<sem, pc, local, stalled>>

\* The byte moves on to the wire.
Shift ==
    /\ tdr # None
    /\ tdr' = None
    /\ UNCHANGED <<ring, txint, wakeup, sem, pc, local, given, stalled>>

-----------------------------------------------------------------------------
(***************************************************************************)
(* xmit.sem, and waiting for the interrupt.                                *)
(***************************************************************************)

\* write() or tcdrain() is called.
Call(u) ==
    /\ At(u, "idle")
    /\ GoTo(u, "wsem") \/ GoTo(u, "dsem")
    /\ UNCHANGED <<ring, txint, wakeup, sem, local, tdr, given, stalled>>

\* uart_write() stops the interrupt while it fills the buffer; uart_tcdrain()
\* does not.
TakeSem(u) ==
    /\ sem = None
    /\ sem' = u
    /\ \/ At(u, "wsem") /\ txint' = FALSE /\ buflen' = BufLen /\ GoTo(u, "next")
       \/ At(u, "dsem") /\ UNCHANGED <<txint, buflen>> /\ GoTo(u, "drain")
    /\ UNCHANGED <<ring, wakeup, nexthead, tdr, given, stalled>>

\* Mutant of Block: xmitwaiting is set after the interrupt has been enabled.
BlockLate(u, loop, wait) ==
    /\ SendByte
    /\ xmitwaiting' = TRUE
    /\ IF xmitsem > 0
       THEN xmitsem' = xmitsem - 1 /\ txint' = FALSE /\ GoTo(u, loop)
       ELSE txint' = (head # tail') /\ UNCHANGED xmitsem /\ GoTo(u, wait)

\* The critical section of both: xmitwaiting is set, enabling the interrupt may
\* send a byte at once, which posts xmitsem, and xmitsem is taken.  After it the
\* interrupt is disabled again.
Block(u, loop, wait) ==
    /\ SendByte
    /\ IF Sends \/ xmitsem > 0
       THEN /\ xmitwaiting' = ~Sends
            /\ xmitsem' = IF Sends THEN xmitsem ELSE xmitsem - 1
            /\ txint' = FALSE
            /\ GoTo(u, loop)
       ELSE /\ xmitwaiting' = TRUE
            /\ txint' = (head # tail)
            /\ UNCHANGED xmitsem
            /\ GoTo(u, wait)

-----------------------------------------------------------------------------
(***************************************************************************)
(* uart_write()                                                            *)
(***************************************************************************)

\* for (; buflen; buflen--), and the first statement of uart_putxmitchar().
NextChar(u) ==
    /\ At(u, "next")
    /\ IF buflen = 0
       THEN GoTo(u, "finish") /\ UNCHANGED nexthead
       ELSE GoTo(u, "put") /\ nexthead' = Inc(head)
    /\ UNCHANGED <<ring, txint, wakeup, sem, buflen, tdr, given, stalled>>

\* Mutant of PutXmitChar: the test for a full buffer comes one byte late.
PutXmitCharOver(u) ==
    /\ At(u, "put")
    /\ \E b \in Byte : buffer' = [buffer EXCEPT ![head] = b]
    /\ head' = nexthead
    /\ buflen' = buflen - 1
    /\ GoTo(u, "next")
    /\ UNCHANGED <<tail, txint, wakeup, sem, nexthead, tdr, given, stalled>>

\* There is room for the byte.
PutXmitChar(u) ==
    /\ At(u, "put") /\ nexthead # tail
    /\ \E b \in Byte : buffer' = [buffer EXCEPT ![head] = b]
    /\ head' = nexthead
    /\ buflen' = buflen - 1
    /\ GoTo(u, "next")
    /\ UNCHANGED <<tail, txint, wakeup, sem, nexthead, tdr, given, stalled>>

\* -EAGAIN
TryAgain(u) ==
    /\ At(u, "put") /\ nexthead = tail /\ u \in NonBlock
    /\ GoTo(u, "finish")
    /\ UNCHANGED <<ring, txint, wakeup, sem, local, tdr, given, stalled>>

\* The buffer is full, and still full in the critical section: nothing has
\* emptied it in between because the interrupt is off.
Full(u) ==
    /\ At(u, "put") /\ nexthead = tail /\ u \notin NonBlock
    /\ Block(u, "put", "wait")
    /\ UNCHANGED <<sem, local, stalled>>

\* uart_takesem(&dev->xmitsem) returns.
Wake(u) ==
    /\ At(u, "wait") \/ At(u, "dwait")
    /\ xmitsem > 0
    /\ xmitsem' = xmitsem - 1
    /\ txint' = FALSE
    /\ GoTo(u, IF At(u, "wait") THEN "put" ELSE "drain")
    /\ UNCHANGED <<ring, xmitwaiting, sem, local, tdr, given, stalled>>

\* The end of uart_write(), whatever has ended the loop.
Finish(u) ==
    /\ At(u, "finish")
    /\ IF head # tail
       THEN XmitChars /\ DataSent
       ELSE UNCHANGED <<ring, txint, wakeup, tdr, given>>
    /\ sem' = None /\ stalled' = FALSE
    /\ GoTo(u, "idle")
    /\ UNCHANGED local

-----------------------------------------------------------------------------
(***************************************************************************)
(* uart_tcdrain(), and signals.                                            *)
(***************************************************************************)

\* while (ret >= 0 && dev->xmit.head != dev->xmit.tail)
Drain(u) ==
    /\ At(u, "drain")
    /\ IF head # tail
       THEN Block(u, "drain", "dwait")
       ELSE GoTo(u, "empty") /\ UNCHANGED <<ring, txint, wakeup, tdr, given>>
    /\ UNCHANGED <<sem, local, stalled>>

\* while (!uart_txempty(dev)) usleep(): the register, not the wire, is waited for.
DrainEmpty(u) ==
    /\ At(u, "empty") /\ tdr = None
    /\ sem' = None
    /\ GoTo(u, "idle")
    /\ UNCHANGED <<ring, txint, wakeup, local, tdr, given, stalled>>

\* A signal ends a wait with -EINTR.  xmitwaiting is left as it is, and
\* uart_tcdrain() leaves the interrupt disabled.
Interrupted(u) ==
    /\ \/ /\ (At(u, "wsem") \/ At(u, "dsem")) /\ sem # None
          /\ GoTo(u, "idle")
          /\ UNCHANGED <<txint, sem, stalled>>
       \/ /\ At(u, "wait") /\ xmitsem = 0
          /\ txint' = FALSE
          /\ GoTo(u, "finish")
          /\ UNCHANGED <<sem, stalled>>
       \/ /\ At(u, "dwait") /\ xmitsem = 0
          /\ txint' = FALSE /\ sem' = None /\ stalled' = TRUE
          /\ GoTo(u, "idle")
    /\ UNCHANGED <<ring, wakeup, local, tdr, given>>

-----------------------------------------------------------------------------

\* What a call does once it is made.
Steps(u) ==
    \/ TakeSem(u) \/ NextChar(u) \/ PutXmitChar(u) \/ TryAgain(u) \/ Full(u)
    \/ Wake(u) \/ Finish(u) \/ Drain(u) \/ DrainEmpty(u)

Next ==
    \/ TxInt \/ Shift
    \/ \E u \in User : Call(u) \/ Steps(u) \/ Interrupted(u)

Spec == Init /\ [][Next]_vars

\* The USART sends, its interrupt is served, and a call that can go on goes on;
\* a semaphore goes to whoever has waited longest.  Nobody has to call.
FairSpec ==
    /\ Spec
    /\ WF_vars(TxInt) /\ WF_vars(Shift)
    /\ \A u \in User : SF_vars(Steps(u))

-----------------------------------------------------------------------------

Writing  == {"next", "put", "wait", "finish"}
Draining == {"drain", "dwait", "empty"}

\* Types of the driver's state; the indices never leave the buffer.
TypeOK ==
    /\ buffer \in [Index -> Byte] /\ head \in Index /\ tail \in Index
    /\ txint \in BOOLEAN /\ xmitwaiting \in BOOLEAN /\ xmitsem \in Nat
    /\ sem \in User \cup {None}
    /\ pc \in [User -> Writing \cup Draining \cup {"idle", "wsem", "dsem"}]
    /\ nexthead \in Index /\ buflen \in 0 .. BufLen
    /\ tdr \in Byte \cup {None} /\ given \in Byte /\ stalled \in BOOLEAN

\* The bytes between tail and head, oldest first.
Count == IF head >= tail THEN head - tail ELSE head + Size - tail
Slot(i) == IF tail + i - 1 >= Size THEN tail + i - 1 - Size ELSE tail + i - 1
Contents == [i \in 1 .. Count |-> buffer[Slot(i)]]

Fifo == INSTANCE UartFifo WITH queue <- Contents, Capacity <- Size - 1

\* Writers and interrupt implement a queue: every byte the USART is given is the
\* oldest one written and not sent, each once, also when writes are cut short.
OutputKept == Fifo!Lossless

\* Who waits for xmitsem will be woken: there is a byte to send, the interrupt is
\* enabled and knows of the wait.  uart_xmitchars() asks whether it can disable
\* the interrupt under a waiting writer; with writes and drains it cannot.
NoStuckWriter ==
    \A u \in User :
        (At(u, "wait") \/ At(u, "dwait")) /\ xmitsem = 0 => head # tail /\ xmitwaiting /\ txint

\* When nobody is inside the driver, the interrupt sends what is in the buffer;
\* the exception is a drain that a signal has ended.
OutputGoesOn == sem = None /\ head # tail /\ ~stalled => txint

\* A write() or tcdrain() that is waiting for the USART returns.
WriteReturns ==
    \A u \in User : (At(u, "wait") \/ At(u, "dwait")) ~> At(u, "idle")

=============================================================================
