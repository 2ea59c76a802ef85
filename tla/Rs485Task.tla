----------------------------- MODULE Rs485Task -----------------------------
(***************************************************************************)
(* The _485 task: it switches the main lamp on and then, every two seconds *)
(* or so, sets its brightness on port B and takes what the two RS485 ports *)
(* have received, byte by byte, into the one receiver of Rs485Rx.          *)
(*                                                                         *)
(* The frames are built as the functions of 485.c build them, check sum    *)
(* included.  The bus is external: a port receives whole frames, the echo  *)
(* of the task's own ones among them, or parts of frames.                  *)
(***************************************************************************)
EXTENDS Naturals, Sequences, SequencesExt

CONSTANTS
    MAX_LEN_COMM_TRM_DATA,
    Byte,          \* the bytes on the two buses
    Chunks(_, _),  \* Chunks(p, f): what may arrive at port p at once, f being
                   \* the last frame written
    FifoSize,      \* bytes that wait at a port at most
    SRB_SIZE       \* the frame counter runs modulo SRB_SIZE, 16 in the code

VARIABLES eRxStatus, byCnt, byDataLen, byFrameLen, GUIDCnt, fld, Date,
          led, got, taken, offset,         \* the receiver, see Rs485Rx
          pc, ledvalue, SRB,
          fifo,      \* fifo[p]: what port p has received
          cArray,    \* what is left of the last read
          last,      \* history: the last frame written
          frame,     \* history: the last read was one frame of this firmware,
          whole,     \* and the receiver was idle then
          idled      \* history: the receiver was idle then, or has been since

\* Every byte may reach the receiver, whatever came before.
AnyByte(n) == Byte

Rx == INSTANCE Rs485Rx WITH Bus <- AnyByte

rxVars   == <<eRxStatus, byCnt, byDataLen, byFrameLen, GUIDCnt, fld, Date,
              led, got, taken, offset>>
taskVars == <<pc, ledvalue, SRB, cArray>>
history  == <<frame, whole, idled>>
vars     == <<rxVars, taskVars, fifo, last, history>>

Port == {"A", "B"}

-----------------------------------------------------------------------------
(***************************************************************************)
(* The senders.                                                            *)
(***************************************************************************)

\* Mutant of CheckSum: the frame head is left out.
CheckSumLate(s) == FoldLeft(LAMBDA sum, b : (sum + b) % 256, 0, Tail(s))

\* senddate[sizeof(senddate)-2] += senddate[i], from the head to the last data
\* byte, in a byte.
CheckSum(s) == FoldLeft(LAMBDA sum, b : (sum + b) % 256, 0, s)

\* Mutant of Frame: FG = 0x40, as in an older form of the frames.
FrameOldFG(CMD0, GUID, CON0, CON1, data) ==
    LET body == <<104, 69, 64, CMD0, 8, GUID, 0, CON0, CON1, Len(data)>> \o data
    IN  <<254, 254, 254>> \o body \o <<CheckSum(body), 22>>

\* Mutant of Frame: the check sum is counted as data.
FrameLong(CMD0, GUID, CON0, CON1, data) ==
    LET body == <<104, 69, 0, CMD0, 8, GUID, 0, CON0, CON1, Len(data) + 1>> \o data
    IN  <<254, 254, 254>> \o body \o <<CheckSum(body), 22>>

\* Three bytes of preamble, head, FG = 0, CMD0, CMD1 = 8, GUID, CON0, CON1,
\* length, data, check sum, tail.
Frame(CMD0, GUID, CON0, CON1, data) ==
    LET body == <<104, 69, 0, CMD0, 8, GUID, 0, CON0, CON1, Len(data)>> \o data
    IN  <<254, 254, 254>> \o body \o <<CheckSum(body), 22>>

GetLedTemperature(srb)      == Frame(32, 192, 21, 48, <<srb>>)
GetBaseTemperature(srb)     == Frame(32, 176, 17, 48, <<srb>>)
GetVoltage(srb)             == Frame(32, 192, 19, 16, <<srb>>)
GetCurrent(srb)             == Frame(32, 192, 20, 32, <<srb>>)
SetMainLEDSwitch(on, srb)   == Frame(64, 192, on, 0, <<srb>>)
SetBLEDSwitch(on, srb)      == Frame(64, 192, on, 0, <<srb>>)
SetColorTemperatureBrightness(l1, l2, l3, l4) == Frame(64, 192, 67, 0, <<l1, l2, l3, l4>>)

\* The frames these functions send with the arguments _485() and its tests give
\* them.
Firmware ==
    (UNION {{GetLedTemperature(s), GetBaseTemperature(s), GetVoltage(s), GetCurrent(s),
             SetMainLEDSwitch(65, s), SetMainLEDSwitch(66, s),
             SetBLEDSwitch(68, s), SetBLEDSwitch(69, s)} : s \in 0 .. SRB_SIZE - 1})
    \cup {SetColorTemperatureBrightness(2, 0, v \div 256, v % 256) : v \in 0 .. 1000}

\* The frames _485() writes, and none at first.
Sent ==
    {<<>>, SetMainLEDSwitch(65, 0)} \cup
    {SetColorTemperatureBrightness(2, 0, v \div 256, v % 256) : v \in {100, 300, 500, 700, 900}}

ASSUME SizeAssumption == SRB_SIZE \in Nat \ {0} /\ MAX_LEN_COMM_TRM_DATA \in 13 .. 128

\* What arrives is bytes, whatever has been written.
ASSUME BusAssumption ==
    /\ Byte \subseteq 0 .. 255
    /\ \A p \in Port, f \in Sent : \A c \in Chunks(p, f) : c \in Seq(Byte)

\* What every sender does with its frame f; write() goes to port B.
Send(f) == SRB' = (SRB + 1) % SRB_SIZE /\ last' = f

-----------------------------------------------------------------------------
(***************************************************************************)
(* _485() and read_485_recv().                                             *)
(***************************************************************************)

Init ==
    /\ Rx!Init
    /\ pc = "begin" /\ ledvalue = 100 /\ SRB = 0
    /\ fifo = [p \in Port |-> <<>>] /\ cArray = <<>>
    /\ last = <<>> /\ frame = FALSE /\ whole = FALSE /\ idled = TRUE

Begin ==
    /\ pc = "begin"
    /\ pc' = "select"
    /\ Send(SetMainLEDSwitch(65, SRB))
    /\ UNCHANGED <<rxVars, ledvalue, fifo, cArray, history>>

\* Mutant of Select: no time-out.
SelectBlocking ==
    /\ pc = "select"
    /\ \/ fifo["A"] # <<>> /\ pc' = "readA"
       \/ fifo["A"] = <<>> /\ fifo["B"] # <<>> /\ pc' = "readB"
    /\ UNCHANGED <<rxVars, ledvalue, SRB, fifo, cArray, last, history>>

\* Mutant of Select: only port A is looked at.
SelectOnlyA ==
    /\ pc = "select"
    /\ pc' = IF fifo["A"] # <<>> THEN "readA" ELSE "set"
    /\ UNCHANGED <<rxVars, ledvalue, SRB, fifo, cArray, last, history>>

\* select() reports a port or, after 5 s, none; port A comes first.
Select ==
    /\ pc = "select"
    /\ \/ fifo["A"] # <<>> /\ pc' = "readA"
       \/ fifo["A"] = <<>> /\ fifo["B"] # <<>> /\ pc' = "readB"
       \/ fifo["A"] = <<>> /\ fifo["B"] = <<>> /\ pc' = "set"
    /\ UNCHANGED <<rxVars, ledvalue, SRB, fifo, cArray, last, history>>

\* 100 ms later: read() takes at most 256 bytes and tcflush() drops the rest.  A
\* byte that comes between the two is dropped too, as if it had never arrived.
Read(p) ==
    /\ pc = (IF p = "A" THEN "readA" ELSE "readB")
    /\ pc' = "feed"
    /\ LET n == Len(fifo[p]) IN cArray' = SubSeq(fifo[p], 1, IF n < 256 THEN n ELSE 256)
    /\ fifo' = [fifo EXCEPT ![p] = <<>>]
    /\ frame' = (cArray' \in Firmware)
    /\ idled' = (eRxStatus = "IDLE")
    /\ whole' = (frame' /\ idled')
    /\ UNCHANGED <<rxVars, ledvalue, SRB, last>>

\* comm2trm_RxUartData(cArray[i])
Feed ==
    /\ pc = "feed" /\ cArray # <<>>
    /\ Rx!RxUartData(Head(cArray))
    /\ cArray' = Tail(cArray)
    /\ idled' = (idled \/ eRxStatus' = "IDLE")
    /\ UNCHANGED <<pc, ledvalue, SRB, fifo, last, frame, whole>>

Fed ==
    /\ pc = "feed" /\ cArray = <<>>
    /\ pc' = "set"
    /\ UNCHANGED <<rxVars, ledvalue, SRB, fifo, cArray, last, history>>

\* The body of the for loop: the brightness goes up by 200 and starts again at
\* 100 when it has passed 1000; high byte first.
SetBrightness ==
    /\ pc = "set"
    /\ pc' = "select"
    /\ LET v == IF ledvalue > 1000 THEN 100 ELSE ledvalue IN
         /\ Send(SetColorTemperatureBrightness(2, 0, v \div 256, v % 256))
         /\ ledvalue' = v + 200
    /\ UNCHANGED <<rxVars, fifo, cArray, history>>

Task == Begin \/ Select \/ (\E p \in Port : Read(p)) \/ Feed \/ Fed \/ SetBrightness

\* The bus (external): a chunk arrives at a port.
Arrive(p) ==
    /\ \E c \in Chunks(p, last) :
         /\ Len(fifo[p]) + Len(c) <= FifoSize
         /\ fifo' = [fifo EXCEPT ![p] = @ \o c]
    /\ UNCHANGED <<rxVars, taskVars, last, history>>

Next == Task \/ \E p \in Port : Arrive(p)

Spec == Init /\ [][Next]_vars

\* The task is scheduled and its select() has a time-out; nothing is assumed of
\* the bus.
FairSpec == Spec /\ WF_vars(Task)

-----------------------------------------------------------------------------

\* Types; the receiver's own ones too, whichever port its bytes come from, and
\* the frame counter and the brightness in their ranges.
TypeOK ==
    /\ Rx!TypeOK
    /\ pc \in {"begin", "select", "readA", "readB", "feed", "set"}
    /\ ledvalue \in 100 .. 1200 /\ SRB \in 0 .. SRB_SIZE - 1
    /\ fifo \in [Port -> Seq(0 .. 255)] /\ cArray \in Seq(0 .. 255)
    /\ frame \in BOOLEAN /\ whole \in BOOLEAN /\ idled \in BOOLEAN

\* Every frame written announces the data it carries, ends in the sum of its
\* bytes, and asks for a brightness from 100 to 1000.
LampCommand ==
    last # <<>> =>
      /\ last[13] = Len(last) - 15
      /\ last[Len(last) - 1] = FoldSeq(+, 0, SubSeq(last, 4, Len(last) - 2)) % 256
      /\ last[11] = 67 => 256 * last[16] + last[17] \in 100 .. 1000

\* The receiver agrees with the senders: a frame of this firmware, read as a
\* whole into an idle receiver, is taken to its tail and handed on.
FirmwareFrameTaken == whole /\ cArray = <<>> => eRxStatus = "IDLE" /\ byFrameLen = 1

\* The two ports share one receiver, so a frame that one of them breaks off is
\* continued with bytes of the other.  Such a frame costs no more than the frames
\* it swallows: with the first frame of this firmware in which the receiver has
\* been idle at all, even if only in its middle, it is idle again at the end of
\* it.  What is left of that frame never passes for the start of another.
Resynced == frame /\ idled /\ cArray = <<>> => eRxStatus = "IDLE"

\* When nothing but frames of this firmware keeps coming, read one at a time, the
\* receiver finds back to the start of the frames for good, whatever part of a
\* frame it was left with and whatever length it took from the middle of one.
Recovers ==
    <>[]frame /\ []<>(pc = "feed") => <>[](pc = "select" => eRxStatus = "IDLE")

\* The lamp is set again and again, whatever arrives and whatever does not.
LampServed == []<>(pc = "set")

\* What port B receives is read in the end, unless port A never falls silent.
PortBServed == []<>(fifo["B"] = <<>>) \/ []<>(fifo["A"] # <<>>)

=============================================================================
