------------------------------ MODULE Rs485Rx ------------------------------
(***************************************************************************)
(* The receiver of the RS485 lamp bus: comm2trm_RxUartData() takes the     *)
(* bytes of a frame one at a time,                                         *)
(*                                                                         *)
(*   68 45 FG CMD0 CMD1 GUID GUID CON0 CON1 LEN data.. CS 16               *)
(*                                                                         *)
(* keeps what it has decoded in the static object s_stComm2TrmData and     *)
(* hands a complete frame to process_poll(), which publishes the LED       *)
(* temperature in DeviceInfo.                                              *)
(*                                                                         *)
(* The variables are the members of s_stComm2TrmData: the counters by      *)
(* their own names, the bytes of the header and CS together in fld (the    *)
(* 16-bit GUID as its two bytes), the data in Date.  Nothing ever reads    *)
(* a_byRxBuf, so of the store at the end of the handler only its effect    *)
(* beyond the array is kept.  led is DeviceInfo.LedTemperature.  got,      *)
(* taken and offset are history: how many bytes of the frame under way    *)
(* have been taken, which ones, and the place of the first in a_byRxBuf.   *)
(***************************************************************************)
EXTENDS Naturals

CONSTANTS
    MAX_LEN_COMM_TRM_DATA,  \* size of a_byRxBuf and the largest length taken
    Bus(_)                  \* Bus(n): the bytes the bus may carry when n bytes
                            \* of a frame have been taken

UInt8 == 0 .. 255

\* No less than a frame of one data byte, no more than Date[] holds.
ASSUME MaxLenAssumption == MAX_LEN_COMM_TRM_DATA \in 13 .. 128

ASSUME BusAssumption == \A n \in 0 .. 139 : Bus(n) \subseteq UInt8

VARIABLES eRxStatus, byCnt, byDataLen, byFrameLen, GUIDCnt, fld, Date,
          led, got, taken, offset

rxVars == <<eRxStatus, byCnt, byDataLen, byFrameLen, GUIDCnt, fld, Date>>
vars == <<rxVars, led, got, taken, offset>>

COMM_TRM_HEAD  == 104   \* 0x68
COMM_TRM_FIXED == 69    \* 0x45
COMM_TRM_TAIL  == 22    \* 0x16
LED_REPORT     == 17    \* 0x11, the CON0 process_poll() acts on

Status == {"IDLE", "HEAD", "FIXED", "TYPE", "CMD0", "CMD1", "GUID", "CON0",
           "CON1", "DATA", "CS", "TAIL"}

DateIndex == 0 .. 127

Fields == [FG : UInt8, CMD0 : UInt8, CMD1 : UInt8, GUIDlo : UInt8,
           GUIDhi : UInt8, CON0 : UInt8, CON1 : UInt8, CS : UInt8]

NoFields == [FG |-> 0, CMD0 |-> 0, CMD1 |-> 0, GUIDlo |-> 0,
             GUIDhi |-> 0, CON0 |-> 0, CON1 |-> 0, CS |-> 0]

NoDate == [i \in DateIndex |-> 0]

\* The places of a frame's bytes: header, data, check sum and tail.
HeaderLen == 10
Place == 1 .. HeaderLen + 130
NoBytes == [i \in Place |-> 0]

Init ==
    /\ eRxStatus = "IDLE" /\ byCnt = 0 /\ byDataLen = 0 /\ byFrameLen = 0
    /\ GUIDCnt = 0 /\ fld = NoFields /\ Date = NoDate
    /\ led = 0 /\ got = 0 /\ taken = NoBytes /\ offset = 0

(***************************************************************************)
(* a_byRxBuf[byFrameLen++] = byData, after the switch has left f in fld, g *)
(* in GUIDCnt and d in Date.  Past the end of the array the store lands in *)
(* the members laid out behind it: FG, CMD0, CMD1, a byte of padding, GUID *)
(* (low byte first), GUIDCnt, CON0, CON1, CS and Date.                     *)
(***************************************************************************)
Overrun(k, old, b) ==
    IF byFrameLen = MAX_LEN_COMM_TRM_DATA + k THEN b ELSE old

Save(b, f, g, d) ==
    /\ byFrameLen' = (byFrameLen + 1) % 256
    /\ fld' = [FG     |-> Overrun(0, f.FG, b),     CMD0   |-> Overrun(1, f.CMD0, b),
               CMD1   |-> Overrun(2, f.CMD1, b),   GUIDlo |-> Overrun(4, f.GUIDlo, b),
               GUIDhi |-> Overrun(5, f.GUIDhi, b), CON0   |-> Overrun(7, f.CON0, b),
               CON1   |-> Overrun(8, f.CON1, b),   CS     |-> Overrun(9, f.CS, b)]
    /\ GUIDCnt' = Overrun(6, g, b)
    /\ Date' = [i \in DateIndex |-> Overrun(10 + i, d[i], b)]

\* A case of the switch took the byte: next status, members, then the save.
Accept(b, st, f, g, d) ==
    /\ eRxStatus' = st
    /\ Save(b, f, g, d)
    /\ got' = got + 1
    /\ taken' = [taken EXCEPT ![got + 1] = b]
    /\ UNCHANGED <<led, offset>>

AcceptHeader(b, st, f, g) == Accept(b, st, f, g, Date) /\ UNCHANGED <<byCnt, byDataLen>>

\* ClearCommFrame(), called from rx_exception.
Reject ==
    /\ eRxStatus' = "IDLE" /\ byCnt' = 0 /\ byDataLen' = 0 /\ byFrameLen' = 0
    /\ GUIDCnt' = 0 /\ fld' = NoFields /\ Date' = NoDate
    /\ got' = 0 /\ taken' = NoBytes /\ offset' = 0
    /\ UNCHANGED led

RxIdle(b) ==
    /\ eRxStatus = "IDLE"
    /\ IF b = COMM_TRM_HEAD THEN AcceptHeader(b, "HEAD", fld, GUIDCnt) ELSE Reject

RxHead(b) ==
    /\ eRxStatus = "HEAD"
    /\ IF b = COMM_TRM_FIXED THEN AcceptHeader(b, "FIXED", fld, GUIDCnt) ELSE Reject

RxFixed(b) ==
    /\ eRxStatus = "FIXED"
    /\ IF b = 0 THEN AcceptHeader(b, "TYPE", [fld EXCEPT !.FG = b], GUIDCnt) ELSE Reject

RxType(b) ==
    /\ eRxStatus = "TYPE"
    /\ AcceptHeader(b, "CMD0", [fld EXCEPT !.CMD0 = b], GUIDCnt)

RxCmd0(b) ==
    /\ eRxStatus = "CMD0"
    /\ AcceptHeader(b, "CMD1", [fld EXCEPT !.CMD1 = b], 0)

\* Mutant of RxCmd1: the two bytes of the GUID are swapped.
RxCmd1Swapped(b) ==
    /\ eRxStatus = "CMD1"
    /\ IF GUIDCnt = 0
       THEN AcceptHeader(b, "CMD1", [fld EXCEPT !.GUIDlo = b], 1)
       ELSE AcceptHeader(b, "GUID", [fld EXCEPT !.GUIDhi = b], GUIDCnt)

\* The GUID comes high byte first; GUIDCnt tells which byte is due.
RxCmd1(b) ==
    /\ eRxStatus = "CMD1"
    /\ CASE GUIDCnt = 0 ->
              AcceptHeader(b, "CMD1", [fld EXCEPT !.GUIDhi = 0, !.GUIDlo = b], 1)
         [] GUIDCnt = 1 ->
              AcceptHeader(b, "GUID",
                           [fld EXCEPT !.GUIDhi = fld.GUIDlo, !.GUIDlo = b], GUIDCnt)
         [] OTHER -> Reject

RxGuid(b) ==
    /\ eRxStatus = "GUID"
    /\ AcceptHeader(b, "CON0", [fld EXCEPT !.CON0 = b], GUIDCnt)

RxCon0(b) ==
    /\ eRxStatus = "CON0"
    /\ AcceptHeader(b, "CON1", [fld EXCEPT !.CON1 = b], GUIDCnt)

\* Mutant of RxCon1: the largest length is refused.
RxCon1Strict(b) ==
    /\ eRxStatus = "CON1"
    /\ IF b < MAX_LEN_COMM_TRM_DATA
       THEN byDataLen' = b /\ byCnt' = 0 /\ Accept(b, "DATA", fld, GUIDCnt, Date)
       ELSE Reject

RxCon1(b) ==
    /\ eRxStatus = "CON1"
    /\ IF b <= MAX_LEN_COMM_TRM_DATA
       THEN /\ byDataLen' = b
            /\ byCnt' = 0
            /\ Accept(b, "DATA", fld, GUIDCnt, Date)
       ELSE Reject

\* Mutant of RxData: one data byte too many.
RxDataLate(b) ==
    /\ eRxStatus = "DATA"
    /\ byCnt' = (byCnt + 1) % 256
    /\ UNCHANGED byDataLen
    /\ Accept(b, IF byCnt' <= byDataLen THEN "DATA" ELSE "CS", fld, GUIDCnt,
              [Date EXCEPT ![byCnt] = b])

\* The data byte is stored and counted before the count meets the length.
RxData(b) ==
    /\ eRxStatus = "DATA"
    /\ byCnt' = (byCnt + 1) % 256
    /\ UNCHANGED byDataLen
    /\ Accept(b, IF byCnt' < byDataLen THEN "DATA" ELSE "CS", fld, GUIDCnt,
              [Date EXCEPT ![byCnt] = b])

\* Any byte passes for the check sum.
RxCs(b) ==
    /\ eRxStatus = "CS"
    /\ AcceptHeader(b, "TAIL", [fld EXCEPT !.CS = b], GUIDCnt)

\* Mutant of BcdValue: the shift of the first digit is left out.
BcdValueUnshifted(hi, lo) ==
    hi * 1000 + (hi % 16) * 100 + (lo \div 16) * 10 + (lo % 16)

\* Two bytes of binary coded decimal, most significant digit first.
BcdValue(hi, lo) ==
    (hi \div 16) * 1000 + (hi % 16) * 100 + (lo \div 16) * 10 + (lo % 16)

LedRange == 0 .. 16665

\* Mutant of ProcessPoll: every report is taken for an LED report.
ProcessPollAny == led' = BcdValue(Date[0], Date[1])

\* What process_poll() does besides printing the frame.
ProcessPoll ==
    led' = IF fld.CON0 = LED_REPORT THEN BcdValue(Date[0], Date[1]) ELSE led

\* After process_poll() and ClearCommFrame() the tail byte itself is saved,
\* in the first place of the cleared buffer.
RxTail(b) ==
    /\ eRxStatus = "TAIL"
    /\ IF b = COMM_TRM_TAIL
       THEN /\ ProcessPoll
            /\ eRxStatus' = "IDLE" /\ byCnt' = 0 /\ byDataLen' = 0 /\ byFrameLen' = 1
            /\ GUIDCnt' = 0 /\ fld' = NoFields /\ Date' = NoDate
            /\ got' = 0 /\ taken' = NoBytes /\ offset' = 1
       ELSE Reject

RxUartData(b) ==
    \/ RxIdle(b) \/ RxHead(b) \/ RxFixed(b) \/ RxType(b) \/ RxCmd0(b)
    \/ RxCmd1(b) \/ RxGuid(b) \/ RxCon0(b) \/ RxCon1(b) \/ RxData(b)
    \/ RxCs(b) \/ RxTail(b)

Next == \E b \in Bus(got) : RxUartData(b)

Spec == Init /\ [][Next]_vars

-----------------------------------------------------------------------------
(***************************************************************************)
(* What a frame is, read off its bytes alone.                              *)
(***************************************************************************)

\* The length byte leaves room in a_byRxBuf for header, data and check sum,
\* behind the tail byte of the frame before.
Fits(len) == len + HeaderLen + 2 <= MAX_LEN_COMM_TRM_DATA

\* The first len bytes of t can be continued to (or are) a frame of 1 to
\* MAX_LEN_COMM_TRM_DATA data bytes.
GoodPrefix(t, len) ==
    /\ len >= 1 => t[1] = COMM_TRM_HEAD
    /\ len >= 2 => t[2] = COMM_TRM_FIXED
    /\ len >= 3 => t[3] = 0
    /\ len >= HeaderLen =>
          /\ t[HeaderLen] \in 1 .. MAX_LEN_COMM_TRM_DATA
          /\ len <= HeaderLen + t[HeaderLen] + 2
          /\ len = HeaderLen + t[HeaderLen] + 2 => t[len] = COMM_TRM_TAIL

\* What has been decoded is what the bytes of the frame, up to the tail, say.
DecodedAsTaken ==
    /\ fld.FG = taken[3] /\ fld.CMD0 = taken[4] /\ fld.CMD1 = taken[5]
    /\ fld.GUIDhi = taken[6] /\ fld.GUIDlo = taken[7]
    /\ fld.CON0 = taken[8] /\ fld.CON1 = taken[9]
    /\ \A i \in DateIndex : i < taken[HeaderLen] => Date[i] = taken[11 + i]
    /\ fld.CS = taken[got]

\* Types of the receiver's members, and the statuses the code never leaves
\* unhandled: STATUS_DATA_LEN, STATUS_END and the default case do not occur.
TypeOK ==
    /\ eRxStatus \in Status
    /\ byCnt \in UInt8 /\ byDataLen \in UInt8 /\ byFrameLen \in UInt8
    /\ GUIDCnt \in UInt8 /\ fld \in Fields /\ Date \in [DateIndex -> UInt8]
    /\ led \in LedRange
    /\ got \in Nat
    /\ taken \in [Place -> UInt8]
    /\ offset \in {0, 1}

\* When the tail is due, what process_poll() will be given is exactly the
\* frame that was on the bus, whenever its length leaves room for it.
FrameIntact ==
    eRxStatus = "TAIL" /\ taken[HeaderLen] > 0 /\ Fits(taken[HeaderLen])
    => /\ got = HeaderLen + taken[HeaderLen] + 1
       /\ GoodPrefix(taken, got)
       /\ DecodedAsTaken

\* While the announced length fits, all the handler has saved of a frame lies
\* inside a_byRxBuf, also when the frame starts behind the tail of another.
SavedInBounds ==
    got >= HeaderLen /\ Fits(taken[HeaderLen])
    => byFrameLen <= MAX_LEN_COMM_TRM_DATA

\* rx_exception is only taken on a byte that no frame of 1 to
\* MAX_LEN_COMM_TRM_DATA data bytes has at that place: a frame that starts in
\* STATUS_IDLE is never dropped, whatever was received before it.
GoodFrameKept ==
    [][\A b \in Bus(got) :
          RxUartData(b) /\ Reject => ~GoodPrefix([taken EXCEPT ![got + 1] = b], got + 1)]_vars

\* The published LED temperature only changes when the tail of a frame with
\* CON0 = 0x11 on the bus arrives, and then to the value of its first two data
\* bytes (frames that fit, of at least two data bytes).
LedFromReport ==
    [][led' # led /\ Fits(taken[HeaderLen]) /\ taken[HeaderLen] >= 2
       => /\ eRxStatus = "TAIL"
          /\ taken[8] = LED_REPORT
          /\ led' = BcdValue(taken[11], taken[12])]_vars

-----------------------------------------------------------------------------
(***************************************************************************)
(* A claim the source makes of every length that passes its test.          *)
(***************************************************************************)

\* "Valid data size": any length up to MAX_LEN_COMM_TRM_DATA is valid, so the
\* frame given to process_poll() is the one on the bus.  In the code, the save
\* of a long frame runs past a_byRxBuf into the decoded members.
ValidSizeDecoded ==
    eRxStatus = "TAIL" /\ taken[HeaderLen] > 0 => DecodedAsTaken

=============================================================================
