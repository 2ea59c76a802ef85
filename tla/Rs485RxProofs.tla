--------------------------- MODULE Rs485RxProofs ---------------------------
(***************************************************************************)
(* For every buffer size and every byte sequence on the bus: the receiver  *)
(* of Rs485Rx is type correct, never saves outside a_byRxBuf while the     *)
(* announced length fits, and gives process_poll() exactly the frame that  *)
(* was on the bus.                                                         *)
(***************************************************************************)
EXTENDS Rs485Rx, TLAPS

\* Data bytes taken for an announced length: one even when it is zero.
DataDue == IF byDataLen = 0 THEN 1 ELSE byDataLen

\* The status says how many bytes of the frame have been taken.
Position ==
    /\ eRxStatus = "IDLE"  => got = 0
    /\ eRxStatus = "HEAD"  => got = 1
    /\ eRxStatus = "FIXED" => got = 2
    /\ eRxStatus = "TYPE"  => got = 3
    /\ eRxStatus = "CMD0"  => got = 4
    /\ eRxStatus = "CMD1"  => GUIDCnt \in {0, 1} /\ got = 5 + GUIDCnt
    /\ eRxStatus = "GUID"  => got = 7
    /\ eRxStatus = "CON0"  => got = 8
    /\ eRxStatus = "CON1"  => got = 9
    /\ eRxStatus = "DATA"  => byCnt < DataDue /\ got = 10 + byCnt
    /\ eRxStatus = "CS"    => got = 10 + DataDue
    /\ eRxStatus = "TAIL"  => got = 11 + DataDue

\* The bytes taken so far start a frame with an accepted length.
Header ==
    /\ got >= 1 => taken[1] = COMM_TRM_HEAD
    /\ got >= 2 => taken[2] = COMM_TRM_FIXED
    /\ got >= 3 => taken[3] = 0
    /\ got >= 10 => taken[10] = byDataLen /\ byDataLen <= MAX_LEN_COMM_TRM_DATA

FrameLen == byFrameLen = got + offset

\* What has been decoded is what was taken.
HeaderDecoded ==
    /\ got >= 3 => fld.FG = taken[3]
    /\ got >= 4 => fld.CMD0 = taken[4]
    /\ got >= 5 => fld.CMD1 = taken[5]
    /\ got = 6  => fld.GUIDlo = taken[6]
    /\ got >= 7 => fld.GUIDhi = taken[6] /\ fld.GUIDlo = taken[7]
    /\ got >= 8 => fld.CON0 = taken[8]
    /\ got >= 9 => fld.CON1 = taken[9]

DataDecoded ==
    \A i \in DateIndex : got >= 11 + i /\ i < DataDue => Date[i] = taken[11 + i]

CsDecoded == eRxStatus = "TAIL" => fld.CS = taken[got]

\* The decoded members are only vouched for while everything saved lies
\* inside a_byRxBuf.
Decoded == byFrameLen <= MAX_LEN_COMM_TRM_DATA => HeaderDecoded /\ DataDecoded /\ CsDecoded

\* The inductive invariant.
IInv == TypeOK /\ FrameLen /\ Position /\ Header /\ Decoded

-----------------------------------------------------------------------------

\* The frame under way is at most MAX_LEN_COMM_TRM_DATA + 11 bytes long, so
\* byFrameLen does not wrap around.
LEMMA TakenShort ==
  ASSUME IInv
  PROVE  /\ got \in 0 .. 139
         /\ byFrameLen \in 0 .. 140
         /\ eRxStatus = "DATA" => byCnt \in DateIndex
<1>1. got \in Nat /\ offset \in {0, 1} /\ byDataLen \in Nat /\ byCnt \in Nat
      /\ eRxStatus \in Status
  BY DEF IInv, TypeOK, UInt8
<1>2. got >= 10 => DataDue <= 128
  BY <1>1, MaxLenAssumption DEF IInv, Header, DataDue
<1>3. DataDue \in Nat
  BY <1>1 DEF DataDue
<1>4. Position /\ FrameLen
  BY DEF IInv
<1>5. got <= 139
  <2>1. CASE eRxStatus \in {"DATA", "CS", "TAIL"}
    BY <1>1, <1>2, <1>3, <1>4, <2>1 DEF Position
  <2>2. CASE eRxStatus \notin {"DATA", "CS", "TAIL"}
    BY <1>1, <1>4, <2>2 DEF Position, Status
  <2>3. QED
    BY <2>1, <2>2
<1>6. eRxStatus = "DATA" => byCnt \in DateIndex
  BY <1>1, <1>2, <1>3, <1>4 DEF Position, DateIndex
<1>7. byFrameLen \in 0 .. 140
  BY <1>1, <1>4, <1>5 DEF FrameLen
<1>8. QED
  BY <1>1, <1>5, <1>6, <1>7

\* The byte saved past the end of a_byRxBuf is the only way another member
\* changes.
LEMMA SaveKeeps ==
  ASSUME byFrameLen \in 0 .. 140, NEW b \in UInt8, NEW f \in Fields,
         NEW g \in UInt8, NEW d \in [DateIndex -> UInt8], Save(b, f, g, d)
  PROVE  /\ byFrameLen' = byFrameLen + 1
         /\ fld' \in Fields /\ GUIDCnt' \in UInt8 /\ Date' \in [DateIndex -> UInt8]
         /\ byFrameLen < MAX_LEN_COMM_TRM_DATA => fld' = f /\ GUIDCnt' = g /\ Date' = d
<1>1. \A k : \A old \in UInt8 : Overrun(k, old, b) \in UInt8
  BY DEF Overrun
<1>2. fld' \in Fields /\ GUIDCnt' \in UInt8 /\ Date' \in [DateIndex -> UInt8]
  BY <1>1 DEF Save, Fields
<1>3. ASSUME byFrameLen < MAX_LEN_COMM_TRM_DATA
      PROVE  fld' = f /\ GUIDCnt' = g /\ Date' = d
  <2>1. \A k \in Nat : \A old : Overrun(k, old, b) = old
    BY <1>3, MaxLenAssumption DEF Overrun
  <2>2. \A i \in DateIndex : 10 + i \in Nat
    BY DEF DateIndex
  <2>3. GUIDCnt' = g /\ fld' = f
    BY <2>1 DEF Save, Fields
  <2>4. Date' = [i \in DateIndex |-> d[i]]
    BY <2>1, <2>2 DEF Save
  <2>5. QED
    BY <2>3, <2>4
<1>4. byFrameLen' = byFrameLen + 1
  BY DEF Save
<1>5. QED
  BY <1>2, <1>3, <1>4

\* rx_exception leaves an empty receiver.
LEMMA RejectInv == IInv /\ Reject => IInv'
<1> SUFFICES ASSUME IInv, Reject PROVE IInv'
  OBVIOUS
<1>1. TypeOK'
  BY DEF Reject, IInv, TypeOK, Status, UInt8, Fields, NoFields, NoDate, NoBytes
<1>2. FrameLen' /\ Position' /\ Header' /\ Decoded'
  BY DEF Reject, FrameLen, Position, Header, Decoded, HeaderDecoded, DataDecoded,
         CsDecoded, DateIndex
<1>3. QED
  BY <1>1, <1>2 DEF IInv

\* What every accepted byte does: types, the place of the byte in the history,
\* and the members as the switch left them while the save is in bounds.
LEMMA AcceptEffect ==
  ASSUME IInv, NEW b \in UInt8, NEW st \in Status, NEW f \in Fields, NEW g \in UInt8,
         NEW d \in [DateIndex -> UInt8], Accept(b, st, f, g, d),
         byCnt' \in UInt8, byDataLen' \in UInt8
  PROVE  /\ TypeOK'
         /\ FrameLen'
         /\ got \in 0 .. 139 /\ got' = got + 1 /\ eRxStatus' = st
         /\ \A i \in 1 .. got : taken'[i] = taken[i]
         /\ taken'[got + 1] = b
         /\ byFrameLen' = byFrameLen + 1
         /\ byFrameLen \in 0 .. 140
         /\ byFrameLen < MAX_LEN_COMM_TRM_DATA => fld' = f /\ GUIDCnt' = g /\ Date' = d
         /\ got < 10 => byFrameLen < MAX_LEN_COMM_TRM_DATA
<1>1. got \in 0 .. 139 /\ byFrameLen \in 0 .. 140
  BY TakenShort
<1>2. /\ byFrameLen' = byFrameLen + 1
      /\ fld' \in Fields /\ GUIDCnt' \in UInt8 /\ Date' \in [DateIndex -> UInt8]
      /\ byFrameLen < MAX_LEN_COMM_TRM_DATA => fld' = f /\ GUIDCnt' = g /\ Date' = d
  BY <1>1, SaveKeeps DEF Accept
<1>3. taken \in [Place -> UInt8] /\ got + 1 \in Place /\ 1 .. got \subseteq Place
  BY <1>1 DEF IInv, TypeOK, Place, HeaderLen
<1>4. /\ taken' \in [Place -> UInt8]
      /\ \A i \in 1 .. got : taken'[i] = taken[i]
      /\ taken'[got + 1] = b
  BY <1>1, <1>3 DEF Accept
<1>5. got' = got + 1 /\ eRxStatus' = st /\ offset' = offset /\ led' = led
  BY DEF Accept
<1>6. byFrameLen' \in UInt8
  BY <1>1, <1>2 DEF UInt8
<1>7. TypeOK'
  BY <1>1, <1>2, <1>4, <1>5, <1>6 DEF IInv, TypeOK
<1>8. FrameLen' /\ (got < 10 => byFrameLen < MAX_LEN_COMM_TRM_DATA)
  BY <1>1, <1>2, <1>5, MaxLenAssumption DEF IInv, TypeOK, FrameLen
<1>9. QED
  BY <1>1, <1>2, <1>4, <1>5, <1>7, <1>8

\* A byte of the header: the save is in bounds, so the members are the ones
\* the switch assigned, and the bytes taken before stay decoded.
LEMMA HeaderEffect ==
  ASSUME IInv, NEW b \in UInt8, NEW st \in Status, NEW f \in Fields, NEW g \in UInt8,
         got < 9, AcceptHeader(b, st, f, g)
  PROVE  /\ TypeOK' /\ FrameLen'
         /\ got \in Nat /\ got' = got + 1 /\ eRxStatus' = st
         /\ \A i \in 1 .. got : taken'[i] = taken[i]
         /\ taken'[got + 1] = b
         /\ fld' = f /\ GUIDCnt' = g
         /\ Header /\ HeaderDecoded
<1>1. Date \in [DateIndex -> UInt8] /\ byCnt' \in UInt8 /\ byDataLen' \in UInt8
  BY DEF IInv, TypeOK, AcceptHeader
<1>2. Accept(b, st, f, g, Date)
  BY DEF AcceptHeader
<1>3. /\ TypeOK' /\ FrameLen'
      /\ got \in 0 .. 139 /\ got' = got + 1 /\ eRxStatus' = st
      /\ \A i \in 1 .. got : taken'[i] = taken[i]
      /\ taken'[got + 1] = b
      /\ byFrameLen < MAX_LEN_COMM_TRM_DATA => fld' = f /\ GUIDCnt' = g /\ Date' = Date
      /\ got < 10 => byFrameLen < MAX_LEN_COMM_TRM_DATA
      /\ byFrameLen \in 0 .. 140
  BY <1>1, <1>2, AcceptEffect
<1>4. byFrameLen < MAX_LEN_COMM_TRM_DATA
  BY <1>3
<1>5. Header /\ HeaderDecoded
  BY <1>3, <1>4, MaxLenAssumption DEF IInv, Decoded
<1>6. QED
  BY <1>3, <1>4, <1>5

\* The parts of the invariant about data and check sum are vacuous in the
\* header.
LEMMA HeaderOnly ==
  ASSUME got' \in 0 .. 9, eRxStatus' \notin {"TAIL"}
  PROVE  DataDecoded' /\ CsDecoded'
  BY DEF DataDecoded, CsDecoded, DateIndex

\* STATUS_IDLE: the head byte, or an exception.
LEMMA IdleInv == \A b \in UInt8 : IInv /\ RxIdle(b) => IInv'
<1> SUFFICES ASSUME NEW b \in UInt8, IInv, RxIdle(b) PROVE IInv'
  OBVIOUS
<1>1. CASE Reject
  BY <1>1, RejectInv
<1>2. CASE b = COMM_TRM_HEAD /\ AcceptHeader(b, "HEAD", fld, GUIDCnt)
  <2>1. got = 0
    BY DEF IInv, Position, RxIdle
  <2>2. "HEAD" \in Status /\ fld \in Fields /\ GUIDCnt \in UInt8
    BY DEF IInv, TypeOK, Status, Fields, UInt8
  <2>3. AcceptHeader(b, "HEAD", fld, GUIDCnt)
    BY <1>2
  <2>4. /\ TypeOK' /\ FrameLen' /\ got' = 1 /\ eRxStatus' = "HEAD"
       /\ taken'[1] = b /\ fld' = fld /\ GUIDCnt' = GUIDCnt
       /\ Header /\ HeaderDecoded
    BY <2>1, <2>2, <2>3, HeaderEffect
  <2>5. Position'
    BY <2>4 DEF Position
  <2>6. Header'
    BY <1>2, <2>1, <2>4 DEF Header
  <2>8. HeaderDecoded'
    BY <2>4 DEF HeaderDecoded
  <2>9. QED
    BY <2>4, <2>5, <2>6, <2>8, HeaderOnly DEF IInv, Decoded
<1>3. QED
  BY <1>1, <1>2 DEF RxIdle

\* STATUS_HEAD: the fixed byte, or an exception.
LEMMA HeadInv == \A b \in UInt8 : IInv /\ RxHead(b) => IInv'
<1> SUFFICES ASSUME NEW b \in UInt8, IInv, RxHead(b) PROVE IInv'
  OBVIOUS
<1>1. CASE Reject
  BY <1>1, RejectInv
<1>2. CASE b = COMM_TRM_FIXED /\ AcceptHeader(b, "FIXED", fld, GUIDCnt)
  <2>1. got = 1
    BY DEF IInv, Position, RxHead
  <2>2. "FIXED" \in Status /\ fld \in Fields /\ GUIDCnt \in UInt8
    BY DEF IInv, TypeOK, Status, Fields, UInt8
  <2>3. AcceptHeader(b, "FIXED", fld, GUIDCnt)
    BY <1>2
  <2>4. /\ TypeOK' /\ FrameLen' /\ got' = 2 /\ eRxStatus' = "FIXED"
       /\ \A i \in 1 .. 1 : taken'[i] = taken[i]
       /\ taken'[2] = b /\ fld' = fld /\ GUIDCnt' = GUIDCnt
       /\ Header /\ HeaderDecoded
    BY <2>1, <2>2, <2>3, HeaderEffect
  <2>5. Position'
    BY <2>4 DEF Position
  <2>6. Header'
    BY <1>2, <2>1, <2>4 DEF Header
  <2>8. HeaderDecoded'
    BY <2>4 DEF HeaderDecoded
  <2>9. QED
    BY <2>4, <2>5, <2>6, <2>8, HeaderOnly DEF IInv, Decoded
<1>3. QED
  BY <1>1, <1>2 DEF RxHead

\* STATUS_FIXED: the frame type FG, which must be 0.
LEMMA FixedInv == \A b \in UInt8 : IInv /\ RxFixed(b) => IInv'
<1> SUFFICES ASSUME NEW b \in UInt8, IInv, RxFixed(b) PROVE IInv'
  OBVIOUS
<1>1. CASE Reject
  BY <1>1, RejectInv
<1>2. CASE b = 0 /\ AcceptHeader(b, "TYPE", [fld EXCEPT !.FG = b], GUIDCnt)
  <2>1. got = 2
    BY DEF IInv, Position, RxFixed
  <2>2. "TYPE" \in Status /\ [fld EXCEPT !.FG = b] \in Fields /\ GUIDCnt \in UInt8
    BY DEF IInv, TypeOK, Status, Fields, UInt8
  <2>3. AcceptHeader(b, "TYPE", [fld EXCEPT !.FG = b], GUIDCnt)
    BY <1>2
  <2>4. /\ TypeOK' /\ FrameLen' /\ got' = 3 /\ eRxStatus' = "TYPE"
       /\ \A i \in 1 .. 2 : taken'[i] = taken[i]
       /\ taken'[3] = b /\ fld' = [fld EXCEPT !.FG = b] /\ GUIDCnt' = GUIDCnt
       /\ Header /\ HeaderDecoded
    BY <2>1, <2>2, <2>3, HeaderEffect
  <2>5. Position'
    BY <2>4 DEF Position
  <2>6. Header'
    BY <1>2, <2>1, <2>4 DEF Header
  <2>7. /\ fld'.FG = b
    BY <2>2, <2>4 DEF IInv, TypeOK, Fields
  <2>8. HeaderDecoded'
    BY <2>1, <2>4, <2>7 DEF HeaderDecoded
  <2>9. QED
    BY <2>4, <2>5, <2>6, <2>8, HeaderOnly DEF IInv, Decoded
<1>3. QED
  BY <1>1, <1>2 DEF RxFixed

\* STATUS_TYPE: CMD0.
LEMMA TypeInv == \A b \in UInt8 : IInv /\ RxType(b) => IInv'
<1> SUFFICES ASSUME NEW b \in UInt8, IInv, RxType(b) PROVE IInv'
  OBVIOUS
<1>1. got = 3
  BY DEF IInv, Position, RxType
<1>2. "CMD0" \in Status /\ [fld EXCEPT !.CMD0 = b] \in Fields /\ GUIDCnt \in UInt8
  BY DEF IInv, TypeOK, Status, Fields, UInt8
<1>3. AcceptHeader(b, "CMD0", [fld EXCEPT !.CMD0 = b], GUIDCnt)
  BY DEF RxType
<1>4. /\ TypeOK' /\ FrameLen' /\ got' = 4 /\ eRxStatus' = "CMD0"
     /\ \A i \in 1 .. 3 : taken'[i] = taken[i]
     /\ taken'[4] = b /\ fld' = [fld EXCEPT !.CMD0 = b] /\ GUIDCnt' = GUIDCnt
     /\ Header /\ HeaderDecoded
  BY <1>1, <1>2, <1>3, HeaderEffect
<1>5. Position'
  BY <1>4 DEF Position
<1>6. Header'
  BY <1>1, <1>4 DEF Header
<1>7. /\ fld'.CMD0 = b
     /\ fld'.FG = fld.FG
  BY <1>2, <1>4 DEF IInv, TypeOK, Fields
<1>8. HeaderDecoded'
  BY <1>1, <1>4, <1>7 DEF HeaderDecoded
<1>9. QED
  BY <1>4, <1>5, <1>6, <1>8, HeaderOnly DEF IInv, Decoded

\* STATUS_CMD0: CMD1; the GUID count starts again.
LEMMA Cmd0Inv == \A b \in UInt8 : IInv /\ RxCmd0(b) => IInv'
<1> SUFFICES ASSUME NEW b \in UInt8, IInv, RxCmd0(b) PROVE IInv'
  OBVIOUS
<1>1. got = 4
  BY DEF IInv, Position, RxCmd0
<1>2. "CMD1" \in Status /\ [fld EXCEPT !.CMD1 = b] \in Fields /\ 0 \in UInt8
  BY DEF IInv, TypeOK, Status, Fields, UInt8
<1>3. AcceptHeader(b, "CMD1", [fld EXCEPT !.CMD1 = b], 0)
  BY DEF RxCmd0
<1>4. /\ TypeOK' /\ FrameLen' /\ got' = 5 /\ eRxStatus' = "CMD1"
     /\ \A i \in 1 .. 4 : taken'[i] = taken[i]
     /\ taken'[5] = b /\ fld' = [fld EXCEPT !.CMD1 = b] /\ GUIDCnt' = 0
     /\ Header /\ HeaderDecoded
  BY <1>1, <1>2, <1>3, HeaderEffect
<1>5. Position'
  BY <1>4 DEF Position
<1>6. Header'
  BY <1>1, <1>4 DEF Header
<1>7. /\ fld'.CMD1 = b
     /\ fld'.FG = fld.FG /\ fld'.CMD0 = fld.CMD0
  BY <1>2, <1>4 DEF IInv, TypeOK, Fields
<1>8. HeaderDecoded'
  BY <1>1, <1>4, <1>7 DEF HeaderDecoded
<1>9. QED
  BY <1>4, <1>5, <1>6, <1>8, HeaderOnly DEF IInv, Decoded

\* STATUS_GUID: CON0.
LEMMA GuidInv == \A b \in UInt8 : IInv /\ RxGuid(b) => IInv'
<1> SUFFICES ASSUME NEW b \in UInt8, IInv, RxGuid(b) PROVE IInv'
  OBVIOUS
<1>1. got = 7
  BY DEF IInv, Position, RxGuid
<1>2. "CON0" \in Status /\ [fld EXCEPT !.CON0 = b] \in Fields /\ GUIDCnt \in UInt8
  BY DEF IInv, TypeOK, Status, Fields, UInt8
<1>3. AcceptHeader(b, "CON0", [fld EXCEPT !.CON0 = b], GUIDCnt)
  BY DEF RxGuid
<1>4. /\ TypeOK' /\ FrameLen' /\ got' = 8 /\ eRxStatus' = "CON0"
     /\ \A i \in 1 .. 7 : taken'[i] = taken[i]
     /\ taken'[8] = b /\ fld' = [fld EXCEPT !.CON0 = b] /\ GUIDCnt' = GUIDCnt
     /\ Header /\ HeaderDecoded
  BY <1>1, <1>2, <1>3, HeaderEffect
<1>5. Position'
  BY <1>4 DEF Position
<1>6. Header'
  BY <1>1, <1>4 DEF Header
<1>7. /\ fld'.CON0 = b
     /\ fld'.FG = fld.FG /\ fld'.CMD0 = fld.CMD0 /\ fld'.CMD1 = fld.CMD1
     /\ fld'.GUIDhi = fld.GUIDhi /\ fld'.GUIDlo = fld.GUIDlo
  <2>1. fld \in Fields
    BY DEF IInv, TypeOK
  <2>2. fld' = [fld EXCEPT !.CON0 = b]
    BY <1>4
  <2>3. QED
    BY <2>1, <2>2 DEF Fields
<1>8. HeaderDecoded'
  BY <1>1, <1>4, <1>7 DEF HeaderDecoded
<1>9. QED
  BY <1>4, <1>5, <1>6, <1>8, HeaderOnly DEF IInv, Decoded

\* STATUS_CON0: CON1.
LEMMA Con0Inv == \A b \in UInt8 : IInv /\ RxCon0(b) => IInv'
<1> SUFFICES ASSUME NEW b \in UInt8, IInv, RxCon0(b) PROVE IInv'
  OBVIOUS
<1>1. got = 8
  BY DEF IInv, Position, RxCon0
<1>2. "CON1" \in Status /\ [fld EXCEPT !.CON1 = b] \in Fields /\ GUIDCnt \in UInt8
  BY DEF IInv, TypeOK, Status, Fields, UInt8
<1>3. AcceptHeader(b, "CON1", [fld EXCEPT !.CON1 = b], GUIDCnt)
  BY DEF RxCon0
<1>4. /\ TypeOK' /\ FrameLen' /\ got' = 9 /\ eRxStatus' = "CON1"
     /\ \A i \in 1 .. 8 : taken'[i] = taken[i]
     /\ taken'[9] = b /\ fld' = [fld EXCEPT !.CON1 = b] /\ GUIDCnt' = GUIDCnt
     /\ Header /\ HeaderDecoded
  BY <1>1, <1>2, <1>3, HeaderEffect
<1>5. Position'
  BY <1>4 DEF Position
<1>6. Header'
  BY <1>1, <1>4 DEF Header
<1>7. /\ fld'.CON1 = b
     /\ fld'.FG = fld.FG /\ fld'.CMD0 = fld.CMD0 /\ fld'.CMD1 = fld.CMD1
     /\ fld'.GUIDhi = fld.GUIDhi /\ fld'.GUIDlo = fld.GUIDlo /\ fld'.CON0 = fld.CON0
  <2>1. fld \in Fields
    BY DEF IInv, TypeOK
  <2>2. fld' = [fld EXCEPT !.CON1 = b]
    BY <1>4
  <2>3. QED
    BY <2>1, <2>2 DEF Fields
<1>8. HeaderDecoded'
  BY <1>1, <1>4, <1>7 DEF HeaderDecoded
<1>9. QED
  BY <1>4, <1>5, <1>6, <1>8, HeaderOnly DEF IInv, Decoded

\* The two GUID bytes, high one first.
LEMMA Cmd1Inv == \A b \in UInt8 : IInv /\ RxCmd1(b) => IInv'
<1> SUFFICES ASSUME NEW b \in UInt8, IInv, RxCmd1(b) PROVE IInv'
  OBVIOUS
<1>1. GUIDCnt \in {0, 1} /\ got = 5 + GUIDCnt /\ fld \in Fields
  BY DEF IInv, TypeOK, Position, RxCmd1
<1>2. CASE GUIDCnt = 0
  <2> DEFINE f == [fld EXCEPT !.GUIDhi = 0, !.GUIDlo = b]
  <2>1. f \in Fields /\ f.GUIDlo = b /\ f.FG = fld.FG /\ f.CMD0 = fld.CMD0 /\ f.CMD1 = fld.CMD1
    <3>1. 0 \in UInt8 /\ fld \in Fields
      BY <1>1 DEF UInt8
    <3>2. QED
      BY <3>1 DEF Fields
  <2>2. "CMD1" \in Status /\ 1 \in UInt8 /\ AcceptHeader(b, "CMD1", f, 1)
    BY <1>2 DEF Status, UInt8, RxCmd1
  <2>3. got = 5
    BY <1>1, <1>2
  <2> HIDE DEF f
  <2>4. /\ TypeOK' /\ FrameLen' /\ got' = 6 /\ eRxStatus' = "CMD1"
        /\ \A i \in 1 .. 5 : taken'[i] = taken[i]
        /\ taken'[6] = b /\ fld' = f /\ GUIDCnt' = 1
        /\ Header /\ HeaderDecoded
    BY <2>1, <2>2, <2>3, HeaderEffect
  <2>5. Position'
    BY <2>4 DEF Position
  <2>6. Header'
    BY <2>3, <2>4 DEF Header
  <2>7. HeaderDecoded'
    BY <2>1, <2>3, <2>4 DEF HeaderDecoded
  <2>8. QED
    BY <2>4, <2>5, <2>6, <2>7, HeaderOnly DEF IInv, Decoded
<1>3. CASE GUIDCnt = 1
  <2> DEFINE f == [fld EXCEPT !.GUIDhi = fld.GUIDlo, !.GUIDlo = b]
  <2>1. f \in Fields /\ f.GUIDhi = fld.GUIDlo /\ f.GUIDlo = b
        /\ f.FG = fld.FG /\ f.CMD0 = fld.CMD0 /\ f.CMD1 = fld.CMD1
    BY <1>1 DEF Fields, UInt8
  <2>2. "GUID" \in Status /\ GUIDCnt \in UInt8 /\ AcceptHeader(b, "GUID", f, GUIDCnt)
    BY <1>3 DEF Status, UInt8, RxCmd1
  <2>3. got = 6
    BY <1>1, <1>3
  <2> HIDE DEF f
  <2>4. /\ TypeOK' /\ FrameLen' /\ got' = 7 /\ eRxStatus' = "GUID"
        /\ \A i \in 1 .. 6 : taken'[i] = taken[i]
        /\ taken'[7] = b /\ fld' = f
        /\ Header /\ HeaderDecoded
    BY <2>1, <2>2, <2>3, HeaderEffect
  <2>5. Position'
    BY <2>4 DEF Position
  <2>6. Header'
    BY <2>3, <2>4 DEF Header
  <2>7. HeaderDecoded'
    BY <2>1, <2>3, <2>4 DEF HeaderDecoded
  <2>8. QED
    BY <2>4, <2>5, <2>6, <2>7, HeaderOnly DEF IInv, Decoded
<1>4. QED
  BY <1>1, <1>2, <1>3

\* Past the length byte the header part of the invariant carries over.
LEMMA BodyEffect ==
  ASSUME IInv, got >= 10, got' = got + 1, byDataLen' = byDataLen,
         \A i \in 1 .. got : taken'[i] = taken[i]
  PROVE  /\ Header'
         /\ HeaderDecoded /\ fld'.FG = fld.FG /\ fld'.CMD0 = fld.CMD0
            /\ fld'.CMD1 = fld.CMD1 /\ fld'.GUIDhi = fld.GUIDhi
            /\ fld'.GUIDlo = fld.GUIDlo /\ fld'.CON0 = fld.CON0 /\ fld'.CON1 = fld.CON1
            => HeaderDecoded'
<1>1. got \in Nat
  BY DEF IInv, TypeOK
<1>2. /\ taken'[1] = taken[1] /\ taken'[2] = taken[2] /\ taken'[3] = taken[3]
      /\ taken'[4] = taken[4] /\ taken'[5] = taken[5] /\ taken'[6] = taken[6]
      /\ taken'[7] = taken[7] /\ taken'[8] = taken[8] /\ taken'[9] = taken[9]
      /\ taken'[10] = taken[10]
  BY <1>1
<1>3. Header'
  BY <1>1, <1>2 DEF IInv, Header
<1>4. QED
  BY <1>1, <1>2, <1>3 DEF HeaderDecoded

\* The length byte.
LEMMA Con1Inv == \A b \in UInt8 : IInv /\ RxCon1(b) => IInv'
<1> SUFFICES ASSUME NEW b \in UInt8, IInv, RxCon1(b) PROVE IInv'
  OBVIOUS
<1>1. CASE Reject
  BY <1>1, RejectInv
<1>2. CASE /\ b <= MAX_LEN_COMM_TRM_DATA /\ byDataLen' = b /\ byCnt' = 0
           /\ Accept(b, "DATA", fld, GUIDCnt, Date)
  <2>1. got = 9
    BY DEF IInv, Position, RxCon1
  <2>2. "DATA" \in Status /\ fld \in Fields /\ GUIDCnt \in UInt8 /\ Date \in [DateIndex -> UInt8]
        /\ byCnt' \in UInt8 /\ byDataLen' \in UInt8
    BY <1>2 DEF IInv, TypeOK, Status, UInt8
  <2>3. /\ TypeOK' /\ FrameLen' /\ got' = 10 /\ eRxStatus' = "DATA"
        /\ \A i \in 1 .. 9 : taken'[i] = taken[i]
        /\ taken'[10] = b /\ fld' = fld
        /\ byFrameLen \in 0 .. 140 /\ byFrameLen < MAX_LEN_COMM_TRM_DATA
    BY <1>2, <2>1, <2>2, AcceptEffect
  <2>4. Header /\ HeaderDecoded
    BY <2>3, MaxLenAssumption DEF IInv, Decoded
  <2>5. Position'
    BY <1>2, <2>3 DEF Position, DataDue, UInt8
  <2>6. Header'
    BY <1>2, <2>1, <2>3, <2>4 DEF Header
  <2>7. HeaderDecoded'
    BY <2>1, <2>3, <2>4 DEF HeaderDecoded
  <2>8. DataDecoded' /\ CsDecoded'
    BY <2>3 DEF DataDecoded, CsDecoded, DateIndex
  <2>9. QED
    BY <2>3, <2>5, <2>6, <2>7, <2>8 DEF IInv, Decoded
<1>3. QED
  BY <1>1, <1>2 DEF RxCon1

\* A data byte, the last one or not.
LEMMA DataInv == \A b \in UInt8 : IInv /\ RxData(b) => IInv'
<1> SUFFICES ASSUME NEW b \in UInt8, IInv, RxData(b) PROVE IInv'
  OBVIOUS
<1> DEFINE st == IF byCnt' < byDataLen THEN "DATA" ELSE "CS"
           d  == [Date EXCEPT ![byCnt] = b]
<1>1. byCnt \in DateIndex /\ byCnt < DataDue /\ got = 10 + byCnt /\ byDataLen \in UInt8
  BY TakenShort DEF IInv, TypeOK, Position, RxData
<1>2. byCnt' = byCnt + 1 /\ byDataLen' = byDataLen /\ Accept(b, st, fld, GUIDCnt, d)
  BY <1>1 DEF RxData, DateIndex
<1>3. /\ st \in Status /\ fld \in Fields /\ GUIDCnt \in UInt8
      /\ byCnt' \in UInt8 /\ byDataLen' \in UInt8
  <2>1. byCnt' \in UInt8 /\ byDataLen' \in UInt8
    BY <1>1, <1>2 DEF UInt8, DateIndex
  <2>2. st \in Status
    BY DEF Status
  <2>3. fld \in Fields /\ GUIDCnt \in UInt8
    BY DEF IInv, TypeOK
  <2>4. QED
    BY <2>1, <2>2, <2>3
<1>4. /\ d \in [DateIndex -> UInt8] /\ d[byCnt] = b
      /\ \A i \in DateIndex : i # byCnt => d[i] = Date[i]
  BY <1>1 DEF IInv, TypeOK
<1> HIDE DEF d
<1>5. /\ TypeOK' /\ FrameLen' /\ got' = got + 1 /\ eRxStatus' = st
      /\ \A i \in 1 .. got : taken'[i] = taken[i]
      /\ taken'[got + 1] = b
      /\ byFrameLen \in 0 .. 140 /\ byFrameLen' = byFrameLen + 1
      /\ byFrameLen < MAX_LEN_COMM_TRM_DATA => fld' = fld /\ Date' = d
  BY <1>2, <1>3, <1>4, AcceptEffect
<1>6. Position'
  BY <1>1, <1>2, <1>5 DEF Position, DataDue, UInt8, DateIndex
<1>7. got \in Nat /\ got >= 10
  BY <1>1 DEF DateIndex
<1>8. Header'
  BY <1>2, <1>5, <1>7, BodyEffect
<1>9. ASSUME byFrameLen' <= MAX_LEN_COMM_TRM_DATA
      PROVE  HeaderDecoded' /\ DataDecoded' /\ CsDecoded'
  <2>1. byFrameLen <= MAX_LEN_COMM_TRM_DATA /\ fld' = fld /\ Date' = d
    BY <1>5, <1>9, MaxLenAssumption
  <2>2. HeaderDecoded /\ DataDecoded
    BY <2>1 DEF IInv, Decoded
  <2>3. HeaderDecoded'
    BY <1>2, <1>5, <1>7, <2>1, <2>2, BodyEffect
  <2>4. DataDecoded'
    <3> SUFFICES ASSUME NEW i \in DateIndex, got' >= 11 + i, i < DataDue'
                 PROVE  Date'[i] = taken'[11 + i]
      BY DEF DataDecoded
    <3>1. DataDue' = DataDue
      BY <1>2 DEF DataDue
    <3>2. CASE i = byCnt
      BY <1>1, <1>4, <1>5, <2>1, <3>2 DEF DateIndex
    <3>3. CASE i # byCnt
      <4>1. got >= 11 + i /\ 11 + i \in 1 .. got
        BY <1>1, <1>5, <3>3 DEF DateIndex
      <4>2. Date[i] = taken[11 + i]
        BY <2>2, <3>1, <4>1 DEF DataDecoded
      <4>3. QED
        BY <1>4, <1>5, <2>1, <3>3, <4>1, <4>2
    <3>4. QED
      BY <3>2, <3>3
  <2>5. CsDecoded'
    BY <1>5 DEF CsDecoded
  <2>6. QED
    BY <2>3, <2>4, <2>5
<1>10. QED
  BY <1>5, <1>6, <1>8, <1>9 DEF IInv, Decoded

\* The check sum byte, whatever it is.
LEMMA CsInv == \A b \in UInt8 : IInv /\ RxCs(b) => IInv'
<1> SUFFICES ASSUME NEW b \in UInt8, IInv, RxCs(b) PROVE IInv'
  OBVIOUS
<1> DEFINE f == [fld EXCEPT !.CS = b]
<1>1. got = 10 + DataDue /\ byDataLen \in Nat
  BY DEF IInv, TypeOK, Position, RxCs, UInt8
<1>2. /\ f \in Fields /\ f.CS = b /\ f.FG = fld.FG /\ f.CMD0 = fld.CMD0
      /\ f.CMD1 = fld.CMD1 /\ f.GUIDhi = fld.GUIDhi /\ f.GUIDlo = fld.GUIDlo
      /\ f.CON0 = fld.CON0 /\ f.CON1 = fld.CON1
  <2>1. fld \in Fields
    BY DEF IInv, TypeOK
  <2>2. QED
    BY <2>1 DEF Fields
<1>3. /\ Accept(b, "TAIL", f, GUIDCnt, Date) /\ byCnt' = byCnt /\ byDataLen' = byDataLen
      /\ "TAIL" \in Status /\ GUIDCnt \in UInt8 /\ Date \in [DateIndex -> UInt8]
      /\ byCnt' \in UInt8 /\ byDataLen' \in UInt8
  BY DEF RxCs, AcceptHeader, Status, IInv, TypeOK
<1> HIDE DEF f
<1>4. /\ TypeOK' /\ FrameLen' /\ got' = got + 1 /\ eRxStatus' = "TAIL"
      /\ \A i \in 1 .. got : taken'[i] = taken[i]
      /\ taken'[got + 1] = b
      /\ byFrameLen \in 0 .. 140 /\ byFrameLen' = byFrameLen + 1
      /\ byFrameLen < MAX_LEN_COMM_TRM_DATA => fld' = f /\ Date' = Date
  BY <1>2, <1>3, AcceptEffect
<1>5. DataDue' = DataDue /\ DataDue \in Nat \ {0} /\ got \in Nat /\ got >= 10
  BY <1>1, <1>3 DEF DataDue
<1>6. Position'
  BY <1>1, <1>4, <1>5 DEF Position
<1>7. Header'
  BY <1>3, <1>4, <1>5, BodyEffect
<1>8. ASSUME byFrameLen' <= MAX_LEN_COMM_TRM_DATA
      PROVE  HeaderDecoded' /\ DataDecoded' /\ CsDecoded'
  <2>1. byFrameLen <= MAX_LEN_COMM_TRM_DATA /\ fld' = f /\ Date' = Date
    BY <1>4, <1>8, MaxLenAssumption
  <2>2. HeaderDecoded /\ DataDecoded
    BY <2>1 DEF IInv, Decoded
  <2>3. HeaderDecoded'
    BY <1>2, <1>3, <1>4, <1>5, <2>1, <2>2, BodyEffect
  <2>4. DataDecoded'
    <3> SUFFICES ASSUME NEW i \in DateIndex, got' >= 11 + i, i < DataDue'
                 PROVE  Date'[i] = taken'[11 + i]
      BY DEF DataDecoded
    <3>1. got >= 11 + i /\ 11 + i \in 1 .. got /\ i < DataDue
      BY <1>1, <1>5 DEF DateIndex
    <3>2. QED
      BY <1>4, <2>1, <2>2, <3>1 DEF DataDecoded
  <2>5. CsDecoded'
    BY <1>2, <1>4, <2>1 DEF CsDecoded
  <2>6. QED
    BY <2>3, <2>4, <2>5
<1>9. QED
  BY <1>4, <1>6, <1>7, <1>8 DEF IInv, Decoded

\* Two bytes read as four decimal digits, each at most 15.
LEMMA BcdRange ==
  ASSUME NEW hi \in UInt8, NEW lo \in UInt8
  PROVE  BcdValue(hi, lo) \in LedRange
<1> DEFINE p == hi \div 16
           q == hi % 16
           r == lo \div 16
           s == lo % 16
<1>1. p \in 0 .. 15 /\ q \in 0 .. 15 /\ r \in 0 .. 15 /\ s \in 0 .. 15
  <2>1. \A x \in 0 .. 255 : x \div 16 \in 0 .. 15
    OBVIOUS
  <2>2. \A x \in 0 .. 255 : x % 16 \in 0 .. 15
    OBVIOUS
  <2>3. QED
    BY <2>1, <2>2 DEF UInt8
<1>2. BcdValue(hi, lo) = p * 1000 + q * 100 + r * 10 + s
  BY Zenon DEF BcdValue
<1> HIDE DEF p, q, r, s
<1>3. p * 1000 + q * 100 + r * 10 + s \in Nat
      /\ p * 1000 + q * 100 + r * 10 + s <= 16665
  <2>1. \A w, x, y, z \in Nat :
          w <= 15 /\ x <= 15 /\ y <= 15 /\ z <= 15 =>
            /\ w * 1000 + x * 100 + y * 10 + z \in Nat
            /\ w * 1000 + x * 100 + y * 10 + z <= 16665
    OBVIOUS
  <2>2. p \in Nat /\ p <= 15 /\ q \in Nat /\ q <= 15 /\ r \in Nat /\ r <= 15 /\ s \in Nat /\ s <= 15
    BY <1>1
  <2>3. QED
    BY <2>1, <2>2
<1> DEFINE n == p * 1000 + q * 100 + r * 10 + s
           m == 16665
<1>4. n \in Nat /\ m \in Nat /\ n <= m
  BY <1>3
<1>5. LedRange = 0 .. m
  BY DEF LedRange
<1>6. BcdValue(hi, lo) = n
  BY <1>2
<1> HIDE DEF n, m
<1>7. n \in 0 .. m
  BY <1>4
<1>8. QED
  BY <1>5, <1>6, <1>7

\* The tail: the frame is delivered, or dropped.
LEMMA TailInv == \A b \in UInt8 : IInv /\ RxTail(b) => IInv'
<1> SUFFICES ASSUME NEW b \in UInt8, IInv, RxTail(b) PROVE IInv'
  OBVIOUS
<1>1. CASE Reject
  BY <1>1, RejectInv
<1>2. CASE b = COMM_TRM_TAIL /\ ~Reject
  <2>1. Date[0] \in UInt8 /\ Date[1] \in UInt8 /\ led \in LedRange
    BY DEF IInv, TypeOK, DateIndex
  <2>2. led' \in LedRange
    <3>1. ProcessPoll
      BY <1>2 DEF RxTail
    <3>2. BcdValue(Date[0], Date[1]) \in LedRange
      BY <2>1, BcdRange
    <3>3. led' = BcdValue(Date[0], Date[1]) \/ led' = led
      BY <3>1 DEF ProcessPoll
    <3>4. QED
      BY <2>1, <3>2, <3>3
  <2>3. TypeOK'
    BY <1>2, <2>2 DEF RxTail, TypeOK, Status, UInt8, Fields, NoFields, NoDate, NoBytes
  <2>4. FrameLen' /\ Position' /\ Header' /\ Decoded'
    BY <1>2 DEF RxTail, FrameLen, Position, Header, Decoded, HeaderDecoded, DataDecoded,
                CsDecoded, DateIndex
  <2>5. QED
    BY <2>3, <2>4 DEF IInv
<1>3. QED
  BY <1>1, <1>2 DEF RxTail

\* The static object starts zeroed.
LEMMA InitInv == Init => IInv
<1> SUFFICES ASSUME Init PROVE IInv
  OBVIOUS
<1>1. TypeOK
  BY DEF Init, TypeOK, LedRange, Status, UInt8, Fields, NoFields, NoDate, NoBytes
<1>2. FrameLen /\ Position /\ Header /\ Decoded
  BY DEF Init, FrameLen, Position, Header, Decoded, HeaderDecoded, DataDecoded,
         CsDecoded, DateIndex
<1>3. QED
  BY <1>1, <1>2 DEF IInv

\* Every byte the bus may carry preserves the invariant.
LEMMA NextInv == IInv /\ [Next]_vars => IInv'
<1> SUFFICES ASSUME IInv, [Next]_vars PROVE IInv'
  OBVIOUS
<1>1. CASE Next
  <2>1. PICK b \in Bus(got) : RxUartData(b)
    BY <1>1 DEF Next
  <2>2. b \in UInt8
    BY <2>1, TakenShort, BusAssumption
  <2>3. QED
    BY <2>1, <2>2, IdleInv, HeadInv, FixedInv, TypeInv, Cmd0Inv, Cmd1Inv, GuidInv,
       Con0Inv, Con1Inv, DataInv, CsInv, TailInv DEF RxUartData
<1>2. CASE UNCHANGED vars
  BY <1>2 DEF vars, rxVars, IInv, TypeOK, FrameLen, Position, Header, Decoded,
              HeaderDecoded, DataDecoded, CsDecoded, DataDue
<1>3. QED
  BY <1>1, <1>2

-----------------------------------------------------------------------------

\* comm2trm_RxUartData(): the inductive invariant holds of every byte sequence.
THEOREM Invariance == Spec => []IInv
  BY InitInv, NextInv, PTL DEF Spec

\* Type correctness of the receiver's object; the default case of the switch
\* is never reached and byCnt never indexes outside Date[].
THEOREM TypeCorrect == Spec => []TypeOK
<1>1. IInv => TypeOK
  BY DEF IInv
<1>2. QED
  BY <1>1, Invariance, PTL

\* A frame whose announced length fits stays inside a_byRxBuf.
LEMMA FitsInBounds == IInv => SavedInBounds
<1> SUFFICES ASSUME IInv, got >= HeaderLen, Fits(taken[HeaderLen])
             PROVE  byFrameLen <= MAX_LEN_COMM_TRM_DATA
  BY DEF SavedInBounds
<1>1. got \in Nat /\ offset \in {0, 1} /\ byDataLen \in Nat /\ byCnt \in Nat /\ eRxStatus \in Status
  BY DEF IInv, TypeOK, UInt8
<1>2. byDataLen + 12 <= MAX_LEN_COMM_TRM_DATA
  <2>1. taken[10] = byDataLen
    BY DEF IInv, Header, HeaderLen
  <2>2. taken[10] + 10 + 2 <= MAX_LEN_COMM_TRM_DATA
    BY DEF HeaderLen, Fits
  <2>3. QED
    BY <1>1, <2>1, <2>2, MaxLenAssumption
<1>3. DataDue \in Nat /\ DataDue <= byDataLen + 1 /\ (byDataLen # 0 => DataDue = byDataLen)
  BY <1>1 DEF DataDue
<1>4. got <= 11 + DataDue
  BY <1>1, <1>3 DEF IInv, Position, Status, HeaderLen
<1>5. byFrameLen = got + offset
  BY DEF IInv, FrameLen
<1>6. QED
  BY <1>1, <1>2, <1>3, <1>4, <1>5, MaxLenAssumption

\* a_byRxBuf is never overrun by a frame whose announced length fits.
THEOREM InBounds == Spec => []SavedInBounds
  BY FitsInBounds, Invariance, PTL

\* What the tail completes is the frame on the bus.
LEMMA TailIntact == IInv => FrameIntact
<1> SUFFICES ASSUME IInv, eRxStatus = "TAIL", taken[10] > 0, Fits(taken[10])
             PROVE  got = 10 + taken[10] + 1 /\ GoodPrefix(taken, got) /\ DecodedAsTaken
  BY DEF FrameIntact, HeaderLen
<1>1. got \in Nat /\ byDataLen \in Nat /\ got = 11 + DataDue
  BY DEF IInv, TypeOK, UInt8, Position
<1>2. DataDue \in Nat /\ DataDue >= 1
  BY <1>1 DEF DataDue
<1>3. taken[10] = byDataLen /\ byDataLen <= MAX_LEN_COMM_TRM_DATA /\ byDataLen > 0
  BY <1>1, <1>2 DEF IInv, Header
<1>4. DataDue = byDataLen
  BY <1>1, <1>3 DEF DataDue
<1>5. byFrameLen <= MAX_LEN_COMM_TRM_DATA
  BY <1>1, <1>2, FitsInBounds DEF SavedInBounds, HeaderLen
<1>6. HeaderDecoded /\ DataDecoded /\ CsDecoded
  BY <1>5 DEF IInv, Decoded
<1>7. got = 10 + taken[10] + 1
  BY <1>1, <1>3, <1>4
<1>8. GoodPrefix(taken, got)
  <2>1. taken[1] = COMM_TRM_HEAD /\ taken[2] = COMM_TRM_FIXED /\ taken[3] = 0
    BY <1>1, <1>2 DEF IInv, Header
  <2>2. taken[10] \in 1 .. MAX_LEN_COMM_TRM_DATA
    BY <1>1, <1>3, MaxLenAssumption
  <2>3. got <= 10 + taken[10] + 2 /\ got # 10 + taken[10] + 2
    BY <1>1, <1>3, <1>4
  <2>4. QED
    BY <2>1, <2>2, <2>3 DEF GoodPrefix, HeaderLen
<1>9. DecodedAsTaken
  <2>1. /\ fld.FG = taken[3] /\ fld.CMD0 = taken[4] /\ fld.CMD1 = taken[5]
        /\ fld.GUIDhi = taken[6] /\ fld.GUIDlo = taken[7]
        /\ fld.CON0 = taken[8] /\ fld.CON1 = taken[9]
    BY <1>1, <1>2, <1>6 DEF HeaderDecoded
  <2>2. \A i \in DateIndex : i < taken[10] => Date[i] = taken[11 + i]
    <3> SUFFICES ASSUME NEW i \in DateIndex, i < taken[10] PROVE Date[i] = taken[11 + i]
      OBVIOUS
    <3>1. i < DataDue /\ got >= 11 + i
      BY <1>1, <1>2, <1>3, <1>4 DEF DateIndex
    <3>2. QED
      BY <1>6, <3>1 DEF DataDecoded
  <2>3. fld.CS = taken[got]
    BY <1>6 DEF CsDecoded
  <2>4. QED
    BY <2>1, <2>2, <2>3 DEF DecodedAsTaken, HeaderLen
<1>10. QED
  BY <1>7, <1>8, <1>9

\* process_poll() is given exactly the frame on the bus, for every frame whose
\* announced length fits in a_byRxBuf and is not zero.
THEOREM Intact == Spec => []FrameIntact
  BY TailIntact, Invariance, PTL

\* rx_exception drops no byte that a frame could have at its place.
LEMMA RejectsOnlyBad ==
  ASSUME IInv, NEW b \in UInt8, RxUartData(b), Reject
  PROVE  ~GoodPrefix([taken EXCEPT ![got + 1] = b], got + 1)
<1> DEFINE t == [taken EXCEPT ![got + 1] = b]
<1>1. got \in 0 .. 139 /\ got' = 0 /\ offset' = 0 /\ eRxStatus' = "IDLE"
  BY TakenShort DEF Reject
<1>2. t[got + 1] = b /\ \A i \in 1 .. got : t[i] = taken[i]
  BY <1>1 DEF IInv, TypeOK, Place, HeaderLen
<1>3. ~\E st, f, g, d : Accept(b, st, f, g, d)
  BY <1>1 DEF Accept
<1>4. ~\E st, f, g : AcceptHeader(b, st, f, g)
  BY <1>3 DEF AcceptHeader
<1> HIDE DEF t
<1>5. CASE RxIdle(b) \/ RxHead(b) \/ RxFixed(b)
  <2>1. \/ got = 0 /\ b # COMM_TRM_HEAD
        \/ got = 1 /\ b # COMM_TRM_FIXED
        \/ got = 2 /\ b # 0
    BY <1>4, <1>5 DEF RxIdle, RxHead, RxFixed, IInv, Position
  <2>2. QED
    BY <1>2, <2>1 DEF GoodPrefix, t
<1>6. CASE RxCon1(b)
  <2>1. got = 9 /\ b > MAX_LEN_COMM_TRM_DATA
    BY <1>3, <1>6, MaxLenAssumption DEF RxCon1, IInv, Position, UInt8
  <2>2. t[10] = b /\ b \notin 1 .. MAX_LEN_COMM_TRM_DATA
    BY <1>2, <2>1, MaxLenAssumption DEF UInt8
  <2>3. QED
    BY <2>1, <2>2 DEF GoodPrefix, HeaderLen, t
<1>7. CASE RxTail(b)
  <2>1. got = 11 + DataDue /\ b # COMM_TRM_TAIL /\ byDataLen \in Nat
    BY <1>1, <1>7 DEF RxTail, IInv, TypeOK, Position, UInt8
  <2>2. DataDue \in Nat /\ DataDue >= 1 /\ (byDataLen # 0 => DataDue = byDataLen)
    BY <2>1 DEF DataDue
  <2>3. taken[10] = byDataLen
    BY <2>1, <2>2 DEF IInv, Header
  <2>4. t[10] = byDataLen
    BY <1>1, <1>2, <2>1, <2>2, <2>3
  <2>5. ~GoodPrefix(t, got + 1)
    BY <1>2, <2>1, <2>2, <2>4 DEF GoodPrefix, HeaderLen
  <2>6. QED
    BY <2>5 DEF t
<1>8. ~RxType(b) /\ ~RxCmd0(b) /\ ~RxCmd1(b) /\ ~RxGuid(b) /\ ~RxCon0(b) /\ ~RxData(b) /\ ~RxCs(b)
  BY <1>3, <1>4 DEF RxType, RxCmd0, RxCmd1, RxGuid, RxCon0, RxData, RxCs, IInv, Position
<1>9. QED
  BY <1>5, <1>6, <1>7, <1>8 DEF RxUartData

\* A frame of 1 to MAX_LEN_COMM_TRM_DATA data bytes that starts in STATUS_IDLE
\* is never dropped by rx_exception, for every history of the bus.
THEOREM NoGoodFrameDropped == Spec => GoodFrameKept
<1>1. IInv /\ [Next]_vars =>
        [\A b \in Bus(got) :
           RxUartData(b) /\ Reject => ~GoodPrefix([taken EXCEPT ![got + 1] = b], got + 1)]_vars
  <2> SUFFICES ASSUME IInv, NEW b \in Bus(got), RxUartData(b), Reject
               PROVE  ~GoodPrefix([taken EXCEPT ![got + 1] = b], got + 1)
    OBVIOUS
  <2>1. b \in UInt8
    BY TakenShort, BusAssumption
  <2>2. QED
    BY <2>1, RejectsOnlyBad
<1>2. QED
  BY <1>1, Invariance, PTL DEF Spec, GoodFrameKept

\* process_poll(): DeviceInfo.LedTemperature changes only at the tail of a frame
\* that had 0x11 in CON0 on the bus, to the value of that frame's first two data
\* bytes, for every history of the bus.
THEOREM LedReported == Spec => LedFromReport
<1>1. IInv /\ [Next]_vars =>
        [led' # led /\ Fits(taken[HeaderLen]) /\ taken[HeaderLen] >= 2
         => /\ eRxStatus = "TAIL"
            /\ taken[8] = LED_REPORT
            /\ led' = BcdValue(taken[11], taken[12])]_vars
  <2> SUFFICES ASSUME IInv, Next, led' # led, Fits(taken[10]), taken[10] >= 2
               PROVE  /\ eRxStatus = "TAIL"
                      /\ taken[8] = LED_REPORT
                      /\ led' = BcdValue(taken[11], taken[12])
    BY DEF HeaderLen
  <2>1. PICK b \in Bus(got) : RxUartData(b)
    BY DEF Next
  <2>2. RxTail(b) /\ eRxStatus = "TAIL"
    BY <2>1 DEF RxUartData, RxIdle, RxHead, RxFixed, RxType, RxCmd0, RxCmd1, RxGuid,
                RxCon0, RxCon1, RxData, RxCs, RxTail, AcceptHeader, Accept, Reject
  <2>3. ProcessPoll
    BY <2>2 DEF RxTail, Reject
  <2>4. taken[10] \in Nat
    <3>1. taken \in [Place -> UInt8]
      BY DEF IInv, TypeOK
    <3>2. 10 \in Place
      BY DEF Place, HeaderLen
    <3>3. QED
      BY <3>1, <3>2 DEF UInt8
  <2>5. DecodedAsTaken
    BY <2>2, <2>4, TailIntact DEF FrameIntact, HeaderLen
  <2>6. fld.CON0 = taken[8] /\ fld.CON0 = LED_REPORT
    BY <2>3, <2>5 DEF DecodedAsTaken, ProcessPoll
  <2>7. Date[0] = taken[11] /\ Date[1] = taken[12]
    <3>1. /\ 0 \in DateIndex /\ 0 < taken[10]
          /\ 1 \in DateIndex /\ 1 < taken[10]
      BY <2>4 DEF DateIndex
    <3>2. \A i \in DateIndex : i < taken[10] => Date[i] = taken[11 + i]
      BY <2>5 DEF DecodedAsTaken, HeaderLen
    <3>3. Date[0] = taken[11 + 0] /\ Date[1] = taken[11 + 1]
      BY <3>1, <3>2
    <3>4. QED
      BY <3>3
  <2>8. QED
    BY <2>2, <2>3, <2>6, <2>7 DEF ProcessPoll
<1>2. QED
  BY <1>1, Invariance, PTL DEF Spec, LedFromReport
=============================================================================
