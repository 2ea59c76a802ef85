---------------------------- MODULE NbIotProofs ----------------------------
(***************************************************************************)
(* For every number of tries and any line: the NB_Iot task believes of the *)
(* network only what the module has reported, gives up only after all its  *)
(* rounds, and restarts a module it has configured.                        *)
(***************************************************************************)
EXTENDS NbIot, TLAPS

\* TypeOK but for the line, of which nothing else is said.
Types ==
    /\ at \in Point /\ phase \in {"send", "wait"}
    /\ check_ack_timeout \in Nat
    /\ ue_exist_flag \in {0, 1} /\ ue_need_reboot_flag \in {0, 1} /\ attached_flag \in {0, 1}
    /\ res \in {0, 1, 2} /\ socket_id \in 0 .. 7
    /\ rx \subseteq Text /\ told \subseteq Online
    /\ auto \in BOOLEAN /\ band \in BOOLEAN
    /\ acked \subseteq Command /\ written \subseteq PowerOn /\ rounds \in Nat

\* What is in the receive buffer the module has said, and what the task has
\* concluded from it was there.
Truth ==
    /\ rx \cap Online \subseteq told
    /\ res = 1 => "CSCON1" \in told \/ "CEREG1" \in told
    /\ res = 2 => "CGATT1" \in told
    /\ at \in Upload \cup {"IDLE"} => res # 0

\* A changed configuration is followed by a restart: it is either sent, or
\* asked for, or the change itself is under way.
Pending ==
    /\ at \in {"AT", "NCONFIG?"} => {"NCONFIG=", "NBAND="} \cap written = {}
    /\ at = "NBAND?" => ({"NCONFIG=", "NBAND="} \cap written # {} => ue_need_reboot_flag = 1)
    /\ at = "NRB" /\ phase = "wait" => "NRB" \in written
    /\ at \notin PowerOn => ({"NCONFIG=", "NBAND="} \cap written # {} => "NRB" \in written)

\* check_ack_timeout counts the rounds that are left.
Counted ==
    /\ at \in PowerOn \cup Booting => rounds = 0
    /\ at \in {"NRB"} \cup Booting => check_ack_timeout >= 1
    /\ at \in Network => check_ack_timeout >= 1
    /\ at = "CSCON?" /\ phase = "send" => rounds + check_ack_timeout = NetTries
    /\ at \in Network /\ ~(at = "CSCON?" /\ phase = "send")
          => rounds + check_ack_timeout = NetTries + 1
    /\ at \in Upload \cup {"IDLE"} => rounds <= NetTries
    /\ at = "ENDED" => rounds = NetTries /\ res = 0
    /\ Network \cap acked # {} => res # 0

\* The inductive invariant.
IInv == Types /\ Truth /\ Pending /\ Counted

-----------------------------------------------------------------------------
(***************************************************************************)
(* NB_Iot_send_cmd() and the module.                                       *)
(***************************************************************************)

\* The tries are numbers, and those that are counted to zero are positive.
LEMMA Tries == /\ AtTries \in Nat /\ SetTries \in Nat /\ BootTries \in Nat /\ NetTries \in Nat
               /\ SetTries >= 1 /\ BootTries >= 1 /\ NetTries >= 1
  BY TriesAssumption

\* The line holds commands and the banner.
LEMMA LineTyped ==
    ASSUME Types, line \in Seq(OnLine), [Next]_vars
    PROVE  line' \in Seq(OnLine)
  <1>1. CASE SendCmd
    BY <1>1 DEF SendCmd, OnLine
  <1>2. CASE Executes
    <2>1. line' = Tail(line) \/ line' = <<"NEUL">>
      BY <1>2 DEF Executes
    <2>2. Tail(line) \in Seq(OnLine)
      BY <1>2 DEF Executes
    <2>3. <<"NEUL">> \in Seq(OnLine)
      BY DEF OnLine
    <2> QED
      BY <2>1, <2>2, <2>3
  <1>3. ASSUME NEW c, NEW ok \in BOOLEAN, Returns(c, ok) PROVE line' = line
    BY <1>3 DEF Returns
  <1>4. CASE \E ok \in BOOLEAN :
                \/ AtReturns(ok) \/ ModeQueried(ok) \/ ModeSet(ok) \/ BandQueried(ok)
                \/ BandSet(ok) \/ Rebooted(ok) \/ NeulChecked(ok)
                \/ ConnectionQueried(ok) \/ AttachQueried(ok) \/ RegistrationQueried(ok)
                \/ SocketCreated(ok) \/ UploadReturns(ok)
    BY <1>4, <1>3
    DEF AtReturns, ModeQueried, ModeSet, BandQueried, BandSet, Rebooted, NeulChecked,
        ConnectionQueried, AttachQueried, RegistrationQueried, SocketCreated, UploadReturns
  <1>5. CASE Quiet \/ Heard \/ Notifies \/ UNCHANGED vars
    BY <1>5 DEF Quiet, Heard, Notifies, vars, module
  <1> QED
    BY <1>1, <1>2, <1>4, <1>5 DEF Next, Task

\* What a return of NB_Iot_send_cmd() says: a success means that the string was
\* in the receive buffer.
LEMMA ReturnsFacts ==
    ASSUME Types, NEW c \in Command, NEW ok \in BOOLEAN, Returns(c, ok)
    PROVE  /\ at = c /\ phase = "wait"
           /\ rx' \subseteq rx
           /\ ok => Expected(c) \in rx
           /\ acked' \subseteq Command
           /\ Network \cap acked' # {} => Network \cap acked # {} \/ (ok /\ c \in Network)
           /\ UNCHANGED <<auto, band, told, written, rounds>>
  <1>1. acked \subseteq Command
    BY DEF Types
  <1>2. ok => Expected(c) \in rx
    BY DEF Returns, CheckAck
  <1> QED
    BY <1>1, <1>2 DEF Returns, CheckAck, Command

\* NB_Iot_check_ack() finds only text that was in the receive buffer.
LEMMA CheckAckFacts ==
    ASSUME NEW c, NEW found \in BOOLEAN, CheckAck(c, found)
    PROVE  rx' = {}
  BY DEF CheckAck

\* The strings the three network queries look for.
LEMMA ExpectedNet ==
    /\ Expected("CSCON?") = "CSCON1"
    /\ Expected("CGATT?") = "CGATT1"
    /\ Expected("CEREG?") = "CEREG1"
  BY DEF Expected, Booting

-----------------------------------------------------------------------------
(***************************************************************************)
(* Init and BC95_power_on().                                               *)
(***************************************************************************)

\* The invariant holds when the task starts.
LEMMA InitIInv == Init => IInv
  <1> SUFFICES ASSUME Init PROVE IInv
    OBVIOUS
  <1>1. Types
    BY Tries DEF Init, Types, Point, Command, PowerOn
  <1>2. Truth /\ Pending /\ Counted
    BY DEF Init, Truth, Pending, Counted, Upload, Booting, Network, PowerOn
  <1> QED
    BY <1>1, <1>2 DEF IInv

\* Sending a command keeps the invariant.
LEMMA SendCmdIInv == IInv /\ SendCmd => IInv'
  <1> SUFFICES ASSUME IInv, SendCmd PROVE IInv'
    OBVIOUS
  <1>0. /\ phase = "send" /\ phase' = "wait" /\ at \in Command
        /\ written' = written \cup ({at} \cap PowerOn)
        /\ rounds' = IF at = "CSCON?" THEN rounds + 1 ELSE rounds
        /\ UNCHANGED <<at, check_ack_timeout, ue_exist_flag, ue_need_reboot_flag, attached_flag,
                       res, socket_id, rx, auto, band, told, acked>>
    BY DEF SendCmd, flags
  <1>1. rounds \in Nat /\ check_ack_timeout \in Nat /\ NetTries \in Nat
    BY Tries DEF IInv, Types
  <1>2. Types'
    BY <1>0, <1>1 DEF IInv, Types
  <1>3. Truth'
    BY <1>0 DEF IInv, Truth
  <1>4. Pending'
    BY <1>0 DEF IInv, Pending, PowerOn
  <1>5. Counted'
    <2>1. CASE at = "CSCON?"
      BY <2>1, <1>0, <1>1 DEF IInv, Counted, PowerOn, Booting, Network, Upload
    <2>2. CASE at # "CSCON?"
      BY <2>2, <1>0, <1>1 DEF IInv, Counted, PowerOn, Booting, Network, Upload
    <2> QED
      BY <2>1, <2>2
  <1> QED
    BY <1>2, <1>3, <1>4, <1>5 DEF IInv

\* The loop over AT keeps the invariant.
LEMMA AtReturnsIInv == ASSUME IInv, NEW ok \in BOOLEAN, AtReturns(ok) PROVE IInv'
  <1>0. /\ at = "AT" /\ phase = "wait" /\ rx' \subseteq rx
        /\ acked' \subseteq Command
        /\ Network \cap acked' # {} => Network \cap acked # {}
        /\ UNCHANGED <<auto, band, told, written, rounds>>
    BY ReturnsFacts DEF IInv, AtReturns, Command, PowerOn, Network
  <1>1. UNCHANGED <<ue_need_reboot_flag, attached_flag, res, socket_id>>
    BY DEF AtReturns
  <1>2. /\ phase' = "send" /\ ue_exist_flag' \in {0, 1}
        /\ \/ at' = "AT" /\ check_ack_timeout > 0 /\ check_ack_timeout' = check_ack_timeout - 1
           \/ at' = "NCONFIG?" /\ check_ack_timeout' = check_ack_timeout
           \/ at' = "CSCON?" /\ check_ack_timeout' = NetTries
    BY DEF AtReturns, GoTo, ToNetwork, IInv, Types
  <1>3. check_ack_timeout \in Nat /\ rounds = 0
    BY <1>0 DEF IInv, Types, Counted, PowerOn
  <1>4. Types'
    BY <1>0, <1>1, <1>2, <1>3, Tries DEF IInv, Types, Point, Command, PowerOn, Network
  <1>5. Truth'
    BY <1>0, <1>1, <1>2 DEF IInv, Truth, Upload
  <1>6. Pending'
    BY <1>0, <1>1, <1>2 DEF IInv, Pending, PowerOn
  <1>7. Counted'
    BY <1>0, <1>1, <1>2, <1>3, Tries DEF IInv, Counted, PowerOn, Booting, Network, Upload
  <1> QED
    BY <1>4, <1>5, <1>6, <1>7 DEF IInv

\* The query of the mode keeps the invariant.
LEMMA ModeQueriedIInv == ASSUME IInv, NEW ok \in BOOLEAN, ModeQueried(ok) PROVE IInv'
  <1>0. /\ at = "NCONFIG?" /\ phase = "wait" /\ rx' \subseteq rx
        /\ acked' \subseteq Command
        /\ Network \cap acked' # {} => Network \cap acked # {}
        /\ UNCHANGED <<auto, band, told, written, rounds>>
    BY ReturnsFacts DEF IInv, ModeQueried, Command, PowerOn, Network
  <1>1. UNCHANGED <<ue_exist_flag, ue_need_reboot_flag, attached_flag, res, socket_id>>
    BY DEF ModeQueried, flags
  <1>2. /\ phase' = "send"
        /\ \/ at' = "NCONFIG=" /\ check_ack_timeout' = SetTries - 1
           \/ at' = "NBAND?" /\ check_ack_timeout' = check_ack_timeout
    BY DEF ModeQueried, GoTo
  <1>3. check_ack_timeout \in Nat /\ rounds = 0 /\ SetTries - 1 \in Nat
    BY <1>0, Tries DEF IInv, Types, Counted, PowerOn
  <1>4. Types'
    BY <1>0, <1>1, <1>2, <1>3 DEF IInv, Types, Point, Command, PowerOn
  <1>5. Truth'
    BY <1>0, <1>1, <1>2 DEF IInv, Truth, Upload
  <1>6. Pending'
    BY <1>0, <1>1, <1>2 DEF IInv, Pending, PowerOn
  <1>7. Counted'
    BY <1>0, <1>1, <1>2, <1>3 DEF IInv, Counted, PowerOn, Booting, Network, Upload
  <1> QED
    BY <1>4, <1>5, <1>6, <1>7 DEF IInv

\* Setting the mode keeps the invariant.
LEMMA ModeSetIInv == ASSUME IInv, NEW ok \in BOOLEAN, ModeSet(ok) PROVE IInv'
  <1>0. /\ at = "NCONFIG=" /\ phase = "wait" /\ rx' \subseteq rx
        /\ acked' \subseteq Command
        /\ Network \cap acked' # {} => Network \cap acked # {}
        /\ UNCHANGED <<auto, band, told, written, rounds>>
    BY ReturnsFacts DEF IInv, ModeSet, Command, PowerOn, Network
  <1>1. UNCHANGED <<ue_exist_flag, attached_flag, res, socket_id>>
    BY DEF ModeSet
  <1>2. /\ phase' = "send"
        /\ \/ /\ at' = "NCONFIG=" /\ ue_need_reboot_flag' = ue_need_reboot_flag
              /\ check_ack_timeout > 0 /\ check_ack_timeout' = check_ack_timeout - 1
           \/ /\ at' = "NBAND?" /\ ue_need_reboot_flag' = 1
              /\ check_ack_timeout' = check_ack_timeout
    BY DEF ModeSet, GoTo
  <1>3. check_ack_timeout \in Nat /\ rounds = 0
    BY <1>0 DEF IInv, Types, Counted, PowerOn
  <1>4. Types'
    BY <1>0, <1>1, <1>2, <1>3 DEF IInv, Types, Point, Command, PowerOn
  <1>5. Truth'
    BY <1>0, <1>1, <1>2 DEF IInv, Truth, Upload
  <1>6. Pending'
    BY <1>0, <1>1, <1>2 DEF IInv, Pending, PowerOn
  <1>7. Counted'
    BY <1>0, <1>1, <1>2, <1>3 DEF IInv, Counted, PowerOn, Booting, Network, Upload
  <1> QED
    BY <1>4, <1>5, <1>6, <1>7 DEF IInv

\* The band has been queried or set; the restart is due when need is 1.
LEMMA ToRebootIInv ==
    ASSUME IInv, NEW c \in {"NBAND?", "NBAND="}, NEW ok \in BOOLEAN, Returns(c, ok),
           NEW need \in {0, 1}, ToReboot(need),
           c = "NBAND=" => need = 1, c = "NBAND?" => need = ue_need_reboot_flag,
           UNCHANGED <<ue_exist_flag, attached_flag, res, socket_id>>
    PROVE  IInv'
  <1>0. /\ at = c /\ phase = "wait" /\ rx' \subseteq rx
        /\ acked' \subseteq Command
        /\ Network \cap acked' # {} => Network \cap acked # {}
        /\ UNCHANGED <<auto, band, told, written, rounds>>
    BY ReturnsFacts DEF IInv, Command, PowerOn, Network
  <1>2. /\ phase' = "send"
        /\ \/ /\ at' = "NRB" /\ ue_need_reboot_flag' = 0 /\ check_ack_timeout' = BootTries
           \/ /\ at' = "CSCON?" /\ ue_need_reboot_flag' = need /\ need = 0
              /\ check_ack_timeout' = NetTries
    BY DEF ToReboot, ToNetwork, GoTo
  <1>3. rounds = 0
    BY <1>0 DEF IInv, Counted, PowerOn
  <1>4. Types'
    BY <1>0, <1>2, Tries DEF IInv, Types, Point, Command, PowerOn, Network
  <1>5. Truth'
    BY <1>0, <1>2 DEF IInv, Truth, Upload
  <1>6. Pending'
    BY <1>0, <1>2 DEF IInv, Pending, PowerOn
  <1>7. Counted'
    BY <1>0, <1>2, <1>3, Tries DEF IInv, Counted, PowerOn, Booting, Network, Upload
  <1> QED
    BY <1>4, <1>5, <1>6, <1>7 DEF IInv

\* Setting the band keeps the invariant.
LEMMA BandSetIInv == ASSUME IInv, NEW ok \in BOOLEAN, BandSet(ok) PROVE IInv'
  BY ToRebootIInv DEF BandSet

\* The query of the band keeps the invariant.
LEMMA BandQueriedIInv == ASSUME IInv, NEW ok \in BOOLEAN, BandQueried(ok) PROVE IInv'
  <1>1. CASE ok
    <2>1. ue_need_reboot_flag \in {0, 1}
      BY DEF IInv, Types
    <2> QED
      BY <1>1, <2>1, ToRebootIInv DEF BandQueried
  <1>2. CASE ~ok
    <2>0. /\ at = "NBAND?" /\ phase = "wait" /\ rx' \subseteq rx
          /\ acked' \subseteq Command
          /\ Network \cap acked' # {} => Network \cap acked # {}
          /\ UNCHANGED <<auto, band, told, written, rounds>>
      BY ReturnsFacts DEF IInv, BandQueried, Command, PowerOn, Network
    <2>1. /\ at' = "NBAND=" /\ phase' = "send"
          /\ UNCHANGED <<check_ack_timeout, ue_exist_flag, ue_need_reboot_flag, attached_flag,
                         res, socket_id>>
      BY <1>2 DEF BandQueried, GoTo
    <2>2. Types'
      BY <2>0, <2>1 DEF IInv, Types, Point, Command, PowerOn
    <2>3. Truth'
      BY <2>0, <2>1 DEF IInv, Truth, Upload
    <2>4. Pending'
      BY <2>0, <2>1 DEF IInv, Pending, PowerOn
    <2>5. Counted'
      BY <2>0, <2>1 DEF IInv, Counted, PowerOn, Booting, Network, Upload
    <2> QED
      BY <2>2, <2>3, <2>4, <2>5 DEF IInv
  <1> QED
    BY <1>1, <1>2

\* The restart keeps the invariant.
LEMMA RebootedIInv == ASSUME IInv, NEW ok \in BOOLEAN, Rebooted(ok) PROVE IInv'
  <1>0. /\ at = "NRB" /\ phase = "wait" /\ rx' \subseteq rx
        /\ acked' \subseteq Command
        /\ Network \cap acked' # {} => Network \cap acked # {}
        /\ UNCHANGED <<auto, band, told, written, rounds>>
    BY ReturnsFacts DEF IInv, Rebooted, Command, PowerOn, Network
  <1>1. /\ at' = "NEUL" /\ phase' = "send"
        /\ UNCHANGED <<check_ack_timeout, ue_exist_flag, ue_need_reboot_flag, attached_flag,
                       res, socket_id>>
    BY DEF Rebooted, GoTo, flags
  <1>2. Types'
    BY <1>0, <1>1 DEF IInv, Types, Point, Booting
  <1>3. Truth'
    BY <1>0, <1>1 DEF IInv, Truth, Upload
  <1>4. Pending'
    BY <1>0, <1>1 DEF IInv, Pending, PowerOn
  <1>5. Counted'
    BY <1>0, <1>1 DEF IInv, Counted, PowerOn, Booting, Network, Upload
  <1> QED
    BY <1>2, <1>3, <1>4, <1>5 DEF IInv

\* The wait for the banner keeps the invariant.
LEMMA NeulCheckedIInv == ASSUME IInv, NEW ok \in BOOLEAN, NeulChecked(ok) PROVE IInv'
  <1>0. /\ at \in Booting /\ rx' = {}
        /\ UNCHANGED <<ue_exist_flag, ue_need_reboot_flag, attached_flag, res, socket_id, auto,
                       band, told, acked, written, rounds>>
    BY CheckAckFacts DEF NeulChecked, flags, history
  <1>1. /\ phase' = "send"
        /\ \/ at' = "CSCON?" /\ check_ack_timeout' = NetTries
           \/ at' = "NEUL2" /\ check_ack_timeout' = check_ack_timeout
           \/ /\ at' = "NEUL" /\ check_ack_timeout # 1
              /\ check_ack_timeout' = check_ack_timeout - 1
    BY <1>0 DEF NeulChecked, ToNetwork, GoTo, Booting
  <1>2. /\ check_ack_timeout \in Nat /\ check_ack_timeout >= 1 /\ rounds = 0
    BY <1>0 DEF IInv, Types, Counted
  <1>3. Types'
    BY <1>0, <1>1, <1>2, Tries DEF IInv, Types, Point, Booting, Command, Network
  <1>4. Truth'
    BY <1>0, <1>1 DEF IInv, Truth, Upload
  <1>5. Pending'
    BY <1>0, <1>1 DEF IInv, Pending, PowerOn, Booting
  <1>6. Counted'
    BY <1>0, <1>1, <1>2, Tries DEF IInv, Counted, PowerOn, Booting, Network, Upload
  <1> QED
    BY <1>3, <1>4, <1>5, <1>6 DEF IInv

-----------------------------------------------------------------------------
(***************************************************************************)
(* query_net_status().                                                     *)
(***************************************************************************)

\* The frame of a network query: where it goes and what it believes is left
\* open but for what every query has to establish.
LEMMA NetworkIInv ==
    ASSUME IInv, NEW c \in Network, NEW ok \in BOOLEAN, Returns(c, ok),
           UNCHANGED <<ue_exist_flag, ue_need_reboot_flag, socket_id>>,
           phase' = "send", attached_flag' \in {0, 1}, res' \in {0, 1, 2},
           check_ack_timeout' \in Nat,
           res' = 1 => res = 1 \/ (ok /\ c \in {"CSCON?", "CEREG?"}),
           res' = 2 => res = 2 \/ (ok /\ c = "CGATT?"),
           res # 0 \/ ok => res' # 0,
           \/ at' \in {"CGATT?", "CEREG?"} /\ check_ack_timeout' = check_ack_timeout
           \/ /\ at' = "CSCON?" /\ check_ack_timeout > 1
              /\ check_ack_timeout' = check_ack_timeout - 1
           \/ at' = "NSOCR" /\ res' # 0
           \/ at' = "ENDED" /\ res' = 0 /\ check_ack_timeout = 1
    PROVE  IInv'
  <1>0. /\ at = c /\ phase = "wait" /\ rx' \subseteq rx
        /\ ok => Expected(c) \in rx
        /\ acked' \subseteq Command
        /\ Network \cap acked' # {} => Network \cap acked # {} \/ ok
        /\ UNCHANGED <<auto, band, told, written, rounds>>
    BY ReturnsFacts DEF IInv, Command
  <1>1. at' \in {"CGATT?", "CEREG?", "CSCON?", "NSOCR", "ENDED"}
    OBVIOUS
  <1>2. Types'
    BY <1>0, <1>1 DEF IInv, Types, Point, Command, Network, Upload
  <1>3. Truth'
    <2>1. rx \cap Online \subseteq told
      BY DEF IInv, Truth
    <2>2. ok => Expected(c) \in told
      BY <2>1, <1>0, ExpectedNet DEF Network, Online
    <2>3. /\ res' = 1 => "CSCON1" \in told \/ "CEREG1" \in told
          /\ res' = 2 => "CGATT1" \in told
      BY <2>2, ExpectedNet DEF IInv, Truth
    <2>4. at' \in Upload \cup {"IDLE"} => res' # 0
      BY DEF Upload
    <2> QED
      BY <2>1, <2>3, <2>4, <1>0 DEF Truth
  <1>4. Pending'
    BY <1>0, <1>1 DEF IInv, Pending, PowerOn, Network
  <1>5. Counted'
    <2>1. /\ rounds \in Nat /\ check_ack_timeout \in Nat /\ NetTries \in Nat
          /\ rounds + check_ack_timeout = NetTries + 1 /\ check_ack_timeout >= 1
      BY <1>0, Tries DEF IInv, Types, Counted
    <2>2. Network \cap acked' # {} => res' # 0
      BY <1>0 DEF IInv, Counted
    <2>3. CASE at' \in {"CGATT?", "CEREG?"} /\ check_ack_timeout' = check_ack_timeout
      BY <2>1, <2>2, <2>3, <1>0 DEF Counted, PowerOn, Booting, Network, Upload
    <2>4. CASE /\ at' = "CSCON?" /\ check_ack_timeout > 1
               /\ check_ack_timeout' = check_ack_timeout - 1
      BY <2>1, <2>2, <2>4, <1>0 DEF Counted, PowerOn, Booting, Network, Upload
    <2>5. CASE at' = "NSOCR" /\ res' # 0
      BY <2>1, <2>2, <2>5, <1>0 DEF Counted, PowerOn, Booting, Network, Upload
    <2>6. CASE at' = "ENDED" /\ res' = 0 /\ check_ack_timeout = 1
      BY <2>1, <2>2, <2>6, <1>0 DEF Counted, PowerOn, Booting, Network, Upload
    <2> QED
      BY <2>3, <2>4, <2>5, <2>6
  <1> QED
    BY <1>2, <1>3, <1>4, <1>5 DEF IInv

\* In a network query a try is left.
LEMMA TryLeft ==
    ASSUME IInv, at \in Network
    PROVE  /\ check_ack_timeout \in Nat /\ check_ack_timeout >= 1
           /\ attached_flag \in {0, 1} /\ res \in {0, 1, 2}
  BY DEF IInv, Types, Counted

\* AT+CSCON? keeps the invariant.
LEMMA ConnectionQueriedIInv ==
    ASSUME IInv, NEW ok \in BOOLEAN, ConnectionQueried(ok) PROVE IInv'
  <1>1. at \in Network /\ Returns("CSCON?", ok) /\ "CSCON?" \in Network
    BY DEF ConnectionQueried, Returns, Network
  <1>2. UNCHANGED <<check_ack_timeout, ue_exist_flag, ue_need_reboot_flag, attached_flag,
                    socket_id>>
    BY DEF ConnectionQueried
  <1>3. /\ phase' = "send"
        /\ \/ ok /\ res' = 1 /\ at' = "NSOCR"
           \/ ~ok /\ res' = res /\ at' \in {"CGATT?", "CEREG?"}
    BY DEF ConnectionQueried, NetResult, GoTo
  <1> QED
    BY <1>1, <1>2, <1>3, TryLeft, NetworkIInv

\* A round that ends without success keeps res.
LEMMA NextRoundFacts ==
    ASSUME IInv, at \in Network, NextRound(res)
    PROVE  /\ phase' = "send" /\ res' = res /\ check_ack_timeout' \in Nat
           /\ \/ /\ at' = "CSCON?" /\ check_ack_timeout > 1
                 /\ check_ack_timeout' = check_ack_timeout - 1
              \/ at' = "NSOCR" /\ res' # 0
              \/ at' = "ENDED" /\ res' = 0 /\ check_ack_timeout = 1
  BY TryLeft DEF NextRound, NetResult, GoTo

\* AT+CGATT? keeps the invariant, at the end of a round too.
LEMMA AttachQueriedIInv ==
    ASSUME IInv, NEW ok \in BOOLEAN, AttachQueried(ok) PROVE IInv'
  <1>1. at \in Network /\ Returns("CGATT?", ok) /\ "CGATT?" \in Network
    BY DEF AttachQueried, Returns, Network
  <1>2. UNCHANGED <<ue_exist_flag, ue_need_reboot_flag, socket_id>>
    BY DEF AttachQueried
  <1>3. CASE ok
    <2>1. /\ attached_flag' = 1 /\ res' = 2 /\ at' = "CEREG?" /\ phase' = "send"
          /\ check_ack_timeout' = check_ack_timeout
      BY <1>3 DEF AttachQueried, GoTo
    <2>2. check_ack_timeout \in Nat
      BY <1>1, TryLeft
    <2>3. check_ack_timeout' \in Nat /\ attached_flag' \in {0, 1} /\ res' \in {0, 1, 2}
      BY <2>1, <2>2
    <2>4. /\ res' = 1 => res = 1 \/ (ok /\ "CGATT?" \in {"CSCON?", "CEREG?"})
          /\ res' = 2 => res = 2 \/ (ok /\ "CGATT?" = "CGATT?")
          /\ res # 0 \/ ok => res' # 0
          /\ at' \in {"CGATT?", "CEREG?"} /\ check_ack_timeout' = check_ack_timeout
      BY <1>3, <2>1
    <2> QED
      BY <1>1, <1>2, <2>1, <2>3, <2>4, NetworkIInv
  <1>4. CASE ~ok
    <2>1. NextRound(res) /\ attached_flag' = attached_flag
      BY <1>4 DEF AttachQueried
    <2>2. /\ phase' = "send" /\ res' = res /\ check_ack_timeout' \in Nat
          /\ \/ /\ at' = "CSCON?" /\ check_ack_timeout > 1
                /\ check_ack_timeout' = check_ack_timeout - 1
             \/ at' = "NSOCR" /\ res' # 0
             \/ at' = "ENDED" /\ res' = 0 /\ check_ack_timeout = 1
      BY <1>1, <2>1, NextRoundFacts
    <2>3. attached_flag' \in {0, 1} /\ res' \in {0, 1, 2} /\ check_ack_timeout \in Nat
      BY <1>1, <2>1, <2>2, TryLeft
    <2>4. /\ (res' = 1 => res = 1) /\ (res' = 2 => res = 2)
          /\ res # 0 \/ ok => res' # 0
      BY <1>4, <2>2
    <2> QED
      BY <1>1, <1>2, <2>2, <2>3, <2>4, NetworkIInv
  <1> QED
    BY <1>3, <1>4

\* AT+CEREG? keeps the invariant, at the end of a round too.
LEMMA RegistrationQueriedIInv ==
    ASSUME IInv, NEW ok \in BOOLEAN, RegistrationQueried(ok) PROVE IInv'
  <1>1. at \in Network /\ Returns("CEREG?", ok) /\ "CEREG?" \in Network
    BY DEF RegistrationQueried, Returns, Network
  <1>2. UNCHANGED <<ue_exist_flag, ue_need_reboot_flag, attached_flag, socket_id>>
    BY DEF RegistrationQueried
  <1>3. CASE ok
    <2>1. /\ res' = 1 /\ at' = "NSOCR" /\ phase' = "send"
          /\ check_ack_timeout' = check_ack_timeout - 1
      BY <1>3 DEF RegistrationQueried, NetResult, GoTo
    <2>2. check_ack_timeout' \in Nat /\ attached_flag' \in {0, 1} /\ res' \in {0, 1, 2}
      BY <2>1, <1>1, <1>2, TryLeft
    <2>3. /\ res' = 1 => res = 1 \/ (ok /\ "CEREG?" \in {"CSCON?", "CEREG?"})
          /\ res' = 2 => res = 2 \/ (ok /\ "CEREG?" = "CGATT?")
          /\ res # 0 \/ ok => res' # 0
          /\ at' = "NSOCR" /\ res' # 0
      BY <1>3, <2>1
    <2> QED
      BY <1>1, <1>2, <2>1, <2>2, <2>3, NetworkIInv
  <1>4. CASE ~ok
    <2>1. NextRound(res)
      BY <1>4 DEF RegistrationQueried
    <2>2. /\ phase' = "send" /\ res' = res /\ check_ack_timeout' \in Nat
          /\ \/ /\ at' = "CSCON?" /\ check_ack_timeout > 1
                /\ check_ack_timeout' = check_ack_timeout - 1
             \/ at' = "NSOCR" /\ res' # 0
             \/ at' = "ENDED" /\ res' = 0 /\ check_ack_timeout = 1
      BY <1>1, <2>1, NextRoundFacts
    <2>3. attached_flag' \in {0, 1} /\ res' \in {0, 1, 2} /\ check_ack_timeout \in Nat
      BY <1>1, <1>2, <2>1, <2>2, TryLeft
    <2>4. /\ (res' = 1 => res = 1) /\ (res' = 2 => res = 2)
          /\ res # 0 \/ ok => res' # 0
      BY <1>4, <2>2
    <2> QED
      BY <1>1, <1>2, <2>2, <2>3, <2>4, NetworkIInv
  <1> QED
    BY <1>3, <1>4

-----------------------------------------------------------------------------
(***************************************************************************)
(* The upload loop and the module.                                         *)
(***************************************************************************)

\* The steps of the upload loop change nothing that was decided before it.
LEMMA UploadIInv ==
    ASSUME IInv, at \in Upload \cup {"IDLE"}, at' \in Upload \cup {"IDLE"}, phase' = "send",
           rx' \subseteq rx, acked' \subseteq Command, socket_id' \in 0 .. 7,
           Network \cap acked' # {} => Network \cap acked # {},
           UNCHANGED <<check_ack_timeout, ue_exist_flag, ue_need_reboot_flag, attached_flag, res,
                       auto, band, told, written, rounds>>
    PROVE  IInv'
  <1>1. Types'
    BY DEF IInv, Types, Point, Command
  <1>2. Truth'
    BY DEF IInv, Truth
  <1>3. Pending'
    BY DEF IInv, Pending, PowerOn, Upload
  <1>4. Counted'
    BY DEF IInv, Counted, PowerOn, Booting, Network, Upload
  <1> QED
    BY <1>1, <1>2, <1>3, <1>4 DEF IInv

\* Creating the socket keeps the invariant.
LEMMA SocketCreatedIInv ==
    ASSUME IInv, NEW ok \in BOOLEAN, SocketCreated(ok) PROVE IInv'
  <1>1. /\ at = "NSOCR" /\ rx' \subseteq rx /\ acked' \subseteq Command
        /\ Network \cap acked' # {} => Network \cap acked # {}
        /\ UNCHANGED <<auto, band, told, written, rounds>>
    BY ReturnsFacts DEF IInv, SocketCreated, Command, Upload, Network
  <1>2. /\ at' = "NSOST" /\ phase' = "send" /\ socket_id' \in 0 .. 7
        /\ UNCHANGED <<check_ack_timeout, ue_exist_flag, ue_need_reboot_flag, attached_flag, res>>
    BY DEF SocketCreated, GoTo
  <1> QED
    BY <1>1, <1>2, UploadIInv DEF Upload

\* An upload or a fetched datagram keeps the invariant.
LEMMA UploadReturnsIInv ==
    ASSUME IInv, NEW ok \in BOOLEAN, UploadReturns(ok) PROVE IInv'
  <1>1. /\ at \in {"NSOST", "NSORF"} /\ rx' \subseteq rx /\ acked' \subseteq Command
        /\ Network \cap acked' # {} => Network \cap acked # {}
        /\ UNCHANGED <<auto, band, told, written, rounds>>
    BY ReturnsFacts DEF IInv, UploadReturns, Command, Upload, Network
  <1>2. /\ at' = "IDLE" /\ phase' = "send"
        /\ UNCHANGED <<check_ack_timeout, ue_exist_flag, ue_need_reboot_flag, attached_flag, res,
                       socket_id>>
    BY DEF UploadReturns, GoTo, flags
  <1>3. socket_id \in 0 .. 7
    BY DEF IInv, Types
  <1> QED
    BY <1>1, <1>2, <1>3, UploadIInv DEF Upload

\* The select() of the upload loop keeps the invariant.
LEMMA IdleIInv == IInv /\ (Quiet \/ Heard) => IInv'
  <1> SUFFICES ASSUME IInv, Quiet \/ Heard PROVE IInv'
    OBVIOUS
  <1>1. /\ at = "IDLE" /\ at' \in {"IDLE", "NSOST", "NSORF"} /\ phase' = "send"
        /\ rx' \subseteq rx
        /\ UNCHANGED <<check_ack_timeout, ue_exist_flag, ue_need_reboot_flag, attached_flag, res,
                       socket_id, auto, band, told, acked, written, rounds>>
    BY DEF Quiet, Heard, GoTo, flags, module, history
  <1>2. socket_id \in 0 .. 7 /\ acked \subseteq Command
    BY DEF IInv, Types
  <1> QED
    BY <1>1, <1>2, UploadIInv DEF Upload

\* Whatever the module says is remembered in told.
LEMMA SaysIInv ==
    ASSUME IInv, NEW texts \in SUBSET Text, Says(texts), auto' \in BOOLEAN, band' \in BOOLEAN,
           UNCHANGED <<at, phase, check_ack_timeout, flags, history>>
    PROVE  IInv'
  <1>0. UNCHANGED <<ue_exist_flag, ue_need_reboot_flag, attached_flag, res, socket_id, acked,
                    written, rounds>>
    BY DEF flags, history
  <1>1. rx' = rx \cup texts /\ told' = told \cup (texts \cap Online)
    BY DEF Says
  <1>2. Types'
    BY <1>0, <1>1 DEF IInv, Types
  <1>3. Truth'
    BY <1>0, <1>1 DEF IInv, Truth
  <1>4. Pending' /\ Counted'
    BY <1>0 DEF IInv, Pending, Counted
  <1> QED
    BY <1>2, <1>3, <1>4 DEF IInv

\* The module keeps the invariant.
LEMMA ModuleIInv == IInv /\ (Executes \/ Notifies) => IInv'
  <1> SUFFICES ASSUME IInv, Executes \/ Notifies PROVE IInv'
    OBVIOUS
  <1>0. auto \in BOOLEAN /\ band \in BOOLEAN
    BY DEF IInv, Types
  <1>1. \A c : Expected(c) \in Text
    BY DEF Expected, Text, Online
  <1>2. UNCHANGED <<at, phase, check_ack_timeout, flags, history>>
    BY DEF Executes, Notifies
  <1>3. /\ auto' \in BOOLEAN /\ band' \in BOOLEAN
    BY <1>0 DEF Executes, Notifies
  <1>4. \E texts \in SUBSET Text : Says(texts)
    BY <1>1 DEF Executes, Notifies, Text
  <1> QED
    BY <1>2, <1>3, <1>4, SaysIInv

\* A step that changes nothing keeps the invariant.
LEMMA StutterIInv == IInv /\ UNCHANGED vars => IInv'
  BY DEF IInv, Types, Truth, Pending, Counted, vars, flags, module, history

-----------------------------------------------------------------------------
(***************************************************************************)
(* The theorems.                                                           *)
(***************************************************************************)

\* The inductive invariant holds: beliefs about the network are true, the
\* rounds are counted and a configured module is restarted.
THEOREM Invariance == Spec => [](IInv /\ line \in Seq(OnLine))
  <1>1. Init => IInv /\ line \in Seq(OnLine)
    BY InitIInv DEF Init
  <1>2. IInv /\ line \in Seq(OnLine) /\ [Next]_vars => (IInv /\ line \in Seq(OnLine))'
    <2> SUFFICES ASSUME IInv, line \in Seq(OnLine), [Next]_vars
                 PROVE  IInv' /\ line' \in Seq(OnLine)
      OBVIOUS
    <2>1. line' \in Seq(OnLine)
      BY LineTyped DEF IInv
    <2>2. ASSUME NEW ok \in BOOLEAN,
                 \/ AtReturns(ok) \/ ModeQueried(ok) \/ ModeSet(ok) \/ BandQueried(ok)
                 \/ BandSet(ok) \/ Rebooted(ok) \/ NeulChecked(ok)
                 \/ ConnectionQueried(ok) \/ AttachQueried(ok) \/ RegistrationQueried(ok)
                 \/ SocketCreated(ok) \/ UploadReturns(ok)
          PROVE  IInv'
      BY <2>2, AtReturnsIInv, ModeQueriedIInv, ModeSetIInv, BandQueriedIInv, BandSetIInv,
         RebootedIInv, NeulCheckedIInv, ConnectionQueriedIInv, AttachQueriedIInv,
         RegistrationQueriedIInv, SocketCreatedIInv, UploadReturnsIInv
    <2>3. IInv'
      BY <2>2, SendCmdIInv, IdleIInv, ModuleIInv, StutterIInv DEF Next, Task
    <2> QED
      BY <2>1, <2>3
  <1> QED
    BY <1>1, <1>2, PTL DEF Spec

\* The type invariant of NbIot holds in every reachable state.
THEOREM TypeCorrect == Spec => []TypeOK
  <1>1. IInv /\ line \in Seq(OnLine) => TypeOK
    BY DEF IInv, Types, TypeOK
  <1> QED
    BY <1>1, Invariance, PTL

\* query_net_status() claims no more than the module has reported, for any
\* number of rounds and whatever answers come late.
THEOREM BelievesReports == Spec => []NetResultTrue
  <1>1. IInv => NetResultTrue
    BY DEF IInv, Truth, NetResultTrue
  <1> QED
    BY <1>1, Invariance, PTL

\* The task never exceeds its rounds and ends only after all of them.
THEOREM EndsLate == Spec => []EndsAfterAllRounds
  <1>1. ASSUME IInv PROVE EndsAfterAllRounds
    <2>1. Types /\ Counted
      BY <1>1 DEF IInv
    <2>2. rounds \in Nat /\ check_ack_timeout \in Nat /\ NetTries \in Nat
      BY <2>1, Tries DEF Types
    <2>3. CASE at \in Network
      BY <2>1, <2>2, <2>3 DEF Counted, EndsAfterAllRounds, Network
    <2>4. CASE at \notin Network
      <3>1. at \in PowerOn \cup Booting \/ at \in Upload \cup {"IDLE"} \/ at = "ENDED"
        BY <2>1, <2>4 DEF Types, Point, Command
      <3>2. rounds <= NetTries
        BY <2>1, <2>2, <3>1 DEF Counted
      <3> QED
        BY <2>1, <3>2 DEF Counted, EndsAfterAllRounds
    <2> QED
      BY <2>3, <2>4
  <1> QED
    BY <1>1, Invariance, PTL

\* A module whose configuration was written is restarted before the network is
\* queried.
THEOREM RestartsConfigured == Spec => []RebootAfterConfig
  <1>1. IInv => RebootAfterConfig
    BY DEF IInv, Pending, RebootAfterConfig
  <1> QED
    BY <1>1, Invariance, PTL

=============================================================================
