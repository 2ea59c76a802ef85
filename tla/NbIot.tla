------------------------------- MODULE NbIot -------------------------------
(***************************************************************************)
(* The NB_Iot task: it powers the BC95 module up, configures it, waits for *)
(* the network, creates a UDP socket and then sends the device's state     *)
(* after every 10 s of silence.  It is one sequence of AT commands, each   *)
(* sent by NB_Iot_send_cmd(), which takes for the answer whatever is in    *)
(* the receive buffer when select() reports something: an answer to an     *)
(* earlier command, or an unsolicited line.                                *)
(*                                                                         *)
(* at is the command the task is about to send (phase "send") or waits     *)
(* for (phase "wait"); NEUL and NEUL2 are the two NB_Iot_check_ack() calls *)
(* after the restart, IDLE the select() of the upload loop.  tv_sec is 0   *)
(* when at is NSOST and 10 when it is IDLE or NSORF.  The module and the   *)
(* line to it are external: rx holds the kinds of text in the receive      *)
(* buffer, line the commands the module has not executed.                  *)
(***************************************************************************)
EXTENDS Naturals, Sequences

CONSTANTS
    AtTries, SetTries, BootTries, NetTries,  \* check_ack_timeout: 10, 3, 10, 20
    LineSize       \* commands on their way to the module at most

ASSUME TriesAssumption ==
    /\ AtTries \in Nat
    /\ {SetTries, BootTries, NetTries} \subseteq Nat \ {0}
ASSUME LineSizeAssumption == LineSize \in Nat \ {0}

VARIABLES
    at, phase,
    check_ack_timeout, ue_exist_flag, ue_need_reboot_flag,
    attached_flag, res, socket_id,
    rx, line,
    auto, band,      \* the module's configuration
    told,            \* history: the states of the network the module has reported
    acked,           \* history: AT and network queries that returned 0
    written,         \* history: commands of BC95_power_on() sent
    rounds           \* history: AT+CSCON? sent

flags   == <<ue_exist_flag, ue_need_reboot_flag, attached_flag, res, socket_id>>
module  == <<rx, line, auto, band, told>>
history == <<acked, written, rounds>>
vars    == <<at, phase, check_ack_timeout, flags, module, history>>

PowerOn == {"AT", "NCONFIG?", "NCONFIG=", "NBAND?", "NBAND=", "NRB"}
Booting == {"NEUL", "NEUL2"}
Network == {"CSCON?", "CGATT?", "CEREG?"}
Upload  == {"NSOCR", "NSOST", "NSORF"}
Command == PowerOn \cup Network \cup Upload
Point   == Command \cup Booting \cup {"IDLE", "ENDED"}

\* NEUL on the line is the banner the module sends once it has restarted.
OnLine == Command \cup {"NEUL"}

Online == {"CSCON1", "CGATT1", "CEREG1"}
Text == Online \cup {"OK", "AUTOFALSE", "NBAND5", "REBOOT", "Neul", "NSONMI", "OTHER"}

\* The string NB_Iot_send_cmd() looks for.
Expected(c) ==
    CASE c = "NCONFIG?"             -> "AUTOFALSE"
      [] c \in {"NBAND?", "NBAND="} -> "NBAND5"
      [] c = "NRB"                  -> "REBOOT"
      [] c = "CSCON?"               -> "CSCON1"
      [] c = "CGATT?"               -> "CGATT1"
      [] c = "CEREG?"               -> "CEREG1"
      [] c \in Booting              -> "Neul"
      [] OTHER                      -> "OK"

Init ==
    /\ at = "AT" /\ phase = "send"
    /\ check_ack_timeout = AtTries /\ ue_exist_flag = 1 /\ ue_need_reboot_flag = 0
    /\ attached_flag = 0 /\ res = 0 /\ socket_id = 7
    /\ rx = {} /\ line = <<>> /\ auto \in BOOLEAN /\ band \in BOOLEAN /\ told = {}
    /\ acked = {} /\ written = {} /\ rounds = 0

-----------------------------------------------------------------------------
(***************************************************************************)
(* NB_Iot_send_cmd()                                                       *)
(***************************************************************************)

\* write(): the command reaches the module, or is lost.
SendCmd ==
    /\ phase = "send" /\ at \in Command
    /\ phase' = "wait"
    /\ \/ Len(line) < LineSize /\ line' = Append(line, at)
       \/ line' = line
    /\ written' = written \cup ({at} \cap PowerOn)
    /\ rounds' = IF at = "CSCON?" THEN rounds + 1 ELSE rounds
    /\ UNCHANGED <<at, check_ack_timeout, flags, rx, auto, band, told, acked>>

\* NB_Iot_check_ack(): the buffer is cleared, what read() gives is searched, and
\* tcflush() drops the rest.
CheckAck(c, found) ==
    /\ \E buf \in SUBSET rx : found = (Expected(c) \in buf)
    /\ rx' = {}

\* NB_Iot_send_cmd() returns 0 (ok) or 1: time-out, select() error, or text
\* that does not hold the expected string.
Returns(c, ok) ==
    /\ at = c /\ phase = "wait"
    /\ \/ rx = {} /\ ok = FALSE /\ UNCHANGED rx
       \/ rx # {} /\ CheckAck(c, ok)
    /\ acked' = IF ok THEN acked \cup ({c} \cap ({"AT"} \cup Network)) ELSE acked
    /\ UNCHANGED <<line, auto, band, told, written, rounds>>

GoTo(p) == at' = p /\ phase' = "send"

-----------------------------------------------------------------------------
(***************************************************************************)
(* BC95_power_on()                                                         *)
(***************************************************************************)

\* query_net_status() begins.
ToNetwork == GoTo("CSCON?") /\ check_ack_timeout' = NetTries

\* The last test of BC95_power_on(), with the value of ue_need_reboot_flag.
ToReboot(need) ==
    IF need = 1
    THEN GoTo("NRB") /\ check_ack_timeout' = BootTries /\ ue_need_reboot_flag' = 0
    ELSE ToNetwork /\ ue_need_reboot_flag' = need

\* while (NB_Iot_send_cmd("AT","OK",5) && check_ack_timeout): ue_exist_flag is
\* cleared by a failure and not set again by a success.
AtReturns(ok) ==
    /\ Returns("AT", ok)
    /\ IF ~ok /\ check_ack_timeout > 0
       THEN /\ GoTo("AT")
            /\ check_ack_timeout' = check_ack_timeout - 1
            /\ ue_exist_flag' = 0
       ELSE /\ UNCHANGED ue_exist_flag
            /\ IF ue_exist_flag = 1
               THEN GoTo("NCONFIG?") /\ UNCHANGED check_ack_timeout
               ELSE ToNetwork
    /\ UNCHANGED <<ue_need_reboot_flag, attached_flag, res, socket_id>>

ModeQueried(ok) ==
    /\ Returns("NCONFIG?", ok)
    /\ IF ok
       THEN GoTo("NCONFIG=") /\ check_ack_timeout' = SetTries - 1
       ELSE GoTo("NBAND?") /\ UNCHANGED check_ack_timeout
    /\ UNCHANGED flags

\* The loop ends, saying "auto mode set", when the command FAILS; after a
\* success it is sent again.
ModeSet(ok) ==
    /\ Returns("NCONFIG=", ok)
    /\ IF ok /\ check_ack_timeout > 0
       THEN /\ GoTo("NCONFIG=")
            /\ check_ack_timeout' = check_ack_timeout - 1
            /\ UNCHANGED ue_need_reboot_flag
       ELSE /\ GoTo("NBAND?")
            /\ ue_need_reboot_flag' = 1
            /\ UNCHANGED check_ack_timeout
    /\ UNCHANGED <<ue_exist_flag, attached_flag, res, socket_id>>

BandQueried(ok) ==
    /\ Returns("NBAND?", ok)
    /\ IF ok
       THEN ToReboot(ue_need_reboot_flag)
       ELSE GoTo("NBAND=") /\ UNCHANGED <<check_ack_timeout, ue_need_reboot_flag>>
    /\ UNCHANGED <<ue_exist_flag, attached_flag, res, socket_id>>

\* Mutant of BandSet: the changed band does not ask for a restart.
BandSetNoReboot(ok) ==
    /\ Returns("NBAND=", ok)
    /\ ToReboot(ue_need_reboot_flag)
    /\ UNCHANGED <<ue_exist_flag, attached_flag, res, socket_id>>

BandSet(ok) ==
    /\ Returns("NBAND=", ok)
    /\ ToReboot(1)
    /\ UNCHANGED <<ue_exist_flag, attached_flag, res, socket_id>>

Rebooted(ok) ==
    /\ Returns("NRB", ok)
    /\ GoTo("NEUL")
    /\ UNCHANGED <<check_ack_timeout, flags>>

\* Mutant of NeulChecked: only an answer ends the loop.
NeulUncounted(found) ==
    /\ at \in Booting
    /\ CheckAck(at, found)
    /\ IF found THEN ToNetwork ELSE GoTo("NEUL") /\ UNCHANGED check_ack_timeout
    /\ UNCHANGED <<flags, line, auto, band, told, history>>

\* The two reads of the loop that waits for the banner; both pass when the
\* text is found, the second one counts.
NeulChecked(found) ==
    /\ at \in Booting
    /\ CheckAck(at, found)
    /\ CASE found \/ (at = "NEUL2" /\ check_ack_timeout = 1) -> ToNetwork
         [] ~found /\ at = "NEUL" -> GoTo("NEUL2") /\ UNCHANGED check_ack_timeout
         [] OTHER -> GoTo("NEUL") /\ check_ack_timeout' = check_ack_timeout - 1
    /\ UNCHANGED <<flags, line, auto, band, told, history>>

-----------------------------------------------------------------------------
(***************************************************************************)
(* query_net_status()                                                      *)
(***************************************************************************)

\* The function returns r; NB_Iot() goes on unless it is 0.
NetResult(r) ==
    /\ res' = r
    /\ GoTo(IF r # 0 THEN "NSOCR" ELSE "ENDED")

\* Mutant of NextRound: the count is not tested.
NextRoundUntested(r) ==
    /\ check_ack_timeout' = check_ack_timeout - 1
    /\ GoTo("CSCON?") /\ res' = r

\* Mutant of NextRound: the last round is left out.
NextRoundShort(r) ==
    /\ check_ack_timeout' = check_ack_timeout - 1
    /\ IF check_ack_timeout = 2
       THEN NetResult(r)
       ELSE GoTo("CSCON?") /\ res' = r

\* The end of a round, with r in res.
NextRound(r) ==
    /\ check_ack_timeout' = check_ack_timeout - 1
    /\ IF check_ack_timeout = 1
       THEN NetResult(r)
       ELSE GoTo("CSCON?") /\ res' = r

ConnectionQueried(ok) ==
    /\ Returns("CSCON?", ok)
    /\ IF ok
       THEN NetResult(1)
       ELSE GoTo(IF attached_flag = 0 THEN "CGATT?" ELSE "CEREG?") /\ UNCHANGED res
    /\ UNCHANGED <<check_ack_timeout, ue_exist_flag, ue_need_reboot_flag, attached_flag,
                   socket_id>>

\* Mutant of AttachQueried: an attached module is taken for a registered one.
AttachSuffices(ok) ==
    /\ Returns("CGATT?", ok)
    /\ IF ok
       THEN attached_flag' = 1 /\ NetResult(1) /\ UNCHANGED check_ack_timeout
       ELSE NextRound(res) /\ UNCHANGED attached_flag
    /\ UNCHANGED <<ue_exist_flag, ue_need_reboot_flag, socket_id>>

AttachQueried(ok) ==
    /\ Returns("CGATT?", ok)
    /\ IF ok
       THEN attached_flag' = 1 /\ res' = 2 /\ GoTo("CEREG?") /\ UNCHANGED check_ack_timeout
       ELSE NextRound(res) /\ UNCHANGED attached_flag
    /\ UNCHANGED <<ue_exist_flag, ue_need_reboot_flag, socket_id>>

RegistrationQueried(ok) ==
    /\ Returns("CEREG?", ok)
    /\ IF ok
       THEN NetResult(1) /\ check_ack_timeout' = check_ack_timeout - 1
       ELSE NextRound(res)
    /\ UNCHANGED <<ue_exist_flag, ue_need_reboot_flag, attached_flag, socket_id>>

-----------------------------------------------------------------------------
(***************************************************************************)
(* NB_Iot(): the socket and the upload loop.                               *)
(***************************************************************************)

\* creat_UDP_socket() returns 7, or the digit in the third place of the answer, one
\* of the module's sockets; another text that ends in OK has no digit there and
\* reads as 0.
SocketCreated(ok) ==
    /\ Returns("NSOCR", ok)
    /\ socket_id' \in IF ok THEN 0 .. 6 ELSE {7}
    /\ GoTo("NSOST")
    /\ UNCHANGED <<check_ack_timeout, ue_exist_flag, ue_need_reboot_flag, attached_flag, res>>

\* send_UDP_msg() and AT+NSORF: the result is printed, no more.
UploadReturns(ok) ==
    /\ Returns("NSOST", ok) \/ Returns("NSORF", ok)
    /\ GoTo("IDLE")
    /\ UNCHANGED <<check_ack_timeout, flags>>

\* Mutant of Quiet: tv_sec keeps its value.
QuietKept ==
    /\ at = "IDLE" /\ rx = {}
    /\ GoTo("IDLE")
    /\ UNCHANGED <<check_ack_timeout, flags, module, history>>

\* select() ends after 10 s: tv_sec is cleared and the next report is sent.
Quiet ==
    /\ at = "IDLE" /\ rx = {}
    /\ GoTo("NSOST")
    /\ UNCHANGED <<check_ack_timeout, flags, module, history>>

\* Data: a notification of a datagram is answered by AT+NSORF, other text is
\* dropped; the 10 s begin again.
Heard ==
    /\ at = "IDLE" /\ rx # {}
    /\ \E buf \in SUBSET rx : GoTo(IF "NSONMI" \in buf THEN "NSORF" ELSE "IDLE")
    /\ rx' = {}
    /\ UNCHANGED <<check_ack_timeout, flags, line, auto, band, told, history>>

Task ==
    \/ SendCmd \/ Quiet \/ Heard
    \/ \E ok \in BOOLEAN :
          \/ AtReturns(ok) \/ ModeQueried(ok) \/ ModeSet(ok) \/ BandQueried(ok)
          \/ BandSet(ok) \/ Rebooted(ok) \/ NeulChecked(ok)
          \/ ConnectionQueried(ok) \/ AttachQueried(ok) \/ RegistrationQueried(ok)
          \/ SocketCreated(ok) \/ UploadReturns(ok)

-----------------------------------------------------------------------------
(***************************************************************************)
(* The module (external)                                                   *)
(***************************************************************************)

Says(texts) == rx' = rx \cup texts /\ told' = told \cup (texts \cap Online)

\* The oldest command is executed or refused.
Executes ==
    /\ line # <<>>
    /\ LET c == Head(line) IN
         \/ /\ c # "NEUL"
            /\ Says({"OTHER"}) /\ line' = Tail(line) /\ UNCHANGED <<auto, band>>
         \/ /\ c = "NRB"
            /\ Says({"REBOOT"}) /\ line' = <<"NEUL">> /\ UNCHANGED <<auto, band>>
         \/ /\ c = "NEUL"
            /\ Says({"Neul"}) /\ line' = Tail(line) /\ UNCHANGED <<auto, band>>
         \/ /\ c \in {"NCONFIG?", "NBAND?"} \cup Network
            /\ LET yes == CASE c = "NCONFIG?" -> {~auto}
                            [] c = "NBAND?"   -> {band}
                            [] OTHER          -> BOOLEAN
               IN  \E y \in yes : Says({"OK", IF y THEN Expected(c) ELSE "OTHER"})
            /\ line' = Tail(line) /\ UNCHANGED <<auto, band>>
         \/ /\ c \in {"AT", "NCONFIG=", "NBAND="} \cup Upload
            /\ Says({"OK"}) /\ line' = Tail(line)
            /\ auto' = (auto \/ c = "NCONFIG=") /\ band' = (band \/ c = "NBAND=")
    /\ UNCHANGED <<at, phase, check_ack_timeout, flags, history>>

\* A datagram has arrived.
Notifies ==
    /\ at \in {"NSOST", "NSORF", "IDLE"}
    /\ Says({"NSONMI"})
    /\ UNCHANGED <<at, phase, check_ack_timeout, flags, line, auto, band, history>>

Next == Task \/ Executes \/ Notifies

Spec == Init /\ [][Next]_vars

\* Every select() of the task has a time-out and the task is scheduled;
\* nothing is assumed of the module.
FairSpec == Spec /\ WF_vars(Task)

-----------------------------------------------------------------------------

\* Types of the task's state; check_ack_timeout is never counted below zero and
\* no flag has another value than 0 and 1.
TypeOK ==
    /\ at \in Point /\ phase \in {"send", "wait"}
    /\ check_ack_timeout \in Nat
    /\ {ue_exist_flag, ue_need_reboot_flag, attached_flag} \subseteq {0, 1}
    /\ res \in 0 .. 2 /\ socket_id \in 0 .. 7
    /\ rx \subseteq Text /\ told \subseteq Online /\ line \in Seq(OnLine)
    /\ auto \in BOOLEAN /\ band \in BOOLEAN
    /\ acked \subseteq Command /\ written \subseteq PowerOn /\ rounds \in Nat

\* query_net_status() never claims more than the module has reported, although
\* every text may be the answer to an earlier command: 1 after a connection or
\* a registration, 2 after an attachment, and nothing is uploaded without one.
NetResultTrue ==
    /\ res = 1 => {"CSCON1", "CEREG1"} \cap told # {}
    /\ res = 2 => "CGATT1" \in told
    /\ at \in Upload \cup {"IDLE"} => res # 0

\* The task gives up only after all the rounds, in none of which it has seen
\* the module attached or connected.
EndsAfterAllRounds ==
    /\ rounds <= NetTries
    /\ at = "ENDED" => rounds = NetTries /\ Network \cap acked = {}

\* When the network is queried, a module whose configuration was written has
\* been sent the restart that makes it effective.
RebootAfterConfig ==
    at \notin PowerOn /\ {"NCONFIG=", "NBAND="} \cap written # {} => "NRB" \in written

\* Bring-up ends, whatever the module does: the task uploads or terminates.
BringUpEnds == <>(at \in {"IDLE", "ENDED"})

\* The task terminates, or it sends its report again and again unless the
\* module never stops talking.
UploadsGoOn == <>[](at = "ENDED") \/ []<>(at = "NSOST") \/ []<>(rx # {})

-----------------------------------------------------------------------------
(***************************************************************************)
(* A statement of the source that the code does not keep.                  *)
(***************************************************************************)

\* BC95_power_on() checks the mode of a module that has answered AT.
ModeChecked == at \in Network /\ "AT" \in acked => "NCONFIG?" \in written

=============================================================================
