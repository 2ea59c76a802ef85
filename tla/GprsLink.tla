----------------------------- MODULE GprsLink ------------------------------
(***************************************************************************)
(* How lid_master brings up its GPRS connection.  Two tasks share          *)
(* GprsData.msgack without a lock: master_monitor runs gprs_rst(), which   *)
(* sends AT commands and polls msgack, and master_gprs reads the modem's   *)
(* answers and stores what it recognises in msgack.  Neither knows which   *)
(* command an answer belongs to.                                           *)
(*                                                                         *)
(* gprs_rst() is a script of steps: 1 is gprs_register(), the next         *)
(* SetSteps ones are set_sconType() .. set_address(), then into_establish()*)
(* and into_transparent().  Step 0 stands for AT^SSYNC, which is written   *)
(* and not waited for.  The modem and the serial line are external: a      *)
(* command may be lost, answered late, or refused.                         *)
(*                                                                         *)
(* rx holds the kinds of answer in the receive buffer: master_gprs only    *)
(* asks, with strstr(), which kinds a read contains, and of several        *)
(* +CREG: answers it looks at the first.                                   *)
(***************************************************************************)
EXTENDS Naturals, Sequences

CONSTANTS
    SetSteps,    \* set_*() steps of gprs_tcpinit(); 5 in the code
    Limit,       \* Limit[k]: the bound cnt is compared with in step k
    LineSize     \* commands on their way to the modem at most

Register    == 1
Establish   == SetSteps + 2
Transparent == SetSteps + 3
Steps       == 1 .. Transparent

ASSUME SetStepsAssumption == SetSteps \in Nat
ASSUME LimitAssumption    == Limit \in [Steps -> Nat]
ASSUME LineSizeAssumption == LineSize \in Nat \ {0}

VARIABLES
    msgack,     \* GprsData.msgack
    mpc,        \* where master_monitor is
    step, cnt,  \* its step and the step's counter
    result,     \* what gprs_rst() returned
    rpc,        \* where master_gprs is
    cArray,     \* kinds of answer in the last read
    rx,         \* kinds of answer in the receive buffer
    line,       \* commands the modem has not executed
    registered, opened, online,   \* what the modem has answered or done
    sent,       \* history: writes of each step's command
    acked,      \* history: steps that ended on ACK
    acks        \* history: times master_gprs stored ACK

taskVars  == <<msgack, mpc, step, cnt, result, rpc, cArray>>
modemVars == <<rx, line, registered, opened, online>>
histVars  == <<sent, acked, acks>>
vars      == <<taskVars, modemVars, histVars>>

\* A command is the number of its step; OkDue stands for the OK line that ends
\* the answer to AT+CREG?.
OkDue   == SetSteps + 4
Command == 0 .. OkDue
Answer  == {"CREG0", "CREG1", "CONNECT", "OK", "ERROR"}
Ack     == {"NOACK", "ACK", "REGOK", "CONNECT"}

\* Mutant of Goal: into_transparent() waits for OK.
GoalAck(k) == IF k = Register THEN "REGOK" ELSE "ACK"

\* The value of msgack a step waits for.
Goal(k) == CASE k = Register    -> "REGOK"
             [] k = Transparent -> "CONNECT"
             [] OTHER           -> "ACK"

Init ==
    /\ msgack = "NOACK" /\ mpc = "reset" /\ step = Register /\ cnt = 0
    /\ result = "RUN" /\ rpc = "start" /\ cArray = {}
    /\ rx = {} /\ line = <<>>
    /\ registered = FALSE /\ opened = FALSE /\ online = FALSE
    /\ sent = [k \in Steps |-> 0] /\ acked = 0 /\ acks = 0

\* write(): the command reaches the modem, or is lost.
Write(k) ==
    \/ Len(line) < LineSize /\ line' = Append(line, k)
    \/ line' = line

-----------------------------------------------------------------------------
(***************************************************************************)
(* master_monitor                                                          *)
(***************************************************************************)

\* Mutant of ClearAck: the last answer is kept.
KeepAck == UNCHANGED msgack

\* gprs->msgack = NOACK, at the beginning and at the end of every step.
ClearAck == msgack' = "NOACK"

\* gprs_rst(): power cycle and AT^SSYNC=1, then gprs_register() begins.
Reset ==
    /\ mpc = "reset"
    /\ mpc' = "loop"
    /\ Write(0)
    /\ ClearAck
    /\ UNCHANGED <<step, cnt, result, rpc, cArray, rx, registered, opened, online>>
    /\ UNCHANGED histVars

\* while (gprs->msgack != ...): not yet; every step but into_establish()
\* writes its command again.
Retry ==
    /\ mpc = "loop"
    /\ msgack # Goal(step)
    /\ mpc' = "sleep"
    /\ IF step = Establish
       THEN UNCHANGED <<line, sent>>
       ELSE Write(step) /\ sent' = [sent EXCEPT ![step] = @ + 1]
    /\ UNCHANGED <<msgack, step, cnt, result, rpc, cArray, rx, registered, opened, online,
                   acked, acks>>

\* Mutant of Wake: the failing test comes one round early.
WakeEarly ==
    /\ mpc = "sleep"
    /\ cnt' = cnt + 1
    /\ IF cnt >= Limit[step]
       THEN mpc' = "done" /\ result' = "FAIL" /\ ClearAck
       ELSE mpc' = "loop" /\ UNCHANGED <<result, msgack>>
    /\ UNCHANGED <<step, rpc, cArray>>
    /\ UNCHANGED modemVars
    /\ UNCHANGED histVars

\* Mutant of Wake: into_establish() does not count its seconds.
WakeUncounted ==
    /\ mpc = "sleep"
    /\ cnt' = IF step = Establish THEN cnt ELSE cnt + 1
    /\ IF cnt > Limit[step]
       THEN mpc' = "done" /\ result' = "FAIL" /\ ClearAck
       ELSE mpc' = "loop" /\ UNCHANGED <<result, msgack>>
    /\ UNCHANGED <<step, rpc, cArray>>
    /\ UNCHANGED modemVars
    /\ UNCHANGED histVars

\* The sleep is over: if (cnt++ > Limit) the step, and with it gprs_rst(), fails.
Wake ==
    /\ mpc = "sleep"
    /\ cnt' = cnt + 1
    /\ IF cnt > Limit[step]
       THEN mpc' = "done" /\ result' = "FAIL" /\ ClearAck
       ELSE mpc' = "loop" /\ UNCHANGED <<result, msgack>>
    /\ UNCHANGED <<step, rpc, cArray>>
    /\ UNCHANGED modemVars
    /\ UNCHANGED histVars

\* The loop ends on the awaited value.  msgack is cleared later, in NextStep.
StepOk ==
    /\ mpc = "loop"
    /\ msgack = Goal(step)
    /\ mpc' = "next"
    /\ acked' = IF Goal(step) = "ACK" THEN acked + 1 ELSE acked
    /\ UNCHANGED <<msgack, step, cnt, result, rpc, cArray, sent, acks>>
    /\ UNCHANGED modemVars

\* The step returns SUCCESS and the next one begins; into_establish() writes
\* its command once, before its loop.
NextStep ==
    /\ mpc = "next"
    /\ ClearAck
    /\ IF step = Transparent
       THEN /\ mpc' = "done" /\ result' = "SUCCESS"
            /\ UNCHANGED <<step, cnt, line, sent>>
       ELSE /\ mpc' = "loop" /\ step' = step + 1 /\ cnt' = 0
            /\ UNCHANGED result
            /\ IF step' = Establish
               THEN Write(Establish) /\ sent' = [sent EXCEPT ![Establish] = @ + 1]
               ELSE UNCHANGED <<line, sent>>
    /\ UNCHANGED <<rpc, cArray, rx, registered, opened, online, acked, acks>>

Monitor == Reset \/ Retry \/ Wake \/ StepOk \/ NextStep

-----------------------------------------------------------------------------
(***************************************************************************)
(* master_gprs                                                             *)
(***************************************************************************)

\* The task starts, possibly after master_monitor has begun; it ends at once
\* when the device cannot be opened.
Start ==
    /\ rpc = "start"
    /\ rpc' \in {"select", "ended"}
    /\ ClearAck
    /\ UNCHANGED <<mpc, step, cnt, result, cArray>>
    /\ UNCHANGED modemVars
    /\ UNCHANGED histVars

\* select() reports data; 300 ms later it is read, or as much of it as fits in
\* cArray, or nothing when read() fails.
Read ==
    /\ rpc = "select"
    /\ rx # {}
    /\ rpc' = "handle"
    /\ \E c \in SUBSET rx : cArray' = c /\ rx' = rx \ c
    /\ UNCHANGED <<msgack, mpc, step, cnt, result, line, registered, opened, online>>
    /\ UNCHANGED histVars

\* Mutant of Recognised: any answer to AT+CREG? will do.
RecognisedAnyReg(c) ==
    CASE "CREG1" \in c   -> "REGOK"
      [] "CREG0" \in c   -> "REGOK"
      [] "CONNECT" \in c -> "CONNECT"
      [] "OK" \in c      -> "ACK"
      [] OTHER           -> "NOACK"

\* What a read means: the first kind found decides.
Recognised(c) ==
    CASE "CREG1" \in c   -> "REGOK"
      [] "CREG0" \in c   -> "NOACK"
      [] "CONNECT" \in c -> "CONNECT"
      [] "OK" \in c      -> "ACK"
      [] OTHER           -> "NOACK"

\* tcflush() drops what came after the read; then the answer is recognised.
Handle ==
    /\ rpc = "handle"
    /\ rpc' = "select"
    /\ rx' = {}
    /\ cArray' = {}
    /\ msgack' = IF Recognised(cArray) = "NOACK" THEN msgack ELSE Recognised(cArray)
    /\ acks' = IF Recognised(cArray) = "ACK" THEN acks + 1 ELSE acks
    /\ UNCHANGED <<mpc, step, cnt, result, line, registered, opened, online, sent, acked>>

Receiver == Start \/ Read \/ Handle

-----------------------------------------------------------------------------
(***************************************************************************)
(* The modem (external)                                                    *)
(***************************************************************************)

\* Only the first +CREG: answer of a read is looked at.
Answered(a) ==
    rx' = IF a \in {"CREG0", "CREG1"} /\ rx \cap {"CREG0", "CREG1"} # {}
          THEN rx ELSE rx \cup {a}

\* The oldest command is executed; in transparent mode it is data.
ModemStep ==
    /\ line # <<>>
    /\ LET c == Head(line) IN
         \/ /\ online
            /\ line' = Tail(line)
            /\ UNCHANGED <<rx, registered, opened, online>>
         \/ /\ ~online /\ c = Register
            /\ \E a \in {"CREG0", "CREG1"} :
                 Answered(a) /\ registered' = (registered \/ a = "CREG1")
            /\ line' = <<OkDue>> \o Tail(line)
            /\ UNCHANGED <<opened, online>>
         \/ /\ ~online /\ c \notin {Register, Transparent}
            /\ line' = Tail(line)
            /\ \/ Answered("OK") /\ opened' = (opened \/ c = Establish)
               \/ Answered("ERROR") /\ UNCHANGED opened
            /\ UNCHANGED <<registered, online>>
         \/ /\ ~online /\ c = Transparent
            /\ line' = Tail(line)
            /\ \/ opened /\ Answered("CONNECT") /\ online' = TRUE
               \/ Answered("ERROR") /\ UNCHANGED online
            /\ UNCHANGED <<registered, opened>>
    /\ UNCHANGED taskVars
    /\ UNCHANGED histVars

Next == Monitor \/ Receiver \/ ModemStep

Spec == Init /\ [][Next]_vars

\* The sleeps of master_monitor end and the task is scheduled; nothing is
\* assumed of the modem or of master_gprs.
FairSpec == Spec /\ WF_vars(Monitor)

-----------------------------------------------------------------------------

\* Types of the shared and local state of both tasks; gprs_rst() never runs past
\* its last step.
TypeOK ==
    /\ msgack \in Ack
    /\ mpc \in {"reset", "loop", "sleep", "next", "done"}
    /\ step \in Steps
    /\ cnt \in Nat
    /\ result \in {"RUN", "SUCCESS", "FAIL"}
    /\ rpc \in {"start", "select", "handle", "ended"}
    /\ cArray \subseteq Answer
    /\ rx \subseteq Answer
    /\ line \in Seq(Command)
    /\ registered \in BOOLEAN /\ opened \in BOOLEAN /\ online \in BOOLEAN
    /\ sent \in [Steps -> Nat]
    /\ acked \in Nat /\ acks \in Nat

\* gprs_rst() only reports SUCCESS once the modem is in transparent mode,
\* although any late answer to any command may have ended the steps before.
SuccessMeansOnline == result = "SUCCESS" => online

\* No step after gprs_register() begins before the modem has reported that
\* it is registered in a network.
RegisteredFirst == step > Register => registered

\* Every step that ended on ACK used up an ACK of its own: one OK never ends
\* two steps, although msgack is cleared by one task and set by the other.
OneAckPerStep == acked <= acks

\* A step writes its command at most Limit + 2 times, and gprs_rst() gives up
\* only after all of them; into_establish() writes once.
RetryBudget ==
    /\ \A k \in Steps : sent[k] <= (IF k = Establish THEN 1 ELSE Limit[k] + 2)
    /\ result = "FAIL" /\ step # Establish => sent[step] = Limit[step] + 2

\* gprs_rst() returns, whatever the modem and master_gprs do.
ResetReturns == <>(result # "RUN")

=============================================================================
