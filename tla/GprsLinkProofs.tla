-------------------------- MODULE GprsLinkProofs ---------------------------
(***************************************************************************)
(* For every number of set steps, every retry limit and every line: what   *)
(* gprs_rst() concludes from msgack is true of the modem, and it never     *)
(* exceeds its retries.                                                    *)
(***************************************************************************)
EXTENDS GprsLink, TLAPS

\* CONNECT, wherever it is on its way to master_monitor, comes from a modem in
\* transparent mode; a step that has seen it may still have to clear it.
ConnectTrue ==
    /\ msgack = "CONNECT" \/ "CONNECT" \in cArray \/ "CONNECT" \in rx => online
    /\ mpc = "next" /\ step = Transparent => online
    /\ result = "SUCCESS" => online

\* The same for the report of a network registration.
RegisterTrue ==
    /\ msgack = "REGOK" \/ "CREG1" \in cArray \/ "CREG1" \in rx => registered
    /\ mpc = "next" /\ step = Register => registered
    /\ step > Register => registered

\* An ACK that has not ended a step yet is one more than the steps it ended.
AckCounted ==
    /\ acked <= acks
    /\ msgack = "ACK" /\ mpc # "next" => acked < acks

\* cnt counts the writes of the step under way.
Written ==
    /\ \A k \in Steps : k < step => sent[k] <= (IF k = Establish THEN 1 ELSE Limit[k] + 2)
    /\ \A k \in Steps : k > step => sent[k] = 0
    /\ step = Establish => sent[step] <= 1
    /\ step # Establish /\ mpc \in {"reset", "loop", "next"} => sent[step] = cnt
    /\ step # Establish /\ mpc = "sleep" => sent[step] = cnt + 1
    /\ mpc \in {"reset", "loop", "sleep", "next"} => cnt <= Limit[step] + 1
    /\ step # Establish /\ mpc = "done" => sent[step] <= Limit[step] + 2
    /\ step # Establish /\ result = "FAIL" => sent[step] = Limit[step] + 2
    /\ result # "RUN" <=> mpc = "done"
    /\ mpc = "reset" => step = Register /\ cnt = 0

\* TypeOK but for the line, of which nothing else is said.
Types ==
    /\ msgack \in Ack
    /\ mpc \in {"reset", "loop", "sleep", "next", "done"}
    /\ step \in Steps /\ cnt \in Nat
    /\ result \in {"RUN", "SUCCESS", "FAIL"}
    /\ rpc \in {"start", "select", "handle", "ended"}
    /\ cArray \subseteq Answer /\ rx \subseteq Answer
    /\ registered \in BOOLEAN /\ opened \in BOOLEAN /\ online \in BOOLEAN
    /\ sent \in [Steps -> Nat]
    /\ acked \in Nat /\ acks \in Nat

\* The inductive invariant.
IInv == Types /\ ConnectTrue /\ RegisterTrue /\ AckCounted /\ Written

-----------------------------------------------------------------------------
(***************************************************************************)
(* Facts about the operators.                                              *)
(***************************************************************************)

\* The steps of gprs_rst() are numbered in the order of the script.
LEMMA StepOrder ==
    /\ SetSteps \in Nat
    /\ Steps \subseteq Nat /\ Register \in Steps
    /\ Establish \in Steps /\ Transparent \in Steps
    /\ Register < Establish /\ Establish < Transparent
    /\ \A k \in Steps : k # Transparent => k + 1 \in Steps
    /\ \A k \in Steps : k >= Register /\ Limit[k] \in Nat
  BY SetStepsAssumption, LimitAssumption DEF Steps, Register, Establish, Transparent

\* The values the three kinds of step wait for are different.
LEMMA GoalOf ==
    /\ Goal(Register) = "REGOK"
    /\ Goal(Transparent) = "CONNECT"
    /\ \A k \in Steps : Goal(k) \in {"REGOK", "CONNECT", "ACK"}
    /\ \A k \in Steps : Goal(k) = "REGOK" => k = Register
    /\ \A k \in Steps : Goal(k) = "CONNECT" => k = Transparent
  <1>1. Register # Transparent
    BY SetStepsAssumption DEF Register, Transparent
  <1> QED
    BY <1>1 DEF Goal

\* Writing a command keeps the line a sequence of commands.
LEMMA WriteLine ==
    ASSUME line \in Seq(Command), NEW k \in Command, Write(k)
    PROVE  line' \in Seq(Command)
  BY DEF Write

-----------------------------------------------------------------------------
\* The line holds commands, whoever writes to it or answers.
LEMMA LineTyped ==
    ASSUME Types, line \in Seq(Command), [Next]_vars
    PROVE  line' \in Seq(Command)
  <1>1. /\ 0 \in Command /\ OkDue \in Command
        /\ Establish \in Command /\ step \in Command
    BY SetStepsAssumption
    DEF Types, Command, OkDue, Establish, Steps, Transparent
  <1>2. CASE Reset
    BY <1>2, <1>1, WriteLine DEF Reset
  <1>3. CASE Retry
    BY <1>3, <1>1, WriteLine DEF Retry
  <1>4. CASE NextStep
    BY <1>4, <1>1, WriteLine DEF NextStep
  <1>5. CASE Wake \/ StepOk \/ Receiver \/ UNCHANGED vars
    BY <1>5 DEF Wake, StepOk, Receiver, Start, Read, Handle, vars, taskVars, modemVars, histVars
  <1>6. CASE ModemStep
    <2>1. line # <<>>
      BY <1>6 DEF ModemStep
    <2>2. Tail(line) \in Seq(Command)
      BY <2>1
    <2>3. line' = Tail(line) \/ line' = <<OkDue>> \o Tail(line)
      BY <1>6 DEF ModemStep
    <2>4. <<OkDue>> \o Tail(line) \in Seq(Command)
      BY <2>2, <1>1
    <2> QED
      BY <2>2, <2>3, <2>4
  <1> QED
    BY <1>2, <1>3, <1>4, <1>5, <1>6 DEF Next, Monitor

\* Neither master_gprs nor the modem touches the counters of master_monitor.
LEMMA WrittenFrame ==
    ASSUME Written, UNCHANGED <<mpc, step, cnt, result, sent>>
    PROVE  Written'
  BY DEF Written

-----------------------------------------------------------------------------
(***************************************************************************)
(* The initial states, and the steps of master_monitor.                    *)
(***************************************************************************)

\* The invariant holds when the two tasks start.
LEMMA InitIInv == Init => IInv
  <1> SUFFICES ASSUME Init PROVE IInv
    OBVIOUS
  <1>1. Types
    BY StepOrder DEF Init, Types, Ack, Answer
  <1>2. ConnectTrue /\ RegisterTrue /\ AckCounted
    BY DEF Init, ConnectTrue, RegisterTrue, AckCounted, Register
  <1>3. Written
    BY StepOrder DEF Init, Written
  <1> QED
    BY <1>1, <1>2, <1>3 DEF IInv

\* The power cycle at the beginning of gprs_rst() keeps the invariant.
LEMMA ResetIInv == IInv /\ Reset => IInv'
  <1> SUFFICES ASSUME IInv, Reset PROVE IInv'
    OBVIOUS
  <1>0. /\ mpc = "reset" /\ mpc' = "loop" /\ msgack' = "NOACK"
        /\ UNCHANGED <<step, cnt, result, rpc, cArray, rx, registered, opened, online,
                       sent, acked, acks>>
    BY DEF Reset, ClearAck, histVars
  <1>1. Types'
    BY <1>0 DEF IInv, Types, Ack
  <1>2. ConnectTrue' /\ RegisterTrue' /\ AckCounted'
    BY <1>0 DEF IInv, ConnectTrue, RegisterTrue, AckCounted
  <1>3. Written'
    BY <1>0 DEF IInv, Written
  <1> QED
    BY <1>1, <1>2, <1>3 DEF IInv

\* Writing the command again keeps the invariant.
LEMMA RetryIInv == IInv /\ Retry => IInv'
  <1> SUFFICES ASSUME IInv, Retry PROVE IInv'
    OBVIOUS
  <1>0. /\ mpc = "loop" /\ mpc' = "sleep"
        /\ UNCHANGED <<msgack, step, cnt, result, rpc, cArray, rx, registered, opened, online,
                       acked, acks>>
    BY DEF Retry
  <1>1. /\ step = Establish => sent' = sent
        /\ step # Establish => sent' = [sent EXCEPT ![step] = @ + 1]
    BY DEF Retry
  <1>2. step \in Steps /\ sent \in [Steps -> Nat] /\ cnt \in Nat
    BY DEF IInv, Types
  <1>3. /\ sent' \in [Steps -> Nat]
        /\ \A k \in Steps : k # step => sent'[k] = sent[k]
        /\ step # Establish => sent'[step] = sent[step] + 1
    BY <1>1, <1>2
  <1>4. Types'
    BY <1>0, <1>3 DEF IInv, Types
  <1>5. ConnectTrue' /\ RegisterTrue' /\ AckCounted'
    BY <1>0 DEF IInv, ConnectTrue, RegisterTrue, AckCounted
  <1>6. Written'
    <2>1. Written
      BY DEF IInv
    <2>2. step # Establish => sent'[step] = cnt + 1
      BY <2>1, <1>0, <1>3 DEF Written
    <2>3. \A k \in Steps : (k < step \/ k > step) => k # step
      BY <1>2, StepOrder
    <2>4. step = Establish => sent'[step] <= 1
      BY <2>1, <1>1 DEF Written
    <2> QED
      BY <2>1, <2>2, <2>3, <2>4, <1>0, <1>2, <1>3 DEF Written
  <1> QED
    BY <1>4, <1>5, <1>6 DEF IInv

\* The end of a sleep keeps the invariant: the count is the number of writes.
LEMMA WakeIInv == IInv /\ Wake => IInv'
  <1> SUFFICES ASSUME IInv, Wake PROVE IInv'
    OBVIOUS
  <1>0. /\ mpc = "sleep" /\ cnt' = cnt + 1
        /\ UNCHANGED <<step, rpc, cArray, rx, registered, opened, online, sent, acked, acks>>
    BY DEF Wake, modemVars, histVars
  <1>1. \/ /\ cnt > Limit[step] /\ mpc' = "done" /\ result' = "FAIL" /\ msgack' = "NOACK"
        \/ /\ ~(cnt > Limit[step]) /\ mpc' = "loop" /\ UNCHANGED <<result, msgack>>
    BY DEF Wake, ClearAck
  <1>2. step \in Steps /\ cnt \in Nat /\ Limit[step] \in Nat
    BY StepOrder DEF IInv, Types
  <1>3. Types'
    BY <1>0, <1>1 DEF IInv, Types, Ack
  <1>4. ConnectTrue' /\ RegisterTrue' /\ AckCounted'
    BY <1>0, <1>1 DEF IInv, ConnectTrue, RegisterTrue, AckCounted
  <1>5. Written'
    <2>1. Written
      BY DEF IInv
    <2>2. /\ cnt <= Limit[step] + 1
          /\ step # Establish => sent[step] = cnt + 1
          /\ result = "RUN"
      BY <2>1, <1>0 DEF Written
    <2>3. CASE cnt > Limit[step] /\ mpc' = "done" /\ result' = "FAIL"
      <3>1. step # Establish => sent[step] = Limit[step] + 2
        BY <2>2, <2>3, <1>2
      <3> QED
        BY <3>1, <2>1, <2>3, <1>0, <1>2 DEF Written
    <2>4. CASE ~(cnt > Limit[step]) /\ mpc' = "loop" /\ result' = result
      <3>1. cnt' <= Limit[step] + 1
        BY <2>4, <1>0, <1>2
      <3> QED
        BY <3>1, <2>1, <2>2, <2>4, <1>0, <1>2 DEF Written
    <2> QED
      BY <2>3, <2>4, <1>1
  <1> QED
    BY <1>3, <1>4, <1>5 DEF IInv

\* The loop ends: what msgack says is true of the modem, and an ACK is spent.
LEMMA StepOkIInv == IInv /\ StepOk => IInv'
  <1> SUFFICES ASSUME IInv, StepOk PROVE IInv'
    OBVIOUS
  <1>0. /\ mpc = "loop" /\ mpc' = "next" /\ msgack = Goal(step)
        /\ UNCHANGED <<msgack, step, cnt, result, rpc, cArray, rx, registered, opened, online,
                       sent, acks>>
    BY DEF StepOk, modemVars
  <1>1. acked' = IF Goal(step) = "ACK" THEN acked + 1 ELSE acked
    BY DEF StepOk
  <1>2. acked \in Nat /\ acks \in Nat /\ step \in Steps
    BY DEF IInv, Types
  <1>3. Types'
    BY <1>0, <1>1, <1>2 DEF IInv, Types
  <1>4. ConnectTrue' /\ RegisterTrue'
    BY <1>0, GoalOf DEF IInv, ConnectTrue, RegisterTrue
  <1>5. AckCounted'
    BY <1>0, <1>1, <1>2 DEF IInv, AckCounted
  <1>6. Written'
    BY <1>0 DEF IInv, Written
  <1> QED
    BY <1>3, <1>4, <1>5, <1>6 DEF IInv

\* The return of a step and the start of the next keep the invariant.
LEMMA NextStepIInv == IInv /\ NextStep => IInv'
  <1> SUFFICES ASSUME IInv, NextStep PROVE IInv'
    OBVIOUS
  <1>0. /\ mpc = "next" /\ msgack' = "NOACK"
        /\ UNCHANGED <<rpc, cArray, rx, registered, opened, online, acked, acks>>
    BY DEF NextStep, ClearAck
  <1>1. step \in Steps /\ sent \in [Steps -> Nat] /\ cnt \in Nat /\ Limit[step] \in Nat
    BY StepOrder DEF IInv, Types
  <1>2. CASE step = Transparent
    <2>1. /\ mpc' = "done" /\ result' = "SUCCESS" /\ UNCHANGED <<step, cnt, sent>>
      BY <1>2 DEF NextStep
    <2>2. Types'
      BY <2>1, <1>0 DEF IInv, Types, Ack
    <2>3. ConnectTrue' /\ RegisterTrue' /\ AckCounted'
      BY <2>1, <1>0, <1>2 DEF IInv, ConnectTrue, RegisterTrue, AckCounted
    <2>4. Written'
      BY <2>1, <1>0, <1>1 DEF IInv, Written
    <2> QED
      BY <2>2, <2>3, <2>4 DEF IInv
  <1>3. CASE step # Transparent
    <2>1. mpc' = "loop" /\ step' = step + 1 /\ cnt' = 0 /\ result' = result
      BY <1>3 DEF NextStep
    <2>2. /\ step' = Establish => sent' = [sent EXCEPT ![Establish] = @ + 1]
          /\ step' # Establish => sent' = sent
      BY <1>3 DEF NextStep
    <2>3. step' \in Steps /\ Establish \in Steps
      BY <2>1, <1>1, <1>3, StepOrder
    <2>4. /\ sent' \in [Steps -> Nat]
          /\ \A k \in Steps : k # step' \/ step' # Establish => sent'[k] = sent[k]
          /\ step' = Establish => sent'[step'] = sent[step'] + 1
      BY <2>2, <2>3, <1>1
    <2>5. Types'
      BY <2>1, <2>3, <2>4, <1>0 DEF IInv, Types, Ack
    <2>6. step >= Register /\ (step = Register \/ step > Register)
      BY <1>1, StepOrder DEF Register
    <2>7. ConnectTrue' /\ RegisterTrue' /\ AckCounted'
      BY <2>1, <2>6, <1>0 DEF IInv, ConnectTrue, RegisterTrue, AckCounted
    <2>8. Written'
      <3>1. Written
        BY DEF IInv
      <3>2. /\ sent[step] <= (IF step = Establish THEN 1 ELSE Limit[step] + 2)
            /\ sent[step + 1] = 0
        BY <3>1, <2>1, <2>3, <1>0, <1>1 DEF Written
      <3>3. \A k \in Steps : k < step' => k # step' /\ (k < step \/ k = step)
        BY <2>1, <1>1, StepOrder
      <3>4. \A k \in Steps : k > step' => k # step' /\ k > step
        BY <2>1, <1>1, StepOrder
      <3>5. \A k \in Steps : k < step' => sent'[k] <= (IF k = Establish THEN 1 ELSE Limit[k] + 2)
        BY <3>1, <3>2, <3>3, <2>4 DEF Written
      <3>6. \A k \in Steps : k > step' => sent'[k] = 0
        BY <3>1, <3>4, <2>4 DEF Written
      <3>7. /\ step' = Establish => sent'[step'] <= 1
            /\ step' # Establish => sent'[step'] = 0
        BY <3>2, <2>1, <2>3, <2>4
      <3>8. Limit[step'] \in Nat
        BY <2>3, StepOrder
      <3>9. result' = "RUN"
        BY <3>1, <2>1, <1>0 DEF Written
      <3> QED
        BY <3>5, <3>6, <3>7, <3>8, <3>9, <2>1 DEF Written
    <2> QED
      BY <2>5, <2>7, <2>8 DEF IInv
  <1> QED
    BY <1>2, <1>3

-----------------------------------------------------------------------------
(***************************************************************************)
(* The steps of master_gprs and of the modem.                              *)
(***************************************************************************)

\* The start of master_gprs keeps the invariant.
LEMMA StartIInv == IInv /\ Start => IInv'
  <1> SUFFICES ASSUME IInv, Start PROVE IInv'
    OBVIOUS
  <1>0. /\ rpc' \in {"select", "ended"} /\ msgack' = "NOACK"
        /\ UNCHANGED <<mpc, step, cnt, result, cArray, rx, registered, opened, online,
                       sent, acked, acks>>
    BY DEF Start, ClearAck, modemVars, histVars
  <1>1. Types'
    BY <1>0 DEF IInv, Types, Ack
  <1>2. ConnectTrue' /\ RegisterTrue' /\ AckCounted'
    BY <1>0 DEF IInv, ConnectTrue, RegisterTrue, AckCounted
  <1>3. Written'
    BY <1>0, WrittenFrame DEF IInv
  <1> QED
    BY <1>1, <1>2, <1>3 DEF IInv

\* A read moves answers from the receive buffer to cArray.
LEMMA ReadIInv == IInv /\ Read => IInv'
  <1> SUFFICES ASSUME IInv, Read PROVE IInv'
    OBVIOUS
  <1>0. /\ rpc' = "handle" /\ cArray' \subseteq rx /\ rx' \subseteq rx
        /\ UNCHANGED <<msgack, mpc, step, cnt, result, registered, opened, online,
                       sent, acked, acks>>
    BY DEF Read, histVars
  <1>1. Types'
    BY <1>0 DEF IInv, Types
  <1>2. ConnectTrue' /\ RegisterTrue' /\ AckCounted'
    BY <1>0 DEF IInv, ConnectTrue, RegisterTrue, AckCounted
  <1>3. Written'
    BY <1>0, WrittenFrame DEF IInv
  <1> QED
    BY <1>1, <1>2, <1>3 DEF IInv

\* What is recognised in a read was in it.
LEMMA RecognisedIn ==
    ASSUME NEW c
    PROVE  /\ Recognised(c) \in Ack
           /\ Recognised(c) = "REGOK" => "CREG1" \in c
           /\ Recognised(c) = "CONNECT" => "CONNECT" \in c
  BY DEF Recognised, Ack

\* What master_gprs stores in msgack was in the read.
LEMMA HandleIInv == IInv /\ Handle => IInv'
  <1> SUFFICES ASSUME IInv, Handle PROVE IInv'
    OBVIOUS
  <1>0. /\ rpc' = "select" /\ rx' = {} /\ cArray' = {}
        /\ UNCHANGED <<mpc, step, cnt, result, registered, opened, online, sent, acked>>
    BY DEF Handle
  <1> DEFINE r == Recognised(cArray)
  <1>1. /\ msgack' = IF r = "NOACK" THEN msgack ELSE r
        /\ acks' = IF r = "ACK" THEN acks + 1 ELSE acks
    BY DEF Handle
  <1>2. /\ r \in Ack
        /\ r = "REGOK" => "CREG1" \in cArray
        /\ r = "CONNECT" => "CONNECT" \in cArray
    BY RecognisedIn
  <1> HIDE DEF r
  <1>3. acked \in Nat /\ acks \in Nat
    BY DEF IInv, Types
  <1>4. Types'
    BY <1>0, <1>1, <1>2, <1>3 DEF IInv, Types
  <1>5. ConnectTrue' /\ RegisterTrue'
    BY <1>0, <1>1, <1>2 DEF IInv, ConnectTrue, RegisterTrue
  <1>6. AckCounted'
    BY <1>0, <1>1, <1>3 DEF IInv, AckCounted
  <1>7. Written'
    BY <1>0, WrittenFrame DEF IInv
  <1> QED
    BY <1>4, <1>5, <1>6, <1>7 DEF IInv

\* The modem answers CONNECT only when it goes on line, and +CREG: 0,1 only
\* when it is registered; neither is ever taken back.
LEMMA ModemTruth ==
    ASSUME Types, ModemStep
    PROVE  /\ rx' \subseteq Answer
           /\ registered' \in BOOLEAN /\ opened' \in BOOLEAN /\ online' \in BOOLEAN
           /\ online => online'
           /\ registered => registered'
           /\ "CONNECT" \in rx' => "CONNECT" \in rx \/ online'
           /\ "CREG1" \in rx' => "CREG1" \in rx \/ registered'
  <1> DEFINE c == Head(line)
  <1>1. rx \subseteq Answer
    BY DEF Types
  <1>2. ASSUME NEW a \in Answer, Answered(a)
        PROVE  rx' \subseteq rx \cup {a}
    BY <1>2 DEF Answered
  <1>3. CASE /\ online
             /\ UNCHANGED <<rx, registered, opened, online>>
    BY <1>1, <1>3 DEF Types
  <1>4. CASE /\ \E a \in {"CREG0", "CREG1"} :
                  Answered(a) /\ registered' = (registered \/ a = "CREG1")
             /\ UNCHANGED <<opened, online>>
    BY <1>1, <1>2, <1>4 DEF Types, Answer
  <1>5. CASE /\ \/ Answered("OK") /\ opened' = (opened \/ c = Establish)
                \/ Answered("ERROR") /\ UNCHANGED opened
             /\ UNCHANGED <<registered, online>>
    BY <1>1, <1>2, <1>5 DEF Types, Answer
  <1>6. CASE /\ \/ opened /\ Answered("CONNECT") /\ online' = TRUE
                \/ Answered("ERROR") /\ UNCHANGED online
             /\ UNCHANGED <<registered, opened>>
    BY <1>1, <1>2, <1>6 DEF Types, Answer
  <1> QED
    BY <1>3, <1>4, <1>5, <1>6 DEF ModemStep

\* The modem keeps the invariant.
LEMMA ModemIInv == IInv /\ ModemStep => IInv'
  <1> SUFFICES ASSUME IInv, ModemStep PROVE IInv'
    OBVIOUS
  <1>0. UNCHANGED <<msgack, mpc, step, cnt, result, rpc, cArray, sent, acked, acks>>
    BY DEF ModemStep, taskVars, histVars
  <1>1. /\ rx' \subseteq Answer
        /\ registered' \in BOOLEAN /\ opened' \in BOOLEAN /\ online' \in BOOLEAN
        /\ online => online'
        /\ registered => registered'
        /\ "CONNECT" \in rx' => "CONNECT" \in rx \/ online'
        /\ "CREG1" \in rx' => "CREG1" \in rx \/ registered'
    BY ModemTruth DEF IInv
  <1>2. Types'
    BY <1>0, <1>1 DEF IInv, Types
  <1>3. ConnectTrue' /\ RegisterTrue' /\ AckCounted'
    BY <1>0, <1>1 DEF IInv, ConnectTrue, RegisterTrue, AckCounted
  <1>4. Written'
    BY <1>0, WrittenFrame DEF IInv
  <1> QED
    BY <1>2, <1>3, <1>4 DEF IInv

\* A step that changes nothing keeps the invariant.
LEMMA StutterIInv == IInv /\ UNCHANGED vars => IInv'
  BY DEF IInv, Types, ConnectTrue, RegisterTrue, AckCounted, Written,
         vars, taskVars, modemVars, histVars

-----------------------------------------------------------------------------
(***************************************************************************)
(* The theorems.                                                           *)
(***************************************************************************)

\* What msgack and the modem's answers on their way say is true of the modem,
\* and the counters of master_monitor count its writes, for any number of steps,
\* any limits and any losses.
THEOREM Invariance == Spec => [](IInv /\ line \in Seq(Command))
  <1>1. Init => IInv /\ line \in Seq(Command)
    BY InitIInv DEF Init
  <1>2. IInv /\ line \in Seq(Command) /\ [Next]_vars => (IInv /\ line \in Seq(Command))'
    <2> SUFFICES ASSUME IInv, line \in Seq(Command), [Next]_vars
                 PROVE  IInv' /\ line' \in Seq(Command)
      OBVIOUS
    <2>1. line' \in Seq(Command)
      BY LineTyped DEF IInv
    <2>2. IInv'
      BY ResetIInv, RetryIInv, WakeIInv, StepOkIInv, NextStepIInv, StartIInv, ReadIInv,
         HandleIInv, ModemIInv, StutterIInv DEF Next, Monitor, Receiver
    <2> QED
      BY <2>1, <2>2
  <1> QED
    BY <1>1, <1>2, PTL DEF Spec

\* The type invariant of GprsLink holds in every reachable state.
THEOREM TypeCorrect == Spec => []TypeOK
  <1>1. IInv /\ line \in Seq(Command) => TypeOK
    BY DEF IInv, Types, TypeOK
  <1> QED
    BY <1>1, Invariance, PTL

\* gprs_rst() returns SUCCESS only when the modem is in transparent mode,
\* whatever answers are late, lost or credited to another command.
THEOREM OnlineOnSuccess == Spec => []SuccessMeansOnline
  <1>1. IInv => SuccessMeansOnline
    BY DEF IInv, ConnectTrue, SuccessMeansOnline
  <1> QED
    BY <1>1, Invariance, PTL

\* No step after gprs_register() is begun before the network registration.
THEOREM RegistrationFirst == Spec => []RegisteredFirst
  <1>1. IInv => RegisteredFirst
    BY DEF IInv, RegisterTrue, RegisteredFirst
  <1> QED
    BY <1>1, Invariance, PTL

\* No ACK stored by master_gprs ends two steps of master_monitor.
THEOREM AckUsedOnce == Spec => []OneAckPerStep
  <1>1. IInv => OneAckPerStep
    BY DEF IInv, AckCounted, OneAckPerStep
  <1> QED
    BY <1>1, Invariance, PTL

\* Every step stays within its number of writes, and fails only after all.
THEOREM WithinBudget == Spec => []RetryBudget
  <1>1. ASSUME IInv PROVE RetryBudget
    <2>1. Written /\ Types
      BY <1>1 DEF IInv
    <2>2. step \in Steps /\ cnt \in Nat /\ Limit[step] \in Nat /\ sent[step] \in Nat
      BY <2>1, StepOrder DEF Types
    <2>3. sent[step] <= (IF step = Establish THEN 1 ELSE Limit[step] + 2)
      <3>1. CASE step = Establish
        BY <2>1, <3>1 DEF Written
      <3>2. CASE step # Establish /\ mpc = "done"
        BY <2>1, <3>2 DEF Written
      <3>3. CASE step # Establish /\ mpc = "sleep"
        BY <2>1, <2>2, <3>3 DEF Written
      <3>4. CASE step # Establish /\ mpc \in {"reset", "loop", "next"}
        BY <2>1, <2>2, <3>4 DEF Written
      <3> QED
        BY <3>1, <3>2, <3>3, <3>4, <2>1 DEF Types
    <2>4. \A k \in Steps : k < step \/ k = step \/ k > step
      BY <2>2, StepOrder
    <2>5. \A k \in Steps : Limit[k] \in Nat
      BY StepOrder
    <2>6. \A k \in Steps : sent[k] <= (IF k = Establish THEN 1 ELSE Limit[k] + 2)
      BY <2>1, <2>3, <2>4, <2>5 DEF Written
    <2> QED
      BY <2>1, <2>6 DEF Written, RetryBudget
  <1> QED
    BY <1>1, Invariance, PTL

=============================================================================
