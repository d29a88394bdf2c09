--------------------------- MODULE ClientTxProofs ---------------------------
(***************************************************************************)
(* Proofs about ClientTx, for every set of receivers, every buffer size    *)
(* and both kinds of transaction and of transport.                         *)
(***************************************************************************)
EXTENDS ClientTx, TLAPS

Finals     == {"inviteFinal", "nonInviteFinal"}
Resends    == {"inviteResend", "nonInviteResend"}
Closing    == {"transErr", "timeout", "passUpDelete", "delete"}
Inputs     == Classes \cup Timers \cup {"transErr", "delete"}

\* Which steps an action has.
StepOfAct ==
    /\ step = "idle" <=> act = "none"
    /\ step \in {"passUp", "select"} => act \in Finals \cup {"passUp", "passUpDelete"}
    /\ step = "ack" => act \in {"inviteFinal", "ack"}
    /\ step = "stopA" => act \in {"passUp", "transErr", "timeout"}
    /\ step = "dropA" => act = "passUpDelete"
    /\ step = "timerD" => act \in Finals
    /\ step \in {"reset", "resend"} => act \in Resends
    /\ step = "err" => act \in {"transErr", "timeout"}
    /\ step \in {"check", "stop", "close"} => act = "delete"

\* In which state an action runs.
StateOfAct ==
    /\ act = "passUp" => state = "Proceeding"
    /\ act \in Finals \cup {"ack"} => state = "Completed"
    /\ act \in Closing => state = "Terminated"
    /\ act \in Resends => state = "Calling" \/ (state = "Proceeding" /\ ~invite)

-----------------------------------------------------------------------------
\* What one round of FSM.Spin does, whatever the input: the facts about the
\* two transition tables that the invariants rest on.
LEMMA RunFacts ==
    ASSUME state \in States, NEW in \in Inputs, Run(in)
    PROVE  /\ state' \in States /\ act' \in Actions /\ step' \in Steps
           /\ StepOfAct' /\ StateOfAct' /\ invite' = invite
           /\ state = "Terminated" => state' = "Terminated" /\ act' \in {"none", "delete"}
           /\ state = "Terminated" /\ in # "delete" => act' = "none"
           /\ state = "Terminated" /\ in = "delete" => act' = "delete"
           /\ state # "Terminated" /\ state' = "Terminated" => act' \in Closing
           /\ state' = "Calling" => state = "Calling" /\ in # "timerB"
           /\ act' \in Resends => in = "timerA"
           /\ state' = "Proceeding" /\ ~invite =>
                state \in {"Calling", "Proceeding"} /\ in # "timerB"
           /\ state' = "Completed" /\ act' \notin Finals =>
                state = "Completed" /\ in # "timerD"
           /\ act' = "timeout" =>
                /\ in = "timerB"
                /\ state = "Calling" \/ (state = "Proceeding" /\ ~invite)
           /\ in \in Classes /\ act' # "none" =>
                /\ state # "Terminated" /\ state' # "Calling"
                /\ in # "r1xx" => state' # "Proceeding"
<1> USE DEF Inputs, Classes, Timers, Run, States, Actions, Steps, FirstStep,
            StepOfAct, StateOfAct, Finals, Resends, Closing, Table, To
<1>1. CASE invite /\ state = "Calling"
  BY <1>1 DEF InviteFSM
<1>2. CASE invite /\ state = "Proceeding"
  BY <1>2 DEF InviteFSM
<1>3. CASE invite /\ state = "Completed"
  BY <1>3 DEF InviteFSM
<1>4. CASE invite /\ state = "Terminated"
  BY <1>4 DEF InviteFSM
<1>5. CASE ~invite /\ state = "Calling"
  BY <1>5 DEF NonInviteFSM
<1>6. CASE ~invite /\ state = "Proceeding"
  BY <1>6 DEF NonInviteFSM
<1>7. CASE ~invite /\ state = "Completed"
  BY <1>7 DEF NonInviteFSM
<1>8. CASE ~invite /\ state = "Terminated"
  BY <1>8 DEF NonInviteFSM
<1> QED BY <1>1, <1>2, <1>3, <1>4, <1>5, <1>6, <1>7, <1>8

-----------------------------------------------------------------------------
(* Type correctness.                                                       *)

\* A spin of the FSM, by whatever input, keeps state, action and step within
\* their types: the tables name no other state and no other action.
LEMMA SpinTypes ==
    ASSUME TypeOK, NEW in \in Inputs, Run(in)
    PROVE  state' \in States /\ act' \in Actions /\ step' \in Steps /\ invite' = invite
BY RunFacts DEF TypeOK

\* The transaction NewClientTx makes is well typed.
LEMMA TypeInit == Init => TypeOK
<1> SUFFICES ASSUME Init PROVE TypeOK
  OBVIOUS
<1> USE DEF Init
<1>1. rcv \in [Receivers -> {"none", "stored", "acted", "ignored"}]
  OBVIOUS
<1>2. class \in [Receivers -> Classes]
  BY DEF Classes
<1>3. state \in States /\ act \in Actions /\ step \in Steps
  BY DEF States, Actions, Steps, FirstStep
<1>4. responses \in Seq(Receivers \cup {NoResp})
  OBVIOUS
<1>5. timer \subseteq Timers /\ armed \subseteq Timers /\ fired \subseteq Timers
      /\ errs \subseteq {"timeout", "transErr"} /\ acked \subseteq Receivers \cup {NoResp}
  OBVIOUS
<1> QED BY <1>1, <1>2, <1>3, <1>4, <1>5 DEF TypeOK

\* Every step of Init, Receive, the timers, the FSM actions and Close keeps the
\* types; StepOfAct is needed where a step depends on the action it belongs to.
LEMMA TypeStep == TypeOK /\ StepOfAct /\ [Next]_vars => TypeOK'
<1> SUFFICES ASSUME TypeOK, StepOfAct, [Next]_vars PROVE TypeOK'
  OBVIOUS
<1> USE DEF TypeOK
<1>0. "delete" \in Inputs /\ "transErr" \in Inputs /\ Classes \subseteq Inputs
      /\ Timers \subseteq Inputs
  BY DEF Inputs
<1>1. ASSUME InitSteps PROVE TypeOK'
  <2>1. CASE InitSpinErr
    BY <2>1, <1>0, SpinTypes DEF InitSpinErr, Spin, rcvVars, timerVars, outVars
  <2> USE DEF fsmVars, rcvVars, timerVars, outVars
  <2>2. CASE InitSend
    <3>1. init' \in {"send", "spinErr", "failed", "arm", "armB", "return", "ok", "err"}
          /\ lastErr' \in BOOLEAN
      BY <2>2 DEF InitSend
    <3> QED BY <2>2, <3>1 DEF InitSend
  <2>3. CASE InitArmA
    <3>1. timer' \subseteq Timers /\ armed' \subseteq Timers
      BY <2>3 DEF InitArmA, Timers
    <3>2. timeA' \in Nat /\ timeD' \in {"zero", "long"}
      BY <2>3 DEF InitArmA
    <3> QED BY <2>3, <3>1, <3>2 DEF InitArmA
  <2>4. CASE InitArmB
    BY <2>4 DEF InitArmB, Timers
  <2>5. CASE InitReturn
    BY <2>5 DEF InitReturn
  <2> QED BY <1>1, <2>1, <2>2, <2>3, <2>4, <2>5 DEF InitSteps
<1>2. ASSUME NEW r \in Receivers, NEW c \in Classes, Receive(r, c) PROVE TypeOK'
  BY <1>2 DEF Receive, fsmVars, timerVars, outVars
<1>3. ASSUME NEW r \in Receivers, ReceiveSpin(r) PROVE TypeOK'
  BY <1>3, <1>0, SpinTypes DEF ReceiveSpin, Spin, timerVars, outVars
<1>4. ASSUME NEW t \in Timers, TimerFires(t) PROVE TypeOK'
  BY <1>4 DEF TimerFires, fsmVars, rcvVars, outVars
<1>5. ASSUME NEW t \in Timers, TimerSpin(t) PROVE TypeOK'
  BY <1>5, <1>0, SpinTypes DEF TimerSpin, Spin, rcvVars, outVars
<1>6. ASSUME ActionSteps PROVE TypeOK'
  <2> USE DEF Goto, Return, ReturnDelete, fsmVars, rcvVars, timerVars, outVars
  <2>1. CASE PassUpRead
    BY <2>1 DEF PassUpRead, Steps
  <2>2. CASE PassUpSelect
    <3>1. AfterPassUp[act] \in Steps
      BY <2>2 DEF PassUpSelect, StepOfAct, AfterPassUp, Steps, Finals
    <3> QED BY <2>2, <3>1 DEF PassUpSelect
  <2>3. CASE Ack
    BY <2>3 DEF Ack, Steps, Actions, FirstStep
  <2>4. CASE StopA
    <3>1. state' \in States /\ act' \in Actions /\ step' \in Steps /\ invite' = invite
      BY <2>4, <1>0, SpinTypes DEF StopA, Steps, Actions, FirstStep
    <3> QED BY <2>4, <3>1 DEF StopA
  <2>5. CASE DropA
    BY <2>5, <1>0, SpinTypes DEF DropA
  <2>6. CASE StartD
    BY <2>6 DEF StartD, Steps, Actions, FirstStep, Timers
  <2>7. CASE ResetA
    <3>1. timeA' \in Nat
      BY <2>7 DEF ResetA, T2
    <3>2. armed' \subseteq Timers /\ step' \in Steps /\ state' \in States
          /\ act' \in Actions /\ proc' \in {"up", "sendOnClosed", "nilTimer"}
      BY <2>7 DEF ResetA, Timers, Steps
    <3> QED BY <2>7, <3>1, <3>2 DEF ResetA
  <2>8. CASE Resend
    <3>1. step' \in Steps /\ state' \in States /\ act' \in Actions
      BY <2>8 DEF Resend, Steps, Actions, FirstStep
    <3>2. lastErr' \in BOOLEAN
      BY <2>8 DEF Resend
    <3> QED BY <2>8, <3>1, <3>2 DEF Resend
  <2>9. CASE ReportErr
    <3>1. step' \in Steps
      BY <2>9 DEF ReportErr, Steps
    <3>2. errs' \subseteq {"timeout", "transErr"}
      BY <2>9 DEF ReportErr, StepOfAct
    <3> QED BY <2>9, <3>1, <3>2 DEF ReportErr
  <2>10. CASE DeleteCheck
    BY <2>10 DEF DeleteCheck, Steps, Actions, FirstStep
  <2>11. CASE DeleteStop
    BY <2>11 DEF DeleteStop, StopTimers, Steps
  <2>12. CASE DeleteClose
    BY <2>12 DEF DeleteClose, Steps, Actions, FirstStep
  <2> QED BY <1>6, <2>1, <2>2, <2>3, <2>4, <2>5, <2>6, <2>7, <2>8, <2>9, <2>10,
             <2>11, <2>12 DEF ActionSteps
<1>7. ASSUME Consume \/ Close \/ CloseSteps PROVE TypeOK'
  <2> USE DEF fsmVars, rcvVars, timerVars, outVars
  <2>1. CASE Consume
    BY <2>1 DEF Consume
  <2>2. CASE Close
    BY <2>2 DEF Close
  <2>3. CASE CloseStop
    BY <2>3 DEF CloseStop, StopTimers
  <2>4. CASE CloseClose
    BY <2>4 DEF CloseClose
  <2> QED BY <1>7, <2>1, <2>2, <2>3, <2>4 DEF CloseSteps
<1>8. CASE UNCHANGED vars
  BY <1>8 DEF vars
<1> QED BY <1>1, <1>2, <1>3, <1>4, <1>5, <1>6, <1>7, <1>8 DEF Next

-----------------------------------------------------------------------------
(* The inductive invariant: what Close, which does not take the Spin lock, *)
(* is the only one to break.                                               *)

\* Done is the last thing the FSM does, and it does it in Terminated.
DoneInv ==
    closer = "none" =>
      /\ done => state = "Terminated" /\ act = "none"
      /\ state = "Terminated" /\ act = "none" => done
      /\ state = "Terminated" => act \in Closing \cup {"none"}

\* In Calling a timer A that will resend still has its field set.
TimerAInv ==
    closer = "none" /\ state = "Calling" =>
      (step = "reset" \/ "timerA" \in armed \cup fired => "timerA" \in timer)

\* Timer D guards Completed from the end of the final's action on.
TimerDInv ==
    closer = "none" /\ state = "Completed" /\ act \notin Finals =>
      "timerD" \in armed \cup fired

\* Timer B guards Calling, and Proceeding of a non-INVITE, once Init armed it.
TimerBInv ==
    closer = "none" /\ init \in {"return", "ok", "err"} =>
      (state = "Calling" \/ (state = "Proceeding" /\ ~invite) =>
         "timerB" \in armed \cup fired)

\* An answer that was acted on leaves no way to a timeout.
AnswerInv ==
    /\ \A r \in Receivers :
         rcv[r] = "acted" /\ (invite \/ class[r] # "r1xx") =>
           ~(state = "Calling" \/ (state = "Proceeding" /\ ~invite))
    /\ act = "timeout" \/ "timeout" \in errs =>
         /\ state = "Terminated"
         /\ \A r \in Receivers : rcv[r] = "acted" => ~invite /\ class[r] = "r1xx"

IInv == /\ TypeOK /\ StepOfAct /\ StateOfAct /\ DoneInv /\ TimerAInv /\ TimerDInv
        /\ TimerBInv /\ AnswerInv /\ PanicOnlyInRaces

\* The safety core without the types: what each step has to preserve.
Core == /\ StepOfAct /\ StateOfAct /\ DoneInv /\ TimerAInv /\ TimerDInv
        /\ TimerBInv /\ AnswerInv /\ PanicOnlyInRaces

\* The transaction NewClientTx makes satisfies the invariant.
LEMMA CoreInit == Init => Core
BY DEF Init, Core, StepOfAct, StateOfAct, DoneInv, TimerAInv, TimerDInv, TimerBInv,
       AnswerInv, PanicOnlyInRaces, Finals, Resends, Closing

\* A spin of the FSM by Init, by a response or by a timer.
LEMMA CoreSpin ==
    ASSUME IInv, NEW in \in Inputs \ {"delete"}, Spin(in), Running,
           UNCHANGED <<lastErr, timeA, timeD, timer, armed, durD, closer, done,
                       outVars, proc>>,
           \/ /\ in = "transErr" /\ init' = "failed"
              /\ UNCHANGED <<rcv, class, fired>>
           \/ /\ \E r \in Receivers :
                    /\ in = class[r] /\ rcv[r] = "stored"
                    /\ rcv' = [rcv EXCEPT ![r] =
                                  IF act' = "none" THEN "ignored" ELSE "acted"]
              /\ UNCHANGED <<init, class, fired>>
           \/ /\ in \in Timers /\ in \in fired /\ fired' = fired \ {in}
              /\ UNCHANGED <<init, rcv, class>>
    PROVE  Core'
<1> USE DEF IInv, Spin, outVars, Running
<1>1. StepOfAct' /\ StateOfAct'
  BY RunFacts DEF TypeOK
<1>2. DoneInv'
  BY RunFacts DEF TypeOK, DoneInv, StepOfAct, Closing
<1>3. TimerAInv'
  <2>1. in \in Timers => in \in fired
    BY DEF TypeOK, Inputs, Timers, Classes
  <2> QED BY <2>1, <1>1, RunFacts DEF TypeOK, TimerAInv, StepOfAct, Resends, Timers
<1>4. TimerDInv'
  <2>1. act \notin Finals
    BY DEF StepOfAct, Finals
  <2> QED BY <2>1, RunFacts DEF TypeOK, TimerDInv
<1>5. TimerBInv'
  BY RunFacts DEF TypeOK, TimerBInv
<1>6. AnswerInv'
  <2>1. \A r \in Receivers : rcv'[r] = "acted" =>
           rcv[r] = "acted" \/ (in = class[r] /\ in \in Classes /\ act' # "none")
    BY DEF TypeOK
  <2>2. class' = class /\ errs' = errs /\ invite' = invite
    BY DEF Run
  <2>3. ASSUME NEW r \in Receivers, rcv'[r] = "acted", invite \/ class[r] # "r1xx"
        PROVE  ~(state' = "Calling" \/ (state' = "Proceeding" /\ ~invite))
    BY <2>1, <2>3, RunFacts DEF TypeOK, AnswerInv
  <2>4. ASSUME act' = "timeout" \/ "timeout" \in errs
        PROVE  /\ state' = "Terminated"
               /\ \A r \in Receivers : rcv'[r] = "acted" => ~invite /\ class[r] = "r1xx"
    <3>1. CASE act' = "timeout"
      <4>1. in = "timerB" /\ (state = "Calling" \/ (state = "Proceeding" /\ ~invite))
        BY <3>1, RunFacts DEF TypeOK
      <4>2. state' = "Terminated"
        BY <3>1, <1>1 DEF StateOfAct, Closing
      <4> QED BY <4>1, <4>2, <2>1 DEF AnswerInv, Classes
    <3>2. CASE "timeout" \in errs
      <4>1. state = "Terminated"
        BY <3>2 DEF AnswerInv
      <4>2. state' = "Terminated" /\ act' = "none"
        BY <4>1, RunFacts DEF TypeOK
      <4> QED BY <3>2, <4>2, <2>1 DEF AnswerInv
    <3> QED BY <2>4, <3>1, <3>2
  <2> QED BY <2>2, <2>3, <2>4 DEF AnswerInv
<1>7. PanicOnlyInRaces'
  BY DEF PanicOnlyInRaces
<1> QED BY <1>1, <1>2, <1>3, <1>4, <1>5, <1>6, <1>7 DEF Core

\* Every step preserves the invariant: one case per action of Next.
LEMMA CoreStep == IInv /\ [Next]_vars => Core'
<1> SUFFICES ASSUME IInv, [Next]_vars PROVE Core'
  OBVIOUS
<1> USE DEF IInv, fsmVars, rcvVars, timerVars, outVars
<1> DEFINE Parts == StepOfAct' /\ StateOfAct' /\ DoneInv' /\ TimerAInv' /\ TimerDInv'
                    /\ TimerBInv' /\ AnswerInv' /\ PanicOnlyInRaces'
<1>0. Parts => Core'
  BY DEF Core
<1>1. ASSUME InitSteps PROVE Core'
  <2>1. CASE InitSpinErr
    <3>1. "transErr" \in Inputs \ {"delete"}
      BY DEF Inputs
    <3> QED BY <2>1, <3>1, CoreSpin DEF InitSpinErr
  <2>2. CASE InitSend \/ InitReturn
    <3>1. StepOfAct' /\ StateOfAct' /\ DoneInv' /\ AnswerInv' /\ PanicOnlyInRaces'
      BY <2>2 DEF InitSend, InitReturn, StepOfAct, StateOfAct, DoneInv, AnswerInv,
                  PanicOnlyInRaces
    <3>2. TimerAInv' /\ TimerDInv' /\ TimerBInv'
      BY <2>2 DEF InitSend, InitReturn, TimerAInv, TimerDInv, TimerBInv
    <3> QED BY <1>0, <3>1, <3>2
  <2>3. CASE InitArmA \/ InitArmB
    <3>1. StepOfAct' /\ StateOfAct' /\ DoneInv' /\ AnswerInv' /\ PanicOnlyInRaces'
      BY <2>3 DEF InitArmA, InitArmB, StepOfAct, StateOfAct, DoneInv, AnswerInv,
                  PanicOnlyInRaces
    <3>2. TimerAInv' /\ TimerDInv' /\ TimerBInv'
      BY <2>3 DEF InitArmA, InitArmB, TimerAInv, TimerDInv, TimerBInv
    <3> QED BY <1>0, <3>1, <3>2
  <2> QED BY <1>1, <2>1, <2>2, <2>3 DEF InitSteps
<1>2. ASSUME NEW r \in Receivers, NEW c \in Classes, Receive(r, c) PROVE Core'
  <2>1. StepOfAct' /\ StateOfAct' /\ DoneInv' /\ PanicOnlyInRaces'
    BY <1>2 DEF Receive, StepOfAct, StateOfAct, DoneInv, PanicOnlyInRaces
  <2>2. TimerAInv' /\ TimerDInv' /\ TimerBInv'
    BY <1>2 DEF Receive, TimerAInv, TimerDInv, TimerBInv
  <2>3. AnswerInv'
    BY <1>2 DEF Receive, AnswerInv, TypeOK
  <2> QED BY <1>0, <2>1, <2>2, <2>3
<1>3. ASSUME NEW r \in Receivers, ReceiveSpin(r) PROVE Core'
  <2>1. class[r] \in Inputs \ {"delete"}
    BY DEF TypeOK, Inputs, Classes
  <2> QED BY <1>3, <2>1, CoreSpin DEF ReceiveSpin
<1>4. ASSUME NEW t \in Timers, TimerFires(t) PROVE Core'
  <2>1. StepOfAct' /\ StateOfAct' /\ DoneInv' /\ AnswerInv' /\ PanicOnlyInRaces'
    BY <1>4 DEF TimerFires, StepOfAct, StateOfAct, DoneInv, AnswerInv, PanicOnlyInRaces
  <2>2. TimerAInv' /\ TimerDInv' /\ TimerBInv'
    BY <1>4 DEF TimerFires, TimerAInv, TimerDInv, TimerBInv
  <2> QED BY <1>0, <2>1, <2>2
<1>5. ASSUME NEW t \in Timers, TimerSpin(t) PROVE Core'
  <2>1. t \in Inputs \ {"delete"}
    BY DEF Inputs, Timers
  <2> QED BY <1>5, <2>1, CoreSpin DEF TimerSpin
<1>6. ASSUME PassUpRead \/ PassUpSelect \/ Ack PROVE Core'
  <2> USE DEF Goto, Return
  <2>1. act \in Finals \cup {"passUp", "passUpDelete", "ack"} /\ act # "none"
    BY <1>6 DEF PassUpRead, PassUpSelect, Ack, StepOfAct, Finals
  <2>2. StepOfAct'
    BY <1>6 DEF PassUpRead, PassUpSelect, Ack, StepOfAct, AfterPassUp, Finals, Resends
  <2>3. StateOfAct'
    BY <1>6 DEF PassUpRead, PassUpSelect, Ack, StateOfAct, Finals, Resends, Closing
  <2>4. DoneInv'
    <3>1. /\ state' = state /\ closer' = closer /\ done' = done
          /\ act' = act \/ (act' = "none" /\ step = "ack")
      BY <1>6 DEF PassUpRead, PassUpSelect, Ack
    <3>2. step = "ack" => state = "Completed"
      BY DEF StepOfAct, StateOfAct, Finals
    <3>3. closer = "none" => ~done
      BY <2>1 DEF DoneInv
    <3>4. CASE act' = act
      BY <3>1, <3>3, <3>4, <2>1 DEF DoneInv
    <3>5. CASE act' = "none" /\ step = "ack"
      BY <3>1, <3>2, <3>3, <3>5 DEF DoneInv
    <3> QED BY <3>1, <3>4, <3>5
  <2>5. TimerAInv' /\ TimerDInv' /\ TimerBInv'
    BY <1>6, <2>1 DEF PassUpRead, PassUpSelect, Ack, TimerAInv, TimerDInv, TimerBInv,
       StateOfAct, AfterPassUp, Finals, StepOfAct, Closing
  <2>6. AnswerInv'
    BY <1>6 DEF PassUpRead, PassUpSelect, Ack, AnswerInv
  <2>7. PanicOnlyInRaces'
    BY <1>6, <2>1 DEF PassUpRead, PassUpSelect, Ack, PanicOnlyInRaces, DoneInv
  <2> QED BY <1>0, <2>2, <2>3, <2>4, <2>5, <2>6, <2>7
<1>7. ASSUME StopA \/ DropA PROVE Core'
  <2> USE DEF Return, ReturnDelete
  <2>1. /\ act \in {"passUp", "transErr", "timeout", "passUpDelete"}
        /\ act = "passUp" => state = "Proceeding"
        /\ act # "passUp" => state = "Terminated"
    BY <1>7 DEF StopA, DropA, StepOfAct, StateOfAct, Closing
  <2>2. state' = state /\ StepOfAct' /\ StateOfAct' /\ invite' = invite
        /\ act' = IF act = "passUp" THEN "none" ELSE "delete"
    <3>1. CASE act = "passUp"
      BY <1>7, <3>1, <2>1 DEF StopA, DropA, StepOfAct, StateOfAct, Finals, Resends, Closing
    <3>2. CASE act # "passUp"
      <4>1. Run("delete") /\ "delete" \in Inputs
        BY <1>7, <3>2 DEF StopA, DropA, Inputs
      <4> QED BY <4>1, <3>2, <2>1, RunFacts DEF TypeOK
    <3> QED BY <3>1, <3>2
  <2>3. /\ closer' = closer /\ done' = done /\ init' = init /\ proc' = proc
        /\ rcv' = rcv /\ class' = class /\ errs' = errs /\ fired' = fired
        /\ "timerB" \in armed => "timerB" \in armed'
        /\ "timerD" \in armed => "timerD" \in armed'
    BY <1>7 DEF StopA, DropA
  <2>4. DoneInv' /\ PanicOnlyInRaces'
    BY <2>1, <2>2, <2>3 DEF DoneInv, PanicOnlyInRaces, Closing
  <2>5. TimerAInv' /\ TimerDInv' /\ TimerBInv'
    BY <2>1, <2>2, <2>3 DEF TimerAInv, TimerDInv, TimerBInv
  <2>6. AnswerInv'
    BY <2>1, <2>2, <2>3 DEF AnswerInv
  <2> QED BY <1>0, <2>2, <2>4, <2>5, <2>6
<1>8. ASSUME StartD PROVE Core'
  <2> USE DEF StartD, Return
  <2>1. state = "Completed" /\ act \in Finals
    BY <1>8 DEF StepOfAct, StateOfAct
  <2>2. StepOfAct' /\ StateOfAct'
    BY <1>8 DEF StepOfAct, StateOfAct, Finals, Resends, Closing
  <2>3. DoneInv' /\ PanicOnlyInRaces'
    BY <1>8, <2>1 DEF DoneInv, PanicOnlyInRaces
  <2>4. TimerAInv' /\ TimerDInv' /\ TimerBInv'
    BY <1>8, <2>1 DEF TimerAInv, TimerDInv, TimerBInv
  <2>5. AnswerInv'
    BY <1>8, <2>1 DEF AnswerInv
  <2> QED BY <1>0, <2>2, <2>3, <2>4, <2>5
<1>9. ASSUME ResetA \/ Resend PROVE Core'
  <2> USE DEF ResetA, Resend, Return, Goto
  <2>1. act \in Resends /\ (state = "Calling" \/ (state = "Proceeding" /\ ~invite))
    BY <1>9 DEF StepOfAct, StateOfAct
  <2>2. StepOfAct' /\ StateOfAct'
    BY <1>9, <2>1 DEF StepOfAct, StateOfAct, Finals, Resends, Closing
  <2>3. DoneInv'
    BY <1>9, <2>1 DEF DoneInv, Resends
  <2>4. PanicOnlyInRaces'
    BY <1>9, <2>1 DEF PanicOnlyInRaces, TimerAInv
  <2>5. TimerAInv' /\ TimerDInv' /\ TimerBInv'
    BY <1>9, <2>1 DEF TimerAInv, TimerDInv, TimerBInv
  <2>6. AnswerInv'
    BY <1>9, <2>1 DEF AnswerInv
  <2> QED BY <1>0, <2>2, <2>3, <2>4, <2>5, <2>6
<1>10. ASSUME ReportErr PROVE Core'
  <2> USE DEF ReportErr, Goto
  <2>1. act \in {"transErr", "timeout"} /\ state = "Terminated"
    BY <1>10 DEF StepOfAct, StateOfAct, Closing
  <2>2. StepOfAct' /\ StateOfAct'
    BY <1>10, <2>1 DEF StepOfAct, StateOfAct
  <2>3. DoneInv' /\ PanicOnlyInRaces'
    BY <1>10, <2>1 DEF DoneInv, PanicOnlyInRaces
  <2>4. TimerAInv' /\ TimerDInv' /\ TimerBInv'
    BY <1>10, <2>1 DEF TimerAInv, TimerDInv, TimerBInv
  <2>5. AnswerInv'
    BY <1>10, <2>1 DEF AnswerInv
  <2> QED BY <1>0, <2>2, <2>3, <2>4, <2>5
<1>11. ASSUME DeleteCheck \/ DeleteStop \/ DeleteClose PROVE Core'
  <2> USE DEF DeleteCheck, DeleteStop, DeleteClose, StopTimers, Return, Goto
  <2>1. act = "delete" /\ state = "Terminated"
    BY <1>11 DEF StepOfAct, StateOfAct, Closing
  <2>2. StepOfAct' /\ StateOfAct'
    BY <1>11, <2>1 DEF StepOfAct, StateOfAct, Finals, Resends, Closing
  <2>3. DoneInv' /\ PanicOnlyInRaces'
    BY <1>11, <2>1 DEF DoneInv, PanicOnlyInRaces
  <2>4. TimerAInv' /\ TimerDInv' /\ TimerBInv'
    BY <1>11, <2>1 DEF TimerAInv, TimerDInv, TimerBInv
  <2>5. AnswerInv'
    BY <1>11, <2>1 DEF AnswerInv
  <2> QED BY <1>0, <2>2, <2>3, <2>4, <2>5
<1>12. ASSUME Consume \/ Close \/ CloseSteps PROVE Core'
  <2> USE DEF Consume, Close, CloseSteps, CloseStop, CloseClose, StopTimers
  <2>1. StepOfAct' /\ StateOfAct' /\ AnswerInv' /\ PanicOnlyInRaces'
    BY <1>12 DEF StepOfAct, StateOfAct, AnswerInv, PanicOnlyInRaces
  <2>2. DoneInv' /\ TimerAInv' /\ TimerDInv' /\ TimerBInv'
    BY <1>12 DEF DoneInv, TimerAInv, TimerDInv, TimerBInv
  <2> QED BY <1>0, <2>1, <2>2
<1>13. CASE UNCHANGED vars
  BY <1>13 DEF vars, Core, StepOfAct, StateOfAct, DoneInv, TimerAInv, TimerDInv,
               TimerBInv, AnswerInv, PanicOnlyInRaces
<1> QED BY <1>1, <1>2, <1>3, <1>4, <1>5, <1>6, <1>7, <1>8, <1>9, <1>10, <1>11, <1>12,
           <1>13 DEF Next, ActionSteps

-----------------------------------------------------------------------------
(* The theorems.                                                           *)

\* The inductive invariant holds in every reachable state.
THEOREM Inductive == Spec => []IInv
<1>1. Init => IInv
  BY TypeInit, CoreInit DEF IInv, Core
<1>2. IInv /\ [Next]_vars => IInv'
  BY TypeStep, CoreStep DEF IInv, Core
<1> QED BY <1>1, <1>2, PTL DEF Spec

\* Every variable of the transaction keeps its type, for every set of
\* concurrent receivers.
THEOREM TypeCorrect == Spec => []TypeOK
<1>1. IInv => TypeOK
  BY DEF IInv
<1> QED BY <1>1, Inductive, PTL

\* client_tx.go panics only when Close races the FSM, or when a non-INVITE
\* timer A goroutine runs after a provisional response cleared the timer.
THEOREM PanicsOnlyInRaces == Spec => []PanicOnlyInRaces
<1>1. IInv => PanicOnlyInRaces
  BY DEF IInv
<1> QED BY <1>1, Inductive, PTL

\* An FSM at rest that nobody closed always has the timer pending that ends
\* the transaction, or the transaction is deleted.
THEOREM TransactionNeverStranded == Spec => []NeverStranded
<1>1. IInv => NeverStranded
  <2> SUFFICES ASSUME IInv, Running, step = "idle", closer = "none"
               PROVE  /\ state = "Terminated" => done
                      /\ state = "Completed" => "timerD" \in armed \cup fired
                      /\ /\ state = "Calling" \/ (state = "Proceeding" /\ ~invite)
                         /\ init \in {"return", "ok", "err"}
                         => "timerB" \in armed \cup fired
    BY DEF NeverStranded
  <2>1. act = "none" /\ act \notin Finals
    BY DEF IInv, StepOfAct, Finals
  <2> QED BY <2>1 DEF IInv, DoneInv, TimerDInv, TimerBInv
<1> QED BY <1>1, Inductive, PTL

\* After the FSM deleted the transaction no action that sends or passes
\* anything up is running.
THEOREM SilentAfterDone == Spec => []QuietAfterDone
<1>1. IInv => QuietAfterDone
  BY DEF IInv, QuietAfterDone, DoneInv, StepOfAct, Finals, Resends
<1> QED BY <1>1, Inductive, PTL

\* A reported timeout means that no answer was acted on.
THEOREM TimeoutOnlyWithoutAnswer == Spec => []TimeoutMeansNoAnswer
<1>1. IInv => TimeoutMeansNoAnswer
  BY DEF IInv, TimeoutMeansNoAnswer, AnswerInv
<1> QED BY <1>1, Inductive, PTL

-----------------------------------------------------------------------------
(* The period of timer D.                                                  *)

\* From the end of its first critical section Init has set tx.timeDTime.
PeriodInv ==
    ~Reliable /\ init \in {"armB", "return", "ok", "err"} => timeD = "long"

\* Nobody but Init's first critical section writes tx.timeDTime.
LEMMA PeriodStep == PeriodInv /\ [Next]_vars => PeriodInv'
<1> SUFFICES ASSUME PeriodInv, [Next]_vars PROVE PeriodInv'
  OBVIOUS
<1> USE DEF PeriodInv
<1>1. ASSUME InitSteps PROVE PeriodInv'
  BY <1>1 DEF InitSteps, InitSend, InitSpinErr, InitArmA, InitArmB, InitReturn, timerVars
<1>2. ASSUME NEW r \in Receivers, NEW c \in Classes, Receive(r, c) PROVE PeriodInv'
  BY <1>2 DEF Receive, timerVars
<1>3. ASSUME NEW r \in Receivers, ReceiveSpin(r) PROVE PeriodInv'
  BY <1>3 DEF ReceiveSpin, timerVars
<1>4. ASSUME NEW t \in Timers, TimerFires(t) \/ TimerSpin(t) PROVE PeriodInv'
  BY <1>4 DEF TimerFires, TimerSpin
<1>5. ASSUME ActionSteps PROVE PeriodInv'
  <2> USE DEF timerVars
  <2>1. CASE PassUpRead \/ PassUpSelect \/ Ack
    BY <2>1 DEF PassUpRead, PassUpSelect, Ack
  <2>2. CASE StopA \/ DropA \/ StartD
    BY <2>2 DEF StopA, DropA, StartD
  <2>3. CASE ResetA \/ Resend \/ ReportErr
    BY <2>3 DEF ResetA, Resend, ReportErr
  <2>4. CASE DeleteCheck \/ DeleteStop \/ DeleteClose
    BY <2>4 DEF DeleteCheck, DeleteStop, DeleteClose, StopTimers
  <2> QED BY <1>5, <2>1, <2>2, <2>3, <2>4 DEF ActionSteps
<1>6. ASSUME Consume \/ Close \/ CloseSteps PROVE PeriodInv'
  BY <1>6 DEF Consume, Close, CloseSteps, CloseStop, CloseClose, StopTimers, timerVars
<1>7. CASE UNCHANGED vars
  BY <1>7 DEF vars
<1> QED BY <1>1, <1>2, <1>3, <1>4, <1>5, <1>6, <1>7 DEF Next

\* Only StartD arms timer D, with the period it finds in tx.timeDTime.
LEMMA OnlyStartD == [Next]_vars /\ durD' # durD => durD' = timeD /\ UNCHANGED init
<1> SUFFICES ASSUME [Next]_vars, durD' # durD PROVE durD' = timeD /\ UNCHANGED init
  OBVIOUS
<1> USE DEF timerVars
<1>1. CASE StartD
  BY <1>1 DEF StartD
<1>2. CASE ~StartD
  <2>1. ~InitSteps
    BY DEF InitSteps, InitSend, InitSpinErr, InitArmA, InitArmB, InitReturn
  <2>2. \A r \in Receivers : ~ReceiveSpin(r) /\ \A c \in Classes : ~Receive(r, c)
    BY DEF Receive, ReceiveSpin
  <2>3. \A t \in Timers : ~TimerFires(t) /\ ~TimerSpin(t)
    BY DEF TimerFires, TimerSpin
  <2>4. ~(PassUpRead \/ PassUpSelect \/ Ack \/ StopA \/ DropA)
    BY DEF PassUpRead, PassUpSelect, Ack, StopA, DropA
  <2>5. ~(ResetA \/ Resend \/ ReportErr \/ DeleteCheck \/ DeleteStop \/ DeleteClose)
    BY DEF ResetA, Resend, ReportErr, DeleteCheck, DeleteStop, DeleteClose, StopTimers
  <2>6. ~(Consume \/ Close \/ CloseSteps)
    BY DEF Consume, Close, CloseSteps, CloseStop, CloseClose, StopTimers
  <2>7. ~UNCHANGED vars
    BY DEF vars
  <2> QED BY <1>2, <2>1, <2>2, <2>3, <2>4, <2>5, <2>6, <2>7 DEF Next, ActionSteps
<1> QED BY <1>1, <1>2

\* Over an unreliable transport a final response that is handled after Init's
\* first critical section arms timer D with its full period.
THEOREM TimerDFullPeriod == Spec => TimerDSet
<1>1. Init => PeriodInv
  BY DEF Init, PeriodInv
<1>2. PeriodInv /\ [Next]_vars =>
        [durD' # durD /\ ~Reliable /\ init \in {"armB", "return", "ok", "err"}
           => durD' = "long"]_vars
  BY OnlyStartD DEF PeriodInv
<1> QED BY <1>1, <1>2, PeriodStep, PTL DEF Spec, TimerDSet

=============================================================================
