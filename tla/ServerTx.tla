------------------------------ MODULE ServerTx ------------------------------
(***************************************************************************)
(* One server transaction (src/transaction/server_tx.go) and the           *)
(* goroutines that run it at the same time:                                *)
(*   - the layer's goroutine that put it in the transaction pool and calls *)
(*     Init afterwards, then passes the request up to the TU;              *)
(*   - one goroutine per further request that matches its key              *)
(*     (retransmission, ACK, CANCEL);                                      *)
(*   - the TU's goroutines and timer 1xx, which call SendResponse;         *)
(*   - the goroutines of timers G, H, I and J;                             *)
(*   - the goroutine that serves the transaction (drains Requests(), and   *)
(*     calls Close when the layer is canceled).                            *)
(* As in ClientTx, FSM.Spin holds its lock while an action runs.           *)
(***************************************************************************)
EXTENDS Naturals, Sequences, FiniteSets

CONSTANTS Reliable,     \* tx.reliable
          SendMayFail,  \* TRUE: the transport layer's Send may return an error
          Receivers,    \* goroutines with a further request each
          Responders,   \* TU goroutines with a response each
          Trying,       \* the 100 Trying of timer 1xx
          Nil,          \* the nil request or response
          BufSize       \* capacity of the requests channel (64 in the code)

ASSUME ServerTxAssumption ==
    /\ Reliable \in BOOLEAN /\ SendMayFail \in BOOLEAN
    /\ Trying \notin Responders
    /\ Nil \notin Receivers \cup Responders \cup {Trying}
    /\ BufSize \in Nat \ {0}

VARIABLES
    invite,     \* tx.Origin().IsInvite(): TRUE for an INVITE, never changes
    state,      \* current FSM state
    act,        \* FSM action in progress under the Spin lock, or "none"
    step,       \* where that action is; "idle" when the Spin lock is free
    init,       \* progress of the goroutine that created the transaction
    rcv,        \* progress of each Receive
    kind,       \* what the request of a receiver is
    rsp,        \* progress of each SendResponse
    class,      \* class of the response of a responder
    lastResp,   \* tx.lastResp
    lastAck,    \* tx.lastAck
    lastCancel, \* tx.lastCancel
    timeG,      \* tx.timeGTime in units of T1
    timer,      \* the timer fields that are not nil
    armed,      \* runtime timers that are going to fire
    fired,      \* timer goroutines that wait to spin the FSM
    closer,     \* progress of Close
    done,       \* done, requests and errs are closed
    requests,   \* content of the requests channel
    acksUp,     \* the ACKs sent into the requests channel so far
    sent,       \* the responses handed to the transport successfully
    errs,       \* errors sent to the errs channel
    proc        \* "up", or the panic that took the process down

vars == <<invite, state, act, step, init, rcv, kind, rsp, class, lastResp, lastAck,
          lastCancel, timeG, timer, armed, fired, closer, done, requests,
          acksUp, sent, errs, proc>>

fsmVars   == <<invite, state, act, step>>
rcvVars   == <<rcv, kind, lastAck, lastCancel>>
rspVars   == <<rsp, class, lastResp>>
timerVars == <<timeG, timer, armed, fired>>
outVars   == <<requests, acksUp, sent, errs>>

AllResponders == Responders \cup {Trying}

-----------------------------------------------------------------------------
(* The transition tables.                                                  *)

States    == {"Trying", "Proceeding", "Completed", "Confirmed", "Terminated"}
Kinds     == IF invite THEN {"request", "ack", "cancel"} ELSE {"request"}
Classes   == {"user1xx", "user2xx", "user300"}
FsmTimers == {"timerG", "timerH", "timerI", "timerJ"}
Timers    == FsmTimers \cup {"timer1xx"}

To(s, a) == [state |-> s, action |-> a]

InviteFSM ==
  [Proceeding |-> [request  |-> To("Proceeding", "respond"),
                   cancel   |-> To("Proceeding", "cancel"),
                   user1xx  |-> To("Proceeding", "respond"),
                   user2xx  |-> To("Terminated", "respondDelete"),
                   user300  |-> To("Completed", "respondComplete"),
                   transErr |-> To("Terminated", "transErr")],
   Completed  |-> [request  |-> To("Completed", "respond"),
                   ack      |-> To("Confirmed", "confirm"),
                   cancel   |-> To("Completed", "cancelNotExist"),
                   user1xx  |-> To("Completed", "none"),
                   user2xx  |-> To("Completed", "none"),
                   user300  |-> To("Completed", "none"),
                   timerG   |-> To("Completed", "respondComplete"),
                   timerH   |-> To("Terminated", "delete"),
                   transErr |-> To("Terminated", "transErr")],
   Confirmed  |-> [request  |-> To("Confirmed", "none"),
                   ack      |-> To("Terminated", "none"),
                   cancel   |-> To("Confirmed", "cancelNotExist"),
                   user1xx  |-> To("Confirmed", "none"),
                   user2xx  |-> To("Confirmed", "none"),
                   user300  |-> To("Confirmed", "none"),
                   timerI   |-> To("Terminated", "delete"),
                   timerG   |-> To("Confirmed", "none"),
                   timerH   |-> To("Confirmed", "none")],
   Terminated |-> [request  |-> To("Terminated", "none"),
                   ack      |-> To("Terminated", "none"),
                   cancel   |-> To("Terminated", "none"),
                   user1xx  |-> To("Terminated", "none"),
                   user2xx  |-> To("Terminated", "none"),
                   user300  |-> To("Terminated", "none"),
                   delete   |-> To("Terminated", "delete")]]

\* The outcomes for CANCEL lead to a state this FSM does not define; they are
\* dead, because the key of a CANCEL names INVITE and never matches here.
NonInviteFSM ==
  [Trying     |-> [request  |-> To("Trying", "none"),
                   cancel   |-> To("Confirmed", "none"),
                   user1xx  |-> To("Proceeding", "respond"),
                   user2xx  |-> To("Completed", "final"),
                   user300  |-> To("Completed", "final")],
   Proceeding |-> [request  |-> To("Proceeding", "respond"),
                   cancel   |-> To("Confirmed", "none"),
                   user1xx  |-> To("Proceeding", "respond"),
                   user2xx  |-> To("Completed", "final"),
                   user300  |-> To("Completed", "final"),
                   transErr |-> To("Terminated", "transErr")],
   Completed  |-> [request  |-> To("Completed", "respond"),
                   cancel   |-> To("Confirmed", "none"),
                   user1xx  |-> To("Completed", "none"),
                   user2xx  |-> To("Completed", "none"),
                   user300  |-> To("Completed", "none"),
                   timerJ   |-> To("Terminated", "delete"),
                   transErr |-> To("Terminated", "transErr")],
   Terminated |-> [request  |-> To("Terminated", "none"),
                   cancel   |-> To("Confirmed", "none"),
                   user1xx  |-> To("Terminated", "none"),
                   user2xx  |-> To("Terminated", "none"),
                   user300  |-> To("Terminated", "none"),
                   timerJ   |-> To("Terminated", "none"),
                   delete   |-> To("Terminated", "delete")]]

\* Mutants of Table.
TableWith(i, n) == IF invite THEN i ELSE n

Table_ConfirmsAgain ==
  TableWith([InviteFSM EXCEPT !["Confirmed"]["ack"] = To("Confirmed", "confirm")],
            NonInviteFSM)

Table_IgnoresH ==
  TableWith([InviteFSM EXCEPT !["Completed"]["timerH"] = To("Completed", "none")],
            NonInviteFSM)

Table == IF invite THEN InviteFSM ELSE NonInviteFSM

\* The step each action starts with ("idle" for fsm.NO_ACTION).
FirstStep ==
  [none |-> "idle", respond |-> "send", respondComplete |-> "send",
   final |-> "send", respondDelete |-> "check", transErr |-> "err",
   delete |-> "check", confirm |-> "stopGH", cancel |-> "answer",
   cancelNotExist |-> "answer"]

Actions == DOMAIN FirstStep
Steps   == {"idle", "send", "arm", "stopGH", "passUp", "answer", "err", "check",
            "stop", "close"}

-----------------------------------------------------------------------------
Init ==
    /\ invite \in BOOLEAN
    /\ state = (IF invite THEN "Proceeding" ELSE "Trying")
    /\ act = "none" /\ step = "idle"
    /\ init = "fsm"
    /\ rcv = [r \in Receivers |-> "none"]
    /\ kind = [r \in Receivers |-> "request"]
    /\ rsp = [p \in AllResponders |-> "none"]
    /\ class = [p \in AllResponders |-> "user1xx"]
    /\ lastResp = Nil /\ lastAck = Nil /\ lastCancel = Nil
    /\ timeG = 0 /\ timer = {} /\ armed = {} /\ fired = {}
    /\ closer = "none" /\ done = FALSE
    /\ requests = <<>> /\ acksUp = 0 /\ sent = {} /\ errs = {}
    /\ proc = "up"

Running == proc = "up"

\* One round of FSM.Spin under its lock (see ClientTx).
Run(in) ==
    /\ UNCHANGED invite
    /\ IF in \in DOMAIN Table[state]
       THEN /\ state' = Table[state][in].state
            /\ act' = Table[state][in].action
            /\ step' = FirstStep[Table[state][in].action]
       ELSE act' = "none" /\ step' = "idle" /\ UNCHANGED state

Spin(in) == init # "fsm" /\ step = "idle" /\ Run(in)

Return  == act' = "none" /\ step' = "idle" /\ UNCHANGED <<invite, state>>
Goto(s) == step' = s /\ UNCHANGED <<invite, state, act>>

-----------------------------------------------------------------------------
(* The goroutine that created the transaction.  The transaction is in the  *)
(* pool already, so requests may reach it before tx.fsm is set.            *)

InitFSM ==
    /\ Running /\ init = "fsm"
    /\ init' = "arm"
    /\ timeG' = IF Reliable THEN 0 ELSE 1
    /\ UNCHANGED <<fsmVars, rcvVars, rspVars, timer, armed, fired, closer, done,
                   outVars, proc>>

InitArm1xx ==
    /\ Running /\ init = "arm"
    /\ init' = "return"
    /\ IF invite
       THEN timer' = timer \cup {"timer1xx"} /\ armed' = armed \cup {"timer1xx"}
       ELSE UNCHANGED <<timer, armed>>
    /\ UNCHANGED <<fsmVars, rcvVars, rspVars, timeG, fired, closer, done, outVars,
                   proc>>

\* go serveTransaction, and the request is passed up to the TU.
PassUpRequest ==
    /\ Running /\ init = "return"
    /\ init' = "served"
    /\ UNCHANGED <<fsmVars, rcvVars, rspVars, timerVars, closer, done, outVars, proc>>

-----------------------------------------------------------------------------
(* Receive: stop timer 1xx and note an ACK or CANCEL, then spin.           *)

Receive(r, k) ==
    /\ Running /\ rcv[r] = "none"
    /\ rcv' = [rcv EXCEPT ![r] = "noted"]
    /\ kind' = [kind EXCEPT ![r] = k]
    /\ timer' = timer \ {"timer1xx"}
    /\ armed' = armed \ ({"timer1xx"} \cap timer)
    /\ lastAck' = IF k = "ack" THEN r ELSE lastAck
    /\ lastCancel' = IF k = "cancel" THEN r ELSE lastCancel
    /\ UNCHANGED <<fsmVars, init, rspVars, timeG, fired, closer, done, outVars, proc>>

ReceiveSpin(r) ==
    /\ Running /\ rcv[r] = "noted"
    /\ Spin(kind[r])
    /\ rcv' = [rcv EXCEPT ![r] = "spun"]
    /\ UNCHANGED <<kind, lastAck, lastCancel, init, rspVars, timerVars, closer,
                   done, outVars, proc>>

\* Before Init set tx.fsm, Spin dereferences a nil pointer.
ReceiveNoFSM(r) ==
    /\ Running /\ rcv[r] = "noted" /\ init = "fsm"
    /\ proc' = "nilFSM"
    /\ UNCHANGED <<fsmVars, rcvVars, init, rspVars, timerVars, closer, done, outVars>>

-----------------------------------------------------------------------------
(* SendResponse, by the TU or by the goroutine of timer 1xx: store lastResp *)
(* and stop timer 1xx, then spin.  (The response to a CANCEL goes straight  *)
(* to the transport and touches nothing here.)                              *)

StoreResponse(p, c) ==
    /\ rsp[p] = "none"
    /\ rsp' = [rsp EXCEPT ![p] = "stored"]
    /\ class' = [class EXCEPT ![p] = c]
    /\ lastResp' = p
    /\ timer' = timer \ {"timer1xx"}
    /\ armed' = armed \ ({"timer1xx"} \cap timer)

TuResponds(p, c) ==
    /\ Running /\ init = "served"
    /\ StoreResponse(p, c)
    /\ UNCHANGED <<fsmVars, init, rcvVars, timeG, fired, closer, done, outVars, proc>>

Timer1xxResponds ==
    /\ Running /\ "timer1xx" \in fired
    /\ fired' = fired \ {"timer1xx"}
    /\ StoreResponse(Trying, "user1xx")
    /\ UNCHANGED <<fsmVars, init, rcvVars, timeG, closer, done, outVars, proc>>

ResponseSpin(p) ==
    /\ Running /\ rsp[p] = "stored"
    /\ Spin(class[p])
    /\ rsp' = [rsp EXCEPT ![p] = IF act' = "none" THEN "ignored" ELSE "acted"]
    /\ UNCHANGED <<class, lastResp, init, rcvVars, timerVars, closer, done, outVars,
                   proc>>

-----------------------------------------------------------------------------
(* Timers.                                                                 *)

TimerFires(t) ==
    /\ Running /\ t \in armed
    /\ armed' = armed \ {t}
    /\ fired' = fired \cup {t}
    /\ UNCHANGED <<fsmVars, init, rcvVars, rspVars, timeG, timer, closer, done,
                   outVars, proc>>

TimerSpin(t) ==
    /\ Running /\ t \in fired
    /\ Spin(t)
    /\ fired' = fired \ {t}
    /\ UNCHANGED <<init, rcvVars, rspVars, timeG, timer, armed, closer, done,
                   outVars, proc>>

-----------------------------------------------------------------------------
(* The steps of the FSM actions, under the Spin lock.                      *)

\* Mutant of SendLast: actionFinal returns without starting timer J.
SendLast_NoJ ==
    /\ Running /\ step = "send"
    /\ \/ lastResp = Nil /\ Return /\ UNCHANGED sent
       \/ /\ lastResp # Nil
          /\ sent' = sent \cup {lastResp}
          /\ IF act = "respondComplete" THEN Goto("arm") ELSE Return
       \/ /\ lastResp # Nil /\ SendMayFail
          /\ Run("transErr") /\ UNCHANGED sent
    /\ UNCHANGED <<init, rcvVars, rspVars, timerVars, closer, done, requests,
                   acksUp, errs, proc>>

\* Mutant of SendLast: the error of a failed send is ignored.
SendLast_IgnoresError ==
    /\ Running /\ step = "send"
    /\ \/ lastResp = Nil /\ Return /\ UNCHANGED sent
       \/ /\ lastResp # Nil
          /\ sent' = sent \cup {lastResp} \/ (SendMayFail /\ UNCHANGED sent)
          /\ IF act \in {"respondComplete", "final"} THEN Goto("arm") ELSE Return
    /\ UNCHANGED <<init, rcvVars, rspVars, timerVars, closer, done, requests,
                   acksUp, errs, proc>>

\* Send lastResp: actionRespond, actionRespondComplete, actionFinal, and
\* the end of actionRespondDelete.  A failed send makes the action return
\* serverInputTransportErr.
SendLast ==
    /\ Running /\ step = "send"
    /\ \/ lastResp = Nil /\ Return /\ UNCHANGED sent
       \/ /\ lastResp # Nil
          /\ sent' = sent \cup {lastResp}
          /\ IF act \in {"respondComplete", "final"} THEN Goto("arm") ELSE Return
       \/ /\ lastResp # Nil /\ SendMayFail
          /\ Run("transErr") /\ UNCHANGED sent
    /\ UNCHANGED <<init, rcvVars, rspVars, timerVars, closer, done, requests,
                   acksUp, errs, proc>>

T2 == 8   \* 4 s in units of T1

\* actionRespondComplete: start timer G, or double its period up to T2.
ArmG == IF "timerG" \in timer
        THEN IF 2 * timeG > T2 THEN T2 ELSE 2 * timeG
        ELSE timeG

\* The end of actionRespondComplete (timers G and H) and of actionFinal (J).
ArmTimers ==
    /\ Running /\ step = "arm"
    /\ IF act = "final"
       THEN /\ timer' = timer \cup {"timerJ"}
            /\ armed' = armed \cup {"timerJ"}
            /\ UNCHANGED timeG
       ELSE LET g == IF Reliable THEN {} ELSE {"timerG"}
                h == {"timerH"} \ timer
            IN  /\ timer' = timer \cup g \cup h
                /\ armed' = armed \cup g \cup h
                /\ timeG' = IF Reliable THEN timeG ELSE ArmG
    /\ Return
    /\ UNCHANGED <<init, rcvVars, rspVars, fired, closer, done, outVars, proc>>

StopGH_KeepsG ==
    /\ Running /\ step = "stopGH"
    /\ timer' = (timer \ {"timerH"}) \cup {"timerI"}
    /\ armed' = (armed \ ({"timerH"} \cap timer)) \cup {"timerI"}
    /\ Goto("passUp")
    /\ UNCHANGED <<init, rcvVars, rspVars, timeG, fired, closer, done, outVars, proc>>

\* actionConfirm: timers G and H stop, timer I starts.
StopGH ==
    /\ Running /\ step = "stopGH"
    /\ timer' = (timer \ {"timerG", "timerH"}) \cup {"timerI"}
    /\ armed' = (armed \ ({"timerG", "timerH"} \cap timer)) \cup {"timerI"}
    /\ Goto("passUp")
    /\ UNCHANGED <<init, rcvVars, rspVars, timeG, fired, closer, done, outVars, proc>>

\* The end of actionConfirm and actionCancel: select { <-done; requests <- }.
\* On closed channels the send may be chosen; its panic is recovered and the
\* action then returns the zero input, serverInputRequest.
PassUp ==
    LET req == IF act = "confirm" THEN lastAck ELSE lastCancel IN
    /\ Running /\ step = "passUp"
    /\ \/ /\ ~done /\ Len(requests) < BufSize
          /\ requests' = Append(requests, req)
          /\ acksUp' = IF act = "confirm" THEN acksUp + 1 ELSE acksUp
          /\ Return
       \/ done /\ Return /\ UNCHANGED <<requests, acksUp>>
       \/ done /\ Run("request") /\ UNCHANGED <<requests, acksUp>>
    /\ UNCHANGED <<init, rcvVars, rspVars, timerVars, closer, done, sent, errs, proc>>

\* The 200 or 481 to a CANCEL; a failed send is only logged.
AnswerCancel ==
    /\ Running /\ step = "answer"
    /\ IF act = "cancel" THEN Goto("passUp") ELSE Return
    /\ UNCHANGED <<init, rcvVars, rspVars, timerVars, closer, done, outVars, proc>>

\* actionTransErr: report, then clientInputDelete.
ReportErr ==
    /\ Running /\ step = "err"
    /\ errs' = IF done THEN errs ELSE errs \cup {"transErr"}
    /\ Run("delete")
    /\ UNCHANGED <<init, rcvVars, rspVars, timerVars, closer, done, requests,
                   acksUp, sent, proc>>

\* delete: return if done, stop the timers under tx.mu, sleep, close the
\* channels once.  actionRespondDelete sends afterwards.
AfterDelete == IF act = "respondDelete" THEN Goto("send") ELSE Return

DeleteCheck ==
    /\ Running /\ step = "check"
    /\ IF done THEN AfterDelete ELSE Goto("stop")
    /\ UNCHANGED <<init, rcvVars, rspVars, timerVars, closer, done, outVars, proc>>

StopTimers ==
    /\ timer' = {}
    /\ armed' = armed \ timer
    /\ UNCHANGED <<timeG, fired>>

DeleteStop ==
    /\ Running /\ step = "stop"
    /\ StopTimers /\ Goto("close")
    /\ UNCHANGED <<init, rcvVars, rspVars, closer, done, outVars, proc>>

DeleteClose ==
    /\ Running /\ step = "close"
    /\ done' = TRUE
    /\ AfterDelete
    /\ UNCHANGED <<init, rcvVars, rspVars, timerVars, closer, outVars, proc>>

-----------------------------------------------------------------------------
(* The goroutine that serves the transaction.                              *)

Consume ==
    /\ Running /\ init = "served" /\ requests # <<>>
    /\ requests' = Tail(requests)
    /\ UNCHANGED <<fsmVars, init, rcvVars, rspVars, timerVars, closer, done, acksUp,
                   sent, errs, proc>>

Close ==
    /\ Running /\ init = "served" /\ closer = "none" /\ ~done
    /\ closer' = "stop"
    /\ UNCHANGED <<fsmVars, init, rcvVars, rspVars, timerVars, done, outVars, proc>>

CloseStop ==
    /\ Running /\ closer = "stop"
    /\ closer' = "close"
    /\ StopTimers
    /\ UNCHANGED <<fsmVars, init, rcvVars, rspVars, done, outVars, proc>>

CloseClose ==
    /\ Running /\ closer = "close"
    /\ closer' = "closed"
    /\ done' = TRUE
    /\ UNCHANGED <<fsmVars, init, rcvVars, rspVars, timerVars, outVars, proc>>

-----------------------------------------------------------------------------
InitSteps == InitFSM \/ InitArm1xx \/ PassUpRequest

ActionSteps == \/ SendLast \/ ArmTimers \/ StopGH \/ PassUp \/ AnswerCancel
               \/ ReportErr \/ DeleteCheck \/ DeleteStop \/ DeleteClose

CloseSteps == CloseStop \/ CloseClose

Next ==
    \/ InitSteps
    \/ \E r \in Receivers : \/ \E k \in Kinds : Receive(r, k)
                            \/ ReceiveSpin(r) \/ ReceiveNoFSM(r)
    \/ \E p \in Responders, c \in Classes : TuResponds(p, c)
    \/ Timer1xxResponds
    \/ \E p \in AllResponders : ResponseSpin(p)
    \/ \E t \in Timers : TimerFires(t)
    \/ \E t \in FsmTimers : TimerSpin(t)
    \/ ActionSteps
    \/ Consume \/ Close \/ CloseSteps

\* The timers whose firing deletes the transaction.
DeletionTimers == {"timerH", "timerI", "timerJ"}

\* The goroutine inside an FSM action, the reader of the requests channel and
\* a started Close run; the deletion timers fire, and their goroutines are not
\* starved by the others that wait for the Spin lock (Go's mutexes hand over
\* to the longest waiter).  Nothing is assumed of the TU, of the peer, of the
\* layer, or of the other timers.
Fairness ==
    /\ WF_vars(ActionSteps) /\ WF_vars(Consume) /\ WF_vars(CloseSteps)
    /\ \A t \in DeletionTimers : WF_vars(TimerFires(t)) /\ SF_vars(TimerSpin(t))

Spec == Init /\ [][Next]_vars /\ Fairness

-----------------------------------------------------------------------------
(* Properties.                                                             *)

\* The type invariant.
TypeOK ==
    /\ invite \in BOOLEAN
    /\ state \in States /\ act \in Actions /\ step \in Steps
    /\ init \in {"fsm", "arm", "return", "served"}
    /\ rcv \in [Receivers -> {"none", "noted", "spun"}]
    /\ kind \in [Receivers -> Kinds]
    /\ rsp \in [AllResponders -> {"none", "stored", "acted", "ignored"}]
    /\ class \in [AllResponders -> Classes]
    /\ lastResp \in AllResponders \cup {Nil}
    /\ lastAck \in Receivers \cup {Nil} /\ lastCancel \in Receivers \cup {Nil}
    /\ timeG \in 0..T2
    /\ timer \subseteq Timers /\ armed \subseteq Timers /\ fired \subseteq Timers
    /\ closer \in {"none", "stop", "close", "closed"} /\ done \in BOOLEAN
    /\ requests \in Seq(Receivers) /\ acksUp \in Nat
    /\ sent \subseteq AllResponders /\ errs \subseteq {"transErr"}
    /\ proc \in {"up", "nilFSM"}

TwoAcks == \E r, q \in Receivers : /\ r # q
                                    /\ rcv[r] = "spun" /\ kind[r] = "ack"
                                    /\ rcv[q] = "spun" /\ kind[q] = "ack"

\* When the FSM is at rest and nobody called Close, an answered transaction
\* has the timer pending that will delete it: H or J in Completed, I in
\* Confirmed; a terminated one is deleted already, unless a second ACK took it
\* from Confirmed to Terminated, which runs no action.
NeverStranded ==
    Running /\ step = "idle" /\ closer = "none" =>
      /\ state = "Completed" =>
           (IF invite THEN "timerH" ELSE "timerJ") \in armed \cup fired
      /\ state = "Confirmed" => "timerI" \in armed \cup fired
      /\ state = "Terminated" => done \/ TwoAcks

\* After the FSM deleted the transaction no action runs but the end of
\* actionRespondDelete, which deletes first and sends the 2xx afterwards.
QuietAfterDone == done /\ closer = "none" => act \in {"none", "respondDelete"}

\* Whatever the order of retransmitted ACKs, timers and Close, the TU gets at
\* most one ACK.
OneAckUp == acksUp <= 1

\* The ACK ends the retransmission of the final response: in Confirmed nothing
\* is sent, and timers G and H are not running any more.
AckSilences ==
    state = "Confirmed" =>
      /\ step # "send"
      /\ closer = "none" /\ step # "stopGH" => {"timerG", "timerH"} \cap armed = {}

\* What holds of every state of a server transaction: its types, the cap of timer
\* G among them, silence after the deletion, and silence after the ACK.
StaysSilent == TypeOK /\ QuietAfterDone /\ AckSilences

\* A transaction that completed has its final response on the wire, although
\* SendResponse only stores it and the FSM action reads it again: it can be lost
\* only if another goroutine stored a response of its own at the same time (timer
\* 1xx does, 200 ms after an INVITE), which the action then sent instead.
FinalOnWire ==
    Running /\ step = "idle" /\ closer = "none" /\ state = "Completed" =>
      \/ \E p \in sent : class[p] # "user1xx"
      \/ \E p, q \in AllResponders : /\ p # q /\ rsp[p] = "acted" /\ class[p] # "user1xx"
                                     /\ rsp[q] # "none"

\* An answered transaction is eventually deleted, unless the process panicked
\* or a second ACK terminated it without deleting it.
EventuallyDeleted ==
    [](state \notin {"Trying", "Proceeding"} => <>(done \/ ~Running \/ TwoAcks))

=============================================================================
