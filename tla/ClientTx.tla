------------------------------ MODULE ClientTx ------------------------------
(***************************************************************************)
(* One client transaction (src/transaction/client_tx.go) and the           *)
(* goroutines that run it at the same time:                                *)
(*   - the goroutine that calls Init (layer.sendRequest);                  *)
(*   - one goroutine per received response (layer.handleMessage, started   *)
(*     with "go"), which stores lastResp and only then spins the FSM;      *)
(*   - the goroutines of timers A, B and D (time.AfterFunc);               *)
(*   - the goroutine that serves the transaction (layer.serveTransaction), *)
(*     which drains Responses() and calls Close when the layer is          *)
(*     canceled.                                                           *)
(* FSM.Spin (github.com/discoviking/fsm) is serialised by a lock that its  *)
(* action runs under, so at most one FSM action is in progress (act,       *)
(* step); each step of an action up to the next lock, channel operation or *)
(* transport call is one TLA+ action.                                      *)
(***************************************************************************)
EXTENDS Naturals, Sequences, FiniteSets

CONSTANTS Reliable,   \* tx.reliable: the transport of the top Via
          Receivers,  \* one goroutine (and one response) each
          NoResp,     \* the nil response
          SendMayFail, \* TRUE: the transport layer's Send may return an error
          BufSize,    \* capacity of the responses channel (64 in the code)
          MaxTimeA    \* bound: timer A fires only up to this period (in T1)

ASSUME ClientTxAssumption ==
    /\ Reliable \in BOOLEAN
    /\ SendMayFail \in BOOLEAN
    /\ NoResp \notin Receivers
    /\ BufSize \in Nat \ {0}
    /\ MaxTimeA \in Nat \ {0}

VARIABLES
    invite,     \* tx.Origin().IsInvite(): TRUE for an INVITE, never changes
    state,      \* current FSM state
    act,        \* FSM action in progress under the Spin lock, or "none"
    step,       \* where that action is; "idle" when the Spin lock is free
    init,       \* progress of Init
    rcv,        \* progress of each Receive
    class,      \* class of the response each receiver carries
    lastResp,   \* tx.lastResp
    held,       \* the response passUp read and is going to send
    lastErr,    \* tx.lastErr # nil
    timeA,      \* tx.timeATime in units of T1
    timeD,      \* tx.timeDTime: zero value, or TimeD / TimeK
    timer,      \* the timer fields that are not nil
    armed,      \* runtime timers that are going to fire
    fired,      \* timer goroutines that wait to spin the FSM
    durD,       \* duration timer D was armed with
    closer,     \* progress of Close, called by serveTransaction
    done,       \* done, responses and errs are closed
    responses,  \* content of the responses channel
    errs,       \* errors sent to the errs channel
    acked,      \* the responses an ACK was sent for
    proc        \* "up", or the panic that took the process down

vars == <<invite, state, act, step, init, rcv, class, lastResp, held, lastErr, timeA,
          timeD, timer, armed, fired, durD, closer, done, responses, errs, acked, proc>>

fsmVars   == <<invite, state, act, step>>
rcvVars   == <<rcv, class, lastResp, held>>
timerVars == <<timeA, timeD, timer, armed, fired, durD>>
outVars   == <<responses, errs, acked>>

-----------------------------------------------------------------------------
(* The transition tables.                                                  *)

States  == {"Calling", "Proceeding", "Completed", "Terminated"}
Classes == {"r1xx", "r2xx", "r300"}
Timers  == {"timerA", "timerB", "timerD"}

To(s, a) == [state |-> s, action |-> a]

InviteFSM ==
  [Calling    |-> [r1xx     |-> To("Proceeding", "passUp"),
                   r2xx     |-> To("Terminated", "passUpDelete"),
                   r300     |-> To("Completed", "inviteFinal"),
                   timerA   |-> To("Calling", "inviteResend"),
                   timerB   |-> To("Terminated", "timeout"),
                   transErr |-> To("Terminated", "transErr")],
   Proceeding |-> [r1xx     |-> To("Proceeding", "passUp"),
                   r2xx     |-> To("Terminated", "passUpDelete"),
                   r300     |-> To("Completed", "inviteFinal"),
                   timerA   |-> To("Proceeding", "none"),
                   timerB   |-> To("Proceeding", "none")],
   Completed  |-> [r1xx     |-> To("Completed", "none"),
                   r2xx     |-> To("Completed", "none"),
                   r300     |-> To("Completed", "ack"),
                   transErr |-> To("Terminated", "transErr"),
                   timerA   |-> To("Completed", "none"),
                   timerB   |-> To("Completed", "none"),
                   timerD   |-> To("Terminated", "delete")],
   Terminated |-> [in \in Classes \cup Timers \cup {"delete"} |->
                      To("Terminated", IF in = "delete" THEN in ELSE "none")]]

NonInviteFSM ==
  [Calling    |-> [r1xx     |-> To("Proceeding", "passUp"),
                   r2xx     |-> To("Completed", "nonInviteFinal"),
                   r300     |-> To("Completed", "nonInviteFinal"),
                   timerA   |-> To("Calling", "nonInviteResend"),
                   timerB   |-> To("Terminated", "timeout"),
                   transErr |-> To("Terminated", "transErr")],
   Proceeding |-> [r1xx     |-> To("Proceeding", "passUp"),
                   r2xx     |-> To("Completed", "nonInviteFinal"),
                   r300     |-> To("Completed", "nonInviteFinal"),
                   timerA   |-> To("Proceeding", "nonInviteResend"),
                   timerB   |-> To("Terminated", "timeout"),
                   transErr |-> To("Terminated", "transErr")],
   Completed  |-> [r1xx     |-> To("Completed", "none"),
                   r2xx     |-> To("Completed", "none"),
                   r300     |-> To("Completed", "none"),
                   timerA   |-> To("Completed", "none"),
                   timerB   |-> To("Completed", "none"),
                   timerD   |-> To("Terminated", "delete")],
   Terminated |-> [in \in Classes \cup Timers \cup {"delete"} |->
                      To("Terminated", IF in = "delete" THEN in ELSE "none")]]

\* Mutants of Table.
TableWith(i, n) == IF invite THEN i ELSE n

Table_ResendNotCalling ==
  TableWith([InviteFSM EXCEPT !["Proceeding"]["timerA"] = To("Proceeding", "inviteResend")],
            [NonInviteFSM EXCEPT !["Completed"]["timerA"] = To("Completed", "nonInviteResend")])

Table_ActsInTerminated ==
  TableWith([InviteFSM EXCEPT !["Terminated"]["timerA"] = To("Terminated", "inviteResend")],
            [NonInviteFSM EXCEPT !["Terminated"]["r1xx"] = To("Terminated", "passUp")])

Table_LateTimeout ==
  TableWith([InviteFSM EXCEPT !["Proceeding"]["timerB"] = To("Terminated", "timeout")],
            [NonInviteFSM EXCEPT !["Completed"]["timerB"] = To("Terminated", "timeout")])

Table_NoTimeout ==
  TableWith(InviteFSM,
            [NonInviteFSM EXCEPT !["Proceeding"]["timerB"] = To("Proceeding", "none")])

Table == IF invite THEN InviteFSM ELSE NonInviteFSM

\* The step each action starts with ("idle" for fsm.NO_ACTION).
FirstStep ==
  [none |-> "idle", passUp |-> "passUp", inviteFinal |-> "passUp",
   nonInviteFinal |-> "passUp", passUpDelete |-> "passUp",
   inviteResend |-> "reset", nonInviteResend |-> "reset", ack |-> "ack",
   transErr |-> "err", timeout |-> "err", delete |-> "check"]

Actions == DOMAIN FirstStep
Steps   == {"idle", "passUp", "select", "ack", "stopA", "dropA", "timerD", "reset",
            "resend", "err", "check", "stop", "close", "wedged"}

-----------------------------------------------------------------------------
Init ==
    /\ invite \in BOOLEAN
    /\ state = "Calling" /\ act = "none" /\ step = "idle"
    /\ init = "send"
    /\ rcv = [r \in Receivers |-> "none"]
    /\ class = [r \in Receivers |-> "r1xx"]
    /\ lastResp = NoResp /\ held = NoResp /\ lastErr = FALSE
    /\ timeA = 0 /\ timeD = "zero" /\ durD = "none"
    /\ timer = {} /\ armed = {} /\ fired = {}
    /\ closer = "none" /\ done = FALSE
    /\ responses = <<>> /\ errs = {} /\ acked = {}
    /\ proc = "up"

Running == proc = "up"

\* One round of FSM.Spin, under its lock: look the input up and start the
\* action.  An input the state has no outcome for is an error: the state stays
\* and the lock is released.
Run(in) ==
    /\ UNCHANGED invite
    /\ IF in \in DOMAIN Table[state]
       THEN /\ state' = Table[state][in].state
            /\ act' = Table[state][in].action
            /\ step' = FirstStep[Table[state][in].action]
       ELSE act' = "none" /\ step' = "idle" /\ UNCHANGED state

\* A goroutine calls Spin: the lock must be free.
Spin(in) == step = "idle" /\ Run(in)

\* An action that returns fsm.NO_INPUT ends the Spin; one that returns
\* clientInputDelete is run for that input in the state it led to.
Return       == act' = "none" /\ step' = "idle" /\ UNCHANGED <<invite, state>>
ReturnDelete == Run("delete")
Goto(s)      == step' = s /\ UNCHANGED <<invite, state, act>>

-----------------------------------------------------------------------------
(* Init.                                                                   *)

InitSend ==
    /\ Running /\ init = "send"
    /\ \/ init' = "arm" /\ UNCHANGED lastErr
       \/ SendMayFail /\ init' = "spinErr" /\ lastErr' = TRUE
    /\ UNCHANGED <<fsmVars, rcvVars, timerVars, closer, done, outVars, proc>>

InitSpinErr ==
    /\ Running /\ init = "spinErr"
    /\ Spin("transErr")
    /\ init' = "failed"
    /\ UNCHANGED <<rcvVars, lastErr, timerVars, closer, done, outVars, proc>>

\* Mutant of InitArmA: the period of timer D is not set.
InitArmA_NoPeriod ==
    /\ Running /\ init = "arm"
    /\ init' = "armB"
    /\ IF Reliable
       THEN UNCHANGED <<timeA, timer, armed>>
       ELSE /\ timeA' = 1
            /\ timer' = timer \cup {"timerA"}
            /\ armed' = armed \cup {"timerA"}
    /\ UNCHANGED <<fsmVars, rcvVars, lastErr, timeD, fired, durD, closer, done,
                   outVars, proc>>

\* First critical section after the send: the periods, and timer A.
InitArmA ==
    /\ Running /\ init = "arm"
    /\ init' = "armB"
    /\ IF Reliable
       THEN timeD' = "zero" /\ UNCHANGED <<timeA, timer, armed>>
       ELSE /\ timeA' = 1 /\ timeD' = "long"
            /\ timer' = timer \cup {"timerA"}
            /\ armed' = armed \cup {"timerA"}
    /\ UNCHANGED <<fsmVars, rcvVars, lastErr, fired, durD, closer, done,
                   outVars, proc>>

InitArmB ==
    /\ Running /\ init = "armB"
    /\ init' = "return"
    /\ timer' = timer \cup {"timerB"}
    /\ armed' = armed \cup {"timerB"}
    /\ UNCHANGED <<fsmVars, rcvVars, lastErr, timeA, timeD, fired, durD,
                   closer, done, outVars, proc>>

InitReturn ==
    /\ Running /\ init = "return"
    /\ init' = IF lastErr THEN "err" ELSE "ok"
    /\ UNCHANGED <<fsmVars, rcvVars, lastErr, timerVars, closer, done,
                   outVars, proc>>

\* The request was handed to the transport, so a response may come back.
OnWire == init \in {"arm", "armB", "return", "ok", "err"}

-----------------------------------------------------------------------------
(* Receive: lastResp is stored under tx.mu, the FSM is spun after that.    *)

Receive(r, c) ==
    /\ Running /\ OnWire /\ rcv[r] = "none"
    /\ rcv' = [rcv EXCEPT ![r] = "stored"]
    /\ class' = [class EXCEPT ![r] = c]
    /\ lastResp' = r
    /\ UNCHANGED <<fsmVars, init, held, lastErr, timerVars, closer, done,
                   outVars, proc>>

ReceiveSpin(r) ==
    /\ Running /\ rcv[r] = "stored"
    /\ Spin(class[r])
    /\ rcv' = [rcv EXCEPT ![r] = IF act' = "none" THEN "ignored" ELSE "acted"]
    /\ UNCHANGED <<class, lastResp, held, init, lastErr, timerVars, closer, done,
                   outVars, proc>>

-----------------------------------------------------------------------------
(* Timers: a runtime timer fires into a goroutine, which then spins.       *)

TimerFires(t) ==
    /\ Running /\ t \in armed
    /\ t = "timerA" => timeA <= MaxTimeA
    /\ armed' = armed \ {t}
    /\ fired' = fired \cup {t}
    /\ UNCHANGED <<fsmVars, init, rcvVars, lastErr, timeA, timeD, timer, durD,
                   closer, done, outVars, proc>>

TimerSpin(t) ==
    /\ Running /\ t \in fired
    /\ Spin(t)
    /\ fired' = fired \ {t}
    /\ UNCHANGED <<init, rcvVars, lastErr, timeA, timeD, timer, armed, durD,
                   closer, done, outVars, proc>>

-----------------------------------------------------------------------------
(* The steps of the FSM actions, under the Spin lock.                      *)

AfterPassUp == [passUp |-> "stopA", inviteFinal |-> "ack",
                nonInviteFinal |-> "timerD", passUpDelete |-> "dropA"]

\* passUp reads lastResp under tx.mu, then
\* select { <-done; responses <- lastResp }.  Once both channels are closed
\* either case may be taken, and the send panics.
PassUpRead ==
    /\ Running /\ step = "passUp"
    /\ held' = lastResp
    /\ Goto("select")
    /\ UNCHANGED <<init, rcv, class, lastResp, lastErr, timerVars, closer, done,
                   outVars, proc>>

PassUpSelect ==
    /\ Running /\ step = "select"
    /\ \/ /\ ~done /\ Len(responses) < BufSize
          /\ responses' = Append(responses, held)
          /\ Goto(AfterPassUp[act]) /\ UNCHANGED proc
       \/ /\ done
          /\ Goto(AfterPassUp[act]) /\ UNCHANGED <<responses, proc>>
       \/ /\ done
          /\ proc' = "sendOnClosed" /\ UNCHANGED <<fsmVars, responses>>
    /\ UNCHANGED <<init, rcvVars, lastErr, timerVars, closer, done, errs, acked>>

\* Some other goroutine can be inside a tx.mu critical section right now.
MuContended == \/ OnWire /\ \E r \in Receivers : rcv[r] = "none"
               \/ init \in {"arm", "armB"}
               \/ closer \in {"stop", "close"}

\* ack has a value receiver: it works on a copy of the transaction, mutex
\* included.  A mutex copied while locked is never unlocked, and a failed
\* send spins the FSM from inside its own action: both block for ever, with
\* the Spin lock held.
Ack ==
    /\ Running /\ step = "ack"
    /\ \/ /\ acked' = acked \cup {lastResp}
          /\ IF act = "inviteFinal" THEN Goto("timerD") ELSE Return
       \/ /\ SendMayFail \/ MuContended
          /\ Goto("wedged") /\ UNCHANGED acked
    /\ UNCHANGED <<init, rcvVars, lastErr, timerVars, closer, done, responses,
                   errs, proc>>

\* Stop timer A: the end of actionPassUp, actionTransErr and actionTimeout.
StopA ==
    /\ Running /\ step = "stopA"
    /\ timer' = timer \ {"timerA"}
    /\ armed' = IF "timerA" \in timer THEN armed \ {"timerA"} ELSE armed
    /\ IF act = "passUp" THEN Return ELSE ReturnDelete
    /\ UNCHANGED <<init, rcvVars, lastErr, timeA, timeD, fired, durD, closer,
                   done, outVars, proc>>

\* actionPassUpDelete forgets timer A without stopping it.
DropA ==
    /\ Running /\ step = "dropA"
    /\ timer' = timer \ {"timerA"}
    /\ ReturnDelete
    /\ UNCHANGED <<init, rcvVars, lastErr, timeA, timeD, armed, fired, durD,
                   closer, done, outVars, proc>>

\* Mutant of StartD: a zero period is taken for "no timer".
StartD_SkipsZero ==
    /\ Running /\ step = "timerD"
    /\ timer' = (timer \ {"timerA"}) \cup {"timerD"}
    /\ armed' = (armed \ ({"timerA"} \cap timer))
                  \cup (IF timeD = "zero" THEN {} ELSE {"timerD"})
    /\ durD' = timeD
    /\ Return
    /\ UNCHANGED <<init, rcvVars, lastErr, timeA, timeD, fired, closer, done,
                   outVars, proc>>

\* The end of actionInviteFinal and actionNonInviteFinal.
StartD ==
    /\ Running /\ step = "timerD"
    /\ timer' = (timer \ {"timerA"}) \cup {"timerD"}
    /\ armed' = (armed \ ({"timerA"} \cap timer)) \cup {"timerD"}
    /\ durD' = timeD
    /\ Return
    /\ UNCHANGED <<init, rcvVars, lastErr, timeA, timeD, fired, closer, done,
                   outVars, proc>>

T2 == 8   \* 4 s in units of T1

\* The first half of actionInviteResend and actionNonInviteResend; a nil
\* timer A is dereferenced.
ResetA ==
    /\ Running /\ step = "reset"
    /\ timeA' = IF act = "nonInviteResend" /\ 2 * timeA > T2
                THEN T2 ELSE 2 * timeA
    /\ IF "timerA" \in timer
       THEN armed' = armed \cup {"timerA"} /\ Goto("resend") /\ UNCHANGED proc
       ELSE proc' = "nilTimer" /\ UNCHANGED <<armed, fsmVars>>
    /\ UNCHANGED <<init, rcvVars, lastErr, timeD, timer, fired, durD, closer,
                   done, outVars>>

\* resend; on a failed send it spins the FSM from inside its own action.
Resend ==
    /\ Running /\ step = "resend"
    /\ \/ lastErr' = FALSE /\ Return
       \/ SendMayFail /\ lastErr' = TRUE /\ Goto("wedged")
    /\ UNCHANGED <<init, rcvVars, timerVars, closer, done, outVars, proc>>

\* transportErr and timeoutErr, which recover from their panics: Short() on
\* a nil response, or a send on the closed channel.
ReportErr ==
    /\ Running /\ step = "err"
    /\ errs' = IF done \/ (act = "transErr" /\ lastResp = NoResp)
               THEN errs ELSE errs \cup {act}
    /\ Goto("stopA")
    /\ UNCHANGED <<init, rcvVars, lastErr, timerVars, closer, done, responses,
                   acked, proc>>

\* delete, called by actionDelete: return if done, stop the timers under
\* tx.mu, sleep, close the channels once.
DeleteCheck ==
    /\ Running /\ step = "check"
    /\ IF done THEN Return ELSE Goto("stop")
    /\ UNCHANGED <<init, rcvVars, lastErr, timerVars, closer, done, outVars, proc>>

StopTimers ==
    /\ timer' = {}
    /\ armed' = armed \ timer
    /\ UNCHANGED <<timeA, timeD, fired, durD>>

DeleteStop ==
    /\ Running /\ step = "stop"
    /\ StopTimers /\ Goto("close")
    /\ UNCHANGED <<init, rcvVars, lastErr, closer, done, outVars, proc>>

DeleteClose ==
    /\ Running /\ step = "close"
    /\ done' = TRUE
    /\ Return
    /\ UNCHANGED <<init, rcvVars, lastErr, timerVars, closer, outVars, proc>>

-----------------------------------------------------------------------------
(* The goroutine that serves the transaction, once Init returned nil.      *)

\* The forwarding goroutine takes a response out of the channel.
Consume ==
    /\ Running /\ init = "ok" /\ responses # <<>>
    /\ responses' = Tail(responses)
    /\ UNCHANGED <<fsmVars, init, rcvVars, lastErr, timerVars, closer, done,
                   errs, acked, proc>>

\* The layer was canceled: Close, which runs delete outside the FSM.
Close ==
    /\ Running /\ init = "ok" /\ closer = "none" /\ ~done
    /\ closer' = "stop"
    /\ UNCHANGED <<fsmVars, init, rcvVars, lastErr, timerVars, done, outVars, proc>>

CloseStop ==
    /\ Running /\ closer = "stop"
    /\ closer' = "close"
    /\ StopTimers
    /\ UNCHANGED <<fsmVars, init, rcvVars, lastErr, done, outVars, proc>>

CloseClose ==
    /\ Running /\ closer = "close"
    /\ closer' = "closed"
    /\ done' = TRUE
    /\ UNCHANGED <<fsmVars, init, rcvVars, lastErr, timerVars, outVars, proc>>

-----------------------------------------------------------------------------
InitSteps == InitSend \/ InitSpinErr \/ InitArmA \/ InitArmB \/ InitReturn

ActionSteps == \/ PassUpRead \/ PassUpSelect \/ Ack \/ StopA \/ DropA \/ StartD
               \/ ResetA \/ Resend \/ ReportErr \/ DeleteCheck \/ DeleteStop \/ DeleteClose

CloseSteps == CloseStop \/ CloseClose

Next ==
    \/ InitSteps
    \/ \E r \in Receivers : (\E c \in Classes : Receive(r, c)) \/ ReceiveSpin(r)
    \/ \E t \in Timers : TimerFires(t) \/ TimerSpin(t)
    \/ ActionSteps
    \/ Consume \/ Close \/ CloseSteps

\* Init runs to its end, and so do the goroutine inside an FSM action, the
\* reader of the responses channel and a started Close; timers B and D fire,
\* and their goroutines are not starved by the others that wait for the Spin
\* lock (Go's mutexes hand over to the longest waiter), timer A's endless
\* retransmissions included.  Nothing is assumed of the network, of the layer,
\* or of the goroutines that carry responses.
Fairness ==
    /\ WF_vars(InitSteps) /\ WF_vars(ActionSteps)
    /\ WF_vars(Consume) /\ WF_vars(CloseSteps)
    /\ \A t \in {"timerB", "timerD"} : WF_vars(TimerFires(t)) /\ SF_vars(TimerSpin(t))

Spec == Init /\ [][Next]_vars /\ Fairness

-----------------------------------------------------------------------------
(* Properties.                                                             *)

\* The type invariant.
TypeOK ==
    /\ invite \in BOOLEAN
    /\ state \in States /\ act \in Actions /\ step \in Steps
    /\ init \in {"send", "spinErr", "failed", "arm", "armB", "return", "ok", "err"}
    /\ rcv \in [Receivers -> {"none", "stored", "acted", "ignored"}]
    /\ class \in [Receivers -> Classes]
    /\ lastResp \in Receivers \cup {NoResp} /\ held \in Receivers \cup {NoResp}
    /\ lastErr \in BOOLEAN
    /\ timeA \in Nat /\ timeD \in {"zero", "long"} /\ durD \in {"none", "zero", "long"}
    /\ timer \subseteq Timers /\ armed \subseteq Timers /\ fired \subseteq Timers
    /\ closer \in {"none", "stop", "close", "closed"} /\ done \in BOOLEAN
    /\ responses \in Seq(Receivers \cup {NoResp})
    /\ errs \subseteq {"timeout", "transErr"}
    /\ acked \subseteq Receivers \cup {NoResp}
    /\ proc \in {"up", "sendOnClosed", "nilTimer"}

\* passUp never sends on the closed responses channel, and a resend never
\* dereferences a nil timer A, unless Close runs against the FSM (it does not
\* take the Spin lock) or, for a non-INVITE request, a fired timer A waits for
\* the FSM while a provisional response moves it to Proceeding.
PanicOnlyInRaces ==
    /\ proc = "sendOnClosed" => closer # "none"
    /\ proc = "nilTimer" =>
         closer # "none" \/ (~invite /\ state = "Proceeding")

\* When the FSM is at rest and nobody called Close, something is left that
\* will end the transaction: timer B (pending, or its goroutine waiting) until
\* a final response, timer D in Completed, and in Terminated the transaction
\* is deleted already.  An INVITE in Proceeding is the one state that waits
\* for the peer alone.
NeverStranded ==
    Running /\ step = "idle" /\ closer = "none" =>
      /\ state = "Terminated" => done
      /\ state = "Completed" => "timerD" \in armed \cup fired
      /\ /\ state = "Calling" \/ (state = "Proceeding" /\ ~invite)
         /\ init \in {"return", "ok", "err"}
         => "timerB" \in armed \cup fired

\* Once the FSM deleted the transaction nothing is sent or passed up any more,
\* although actionPassUpDelete leaves timer A running and Init may arm timers
\* after the deletion.
QuietAfterDone ==
    done /\ closer = "none" =>
      step \notin {"passUp", "select", "ack", "reset", "resend"}

\* The timeout error is reported only if no response was acted on (INVITE) or
\* none but provisional ones (non-INVITE), whatever the order in which timer B
\* and the responses reach the FSM.
TimeoutMeansNoAnswer ==
    "timeout" \in errs =>
      \A r \in Receivers : rcv[r] = "acted" => ~invite /\ class[r] = "r1xx"

Settled == \/ done \/ ~Running \/ step = "wedged"
           \/ invite /\ state = "Proceeding"

\* Every transaction is eventually deleted, or the process panicked, or the
\* Spin lock is held for ever by an action that failed to send, or it is an
\* INVITE that got a provisional response and waits for the final one.
EventuallySettled == <>[]Settled

\* Timer D keeps an unreliable transaction in Completed for its full period
\* ("Timer D is set to 32 seconds for unreliable transports", client_tx.go:86)
\* once Init has left its first critical section.  A final response that is
\* handled before that finds tx.timeDTime still zero.
TimerDSet ==
    [][durD' # durD /\ ~Reliable /\ init \in {"armB", "return", "ok", "err"}
         => durD' = "long"]_vars

=============================================================================
