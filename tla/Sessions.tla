------------------------------ MODULE Sessions ------------------------------
(***************************************************************************)
(* The sessions of the transaction layer: the pool                         *)
(* (src/transaction/session_pool.go), a session (src/sip/session.go) and   *)
(* the places of transaction.go that use them, for one call.               *)
(*   - A goroutine per 2xx response calls handleSession: the answer to an  *)
(*     INVITE puts a new session under its dialog id, the answer to a BYE  *)
(*     drops what is stored there.                                         *)
(*   - put starts a watcher per session, which drops its key when the      *)
(*     session is closed.                                                  *)
(*   - Requests in the dialog, sent by the TU or received from the peer,   *)
(*     call updateSession.                                                 *)
(*   - The TU takes the session from the layer and uses it: attributes,    *)
(*     requests, Close.                                                    *)
(* The locks of the pool cover one map operation each; drop is three steps *)
(* (get, Session.Close, delete).                                           *)
(***************************************************************************)
EXTENDS Naturals, FiniteSets

CONSTANTS Answers,  \* goroutines with a 2xx each, which names the session it makes
          None,     \* no session
          TU, Wire, \* the transaction user, and the goroutine of a peer's request
          MaxSeq    \* bound: no request is made once a session has this sequence number

Parties == {"caller", "callee"}
Peer(p) == CHOOSE q \in Parties : q # p

\* message.DialogId: Call-ID, From tag and To tag, in this order; there is one
\* call, and a tag is named by its party.
DialogId(f, t) == <<f, t>>

\* The id of a request of party p, and of the responses to it.
IdOf(p) == DialogId(p, Peer(p))
Ids     == {IdOf(p) : p \in Parties}

Watcher(a) == <<a>>
Watchers   == {Watcher(a) : a \in Answers}
Updaters   == {TU, Wire}
Procs      == Answers \cup Watchers \cup Updaters

\* The goroutines are different ones.
ASSUME SessionsAssumption ==
    /\ None \notin Answers /\ TU # Wire /\ MaxSeq \in Nat \ {0}
    /\ Answers \cap Watchers = {} /\ Updaters \cap (Answers \cup Watchers) = {}

VARIABLES
    store,     \* sessionList: dialog id -> session
    life,      \* of each session: none, open or closed
    from, to,  \* the tags SaveMessage copied into each session
    seq,       \* session.seq
    spent,     \* the CSeq of the last request made from each session that was sent
    pc,        \* progress of each goroutine
    id,        \* the dialog id each goroutine works on
    got,       \* the session it found there
    held,      \* the session the TU holds
    req,       \* the request the TU made from a session: its CSeq, id and maker
    replaced,  \* sessions whose entry a later put overwrote
    swept,     \* sessions deleted by a drop that had found another one
    ended,     \* dialog ids a BYE was answered for or a session was closed under
    proc       \* "up", or the panic that took the process down

vars == <<store, life, from, to, seq, spent, pc, id, got, held, req, replaced, swept, ended, proc>>

sessionVars == <<life, from, to>>
seqVars     == <<seq, spent, held, req>>
ghosts      == <<replaced, swept, ended>>

NoReq == [cseq |-> 0, id |-> None, by |-> None]

Init ==
    /\ store = [i \in Ids |-> None]
    /\ life = [a \in Answers |-> "none"]
    /\ from = [a \in Answers |-> None] /\ to = [a \in Answers |-> None]
    /\ seq = [a \in Answers |-> 1] /\ spent = [a \in Answers |-> 0]
    /\ pc = [p \in Procs |-> IF p \in Updaters THEN "idle" ELSE "none"]
    /\ id = [p \in Procs |-> None]
    /\ got = [p \in Procs |-> None]
    /\ held = None /\ req = NoReq
    /\ replaced = {} /\ swept = {} /\ ended = {}
    /\ proc = "up"

Running == proc = "up"
Goto(p, l) == pc' = [pc EXCEPT ![p] = l]

\* Answers that have not come yet are alike: any one of them is the next.
IsNext(a) == pc[a] = "none" /\ a = CHOOSE b \in Answers : pc[b] = "none"

\* A goroutine that ends, or is idle again, has no locals.
Clear(p) == id' = [id EXCEPT ![p] = None] /\ got' = [got EXCEPT ![p] = None]
Key(a) == DialogId(from[a], to[a])

-----------------------------------------------------------------------------
(* handleSession, called for a 2xx.                                        *)

SaveMessage(a, p) ==
    /\ from' = [from EXCEPT ![a] = p]
    /\ to' = [to EXCEPT ![a] = Peer(p)]

\* The INVITE of party p (the first one is the caller's) is answered:
\* CreateSession, SaveMessage and put, which starts the watcher.  What was
\* stored under the id is overwritten, and stays open.
AnswerInvite(a, p) ==
    /\ Running /\ IsNext(a)
    /\ p = "caller" \/ \E b \in Answers : life[b] # "none"
    /\ life' = [life EXCEPT ![a] = "open"]
    /\ SaveMessage(a, p)
    /\ store' = [store EXCEPT ![IdOf(p)] = a]
    /\ replaced' = IF store[IdOf(p)] = None THEN replaced ELSE replaced \cup {store[IdOf(p)]}
    /\ pc' = [pc EXCEPT ![a] = "done", ![Watcher(a)] = "watch"]
    /\ id' = [id EXCEPT ![Watcher(a)] = IdOf(p)]
    /\ UNCHANGED <<seqVars, got, swept, ended, proc>>

\* The BYE of party p is answered: drop(resp.DialogId()).
AnswerBye(a, p) ==
    /\ Running /\ IsNext(a) /\ \E b \in Answers : life[b] # "none"
    /\ Goto(a, "get")
    /\ id' = [id EXCEPT ![a] = IdOf(p)]
    /\ ended' = ended \cup {IdOf(p)}
    /\ UNCHANGED <<store, sessionVars, seqVars, got, replaced, swept, proc>>

\* Mutant of Rejected: the status of the answer is not looked at.
Rejected_Drops(a, p) ==
    /\ Running /\ IsNext(a) /\ \E b \in Answers : life[b] # "none"
    /\ Goto(a, "get")
    /\ id' = [id EXCEPT ![a] = IdOf(p)]
    /\ UNCHANGED <<store, sessionVars, seqVars, got, ghosts, proc>>

\* The BYE of party p is answered with an error: !resp.IsSuccess().
Rejected(a, p) ==
    /\ Running /\ IsNext(a) /\ \E b \in Answers : life[b] # "none"
    /\ Goto(a, "done")
    /\ UNCHANGED <<store, sessionVars, seqVars, id, got, ghosts, proc>>

-----------------------------------------------------------------------------
(* drop, by a BYE's answer or a watcher, and Session.Close.                *)

\* listenSession: <-session.Done(), then the deferred drop.
WatchDone(a) ==
    /\ Running /\ pc[Watcher(a)] = "watch" /\ life[a] = "closed"
    /\ Goto(Watcher(a), "get")
    /\ UNCHANGED <<store, sessionVars, seqVars, id, got, ghosts, proc>>

\* Mutant of DropGet: the session found is not closed.
DropGet_NoClose(p) ==
    /\ Running /\ pc[p] = "get" /\ p \notin Updaters
    /\ got' = [got EXCEPT ![p] = store[id[p]]]
    /\ Goto(p, "delete")
    /\ UNCHANGED <<store, sessionVars, seqVars, id, ghosts, proc>>

\* if session := store.get(key); session != nil.
DropGet(p) ==
    /\ Running /\ pc[p] = "get" /\ p \notin Updaters
    /\ got' = [got EXCEPT ![p] = store[id[p]]]
    /\ Goto(p, IF store[id[p]] = None THEN "delete" ELSE "close")
    /\ UNCHANGED <<store, sessionVars, seqVars, id, ghosts, proc>>

\* Session.Close: nothing if it is closed already; else closeOnce makes the map
\* nil and closes the channel.  A second closer waits for the first.
Close(p) ==
    /\ Running /\ pc[p] = "close"
    /\ life' = [life EXCEPT ![got[p]] = "closed"]
    /\ Goto(p, IF p = TU THEN "idle" ELSE "delete")
    /\ got' = IF p = TU THEN [got EXCEPT ![TU] = None] ELSE got
    /\ UNCHANGED <<store, from, to, seqVars, id, ghosts, proc>>

\* Mutant of DropDelete: the entry is left in the map.
DropDelete_Keeps(p) ==
    /\ Running /\ pc[p] = "delete"
    /\ Goto(p, "done") /\ Clear(p)
    /\ UNCHANGED <<store, sessionVars, seqVars, ghosts, proc>>

\* delete(store.sessionList, key): whatever is stored now.
DropDelete(p) ==
    /\ Running /\ pc[p] = "delete"
    /\ store' = [store EXCEPT ![id[p]] = None]
    /\ swept' = IF store[id[p]] \in {None, got[p]} THEN swept
                ELSE swept \cup {store[id[p]]}
    /\ Goto(p, "done") /\ Clear(p)
    /\ UNCHANGED <<sessionVars, seqVars, replaced, ended, proc>>

-----------------------------------------------------------------------------
(* updateSession, for a request the TU sends or the peer sent, and the TU. *)

MayRequest == \A s \in Answers : seq[s] < MaxSeq

\* handleRequest calls updateSession(req) for a request of party q.
PeerRequest(q) ==
    /\ Running /\ pc[Wire] = "idle" /\ MayRequest
    /\ id' = [id EXCEPT ![Wire] = IdOf(q)]
    /\ Goto(Wire, "get")
    /\ UNCHANGED <<store, sessionVars, seqVars, got, ghosts, proc>>

\* Service.Session(key).  The TU sends the request it made before it takes another
\* session.
TUGet(i) ==
    /\ Running /\ pc[TU] = "idle" /\ store[i] # None /\ req = NoReq
    /\ held' = store[i]
    /\ UNCHANGED <<store, sessionVars, seq, spent, req, pc, id, got, ghosts, proc>>

\* SetAttribute writes to the map, which Close makes nil without the lock.
SetAttribute ==
    /\ Running /\ pc[TU] = "idle" /\ held # None
    /\ life[held] # "open"
    /\ proc' = "nilMap"
    /\ UNCHANGED <<store, sessionVars, seqVars, pc, id, got, ghosts>>

\* session.CreateRequest: the tags and the sequence number of the session.
CreateRequest ==
    /\ Running /\ pc[TU] = "idle" /\ held # None /\ MayRequest
    /\ req' = [cseq |-> seq[held], id |-> Key(held), by |-> held]
    /\ UNCHANGED <<store, sessionVars, seq, spent, held, pc, id, got, ghosts, proc>>

\* Send of that request: sendRequest calls updateSession(req) first.
TUSend ==
    /\ Running /\ pc[TU] = "idle" /\ req # NoReq
    /\ spent' = [spent EXCEPT ![req.by] = req.cseq]
    /\ id' = [id EXCEPT ![TU] = req.id]
    /\ req' = NoReq
    /\ Goto(TU, "get")
    /\ UNCHANGED <<store, sessionVars, seq, held, got, ghosts, proc>>

\* The TU closes the session it holds.
TUClose ==
    /\ Running /\ pc[TU] = "idle" /\ held # None /\ life[held] = "open"
    /\ got' = [got EXCEPT ![TU] = held]
    /\ ended' = ended \cup {Key(held)}
    /\ Goto(TU, "close")
    /\ UNCHANGED <<store, sessionVars, seqVars, id, replaced, swept, proc>>

\* session := txl.Session(req.DialogId()); session != nil.
UpdateGet(p) ==
    /\ Running /\ pc[p] = "get" /\ p \in Updaters
    /\ got' = [got EXCEPT ![p] = store[id[p]]]
    /\ id' = [id EXCEPT ![p] = None]
    /\ Goto(p, IF store[id[p]] = None THEN "idle" ELSE "atom")
    /\ UNCHANGED <<store, sessionVars, seqVars, ghosts, proc>>

\* Mutant of SeqAtom: a request that the TU sends does not count.
SeqAtom_PeerOnly(p) ==
    /\ Running /\ pc[p] = "atom"
    /\ seq' = IF p = TU THEN seq ELSE [seq EXCEPT ![got[p]] = @ + 1]
    /\ Goto(p, "idle") /\ Clear(p)
    /\ UNCHANGED <<store, sessionVars, spent, held, req, ghosts, proc>>

\* session.SeqAtom().
SeqAtom(p) ==
    /\ Running /\ pc[p] = "atom"
    /\ seq' = [seq EXCEPT ![got[p]] = @ + 1]
    /\ Goto(p, "idle") /\ Clear(p)
    /\ UNCHANGED <<store, sessionVars, spent, held, req, ghosts, proc>>

-----------------------------------------------------------------------------
Dropping(p) == DropGet(p) \/ Close(p) \/ DropDelete(p)

Next ==
    \/ \E a \in Answers, p \in Parties :
         AnswerInvite(a, p) \/ AnswerBye(a, p) \/ Rejected(a, p)
    \/ \E a \in Answers : WatchDone(a)
    \/ \E p \in Procs : Dropping(p)
    \/ \E p \in Parties : PeerRequest(p)
    \/ \E i \in Ids : TUGet(i)
    \/ SetAttribute \/ CreateRequest \/ TUSend \/ TUClose
    \/ \E p \in Updaters : UpdateGet(p) \/ SeqAtom(p)

\* Goroutines that can run do; what the TU and the network do is not assumed.
Fairness ==
    /\ \A a \in Answers : WF_vars(WatchDone(a))
    /\ \A p \in Procs : WF_vars(Dropping(p))

Spec == Init /\ [][Next]_vars /\ Fairness

-----------------------------------------------------------------------------
Sessions == Answers \cup {None}

\* The types of the variables; the sequence number passes MaxSeq by at most the
\* two requests that were under way, and no method is called on a nil session.
TypeOK ==
    /\ store \in [Ids -> Sessions]
    /\ life \in [Answers -> {"none", "open", "closed"}]
    /\ from \in [Answers -> Parties \cup {None}] /\ to \in [Answers -> Parties \cup {None}]
    /\ seq \in [Answers -> 1..(MaxSeq + 2)] /\ spent \in [Answers -> 0..MaxSeq + 2]
    /\ pc \in [Procs -> {"none", "idle", "watch", "get", "atom", "close",
                         "delete", "done"}]
    /\ id \in [Procs -> Ids \cup {None}] /\ got \in [Procs -> Sessions]
    /\ held \in Sessions
    /\ req \in [cseq : 0..MaxSeq + 2, id : Ids \cup {None}, by : Sessions]
    /\ replaced \subseteq Answers /\ swept \subseteq Answers /\ ended \subseteq Ids
    /\ proc \in {"up", "nilMap"}
    /\ \A p \in Procs : pc[p] \in {"atom", "close"} => got[p] # None

\* While a session is stored, and once the updateSession of the last request sent
\* from it has run, the next request it makes has a higher CSeq than all that were
\* sent: the request carries the tags of the session, so that updateSession
\* (transaction.go:299) finds the session that made it.
NeverReused ==
    \A i \in Ids :
        (store[i] # None /\ pc[TU] \notin {"get", "atom"}) =>
            spent[store[i]] < seq[store[i]]

\* A session leaves the pool open, its Done channel never to be closed by the
\* layer, in two ways only: a second 2xx under its id overwrote it, or a drop that
\* had looked before it was put deleted it (session_pool.go:57).
LeavesClosed ==
    \A s \in Answers :
        life[s] = "open" => s \in replaced \cup swept \cup {store[Key(s)]}

\* The state of a session and its place in the pool agree.
SessionsSound == TypeOK /\ LeavesClosed

\* Whoever closes a session, and the nil map a SetAttribute then writes to
\* (session.go:144), comes after an accepted BYE under its own id or a Close by the
\* TU of a session of that id: neither a rejected BYE nor the BYE of the other
\* dialog direction ends it.
OpenUntilBye ==
    /\ \A s \in Answers : life[s] = "closed" => Key(s) \in ended
    /\ proc = "nilMap" => Key(held) \in ended

ClosedIn(i) == store[i] # None /\ life[store[i]] = "closed"

\* A session that is closed does not stay in the pool, unless the process panicked:
\* its watcher drops its key, whatever other drops run (session_pool.go:25).
ClosedLeavesStore ==
    \A i \in Ids : ClosedIn(i) ~> (~ClosedIn(i) \/ proc # "up")

=============================================================================
