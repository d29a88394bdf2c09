--------------------------- MODULE SessionsProofs ---------------------------
(***************************************************************************)
(* Proofs about Sessions, for any number of answers to INVITE and BYE, and *)
(* any bound on the sequence numbers.                                      *)
(***************************************************************************)
EXTENDS Sessions, TLAPS

-----------------------------------------------------------------------------
(* The inductive invariant.                                                *)

Made(s) == s \in Answers /\ life[s] # "none"

\* Which points of its code a goroutine can be at, and the key of a watcher.
ProcInv ==
    /\ \A a \in Answers :
         /\ pc[a] \in {"none", "get", "close", "delete", "done"}
         /\ pc[Watcher(a)] \in {"none", "watch", "get", "close", "delete", "done"}
         /\ pc[a] = "none" => life[a] = "none"
         /\ pc[Watcher(a)] = "watch" => Made(a) /\ id[Watcher(a)] = Key(a)
    /\ pc[TU] \in {"idle", "get", "atom", "close"}
    /\ pc[Wire] \in {"idle", "get", "atom"}

\* A session that was made has a dialog id, and is stored under no other; the
\* TU holds only such a session.
KeyInv ==
    /\ \A s \in Answers : life[s] # "none" => Key(s) \in Ids
    /\ \A i \in Ids : store[i] # None => Made(store[i]) /\ Key(store[i]) = i
    /\ held # None => Made(held)

\* A drop works on the id of a dialog that ended, closes sessions of that id,
\* and has closed what it found when it deletes.
DropInv ==
    \A p \in Procs :
      /\ pc[p] = "get" => id[p] \in Ids /\ (p \notin Updaters => id[p] \in ended)
      /\ pc[p] = "close" => /\ Made(got[p]) /\ Key(got[p]) \in ended
                            /\ p # TU => id[p] \in Ids
      /\ pc[p] = "delete" => /\ id[p] \in Ids
                             /\ got[p] = None \/ life[got[p]] = "closed"
      /\ pc[p] = "atom" => got[p] # None

\* updateSession for the last request sent from s has not counted it yet.
Pending(s) == \/ pc[TU] = "get" /\ id[TU] = Key(s)
              \/ pc[TU] = "atom" /\ got[TU] = s

\* The request the TU made has the tags and at most the sequence number of its
\* session; a stored session is ahead of what was sent, or updateSession is
\* about to put it ahead.
SeqInv ==
    /\ req # NoReq => /\ Made(req.by) /\ req.id = Key(req.by) /\ req.cseq <= seq[req.by]
                      /\ pc[TU] \in {"idle", "close"}
    /\ \A s \in Answers : spent[s] <= seq[s]
    /\ \A s \in Answers : life[s] = "none" => spent[s] = 0
    /\ \A s \in Answers : Made(s) /\ store[Key(s)] = s => spent[s] < seq[s] \/ Pending(s)

\* The requests whose updateSession is still to come.
TUOut   == IF req # NoReq \/ pc[TU] \in {"get", "atom"} THEN 1 ELSE 0
WireOut == IF pc[Wire] \in {"get", "atom"} THEN 1 ELSE 0

\* They are made only below the bound.
BoundInv == \A s \in Answers : seq[s] + TUOut + WireOut <= MaxSeq + 1

IInv == /\ TypeOK /\ ProcInv /\ KeyInv /\ DropInv /\ SeqInv /\ BoundInv
        /\ LeavesClosed /\ OpenUntilBye

-----------------------------------------------------------------------------
(* Goroutines and ids.                                                     *)

\* The two parties name each other.
LEMMA PeerFacts == \A p \in Parties : Peer(p) \in Parties /\ IdOf(p) \in Ids
<1>1. ASSUME NEW p \in Parties PROVE Peer(p) \in Parties
  <2>1. \E q \in Parties : q # p
    BY DEF Parties
  <2> QED BY <2>1 DEF Peer
<1> QED BY <1>1 DEF Ids

\* Answers, watchers and updaters are different goroutines, and every session
\* has a watcher of its own.
LEMMA ProcFacts ==
    /\ Answers \subseteq Procs /\ TU \in Procs /\ Wire \in Procs /\ TU # Wire
    /\ TU \in Updaters /\ Wire \in Updaters /\ Updaters = {TU, Wire}
    /\ TU \notin Answers /\ Wire \notin Answers
    /\ \A p \in Procs : p \in Answers \/ p \in Updaters \/ \E a \in Answers : p = Watcher(a)
    /\ \A a \in Answers : /\ Watcher(a) \in Procs /\ Watcher(a) # TU /\ Watcher(a) # Wire
                          /\ a \notin Updaters /\ Watcher(a) \notin Updaters
                          /\ Watcher(a) \notin Answers
                          /\ \A b \in Answers : Watcher(a) = Watcher(b) => a = b
<1>1. \A a, b \in Answers : Watcher(a) = Watcher(b) => a = b
  BY DEF Watcher
<1>2. \A a \in Answers : Watcher(a) \in Watchers
  BY DEF Watchers
<1>3. \A p \in Watchers : \E a \in Answers : p = Watcher(a)
  BY DEF Watchers
<1> QED BY <1>1, <1>2, <1>3, SessionsAssumption DEF Procs, Updaters

\* The empty pool satisfies the invariant.
LEMMA InitInv == Init => IInv
<1> SUFFICES ASSUME Init PROVE IInv
  OBVIOUS
<1> USE SessionsAssumption, ProcFacts DEF Init
<1>1. TypeOK
  <2>1. req \in [cseq : 0..MaxSeq + 2, id : Ids \cup {None}, by : Sessions]
    BY DEF NoReq, Sessions
  <2>2. /\ seq \in [Answers -> 1..(MaxSeq + 2)] /\ spent \in [Answers -> 0..MaxSeq + 2]
        /\ held \in Sessions
    BY DEF Sessions
  <2>3. /\ store \in [Ids -> Sessions] /\ got \in [Procs -> Sessions]
        /\ id \in [Procs -> Ids \cup {None}]
    BY DEF Sessions
  <2>4. /\ pc \in [Procs -> {"none", "idle", "watch", "get", "atom", "close", "delete",
                             "done"}]
        /\ \A p \in Procs : pc[p] \notin {"atom", "close"}
    OBVIOUS
  <2> QED BY <2>1, <2>2, <2>3, <2>4 DEF TypeOK
<1>2. ProcInv /\ KeyInv /\ DropInv
  BY DEF ProcInv, KeyInv, DropInv, Made
<1>3. SeqInv /\ BoundInv
  BY DEF SeqInv, BoundInv, Made, TUOut, WireOut
<1>4. LeavesClosed /\ OpenUntilBye
  BY DEF LeavesClosed, OpenUntilBye
<1> QED BY <1>1, <1>2, <1>3, <1>4 DEF IInv

-----------------------------------------------------------------------------
(* Types and sequence numbers.                                             *)

\* Sequence numbers stay within the bound: a request is made only while every
\* session is below MaxSeq, and each updater counts one request at a time.
LEMMA BoundStep == IInv /\ [Next]_vars => BoundInv'
<1> SUFFICES ASSUME IInv, [Next]_vars PROVE BoundInv'
  OBVIOUS
<1> USE SessionsAssumption, ProcFacts
    DEF IInv, BoundInv, TUOut, WireOut, Goto, seqVars
<1>0. /\ seq \in [Answers -> Nat] /\ MaxSeq \in Nat
      /\ pc \in [Procs -> {"none", "idle", "watch", "get", "atom", "close", "delete", "done"}]
      /\ \A s \in Answers : seq[s] \in Nat
  BY DEF TypeOK
<1>1. ASSUME NEW a \in Answers, NEW p \in Parties,
             AnswerInvite(a, p) \/ AnswerBye(a, p) \/ Rejected(a, p)
      PROVE  BoundInv'
  BY <1>0, <1>1 DEF AnswerInvite, AnswerBye, Rejected
<1>2. ASSUME NEW a \in Answers, WatchDone(a) PROVE BoundInv'
  BY <1>0, <1>2 DEF WatchDone
<1>3. ASSUME NEW p \in Procs, Dropping(p) PROVE BoundInv'
  <2>1. CASE DropGet(p)
    BY <1>0, <2>1 DEF DropGet
  <2>2. CASE Close(p)
    BY <1>0, <2>2 DEF Close, ProcInv
  <2>3. CASE DropDelete(p)
    BY <1>0, <2>3 DEF DropDelete, ProcInv
  <2> QED BY <1>3, <2>1, <2>2, <2>3 DEF Dropping
<1>4. ASSUME NEW q \in Parties, PeerRequest(q) PROVE BoundInv'
  BY <1>0, <1>4 DEF PeerRequest, MayRequest
<1>5. ASSUME NEW i \in Ids, TUGet(i) PROVE BoundInv'
  BY <1>0, <1>5 DEF TUGet
<1>6. ASSUME SetAttribute \/ TUClose PROVE BoundInv'
  BY <1>0, <1>6 DEF SetAttribute, TUClose
<1>7. ASSUME CreateRequest PROVE BoundInv'
  BY <1>0, <1>7 DEF CreateRequest, MayRequest
<1>8. ASSUME TUSend PROVE BoundInv'
  BY <1>0, <1>8 DEF TUSend
<1>9. ASSUME NEW p \in Updaters, UpdateGet(p) PROVE BoundInv'
  BY <1>0, <1>9 DEF UpdateGet
<1>10. ASSUME NEW p \in Updaters, SeqAtom(p) PROVE BoundInv'
  <2>1. p = TU \/ p = Wire
    BY DEF Updaters
  <2>2. \A s \in Answers : seq'[s] \in {seq[s], seq[s] + 1}
    BY <1>0, <1>10 DEF SeqAtom
  <2>3. pc' = [pc EXCEPT ![p] = "idle"] /\ pc[p] = "atom" /\ req' = req
    BY <1>10 DEF SeqAtom
  <2>4. p = TU => req = NoReq
    BY <2>3 DEF SeqInv
  <2> QED BY <1>0, <2>1, <2>2, <2>3, <2>4
<1>11. CASE UNCHANGED vars
  BY <1>11 DEF vars
<1> QED BY <1>1, <1>2, <1>3, <1>4, <1>5, <1>6, <1>7, <1>8, <1>9, <1>10, <1>11 DEF Next

\* Every step keeps the types; in particular no method is called on a nil
\* session, since both drop and updateSession test what get returned.
LEMMA TypeStep == IInv /\ [Next]_vars => TypeOK'
<1> SUFFICES ASSUME IInv, [Next]_vars PROVE TypeOK'
  OBVIOUS
<1> USE SessionsAssumption, ProcFacts
    DEF IInv, TypeOK, Goto, Clear, sessionVars, seqVars, ghosts, Sessions
<1>1. ASSUME NEW a \in Answers, NEW p \in Parties,
             AnswerInvite(a, p) \/ AnswerBye(a, p) \/ Rejected(a, p)
      PROVE  TypeOK'
  <2> USE PeerFacts
  <2>1. CASE AnswerInvite(a, p)
    <3>1. /\ from' \in [Answers -> Parties \cup {None}]
          /\ to' \in [Answers -> Parties \cup {None}]
      BY <2>1 DEF AnswerInvite, SaveMessage
    <3>2. store' \in [Ids -> Sessions] /\ replaced' \subseteq Answers
      BY <2>1 DEF AnswerInvite
    <3>3. /\ pc' \in [Procs -> {"none", "idle", "watch", "get", "atom", "close", "delete",
                                "done"}]
          /\ \A q \in Procs : pc'[q] \in {"atom", "close"} => got'[q] # None
      BY <2>1 DEF AnswerInvite
    <3>4. id' \in [Procs -> Ids \cup {None}] /\ life' \in [Answers -> {"none", "open", "closed"}]
      BY <2>1 DEF AnswerInvite
    <3> QED BY <2>1, <3>1, <3>2, <3>3, <3>4 DEF AnswerInvite
  <2>2. CASE AnswerBye(a, p)
    BY <2>2 DEF AnswerBye
  <2>3. CASE Rejected(a, p)
    BY <2>3 DEF Rejected
  <2> QED BY <1>1, <2>1, <2>2, <2>3
<1>2. ASSUME NEW a \in Answers, WatchDone(a) PROVE TypeOK'
  BY <1>2 DEF WatchDone
<1>3. ASSUME NEW p \in Procs, Dropping(p) PROVE TypeOK'
  <2>1. CASE DropGet(p)
    <3>1. id[p] \in Ids /\ store[id[p]] \in Sessions
      BY <2>1 DEF DropGet, DropInv
    <3> QED BY <2>1, <3>1 DEF DropGet
  <2>2. CASE Close(p)
    BY <2>2 DEF Close
  <2>3. CASE DropDelete(p)
    <3>1. id[p] \in Ids /\ store[id[p]] \in Sessions
      BY <2>3 DEF DropDelete, DropInv
    <3> QED BY <2>3, <3>1 DEF DropDelete
  <2> QED BY <1>3, <2>1, <2>2, <2>3 DEF Dropping
<1>4. ASSUME NEW q \in Parties, PeerRequest(q) PROVE TypeOK'
  BY <1>4, PeerFacts DEF PeerRequest
<1>5. ASSUME NEW i \in Ids, TUGet(i) PROVE TypeOK'
  BY <1>5 DEF TUGet
<1>6. ASSUME SetAttribute PROVE TypeOK'
  BY <1>6 DEF SetAttribute
<1>7. ASSUME TUClose PROVE TypeOK'
  <2>1. held \in Answers /\ Key(held) \in Ids
    BY <1>7 DEF TUClose, KeyInv, Made
  <2> QED BY <1>7, <2>1 DEF TUClose
<1>8. ASSUME CreateRequest PROVE TypeOK'
  <2>1. held \in Answers /\ Key(held) \in Ids /\ seq[held] \in 0..MaxSeq + 2
    BY <1>8 DEF CreateRequest, KeyInv, Made
  <2>2. req' \in [cseq : 0..MaxSeq + 2, id : Ids \cup {None}, by : Answers \cup {None}]
    BY <1>8, <2>1 DEF CreateRequest
  <2> QED BY <1>8, <2>2 DEF CreateRequest
<1>9. ASSUME TUSend PROVE TypeOK'
  <2>1. /\ req.by \in Answers /\ req.cseq \in 0..MaxSeq + 2 /\ req.id \in Ids
    BY <1>9 DEF TUSend, SeqInv, KeyInv, Made
  <2>2. req' \in [cseq : 0..MaxSeq + 2, id : Ids \cup {None}, by : Answers \cup {None}]
    BY <1>9 DEF TUSend, NoReq
  <2>3. spent' \in [Answers -> 0..MaxSeq + 2] /\ id' \in [Procs -> Ids \cup {None}]
    BY <1>9, <2>1 DEF TUSend
  <2>4. /\ pc' \in [Procs -> {"none", "idle", "watch", "get", "atom", "close", "delete",
                              "done"}]
        /\ \A q \in Procs : pc'[q] \in {"atom", "close"} => got'[q] # None
    BY <1>9 DEF TUSend
  <2> QED BY <1>9, <2>2, <2>3, <2>4 DEF TUSend
<1>10. ASSUME NEW p \in Updaters, UpdateGet(p) PROVE TypeOK'
  <2>1. p \in Procs /\ id[p] \in Ids /\ store[id[p]] \in Sessions
    BY <1>10 DEF UpdateGet, DropInv, Updaters
  <2> QED BY <1>10, <2>1 DEF UpdateGet
<1>11. ASSUME NEW p \in Updaters, SeqAtom(p) PROVE TypeOK'
  <2>1. p \in Procs /\ got[p] \in Answers
    BY <1>11 DEF SeqAtom, Updaters
  <2>2. seq' \in [Answers -> 1..(MaxSeq + 2)]
    <3>1. seq[got[p]] \in Nat /\ seq[got[p]] <= MaxSeq + 1
      BY <2>1 DEF BoundInv, TUOut, WireOut
    <3> QED BY <1>11, <2>1, <3>1 DEF SeqAtom
  <2> QED BY <1>11, <2>1, <2>2 DEF SeqAtom
<1>12. CASE UNCHANGED vars
  BY <1>12 DEF vars
<1> QED BY <1>1, <1>2, <1>3, <1>4, <1>5, <1>6, <1>7, <1>8, <1>9, <1>10, <1>11, <1>12
        DEF Next

-----------------------------------------------------------------------------
(* Sessions and the goroutines that work on them.                          *)

\* A session that was made keeps its tags, a closed one stays closed, and a
\* dialog that ended has ended.
LEMMA SessionStable ==
    ASSUME IInv, [Next]_vars
    PROVE  /\ ended \subseteq ended'
           /\ \A s \in Answers :
                Made(s) => /\ Made(s)' /\ Key(s)' = Key(s)
                           /\ life'[s] \in {life[s], "closed"}
<1> USE SessionsAssumption, ProcFacts
    DEF IInv, TypeOK, Goto, sessionVars, seqVars, ghosts, Made, Key
<1> DEFINE Goal == /\ ended \subseteq ended'
                   /\ \A s \in Answers :
                        Made(s) => /\ Made(s)' /\ Key(s)' = Key(s)
                                   /\ life'[s] \in {life[s], "closed"}
<1>1. ASSUME NEW a \in Answers, NEW p \in Parties,
             AnswerInvite(a, p) \/ AnswerBye(a, p) \/ Rejected(a, p)
      PROVE  Goal
  <2>1. CASE AnswerInvite(a, p)
    <3>1. life[a] = "none"
      BY <2>1 DEF AnswerInvite, IsNext, ProcInv
    <3> QED BY <2>1, <3>1 DEF AnswerInvite, SaveMessage
  <2>2. CASE AnswerBye(a, p) \/ Rejected(a, p)
    BY <2>2 DEF AnswerBye, Rejected
  <2> QED BY <1>1, <2>1, <2>2
<1>2. ASSUME NEW a \in Answers, WatchDone(a) PROVE Goal
  BY <1>2 DEF WatchDone
<1>3. ASSUME NEW p \in Procs, Dropping(p) PROVE Goal
  BY <1>3 DEF Dropping, DropGet, Close, DropDelete
<1>4. ASSUME NEW q \in Parties, PeerRequest(q) PROVE Goal
  BY <1>4 DEF PeerRequest
<1>5. ASSUME NEW i \in Ids, TUGet(i) PROVE Goal
  BY <1>5 DEF TUGet
<1>6. ASSUME SetAttribute \/ TUClose \/ CreateRequest \/ TUSend PROVE Goal
  BY <1>6 DEF SetAttribute, TUClose, CreateRequest, TUSend
<1>7. ASSUME NEW p \in Updaters, UpdateGet(p) \/ SeqAtom(p) PROVE Goal
  BY <1>7 DEF UpdateGet, SeqAtom
<1>8. CASE UNCHANGED vars
  BY <1>8 DEF vars
<1> QED BY <1>1, <1>2, <1>3, <1>4, <1>5, <1>6, <1>7, <1>8 DEF Next

\* Goroutines stay at their own points, the pool holds sessions under their own
\* ids, and a drop works on a dialog that ended.
LEMMA LocalStep == IInv /\ [Next]_vars => ProcInv' /\ KeyInv' /\ DropInv'
<1> SUFFICES ASSUME IInv, [Next]_vars PROVE ProcInv' /\ KeyInv' /\ DropInv'
  OBVIOUS
<1>0. TypeOK'
  BY TypeStep
<1>s. /\ ended \subseteq ended'
      /\ \A s : Made(s) => /\ Made(s)' /\ Key(s)' = Key(s)
                           /\ life'[s] \in {life[s], "closed"}
  BY SessionStable DEF Made
<1> USE SessionsAssumption, ProcFacts, <1>0, <1>s
    DEF IInv, TypeOK, Goto, Clear, sessionVars, seqVars, ghosts, Sessions
<1> DEFINE Goal == ProcInv' /\ KeyInv' /\ DropInv'
<1>1. ASSUME NEW a \in Answers, NEW p \in Parties, AnswerInvite(a, p) PROVE Goal
  <2>1. IdOf(p) \in Ids /\ Key(a)' = IdOf(p) /\ Made(a)' /\ life[a] = "none"
    BY <1>1, PeerFacts DEF AnswerInvite, SaveMessage, Key, IdOf, Made, IsNext, ProcInv
  <2>2. \A s \in Answers \ {a} : life'[s] = life[s]
    BY <1>1 DEF AnswerInvite
  <2>3. ProcInv'
    BY <1>1, <2>1, <2>2 DEF AnswerInvite, ProcInv, Made
  <2>4. KeyInv'
    BY <1>1, <2>1, <2>2 DEF AnswerInvite, KeyInv, Made
  <2>5. DropInv'
    BY <1>1, <2>1, <2>2 DEF AnswerInvite, DropInv
  <2> QED BY <2>3, <2>4, <2>5
<1>2. ASSUME NEW a \in Answers, NEW p \in Parties, AnswerBye(a, p) \/ Rejected(a, p)
      PROVE  Goal
  <2>1. ProcInv'
    BY <1>2 DEF AnswerBye, Rejected, ProcInv, Made
  <2>2. KeyInv'
    BY <1>2 DEF AnswerBye, Rejected, KeyInv, Made
  <2>3. DropInv'
    BY <1>2, PeerFacts DEF AnswerBye, Rejected, DropInv
  <2> QED BY <2>1, <2>2, <2>3
<1>3. ASSUME NEW a \in Answers, WatchDone(a) PROVE Goal
  <2>1. Made(a) /\ id[Watcher(a)] = Key(a) /\ Key(a) \in ended /\ Key(a) \in Ids
    BY <1>3 DEF WatchDone, ProcInv, OpenUntilBye
  <2>2. ProcInv'
    BY <1>3 DEF WatchDone, ProcInv, Made
  <2>3. KeyInv'
    BY <1>3 DEF WatchDone, KeyInv, Made
  <2>4. DropInv'
    BY <1>3, <2>1 DEF WatchDone, DropInv
  <2> QED BY <2>2, <2>3, <2>4
<1>4. ASSUME NEW p \in Procs, DropGet(p) PROVE Goal
  <2>1. /\ id[p] \in Ids /\ id[p] \in ended
        /\ store[id[p]] # None => Made(store[id[p]]) /\ Key(store[id[p]]) = id[p]
    BY <1>4 DEF DropGet, DropInv, KeyInv
  <2>2. ProcInv'
    BY <1>4 DEF DropGet, ProcInv, Made
  <2>3. KeyInv'
    BY <1>4 DEF DropGet, KeyInv, Made
  <2>4. DropInv'
    BY <1>4, <2>1 DEF DropGet, DropInv
  <2> QED BY <2>2, <2>3, <2>4
<1>5. ASSUME NEW p \in Procs, Close(p) PROVE Goal
  <2>1. /\ Made(got[p]) /\ p # Wire /\ (p # TU => id[p] \in Ids /\ p \notin Updaters)
        /\ life'[got[p]] = "closed"
    BY <1>5 DEF Close, DropInv, ProcInv, Made, Updaters
  <2>2. ProcInv'
    BY <1>5, <2>1 DEF Close, ProcInv, Made
  <2>3. KeyInv'
    <3>1. \A s \in Answers : life'[s] # "none" => life[s] # "none"
      BY <1>5, <2>1 DEF Close, Made
    <3> QED BY <1>5, <3>1 DEF Close, KeyInv, Made
  <2>4. DropInv'
    <3>1. \A q \in Procs \ {p} : pc'[q] = pc[q] /\ got'[q] = got[q] /\ id'[q] = id[q]
      BY <1>5 DEF Close
    <3>2. \A q \in Procs \ {p} : got[q] # None /\ life[got[q]] = "closed" =>
            life'[got[q]] = "closed"
      BY <1>5 DEF Close
    <3>3. \A q \in Procs \ {p} : pc[q] = "delete" => got[q] = None \/ life'[got[q]] = "closed"
      BY <3>2 DEF DropInv
    <3>4. pc'[p] \in {"idle", "delete"} /\ (pc'[p] = "delete" => p # TU /\ got'[p] = got[p])
      BY <1>5 DEF Close
    <3> QED BY <1>5, <2>1, <3>1, <3>3, <3>4 DEF Close, DropInv
  <2> QED BY <2>2, <2>3, <2>4
<1>6. ASSUME NEW p \in Procs, DropDelete(p) PROVE Goal
  <2>1. p # TU /\ p # Wire /\ id[p] \in Ids
    BY <1>6 DEF DropDelete, ProcInv, DropInv
  <2>2. ProcInv'
    BY <1>6, <2>1 DEF DropDelete, ProcInv, Made
  <2>3. KeyInv'
    BY <1>6, <2>1 DEF DropDelete, KeyInv, Made
  <2>4. DropInv'
    BY <1>6, <2>1 DEF DropDelete, DropInv
  <2> QED BY <2>2, <2>3, <2>4
<1>7. ASSUME NEW q \in Parties, PeerRequest(q) PROVE Goal
  <2>1. ProcInv'
    BY <1>7 DEF PeerRequest, ProcInv, Made
  <2>2. KeyInv'
    BY <1>7 DEF PeerRequest, KeyInv, Made
  <2>3. DropInv'
    BY <1>7, PeerFacts DEF PeerRequest, DropInv
  <2> QED BY <2>1, <2>2, <2>3
<1>8. ASSUME NEW i \in Ids, TUGet(i) PROVE Goal
  BY <1>8 DEF TUGet, ProcInv, KeyInv, DropInv, Made
<1>9. ASSUME SetAttribute \/ CreateRequest PROVE Goal
  BY <1>9 DEF SetAttribute, CreateRequest, ProcInv, KeyInv, DropInv, Made
<1>10. ASSUME TUSend PROVE Goal
  <2>1. req.id \in Ids
    BY <1>10 DEF TUSend, SeqInv, KeyInv, Made
  <2>2. ProcInv'
    BY <1>10 DEF TUSend, ProcInv, Made
  <2>3. KeyInv'
    BY <1>10 DEF TUSend, KeyInv, Made
  <2>4. DropInv'
    BY <1>10, <2>1 DEF TUSend, DropInv
  <2> QED BY <2>2, <2>3, <2>4
<1>11. ASSUME TUClose PROVE Goal
  <2>1. Made(held) /\ Key(held) \in ended'
    BY <1>11 DEF TUClose, KeyInv
  <2>2. ProcInv'
    BY <1>11 DEF TUClose, ProcInv, Made
  <2>3. KeyInv'
    BY <1>11 DEF TUClose, KeyInv, Made
  <2>4. DropInv'
    BY <1>11, <2>1 DEF TUClose, DropInv
  <2> QED BY <2>2, <2>3, <2>4
<1>12. ASSUME NEW p \in Updaters, UpdateGet(p) \/ SeqAtom(p) PROVE Goal
  <2>1. p \in Procs /\ (pc[p] = "get" => id[p] \in Ids)
    BY DEF Updaters, DropInv
  <2>2. ProcInv'
    BY <1>12, <2>1 DEF UpdateGet, SeqAtom, ProcInv, Made
  <2>3. KeyInv'
    BY <1>12 DEF UpdateGet, SeqAtom, KeyInv, Made
  <2>4. DropInv'
    BY <1>12, <2>1 DEF UpdateGet, SeqAtom, DropInv
  <2> QED BY <2>2, <2>3, <2>4
<1>13. CASE UNCHANGED vars
  BY <1>13 DEF vars, ProcInv, KeyInv, DropInv, Made
<1> QED BY <1>1, <1>2, <1>3, <1>4, <1>5, <1>6, <1>7, <1>8, <1>9, <1>10, <1>11, <1>12,
           <1>13 DEF Next, Dropping

-----------------------------------------------------------------------------
(* Requests.                                                               *)

\* A request that is sent finds its session under the id it carries, or the
\* session is not stored any more: so a stored session stays ahead of what was
\* sent from it.
LEMMA SeqStep == IInv /\ [Next]_vars => SeqInv'
<1> SUFFICES ASSUME IInv, [Next]_vars PROVE SeqInv'
  OBVIOUS
<1>0. TypeOK' /\ KeyInv'
  BY TypeStep, LocalStep
<1>s. \A s : Made(s) => Made(s)' /\ Key(s)' = Key(s)
  BY SessionStable DEF Made
<1> USE SessionsAssumption, ProcFacts, <1>s
    DEF IInv, Goto, Clear, sessionVars, seqVars, ghosts
<1>t. /\ \A s \in Answers : seq[s] \in Nat /\ seq[s] >= 1 /\ spent[s] \in Nat
      /\ seq \in [Answers -> Nat] /\ spent \in [Answers -> Nat]
      /\ life \in [Answers -> {"none", "open", "closed"}] /\ store \in [Ids -> Sessions]
      /\ pc \in [Procs -> {"none", "idle", "watch", "get", "atom", "close", "delete", "done"}]
      /\ id \in [Procs -> Ids \cup {None}] /\ got \in [Procs -> Sessions]
      /\ req.cseq \in Nat /\ held \in Sessions
  BY DEF TypeOK
\* A step that makes no request, counts none and moves no session into the pool.
<1>u. ASSUME UNCHANGED <<seq, spent, req>>, pc'[TU] = pc[TU], id'[TU] = id[TU],
             got'[TU] = got[TU],
             \A s \in Answers : Made(s)' => Made(s),
             \A s \in Answers : Made(s) /\ store'[Key(s)] = s => store[Key(s)] = s
      PROVE  SeqInv'
  <2>1. /\ \A s \in Answers : Made(s) /\ Pending(s) => Pending(s)'
    BY <1>u DEF Pending
  <2>2. \A s \in Answers : life'[s] = "none" => life[s] = "none"
    BY DEF Made
  <2>3. \A s \in Answers : Made(s)' /\ store'[Key(s)'] = s => Made(s) /\ store[Key(s)] = s
    BY <1>u
  <2> QED BY <1>u, <2>1, <2>2, <2>3 DEF SeqInv
<1>1. ASSUME NEW a \in Answers, NEW p \in Parties, AnswerInvite(a, p) PROVE SeqInv'
  <2>1. /\ life[a] = "none" /\ spent[a] = 0 /\ Made(a)' /\ Key(a)' = IdOf(p)
        /\ UNCHANGED <<seq, spent, req>> /\ store' = [store EXCEPT ![IdOf(p)] = a]
        /\ pc'[TU] = pc[TU] /\ id'[TU] = id[TU] /\ got' = got
        /\ life' = [life EXCEPT ![a] = "open"] /\ IdOf(p) \in Ids
    <3>1. life[a] = "none" /\ spent[a] = 0
      BY <1>1 DEF AnswerInvite, IsNext, ProcInv, SeqInv
    <3>2. Key(a)' = IdOf(p) /\ IdOf(p) \in Ids
      BY <1>1, PeerFacts DEF AnswerInvite, SaveMessage, Key, IdOf, TypeOK
    <3> QED BY <1>1, <1>t, <3>1, <3>2 DEF AnswerInvite, Made
  <2>2. \A s \in Answers \ {a} : /\ Made(s)' => Made(s)
                                 /\ Made(s) /\ store'[Key(s)] = s => store[Key(s)] = s
    BY <1>t, <2>1 DEF Made, KeyInv
  <2>3. \A s \in Answers : Made(s) /\ Pending(s) => Pending(s)'
    BY <2>1 DEF Pending
  <2>4. ~Made(a)
    BY <2>1 DEF Made
  <2>5. \A s \in Answers : Made(s)' /\ store'[Key(s)'] = s => spent'[s] < seq'[s] \/ Pending(s)'
    BY <1>t, <2>1, <2>2, <2>3 DEF SeqInv
  <2>6. \A s \in Answers : life'[s] = "none" => spent'[s] = 0
    BY <1>t, <2>1 DEF SeqInv
  <2> QED BY <2>1, <2>4, <2>5, <2>6 DEF SeqInv
<1>2. ASSUME NEW a \in Answers, NEW p \in Parties, AnswerBye(a, p) \/ Rejected(a, p)
      PROVE  SeqInv'
  BY <1>2, <1>t, <1>u DEF AnswerBye, Rejected, Made
<1>3. ASSUME NEW a \in Answers, WatchDone(a) PROVE SeqInv'
  BY <1>3, <1>t, <1>u DEF WatchDone, Made
<1>4. ASSUME NEW p \in Procs, DropGet(p) PROVE SeqInv'
  BY <1>4, <1>t, <1>u DEF DropGet, Made
<1>5. ASSUME NEW p \in Procs, Close(p) PROVE SeqInv'
  <2>1. Made(got[p]) /\ UNCHANGED <<seq, spent, req, store, id>>
    BY <1>5 DEF Close, DropInv
  <2>2. \A s \in Answers : Made(s)' => Made(s)
    BY <1>5, <1>t, <2>1 DEF Close, Made
  <2>3. CASE p # TU
    BY <1>5, <1>t, <1>u, <2>1, <2>2, <2>3 DEF Close
  <2>4. CASE p = TU
    <3>1. pc[TU] = "close" /\ pc'[TU] = "idle"
      BY <1>5, <1>t, <2>4 DEF Close
    <3>2. \A s \in Answers : ~Pending(s)
      BY <3>1 DEF Pending
    <3>3. \A s \in Answers : life'[s] = "none" => life[s] = "none"
      BY DEF Made
    <3> QED BY <2>1, <2>2, <3>1, <3>2, <3>3 DEF SeqInv
  <2> QED BY <2>3, <2>4
<1>6. ASSUME NEW p \in Procs, DropDelete(p) PROVE SeqInv'
  <2>1. p # TU /\ id[p] \in Ids
    BY <1>6 DEF DropDelete, ProcInv, DropInv
  <2>2. \A s \in Answers : Made(s) /\ store'[Key(s)] = s => store[Key(s)] = s
    BY <1>6, <1>t, <2>1 DEF DropDelete, KeyInv, Made
  <2> QED BY <1>6, <1>t, <1>u, <2>1, <2>2 DEF DropDelete, Made
<1>7. ASSUME NEW q \in Parties, PeerRequest(q) PROVE SeqInv'
  BY <1>7, <1>t, <1>u DEF PeerRequest, Made
<1>8. ASSUME NEW i \in Ids, TUGet(i) PROVE SeqInv'
  BY <1>8, <1>u DEF TUGet, Made
<1>9. ASSUME SetAttribute PROVE SeqInv'
  BY <1>9, <1>u DEF SetAttribute, Made
<1>10. ASSUME CreateRequest PROVE SeqInv'
  <2>1. /\ UNCHANGED <<seq, spent, store, life, from, to, pc, id, got>> /\ pc[TU] = "idle"
        /\ Made(held) /\ req'.by = held /\ req'.id = Key(held) /\ req'.cseq = seq[held]
    BY <1>10 DEF CreateRequest, KeyInv
  <2>2. held \in Answers /\ seq[held] \in Nat
    BY <1>t, <2>1 DEF Made
  <2> QED BY <2>1, <2>2 DEF SeqInv, Made, Pending
<1>11. ASSUME TUSend PROVE SeqInv'
  <2>1. /\ UNCHANGED <<seq, store, life, from, to, got>> /\ pc[TU] = "idle" /\ req' = NoReq
        /\ spent' = [spent EXCEPT ![req.by] = req.cseq]
        /\ pc'[TU] = "get" /\ id'[TU] = req.id /\ req # NoReq
    BY <1>11, <1>t DEF TUSend
  <2>2. PICK b \in Answers : b = req.by
    BY <2>1 DEF SeqInv, Made
  <2>3. Made(b) /\ req.id = Key(b) /\ req.cseq <= seq[b]
    BY <2>1, <2>2 DEF SeqInv
  <2>4. Pending(b)' /\ \A s \in Answers : ~Pending(s)
    BY <2>1, <2>3 DEF Pending
  <2>5. \A s \in Answers : spent'[s] <= seq[s]
    BY <1>t, <2>1, <2>2, <2>3 DEF SeqInv
  <2>6. \A s \in Answers : life[s] = "none" => spent'[s] = 0
    BY <1>t, <2>1, <2>2, <2>3 DEF SeqInv, Made
  <2>7. \A s \in Answers \ {b} : Made(s) /\ store[Key(s)] = s => spent'[s] < seq[s]
    BY <1>t, <2>1, <2>2, <2>4 DEF SeqInv
  <2> QED BY <2>1, <2>4, <2>5, <2>6, <2>7 DEF SeqInv, Made
<1>12. ASSUME TUClose PROVE SeqInv'
  <2>1. /\ UNCHANGED <<seq, spent, req, store, life, from, to, id>>
        /\ pc[TU] = "idle" /\ pc'[TU] = "close"
    BY <1>12, <1>t DEF TUClose
  <2>2. \A s \in Answers : ~Pending(s)
    BY <2>1 DEF Pending
  <2> QED BY <2>1, <2>2 DEF SeqInv, Made
<1>13. ASSUME NEW p \in Updaters, UpdateGet(p) PROVE SeqInv'
  <2>1. UNCHANGED <<seq, spent, req, store, life, from, to>> /\ p \in Procs /\ id[p] \in Ids
    BY <1>13 DEF UpdateGet, DropInv, Updaters
  <2>2. CASE p # TU
    BY <1>13, <1>t, <1>u, <2>1, <2>2 DEF UpdateGet, Made
  <2>3. CASE p = TU
    <3>1. /\ pc[TU] = "get" /\ got'[TU] = store[id[TU]]
          /\ pc'[TU] = IF store[id[TU]] = None THEN "idle" ELSE "atom"
      BY <1>13, <1>t, <2>3 DEF UpdateGet
    <3>2. \A s \in Answers : Made(s) /\ store[Key(s)] = s /\ Pending(s) => Pending(s)'
      BY <3>1 DEF Pending
    <3> QED BY <2>1, <3>1, <3>2 DEF SeqInv, Made
  <2> QED BY <2>2, <2>3
<1>14. ASSUME NEW p \in Updaters, SeqAtom(p) PROVE SeqInv'
  <2>1. /\ UNCHANGED <<spent, req, store, life, from, to>> /\ p \in Procs /\ pc[p] = "atom"
        /\ got[p] \in Answers /\ seq' = [seq EXCEPT ![got[p]] = @ + 1]
    BY <1>14, <1>t DEF SeqAtom, DropInv, Updaters, Sessions
  <2>2. \A s \in Answers : seq[s] <= seq'[s] /\ (s = got[p] => seq'[s] = seq[s] + 1)
    BY <1>t, <2>1
  <2>3. \A s \in Answers : spent[s] <= seq'[s] /\ (spent[s] < seq[s] => spent[s] < seq'[s])
                           /\ seq'[s] \in Nat
    BY <1>t, <2>1, <2>2 DEF SeqInv
  <2>4. req # NoReq => /\ Made(req.by) /\ req.id = Key(req.by) /\ req.cseq <= seq'[req.by]
                       /\ pc[TU] \in {"idle", "close"}
    BY <1>t, <2>2, <2>3 DEF SeqInv, Made
  <2>5. CASE p # TU
    <3>1. pc'[TU] = pc[TU] /\ id'[TU] = id[TU] /\ got'[TU] = got[TU]
      BY <1>14, <1>t, <2>5 DEF SeqAtom
    <3>2. \A s \in Answers : Made(s) => (Pending(s) <=> Pending(s)')
      BY <3>1 DEF Pending
    <3> QED BY <2>1, <2>3, <2>4, <3>1, <3>2 DEF SeqInv, Made
  <2>6. CASE p = TU
    <3>1. req = NoReq /\ pc[TU] = "atom"
      BY <2>1, <2>6 DEF SeqInv
    <3>2. \A s \in Answers : Pending(s) => spent[s] < seq'[s]
      BY <1>t, <2>2, <2>6, <3>1 DEF Pending, SeqInv
    <3> QED BY <2>1, <2>3, <3>1, <3>2 DEF SeqInv, Made
  <2> QED BY <2>5, <2>6
<1>15. CASE UNCHANGED vars
  BY <1>15, <1>u DEF vars, Made
<1> QED BY <1>1, <1>2, <1>3, <1>4, <1>5, <1>6, <1>7, <1>8, <1>9, <1>10, <1>11, <1>12,
           <1>13, <1>14, <1>15 DEF Next, Dropping

-----------------------------------------------------------------------------
(* Closing.                                                                *)

\* An open session is in the pool, or one of the two overtaking writes took its
\* entry; a session is closed only in a dialog that ended.
LEMMA CloseStep == IInv /\ [Next]_vars => LeavesClosed' /\ OpenUntilBye'
<1> SUFFICES ASSUME IInv, [Next]_vars PROVE LeavesClosed' /\ OpenUntilBye'
  OBVIOUS
<1>s. /\ ended \subseteq ended'
      /\ \A s : Made(s) => Made(s)' /\ Key(s)' = Key(s)
  BY SessionStable DEF Made
<1> USE SessionsAssumption, ProcFacts, <1>s
    DEF IInv, Goto, Clear, sessionVars, seqVars, ghosts
<1>t. /\ life \in [Answers -> {"none", "open", "closed"}] /\ store \in [Ids -> Sessions]
      /\ held \in Sessions
  BY DEF TypeOK
<1> DEFINE Goal == LeavesClosed' /\ OpenUntilBye'
\* A step that leaves pool, sessions and the TU's session alone.
<1>u. ASSUME UNCHANGED <<store, life, replaced, swept, proc>>, proc = "up" PROVE Goal
  <2>1. \A s \in Answers : life[s] # "none" => Key(s)' = Key(s)
    BY DEF Made
  <2>2. LeavesClosed'
    BY <1>u, <2>1 DEF LeavesClosed
  <2>3. OpenUntilBye'
    BY <1>u, <2>1 DEF OpenUntilBye
  <2> QED BY <2>2, <2>3
<1>1. ASSUME NEW a \in Answers, NEW p \in Parties, AnswerInvite(a, p) PROVE Goal
  <2>1. /\ life[a] = "none" /\ Key(a)' = IdOf(p) /\ IdOf(p) \in Ids
        /\ store' = [store EXCEPT ![IdOf(p)] = a] /\ life' = [life EXCEPT ![a] = "open"]
        /\ UNCHANGED <<held, proc, swept, ended>>
    BY <1>1, PeerFacts DEF AnswerInvite, SaveMessage, Key, IdOf, IsNext, ProcInv, TypeOK
  <2>2. replaced \subseteq replaced' /\ (store[IdOf(p)] # None => store[IdOf(p)] \in replaced')
    BY <1>1 DEF AnswerInvite
  <2>3. LeavesClosed'
    <3> SUFFICES ASSUME NEW s \in Answers, life'[s] = "open"
                 PROVE  s \in replaced' \cup swept' \cup {store'[Key(s)']}
      BY DEF LeavesClosed
    <3>1. CASE s = a
      BY <1>t, <2>1, <3>1
    <3>2. CASE s # a
      <4>1. life[s] = "open" /\ Made(s) /\ Key(s)' = Key(s) /\ Key(s) \in Ids
        BY <1>t, <2>1, <3>2 DEF Made, KeyInv
      <4>2. s \in replaced \cup swept \cup {store[Key(s)]}
        BY <4>1 DEF LeavesClosed
      <4>3. CASE Key(s) = IdOf(p)
        BY <2>1, <2>2, <4>2, <4>3
      <4>4. CASE Key(s) # IdOf(p)
        BY <1>t, <2>1, <2>2, <4>1, <4>2, <4>4
      <4> QED BY <4>3, <4>4
    <3> QED BY <3>1, <3>2
  <2>4. OpenUntilBye'
    <3>1. proc' = "up"
      BY <1>1, <2>1 DEF AnswerInvite, Running
    <3>2. \A s \in Answers : life'[s] = "closed" => life[s] = "closed" /\ Key(s)' = Key(s)
      BY <1>t, <2>1 DEF Made
    <3> QED BY <3>1, <3>2 DEF OpenUntilBye
  <2> QED BY <2>3, <2>4
<1>2. ASSUME NEW a \in Answers, NEW p \in Parties, AnswerBye(a, p) \/ Rejected(a, p)
      PROVE  Goal
  BY <1>2, <1>u DEF AnswerBye, Rejected, Running
<1>3. ASSUME NEW a \in Answers, WatchDone(a) PROVE Goal
  BY <1>3, <1>u DEF WatchDone, Running
<1>4. ASSUME NEW p \in Procs, DropGet(p) PROVE Goal
  BY <1>4, <1>u DEF DropGet, Running
<1>5. ASSUME NEW p \in Procs, Close(p) PROVE Goal
  <2>1. /\ Made(got[p]) /\ Key(got[p]) \in ended /\ proc = "up"
        /\ life' = [life EXCEPT ![got[p]] = "closed"]
        /\ UNCHANGED <<store, held, proc, ended, replaced, swept>>
    BY <1>5 DEF Close, DropInv, Running
  <2>2. \A s \in Answers : /\ life'[s] = "open" => life[s] = "open"
                           /\ life'[s] = "closed" => life[s] = "closed" \/ s = got[p]
                           /\ life'[s] # "none" => Key(s)' = Key(s)
    BY <1>t, <2>1 DEF Made
  <2>3. LeavesClosed'
    BY <2>1, <2>2 DEF LeavesClosed
  <2>4. OpenUntilBye'
    BY <2>1, <2>2 DEF OpenUntilBye
  <2> QED BY <2>3, <2>4
<1>6. ASSUME NEW p \in Procs, DropDelete(p) PROVE Goal
  <2>1. /\ id[p] \in Ids /\ (got[p] = None \/ life[got[p]] = "closed")
        /\ store' = [store EXCEPT ![id[p]] = None]
        /\ swept \subseteq swept'
        /\ store[id[p]] \in {None, got[p]} \cup swept'
        /\ UNCHANGED <<held, life, proc, ended, replaced>>
    BY <1>6 DEF DropDelete, DropInv
  <2>2. \A s \in Answers : life[s] # "none" => Key(s)' = Key(s)
    BY <1>t DEF Made
  <2>3. LeavesClosed'
    <3> SUFFICES ASSUME NEW s \in Answers, life[s] = "open"
                 PROVE  s \in replaced \cup swept' \cup {store'[Key(s)]}
      BY <2>1, <2>2 DEF LeavesClosed
    <3>1. s \in replaced \cup swept \cup {store[Key(s)]} /\ Key(s) \in Ids
      BY <1>t DEF LeavesClosed, KeyInv
    <3>2. CASE Key(s) = id[p]
      BY <2>1, <3>1, <3>2
    <3>3. CASE Key(s) # id[p]
      BY <1>t, <2>1, <3>1, <3>3
    <3> QED BY <3>2, <3>3
  <2>4. OpenUntilBye'
    BY <1>6, <2>1, <2>2 DEF OpenUntilBye, DropDelete, Running
  <2> QED BY <2>3, <2>4
<1>7. ASSUME NEW q \in Parties, PeerRequest(q) PROVE Goal
  BY <1>7, <1>u DEF PeerRequest, Running
<1>8. ASSUME NEW i \in Ids, TUGet(i) PROVE Goal
  <2>1. UNCHANGED <<store, life, from, to, replaced, swept, ended, proc>> /\ proc = "up"
    BY <1>8 DEF TUGet, Running
  <2> QED BY <2>1 DEF LeavesClosed, OpenUntilBye, Key
<1>9. ASSUME SetAttribute PROVE Goal
  <2>1. UNCHANGED <<store, life, from, to, replaced, swept, ended, held>>
        /\ held \in Answers /\ life[held] = "closed"
    BY <1>9, <1>t DEF SetAttribute, KeyInv, Made
  <2> QED BY <2>1 DEF LeavesClosed, OpenUntilBye, Key
<1>10. ASSUME CreateRequest \/ TUSend \/ TUClose PROVE Goal
  BY <1>10, <1>u DEF CreateRequest, TUSend, TUClose, Running
<1>11. ASSUME NEW p \in Updaters, UpdateGet(p) \/ SeqAtom(p) PROVE Goal
  BY <1>11, <1>u DEF UpdateGet, SeqAtom, Running
<1>12. CASE UNCHANGED vars
  BY <1>12 DEF vars, LeavesClosed, OpenUntilBye, Key
<1> QED BY <1>1, <1>2, <1>3, <1>4, <1>5, <1>6, <1>7, <1>8, <1>9, <1>10, <1>11, <1>12
        DEF Next, Dropping

-----------------------------------------------------------------------------
(* The theorems.                                                           *)

\* The inductive invariant holds in every reachable state, for any number of
\* concurrent answers, watchers and drops.
THEOREM Inductive == Spec => []IInv
<1>1. IInv /\ [Next]_vars => IInv'
  BY TypeStep, LocalStep, SeqStep, BoundStep, CloseStep DEF IInv
<1> QED BY <1>1, InitInv, PTL DEF Spec

\* Nobody calls a method of a nil session, and a session leaves the pool open
\* only when a second 2xx overwrote it or a drop deleted what it had not seen.
THEOREM SessionsAreSound == Spec => []SessionsSound
<1>1. IInv => SessionsSound
  BY DEF IInv, SessionsSound
<1> QED BY <1>1, Inductive, PTL

\* A stored session never makes a request with a CSeq that was sent before.
THEOREM SequenceNeverReused == Spec => []NeverReused
<1>1. IInv => NeverReused
  <2> SUFFICES ASSUME IInv, NEW i \in Ids, store[i] # None, pc[TU] \notin {"get", "atom"}
               PROVE  spent[store[i]] < seq[store[i]]
    BY DEF NeverReused
  <2>1. Made(store[i]) /\ Key(store[i]) = i /\ store[i] \in Answers
    BY DEF IInv, KeyInv, Made
  <2>2. ~Pending(store[i])
    BY DEF Pending
  <2> QED BY <2>1, <2>2 DEF IInv, SeqInv
<1> QED BY <1>1, Inductive, PTL

\* A session is closed, and SetAttribute panics on its nil map, only after an
\* accepted BYE under its own dialog id or a Close by the TU.
THEOREM SessionOpenUntilBye == Spec => []OpenUntilBye
<1>1. IInv => OpenUntilBye
  BY DEF IInv
<1> QED BY <1>1, Inductive, PTL

=============================================================================
