---------------------------- MODULE ParserProofs ----------------------------
(***************************************************************************)
(* Proofs about Parser and its queue of body lengths, for every input and  *)
(* every capacity of the channels.                                         *)
(***************************************************************************)
EXTENDS Parser, SequenceTheorems, WellFoundedInduction, TLAPS

-----------------------------------------------------------------------------
(* The queue.                                                              *)

\* What Write queues.
Entries == {Entry(d) : d \in Datagrams}

\* The three stages hold entries.
ChanType == in \in Seq(Entries) /\ buffer \in Seq(Entries) /\ out \in Seq(Entries)

\* The head of one stage may move to the end of the stage before it.
LEMMA MoveHead ==
    ASSUME NEW S, NEW s \in Seq(S), NEW t \in Seq(S), t # <<>>
    PROVE  /\ Append(s, Head(t)) \in Seq(S) /\ Tail(t) \in Seq(S)
           /\ Append(s, Head(t)) \o Tail(t) = s \o t
<1>1. Head(t) \in S /\ Tail(t) \in Seq(S) /\ t = <<Head(t)>> \o Tail(t)
  BY HeadTailProperties, SMT
<1>2. Append(s, Head(t)) = s \o <<Head(t)>> /\ <<Head(t)>> \in Seq(S)
  BY <1>1, AppendIsConcat
<1>3. (s \o <<Head(t)>>) \o Tail(t) = s \o (<<Head(t)>> \o Tail(t))
  BY <1>1, <1>2, ConcatAssociative
<1> QED BY <1>1, <1>2, <1>3


-----------------------------------------------------------------------------
(* bodyLengths is a FIFO queue.                                            *)

\* What Write has in hand, and what the three stages of the queue hold.
QueueInv ==
    /\ pos \in Nat /\ feed \in Seq(Bytes) \cup Seq(Datagrams)
    /\ ~streamed => feed \in Seq(Datagrams)
    /\ wpc = "push" => pipe \in Datagrams
    /\ ChanType

\* Both ends of the queue are empty at first.
LEMMA QueueInit == Init => QueueInv
<1> SUFFICES ASSUME Init PROVE QueueInv
  OBVIOUS
<1>1. streamed => feed \in Seq(Bytes)
  BY ParserAssumption DEF Init
<1>2. ~streamed => feed \in Seq(Datagrams)
  BY ParserAssumption DEF Init, SeqOf
<1>3. ChanType
  BY DEF Init, Lengths!ChanInit, ChanType
<1> QED BY <1>1, <1>2, <1>3 DEF Init, QueueInv

\* What a step of the parser is to the queue: Write sends the entry of a datagram,
\* TakeLength receives, manage moves, or nothing is sent or received.
QueueStep ==
    \/ \E d \in Datagrams : Lengths!Send(Entry(d))
    \/ Lengths!Receive
    \/ Lengths!ManageReceive \/ Lengths!ManageSend \/ Lengths!Dispose
    \/ UNCHANGED <<in, buffer, out>>

\* Every step is one of the queue, or leaves it alone.
LEMMA StepOfQueue == QueueInv /\ [Next]_vars => QueueStep
<1> SUFFICES ASSUME QueueInv, [Next]_vars PROVE QueueStep
  OBVIOUS
<1> USE DEF QueueStep, chanVars
<1>1. CASE WritePush
  BY <1>1 DEF WritePush, QueueInv
<1>2. CASE TakeLength
  BY <1>2 DEF TakeLength
<1>3. CASE ManageLengths
  BY <1>3 DEF ManageLengths, Lengths!Manage, Lengths!ManageClosed
<1>4. CASE StopPipe
  BY <1>4 DEF StopPipe, Lengths!Stop
<1>5. CASE \/ WriteReturns \/ (\E n \in 1 .. Len(feed) : Write(n)) \/ ReadEnds \/ StopLengths
           \/ StopReturns \/ Emit \/ CloseHandler \/ ServerReturns
  BY <1>5 DEF WriteReturns, Write, ReadEnds, StopLengths, StopReturns, Emit, CloseHandler,
       ServerReturns
<1>6. CASE Fill \/ ParseStart \/ ParseHeaderLine \/ LineFails \/ ContentLength \/ NextChunk
  BY <1>6 DEF Fill, ParseStart, ParseHeaderLine, LineFails, ContentLength, NextChunk, ParserOnly
<1>7. CASE UNCHANGED vars
  BY <1>7 DEF vars
<1> QED BY <1>1, <1>2, <1>3, <1>4, <1>5, <1>6, <1>7 DEF Next, WriteSteps, StopSteps, Parse

\* The queue keeps its invariant.
LEMMA QueueInvStep == QueueInv /\ [Next]_vars => QueueInv'
<1> SUFFICES ASSUME QueueInv, [Next]_vars PROVE QueueInv'
  OBVIOUS
<1>1. ChanType'
  <2>1. ASSUME NEW d \in Datagrams, Lengths!Send(Entry(d)) PROVE ChanType'
    BY <2>1 DEF Lengths!Send, ChanType, QueueInv, Entries
  <2>2. CASE Lengths!Receive
    BY <2>2, HeadTailProperties DEF Lengths!Receive, ChanType, QueueInv
  <2>3. CASE Lengths!ManageReceive
    BY <2>3, MoveHead DEF Lengths!ManageReceive, ChanType, QueueInv
  <2>4. CASE Lengths!ManageSend
    BY <2>4, MoveHead DEF Lengths!ManageSend, ChanType, QueueInv
  <2>5. CASE Lengths!Dispose
    BY <2>5, MoveHead DEF Lengths!Dispose, ChanType, QueueInv
  <2>6. CASE UNCHANGED <<in, buffer, out>>
    BY <2>6 DEF ChanType, QueueInv
  <2> QED BY <2>1, <2>2, <2>3, <2>4, <2>5, <2>6, StepOfQueue DEF QueueStep
<1> DEFINE Rest == /\ pos \in Nat /\ feed \in Seq(Bytes) \cup Seq(Datagrams)
                   /\ ~streamed => feed \in Seq(Datagrams)
                   /\ wpc = "push" => pipe \in Datagrams
<1>2. Rest'
  <2> USE DEF QueueInv, srcVars, chanVars, srvVars, prsVars
  <2>1. ASSUME NEW n \in 1 .. Len(feed), Write(n) PROVE Rest'
    <3>1. Len(feed) \in Nat /\ n \in Nat
      OBVIOUS
    <3>2. CASE streamed
      BY <2>1, <3>1, <3>2 DEF Write
    <3>3. CASE ~streamed
      <4>1. feed[pos + 1] \in Datagrams
        BY <2>1, <3>1, <3>3 DEF Write
      <4> QED BY <2>1, <3>1, <3>3, <4>1 DEF Write
    <3> QED BY <3>2, <3>3
  <2>2. CASE WritePush \/ WriteReturns \/ ReadEnds \/ StopPipe \/ StopLengths \/ StopReturns
    BY <2>2 DEF WritePush, WriteReturns, ReadEnds, StopPipe, StopLengths, StopReturns
  <2>3. CASE Fill
    BY <2>3 DEF Fill
  <2>4. CASE ParseStart \/ ParseHeaderLine \/ LineFails \/ ContentLength \/ TakeLength \/ NextChunk
    BY <2>4 DEF ParseStart, ParseHeaderLine, LineFails, ContentLength, TakeLength, NextChunk, ParserOnly
  <2>5. CASE Emit \/ CloseHandler \/ ServerReturns \/ ManageLengths \/ UNCHANGED vars
    BY <2>5 DEF Emit, CloseHandler, ServerReturns, ManageLengths, vars
  <2> QED BY <2>1, <2>2, <2>3, <2>4, <2>5 DEF Next, WriteSteps, StopSteps, Parse
<1> QED BY <1>1, <1>2 DEF QueueInv

\* The queue as a whole: sending appends, receiving takes the head, and manage
\* moves elements inside it.
Queued == Lengths!Content

\* What each step of the queue does to it.
LEMMA ContentSteps ==
    ASSUME ChanType
    PROVE  /\ Queued \in Seq(Entries)
           /\ \A d \in Datagrams : Lengths!Send(Entry(d)) => Queued' = Append(Queued, Entry(d))
           /\ Lengths!Receive => Queued # <<>> /\ Queued[1] = Head(out) /\ Queued' = Tail(Queued)
           /\ Lengths!ManageReceive \/ Lengths!ManageSend \/ Lengths!Dispose => Queued' = Queued
           /\ UNCHANGED <<in, buffer, out>> => Queued' = Queued
<1> USE DEF Queued, Lengths!Content
<1>t. in \in Seq(Entries) /\ buffer \in Seq(Entries) /\ out \in Seq(Entries)
  BY DEF ChanType
<1>a. ASSUME NEW o \in Seq(Entries), NEW b \in Seq(Entries), NEW i \in Seq(Entries)
      PROVE  (o \o b) \o i = o \o (b \o i) /\ o \o b \in Seq(Entries) /\ (o \o b) \o i \in Seq(Entries)
  <2>1. o \o b \in Seq(Entries)
    BY ConcatProperties
  <2> QED BY <2>1, ConcatProperties, ConcatAssociative
<1>0. Queued \in Seq(Entries)
  BY <1>t, <1>a
<1>1. ASSUME NEW d \in Datagrams, Lengths!Send(Entry(d)) PROVE Queued' = Append(Queued, Entry(d))
  <2>1. Entry(d) \in Entries /\ <<Entry(d)>> \in Seq(Entries)
    BY DEF Entries
  <2>2. Append(in, Entry(d)) = in \o <<Entry(d)>>
    BY <1>t, <2>1, AppendIsConcat
  <2>3. (out \o buffer) \o (in \o <<Entry(d)>>) = ((out \o buffer) \o in) \o <<Entry(d)>>
    BY <1>t, <1>a, <2>1
  <2>4. Append((out \o buffer) \o in, Entry(d)) = ((out \o buffer) \o in) \o <<Entry(d)>>
    BY <1>0, <2>1, AppendIsConcat
  <2> QED BY <1>1, <2>2, <2>3, <2>4 DEF Lengths!Send
<1>2. ASSUME Lengths!Receive
      PROVE  Queued # <<>> /\ Queued[1] = Head(out) /\ Queued' = Tail(Queued)
  <2>1. out # <<>> /\ out' = Tail(out) /\ in' = in /\ buffer' = buffer
    BY <1>2 DEF Lengths!Receive
  <2>2. /\ (out \o buffer) \o in # <<>> /\ ((out \o buffer) \o in)[1] = Head(out)
        /\ Tail((out \o buffer) \o in) = (Tail(out) \o buffer) \o in
    BY <1>t, <2>1, SMT
  <2> QED BY <2>1, <2>2
<1>3. ASSUME Lengths!ManageReceive PROVE Queued' = Queued
  <2>1. out' = out /\ in # <<>> /\ buffer' = Append(buffer, Head(in)) /\ in' = Tail(in)
    BY <1>3 DEF Lengths!ManageReceive
  <2>2. Append(buffer, Head(in)) \o Tail(in) = buffer \o in /\ Append(buffer, Head(in)) \in Seq(Entries)
        /\ Tail(in) \in Seq(Entries)
    BY <1>t, <2>1, MoveHead
  <2>3. (out \o Append(buffer, Head(in))) \o Tail(in) = out \o (Append(buffer, Head(in)) \o Tail(in))
    BY <1>t, <1>a, <2>2, Zenon
  <2>4. (out \o buffer) \o in = out \o (buffer \o in)
    BY <1>t, <1>a
  <2> QED BY <2>1, <2>2, <2>3, <2>4
<1>4. ASSUME buffer # <<>>, out' = Append(out, Head(buffer)), buffer' = Tail(buffer), in' = in
      PROVE  Queued' = Queued
  <2>1. Append(out, Head(buffer)) \o Tail(buffer) = out \o buffer
    BY <1>t, <1>4, MoveHead
  <2> QED BY <1>4, <2>1
<1>5. ASSUME Lengths!ManageSend \/ Lengths!Dispose PROVE Queued' = Queued
  BY <1>4, <1>5 DEF Lengths!ManageSend, Lengths!Dispose
<1>6. ASSUME UNCHANGED <<in, buffer, out>> PROVE Queued' = Queued
  BY <1>6
<1> QED BY <1>0, <1>1, <1>2, <1>3, <1>5, <1>6

\* Each of these steps is one of a FIFO queue, or moves elements inside it.
LEMMA FifoStep == QueueInv /\ QueueStep => [Lengths!Queue!Next]_(Lengths!Content)
<1> SUFFICES ASSUME QueueInv, QueueStep PROVE [Lengths!Queue!Next]_(Lengths!Content)
  OBVIOUS
<1>1. ASSUME NEW d \in Datagrams, Lengths!Send(Entry(d)) PROVE Lengths!Queue!Next
  BY <1>1, ContentSteps DEF QueueInv, Queued, Lengths!Queue!Next, Lengths!Queue!Enqueue
<1>2. CASE Lengths!Receive
  BY <1>2, ContentSteps DEF QueueInv, Queued, Lengths!Queue!Next, Lengths!Queue!Dequeue
<1>3. CASE \/ Lengths!ManageReceive \/ Lengths!ManageSend \/ Lengths!Dispose
           \/ UNCHANGED <<in, buffer, out>>
  BY <1>3, ContentSteps DEF QueueInv, Queued
<1> QED BY <1>1, <1>2, <1>3 DEF QueueStep

\* Write sends the lengths of its datagrams and parse receives them in this order,
\* none lost and none doubled, whatever the two channels and manage's slice hold.
THEOREM LengthsFifo == Spec => LengthsAreFifo
<1>1. Init => Lengths!Queue!Init
  BY DEF Init, Lengths!ChanInit, Lengths!Queue!Init, Lengths!Content
<1>2. QueueInv /\ [Next]_vars => [Lengths!Queue!Next]_(Lengths!Content)
  BY StepOfQueue, FifoStep
<1> QED BY <1>1, <1>2, QueueInit, QueueInvStep, PTL
        DEF Spec, LengthsAreFifo, Lengths!ImplementsFifo, Lengths!Queue!Spec

-----------------------------------------------------------------------------
(* Lines and header sections.                                              *)

\* A set of natural numbers has a least element.
LEMMA LeastNat ==
    ASSUME NEW S, S \subseteq Nat, S # {}
    PROVE  Min(S) \in S /\ \A y \in S : Min(S) <= y
<1> DEFINE R == OpToRel(<, Nat)
<1>1. IsWellFoundedOn(R, Nat)
  BY NatLessThanWellFounded
<1> HIDE DEF R
<1>2. PICK x \in S : \A y \in S : ~(<<y, x>> \in R)
  BY <1>1, WFMin
<1>3. \A y \in S : x <= y
  <2> SUFFICES ASSUME NEW y \in S PROVE x <= y
    OBVIOUS
  <2>1. ~(<<y, x>> \in R)
    BY <1>2
  <2>2. <<y, x>> \in Nat \X Nat /\ x \in Nat /\ y \in Nat
    OBVIOUS
  <2>3. ~(y < x)
    BY <2>1, <2>2 DEF R, OpToRel
  <2> QED BY <2>2, <2>3
<1> QED BY <1>2, <1>3 DEF Min

\* NextLine finds no line, or its LF.
LEMMA LineEndType ==
    ASSUME NEW b \in Seq(Bytes)
    PROVE  /\ LineEnd(b) \in Nat /\ LineEnd(b) <= Len(b)
           /\ LineEnd(b) # 0 => LineEnd(b) >= 2
<1>1. LineEnds(b) \subseteq Nat /\ \A i \in LineEnds(b) : i >= 2 /\ i <= Len(b)
  BY DEF LineEnds
<1>2. Len(b) \in Nat
  OBVIOUS
<1>3. CASE LineEnds(b) = {}
  BY <1>2, <1>3 DEF LineEnd
<1>4. CASE LineEnds(b) # {}
  <2>1. Min(LineEnds(b)) \in LineEnds(b)
    BY <1>1, <1>4, LeastNat
  <2> QED BY <1>1, <1>4, <2>1 DEF LineEnd
<1> QED BY <1>3, <1>4

\* Bytes i and i+1 of b are CR LF.
CRLFAt(b, i) == b[i] = CR /\ b[i + 1] = LF

\* Where every CR has its LF, a line ends at the first CR LF.
LEMMA CleanLine ==
    ASSUME NEW b \in Seq(Bytes), Clean(b)
    PROVE  /\ LineEnd(b) = 0 => \A i \in 1 .. Len(b) - 1 : ~CRLFAt(b, i)
           /\ LineEnd(b) # 0 => /\ LineEnd(b) \in 2 .. Len(b) /\ CRLFAt(b, LineEnd(b) - 1)
                                /\ \A i \in 1 .. LineEnd(b) - 2 : ~CRLFAt(b, i)
<1>0. Len(b) \in Nat /\ CR # LF
  BY DEF CR, LF
<1>1. ASSUME NEW i \in 2 .. Len(b), b[i - 1] = CR PROVE OddCRs(b, i - 1)
  <2>1. i - 1 = 1 \/ b[(i - 1) - 1] # CR
    <3>1. SUFFICES ASSUME i # 2, b[i - 2] = CR PROVE FALSE
      BY <1>0
    <3>2. i - 2 \in 1 .. Len(b) - 1 /\ (i - 2) + 1 = i - 1
      BY <1>0, <3>1
    <3>3. b[(i - 2) + 1] = LF
      BY <3>1, <3>2 DEF Clean
    <3> QED BY <1>0, <1>1, <3>2, <3>3
  <2>2. \A j \in (i - 1) .. (i - 1) : b[j] = CR
    BY <1>1
  <2>3. ((i - 1) - (i - 1)) % 2 = 0 /\ i - 1 \in 1 .. (i - 1)
    BY <1>0
  <2> QED BY <2>1, <2>2, <2>3 DEF OddCRs
<1>2. ASSUME NEW i \in 2 .. Len(b), OddCRs(b, i - 1) PROVE b[i - 1] = CR
  BY <1>2 DEF OddCRs
<1>3. LineEnds(b) = {i \in 2 .. Len(b) : CRLFAt(b, i - 1)}
  BY <1>0, <1>1, <1>2 DEF LineEnds, CRLFAt
<1>4. CASE LineEnds(b) = {}
  <2>1. ASSUME NEW i \in 1 .. Len(b) - 1, CRLFAt(b, i) PROVE FALSE
    <3>1. i + 1 \in 2 .. Len(b) /\ (i + 1) - 1 = i
      BY <1>0
    <3> QED BY <1>3, <1>4, <2>1, <3>1
  <2> QED BY <1>4, <2>1 DEF LineEnd
<1>5. CASE LineEnds(b) # {}
  <2>1. LineEnds(b) \subseteq Nat
    BY <1>3
  <2>2. LineEnd(b) \in LineEnds(b) /\ \A y \in LineEnds(b) : LineEnd(b) <= y
    BY <1>5, <2>1, LeastNat DEF LineEnd
  <2>3. LineEnd(b) \in 2 .. Len(b) /\ CRLFAt(b, LineEnd(b) - 1)
    BY <1>3, <2>2
  <2>4. ASSUME NEW i \in 1 .. LineEnd(b) - 2, CRLFAt(b, i) PROVE FALSE
    <3>1. i + 1 \in 2 .. Len(b) /\ (i + 1) - 1 = i /\ ~(LineEnd(b) <= i + 1)
      BY <1>0, <2>3
    <3> QED BY <1>3, <2>2, <2>4, <3>1
  <2> QED BY <1>0, <2>3, <2>4
<1> QED BY <1>4, <1>5

\* What a line leaves in the buffer.
Rest(b) == SubSeq(b, LineEnd(b) + 1, Len(b))

\* It is the end of the buffer, and clean if the buffer was.
LEMMA RestFacts ==
    ASSUME NEW b \in Seq(Bytes)
    PROVE  /\ Rest(b) \in Seq(Bytes) /\ Len(Rest(b)) = Len(b) - LineEnd(b)
           /\ \A i \in 1 .. Len(Rest(b)) : Rest(b)[i] = b[i + LineEnd(b)]
           /\ Clean(b) => Clean(Rest(b))
<1> DEFINE j == LineEnd(b)
<1>1. Len(b) \in Nat /\ j \in Nat /\ j <= Len(b)
  BY LineEndType
<1> HIDE DEF j
<1> DEFINE c == SubSeq(b, j + 1, Len(b))
<1>2. \A i \in j + 1 .. Len(b) : b[i] \in Bytes
  BY <1>1
<1>3. /\ c \in Seq(Bytes) /\ Len(c) = Len(b) - j
      /\ \A i \in 1 .. Len(b) - (j + 1) + 1 : c[i] = b[(j + 1) + i - 1]
  BY <1>1, <1>2, SubSeqProperties
<1> HIDE DEF c
<1>4. \A i \in 1 .. Len(c) : c[i] = b[i + j]
  BY <1>1, <1>3
<1>5. ASSUME Clean(b), NEW i \in 1 .. Len(c) - 1, c[i] = CR PROVE c[i + 1] = LF
  <2>1. i \in 1 .. Len(c) /\ i + 1 \in 1 .. Len(c) /\ i + j \in 1 .. Len(b) - 1
        /\ (i + 1) + j = (i + j) + 1
    BY <1>1, <1>3
  <2>2. b[i + j] = CR
    BY <1>4, <1>5, <2>1
  <2>3. b[(i + j) + 1] = LF
    BY <1>5, <2>1, <2>2 DEF Clean
  <2> QED BY <1>4, <2>1, <2>3
<1> QED BY <1>3, <1>4, <1>5 DEF Rest, c, j, Clean

\* The line is empty if the buffer begins with CR LF.
LEMMA LineFacts ==
    ASSUME NEW b \in Seq(Bytes), LineEnd(b) # 0
    PROVE  /\ Line(b) \in Seq(Bytes) /\ Len(Line(b)) = LineEnd(b) - 2
           /\ Line(b) = <<>> <=> LineEnd(b) = 2
<1> DEFINE j == LineEnd(b)
<1>1. j \in Nat /\ j >= 2 /\ j <= Len(b) /\ Len(b) \in Nat
  BY LineEndType
<1> HIDE DEF j
<1>2. \A i \in 1 .. j - 2 : b[i] \in Bytes
  BY <1>1
<1>3. SubSeq(b, 1, j - 2) \in Seq(Bytes) /\ Len(SubSeq(b, 1, j - 2)) = j - 2
  BY <1>1, <1>2, SubSeqProperties
<1>4. SubSeq(b, 1, j - 2) = <<>> <=> j = 2
  BY <1>1, <1>3, EmptySeq
<1> QED BY <1>3, <1>4 DEF Line, j

\* A double CR LF, byte by byte.
LEMMA DoubleAt ==
    ASSUME NEW d \in Seq(Bytes)
    PROVE  DoubleCRLF(d) = {i \in 1 .. Len(d) - 3 : CRLFAt(d, i) /\ CRLFAt(d, i + 2)}
<1> SUFFICES ASSUME NEW i \in 1 .. Len(d) - 3
             PROVE  SubSeq(d, i, i + 3) = <<CR, LF, CR, LF>>
                      <=> CRLFAt(d, i) /\ CRLFAt(d, i + 2)
  BY DEF DoubleCRLF
<1> DEFINE s == SubSeq(d, i, i + 3)
<1>1. Len(d) \in Nat /\ i \in Int /\ \A k \in i .. i + 3 : d[k] \in Bytes
  OBVIOUS
<1>2. s \in Seq(Bytes) /\ Len(s) = 4 /\ \A k \in 1 .. (i + 3) - i + 1 : s[k] = d[i + k - 1]
  BY <1>1, SubSeqProperties
<1> HIDE DEF s
<1>3. s[1] = d[i] /\ s[2] = d[i + 1] /\ s[3] = d[i + 2] /\ s[4] = d[i + 3]
  BY <1>1, <1>2
<1>4. s = <<CR, LF, CR, LF>> <=> s[1] = CR /\ s[2] = LF /\ s[3] = CR /\ s[4] = LF
  <2>1. <<CR, LF, CR, LF>> \in Seq(Bytes) /\ Len(<<CR, LF, CR, LF>>) = 4
    BY DEF Bytes, CR, LF
  <2>2. ASSUME s[1] = CR, s[2] = LF, s[3] = CR, s[4] = LF
        PROVE  \A k \in 1 .. 4 : s[k] = <<CR, LF, CR, LF>>[k]
    BY <2>2
  <2> QED BY <1>2, <2>1, <2>2, SeqEqual
<1>5. (i + 2) + 1 = i + 3
  BY <1>1
<1> QED BY <1>3, <1>4, <1>5 DEF CRLFAt, s

\* getBodyLength counts what is behind the first of them.
LEMMA BodyLength ==
    ASSUME NEW d \in Seq(Bytes)
    PROVE  /\ getBodyLength(d) \in Int
           /\ DoubleCRLF(d) # {} =>
                \E m \in 1 .. Len(d) - 3 :
                   /\ getBodyLength(d) = Len(d) - (m + 3) /\ CRLFAt(d, m) /\ CRLFAt(d, m + 2)
                   /\ \A i \in 1 .. m - 1 : ~(CRLFAt(d, i) /\ CRLFAt(d, i + 2))
<1>1. CASE DoubleCRLF(d) = {}
  BY <1>1 DEF getBodyLength
<1>2. CASE DoubleCRLF(d) # {}
  <2> DEFINE m == Min(DoubleCRLF(d))
  <2>1. m \in DoubleCRLF(d) /\ \A y \in DoubleCRLF(d) : m <= y
    BY <1>2, LeastNat, DoubleAt
  <2>2. getBodyLength(d) = Len(d) - (m + 3)
    BY <1>2 DEF getBodyLength
  <2> HIDE DEF m
  <2>3. m \in 1 .. Len(d) - 3 /\ CRLFAt(d, m) /\ CRLFAt(d, m + 2) /\ Len(d) \in Nat
    BY <2>1, DoubleAt
  <2>4. ASSUME NEW i \in 1 .. m - 1, CRLFAt(d, i), CRLFAt(d, i + 2) PROVE FALSE
    <3>1. i \in 1 .. Len(d) - 3 /\ ~(m <= i)
      BY <2>3
    <3> QED BY <2>1, <2>4, <3>1, DoubleAt
  <2> QED BY <2>2, <2>3, <2>4
<1> QED BY <1>1, <1>2

\* A datagram that Write does not drop and that NextLine reads as getBodyLength does.
Whole(d) == d \in Seq(Bytes) /\ Clean(d) /\ DoubleCRLF(d) # {}

\* b is the rest of a header section, from the beginning of a line, and n bytes.
Section(b, n) ==
    LET q == Len(b) - n IN
      /\ n >= 0 /\ q >= 2 /\ CRLFAt(b, q - 1)
      /\ q = 2 \/ (q >= 4 /\ CRLFAt(b, q - 3) /\ ~CRLFAt(b, 1))
      /\ \A i \in 1 .. q - 4 : ~(CRLFAt(b, i) /\ CRLFAt(b, i + 2))

\* What is behind the start line of a datagram is a header section and a body of
\* the length that Write queued.
LEMMA SectionStart ==
    ASSUME NEW d, Whole(d)
    PROVE  LineEnd(d) # 0 /\ Section(Rest(d), getBodyLength(d))
<1>1. d \in Seq(Bytes) /\ Clean(d) /\ Len(d) \in Nat
  BY DEF Whole
<1>2. PICK m \in 1 .. Len(d) - 3 :
         /\ getBodyLength(d) = Len(d) - (m + 3) /\ CRLFAt(d, m) /\ CRLFAt(d, m + 2)
         /\ \A i \in 1 .. m - 1 : ~(CRLFAt(d, i) /\ CRLFAt(d, i + 2))
  BY <1>1, BodyLength DEF Whole
<1> DEFINE j == LineEnd(d)
           c == Rest(d)
           q == m + 3 - j
<1>3. j # 0
  BY <1>1, <1>2, CleanLine
<1>4. j \in 2 .. Len(d) /\ CRLFAt(d, j - 1) /\ \A i \in 1 .. j - 2 : ~CRLFAt(d, i)
  BY <1>1, <1>3, CleanLine
<1>5. Len(c) = Len(d) - j /\ \A i \in 1 .. Len(c) : c[i] = d[i + j]
  BY <1>1, RestFacts
<1> HIDE DEF j, c
<1>6. j - 1 <= m
  BY <1>1, <1>2, <1>4
<1>7. ASSUME NEW i \in 1 .. Len(c) - 1 PROVE CRLFAt(c, i) <=> CRLFAt(d, i + j)
  <2>1. i \in 1 .. Len(c) /\ i + 1 \in 1 .. Len(c) /\ (i + 1) + j = (i + j) + 1
    BY <1>1, <1>4, <1>5
  <2> QED BY <1>5, <2>1 DEF CRLFAt
<1>8. j # m /\ (j - 1) + 1 = j
  <2>1. d[m] = CR /\ d[(j - 1) + 1] = LF
    BY <1>2, <1>4 DEF CRLFAt
  <2> QED BY <1>4, <2>1 DEF CR, LF
<1>9. /\ Len(c) - getBodyLength(d) = q /\ getBodyLength(d) >= 0 /\ q >= 2
      /\ q = 2 \/ (q >= 4 /\ j <= m - 1)
  BY <1>1, <1>2, <1>4, <1>5, <1>6, <1>8
<1>10. CRLFAt(c, q - 1)
  <2>1. q - 1 \in 1 .. Len(c) - 1 /\ (q - 1) + j = m + 2
    BY <1>1, <1>2, <1>4, <1>5, <1>9
  <2> QED BY <1>2, <1>7, <2>1
<1>11. ASSUME q >= 4, j <= m - 1 PROVE CRLFAt(c, q - 3) /\ ~CRLFAt(c, 1)
  <2>1. q - 3 \in 1 .. Len(c) - 1 /\ (q - 3) + j = m /\ 1 \in 1 .. Len(c) - 1
        /\ j - 1 \in 1 .. m - 1 /\ 1 + j = (j - 1) + 2
    BY <1>1, <1>2, <1>4, <1>5, <1>9, <1>11
  <2>2. ~CRLFAt(d, 1 + j)
    BY <1>2, <1>4, <2>1
  <2> QED BY <1>2, <1>7, <2>1, <2>2
<1>12. ASSUME NEW i \in 1 .. q - 4, CRLFAt(c, i), CRLFAt(c, i + 2) PROVE FALSE
  <2>1. i \in 1 .. Len(c) - 1 /\ i + 2 \in 1 .. Len(c) - 1 /\ i + j \in 1 .. m - 1
        /\ (i + 2) + j = (i + j) + 2
    BY <1>1, <1>2, <1>4, <1>5, <1>9
  <2> QED BY <1>2, <1>7, <1>12, <2>1
<1> HIDE DEF q
<1>13. Section(c, getBodyLength(d))
  BY <1>9, <1>10, <1>11, <1>12 DEF Section
<1> QED BY <1>3, <1>13 DEF c, j

\* A line of a header section leaves a header section; the empty line leaves the body.
LEMMA SectionNext ==
    ASSUME NEW b \in Seq(Bytes), Clean(b), NEW n \in Int, Section(b, n)
    PROVE  /\ LineEnd(b) # 0
           /\ Line(b) = <<>> => Len(Rest(b)) = n
           /\ Line(b) # <<>> => Section(Rest(b), n)
<1> DEFINE q == Len(b) - n
           j == LineEnd(b)
           c == Rest(b)
<1>0. Len(b) \in Nat /\ q \in Int
  OBVIOUS
<1>1. /\ n >= 0 /\ q >= 2 /\ CRLFAt(b, q - 1)
      /\ q = 2 \/ (q >= 4 /\ CRLFAt(b, q - 3) /\ ~CRLFAt(b, 1))
      /\ \A i \in 1 .. q - 4 : ~(CRLFAt(b, i) /\ CRLFAt(b, i + 2))
  BY DEF Section
<1>2. j # 0
  <2>1. q - 1 \in 1 .. Len(b) - 1
    BY <1>0, <1>1
  <2> QED BY <1>1, <2>1, CleanLine
<1>3. j \in 2 .. Len(b) /\ CRLFAt(b, j - 1) /\ \A i \in 1 .. j - 2 : ~CRLFAt(b, i)
  BY <1>2, CleanLine
<1>4. Len(c) = Len(b) - j /\ \A i \in 1 .. Len(c) : c[i] = b[i + j]
  BY RestFacts
<1>5. Line(b) = <<>> <=> j = 2
  BY <1>2, LineFacts
<1> HIDE DEF j, c
<1>6. ASSUME NEW i \in 1 .. Len(c) - 1 PROVE CRLFAt(c, i) <=> CRLFAt(b, i + j)
  <2>1. i \in 1 .. Len(c) /\ i + 1 \in 1 .. Len(c) /\ (i + 1) + j = (i + j) + 1
    BY <1>0, <1>3, <1>4
  <2> QED BY <1>4, <2>1 DEF CRLFAt
<1>7. CASE q = 2
  <2>1. j = 2
    <3>1. CRLFAt(b, 1)
      BY <1>1, <1>7
    <3> QED BY <1>0, <1>3, <3>1
  <2> QED BY <1>0, <1>2, <1>4, <1>5, <1>7, <2>1 DEF c, j
<1>8. CASE q # 2
  <2> HIDE DEF q
  <2>1. q >= 4 /\ CRLFAt(b, q - 3) /\ ~CRLFAt(b, 1)
    BY <1>1, <1>8
  <2>2. j # 2
    BY <1>3, <2>1
  <2>3. j <= q - 2
    BY <1>0, <1>3, <2>1
  <2>4. j # q - 3 /\ (j - 1) + 1 = j
    <3>1. b[q - 3] = CR /\ b[(j - 1) + 1] = LF
      BY <1>3, <2>1 DEF CRLFAt
    <3> QED BY <1>3, <3>1 DEF CR, LF
  <2> DEFINE r == q - j
  <2>5. Len(c) - n = r /\ r >= 2 /\ (r = 2 \/ (r >= 4 /\ j <= q - 4)) /\ Len(b) >= q
    <3>1. Len(c) = Len(b) - j /\ q = Len(b) - n /\ j \in Int
      BY <1>3, <1>4 DEF q
    <3>2. q >= 4 /\ j <= q - 2 /\ j # q - 3 /\ n >= 0
      BY <1>1, <2>1, <2>3, <2>4
    <3> QED BY <1>0, <3>1, <3>2
  <2>6. CRLFAt(c, r - 1)
    <3>1. r - 1 \in 1 .. Len(c) - 1 /\ (r - 1) + j = q - 1
      BY <1>0, <1>3, <1>4, <2>5
    <3> QED BY <1>1, <1>6, <3>1
  <2>7. ASSUME r >= 4, j <= q - 4 PROVE CRLFAt(c, r - 3) /\ ~CRLFAt(c, 1)
    <3>1. r - 3 \in 1 .. Len(c) - 1 /\ (r - 3) + j = q - 3 /\ 1 \in 1 .. Len(c) - 1
          /\ j - 1 \in 1 .. q - 4 /\ 1 + j = (j - 1) + 2
      BY <1>0, <1>3, <1>4, <2>5, <2>7
    <3>2. ~CRLFAt(b, 1 + j)
      BY <1>1, <1>3, <3>1
    <3> QED BY <1>6, <2>1, <3>1, <3>2
  <2>8. ASSUME NEW i \in 1 .. r - 4, CRLFAt(c, i), CRLFAt(c, i + 2) PROVE FALSE
    <3>1. i \in 1 .. Len(c) - 1 /\ i + 2 \in 1 .. Len(c) - 1 /\ i + j \in 1 .. q - 4
          /\ (i + 2) + j = (i + j) + 2
      BY <1>0, <1>3, <1>4, <2>5
    <3> QED BY <1>1, <1>6, <2>8, <3>1
  <2> HIDE DEF r
  <2>9. Section(c, n)
    BY <1>1, <2>5, <2>6, <2>7, <2>8 DEF Section
  <2> QED BY <1>2, <1>5, <2>2, <2>9 DEF c, j
<1> QED BY <1>7, <1>8

-----------------------------------------------------------------------------
(* The invariant behind BufferSound.                                       *)

\* What TypeOK leaves out: the bytes, the message in progress, the entries.
MoreTypes ==
    /\ QueueInv
    /\ streamed => feed \in Seq(Bytes)
    /\ pipe \in Seq(Bytes) /\ buf \in Seq(Bytes) /\ hbuf \in Seq(Bytes)
    /\ msg \in [headers : Seq(Seq(Bytes)), start : Nat, ended : BOOLEAN]
    /\ pend.kind = "msg" => pend # Error("start")

\* A header section that was cut leaves nothing to read behind a closed pipe.
CutInv ==
    /\ ppc \in {"length", "body"} /\ ~msg.ended => PipeClosed /\ buf = <<>>
    /\ WholeMessages

\* Streamed, nothing is skipped and no length is negative.
StreamedInv ==
    streamed => Running /\ ppc \notin {"skipLength", "skip"} /\ (ppc = "body" => need >= 0)

\* Write waits for the pipe to be read, the entry of its datagram being queued.
Waiting == wpc = "pipe" /\ pipe # <<>>

\* parse has yet to take the entry of the datagram it is at.
Owed == \/ ppc \in {"headers", "length", "skipLength"}
        \/ ppc = "start" /\ buf # <<>>
        \/ ppc = "send" /\ pend = Error("start")

WriterInv ==
    /\ wpc = "push" \/ Waiting => Whole(pipe)
    /\ wpc \notin {"push", "pipe"} => pipe = <<>>
    /\ Waiting => Queued[Len(Queued)] = Entry(pipe)

\* One entry for the datagram parse is at, one for the datagram that waits.
LengthsInv == Len(Queued) = (IF Owed THEN 1 ELSE 0) + (IF Waiting THEN 1 ELSE 0)

\* Where parse is in its datagram, in terms of the oldest entry.
ReaderInv ==
    /\ Clean(buf)
    /\ ppc = "start" /\ buf # <<>> => Whole(buf) /\ Queued[1] = Entry(buf)
    /\ ppc = "headers" => Section(buf, Queued[1][1])
    /\ ppc = "length" => Queued[1][1] = Len(buf)
    /\ ppc = "skipLength" \/ (ppc = "send" /\ pend = Error("start")) =>
          Queued[1][2] = Len(buf) + msg.start + 2
    /\ ppc \in {"body", "skip"} => need = Len(buf)
    /\ ppc = "end" \/ (ppc = "send" /\ pend # Error("start")) => buf = <<>>

DatagramInv ==
    ~streamed /\ CleanInput(streamed, Fed) => Running /\ WriterInv /\ LengthsInv /\ ReaderInv

\* The inductive invariant.
IInv == TypeOK /\ MoreTypes /\ CutInv /\ StreamedInv /\ DatagramInv

-----------------------------------------------------------------------------
(* It holds initially.                                                     *)

\* An entry is a pair of lengths; without a double CR LF the first is -1.
LEMMA EntryType ==
    /\ \A e \in Entries : e[1] \in Int /\ e[2] \in Nat
    /\ \A d \in Seq(Bytes) : Entry(d)[1] = getBodyLength(d) /\ Entry(d)[2] = Len(d)
    /\ \A d \in Seq(Bytes) : getBodyLength(d) # -1 => DoubleCRLF(d) # {}
<1>1. \A d \in Seq(Bytes) : Entry(d)[1] = getBodyLength(d) /\ Entry(d)[2] = Len(d)
  BY DEF Entry
<1>2. \A d \in Datagrams : d \in Seq(Bytes)
  BY ParserAssumption
<1>3. ASSUME NEW d \in Datagrams PROVE Entry(d)[1] \in Int /\ Entry(d)[2] \in Nat
  BY <1>1, <1>2, BodyLength
<1>4. \A d \in Seq(Bytes) : getBodyLength(d) # -1 => DoubleCRLF(d) # {}
  BY DEF getBodyLength
<1> QED BY <1>1, <1>3, <1>4 DEF Entries

\* The one Content-Length header of a message has a length.
LEMMA LengthType ==
    ASSUME NEW hs, OneLength(hs)
    PROVE  TheLength(hs) \in Nat
<1>1. (CHOOSE i \in LengthHeaders(hs) : TRUE) \in LengthHeaders(hs)
  BY Zenon DEF OneLength
<1>2. \A i \in LengthHeaders(hs) : hs[i][1] \in {"L0", "L1", "L2"}
  BY DEF LengthHeaders, ContentLengths
<1>3. \A x \in {"L0", "L1", "L2"} : ContentLengths[x] \in Nat
  BY DEF ContentLengths
<1> QED BY <1>1, <1>2, <1>3, Zenon DEF TheLength

\* Nothing was written and nothing was read.
LEMMA InitInv == Init => IInv
<1> SUFFICES ASSUME Init PROVE IInv
  OBVIOUS
<1>q. QueueInv
  BY QueueInit
<1>1. streamed => feed \in Seq(Bytes)
  BY ParserAssumption DEF Init
<1>2. feed \in Seq(Bytes) \cup Seq(Datagrams)
  BY <1>q DEF QueueInv
<1>3. TypeOK
  <2>1. Len(feed) \in Nat
    BY <1>2
  <2>2. mgr \in {"idle", "loop", "dispose", "done"}
    BY DEF Init, Lengths!ChanInit
  <2>3. streamed \in BOOLEAN /\ cancel \in BOOLEAN
    BY Zenon DEF Init
  <2>4. pos \in 0 .. Len(feed) /\ pend.kind = "none"
    BY <2>1 DEF Init, None
  <2> QED BY <2>2, <2>3, <2>4 DEF Init, TypeOK
<1>4. MoreTypes
  BY <1>q, <1>1 DEF Init, MoreTypes, NoMsg, None
<1>5. CutInv /\ StreamedInv
  BY DEF Init, CutInv, WholeMessages, StreamedInv, None, Running
<1>6. DatagramInv
  <2>1. Queued = <<>>
    BY DEF Init, Lengths!ChanInit, Queued, Lengths!Content
  <2>2. Len(Queued) = 0 /\ Clean(<<>>)
    BY <2>1 DEF Clean
  <2> QED BY <2>2 DEF Init, DatagramInv, WriterInv, LengthsInv, ReaderInv, Owed, Waiting, Running
<1> QED BY <1>3, <1>4, <1>5, <1>6 DEF IInv

-----------------------------------------------------------------------------
(* The types.                                                              *)

\* Every step keeps the types.
LEMMA TypeStep == IInv /\ [Next]_vars => TypeOK' /\ MoreTypes'
<1> SUFFICES ASSUME IInv, [Next]_vars PROVE TypeOK' /\ MoreTypes'
  OBVIOUS
<1>q. QueueInv'
  BY QueueInvStep DEF IInv, MoreTypes
<1> USE DEF IInv, TypeOK, MoreTypes, srcVars, chanVars, srvVars, prsVars, None, Error
<1>l. Len(feed) \in Nat /\ pos \in Nat
  BY DEF QueueInv
<1>b. cancel' \in BOOLEAN
  <2>1. cancel' = cancel \/ cancel' = TRUE
    <3>1. CASE \E n \in 1 .. Len(feed) : Write(n)
      BY <3>1, Zenon DEF Write
    <3>2. CASE WritePush \/ WriteReturns \/ ReadEnds \/ StopPipe \/ StopLengths \/ StopReturns
      BY <3>2, Zenon DEF WritePush, WriteReturns, ReadEnds, StopPipe, StopLengths, StopReturns
    <3>3. CASE \/ Fill \/ ParseStart \/ ParseHeaderLine \/ LineFails \/ ContentLength
               \/ TakeLength \/ NextChunk
      BY <3>3, Zenon DEF Fill, ParseStart, ParseHeaderLine, LineFails, ContentLength, TakeLength,
           NextChunk, ParserOnly
    <3>4. CASE Emit \/ CloseHandler \/ ServerReturns \/ ManageLengths \/ UNCHANGED vars
      BY <3>4, Zenon DEF Emit, CloseHandler, ServerReturns, ManageLengths, vars
    <3> QED BY <3>1, <3>2, <3>3, <3>4, Zenon DEF Next, WriteSteps, StopSteps, Parse
  <2> QED BY <2>1, Zenon
<1>1. ASSUME NEW n \in 1 .. Len(feed), Write(n) PROVE TypeOK' /\ MoreTypes'
  <2>1. pos' \in 0 .. Len(feed)
    BY <1>1, <1>l DEF Write
  <2>2. pipe' \in Seq(Bytes) /\ wpc' \in {"push", "pipe", "read"}
    <3>1. CASE streamed
      <4>1. \A i \in pos + 1 .. pos + n : feed[i] \in Bytes
        BY <1>1, <1>l, <3>1 DEF Write
      <4>2. SubSeq(feed, pos + 1, pos + n) \in Seq(Bytes)
        BY <1>l, <4>1, SubSeqProperties
      <4> QED BY <1>1, <3>1, <4>2 DEF Write
    <3>2. CASE ~streamed
      <4>1. feed[pos + 1] \in Datagrams
        BY <1>1, <1>l, <3>2 DEF Write, QueueInv
      <4>2. feed[pos + 1] \in Seq(Bytes)
        BY <4>1, ParserAssumption
      <4>3. (pipe' = <<>> \/ pipe' = feed[pos + 1]) /\ wpc' \in {"push", "read"}
        BY <1>1, <3>2, Zenon DEF Write
      <4>4. <<>> \in Seq(Bytes)
        OBVIOUS
      <4> QED BY <4>2, <4>3, <4>4, Zenon
    <3> QED BY <3>1, <3>2
  <2> QED BY <1>1, <1>q, <2>1, <2>2 DEF Write
<1>2. CASE WritePush
  BY <1>2, <1>q DEF WritePush, Lengths!Send
<1>3. CASE WriteReturns \/ StopLengths \/ StopReturns
  BY <1>3, <1>q DEF WriteReturns, StopLengths, StopReturns
<1>e. CASE ReadEnds \/ CloseHandler
  <2>1. /\ wpc' = wpc \/ wpc' = "stop"
        /\ UNCHANGED <<srcVars, pos, pipe, buf, prsVars, results, server, proc, chanVars>>
    BY <1>e DEF ReadEnds, CloseHandler
  <2> QED BY <1>b, <1>q, <2>1
<1>4. CASE StopPipe
  BY <1>4, <1>q DEF StopPipe, Lengths!Stop
<1>5. CASE Fill
  <2>1. buf \o pipe \in Seq(Bytes)
    BY ConcatProperties
  <2> QED BY <1>5, <1>q, <2>1 DEF Fill
<1>6. CASE ParseStart
  <2>1. Line(buf) \in Seq(Bytes) /\ Len(Line(buf)) \in Nat
    BY <1>6, LineFacts DEF ParseStart
  <2>2. buf' \in Seq(Bytes)
    BY <1>6, RestFacts DEF ParseStart, Rest
  <2>3. msg' \in [headers : Seq(Seq(Bytes)), start : Nat, ended : BOOLEAN]
    <3>1. msg' = [NoMsg EXCEPT !.start = Len(Line(buf))]
      BY <1>6, Zenon DEF ParseStart
    <3>2. msg' = [headers |-> <<>>, start |-> Len(Line(buf)), ended |-> FALSE]
      BY <3>1 DEF NoMsg
    <3> QED BY <2>1, <3>2
  <2> QED BY <1>6, <1>q, <2>2, <2>3 DEF ParseStart, ParserOnly
<1>7. CASE ParseHeaderLine
  <2>1. Line(buf) \in Seq(Bytes)
    BY <1>7, LineFacts DEF ParseHeaderLine
  <2>2. buf' \in Seq(Bytes)
    BY <1>7, RestFacts DEF ParseHeaderLine, Rest
  <2>3. hbuf \o Line(buf) \in Seq(Bytes)
    BY <2>1, ConcatProperties
  <2>4. hbuf' \in Seq(Bytes)
    BY <1>7, <2>1, <2>3 DEF ParseHeaderLine
  <2>5. Flushed \in Seq(Seq(Bytes))
    BY DEF Flushed
  <2>6. msg' \in [headers : Seq(Seq(Bytes)), start : Nat, ended : BOOLEAN]
    BY <1>7, <2>5 DEF ParseHeaderLine
  <2>7. ppc' \in {"headers", "length"}
    BY <1>7 DEF ParseHeaderLine
  <2> QED BY <1>7, <1>q, <2>2, <2>4, <2>6, <2>7 DEF ParseHeaderLine, ParserOnly
<1>8. CASE LineFails
  BY <1>8, <1>q DEF LineFails, ParserOnly
<1>9. CASE ContentLength
  <2>1. OneLength(msg.headers) => TheLength(msg.headers) \in Int
    BY LengthType
  <2> QED BY <1>9, <1>q, <2>1 DEF ContentLength, ParserOnly
<1>10. CASE TakeLength
  <2>1. Head(out) \in Entries
    BY <1>10, HeadTailProperties DEF TakeLength, Lengths!Receive, QueueInv, ChanType
  <2>2. Head(out)[1] \in Int /\ Head(out)[2] \in Int /\ msg.start \in Int
    BY <2>1, EntryType
  <2>3. need' \in Int
    BY <1>10, <2>2 DEF TakeLength
  <2> QED BY <1>10, <1>q, <2>3 DEF TakeLength, Lengths!Receive
<1>11. CASE NextChunk
  <2>1. need >= 0 /\ Len(buf) >= need => SubSeq(buf, need + 1, Len(buf)) \in Seq(Bytes)
    <3>1. \A i \in need + 1 .. Len(buf) : need >= 0 => buf[i] \in Bytes
      OBVIOUS
    <3> QED BY <3>1, SubSeqProperties
  <2>2. buf' \in Seq(Bytes)
    <3>1. \/ buf' = buf \/ buf' = <<>>
          \/ need >= 0 /\ Len(buf) >= need /\ buf' = SubSeq(buf, need + 1, Len(buf))
      BY <1>11, Zenon DEF NextChunk
    <3>2. <<>> \in Seq(Bytes)
      OBVIOUS
    <3> QED BY <2>1, <3>1, <3>2, Zenon
  <2>3. pend' = pend \/ pend'.kind \in {"msg", "err"}
    BY <1>11 DEF NextChunk, Message
  <2> QED BY <1>11, <1>q, <2>2 DEF NextChunk, Message
<1>12. CASE Emit
  BY <1>12, <1>q DEF Emit
<1>13. CASE ServerReturns
  BY <1>13, <1>q DEF ServerReturns
<1>14. CASE ManageLengths
  BY <1>14, <1>q DEF ManageLengths, Lengths!Manage, Lengths!ManageReceive, Lengths!ManageSend,
       Lengths!ManageClosed, Lengths!Dispose
<1>15. CASE UNCHANGED vars
  BY <1>15, <1>q DEF vars
<1> QED BY <1>1, <1>2, <1>3, <1>e, <1>4, <1>5, <1>6, <1>7, <1>8, <1>9, <1>10, <1>11, <1>12,
        <1>13, <1>14, <1>15 DEF Next, WriteSteps, StopSteps, Parse

-----------------------------------------------------------------------------
(* Cut header sections, and streams.                                       *)

\* A header section is cut off only where the input ends.
LEMMA CutStep == IInv /\ [Next]_vars => CutInv'
<1> SUFFICES ASSUME IInv, [Next]_vars PROVE CutInv'
  OBVIOUS
<1>t. TypeOK /\ buf \in Seq(Bytes) /\ CutInv
  BY DEF IInv, MoreTypes
<1>k. (pend.kind = "none" <=> ppc # "send") /\ need \in Int
  BY <1>t DEF TypeOK
<1> USE DEF CutInv, WholeMessages, PipeClosed, srcVars, chanVars, srvVars, prsVars
<1>1. ASSUME UNCHANGED <<prsVars, buf>>, wpc \in {"read", "push", "pipe"} \/ wpc' \in {"lengths", "done", "end"}
      PROVE  CutInv'
  BY <1>t, <1>1
<1>2. CASE \E n \in 1 .. Len(feed) : Write(n)
  BY <1>1, <1>2 DEF Write
<1>3. CASE WritePush \/ WriteReturns \/ ReadEnds \/ StopPipe \/ StopLengths \/ StopReturns
  BY <1>1, <1>3 DEF WritePush, WriteReturns, ReadEnds, StopPipe, StopLengths, StopReturns
<1>4. CASE Fill
  BY <1>t, <1>4 DEF Fill
<1>5. CASE ParseStart
  <2>1. ppc' \in {"headers", "send"} /\ (pend' = pend \/ pend' = Error("start"))
    BY <1>5, Zenon DEF ParseStart
  <2>2. pend'.kind # "msg"
    BY <1>5, <1>k, <2>1 DEF ParseStart, Error
  <2> QED BY <2>1, <2>2
<1>6. CASE ParseHeaderLine
  <2>1. pend' = pend /\ pend.kind = "none" /\ ppc = "headers" /\ ppc' \in {"headers", "length"}
    BY <1>6, <1>k DEF ParseHeaderLine
  <2>2. ppc' = "length" => msg'.ended
    <3>1. msg \in [headers : Seq(Seq(Bytes)), start : Nat, ended : BOOLEAN]
      BY DEF IInv, MoreTypes
    <3>2. SUFFICES ASSUME ppc' = "length" PROVE msg'.ended
      OBVIOUS
    <3>3. Line(buf) = <<>> /\ msg' = [msg EXCEPT !.headers = Flushed, !.ended = Line(buf) = <<>>]
      BY <1>6, <2>1, <3>2 DEF ParseHeaderLine
    <3>4. msg'.ended = (Line(buf) = <<>>)
      BY <3>1, <3>3
    <3> QED BY <3>3, <3>4
  <2> QED BY <2>1, <2>2
<1>7. CASE LineFails
  BY <1>7, <1>k DEF LineFails, ParserOnly
<1>8. CASE ContentLength
  <2>1. pend.kind = "none" /\ ppc = "length" /\ UNCHANGED <<msg, buf, wpc>>
    BY <1>8, <1>k DEF ContentLength, ParserOnly
  <2>2. (ppc' = "body" /\ pend' = pend) \/ (ppc' = "send" /\ pend' = Error("length"))
    BY <1>8, Zenon DEF ContentLength
  <2>3. Error("length").kind = "err"
    BY DEF Error
  <2> QED BY <1>t, <2>1, <2>2, <2>3
<1>9. CASE TakeLength
  BY <1>t, <1>k, <1>9 DEF TakeLength
<1>10. CASE NextChunk
  <2>1. pend.kind = "none" /\ ppc \in {"body", "skip"} /\ UNCHANGED <<msg, need, wpc>>
    BY <1>10, <1>k DEF NextChunk
  <2>2. CASE UNCHANGED <<ppc, pend, buf>>
    BY <1>t, <2>1, <2>2
  <2>3. CASE ppc' = "start" /\ pend' = pend
    BY <2>1, <2>3
  <2>4. CASE ppc' = "send" /\ pend' = Error("body")
    <3>1. pend'.kind = "err"
      BY <2>4 DEF Error
    <3> QED BY <2>4, <3>1
  <2>5. CASE /\ ppc = "body" /\ need >= 0 /\ Len(buf) >= need /\ ppc' = "send"
             /\ pend' = Message(msg, SubSeq(buf, 1, need))
    <3>1. SUFFICES ASSUME ~msg.ended
                   PROVE  PipeClosed' /\ pend'.body = <<>> /\ need' = 0
      BY <2>1, <2>5
    <3>2. PipeClosed /\ buf = <<>>
      BY <1>t, <2>5, <3>1
    <3>3. need = 0
      <4>1. Len(buf) = 0
        BY <3>2
      <4> QED BY <1>k, <2>5, <4>1
    <3>4. pend'.body = Body(SubSeq(buf, 1, 0))
      BY <2>5, <3>3 DEF Message
    <3>5. SubSeq(buf, 1, 0) = <<>>
      BY SubSeqEmpty
    <3>6. Body(<<>>) = <<>>
      BY Zenon DEF Body
    <3> QED BY <2>1, <3>2, <3>3, <3>4, <3>5, <3>6
  <2> QED BY <1>10, <2>1, <2>2, <2>3, <2>4, <2>5 DEF NextChunk
<1>11. CASE Emit
  BY <1>11 DEF Emit, None
<1>12. CASE CloseHandler \/ ServerReturns \/ ManageLengths
  BY <1>t, <1>12 DEF CloseHandler, ServerReturns, ManageLengths
<1>13. CASE UNCHANGED vars
  BY <1>t, <1>13 DEF vars
<1> QED BY <1>2, <1>3, <1>4, <1>5, <1>6, <1>7, <1>8, <1>9, <1>10, <1>11, <1>12, <1>13
        DEF Next, WriteSteps, StopSteps, Parse

\* On a stream the lengths of the datagrams are not used.
LEMMA StreamedStep == IInv /\ [Next]_vars => StreamedInv'
<1> SUFFICES ASSUME IInv, [Next]_vars, streamed' PROVE StreamedInv'
  BY DEF StreamedInv
<1> USE DEF StreamedInv, Running, srcVars, chanVars, srvVars, prsVars
<1>t. need \in Int /\ StreamedInv
  BY DEF IInv, TypeOK
<1>1. CASE (\E n \in 1 .. Len(feed) : Write(n)) \/ UNCHANGED vars
  BY <1>t, <1>1 DEF Write, vars
<1>2. CASE WritePush \/ WriteReturns \/ ReadEnds \/ StopPipe \/ StopLengths \/ StopReturns
  BY <1>t, <1>2 DEF WritePush, WriteReturns, ReadEnds, StopPipe, StopLengths, StopReturns
<1>3. CASE Fill \/ LineFails \/ TakeLength
  BY <1>t, <1>3 DEF Fill, LineFails, TakeLength, ParserOnly
<1>4. CASE ParseStart
  <2>1. ppc' \in {"headers", "send"} /\ UNCHANGED <<streamed, proc>>
    BY <1>4 DEF ParseStart, ParserOnly
  <2> QED BY <1>t, <2>1
<1>5. CASE ParseHeaderLine
  <2>1. ppc' \in {"headers", "length"} /\ UNCHANGED <<streamed, proc>>
    BY <1>5 DEF ParseHeaderLine, ParserOnly
  <2> QED BY <1>t, <2>1
<1>6. CASE ContentLength
  <2>1. \/ ppc' = "send"
        \/ ppc' = "body" /\ OneLength(msg.headers) /\ need' = TheLength(msg.headers)
    BY <1>6 DEF ContentLength
  <2>2. ppc' = "body" => need' \in Nat
    BY <2>1, LengthType
  <2>3. UNCHANGED <<streamed, proc>>
    BY <1>6 DEF ContentLength, ParserOnly
  <2> QED BY <1>t, <2>1, <2>2, <2>3
<1>7. CASE NextChunk
  BY <1>t, <1>7 DEF NextChunk
<1>8. CASE Emit \/ CloseHandler \/ ServerReturns \/ ManageLengths
  BY <1>t, <1>8 DEF Emit, CloseHandler, ServerReturns, ManageLengths
<1> QED BY <1>1, <1>2, <1>3, <1>4, <1>5, <1>6, <1>7, <1>8
        DEF Next, WriteSteps, StopSteps, Parse

-----------------------------------------------------------------------------
(* Datagrams: bytes and lengths stay in step.                              *)

\* Input of datagrams is clean if each datagram is.
LEMMA CleanFed ==
    ASSUME NEW st, ~st, NEW f \in Seq(Datagrams), NEW p \in 0 .. Len(f)
    PROVE  CleanInput(st, SubSeq(f, 1, p)) <=> \A i \in 1 .. p : Clean(f[i])
<1>1. Len(f) \in Nat /\ \A i \in 1 .. p : f[i] \in Datagrams
  OBVIOUS
<1>2. /\ SubSeq(f, 1, p) \in Seq(Datagrams) /\ Len(SubSeq(f, 1, p)) = p
      /\ \A i \in 1 .. p - 1 + 1 : SubSeq(f, 1, p)[i] = f[1 + i - 1]
  BY <1>1, SubSeqProperties
<1>3. DOMAIN SubSeq(f, 1, p) = 1 .. p /\ \A i \in 1 .. p : SubSeq(f, 1, p)[i] = f[i]
  BY <1>1, <1>2, LenProperties
<1> QED BY <1>3, Zenon DEF CleanInput

\* The input is fixed, and Write alone takes more of it.
LEMMA FeedStep ==
    ASSUME [Next]_vars
    PROVE  UNCHANGED <<streamed, feed>> /\ (pos' = pos \/ \E n \in 1 .. Len(feed) : Write(n))
<1> USE DEF srcVars, chanVars, srvVars, prsVars
<1>1. CASE \E n \in 1 .. Len(feed) : Write(n)
  BY <1>1 DEF Write
<1>2. CASE WritePush \/ WriteReturns \/ ReadEnds \/ StopPipe \/ StopLengths \/ StopReturns
  BY <1>2 DEF WritePush, WriteReturns, ReadEnds, StopPipe, StopLengths, StopReturns
<1>3. CASE Fill \/ ParseStart \/ ParseHeaderLine \/ LineFails \/ ContentLength \/ TakeLength \/ NextChunk
  BY <1>3 DEF Fill, ParseStart, ParseHeaderLine, LineFails, ContentLength, TakeLength, NextChunk, ParserOnly
<1>4. CASE Emit \/ CloseHandler \/ ServerReturns \/ ManageLengths \/ UNCHANGED vars
  BY <1>4 DEF Emit, CloseHandler, ServerReturns, ManageLengths, vars
<1> QED BY <1>1, <1>2, <1>3, <1>4 DEF Next, WriteSteps, StopSteps, Parse

\* What is known of the datagrams after a step was known before it.
LEMMA CleanBefore ==
    ASSUME IInv, [Next]_vars, ~streamed', CleanInput(streamed', Fed')
    PROVE  /\ ~streamed /\ CleanInput(streamed, Fed)
           /\ \A n \in 1 .. Len(feed) : Write(n) => Clean(feed[pos + 1])
<1>1. ~streamed /\ feed' = feed /\ streamed' = streamed
  BY FeedStep
<1>2. feed \in Seq(Datagrams) /\ pos \in 0 .. Len(feed) /\ Len(feed) \in Nat
  BY <1>1 DEF IInv, TypeOK, MoreTypes, QueueInv
<1>3. pos' \in 0 .. Len(feed) /\ pos <= pos'
  <2>1. CASE pos' = pos
    BY <1>2, <2>1
  <2>2. ASSUME NEW n \in 1 .. Len(feed), Write(n) PROVE pos' \in 0 .. Len(feed) /\ pos <= pos'
    BY <1>2, <2>2 DEF Write
  <2> QED BY <2>1, <2>2, FeedStep
<1>4. \A i \in 1 .. pos' : Clean(feed[i])
  <2>1. Fed' = SubSeq(feed, 1, pos')
    BY <1>1 DEF Fed
  <2>2. CleanInput(streamed, SubSeq(feed, 1, pos'))
    BY <1>1, <2>1, Zenon
  <2> QED BY <1>1, <1>2, <1>3, <2>2, CleanFed
<1>5. CleanInput(streamed, Fed)
  <2>1. \A i \in 1 .. pos : Clean(feed[i])
    BY <1>2, <1>3, <1>4
  <2> QED BY <1>1, <1>2, <2>1, CleanFed DEF Fed
<1>6. ASSUME NEW n \in 1 .. Len(feed), Write(n) PROVE Clean(feed[pos + 1])
  <2>1. pos + 1 \in 1 .. pos'
    BY <1>1, <1>2, <1>6 DEF Write
  <2> QED BY <1>4, <2>1
<1> QED BY <1>1, <1>5, <1>6

\* The bytes in the buffer and the lengths in the queue are of the same datagrams.
LEMMA DatagramStep == IInv /\ [Next]_vars => DatagramInv'
<1> SUFFICES ASSUME IInv, [Next]_vars, ~streamed', CleanInput(streamed', Fed')
             PROVE  Running' /\ WriterInv' /\ LengthsInv' /\ ReaderInv'
  BY DEF DatagramInv
<1> DEFINE Goal == Running' /\ WriterInv' /\ LengthsInv' /\ ReaderInv'
<1>c. ~streamed /\ \A n \in 1 .. Len(feed) : Write(n) => Clean(feed[pos + 1])
  BY CleanBefore
<1>i. Running /\ WriterInv /\ LengthsInv /\ ReaderInv
  BY CleanBefore DEF IInv, DatagramInv
<1>t. /\ pipe \in Seq(Bytes) /\ buf \in Seq(Bytes) /\ need \in Int /\ ChanType
      /\ msg \in [headers : Seq(Seq(Bytes)), start : Nat, ended : BOOLEAN]
      /\ pend.kind = "none" <=> ppc # "send"
  BY DEF IInv, TypeOK, MoreTypes, QueueInv
<1>q. Queued \in Seq(Entries) /\ Len(Queued) \in Nat
  BY <1>t, ContentSteps
<1> USE DEF srcVars, chanVars, srvVars, prsVars
<1>u. UNCHANGED <<in, buffer, out>> => Queued' = Queued
  BY <1>t, ContentSteps
<1>1. ASSUME NEW n \in 1 .. Len(feed), Write(n) PROVE Goal
  <2>1. feed[pos + 1] \in Datagrams
    <3>1. feed \in Seq(Datagrams) /\ pos \in Nat
      BY <1>c DEF IInv, MoreTypes, QueueInv
    <3> QED BY <1>c, <1>1, <3>1 DEF Write
  <2>2. feed[pos + 1] \in Seq(Bytes) /\ Clean(feed[pos + 1])
    BY <1>c, <1>1, <2>1, ParserAssumption
  <2>3. \/ wpc' = "read" /\ pipe' = <<>>
        \/ wpc' = "push" /\ pipe' = feed[pos + 1] /\ getBodyLength(feed[pos + 1]) # -1
    BY <1>c, <1>1, Zenon DEF Write
  <2>4. wpc' = "push" => Whole(pipe')
    BY <2>2, <2>3, EntryType DEF Whole
  <2>5. Queued' = Queued /\ wpc = "read" /\ UNCHANGED <<ppc, buf, pend, msg, need, proc>>
    BY <1>1, <1>u DEF Write
  <2> QED BY <1>i, <2>3, <2>4, <2>5 DEF WriterInv, LengthsInv, ReaderInv, Owed, Waiting, Running
<1>2. CASE WritePush
  <2>1. pipe \in Datagrams /\ Whole(pipe)
    BY <1>2, <1>i DEF IInv, MoreTypes, QueueInv, WritePush, WriterInv
  <2>2. Queued' = Append(Queued, Entry(pipe))
    BY <1>2, <1>t, <2>1, ContentSteps DEF WritePush
  <2>3. pipe # <<>>
    BY <2>1, DoubleAt DEF Whole
  <2>4. wpc = "push" /\ wpc' = "pipe" /\ UNCHANGED <<pipe, ppc, buf, pend, msg, need, proc>>
    BY <1>2 DEF WritePush
  <2>5. Entry(pipe) \in Entries
    BY <2>1 DEF Entries
  <2>6. /\ Len(Queued') = Len(Queued) + 1 /\ Queued'[Len(Queued')] = Entry(pipe)
        /\ Len(Queued) >= 1 => Queued'[1] = Queued[1]
    BY <1>q, <2>2, <2>5, AppendProperties
  <2>7. WriterInv'
    BY <2>1, <2>4, <2>6 DEF WriterInv, Waiting
  <2>8. LengthsInv' /\ (Owed => Len(Queued) >= 1) /\ (Owed <=> Owed')
    BY <1>i, <1>q, <2>3, <2>4, <2>6 DEF LengthsInv, Waiting, Owed
  <2>9. ReaderInv'
    BY <1>i, <2>4, <2>6, <2>8 DEF ReaderInv, Owed
  <2> QED BY <1>i, <2>4, <2>7, <2>8, <2>9 DEF Running
<1>3. CASE WriteReturns \/ ReadEnds \/ StopPipe \/ StopLengths \/ StopReturns
  <2>1. UNCHANGED <<in, buffer, out>>
    BY <1>3 DEF WriteReturns, ReadEnds, StopPipe, StopLengths, StopReturns, Lengths!Stop
  <2>2. /\ UNCHANGED <<pipe, ppc, buf, pend, msg, need, proc>>
        /\ wpc \in {"read", "stop", "lengths", "done"} \/ pipe = <<>>
        /\ wpc' \in {"read", "stop", "lengths", "done", "end"}
    BY <1>3 DEF WriteReturns, ReadEnds, StopPipe, StopLengths, StopReturns
  <2> QED BY <1>i, <1>u, <2>1, <2>2 DEF WriterInv, LengthsInv, ReaderInv, Owed, Waiting, Running
<1>4. CASE Fill
  <2>1. Waiting /\ Whole(pipe) /\ Queued' = Queued
    BY <1>4, <1>i, <1>u DEF Fill, Waiting, WriterInv
  <2>2. ppc = "start" /\ buf = <<>>
    <3>1. CASE ppc \in {"start", "headers"} /\ LineEnd(buf) = 0
      <4>1. Queued[1][1] \in Int \/ ppc # "headers"
        <5>1. ppc = "headers" => Len(Queued) >= 1
          BY <1>i DEF LengthsInv, Owed
        <5>2. ppc = "headers" => Queued[1] \in Entries
          BY <1>q, <5>1
        <5> QED BY <5>2, EntryType
      <4>2. ppc # "headers"
        BY <1>i, <1>t, <3>1, <4>1, SectionNext DEF ReaderInv
      <4>3. buf = <<>>
        BY <1>i, <3>1, <4>2, SectionStart DEF ReaderInv
      <4> QED BY <3>1, <4>2, <4>3
    <3>2. CASE ppc \in {"body", "skip"} /\ Len(buf) < need
      BY <1>i, <1>t, <3>2 DEF ReaderInv
    <3> QED BY <1>4, <3>1, <3>2 DEF Fill, Starved
  <2>3. buf' = pipe /\ pipe' = <<>> /\ UNCHANGED <<ppc, wpc, pend, msg, need, proc>>
    BY <1>4, <1>t, <2>2, ConcatEmptySeq DEF Fill
  <2>4. Len(Queued) = 1 /\ Queued[1] = Entry(pipe)
    BY <1>i, <2>1, <2>2 DEF LengthsInv, WriterInv, Owed
  <2>5. Owed' /\ ~Waiting'
    BY <2>1, <2>2, <2>3 DEF Owed, Waiting
  <2>6. Running' /\ WriterInv' /\ LengthsInv'
    BY <1>i, <2>1, <2>3, <2>4, <2>5 DEF Running, WriterInv, LengthsInv, Waiting
  <2>7. ReaderInv'
    BY <2>1, <2>2, <2>3, <2>4 DEF ReaderInv, Whole
  <2> QED BY <2>6, <2>7
<1>5. CASE ParseStart
  <2>0. ppc = "start" /\ LineEnd(buf) # 0 /\ Queued' = Queued
    BY <1>5, <1>u DEF ParseStart, ParserOnly
  <2>1. buf # <<>>
    <3>1. Len(buf) >= 2
      BY <1>t, <2>0, LineEndType
    <3> QED BY <3>1
  <2>2. Whole(buf) /\ Queued[1] = Entry(buf) /\ Owed
    BY <1>i, <2>0, <2>1 DEF ReaderInv, Owed
  <2>3. buf' = Rest(buf) /\ Clean(buf') /\ Len(buf') = Len(buf) - LineEnd(buf)
    BY <1>5, <1>t, <2>2, RestFacts DEF ParseStart, Rest, Whole
  <2>4. Queued[1][1] = getBodyLength(buf) /\ Queued[1][2] = Len(buf)
    BY <1>t, <2>2, EntryType
  <2>5. msg'.start = LineEnd(buf) - 2
    <3>1. msg' = [NoMsg EXCEPT !.start = Len(Line(buf))]
      BY <1>5, Zenon DEF ParseStart
    <3>2. Len(Line(buf)) = LineEnd(buf) - 2
      BY <1>t, <2>0, LineFacts
    <3> QED BY <3>1, <3>2 DEF NoMsg
  <2>6. ppc' = "headers" \/ (ppc' = "send" /\ pend' = Error("start"))
    BY <1>5, Zenon DEF ParseStart
  <2>7. Owed' /\ UNCHANGED <<wpc, pipe, proc>>
    BY <1>5, <2>6 DEF Owed, ParseStart, ParserOnly
  <2>8. Section(buf', Queued'[1][1])
    BY <2>0, <2>2, <2>3, <2>4, SectionStart
  <2>9. Queued'[1][2] = Len(buf') + msg'.start + 2
    <3>1. Len(buf) \in Nat /\ LineEnd(buf) \in Nat
      BY <1>t, LineEndType
    <3> QED BY <2>0, <2>3, <2>4, <2>5, <3>1
  <2>10. WriterInv' /\ LengthsInv' /\ Running'
    BY <1>i, <2>0, <2>2, <2>7 DEF WriterInv, LengthsInv, Running, Waiting
  <2>11. ReaderInv'
    BY <2>3, <2>6, <2>8, <2>9 DEF ReaderInv
  <2> QED BY <2>10, <2>11
<1>6. CASE ParseHeaderLine
  <2>0. ppc = "headers" /\ LineEnd(buf) # 0 /\ Queued' = Queued
    BY <1>6, <1>u DEF ParseHeaderLine, ParserOnly
  <2>1. Owed /\ Len(Queued) >= 1
    BY <1>i, <2>0 DEF Owed, LengthsInv
  <2>2. Queued[1][1] \in Int
    BY <1>q, <2>1, EntryType
  <2>3. Clean(buf) /\ Section(buf, Queued[1][1])
    BY <1>i, <2>0 DEF ReaderInv
  <2>4. buf' = Rest(buf) /\ Clean(buf')
    BY <1>6, <1>t, <2>3, RestFacts DEF ParseHeaderLine, Rest
  <2>5. /\ Line(buf) = <<>> => Len(buf') = Queued[1][1]
        /\ Line(buf) # <<>> => Section(buf', Queued[1][1])
    BY <1>t, <2>2, <2>3, <2>4, SectionNext
  <2>6. \/ Line(buf) = <<>> /\ ppc' = "length"
        \/ Line(buf) # <<>> /\ ppc' = "headers"
    BY <1>6, <2>0 DEF ParseHeaderLine
  <2>7. Owed' /\ UNCHANGED <<wpc, pipe, proc>>
    BY <1>6, <2>6 DEF Owed, ParseHeaderLine, ParserOnly
  <2>8. WriterInv' /\ LengthsInv' /\ Running'
    BY <1>i, <2>0, <2>1, <2>7 DEF WriterInv, LengthsInv, Running, Waiting
  <2>9. ReaderInv'
    BY <2>0, <2>4, <2>5, <2>6 DEF ReaderInv
  <2> QED BY <2>8, <2>9
<1>7. CASE LineFails
  <2>1. ppc \in {"start", "headers"} /\ LineEnd(buf) = 0 /\ Queued' = Queued
    BY <1>7, <1>u DEF LineFails, ParserOnly
  <2>2. ppc = "headers" => Len(Queued) >= 1
    BY <1>i DEF LengthsInv, Owed
  <2>3. ppc = "headers" => Queued[1][1] \in Int
    BY <1>q, <2>2, EntryType
  <2>4. ppc = "start" /\ buf = <<>>
    <3>1. ppc # "headers"
      BY <1>i, <1>t, <2>1, <2>3, SectionNext DEF ReaderInv
    <3>2. buf = <<>>
      BY <1>i, <2>1, <3>1, SectionStart DEF ReaderInv
    <3> QED BY <2>1, <3>1, <3>2
  <2>5. ppc' = "end" /\ buf' = <<>> /\ UNCHANGED <<wpc, pipe, proc>>
    BY <1>7, <2>4 DEF LineFails, ParserOnly
  <2>6. ~Owed /\ ~Owed' /\ Clean(buf')
    BY <1>i, <2>4, <2>5 DEF Owed, ReaderInv
  <2> QED BY <1>i, <2>1, <2>5, <2>6 DEF WriterInv, LengthsInv, ReaderInv, Running, Waiting
<1>8. CASE ContentLength
  BY <1>c, <1>8 DEF ContentLength
<1>9. CASE TakeLength
  <2>1. /\ Queued # <<>> /\ Queued[1] = Head(out) /\ Queued' = Tail(Queued)
    BY <1>9, <1>t, ContentSteps DEF TakeLength
  <2>2. /\ ppc \in {"length", "skipLength"} /\ UNCHANGED <<msg, pend, buf, wpc, pipe, proc>>
        /\ ppc = "length" => ppc' = "body" /\ need' = Head(out)[1] - 0
        /\ ppc = "skipLength" => ppc' = "skip" /\ need' = Head(out)[2] - (msg.start + 2)
    BY <1>9 DEF TakeLength
  <2>3. need' = Len(buf)
    <3>1. Queued[1] \in Entries
      BY <1>q, <2>1
    <3>2. Head(out)[1] \in Int /\ Head(out)[2] \in Int /\ msg.start \in Nat /\ Len(buf) \in Nat
      BY <1>t, <2>1, <3>1, EntryType
    <3>3. /\ ppc = "length" => Head(out)[1] = Len(buf)
          /\ ppc = "skipLength" => Head(out)[2] = Len(buf) + msg.start + 2
      BY <1>i, <2>1 DEF ReaderInv
    <3> QED BY <2>2, <3>2, <3>3
  <2>4. Owed /\ ~Owed' /\ (Waiting <=> Waiting')
    BY <2>2 DEF Owed, Waiting
  <2>5. Len(Queued') = Len(Queued) - 1 /\ \A i \in 1 .. Len(Queued') : Queued'[i] = Queued[i + 1]
    BY <1>q, <2>1, HeadTailProperties
  <2>6. LengthsInv' /\ Running'
    BY <1>i, <1>q, <2>2, <2>4, <2>5 DEF LengthsInv, Running
  <2>7. WriterInv'
    <3>1. ASSUME Waiting' PROVE Queued'[Len(Queued')] = Entry(pipe)
      <4>1. Waiting /\ Len(Queued) = 2 /\ Len(Queued') = 1 /\ Queued'[1] = Queued[1 + 1]
        BY <1>i, <1>q, <2>4, <2>5, <3>1 DEF LengthsInv
      <4>2. Queued[2] = Entry(pipe)
        BY <1>i, <4>1 DEF WriterInv
      <4> QED BY <4>1, <4>2
    <3> QED BY <1>i, <2>2, <2>4, <3>1 DEF WriterInv
  <2>8. ReaderInv'
    BY <1>i, <2>2, <2>3 DEF ReaderInv
  <2> QED BY <2>6, <2>7, <2>8
<1>10. CASE NextChunk
  <2>1. /\ ppc \in {"body", "skip"} /\ Queued' = Queued
        /\ UNCHANGED <<msg, need, wpc, pipe>>
    BY <1>10, <1>u DEF NextChunk
  <2>2. need = Len(buf) /\ Len(buf) \in Nat
    BY <1>i, <1>t, <2>1 DEF ReaderInv
  <2>3. /\ buf' = SubSeq(buf, need + 1, Len(buf)) /\ proc' = proc
        /\ \/ ppc' = "start" /\ pend' = pend
           \/ ppc' = "send" /\ pend' = Message(msg, SubSeq(buf, 1, need))
    BY <1>10, <2>2 DEF NextChunk
  <2>4. buf' = <<>>
    BY <2>2, <2>3, SubSeqEmpty
  <2>5. Message(msg, SubSeq(buf, 1, need)) # Error("start")
    BY DEF Message, Error
  <2>6. ~Owed /\ ~Owed' /\ Clean(buf')
    <3>1. ~Owed
      BY <2>1 DEF Owed
    <3>2. ~Owed'
      <4>1. ppc' = "send" => pend' # Error("start")
        BY <2>3, <2>5
      <4> QED BY <2>3, <2>4, <4>1 DEF Owed
    <3>3. Clean(buf')
      BY <2>4 DEF Clean
    <3> QED BY <3>1, <3>2, <3>3
  <2>7. WriterInv' /\ LengthsInv' /\ Running'
    BY <1>i, <2>1, <2>3, <2>6 DEF WriterInv, LengthsInv, Running, Waiting
  <2>8. ReaderInv'
    BY <2>3, <2>4, <2>5, <2>6 DEF ReaderInv
  <2> QED BY <2>7, <2>8
<1>11. CASE Emit
  <2>1. /\ ppc = "send" /\ Queued' = Queued
        /\ UNCHANGED <<wpc, pipe, buf, msg, need, proc>>
    BY <1>11, <1>u DEF Emit
  <2>2. /\ pend = Error("start") => ppc' = "skipLength"
        /\ pend # Error("start") => ppc' = "start"
    BY <1>11, <1>c DEF Emit
  <2>3. pend # Error("start") => buf = <<>>
    BY <1>i, <2>1 DEF ReaderInv
  <2>4. Owed <=> Owed'
    BY <2>1, <2>2, <2>3 DEF Owed
  <2>5. WriterInv' /\ LengthsInv' /\ Running'
    BY <1>i, <2>1, <2>4 DEF WriterInv, LengthsInv, Running, Waiting
  <2>6. ReaderInv'
    BY <1>i, <2>1, <2>2, <2>3 DEF ReaderInv
  <2> QED BY <2>5, <2>6
<1>12. CASE CloseHandler \/ ServerReturns \/ UNCHANGED vars
  <2>1. Queued' = Queued /\ UNCHANGED <<wpc, pipe, buf, ppc, msg, need, pend, proc>>
    BY <1>12, <1>u DEF CloseHandler, ServerReturns, vars
  <2> QED BY <1>i, <2>1 DEF WriterInv, LengthsInv, ReaderInv, Owed, Waiting, Running
<1>13. CASE ManageLengths
  <2>1. Queued' = Queued
    BY <1>13, <1>t, <1>u, ContentSteps DEF ManageLengths, Lengths!Manage, Lengths!ManageClosed
  <2>2. UNCHANGED <<wpc, pipe, buf, ppc, msg, need, pend, proc>>
    BY <1>13 DEF ManageLengths
  <2> QED BY <1>i, <2>1, <2>2 DEF WriterInv, LengthsInv, ReaderInv, Owed, Waiting, Running
<1> QED BY <1>1, <1>2, <1>3, <1>4, <1>5, <1>6, <1>7, <1>8, <1>9, <1>10, <1>11, <1>12, <1>13
        DEF Next, WriteSteps, StopSteps, Parse

-----------------------------------------------------------------------------
(* The theorems.                                                           *)

\* The inductive invariant holds in every reachable state, for every stream however
\* it is cut, every sequence of datagrams and every capacity of the channels.
THEOREM Inductive == Spec => []IInv
<1>1. IInv /\ [Next]_vars => IInv'
  BY TypeStep, CutStep, StreamedStep, DatagramStep DEF IInv
<1> QED BY <1>1, InitInv, PTL DEF Spec

\* parse is in step with bodyLengths: at a start line the buffer is one datagram and
\* its entry the oldest, NextChunk is never asked for a negative number of bytes
\* (unless a CR came without its LF), and a message that was cut in its headers is
\* passed up only when the connection ended behind a Content-Length of zero.
THEOREM BufferIsSound == Spec => []BufferSound
<1>1. IInv => BufferSound
  <2> SUFFICES ASSUME IInv PROVE BufferSound
    OBVIOUS
  <2>1. TypeOK /\ WholeMessages
    BY DEF IInv, CutInv
  <2>2. InStep
    <3> SUFFICES ASSUME ~streamed, CleanInput(streamed, Fed)
                 PROVE  /\ ppc = "start" /\ buf = <<>> =>
                             Len(Queued) = IF wpc = "pipe" /\ pipe # <<>> THEN 1 ELSE 0
                        /\ Len(Queued) <= 2
                        /\ ppc = "start" /\ buf # <<>> => Head(Queued)[2] = Len(buf)
      BY DEF InStep, Queued
    <3>1. WriterInv /\ LengthsInv /\ ReaderInv /\ buf \in Seq(Bytes) /\ ChanType
      BY DEF IInv, DatagramInv, MoreTypes, QueueInv
    <3>2. Queued \in Seq(Entries)
      BY <3>1, ContentSteps
    <3>3. ASSUME ppc = "start", buf # <<>> PROVE Head(Queued)[2] = Len(buf)
      <4>1. Queued[1] = Entry(buf) /\ Len(Queued) >= 1
        BY <3>1, <3>3 DEF ReaderInv, LengthsInv, Owed
      <4>2. Head(Queued) = Queued[1]
        BY <3>2, <4>1
      <4> QED BY <3>1, <4>1, <4>2, EntryType
    <3>4. Len(Queued) <= 2
      BY <3>1 DEF LengthsInv
    <3>5. ASSUME ppc = "start", buf = <<>>
          PROVE  Len(Queued) = IF wpc = "pipe" /\ pipe # <<>> THEN 1 ELSE 0
      BY <3>1, <3>5 DEF LengthsInv, Owed, Waiting
    <3> QED BY <3>3, <3>4, <3>5
  <2>3. NoPanic
    BY DEF IInv, StreamedInv, DatagramInv, NoPanic
  <2> QED BY <2>1, <2>2, <2>3 DEF BufferSound
<1> QED BY <1>1, Inductive, PTL
=============================================================================
