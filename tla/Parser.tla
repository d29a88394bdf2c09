------------------------------- MODULE Parser -------------------------------
(***************************************************************************)
(* The SIP parser of a connection (src/sip/parser.go), its buffer          *)
(* (parserbuffer.go), its queue of body lengths (ElasticChan), and the two *)
(* goroutines it works between: the handler's reader, which writes what it *)
(* reads from the network and in the end stops the parser, and the         *)
(* handler's server, which receives the results until it is canceled.      *)
(*                                                                         *)
(* Input is a sequence of bytes, abstracted to what the parser tells       *)
(* apart:  "CR" and "LF";  "S", text of a well-formed start line;  "H",    *)
(* text of a header;  "L0", "L1", "L2", text of a Content-Length header;   *)
(* "W", text that begins with white space;  "X", any other text.           *)
(***************************************************************************)
EXTENDS Integers, Sequences, SequencesExt

CONSTANTS Streams,    \* what a peer may send over a stream: sequences of bytes
          Datagrams,  \* what a peer may send in one datagram
          MaxDatagrams, \* bound: number of datagrams
          ChanSize    \* capacity of the channels of bodyLengths

Bytes == {"CR", "LF", "S", "H", "L0", "L1", "L2", "W", "X"}

ASSUME ParserAssumption ==
    /\ ChanSize \in Nat \ {0} /\ MaxDatagrams \in Nat
    /\ Streams \subseteq Seq(Bytes) /\ Datagrams \subseteq Seq(Bytes)

VARIABLES
    streamed, \* p.streamed
    feed,     \* all the peer sends: bytes if streamed, datagrams if not
    pos,      \* how much of it has been given to Write
    wpc,      \* the reader: "read", "push", "pipe", "stop", "lengths", "done", "end"
    pipe,     \* io.Pipe: the bytes of the current Write that are not read yet
    buf,      \* bufio.Reader: bytes read from the pipe and not consumed
    ppc,      \* where parse is
    msg,      \* the message being parsed
    hbuf,     \* flushBuffer's buffer: the header line in progress
    need,     \* how many bytes NextChunk is asked for
    pend,     \* the result parse is sending to output or errs
    results,  \* the results the server received
    server,   \* "up", or "gone": ConnectionServer has returned
    cancel,   \* handler.cancel is closed
    proc,     \* "up", or "panic"
    in, buffer, out, closed, mgr   \* p.bodyLengths

chanVars == <<in, buffer, out, closed, mgr>>
srcVars  == <<streamed, feed>>
prsVars  == <<ppc, msg, hbuf, need, pend>>
srvVars  == <<results, server, cancel>>
vars == <<srcVars, pos, wpc, pipe, buf, prsVars, srvVars, proc, chanVars>>

CR == "CR"
LF == "LF"
ContentLengths == [L0 |-> 0, L1 |-> 1, L2 |-> 2]

-----------------------------------------------------------------------------
(* What is done to bytes.                                                  *)

\* The CRs of b that end at i are odd in number.
OddCRs(b, i) ==
    \E k \in 1 .. i : /\ \A j \in k .. i : b[j] = CR
                      /\ k = 1 \/ b[k - 1] # CR
                      /\ (i - k) % 2 = 0

LineEnds(b) == {i \in 2 .. Len(b) : b[i] = LF /\ OddCRs(b, i - 1)}

\* NextLine: the index of the LF that ends the first line of b, 0 if there is
\* none yet.  NextLine reads up to a CR and then one byte, whatever it is: a CR
\* after a CR is consumed with it, and a LF ends the line after an odd number of
\* CRs only (CR CR LF is no line end).
LineEnd(b) == IF LineEnds(b) = {} THEN 0 ELSE Min(LineEnds(b))

Line(b) == SubSeq(b, 1, LineEnd(b) - 2)

\* Bytes i to i+3 of d are the CR LF CR LF that getBodyLength looks for.
DoubleCRLF(d) == {i \in 1 .. Len(d) - 3 : SubSeq(d, i, i + 3) = <<CR, LF, CR, LF>>}

getBodyLength(d) ==
    IF DoubleCRLF(d) = {} THEN -1
    ELSE Len(d) - (Min(DoubleCRLF(d)) + 3)

\* What Write queues for a datagram: []int{bl, len(data)}.
Entry(d) == <<getBodyLength(d), Len(d)>>

Lengths == INSTANCE ElasticChan WITH Values <- {Entry(d) : d \in Datagrams}

\* isRequest / isResponse and ParseRequestLine / ParseStatusLine succeed.
IsStartLine(line) == line # <<>> /\ line[1] = "S"

IsContinuation(line) == line[1] = "W"

\* ParseHeader: a field name and a colon; a Content-Length must be a number
\* once white space around it is trimmed.
IsHeader(h) ==
    \/ h[1] \in {"H", "S"}
    \/ h[1] \in DOMAIN ContentLengths /\ \A i \in 2 .. Len(h) : h[i] \in {CR, LF}

\* The places of the Content-Length headers in a list, and what the only one says.
LengthHeaders(hs) == {i \in DOMAIN hs : hs[i][1] \in DOMAIN ContentLengths}
OneLength(hs)     == \E i \in LengthHeaders(hs) : LengthHeaders(hs) = {i}
TheLength(hs)     == ContentLengths[hs[CHOOSE i \in LengthHeaders(hs) : TRUE][1]]

\* The end of parse: a body of white space only is not stored.
Body(b) == IF \A i \in DOMAIN b : b[i] \in {CR, LF, "W"} THEN <<>> ELSE b

Message(m, body) == [kind |-> "msg", headers |-> m.headers, body |-> Body(body)]
Error(why)       == [kind |-> "err", why |-> why]

NoMsg == [headers |-> <<>>, start |-> 0, ended |-> FALSE]
None  == [kind |-> "none"]

-----------------------------------------------------------------------------
\* NewParser, by a handler whose connection is streamed or not.
Init ==
    /\ streamed \in BOOLEAN
    /\ feed \in IF streamed THEN Streams ELSE SeqOf(Datagrams, MaxDatagrams)
    /\ pos = 0 /\ wpc = "read"
    /\ pipe = <<>> /\ buf = <<>>
    /\ ppc = "start" /\ msg = NoMsg /\ hbuf = <<>> /\ need = 0 /\ pend = None
    /\ results = <<>> /\ server = "up" /\ cancel = FALSE
    /\ proc = "up"
    /\ Lengths!ChanInit(~streamed)

Running    == proc = "up"
PipeClosed == wpc \in {"lengths", "done", "end"}

-----------------------------------------------------------------------------
(* The reader: Write and Stop.                                             *)

\* Mutant of Write: a datagram without a body is dropped too.
Write_DropsBodyless(n) ==
    /\ Running /\ wpc = "read" /\ ~cancel /\ pos + n <= Len(feed)
    /\ pos' = pos + n
    /\ IF streamed
       THEN pipe' = SubSeq(feed, pos + 1, pos + n) /\ wpc' = "pipe"
       ELSE /\ n = 1
            /\ pipe' = IF getBodyLength(feed[pos + 1]) < 1 THEN <<>> ELSE feed[pos + 1]
            /\ wpc' = IF getBodyLength(feed[pos + 1]) < 1 THEN "read" ELSE "push"
    /\ UNCHANGED <<srcVars, buf, prsVars, srvVars, proc, chanVars>>

\* Write of the next n bytes, or of the next datagram.  A datagram without a
\* double CR LF is dropped without an error.
Write(n) ==
    /\ Running /\ wpc = "read" /\ ~cancel /\ pos + n <= Len(feed)
    /\ pos' = pos + n
    /\ IF streamed
       THEN pipe' = SubSeq(feed, pos + 1, pos + n) /\ wpc' = "pipe"
       ELSE /\ n = 1
            /\ pipe' = IF getBodyLength(feed[pos + 1]) = -1 THEN <<>> ELSE feed[pos + 1]
            /\ wpc' = IF getBodyLength(feed[pos + 1]) = -1 THEN "read" ELSE "push"
    /\ UNCHANGED <<srcVars, buf, prsVars, srvVars, proc, chanVars>>

\* p.bodyLengths.In <- []int{bl, len(data)}
WritePush ==
    /\ Running /\ wpc = "push"
    /\ Lengths!Send(Entry(pipe))
    /\ wpc' = "pipe"
    /\ UNCHANGED <<srcVars, pos, pipe, buf, prsVars, srvVars, proc>>

\* The pipe has been read to its end: Write returns.
WriteReturns ==
    /\ Running /\ wpc = "pipe" /\ pipe = <<>>
    /\ wpc' = "read"
    /\ UNCHANGED <<srcVars, pos, pipe, buf, prsVars, srvVars, proc, chanVars>>

\* The connection broke or was closed: the reader's deferred function closes
\* the handler and calls Stop.
ReadEnds ==
    /\ Running /\ wpc = "read"
    /\ wpc' = "stop" /\ cancel' = TRUE
    /\ UNCHANGED <<srcVars, pos, pipe, buf, prsVars, results, server, proc, chanVars>>

\* Mutant of StopPipe: the queue of body lengths is not stopped.
StopPipe_KeepsLengths ==
    /\ Running /\ wpc = "stop"
    /\ wpc' = IF streamed THEN "done" ELSE "lengths"
    /\ UNCHANGED <<srcVars, pos, pipe, buf, prsVars, srvVars, proc, chanVars>>

\* Stop closes the pipe's reading end, then the queue of body lengths, and
\* waits for both goroutines.
StopPipe ==
    /\ Running /\ wpc = "stop"
    /\ wpc' = IF streamed THEN "done" ELSE "lengths"
    /\ IF streamed THEN UNCHANGED chanVars ELSE Lengths!Stop
    /\ UNCHANGED <<srcVars, pos, pipe, buf, prsVars, srvVars, proc>>

StopLengths ==
    /\ Running /\ wpc = "lengths" /\ mgr = "done"
    /\ wpc' = "done"
    /\ UNCHANGED <<srcVars, pos, pipe, buf, prsVars, srvVars, proc, chanVars>>

StopReturns ==
    /\ Running /\ wpc = "done" /\ ppc = "end"
    /\ wpc' = "end"
    /\ UNCHANGED <<srcVars, pos, pipe, buf, prsVars, srvVars, proc, chanVars>>

-----------------------------------------------------------------------------
(* parse.                                                                  *)

ParserOnly == UNCHANGED <<srcVars, pos, wpc, pipe, srvVars, proc, chanVars>>

\* What parse waits for is not in the bufio buffer.
Starved == \/ ppc \in {"start", "headers"} /\ LineEnd(buf) = 0
           \/ ppc \in {"body", "skip"} /\ Len(buf) < need

\* bufio reads the pipe.
Fill ==
    /\ Running /\ Starved /\ wpc = "pipe" /\ pipe # <<>>
    /\ buf' = buf \o pipe /\ pipe' = <<>>
    /\ UNCHANGED <<srcVars, pos, wpc, prsVars, srvVars, proc, chanVars>>

\* The loop's first step: the start line.
ParseStart ==
    /\ Running /\ ppc = "start" /\ LineEnd(buf) # 0
    /\ LET line == Line(buf) IN
         IF IsStartLine(line)
         THEN /\ ppc' = "headers"
              /\ msg' = [NoMsg EXCEPT !.start = Len(line)] /\ UNCHANGED pend
         ELSE /\ ppc' = "send" /\ pend' = Error("start")
              /\ msg' = [NoMsg EXCEPT !.start = Len(line)]
    /\ buf' = SubSeq(buf, LineEnd(buf) + 1, Len(buf))
    /\ hbuf' = <<>>
    /\ UNCHANGED need /\ ParserOnly

\* flushBuffer.
Flushed == IF hbuf # <<>> /\ IsHeader(hbuf) THEN Append(msg.headers, hbuf) ELSE msg.headers

\* Mutant of ParseHeaderLine: a continuation line starts a header of its own.
ParseHeaderLine_NoFolding ==
    /\ Running /\ ppc = "headers" /\ LineEnd(buf) # 0
    /\ LET line == Line(buf) IN
         /\ msg' = [msg EXCEPT !.headers = Flushed, !.ended = line = <<>>]
         /\ hbuf' = line
         /\ ppc' = IF line = <<>> THEN "length" ELSE "headers"
    /\ buf' = SubSeq(buf, LineEnd(buf) + 1, Len(buf))
    /\ UNCHANGED <<need, pend>> /\ ParserOnly

\* One line of the header section: the empty line ends it, a line that does not
\* begin with white space starts a header, one that does continues a header.
ParseHeaderLine ==
    /\ Running /\ ppc = "headers" /\ LineEnd(buf) # 0
    /\ LET line == Line(buf) IN
         IF line # <<>> /\ IsContinuation(line)
         THEN /\ hbuf' = IF hbuf = <<>> THEN hbuf ELSE hbuf \o line
              /\ UNCHANGED <<msg, ppc>>
         ELSE /\ msg' = [msg EXCEPT !.headers = Flushed, !.ended = line = <<>>]
              /\ hbuf' = line
              /\ ppc' = IF line = <<>> THEN "length" ELSE "headers"
    /\ buf' = SubSeq(buf, LineEnd(buf) + 1, Len(buf))
    /\ UNCHANGED <<need, pend>> /\ ParserOnly

\* NextLine fails once the pipe is closed and nothing more is buffered: the
\* loop over messages ends, the loop over header lines goes on to the body
\* with the headers it has.
LineFails ==
    /\ Running /\ PipeClosed /\ ppc \in {"start", "headers"} /\ LineEnd(buf) = 0
    /\ ppc' = IF ppc = "start" THEN "end" ELSE "length"
    /\ buf' = <<>>
    /\ UNCHANGED <<msg, hbuf, need, pend>> /\ ParserOnly

\* Streamed: the length of the body is that of the one Content-Length header.
ContentLength ==
    /\ Running /\ streamed /\ ppc = "length"
    /\ IF OneLength(msg.headers)
       THEN ppc' = "body" /\ need' = TheLength(msg.headers) /\ UNCHANGED pend
       ELSE ppc' = "send" /\ pend' = Error("length") /\ UNCHANGED need
    /\ UNCHANGED <<msg, hbuf, buf>> /\ ParserOnly

\* Mutant of TakeLength: a datagram with a bad start line keeps its entry.
TakeLength_NotForSkip ==
    /\ Running /\ ~streamed /\ ppc \in {"length", "skipLength"} /\ out # <<>>
    /\ need' = Head(out)[IF ppc = "length" THEN 1 ELSE 2]
                 - IF ppc = "length" THEN 0 ELSE msg.start + 2
    /\ ppc' = IF ppc = "length" THEN "body" ELSE "skip"
    /\ IF ppc = "length" THEN Lengths!Receive ELSE UNCHANGED chanVars
    /\ UNCHANGED <<msg, hbuf, pend, buf, srcVars, pos, wpc, pipe, srvVars, proc>>

\* Not streamed: the oldest entry of bodyLengths, for the body or, after a bad
\* start line, for the rest of the datagram.
TakeLength ==
    /\ Running /\ ~streamed /\ ppc \in {"length", "skipLength"}
    /\ Lengths!Receive
    /\ need' = Head(out)[IF ppc = "length" THEN 1 ELSE 2]
                 - IF ppc = "length" THEN 0 ELSE msg.start + 2
    /\ ppc' = IF ppc = "length" THEN "body" ELSE "skip"
    /\ UNCHANGED <<msg, hbuf, pend, buf, srcVars, pos, wpc, pipe, srvVars, proc>>

\* NextChunk: make of a negative length panics.
NextChunk ==
    /\ Running /\ ppc \in {"body", "skip"}
    /\ \/ /\ need < 0 /\ proc' = "panic"
          /\ UNCHANGED <<ppc, pend, buf>>
       \/ /\ need >= 0 /\ Len(buf) >= need /\ UNCHANGED proc
          /\ buf' = SubSeq(buf, need + 1, Len(buf))
          /\ IF ppc = "skip" THEN ppc' = "start" /\ UNCHANGED pend
             ELSE ppc' = "send" /\ pend' = Message(msg, SubSeq(buf, 1, need))
       \/ /\ need > Len(buf) /\ PipeClosed /\ UNCHANGED proc
          /\ buf' = <<>>
          /\ IF ppc = "skip" THEN ppc' = "start" /\ UNCHANGED pend
             ELSE ppc' = "send" /\ pend' = Error("body")
    /\ UNCHANGED <<msg, hbuf, need, srcVars, pos, wpc, pipe, srvVars, chanVars>>

\* p.output <- msg and p.errs <- err: the server receives.
Emit ==
    /\ Running /\ ppc = "send" /\ server = "up"
    /\ results' = Append(results, pend)
    /\ pend' = None
    /\ ppc' = IF pend = Error("start") /\ ~streamed THEN "skipLength" ELSE "start"
    /\ UNCHANGED <<srcVars, pos, wpc, pipe, buf, msg, hbuf, need, server, cancel,
                   proc, chanVars>>

-----------------------------------------------------------------------------
\* Somebody closes the handler; ConnectionServer then returns.
CloseHandler ==
    /\ Running /\ ~cancel
    /\ cancel' = TRUE
    /\ UNCHANGED <<srcVars, pos, wpc, pipe, buf, prsVars, results, server, proc, chanVars>>

ServerReturns ==
    /\ Running /\ cancel /\ server = "up"
    /\ server' = "gone"
    /\ UNCHANGED <<srcVars, pos, wpc, pipe, buf, prsVars, results, cancel, proc, chanVars>>

ManageLengths ==
    /\ Running /\ Lengths!Manage
    /\ UNCHANGED <<srcVars, pos, wpc, pipe, buf, prsVars, srvVars, proc>>

Parse == \/ Fill \/ ParseStart \/ ParseHeaderLine \/ LineFails \/ ContentLength
         \/ TakeLength \/ NextChunk

WriteSteps == WritePush \/ WriteReturns \/ (\E n \in 1 .. Len(feed) : Write(n))
StopSteps  == StopPipe \/ StopLengths \/ StopReturns

Next == \/ WriteSteps \/ ReadEnds \/ StopSteps \/ Parse \/ Emit
        \/ CloseHandler \/ ServerReturns \/ ManageLengths

\* All goroutines run.  The peer's bytes arrive; nothing obliges it to close
\* the connection, or anybody to close the handler.
Fairness ==
    /\ WF_vars(WriteSteps) /\ WF_vars(StopSteps) /\ WF_vars(Parse)
    /\ WF_vars(Emit) /\ WF_vars(ManageLengths)
    /\ WF_vars(cancel /\ ReadEnds)

Spec == Init /\ [][Next]_vars /\ Fairness

-----------------------------------------------------------------------------
(* The reference: what a reader of the whole input would say.              *)

\* The first CR LF of s at or after i, 0 if there is none.
CRLF(s, i) ==
    LET at == {j \in i .. Len(s) - 1 : s[j] = CR /\ s[j + 1] = LF}
    IN IF at = {} THEN 0 ELSE Min(at)

\* The lines of a header section.
Lines(s) ==
    LET from[i \in 1 .. Len(s) + 1] ==
          IF i > Len(s) THEN <<>>
          ELSE <<SubSeq(s, i, CRLF(s, i) - 1)>> \o from[CRLF(s, i) + 2]
    IN from[1]

\* A header is a line that does not begin with white space, with the lines
\* after it that do.
HeadersOf(s) ==
    LET ls   == Lines(s)
        Until(i) == CHOOSE j \in i .. Len(ls) :
                     /\ \A k \in i + 1 .. j : IsContinuation(ls[k])
                     /\ j = Len(ls) \/ ~IsContinuation(ls[j + 1])
        hs == [i \in DOMAIN ls |->
                 IF IsContinuation(ls[i]) THEN <<>> ELSE FlattenSeq(SubSeq(ls, i, Until(i)))]
    IN SelectSeq(hs, LAMBDA h : h # <<>> /\ IsHeader(h))

\* A message: start line, header section, and n bytes of body after the empty
\* line at d.
MessageAt(s, e, d, n) ==
    Message([headers |-> HeadersOf(SubSeq(s, e + 2, d + 1))], SubSeq(s, d + 4, d + 3 + n))

\* A datagram is one message, or one error; without an empty line it is nothing.
DatagramResults(d) ==
    IF DoubleCRLF(d) = {} THEN <<>>
    ELSE LET e == CRLF(d, 1)
             b == Min(DoubleCRLF(d))
         IN IF IsStartLine(SubSeq(d, 1, e - 1))
            THEN <<MessageAt(d, e, b, Len(d) - b - 3)>> ELSE <<Error("start")>>

\* A stream is cut by the Content-Length of its messages; after an error the
\* next line is a start line again.
StreamResults(s) ==
    LET from[i \in 1 .. Len(s) + 1] ==
          LET e    == CRLF(s, i)
              ends == {j \in DoubleCRLF(s) : j >= e}
              d    == Min(ends)
              hs   == HeadersOf(SubSeq(s, e + 2, d + 1))
              n    == TheLength(hs)
          IN IF e = 0 THEN <<>>
             ELSE IF ~IsStartLine(SubSeq(s, i, e - 1)) THEN <<Error("start")>> \o from[e + 2]
             ELSE IF ends = {} THEN <<>>
             ELSE IF ~OneLength(hs) THEN <<Error("length")>> \o from[d + 4]
             ELSE IF d + 3 + n > Len(s) THEN <<>>
             ELSE <<MessageAt(s, e, d, n)>> \o from[d + 4 + n]
    IN from[1]

Reference(st, f) == IF st THEN StreamResults(f)
                    ELSE FlattenSeq([i \in DOMAIN f |-> DatagramResults(f[i])])

\* Every CR is the CR of a line end: the input NextLine and getBodyLength agree on.
Clean(b) == \A i \in 1 .. Len(b) - 1 : b[i] = CR => b[i + 1] = LF
CleanInput(st, f) == IF st THEN Clean(f) ELSE \A i \in DOMAIN f : Clean(f[i])

Fed == SubSeq(feed, 1, pos)

Stream == INSTANCE MessageStream WITH
            fed <- Fed, got <- results, stopped <- wpc \in {"stop", "lengths", "done", "end"},
            Reference <- Reference, Trusted <- CleanInput

-----------------------------------------------------------------------------
(* Properties.                                                             *)

\* The type invariant.
TypeOK ==
    /\ streamed \in BOOLEAN /\ pos \in 0 .. Len(feed)
    /\ wpc \in {"read", "push", "pipe", "stop", "lengths", "done", "end"}
    /\ ppc \in {"start", "headers", "length", "skipLength", "body", "skip", "send", "end"}
    /\ need \in Int
    /\ pend.kind \in {"none", "msg", "err"} /\ (pend.kind = "none" <=> ppc # "send")
    /\ server \in {"up", "gone"} /\ cancel \in BOOLEAN /\ proc \in {"up", "panic"}
    /\ mgr \in {"idle", "loop", "dispose", "done"}

\* However the reads cut a stream, and whatever a datagram holds, the handler
\* gets exactly the results of the reference, in order (parser.go parse, Write).
ImplementsStream == Stream!Spec

\* bodyLengths is a FIFO queue.
LengthsAreFifo == Lengths!ImplementsFifo

\* Between datagrams the queue of body lengths and the byte buffer agree: parse
\* at a start line has as many datagrams before it as entries are queued, so
\* that no datagram is cut by the length of another; at most one is waiting
\* (parser.go:239, 330, 432).  It needs every CR to be followed by LF.
InStep ==
    ~streamed /\ CleanInput(streamed, Fed) /\ Running =>
      LET queued == Lengths!Content IN
        /\ ppc = "start" /\ buf = <<>> =>
             Len(queued) = IF wpc = "pipe" /\ pipe # <<>> THEN 1 ELSE 0
        /\ Len(queued) <= 2
        /\ ppc = "start" /\ buf # <<>> => Head(queued)[2] = Len(buf)

\* NextChunk is never asked for a negative number of bytes.
NoPanic == CleanInput(streamed, Fed) => Running

\* A message with a cut header section is passed up only when the connection
\* ended inside it after its Content-Length of zero (parser.go:366, 430).
WholeMessages ==
    pend.kind = "msg" /\ ~msg.ended => PipeClosed /\ pend.body = <<>> /\ need = 0

\* The parser, its buffer and the queue agree in every state.
BufferSound == TypeOK /\ InStep /\ NoPanic /\ WholeMessages

\* While the handler is open every result of the input reaches it.
AllDelivered ==
    <>(\/ cancel \/ ~Running \/ ~CleanInput(streamed, feed)
       \/ pos = Len(feed) /\ results = Reference(streamed, feed))

\* Stop returns, unless parse has a result for a server that has returned, or
\* entries of bodyLengths are left that nobody takes.
StopEnds ==
    wpc = "stop" ~> \/ wpc = "end" \/ ~Running
                    \/ server = "gone" /\ ppc = "send"
                    \/ ~CleanInput(streamed, Fed)

=============================================================================
