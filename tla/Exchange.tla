------------------------------ MODULE Exchange ------------------------------
(***************************************************************************)
(* What two ends of the library say to each other: the requests and the    *)
(* responses that src/sip and the service build, and the keys under which  *)
(* src/transaction/tx.go finds their transactions again.  One end (UAC)    *)
(* makes a REGISTER or an INVITE, edits its headers, sends it, answers a   *)
(* challenge, acknowledges and hangs up; the other (UAS) answers.          *)
(* The network may lose, repeat and reorder: it is the set of all messages *)
(* ever sent, any of which may arrive at any time.                         *)
(* A message is a record [kind, method, status, hs, body]; the values of   *)
(* hs that matter are                                                      *)
(*   via   the top hop [branch, cookie, host, tp];  cseq  [no, method];    *)
(*   from, to   the tag (0: none);  authorization, www-, proxy-authenticate*)
(*   the nonce;  content-length  the length.                               *)
(* Random strings (branches, tags, nonces) come from one counter.          *)
(***************************************************************************)
EXTENDS Headers, FiniteSets

CONSTANTS EditNames,   \* headers the TU edits before it sends
          MaxEdits,    \* bound: edits of the request
          MaxBody,     \* bound: length of a body
          MaxFresh     \* bound: random strings drawn

\* The TU leaves to the library the headers that it writes and reads back itself.
ASSUME ExchangeAssumption ==
    /\ MaxEdits \in Nat /\ MaxBody \in Nat /\ MaxFresh \in Nat
    /\ EditNames \cap {"via", "from", "to", "call-id", "cseq", "content-length",
                       "authorization", "proxy-authorization"} = {}

VARIABLES
    uac,      \* what the UAC's TU is doing
    call,     \* the request object of the UAC, shared with its transaction
    last,     \* the final response it got last
    session,  \* the session of the UAC: dialog id and sequence number
    ctx,      \* client transactions: key -> "calling" or "done"
    stx,      \* server transactions: key -> the request, how far it is answered
    ids,      \* dialog ids of the sessions of the UAS
    net,      \* every message sent so far
    fresh,    \* the last random string drawn
    edits, hidden,  \* edits so far, names whose first value ReplaceHeader stored
    acked     \* ACKs sent: the message, and the response it is for

exchangeVars == <<uac, call, last, session, ctx, stx, ids, net, fresh, edits, hidden, acked>>
uacVars == <<call, last, session, ctx, edits, hidden, acked>>

None == [kind |-> "none"]

-----------------------------------------------------------------------------
(* Keys.                                                                   *)

\* One Call-ID: the tags are the id.
DialogId(m) == <<First(m.hs, "from"), First(m.hs, "to")>>

\* ACK and CANCEL belong to the INVITE.  A branch without the magic cookie is of
\* an RFC 2543 peer, whose requests are told apart by From tag, CSeq and Via.
MakeServerTxKey(m) ==
    LET via    == First(m.hs, "via")
        cseq   == First(m.hs, "cseq")
        method == IF cseq.method \in {"ACK", "CANCEL"} THEN "INVITE" ELSE cseq.method
    IN  IF via.cookie THEN <<via.branch, via.host, method>>
        ELSE <<First(m.hs, "from"), method, cseq.no, via>>

MakeClientTxKey(m) ==
    LET method == First(m.hs, "cseq").method
    IN  <<First(m.hs, "via").branch, IF method = "ACK" THEN "INVITE" ELSE method>>

-----------------------------------------------------------------------------
(* Making messages.                                                        *)

NewVia(branch) == [branch |-> branch, cookie |-> TRUE, host |-> "default", tp |-> "UDP"]

\* CreateRequest: Via, From, To, Call-ID, CSeq 1, Max-Forwards, in this order.
CreateRequest(method, branch) ==
    LET names == <<"via", "from", "to", "call-id", "cseq", "max-forwards">>
        value == [n \in ToSet(names) |->
                    CASE n = "via" -> <<NewVia(branch)>>
                      [] n = "cseq" -> <<[no |-> 1, method |-> method]>>
                      [] n \in {"from", "to"} -> <<0>>
                      [] OTHER -> <<"set">>]
    IN  [kind |-> "request", method |-> method, status |-> 0, body |-> 0,
         hs |-> [map |-> value, order |-> names]]

\* The headers that name the transaction and the dialog, copied one after the other.
CopyAll(from, to) ==
    LET via    == CopyHeaders("via", from, to)
        sender == CopyHeaders("from", from, via)
        target == CopyHeaders("to", from, sender)
        callId == CopyHeaders("call-id", from, target)
    IN  CopyHeaders("cseq", from, callId)

\* CreateResponse, CreateResponseReason: copies of the six headers and the body,
\* without a Content-Length; a To tag, except on 100, if the request had none.
CreateResponse(req, status, tag) ==
    LET hs == CopyAll(req.hs, CopyHeaders("record-route", req.hs, NoHeaders))
    IN  [kind |-> "response", method |-> req.method, status |-> status, body |-> req.body,
         hs |-> IF status # 100 /\ First(hs, "to") = 0 THEN SetFirst(hs, "to", tag) ELSE hs]

\* CreateAck: always a branch of its own.
CreateAck(res, branch) ==
    LET hs   == CopyAll(res.hs, NoHeaders)
        newB == SetFirst(hs, "via", [First(hs, "via") EXCEPT !.branch = branch])
    IN  [kind |-> "request", method |-> "ACK", status |-> 0, body |-> 0,
         hs |-> SetFirst(newB, "cseq", [First(hs, "cseq") EXCEPT !.method = "ACK"])]

\* SetBody(body, true).
SetBody(msg, len) ==
    [msg EXCEPT !.body = len,
                !.hs = IF Has(@, "content-length") THEN SetFirst(@, "content-length", len)
                       ELSE AddHeader(@, "content-length", len)]

AddMissing(hs, n, v) == IF Has(hs, n) THEN hs ELSE AddHeader(hs, n, v)

\* Mutant of AutoFill: the From tag is set whether there is one or not.
AutoFill_AlwaysTags(msg, tag) ==
    [msg EXCEPT !.hs = SetFirst(AddMissing(@, "user-agent", "set"), "from", tag)]

\* autoFillMessageHeaderAndSend: Allow and Supported on requests and final
\* responses of some methods, User-Agent, and the From tag.
AutoFill(msg, tag) ==
    LET lists == msg.method \in {"INVITE", "REGISTER"} /\ (msg.kind = "request" \/ msg.status >= 200)
        listed == IF lists THEN AddMissing(AddMissing(msg.hs, "allow", "set"), "supported", "set")
                  ELSE msg.hs
        named == AddMissing(listed, "user-agent", "set")
    IN  [msg EXCEPT !.hs = IF First(named, "from") = 0 THEN SetFirst(named, "from", tag)
                           ELSE named]

\* transport.Send on a request: Via gets the local host and the transport, an
\* INVITE without a Contact gets one behind CSeq.
Rewrite(msg, tp) ==
    LET hs == SetFirst(msg.hs, "via", [First(msg.hs, "via") EXCEPT !.host = "local", !.tp = tp])
    IN  [msg EXCEPT !.hs = IF msg.method = "INVITE" /\ ~Has(hs, "contact")
                           THEN PrependHeaderAfter(hs, "contact", "nilParams", "cseq")
                           ELSE hs]

\* What arrives of a message.
Wire(msg) == [msg EXCEPT !.hs = Render(@)]

\* Mutant of AuthorizeRequest: the request keeps its branch.
AuthorizeRequest_SameBranch(req, res, branch) ==
    LET challenge == IF res.status = 401 THEN "www-authenticate" ELSE "proxy-authenticate"
        nonce == First(res.hs, challenge)
        hs == IF Has(req.hs, "authorization") /\ res.status = 401 THEN req.hs
              ELSE AddHeader(req.hs, "authorization", nonce)
    IN  [req EXCEPT !.hs = SetFirst(hs, "cseq", [First(hs, "cseq") EXCEPT !.no = @ + 1])]

\* AuthorizeRequest: the credentials are added unless a header of the name that
\* belongs to the challenge is there (it is found and left as it is); the name of
\* what is added is Authorization, for 407 too.  New branch, next CSeq.
AuthorizeRequest(req, res, branch) ==
    LET ok == res.status = 401
        nonce == First(res.hs, IF ok THEN "www-authenticate" ELSE "proxy-authenticate")
        found == Has(req.hs, IF ok THEN "authorization" ELSE "proxy-authorization")
        hs == IF found THEN req.hs ELSE AddHeader(req.hs, "authorization", nonce)
        newB == SetFirst(hs, "via", [First(hs, "via") EXCEPT !.branch = branch])
    IN  [req EXCEPT !.hs = SetFirst(newB, "cseq", [First(hs, "cseq") EXCEPT !.no = @ + 1])]

-----------------------------------------------------------------------------
ExchangeInit ==
    /\ uac = "idle"
    /\ call = None /\ last = None /\ session = None
    /\ ctx = [k \in {} |-> "none"] /\ stx = [k \in {} |-> None]
    /\ ids = {} /\ net = {} /\ fresh = 0
    /\ edits = 0 /\ hidden = {} /\ acked = {}

\* Random strings are drawn: the next n of them.
Draw(n) == fresh + n <= MaxFresh /\ fresh' = fresh + n

(* The UAC.                                                                *)

Make(method) ==
    /\ uac = "idle" /\ Draw(1)
    /\ call' = CreateRequest(method, fresh + 1)
    /\ uac' = "made"
    /\ UNCHANGED <<last, session, ctx, stx, ids, net, edits, hidden, acked>>

\* The header operations of the message, called by the TU.
Edit(n) ==
    /\ uac = "made" /\ edits < MaxEdits
    /\ edits' = edits + 1
    /\ \/ /\ \/ call' = [call EXCEPT !.hs = AddHeader(@, n, "set")]
             \/ call' = [call EXCEPT !.hs = PrependHeader(@, n, "set")]
             \/ \E after \in EditNames \cup {"cseq"} :
                  call' = [call EXCEPT !.hs = PrependHeaderAfter(@, n, "set", after)]
          /\ UNCHANGED hidden
       \/ /\ call' = [call EXCEPT !.hs = ReplaceHeader(@, n, "set")]
          /\ hidden' = IF Has(call.hs, n) THEN hidden ELSE hidden \cup {n}
       \/ /\ call' = [call EXCEPT !.hs = DelHeader(@, n)]
          /\ hidden' = hidden \ {n}
    /\ UNCHANGED <<uac, last, session, ctx, stx, ids, net, fresh, acked>>

EditBody(len) ==
    /\ uac = "made" /\ edits < MaxEdits
    /\ edits' = edits + 1
    /\ call' = SetBody(call, len)
    /\ UNCHANGED <<uac, last, session, ctx, stx, ids, net, fresh, hidden, acked>>

\* Service.Send of a request: autofill, the key of its transaction, the transport.
UacSend ==
    /\ uac = "made" /\ Draw(1)
    /\ LET filled == AutoFill(call, fresh + 1)
           sent   == Rewrite(filled, "UDP")
       IN  /\ ctx' = Put(ctx, MakeClientTxKey(filled), "calling")
           /\ call' = sent
           /\ net' = net \cup {Wire(sent)}
    /\ uac' = "sent"
    /\ UNCHANGED <<last, session, stx, ids, edits, hidden, acked>>

\* Timer A, or the next transport: the object the transaction holds goes out again.
Resend ==
    /\ uac = "sent" /\ ctx[MakeClientTxKey(call)] = "calling"
    /\ call' = Rewrite(call, "TCP")
    /\ net' = net \cup {Wire(call')}
    /\ UNCHANGED <<uac, last, session, ctx, stx, ids, fresh, edits, hidden, acked>>

\* handleResponse: the client transaction is found; a final response to an INVITE
\* that is not a 2xx is acknowledged by the transaction (clientTx.ack), a 2xx
\* makes a session; the response goes up to the TU.
UacReceive(res) ==
    LET key == MakeClientTxKey(res)
        ack == Rewrite(CreateAck(res, fresh + 1), "UDP")
        isInvite == First(res.hs, "cseq").method = "INVITE"
    IN  /\ uac = "sent" /\ key \in DOMAIN ctx /\ ctx[key] = "calling"
        /\ res.status >= 200
        /\ ctx' = [ctx EXCEPT ![key] = "done"]
        /\ last' = res
        /\ IF isInvite /\ res.status >= 300
           THEN /\ Draw(1)
                /\ net' = net \cup {Wire(ack)}
                /\ acked' = acked \cup {[ack |-> Wire(ack), res |-> res]}
           ELSE UNCHANGED <<fresh, net, acked>>
        /\ session' = IF isInvite /\ res.status < 300
                      THEN [kind |-> "session", id |-> DialogId(res), seq |-> 1,
                            from |-> First(res.hs, "from"), to |-> First(res.hs, "to")]
                      ELSE session
        /\ uac' = IF res.status \in {401, 407} THEN "challenged"
                  ELSE IF isInvite /\ res.status < 300 THEN "answered" ELSE "over"
        /\ UNCHANGED <<call, stx, ids, edits, hidden>>

\* AddAuthHeader on the request it sent, which is then sent again.
Authorize ==
    /\ uac = "challenged" /\ Draw(1)
    /\ call' = AuthorizeRequest(call, last, fresh + 1)
    /\ uac' = "made"
    /\ edits' = MaxEdits
    /\ UNCHANGED <<last, session, ctx, stx, ids, net, hidden, acked>>

\* sendRequest calls updateSession: the session of the request counts it.
Counted(req) ==
    IF session # None /\ DialogId(req) = session.id THEN [session EXCEPT !.seq = @ + 1]
    ELSE session

\* The TU acknowledges the 2xx: CreateAck and Service.Send.
AckOk ==
    LET ack == AutoFill(CreateAck(last, fresh + 1), fresh + 1)
        sent == Wire(Rewrite(ack, "UDP"))
    IN  /\ uac = "answered" /\ Draw(1)
        /\ session' = Counted(ack)
        /\ net' = net \cup {sent}
        /\ acked' = acked \cup {[ack |-> sent, res |-> last]}
        /\ uac' = "talking"
        /\ UNCHANGED <<call, last, ctx, stx, ids, edits, hidden>>

\* session.CreateRequest: tags and sequence number of the session.
InDialog(method, branch) ==
    LET req == CreateRequest(method, branch)
    IN  [req EXCEPT !.hs.map["from"] = <<session.from>>, !.hs.map["to"] = <<session.to>>,
                    !.hs.map["cseq"] = <<[no |-> session.seq, method |-> method]>>]

\* The TU hangs up with a request made from the session.
Bye ==
    LET bye == AutoFill(InDialog("BYE", fresh + 1), fresh + 1)
        sent == Rewrite(bye, "UDP")
    IN  /\ uac = "talking" /\ Draw(1)
        /\ session' = Counted(bye)
        /\ ctx' = Put(ctx, MakeClientTxKey(bye), "calling")
        /\ call' = sent
        /\ net' = net \cup {Wire(sent)}
        /\ uac' = "sent"
        /\ UNCHANGED <<last, stx, ids, edits, hidden, acked>>

(* The UAS.                                                                *)

\* An RFC 2543 peer that is not this library: a branch without the cookie.
OldMessage(method, to) ==
    LET req == CreateRequest(method, 0)
        via == [branch |-> 0, cookie |-> FALSE, host |-> "old", tp |-> "UDP"]
    IN  [req EXCEPT !.hs.map["via"] = <<via>>, !.hs.map["from"] = <<MaxFresh + 1>>,
                    !.hs.map["to"] = <<to>>]

OldRequest == OldMessage("INVITE", 0)

\* Its call is looked at by itself, without the UAC.
OldPeer ==
    /\ uac = "idle"
    /\ net' = net \cup {OldRequest}
    /\ uac' = "over"
    /\ UNCHANGED <<uacVars, stx, ids, fresh>>

\* It acknowledges an error under the Via of its INVITE.
OldAck(res) ==
    LET ack == OldMessage("ACK", First(res.hs, "to"))
    IN  /\ res.status >= 300 /\ ~First(res.hs, "via").cookie
        /\ net' = net \cup {ack}
        /\ acked' = acked \cup {[ack |-> ack, res |-> res]}
        /\ UNCHANGED <<uac, call, last, session, ctx, edits, hidden, stx, ids, fresh>>

\* handleRequest: an existing transaction takes a request (a retransmission, or
\* the ACK that confirms it); else an ACK goes up, and any other request gets a
\* transaction.
UasReceive(req) ==
    LET key == MakeServerTxKey(req)
    IN  /\ \/ /\ key \in DOMAIN stx /\ req.method = "ACK" /\ stx[key].st = "answered"
              /\ stx' = [stx EXCEPT ![key].st = "confirmed"]
           \/ /\ key \notin DOMAIN stx /\ req.method # "ACK"
              /\ stx' = Put(stx, key, [req |-> req, st |-> "trying"])
        /\ UNCHANGED <<uac, uacVars, ids, net, fresh>>

Challenged(res, nonce) ==
    CASE res.status = 401 -> [res EXCEPT !.hs = AddHeader(@, "www-authenticate", nonce)]
      [] res.status = 407 -> [res EXCEPT !.hs = AddHeader(@, "proxy-authenticate", nonce)]
      [] OTHER -> res

\* The TU answers with CreateResponse and Service.Send; sendResponse finds the
\* transaction by the response's own headers and makes the session of a 2xx.
Respond(key, status) ==
    LET req == stx[key].req
        res == AutoFill(Challenged(CreateResponse(req, status, fresh + 1), fresh + 1), fresh + 1)
    IN  /\ stx[key].st \in {"trying", "ringing"} /\ Draw(1)
        /\ status = 100 => stx[key].st = "trying"
        /\ MakeServerTxKey(res) \in DOMAIN stx
        /\ stx' = [stx EXCEPT ![MakeServerTxKey(res)].st =
                                 IF status < 200 THEN "ringing" ELSE "answered"]
        /\ ids' = IF req.method = "INVITE" /\ status \in 200..299
                  THEN ids \cup {DialogId(res)} ELSE ids
        /\ net' = net \cup {Wire(res)}
        /\ UNCHANGED <<uac, uacVars>>

Statuses(method) ==
    CASE method = "INVITE" -> {100, 200, 401, 407, 486}
      [] method = "REGISTER" -> {200, 401, 407}
      [] OTHER -> {200}

-----------------------------------------------------------------------------
ExchangeNext ==
    \/ \E m \in {"INVITE", "REGISTER"} : Make(m)
    \/ \E n \in EditNames : Edit(n)
    \/ \E len \in 0..MaxBody : EditBody(len)
    \/ UacSend \/ Resend \/ Authorize \/ AckOk \/ Bye \/ OldPeer
    \/ \E m \in net : m.kind = "response" /\ (UacReceive(m) \/ OldAck(m))
    \/ \E m \in net : m.kind = "request" /\ UasReceive(m)
    \/ \E k \in DOMAIN stx : \E s \in Statuses(stx[k].req.method) : Respond(k, s)

ExchangeSpec == ExchangeInit /\ [][ExchangeNext]_exchangeVars

-----------------------------------------------------------------------------
Requests  == {m \in net : m.kind = "request"}
Responses == {m \in net : m.kind = "response"}

\* Every header list is a map of non-empty lists; the counters keep their bounds.
MessagesTyped ==
    /\ uac \in {"idle", "made", "sent", "challenged", "answered", "talking", "over"}
    /\ \A m \in net \cup ({call} \ {None}) :
          /\ m.kind \in {"request", "response"}
          /\ \A n \in DOMAIN m.hs.map : m.hs.map[n] # <<>>
          /\ ToSet(m.hs.order) \subseteq DOMAIN m.hs.map
    /\ \A k \in DOMAIN ctx : ctx[k] \in {"calling", "done"}
    /\ \A k \in DOMAIN stx : stx[k].st \in {"trying", "ringing", "answered", "confirmed"}
    /\ fresh \in 0..MaxFresh /\ edits \in 0..MaxEdits /\ hidden \subseteq EditNames

\* The order lists a name once, and every header stored is shown, in whatever order
\* the header operations (headers.go:148-293) and the layers below were used:
\* except a name that ReplaceHeader was the first to store, which is never sent.
HeadersShown ==
    call # None =>
        /\ IsInjective(call.hs.order)
        /\ DOMAIN call.hs.map \ ToSet(call.hs.order) \subseteq hidden

\* A Content-Length that is sent is the length of the body, and there is one: the
\* body may be set again and again, and the headers edited in between
\* (message.go:130).  The responses repeat the body of the request without it.
LengthMatches ==
    \A m \in net : Has(m.hs, "content-length") => m.hs.map["content-length"] = <<m.body>>

\* Messages are well formed, however they were built and edited.
WellFormed == MessagesTyped /\ HeadersShown /\ LengthMatches

\* What the UAS answers finds both transactions again, by headers that were copied,
\* rewritten and parsed in between: sendResponse its server transaction
\* (tx.go:97), with or without the RFC 3261 cookie, and the UAC the client
\* transaction of that request (tx.go:169).
ResponseFindsTx ==
    /\ \A k \in DOMAIN stx, s \in {100, 200} :
          MakeServerTxKey(CreateResponse(stx[k].req, s, fresh + 1)) = k
    /\ \A m \in Responses : First(m.hs, "via").cookie => MakeClientTxKey(m) \in DOMAIN ctx

\* Requests with one branch are copies of one request, so that a server transaction
\* never takes one for the retransmission of another: the credentials of a
\* challenge change the object that was sent before, under a new branch
\* (auth.go:249).
OneRequestPerBranch ==
    \A m, n \in Requests :
        MakeServerTxKey(m) = MakeServerTxKey(n) =>
            /\ First(m.hs, "cseq").no = First(n.hs, "cseq").no
            /\ Has(m.hs, "authorization") = Has(n.hs, "authorization")

\* A transaction key names one request, its copies and its answers, and nothing
\* else (MakeServerTxKey, MakeClientTxKey).
KeysIdentify == ResponseFindsTx /\ OneRequestPerBranch

\* Both ends file the dialog under one id, and the ACK of the 2xx and the BYE reach
\* the session of the UAS: From tag by autofill, To tag by CreateResponse, both
\* copied by CreateAck and the session.
OneDialog ==
    /\ session # None => session.id \in ids
    /\ \A m \in Requests : m.method = "BYE" => DialogId(m) \in ids
    /\ \A a \in acked : a.res.status < 300 => DialogId(a.ack) \in ids

\* The BYE has a higher CSeq than the INVITE it ends, if the INVITE was not
\* challenged: the session counts from 1 whatever the INVITE's number was
\* (session.go:18), and only the ACK has raised it.
ByeNumber ==
    \A bye \in {m \in Requests : m.method = "BYE"}, inv \in Requests :
        (inv.method = "INVITE" /\ inv # OldRequest /\ ~Has(inv.hs, "authorization")) =>
            First(bye.hs, "cseq").no > First(inv.hs, "cseq").no

\* The ACK of a 2xx opens no server transaction and confirms none: it is passed up.
\* A 2xx keeps its transaction from being taken for confirmed.
OkAckIsSeparate ==
    \A a \in acked : a.res.status < 300 => MakeServerTxKey(a.ack) \notin DOMAIN stx

\* What follows an answered INVITE stays inside its dialog: one id at both ends, a
\* BYE with a number of its own, an ACK that is nobody's retransmission.
DialogAgrees == OneDialog /\ ByeNumber /\ OkAckIsSeparate

\* "try to match to existent tx: request retransmission, or ACKs on non-2xx, or
\* CANCEL" (transaction.go:350): the ACK that clientTx.ack sends for a non-2xx
\* matches the INVITE server transaction it is meant for.
FailureAckMatches ==
    \A a \in acked : a.res.status >= 300 => MakeServerTxKey(a.ack) \in DOMAIN stx

=============================================================================
