------------------------------- MODULE Front -------------------------------
(***************************************************************************)
(* The proxy front end of the client (ClientServe in src/tunnel/client.go, *)
(* src/tunnel/proxy.go and the pushback stream of src/tunnel/conn.go): one *)
(* accepted connection from its first byte until it is handed to the       *)
(* multiplexer, answered locally or closed.                                *)
(*                                                                         *)
(* The application's bytes are units: "head" (the two bytes that tell the  *)
(* protocol), "meth" (the SOCKS methods), "reqA" "reqB" (the SOCKS request *)
(* in two parts), "hdr" and "body" (the rest of an HTTP request), "data"   *)
(* (what it sends through the proxy afterwards).  The network delivers     *)
(* them in any segmentation; a Read returns what has arrived.              *)
(***************************************************************************)
EXTENDS Integers, Sequences

CONSTANT MaxData   \* bound: units sent through the proxy

ASSUME FrontAssumption == MaxData \in Nat

Socks == {"s5", "s5none", "s5cmd", "s5atyp"}
Http  == {"connect", "plain", "nohost", "badhttp", "local"}
Unit  == {"head", "meth", "reqA", "reqB", "hdr", "body", "data"}
Kind  == Socks \cup Http \cup {"other", "quiet"}

\* What the application writes as its request, one message per reply it expects.
Script(k) ==
    CASE k \in Socks            -> <<<<"head", "meth">>, <<"reqA", "reqB">>>>
      [] k = "plain"            -> <<<<"head", "hdr", "body">>>>
      [] k \in Http \ {"plain"} -> <<<<"head", "hdr">>>>
      [] k = "other"            -> <<<<"head">>>>
      [] k = "quiet"            -> <<>>

VARIABLES
    kind, eager,   \* the application: its request, and whether it writes ahead
                   \* of the replies
    sent, data,    \* messages of its request it has written, units behind them
    net,           \* units not yet arrived
    sock, pb,      \* units in the socket; the pushback buffer
    over,          \* units in the bufio.Reader behind the HTTP header
    replies,       \* answers written to the application that let it go on
    stage, target,    \* control state of ClientServe; "right" or "wrong" host
    conn,          \* what HandleRequest gets: the raw connection or pbConn
    short, late    \* history: a Read returned a part of the SOCKS request;
                   \* the body of an HTTP request did not come in time

appVars   == <<kind, eager, sent, data, net>>
frontVars == <<appVars, sock, pb, over, replies, stage, target, conn, short, late>>

Blocked == {"detect", "s5meth", "s5req", "http", "body"}
Stages  == Blocked \cup {"unknown", "s5head", "local", "handover", "handed", "closed", "gone"}

FrontInit ==
    /\ kind \in Kind /\ eager \in BOOLEAN
    /\ sent = 0 /\ data = 0 /\ net = <<>> /\ sock = <<>> /\ pb = <<>> /\ over = <<>>
    /\ replies = 0 /\ stage = "detect" /\ target = "none" /\ conn = "none"
    /\ short = FALSE /\ late = FALSE

-----------------------------------------------------------------------------
(* The application and the network *)

Proceeds == eager \/ sent <= replies

AppSend ==
    /\ sent < Len(Script(kind)) /\ Proceeds
    /\ sent' = sent + 1
    /\ net' = net \o Script(kind)[sent + 1]
    /\ UNCHANGED <<kind, eager, data, sock, pb, over, replies, stage, target, conn, short, late>>

\* Behind its request the application writes what is for the destination.
AppData ==
    /\ kind \in {"s5", "connect", "plain"} /\ sent = Len(Script(kind)) /\ Proceeds
    /\ data < MaxData /\ data' = data + 1
    /\ net' = Append(net, "data")
    /\ UNCHANGED <<kind, eager, sent, sock, pb, over, replies, stage, target, conn, short, late>>

Arrive ==
    /\ net /= <<>> /\ stage \notin {"handed", "closed"}
    /\ sock' = Append(sock, Head(net)) /\ net' = Tail(net)
    /\ UNCHANGED <<kind, eager, sent, data, pb, over, replies, stage, target, conn, short, late>>

-----------------------------------------------------------------------------
(* ClientServe *)

Goto(l) == stage' = l
Has(u, s) == \E i \in DOMAIN s : s[i] = u
Behind(u, s) == LET i == CHOOSE j \in DOMAIN s : s[j] = u IN SubSeq(s, i + 1, Len(s))

\* An answer lets the application go on, or the write fails and the
\* connection is closed.
Reply(next) ==
    \/ Goto(next) /\ replies' = replies + 1
    \/ Goto("closed") /\ UNCHANGED replies

\* Read of the pushback stream takes the buffer before it reads the socket.
ReadPushback == pb' = <<>>

\* detectProtocol: two bytes are read and pushed back.
Detect ==
    /\ stage = "detect" /\ sock /= <<>>
    /\ sock' = Tail(sock) /\ pb' = pb \o <<Head(sock)>>
    /\ Goto(CASE kind \in Socks -> "s5head" [] kind \in Http -> "http" [] OTHER -> "unknown")
    /\ UNCHANGED <<appVars, over, replies, target, conn, short, late>>

\* The default case: sleep, then the deferred close.
Unknown ==
    /\ stage = "unknown"
    /\ Goto("closed")
    /\ UNCHANGED <<appVars, sock, pb, over, replies, target, conn, short, late>>

\* handshake reads the version and nmethods from the pushback buffer.
S5Header ==
    /\ stage = "s5head"
    /\ ReadPushback
    /\ Goto(IF kind = "s5none" THEN "closed" ELSE "s5meth")
    /\ UNCHANGED <<appVars, sock, over, replies, target, conn, short, late>>

\* ReadAtLeast into nmethods + 1 bytes: one byte more than the methods and the
\* application is refused.
S5Methods ==
    /\ stage = "s5meth" /\ sock /= <<>>
    /\ IF Len(sock) > 1 THEN Goto("closed") /\ UNCHANGED replies ELSE Reply("s5req")
    /\ sock' = <<>>
    /\ UNCHANGED <<appVars, pb, over, target, conn, short, late>>

\* readRequest: one Read; what has not arrived is zero in the buffer, so the
\* request reads as invalid or names another destination, and what follows
\* the request in the same segment is lost.
S5Request ==
    /\ stage = "s5req" /\ sock /= <<>>
    /\ sock' = <<>>
    /\ short' = ~Has("reqB", sock)
    /\ target' = IF Has("reqB", sock) THEN "right" ELSE "wrong"
    /\ \/ kind = "s5" /\ Reply("handover") /\ conn' = "raw"
       \/ (kind /= "s5" \/ short') /\ Goto("closed") /\ UNCHANGED <<replies, conn>>
    /\ UNCHANGED <<appVars, pb, over, late>>

\* httpProxyHandshake: http.ReadRequest through a bufio.Reader takes whatever
\* has arrived behind the header, too.
HttpHeader ==
    /\ stage = "http" /\ Has("hdr", sock)
    /\ ReadPushback /\ sock' = <<>>
    /\ over' = Behind("hdr", pb \o sock)
    /\ target' = IF kind \in {"connect", "plain"} THEN "right" ELSE target
    /\ conn' = IF kind = "connect" THEN "raw" ELSE conn
    /\ \/ kind = "connect" /\ Reply("handover")
       \/ kind = "plain" /\ Goto("body") /\ UNCHANGED replies
       \/ kind = "local" /\ Goto("local") /\ UNCHANGED replies
       \/ kind \in {"nohost", "badhttp"} /\ Goto("closed") /\ UNCHANGED replies
    /\ UNCHANGED <<appVars, short, late>>

\* Mutant of Unread: the serialized request replaces nothing and is not kept.
UnreadNothing(u) == pb' = pb

Unread(u) == pb' = pb \o u

\* req.Write reads the body and serializes the request without its Proxy
\* headers; it is pushed back, and pbConn is handed over.
HttpBody ==
    /\ stage = "body" /\ Has("body", over \o sock)
    /\ over' = Behind("body", over \o sock) /\ sock' = <<>>
    /\ Unread(<<"request">>)
    /\ conn' = "pb" /\ Goto("handover")
    /\ UNCHANGED <<appVars, replies, target, short, late>>

\* Mutant of ReadFails: only the detection of the protocol has a deadline.
ReadFailsDetect ==
    /\ stage = "detect"
    /\ Goto("closed")
    /\ UNCHANGED <<appVars, sock, pb, over, replies, target, conn, short, late>>

\* A read meets its deadline, the end of the stream or an error.  req.Write's
\* error is not looked at: what it had flushed before is pushed back.
ReadFails ==
    /\ stage \in Blocked
    /\ IF stage = "body"
       THEN /\ \E part \in {<<>>, <<"part">>} : Unread(part)
            /\ late' = TRUE /\ conn' = "pb" /\ Goto("handover")
       ELSE Goto("closed") /\ UNCHANGED <<pb, late, conn>>
    /\ UNCHANGED <<appVars, sock, over, replies, target, short>>

\* localServlet answers and closes.
LocalServlet ==
    /\ stage = "local"
    /\ Goto("closed")
    /\ UNCHANGED <<appVars, sock, pb, over, replies, target, conn, short, late>>

\* HandleRequest: without a tunnel (or, recovered from a panic, without a mux)
\* the connection is closed, else relay reads from it.
HandleRequest ==
    /\ stage = "handover"
    /\ stage' \in {"handed", "closed"}
    /\ UNCHANGED <<appVars, sock, pb, over, replies, target, conn, short, late>>

\* relay owns the connection (module Mux): nothing of it is left here.
Relayed ==
    /\ stage = "handed" /\ stage' = "gone"
    /\ kind' = "quiet" /\ eager' = FALSE /\ sent' = 0 /\ data' = 0 /\ net' = <<>> /\ sock' = <<>>
    /\ pb' = <<>> /\ over' = <<>> /\ replies' = 0 /\ target' = "none" /\ conn' = "none"
    /\ short' = FALSE /\ late' = FALSE

Serve == \/ Detect \/ Unknown \/ S5Header \/ S5Methods \/ S5Request
         \/ HttpHeader \/ HttpBody \/ ReadFails \/ LocalServlet \/ HandleRequest \/ Relayed
FrontNext == Serve \/ AppSend \/ AppData \/ Arrive

-----------------------------------------------------------------------------
FrontTypeOK ==
    /\ kind \in Kind /\ eager \in BOOLEAN /\ sent \in 0..2 /\ data \in 0..MaxData
    /\ replies \in 0..2
    /\ stage \in Stages /\ target \in {"none", "right", "wrong"}
    /\ conn \in {"none", "raw", "pb"}
    /\ short \in BOOLEAN /\ late \in BOOLEAN
    /\ sock \in Seq(Unit) /\ net \in Seq(Unit) /\ over \in Seq(Unit)
    /\ pb \in {<<>>, <<"head">>, <<"request">>, <<"part">>}

\* What relay will read from the connection it got.
ToRelay == (IF conn = "pb" THEN pb ELSE <<>>) \o sock \o net

\* What it should read: the rewritten request of a plain HTTP proxy request,
\* and what the application has written after the handshake.
Owed == IF kind = "plain" THEN <<"request">>
        ELSE [n \in 1..data |-> "data"]

\* A request whose application waits for the answers, whose SOCKS request came
\* in one piece and whose body came in time goes to the host it names, and the
\* tunnel gets every byte that belongs behind the handshake and no byte of the
\* handshake itself.
Faithful ==
    stage = "handed" /\ ~eager /\ ~short /\ ~late => target = "right" /\ ToRelay = Owed
=============================================================================
