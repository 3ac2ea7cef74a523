-------------------------------- MODULE Mux --------------------------------
(***************************************************************************)
(* Two multiplexers joined by one tunnel (src/tunnel/multiplexer.go,       *)
(* queue.go): the client side "C", which opens proxied connections, and    *)
(* the server side "S", which connects them to their destinations.  Each   *)
(* session id i has an edge on both sides; the far end of the client's     *)
(* edge is the application, that of the server's edge the destination.     *)
(*                                                                         *)
(* Goroutines: Listen of each side, relay of each edge (on the server the  *)
(* tail of connectToDest), the queue of each edge, and the short one that  *)
(* writes relay's CLOSE_W.  The queue is the stream of EdgeStream, which   *)
(* module Edge implements; bitwiseCompareAndSet is one step (Edge splits   *)
(* it).  The tunnel is a TCP connection: FIFO, and when it breaks what is  *)
(* in flight is lost.  A DATA frame carries its number in its direction.   *)
(***************************************************************************)
EXTENDS Naturals, Sequences, FiniteSets

CONSTANTS Sid,       \* session ids the client uses on this tunnel
          Dest,      \* destinations
          dest,      \* the destination a session asks for
          MaxRead,   \* bound: successful reads of one relay
          FastMax,   \* FAST_OPEN_BUF_MAX_SIZE
          BufMax,    \* len(dataBuf): what one read returns at most
          CanBreak   \* the tunnel may break

ASSUME MuxAssumption ==
    /\ dest \in [Sid -> Dest]
    /\ MaxRead \in Nat /\ FastMax \in Nat \ {0} /\ BufMax \in Nat \ {0}
    /\ CanBreak \in BOOLEAN

Side == {"C", "S"}
Peer(x) == IF x = "C" THEN "S" ELSE "C"
Bits == {"R", "W"}
Replies == {"OPEN_Y", "OPEN_N", "OPEN_DENIED"}
\* Mutant of Frm: counted from minus one.
FrmShifted(a, i, k) == [act |-> a, sid |-> i, n |-> k - 1]

Frm(a, i, k) == [act |-> a, sid |-> i, n |-> k]

VARIABLES
    net,       \* net[x]: frames on their way to side x
    tunOk,     \* the tunnel is connected
    listening, \* Listen of a side is running
    held,      \* DATA frames Listen holds between getRegistered and preDeliver
    reg,       \* the edge is in router.registry
    pre,       \* preRegistry of the server: buffered frames
    inPre,     \* preRegistry has a buffer for the session
    q,         \* the edge's queue
    qOpen,     \* the edge exists and its queue has not exited
    closed,    \* edgeConn.closed
    rd,        \* the edge's connection can be read
    wr,        \* the edge's connection can be written
    out,       \* history: DATA written to the edge's connection
    sent,      \* history: DATA frames relay has made of its reads
    tn,        \* bytes the client's relay has read (the server's are only logged)
    relay,     \* control state of HandleRequest/relay and connectToDest/relay
    code,      \* the open signal the client's relay has received
    ready,     \* edge.ready of the client: "empty", a reply, or "taken"
    notice,    \* a goroutine that will write relay's CLOSE_W
    blacklist  \* destinations the server has denied

vars == <<net, tunOk, listening, held, reg, pre, inPre, q, qOpen, closed, rd,
          wr, out, sent, tn, relay, code, ready, notice, blacklist>>
edgeVars == <<q, qOpen, closed, rd, wr>>
preVars  == <<pre, inPre>>

E == Side \X Sid       \* edges

Init ==
    /\ net = [x \in Side |-> <<>>]
    /\ tunOk = TRUE
    /\ listening = [x \in Side |-> TRUE]
    /\ held = <<>>
    /\ reg = [e \in E |-> FALSE]
    /\ pre = [i \in Sid |-> <<>>]
    /\ inPre = [i \in Sid |-> FALSE]
    /\ q = [e \in E |-> <<>>]
    /\ qOpen = [e \in E |-> FALSE]
    /\ closed = [e \in E |-> {}]
    /\ rd = [e \in E |-> FALSE]
    /\ wr = [e \in E |-> FALSE]
    /\ out = [e \in E |-> <<>>]
    /\ sent = [e \in E |-> 0]
    /\ tn = [i \in Sid |-> 0]
    /\ relay = [e \in E |-> "idle"]
    /\ code = [i \in Sid |-> "none"]
    /\ ready = [i \in Sid |-> "empty"]
    /\ notice = [e \in E |-> FALSE]
    /\ blacklist \in SUBSET Dest    \* filled by earlier requests

-----------------------------------------------------------------------------
(* Shared pieces *)

\* frameWriteBuffer to the other side; it fails when the tunnel is broken.  A
\* write that times out and is tolerated, with a frame cut short, is in Link.
Send(x, f) == net' = [net EXCEPT ![Peer(x)] = IF tunOk THEN Append(@, f) ELSE @]
Goto(e, l) == relay' = [relay EXCEPT ![e] = l]

\* egressRouter.register: a new edge with a running queue, which starts with
\* the frames buffered in fast open.
register(e, fs) ==
    /\ reg' = [reg EXCEPT ![e] = TRUE]
    /\ q' = [q EXCEPT ![e] = fs]
    /\ qOpen' = [qOpen EXCEPT ![e] = TRUE]
    /\ rd' = [rd EXCEPT ![e] = TRUE]
    /\ wr' = [wr EXCEPT ![e] = TRUE]
    /\ UNCHANGED closed

\* Mutant of deliver: the frame goes to the front.
deliverFront(e, f) == q' = [q EXCEPT ![e] = IF qOpen[e] THEN <<f>> \o @ ELSE @]

\* Mutant of deliver: CLOSE_W does not wait for the data in the queue.
deliverCloseFirst(e, f) ==
    q' = [q EXCEPT ![e] = IF ~qOpen[e] THEN @
                          ELSE IF f.act = "CLOSE_W" THEN <<f>> \o @ ELSE Append(@, f)]

\* deliver: ignored once the queue has exited.
deliver(e, f) == q' = [q EXCEPT ![e] = IF qOpen[e] THEN Append(@, f) ELSE @]

\* getRegistered finds the edge; a fully closed one is dropped on the way.
Found(e) == reg[e] /\ closed[e] /= Bits
Forget(e) == reg' = [reg EXCEPT ![e] = Found(e)]

-----------------------------------------------------------------------------
(* HandleRequest and the client's relay *)

\* A request comes in: a tunnel is selected and the edge registered.
HandleRequest(i) ==
    /\ relay[<<"C", i>>] = "idle" /\ listening["C"]
    /\ register(<<"C", i>>, <<>>)
    /\ Goto(<<"C", i>>, "start")
    /\ UNCHANGED <<net, tunOk, listening, held, preVars, out, sent, tn, code,
                   ready, notice, blacklist>>

\* No tunnel to select: the request is closed.
HandleOffline(i) ==
    /\ relay[<<"C", i>>] = "idle" /\ ~listening["C"]
    /\ Goto(<<"C", i>>, "done")
    /\ UNCHANGED <<net, tunOk, listening, held, reg, preVars, edgeVars, out,
                   sent, tn, code, ready, notice, blacklist>>

\* relay: a blacklisted destination is refused at once, else OPEN is sent.
RelayStart(i) ==
    /\ relay[<<"C", i>>] = "start"
    /\ IF dest[i] \in blacklist
       THEN /\ code' = [code EXCEPT ![i] = "OPEN_DENIED"]
            /\ Goto(<<"C", i>>, "end")
            /\ UNCHANGED net
       ELSE /\ Send("C", Frm("OPEN", i, 0))
            /\ Goto(<<"C", i>>, IF tunOk THEN "signal" ELSE "end")
            /\ UNCHANGED code
    /\ UNCHANGED <<tunOk, listening, held, reg, preVars, edgeVars, out, sent,
                   tn, ready, notice, blacklist>>

\* checkOpenSignal on the received reply; "wait" is the select with timeout.
RelaySignal(i) ==
    /\ relay[<<"C", i>>] \in {"signal", "wait"}
    /\ ready[i] \in Replies
    /\ ready' = [ready EXCEPT ![i] = "taken"]
    /\ code' = [code EXCEPT ![i] = ready[i]]
    /\ blacklist' = IF ready[i] = "OPEN_DENIED"
                    THEN blacklist \cup {dest[i]} ELSE blacklist
    /\ Goto(<<"C", i>>, IF ready[i] = "OPEN_Y" THEN "read" ELSE "end")
    /\ UNCHANGED <<net, tunOk, listening, held, reg, preVars, edgeVars, out,
                   sent, tn, notice>>

\* Mutant of FastFull: one more read at the limit.
FastOver(i) == tn[i] > FastMax

\* tn >= FAST_OPEN_BUF_MAX_SIZE
FastFull(i) == tn[i] >= FastMax

\* No reply yet: read with a short timeout, or wait when too much was sent.
RelayNoSignal(i) ==
    /\ relay[<<"C", i>>] = "signal" /\ ready[i] = "empty"
    /\ Goto(<<"C", i>>, IF FastFull(i) THEN "wait" ELSE "fastread")
    /\ UNCHANGED <<net, tunOk, listening, held, reg, preVars, edgeVars, out,
                   sent, tn, code, ready, notice, blacklist>>

\* WAITING_OPEN_TIMEOUT
RelayWaitTimeout(i) ==
    /\ relay[<<"C", i>>] = "wait"
    /\ Goto(<<"C", i>>, "end")
    /\ UNCHANGED <<net, tunOk, listening, held, reg, preVars, edgeVars, out,
                   sent, tn, code, ready, notice, blacklist>>

\* READ_TMO_IN_FASTOPEN: look at the signal again.
RelayReadTimeout(i) ==
    /\ relay[<<"C", i>>] = "fastread" /\ rd[<<"C", i>>]
    /\ Goto(<<"C", i>>, "signal")
    /\ UNCHANGED <<net, tunOk, listening, held, reg, preVars, edgeVars, out,
                   sent, tn, code, ready, notice, blacklist>>

\* src.Read returns nr bytes, at most what the buffer holds, which go into one
\* DATA frame; a failed write to the tunnel ends relay.
RelayRead(e) ==
    /\ relay[e] \in {"fastread", "read"} /\ rd[e] /\ sent[e] < MaxRead
    /\ \E nr \in 1 .. BufMax :
         tn' = IF e[1] = "C" THEN [tn EXCEPT ![e[2]] = @ + nr] ELSE tn
    /\ sent' = [sent EXCEPT ![e] = @ + 1]
    /\ Send(e[1], Frm("DATA", e[2], sent[e] + 1))
    /\ Goto(e, IF ~tunOk THEN "end"
               ELSE IF relay[e] = "fastread" THEN "signal" ELSE "read")
    /\ UNCHANGED <<tunOk, listening, held, reg, preVars, edgeVars, out, code,
                   ready, notice, blacklist>>

\* src.Read returns EOF or an error.
RelayEof(e) ==
    /\ relay[e] \in {"fastread", "read"}
    /\ Goto(e, "end")
    /\ UNCHANGED <<net, tunOk, listening, held, reg, preVars, edgeVars, out,
                   sent, tn, code, ready, notice, blacklist>>

\* relay's deferred function: tell the peer unless the peer asked for it, then
\* closeR if OPEN_Y was received (only a client receives it), else Close.
RelayEnd(e) ==
    LET opened == e[1] = "C" /\ code[e[2]] = "OPEN_Y"
        denied == e[1] = "C" /\ code[e[2]] = "OPEN_DENIED"
    IN  /\ relay[e] = "end"
        /\ closed' = [closed EXCEPT ![e] = @ \cup {"R"}]
        /\ notice' = [notice EXCEPT ![e] = "R" \notin closed[e] /\ ~denied]
        /\ rd' = [rd EXCEPT ![e] = FALSE]
        /\ wr' = [wr EXCEPT ![e] = @ /\ opened]
        /\ Goto(e, "done")
        /\ UNCHANGED <<net, tunOk, listening, held, reg, preVars, q, qOpen,
                       out, sent, tn, code, ready, blacklist>>

\* Mutant of Notice: nothing is written.
NoticeLost(e) ==
    /\ notice[e]
    /\ notice' = [notice EXCEPT ![e] = FALSE]
    /\ UNCHANGED <<net, tunOk, listening, held, reg, preVars, edgeVars, out,
                   sent, tn, relay, code, ready, blacklist>>

\* The goroutine that tells the peer to closeW.
Notice(e) ==
    /\ notice[e]
    /\ notice' = [notice EXCEPT ![e] = FALSE]
    /\ Send(e[1], Frm("CLOSE_W", e[2], 0))
    /\ UNCHANGED <<tunOk, listening, held, reg, preVars, edgeVars, out, sent,
                   tn, relay, code, ready, blacklist>>

-----------------------------------------------------------------------------
(* connectToDest, on the server *)

\* The dial succeeded: register takes over the buffered frames.
ConnectOk(i) ==
    /\ relay[<<"S", i>>] = "dial"
    /\ register(<<"S", i>>, pre[i])
    /\ inPre' = [inPre EXCEPT ![i] = FALSE]
    /\ pre' = [pre EXCEPT ![i] = <<>>]
    /\ Goto(<<"S", i>>, "accept")
    /\ UNCHANGED <<net, tunOk, listening, held, out, sent, tn, code, ready,
                   notice, blacklist>>

\* OPEN_Y, then relay; a failed write leaves the edge as it is.
ConnectAccept(i) ==
    /\ relay[<<"S", i>>] = "accept"
    /\ Send("S", Frm("OPEN_Y", i, 0))
    /\ Goto(<<"S", i>>, IF tunOk THEN "read" ELSE "stuck")
    /\ UNCHANGED <<tunOk, listening, held, reg, preVars, edgeVars, out, sent,
                   tn, code, ready, notice, blacklist>>

\* Mutant of removePreRegistered: the entry stays, with an empty buffer.
emptyPreRegistered(i) == pre' = [pre EXCEPT ![i] = <<>>] /\ UNCHANGED inPre

removePreRegistered(i) ==
    /\ inPre' = [inPre EXCEPT ![i] = FALSE]
    /\ pre' = [pre EXCEPT ![i] = <<>>]

\* The destination is denied or cannot be reached: forget the buffer ...
ConnectFail(i) ==
    /\ relay[<<"S", i>>] = "dial"
    /\ removePreRegistered(i)
    /\ \E a \in {"OPEN_N", "OPEN_DENIED"} : Goto(<<"S", i>>, a)
    /\ UNCHANGED <<net, tunOk, listening, held, reg, edgeVars, out, sent, tn,
                   code, ready, notice, blacklist>>

\* Mutants of ConnectRefuse: the reply is not sent; or, without the else, the
\* accepting branch follows.
RefuseSilently(i) ==
    /\ relay[<<"S", i>>] \in {"OPEN_N", "OPEN_DENIED"}
    /\ Goto(<<"S", i>>, "refused")
    /\ UNCHANGED <<net, tunOk, listening, held, reg, preVars, edgeVars, out,
                   sent, tn, code, ready, notice, blacklist>>
RefuseFallsThrough(i) ==
    /\ relay[<<"S", i>>] \in {"OPEN_N", "OPEN_DENIED"}
    /\ Send("S", Frm(relay[<<"S", i>>], i, 0))
    /\ Goto(<<"S", i>>, "accept")
    /\ UNCHANGED <<tunOk, listening, held, reg, preVars, edgeVars, out, sent,
                   tn, code, ready, notice, blacklist>>

\* ... and say so.
ConnectRefuse(i) ==
    /\ relay[<<"S", i>>] \in {"OPEN_N", "OPEN_DENIED"}
    /\ Send("S", Frm(relay[<<"S", i>>], i, 0))
    /\ Goto(<<"S", i>>, "refused")
    /\ UNCHANGED <<tunOk, listening, held, reg, preVars, edgeVars, out, sent,
                   tn, code, ready, notice, blacklist>>

-----------------------------------------------------------------------------
(* Listen *)

\* The next frame for side x, when Listen is not in the middle of one.
Incoming(x, a) ==
    /\ listening[x] /\ tunOk
    /\ net[x] /= <<>> /\ Head(net[x]).act \in a
    /\ x = "S" => held = <<>>
EdgeOf(x) == <<x, Head(net[x]).sid>>
Consume(x) == net' = [net EXCEPT ![x] = Tail(@)]

\* DATA or CLOSE_W for a known edge goes to its queue; CLOSE_W marks the edge.
ListenDeliver(x) ==
    /\ Incoming(x, {"DATA", "CLOSE_W"}) /\ Found(EdgeOf(x))
    /\ deliver(EdgeOf(x), Head(net[x]))
    /\ closed' = IF Head(net[x]).act = "CLOSE_W"
                 THEN [closed EXCEPT ![EdgeOf(x)] = @ \cup {"W"}] ELSE closed
    /\ Consume(x)
    /\ UNCHANGED <<tunOk, listening, held, reg, preVars, qOpen, rd, wr, out,
                   sent, tn, relay, code, ready, notice, blacklist>>

\* CLOSE_R for a known edge.
ListenCloseR(x) ==
    /\ Incoming(x, {"CLOSE_R"}) /\ Found(EdgeOf(x))
    /\ closed' = [closed EXCEPT ![EdgeOf(x)] = @ \cup {"R"}]
    /\ rd' = [rd EXCEPT ![EdgeOf(x)] = FALSE]
    /\ Consume(x)
    /\ UNCHANGED <<tunOk, listening, held, reg, preVars, q, qOpen, wr, out,
                   sent, tn, relay, code, ready, notice, blacklist>>

\* OPEN_x: edge.ready <- action; close(edge.ready).  A second one would panic.
ListenReply ==
    /\ Incoming("C", Replies) /\ Found(EdgeOf("C"))
    /\ LET i == Head(net["C"]).sid IN
         ready' = [ready EXCEPT ![i] = IF @ = "empty" THEN Head(net["C"]).act
                                       ELSE "panic"]
    /\ Consume("C")
    /\ UNCHANGED <<tunOk, listening, held, reg, preVars, edgeVars, out, sent,
                   tn, relay, code, notice, blacklist>>

\* OPEN: preRegister, go connectToDest.
ListenOpen ==
    /\ Incoming("S", {"OPEN"})
    /\ LET i == Head(net["S"]).sid IN
         /\ inPre' = [inPre EXCEPT ![i] = TRUE]
         /\ pre' = [pre EXCEPT ![i] = <<>>]
         /\ Goto(<<"S", i>>, "dial")
    /\ Consume("S")
    /\ UNCHANGED <<tunOk, listening, held, reg, edgeVars, out, sent, tn, code,
                   ready, notice, blacklist>>

\* DATA for a session that is still connecting: getRegistered has answered
\* "pre-registered", preDeliver comes next.
ListenPre ==
    /\ Incoming("S", {"DATA"})
    /\ ~reg[EdgeOf("S")] /\ inPre[Head(net["S"]).sid]
    /\ held' = <<Head(net["S"])>>
    /\ Consume("S")
    /\ UNCHANGED <<tunOk, listening, reg, preVars, edgeVars, out, sent, tn,
                   relay, code, ready, notice, blacklist>>

\* preDeliver, under the router's lock again.
preDeliver ==
    /\ held /= <<>>
    /\ LET i == held[1].sid IN
         pre' = [pre EXCEPT ![i] = IF inPre[i] THEN @ \o held ELSE @]
    /\ held' = <<>>
    /\ UNCHANGED <<net, tunOk, listening, reg, inPre, edgeVars, out, sent, tn,
                   relay, code, ready, notice, blacklist>>

\* A frame for no edge: DATA is answered by CLOSE_R, the others are dropped.
ListenUnknown(x) ==
    /\ Incoming(x, {"DATA", "CLOSE_W", "CLOSE_R"} \cup Replies)
    /\ ~Found(EdgeOf(x))
    /\ LET f == Head(net[x]) IN
         /\ f.act = "DATA" => reg[EdgeOf(x)] \/ x = "C" \/ ~inPre[f.sid]
         /\ net' = [net EXCEPT
                      ![x] = Tail(@),
                      ![Peer(x)] = IF f.act = "DATA"
                                   THEN Append(@, Frm("CLOSE_R", f.sid, 0)) ELSE @]
    /\ Forget(EdgeOf(x))
    /\ UNCHANGED <<tunOk, listening, held, preVars, edgeVars, out, sent, tn,
                   relay, code, ready, notice, blacklist>>

\* The tunnel breaks: Listen of both sides will fail to read.
TunBreak ==
    /\ CanBreak /\ tunOk
    /\ tunOk' = FALSE
    /\ net' = [x \in Side |-> <<>>]
    /\ UNCHANGED <<listening, held, reg, preVars, edgeVars, out, sent, tn,
                   relay, code, ready, notice, blacklist>>

\* onTunDisconnected: cleanOfTun pushes CLOSE to every edge of the tunnel.
TunDisconnected(x) ==
    /\ listening[x] /\ ~tunOk
    /\ x = "S" => held = <<>>
    /\ listening' = [listening EXCEPT ![x] = FALSE]
    /\ q' = [e \in E |-> IF e[1] = x /\ reg[e] /\ qOpen[e]
                         THEN Append(q[e], Frm("CLOSE", e[2], 0)) ELSE q[e]]
    /\ reg' = [e \in E |-> reg[e] /\ e[1] /= x]
    /\ UNCHANGED <<net, tunOk, held, preVars, qOpen, closed, rd, wr, out, sent,
                   tn, relay, code, ready, notice, blacklist>>

\* egressRouter.clean
Clean(e) ==
    /\ reg[e] /\ closed[e] = Bits
    /\ Forget(e)
    /\ UNCHANGED <<net, tunOk, listening, held, preVars, edgeVars, out, sent,
                   tn, relay, code, ready, notice, blacklist>>

-----------------------------------------------------------------------------
(* The queue of an edge *)

QHead(e, a) == qOpen[e] /\ q[e] /= <<>> /\ Head(q[e]).act = a

QueueWrite(e) ==
    /\ QHead(e, "DATA") /\ wr[e]
    /\ out' = [out EXCEPT ![e] = Append(@, Head(q[e]).n)]
    /\ q' = [q EXCEPT ![e] = Tail(@)]
    /\ UNCHANGED <<net, tunOk, listening, held, reg, preVars, qOpen, closed,
                   rd, wr, sent, tn, relay, code, ready, notice, blacklist>>

\* _close(true)
closeForce(e) ==
    /\ q' = [q EXCEPT ![e] = <<>>]
    /\ qOpen' = [qOpen EXCEPT ![e] = FALSE]
    /\ closed' = [closed EXCEPT ![e] = Bits]
    /\ rd' = [rd EXCEPT ![e] = FALSE]
    /\ wr' = [wr EXCEPT ![e] = FALSE]

\* A write fails; CLOSE_R tells the peer unless it has sent CLOSE_W before.
QueueWriteErr(e) ==
    /\ QHead(e, "DATA")
    /\ IF "W" \in closed[e] THEN UNCHANGED net
       ELSE Send(e[1], Frm("CLOSE_R", e[2], 0))
    /\ closeForce(e)
    /\ UNCHANGED <<tunOk, listening, held, reg, preVars, out, sent, tn, relay,
                   code, ready, notice, blacklist>>

QueueClose(e) ==
    /\ QHead(e, "CLOSE")
    /\ closeForce(e)
    /\ UNCHANGED <<net, tunOk, listening, held, reg, preVars, out, sent, tn,
                   relay, code, ready, notice, blacklist>>

\* _close(false): the far end sees the end of the stream.
QueueCloseW(e) ==
    /\ QHead(e, "CLOSE_W")
    /\ q' = [q EXCEPT ![e] = <<>>]
    /\ qOpen' = [qOpen EXCEPT ![e] = FALSE]
    /\ wr' = [wr EXCEPT ![e] = FALSE]
    /\ UNCHANGED <<net, tunOk, listening, held, reg, preVars, closed, rd, out,
                   sent, tn, relay, code, ready, notice, blacklist>>

-----------------------------------------------------------------------------
Connect(i) == ConnectOk(i) \/ ConnectAccept(i) \/ ConnectFail(i) \/ ConnectRefuse(i)

\* Steps of relay that wait for nothing but a timeout.
RelayRun(i) ==
    \/ RelayStart(i) \/ RelaySignal(i) \/ RelayNoSignal(i)
    \/ RelayWaitTimeout(i) \/ RelayReadTimeout(i)

Listen(x) == ListenDeliver(x) \/ ListenCloseR(x) \/ ListenUnknown(x) \/ TunDisconnected(x)
ListenS == ListenOpen \/ ListenPre \/ preDeliver
Queue(e) == QueueWrite(e) \/ QueueWriteErr(e) \/ QueueClose(e) \/ QueueCloseW(e)

Next ==
    \/ \E i \in Sid : HandleRequest(i) \/ HandleOffline(i) \/ RelayRun(i) \/ Connect(i)
    \/ \E e \in E : RelayRead(e) \/ RelayEof(e) \/ RelayEnd(e) \/ Notice(e) \/ Queue(e) \/ Clean(e)
    \/ \E x \in Side : Listen(x)
    \/ ListenReply \/ ListenS
    \/ TunBreak

Spec == Init /\ [][Next]_vars

\* Goroutines keep running; a dial, a read in fast open and the wait for the
\* open signal have timeouts; a read on a shut connection returns.  Nothing is
\* assumed of applications, destinations and the tunnel.
FairSpec ==
    /\ Spec
    /\ \A i \in Sid : WF_vars(RelayRun(i)) /\ WF_vars(Connect(i))
    /\ \A e \in E :
         /\ WF_vars(RelayEnd(e) \/ (~rd[e] /\ RelayEof(e)))
         /\ WF_vars(Notice(e))
         /\ WF_vars(Queue(e))
    /\ \A x \in Side : WF_vars(Listen(x))
    /\ WF_vars(ListenReply)
    /\ WF_vars(ListenS)

-----------------------------------------------------------------------------
(* Properties *)

\* Every variable has its type.
Frames == [act : {"OPEN", "DATA", "CLOSE_W", "CLOSE_R", "CLOSE"} \cup Replies,
           sid : Sid, n : Nat]
TypeOK ==
    /\ net \in [Side -> Seq(Frames)] /\ held \in Seq(Frames)
    /\ tunOk \in BOOLEAN /\ listening \in [Side -> BOOLEAN]
    /\ reg \in [E -> BOOLEAN] /\ qOpen \in [E -> BOOLEAN]
    /\ rd \in [E -> BOOLEAN] /\ wr \in [E -> BOOLEAN]
    /\ notice \in [E -> BOOLEAN] /\ inPre \in [Sid -> BOOLEAN]
    /\ pre \in [Sid -> Seq(Frames)] /\ q \in [E -> Seq(Frames)]
    /\ closed \in [E -> SUBSET Bits]
    /\ out \in [E -> Seq(Nat)] /\ sent \in [E -> Nat] /\ tn \in [Sid -> Nat]
    /\ relay \in [E -> {"idle", "start", "signal", "wait", "fastread", "read",
                        "end", "done", "dial", "accept", "stuck", "OPEN_N",
                        "OPEN_DENIED", "refused"}]
    /\ code \in [Sid -> Replies \cup {"none"}]
    /\ ready \in [Sid -> Replies \cup {"empty", "taken", "panic"}]
    /\ blacklist \in SUBSET Dest

\* What the application receives is what the destination sent, without a gap
\* and in order: the client registers its edge before it sends OPEN.
DownNoGap == \A i \in Sid : \A k \in 1 .. Len(out[<<"C", i>>]) : out[<<"C", i>>][k] = k

\* What the destination receives comes in the order in which the application
\* sent it, through preRegistry, register and the queue.
UpInOrder ==
    \A i \in Sid : LET o == out[<<"S", i>>] IN
        /\ \A j, k \in 1 .. Len(o) : j < k => o[j] < o[k]
        /\ \A k \in 1 .. Len(o) : o[k] <= sent[<<"C", i>>]

\* The destination receives what the application sent without a gap, as the
\* tests of the multiplexer expect of every transfer.
UpNoGap == \A i \in Sid : \A k \in 1 .. Len(out[<<"S", i>>]) : out[<<"S", i>>][k] = k

\* Listen sends on edge.ready at most once: the channel is closed after the
\* first open signal and a second send would panic.
ReadyOnce == \A i \in Sid : ready[i] /= "panic"

\* What the client sends before it has seen the server's answer is bounded.
\* The limit is tested before a read, which may fill the whole buffer: relay
\* stops short of FAST_OPEN_BUF_MAX_SIZE plus one buffer, not of the limit
\* alone (with 64 KiB and a buffer of 65527 bytes, of almost 128 KiB).
FastOpenBound ==
    \A i \in Sid : code[i] /= "OPEN_Y" => tn[i] <= (FastMax - 1) + BufMax

\* The server buffers frames for a session exactly while it connects it; the
\* buffer is neither left behind by a refusal nor kept beside an edge.
PreOnlyWhileDialing == \A i \in Sid : inPre[i] <=> relay[<<"S", i>>] = "dial"

\* A request never hangs in fast open: relay learns that the open succeeded,
\* or it ends.
OpenAnswered ==
    \A i \in Sid : relay[<<"C", i>>] = "start" ~> relay[<<"C", i>>] \in {"read", "end"}

\* A refused open closes the application's connection.
RefusalClosesApp ==
    \A i \in Sid : relay[<<"S", i>>] = "refused" ~> ~wr[<<"C", i>>] /\ ~rd[<<"C", i>>]

\* When the server's relay announces the end of the stream, the application's
\* connection is shut for writing in the end, unless the tunnel broke.
DestEofReachesApp ==
    \A i \in Sid : notice[<<"S", i>>] ~> ~wr[<<"C", i>>] \/ ~tunOk

\* The application sees an orderly end of the stream only behind all the data
\* that the server's relay read from the destination: CLOSE_W is written by a
\* goroutine of its own, and overtakes no DATA in the tunnel, Listen or the
\* queue.
EofBehindData ==
    [][\A i \in Sid : QueueCloseW(<<"C", i>>) =>
                          Len(out[<<"C", i>>]) = sent[<<"S", i>>]]_vars

\* When the application has finished, the destination sees the end of the
\* stream ("tell peer to closeW"), unless the tunnel broke.
AppEofReachesDest ==
    \A i \in Sid : relay[<<"C", i>>] = "done" /\ relay[<<"S", i>>] \in {"accept", "read"}
        ~> ~wr[<<"S", i>>] \/ ~tunOk
=============================================================================
