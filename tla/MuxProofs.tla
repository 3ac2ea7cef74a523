----------------------------- MODULE MuxProofs -----------------------------
(***************************************************************************)
(* Proofs about Mux, for any number of sessions on the tunnel and any      *)
(* number of reads.                                                        *)
(*                                                                         *)
(* The numbers of the DATA frames of a session pass through stages: the    *)
(* tunnel, Listen's hand, preRegistry, the queue, the edge's connection.   *)
(* The invariant of the order compares the sets of numbers in two stages;  *)
(* every step of the system moves numbers from a stage to the next, adds   *)
(* the next number to the tunnel or drops some.                            *)
(***************************************************************************)
EXTENDS Mux, SequenceTheorems, TLAPS

(* What the streams of frames hold for one session *)

IsData(f, i) == f.act = "DATA" /\ f.sid = i

\* The numbers of the session's DATA frames in a stream, and that they come in
\* order.
Nums(s, i) == {n \in Nat : \E a \in 1..Len(s) : IsData(s[a], i) /\ s[a].n = n}
Incr(s, i) == \A a, b \in 1..Len(s) :
                a < b /\ IsData(s[a], i) /\ IsData(s[b], i) => s[a].n < s[b].n

\* The same for the numbers an edge has written.
OutNums(o) == {o[k] : k \in 1..Len(o)}
OutIncr(o) == \A j, k \in 1..Len(o) : j < k => o[j] < o[k]

\* A frame of one of the kinds A for the session is in the stream; there is no
\* other.
Has(s, A, i)  == \E a \in 1..Len(s) : s[a].act \in A /\ s[a].sid = i
Once(s, A, i) == \A a, b \in 1..Len(s) :
                   /\ s[a].act \in A /\ s[a].sid = i
                   /\ s[b].act \in A /\ s[b].sid = i
                   => a = b

\* The stream holds frames of the session only.
Own(s, i) == \A a \in 1..Len(s) : s[a].sid = i

-----------------------------------------------------------------------------
(* The control part of the invariant *)

\* A session is opened once.
OpenInv ==
    \A i \in Sid :
        /\ Once(net["S"], {"OPEN"}, i)
        /\ Has(net["S"], {"OPEN"}, i) =>
             relay[<<"S", i>>] = "idle" /\ relay[<<"C", i>>] \notin {"idle", "start"}
        /\ relay[<<"C", i>>] \in {"idle", "start"} => relay[<<"S", i>>] = "idle"

\* It is answered once.
Unanswered == {"idle", "dial", "accept", "OPEN_N", "OPEN_DENIED"}
ReplyInv ==
    \A i \in Sid :
        /\ Once(net["C"], Replies, i)
        /\ Has(net["C"], Replies, i) =>
             ready[i] = "empty" /\ relay[<<"S", i>>] \notin Unanswered
        /\ relay[<<"S", i>>] \in Unanswered => ready[i] = "empty"
        /\ ready[i] /= "panic"

\* Before the answer the client's relay reads only while it is below the limit.
FastInv ==
    \A i \in Sid :
        /\ relay[<<"C", i>>] \in {"idle", "start", "signal", "wait", "fastread"}
             => code[i] = "none"
        /\ relay[<<"C", i>>] = "read" => code[i] = "OPEN_Y"
        /\ relay[<<"C", i>>] = "fastread" => tn[i] < FastMax
        /\ code[i] /= "OPEN_Y" => tn[i] <= (FastMax - 1) + BufMax

\* The server has no edge while it connects one, and no buffer when it does
\* not.
EdgeInv ==
    \A i \in Sid :
        /\ relay[<<"S", i>>] \in {"idle", "dial"} =>
             ~qOpen[<<"S", i>>] /\ ~reg[<<"S", i>>] /\ out[<<"S", i>>] = <<>>
        /\ relay[<<"S", i>>] = "idle" => sent[<<"S", i>>] = 0
        /\ ~inPre[i] => pre[i] = <<>>

\* Listen holds one DATA frame at most; queues and buffers hold frames of their
\* own session, and preRegistry only DATA.
HeldInv ==
    /\ held = <<>> \/ (Len(held) = 1 /\ held[1].act = "DATA")
    /\ \A e \in E : Own(q[e], e[2])
    /\ \A i \in Sid : Own(pre[i], i)

-----------------------------------------------------------------------------
(* The order of the numbers *)

Before(A, B) == \A a \in A, b \in B : a < b

PreOf(e)  == IF e[1] = "S" THEN pre[e[2]] ELSE <<>>
HeldOf(e) == IF e[1] = "S" THEN held ELSE <<>>
Source(e) == <<Peer(e[1]), e[2]>>

\* The stages of an edge: what is written, queued, buffered, held and under
\* way, and the last number its peer has sent.
Chain(O, Q, P, H, N, T) ==
    /\ Before(O, Q) /\ Before(O, H) /\ Before(O, N)
    /\ Before(Q, H) /\ Before(Q, N)
    /\ Before(P, H) /\ Before(P, N)
    /\ Before(H, N)
    /\ \A n \in O \cup Q \cup P \cup H \cup N : 1 <= n /\ n <= T

Ordered(e) ==
    /\ OutIncr(out[e]) /\ Incr(q[e], e[2]) /\ Incr(PreOf(e), e[2])
    /\ Incr(net[e[1]], e[2])
    /\ Chain(OutNums(out[e]), Nums(q[e], e[2]), Nums(PreOf(e), e[2]),
             Nums(HeldOf(e), e[2]), Nums(net[e[1]], e[2]), sent[Source(e)])
OrderInv == \A e \in E : Ordered(e)

\* Nothing is missing on the way to the application.  While the queue is open
\* it has every number up to those it holds, and while Listen delivers to it
\* the others are under way.
NoGap(e) ==
    /\ \A k \in 1..Len(out[e]) : out[e][k] = k
    /\ qOpen[e] => \A n \in Nums(q[e], e[2]) :
                     n > Len(out[e]) /\ Len(out[e])+1..n \subseteq Nums(q[e], e[2])
    /\ qOpen[e] /\ Found(e) /\ tunOk =>
         Len(out[e])+1..sent[Source(e)] \subseteq Nums(q[e], e[2]) \cup Nums(net[e[1]], e[2])
GapInv == \A i \in Sid : NoGap(<<"C", i>>)

\* The end of the stream towards the application.  No DATA of the session comes
\* behind a CLOSE_W; CLOSE_W is announced, under way or queued only when the
\* server's relay has finished; and when it is queued, so is everything that
\* relay has sent and the edge has not written.
Ends(s, i) == \A a, b \in 1..Len(s) :
                a < b /\ s[a].act = "CLOSE_W" /\ s[a].sid = i => ~IsData(s[b], i)
Eof(i) ==
    LET e == <<"C", i>>
        d == <<"S", i>>
        queued == qOpen[e] /\ Has(q[e], {"CLOSE_W"}, i)
    IN  /\ Ends(net["C"], i) /\ (qOpen[e] => Ends(q[e], i))
        /\ notice[d] \/ Has(net["C"], {"CLOSE_W"}, i) \/ queued => relay[d] = "done"
        /\ queued => /\ Nums(net["C"], i) = {}
                     /\ Len(out[e])+1..sent[d] \subseteq Nums(q[e], i)
EofInv == \A i \in Sid : Eof(i)

ControlInv == OpenInv /\ ReplyInv /\ FastInv /\ PreOnlyWhileDialing /\ EdgeInv /\ HeldInv
IInv == TypeOK /\ ControlInv /\ OrderInv /\ GapInv /\ EofInv

-----------------------------------------------------------------------------
(* Lemmas about streams of frames *)

\* The edges are the pairs of a side and a session.
LEMMA EdgePair ==
    ASSUME NEW e \in E
    PROVE  e[1] \in Side /\ e[2] \in Sid /\ e = <<e[1], e[2]>>
BY DEF E

\* A pair of a side and a session is an edge, and no other pair is the same.
LEMMA PairEdge ==
    ASSUME NEW x \in Side, NEW i \in Sid
    PROVE  /\ <<x, i>> \in E /\ <<x, i>>[1] = x /\ <<x, i>>[2] = i
           /\ \A e \in E : e[1] = x /\ e[2] = i => e = <<x, i>>
BY DEF E

\* What Frm makes is a frame.
LEMMA FrmType ==
    ASSUME NEW a \in {"OPEN", "DATA", "CLOSE_W", "CLOSE_R", "CLOSE"} \cup Replies,
           NEW i \in Sid, NEW k \in Nat
    PROVE  Frm(a, i, k) \in Frames
BY DEF Frm, Frames

\* The fields of a frame.
LEMMA FrameFields ==
    ASSUME NEW f \in Frames
    PROVE  /\ f.act \in {"OPEN", "DATA", "CLOSE_W", "CLOSE_R", "CLOSE"} \cup Replies
           /\ f.sid \in Sid /\ f.n \in Nat
BY DEF Frames

\* An empty stream holds nothing.
LEMMA EmptyStream ==
    ASSUME NEW i
    PROVE  /\ Nums(<<>>, i) = {} /\ Incr(<<>>, i)
           /\ \A A : ~Has(<<>>, A, i) /\ Once(<<>>, A, i)
           /\ Own(<<>>, i)
BY DEF Nums, Incr, Has, Once, Own

\* The last frame of a stream adds its number.
LEMMA NumsAppend ==
    ASSUME NEW s \in Seq(Frames), NEW f \in Frames, NEW i
    PROVE  /\ IsData(f, i) => Nums(Append(s, f), i) = Nums(s, i) \cup {f.n}
           /\ ~IsData(f, i) => Nums(Append(s, f), i) = Nums(s, i)
<1>1. f.n \in Nat
  BY FrameFields
<1>2. /\ Len(Append(s, f)) = Len(s) + 1 /\ Len(s) \in Nat
      /\ \A a \in 1..Len(s) : Append(s, f)[a] = s[a]
      /\ Append(s, f)[Len(s) + 1] = f
  BY AppendProperties, LenProperties
<1>3. ASSUME NEW n \in Nat
      PROVE  n \in Nums(Append(s, f), i) <=> n \in Nums(s, i) \/ (IsData(f, i) /\ f.n = n)
  <2> DEFINE At(t, a) == IsData(t[a], i) /\ t[a].n = n
  <2>1. (\E a \in 1..Len(s) + 1 : At(Append(s, f), a))
          <=> (\E a \in 1..Len(s) : At(Append(s, f), a)) \/ At(Append(s, f), Len(s) + 1)
    BY <1>2
  <2>2. (\E a \in 1..Len(s) : At(Append(s, f), a)) <=> (\E a \in 1..Len(s) : At(s, a))
    BY <1>2
  <2>3. At(Append(s, f), Len(s) + 1) <=> IsData(f, i) /\ f.n = n
    BY <1>2
  <2> QED  BY <1>2, <2>1, <2>2, <2>3 DEF Nums
<1>4. Nums(Append(s, f), i) \subseteq Nat /\ Nums(s, i) \subseteq Nat
  BY DEF Nums
<1> QED  BY <1>1, <1>3, <1>4

\* It keeps the order when its number is the largest.
LEMMA IncrAppend ==
    ASSUME NEW s \in Seq(Frames), NEW f \in Frames, NEW i, Incr(s, i),
           IsData(f, i) => \A n \in Nums(s, i) : n < f.n
    PROVE  Incr(Append(s, f), i)
<1>1. /\ Len(Append(s, f)) = Len(s) + 1 /\ Len(s) \in Nat
      /\ \A a \in 1..Len(s) : Append(s, f)[a] = s[a] /\ s[a] \in Frames
      /\ Append(s, f)[Len(s) + 1] = f
  BY AppendProperties, LenProperties, ElementOfSeq
<1> SUFFICES ASSUME NEW a \in 1..Len(s) + 1, NEW b \in 1..Len(s) + 1, a < b,
                    IsData(Append(s, f)[a], i), IsData(Append(s, f)[b], i)
             PROVE  Append(s, f)[a].n < Append(s, f)[b].n
  BY <1>1 DEF Incr
<1>2. a \in 1..Len(s) /\ Append(s, f)[a] = s[a]
  BY <1>1
<1>3. CASE b \in 1..Len(s)
  BY <1>1, <1>2, <1>3 DEF Incr
<1>4. CASE b = Len(s) + 1
  <2>1. s[a].n \in Nums(s, i)
    BY <1>1, <1>2, FrameFields DEF Nums
  <2> QED  BY <1>1, <1>2, <1>4, <2>1
<1> QED  BY <1>1, <1>3, <1>4

\* The first frame of a stream takes its number away, which is the smallest.
LEMMA NumsTail ==
    ASSUME NEW s \in Seq(Frames), s /= <<>>, NEW i, Incr(s, i)
    PROVE  /\ Incr(Tail(s), i)
           /\ Nums(Tail(s), i) \subseteq Nums(s, i)
           /\ ~IsData(Head(s), i) => Nums(Tail(s), i) = Nums(s, i)
           /\ IsData(Head(s), i) =>
                /\ Head(s).n \in Nums(s, i)
                /\ Nums(s, i) = Nums(Tail(s), i) \cup {Head(s).n}
                /\ \A n \in Nums(Tail(s), i) : Head(s).n < n
<1>1. /\ Len(s) \in Nat \ {0} /\ Len(Tail(s)) = Len(s) - 1 /\ Head(s) = s[1]
      /\ \A a \in 1..Len(s) - 1 : Tail(s)[a] = s[a + 1]
      /\ \A a \in 1..Len(s) : s[a] \in Frames
  BY HeadTailProperties, EmptySeq, ElementOfSeq
<1>2. Head(s) \in Frames /\ Head(s).n \in Nat
  BY <1>1, FrameFields
<1>3. Incr(Tail(s), i)
  <2> SUFFICES ASSUME NEW a \in 1..Len(s) - 1, NEW b \in 1..Len(s) - 1, a < b,
                      IsData(Tail(s)[a], i), IsData(Tail(s)[b], i)
               PROVE  Tail(s)[a].n < Tail(s)[b].n
    BY <1>1 DEF Incr
  <2>1. a + 1 \in 1..Len(s) /\ b + 1 \in 1..Len(s) /\ a + 1 < b + 1
    BY <1>1
  <2> QED  BY <1>1, <2>1 DEF Incr
<1>4. ASSUME NEW n \in Nat
      PROVE  n \in Nums(s, i) <=> n \in Nums(Tail(s), i) \/ (IsData(Head(s), i) /\ Head(s).n = n)
  <2> DEFINE At(t, a) == IsData(t[a], i) /\ t[a].n = n
  <2>1. (\E a \in 1..Len(s) : At(s, a)) <=> At(s, 1) \/ \E a \in 2..Len(s) : At(s, a)
    BY <1>1
  <2>2. ASSUME NEW a \in 2..Len(s), At(s, a)
        PROVE  \E b \in 1..Len(s) - 1 : At(Tail(s), b)
    <3>1. a - 1 \in 1..Len(s) - 1 /\ Tail(s)[a - 1] = s[a]
      BY <1>1
    <3> QED  BY <2>2, <3>1
  <2>3. ASSUME NEW b \in 1..Len(s) - 1, At(Tail(s), b)
        PROVE  \E a \in 2..Len(s) : At(s, a)
    <3>1. b + 1 \in 2..Len(s) /\ Tail(s)[b] = s[b + 1]
      BY <1>1
    <3> QED  BY <2>3, <3>1
  <2> QED  BY <1>1, <2>1, <2>2, <2>3 DEF Nums
<1>5. ASSUME IsData(Head(s), i), NEW n \in Nums(Tail(s), i)
      PROVE  Head(s).n < n
  <2>1. PICK b \in 1..Len(s) - 1 : IsData(Tail(s)[b], i) /\ Tail(s)[b].n = n
    BY <1>1 DEF Nums
  <2>2. b + 1 \in 1..Len(s) /\ 1 < b + 1 /\ 1 \in 1..Len(s) /\ Tail(s)[b] = s[b + 1]
    BY <1>1
  <2> QED  BY <1>1, <1>5, <2>1, <2>2 DEF Incr
<1>6. Nums(Tail(s), i) \subseteq Nat /\ Nums(s, i) \subseteq Nat
  BY DEF Nums
<1> QED  BY <1>2, <1>3, <1>4, <1>5, <1>6

\* What a further frame changes of which kinds are in the stream.
LEMMA HasAppend ==
    ASSUME NEW s \in Seq(Frames), NEW f \in Frames, NEW A, NEW i
    PROVE  /\ Has(Append(s, f), A, i) <=> Has(s, A, i) \/ (f.act \in A /\ f.sid = i)
           /\ Once(s, A, i) /\ ~(Has(s, A, i) /\ f.act \in A /\ f.sid = i)
                => Once(Append(s, f), A, i)
<1>1. /\ Len(Append(s, f)) = Len(s) + 1 /\ Len(s) \in Nat
      /\ \A a \in 1..Len(s) : Append(s, f)[a] = s[a]
      /\ Append(s, f)[Len(s) + 1] = f
  BY AppendProperties, LenProperties
<1>2. Has(Append(s, f), A, i) => Has(s, A, i) \/ (f.act \in A /\ f.sid = i)
  BY <1>1 DEF Has
<1>3. Has(s, A, i) \/ (f.act \in A /\ f.sid = i) => Has(Append(s, f), A, i)
  <2>1. Len(s) + 1 \in 1..Len(s) + 1 /\ 1..Len(s) \subseteq 1..Len(s) + 1
    BY <1>1
  <2> QED  BY <1>1, <2>1 DEF Has
<1>4. ASSUME Once(s, A, i), ~(Has(s, A, i) /\ f.act \in A /\ f.sid = i)
      PROVE  Once(Append(s, f), A, i)
  BY <1>1, <1>4 DEF Has, Once
<1> QED  BY <1>2, <1>3, <1>4

\* What its first frame leaves behind.
LEMMA HasTail ==
    ASSUME NEW s \in Seq(Frames), s /= <<>>, NEW A, NEW i, Once(s, A, i)
    PROVE  /\ Once(Tail(s), A, i)
           /\ Has(Tail(s), A, i) => Has(s, A, i)
           /\ Head(s).act \in A /\ Head(s).sid = i => Has(s, A, i) /\ ~Has(Tail(s), A, i)
<1>1. /\ Len(s) \in Nat \ {0} /\ Len(Tail(s)) = Len(s) - 1 /\ Head(s) = s[1]
      /\ \A a \in 1..Len(s) - 1 : Tail(s)[a] = s[a + 1] /\ a + 1 \in 1..Len(s)
      /\ 1 \in 1..Len(s)
  BY HeadTailProperties, EmptySeq
<1>2. Once(Tail(s), A, i)
  BY <1>1 DEF Once
<1>3. Has(Tail(s), A, i) => Has(s, A, i)
  BY <1>1 DEF Has
<1>4. ASSUME Head(s).act \in A, Head(s).sid = i
      PROVE  Has(s, A, i) /\ ~Has(Tail(s), A, i)
  BY <1>1, <1>4 DEF Has, Once
<1> QED  BY <1>2, <1>3, <1>4

\* A stream of one session stays one.
LEMMA OwnAppend ==
    ASSUME NEW s \in Seq(Frames), NEW f \in Frames, NEW i, Own(s, i), f.sid = i
    PROVE  Own(Append(s, f), i)
<1>1. /\ Len(Append(s, f)) = Len(s) + 1 /\ Len(s) \in Nat
      /\ \A a \in 1..Len(s) : Append(s, f)[a] = s[a]
      /\ Append(s, f)[Len(s) + 1] = f
  BY AppendProperties, LenProperties
<1> QED  BY <1>1 DEF Own

\* The first frame of such a stream is the session's, and so are the others.
LEMMA OwnTail ==
    ASSUME NEW s \in Seq(Frames), s /= <<>>, NEW i, Own(s, i)
    PROVE  Head(s).sid = i /\ Own(Tail(s), i)
<1>1. /\ Len(s) \in Nat \ {0} /\ Len(Tail(s)) = Len(s) - 1 /\ Head(s) = s[1]
      /\ \A a \in 1..Len(s) - 1 : Tail(s)[a] = s[a + 1] /\ a + 1 \in 1..Len(s)
      /\ 1 \in 1..Len(s)
  BY HeadTailProperties, EmptySeq
<1> QED  BY <1>1 DEF Own

-----------------------------------------------------------------------------
(* Types *)

\* Writing to the tunnel, and reading from it.
LEMMA SendType ==
    ASSUME TypeOK, NEW x \in Side, NEW f \in Frames, Send(x, f)
    PROVE  net' \in [Side -> Seq(Frames)]
<1>1. Peer(x) \in Side
  BY DEF Peer, Side
<1>2. Append(net[Peer(x)], f) \in Seq(Frames)
  BY <1>1, AppendProperties DEF TypeOK
<1> QED  BY <1>1, <1>2 DEF TypeOK, Send

\* What Listen reads is a frame of a session.
LEMMA HeadType ==
    ASSUME TypeOK, NEW x \in Side, net[x] /= <<>>
    PROVE  /\ net[x] \in Seq(Frames) /\ Head(net[x]) \in Frames
           /\ Head(net[x]).sid \in Sid /\ EdgeOf(x) \in E
           /\ Tail(net[x]) \in Seq(Frames)
<1>1. net[x] \in Seq(Frames)
  BY DEF TypeOK
<1>2. Head(net[x]) \in Frames /\ Tail(net[x]) \in Seq(Frames)
  BY <1>1, HeadTailProperties
<1>3. Head(net[x]).sid \in Sid
  BY <1>2, FrameFields
<1> QED  BY <1>1, <1>2, <1>3 DEF EdgeOf, E

\* The first frame is taken off.
LEMMA ConsumeType ==
    ASSUME TypeOK, NEW x \in Side, net[x] /= <<>>, Consume(x)
    PROVE  net' \in [Side -> Seq(Frames)]
BY HeadType DEF TypeOK, Consume

\* A frame is put into a queue.
LEMMA DeliverType ==
    ASSUME TypeOK, NEW e \in E, NEW f \in Frames, deliver(e, f)
    PROVE  q' \in [E -> Seq(Frames)]
<1>1. Append(q[e], f) \in Seq(Frames)
  BY AppendProperties DEF TypeOK
<1> QED  BY <1>1 DEF TypeOK, deliver

\* A queue exits.
LEMMA CloseForceType ==
    ASSUME TypeOK, NEW e \in E, closeForce(e)
    PROVE  /\ q' \in [E -> Seq(Frames)] /\ closed' \in [E -> SUBSET Bits]
           /\ qOpen' \in [E -> BOOLEAN] /\ rd' \in [E -> BOOLEAN] /\ wr' \in [E -> BOOLEAN]
<1>1. q' \in [E -> Seq(Frames)] /\ closed' \in [E -> SUBSET Bits]
  BY EmptySeq DEF TypeOK, closeForce
<1>2. qOpen' \in [E -> BOOLEAN] /\ rd' \in [E -> BOOLEAN] /\ wr' \in [E -> BOOLEAN]
  BY Zenon DEF TypeOK, closeForce
<1> QED  BY <1>1, <1>2

\* preDeliver appends the frame that Listen holds.
LEMMA HeldFrame ==
    ASSUME TypeOK, HeldInv, held /= <<>>
    PROVE  /\ held[1] \in Frames /\ held[1].act = "DATA" /\ held[1].sid \in Sid
           /\ held = <<held[1]>>
           /\ \A s \in Seq(Frames) : s \o held = Append(s, held[1])
<1>1. held \in Seq(Frames) /\ Len(held) = 1 /\ held[1].act = "DATA"
  BY DEF TypeOK, HeldInv
<1>2. held[1] \in Frames
  BY <1>1, ElementOfSeq
<1>3. held = <<held[1]>>
  BY <1>1, <1>2
<1>4. ASSUME NEW s \in Seq(Frames)
      PROVE  s \o held = Append(s, held[1])
  BY <1>2, <1>3, AppendIsConcat
<1> QED  BY <1>1, <1>2, <1>3, <1>4, FrameFields

\* Every step keeps the types.
LEMMA TypeStep ==
    ASSUME TypeOK, Next
    PROVE  TypeOK'
<1> USE MuxAssumption DEF TypeOK, Goto, edgeVars, preVars
<1>1. ASSUME NEW i \in Sid, HandleRequest(i) PROVE TypeOK'
  <2>1. <<"C", i>> \in E
    BY PairEdge DEF Side
  <2>2. reg' \in [E -> BOOLEAN] /\ qOpen' \in [E -> BOOLEAN]
        /\ rd' \in [E -> BOOLEAN] /\ wr' \in [E -> BOOLEAN]
    BY <1>1, <2>1, Zenon DEF HandleRequest, register
  <2>3. q' \in [E -> Seq(Frames)]
    BY <1>1, <2>1, EmptySeq DEF HandleRequest, register
  <2> QED  BY <1>1, <2>1, <2>2, <2>3 DEF HandleRequest, register
<1>2. ASSUME NEW i \in Sid, HandleOffline(i) PROVE TypeOK'
  <2>1. <<"C", i>> \in E
    BY PairEdge DEF Side
  <2> QED  BY <1>2, <2>1 DEF HandleOffline
<1>3. ASSUME NEW i \in Sid, RelayStart(i) PROVE TypeOK'
  <2>1. <<"C", i>> \in E /\ "C" \in Side /\ Frm("OPEN", i, 0) \in Frames
    BY PairEdge, FrmType DEF Side
  <2>2. net' \in [Side -> Seq(Frames)]
    BY <1>3, <2>1, SendType DEF RelayStart
  <2> QED  BY <1>3, <2>1, <2>2 DEF RelayStart, Replies
<1>4. ASSUME NEW i \in Sid, RelaySignal(i) PROVE TypeOK'
  <2>1. <<"C", i>> \in E
    BY PairEdge DEF Side
  <2> QED  BY <1>4, <2>1 DEF RelaySignal, Replies
<1>5. ASSUME NEW i \in Sid, RelayNoSignal(i) PROVE TypeOK'
  <2>1. <<"C", i>> \in E
    BY PairEdge DEF Side
  <2> QED  BY <1>5, <2>1 DEF RelayNoSignal
<1>6. ASSUME NEW i \in Sid, RelayWaitTimeout(i) PROVE TypeOK'
  <2>1. <<"C", i>> \in E
    BY PairEdge DEF Side
  <2> QED  BY <1>6, <2>1 DEF RelayWaitTimeout
<1>7. ASSUME NEW i \in Sid, RelayReadTimeout(i) PROVE TypeOK'
  <2>1. <<"C", i>> \in E
    BY PairEdge DEF Side
  <2> QED  BY <1>7, <2>1 DEF RelayReadTimeout
<1>8. ASSUME NEW i \in Sid, ConnectOk(i) PROVE TypeOK'
  <2>1. <<"S", i>> \in E
    BY PairEdge DEF Side
  <2>2. reg' \in [E -> BOOLEAN] /\ qOpen' \in [E -> BOOLEAN]
        /\ rd' \in [E -> BOOLEAN] /\ wr' \in [E -> BOOLEAN] /\ inPre' \in [Sid -> BOOLEAN]
    BY <1>8, <2>1, Zenon DEF ConnectOk, register
  <2>3. q' \in [E -> Seq(Frames)] /\ pre' \in [Sid -> Seq(Frames)]
    BY <1>8, <2>1, EmptySeq DEF ConnectOk, register
  <2> QED  BY <1>8, <2>1, <2>2, <2>3 DEF ConnectOk, register
<1>9. ASSUME NEW i \in Sid, ConnectAccept(i) PROVE TypeOK'
  <2>1. <<"S", i>> \in E /\ "S" \in Side /\ Frm("OPEN_Y", i, 0) \in Frames
    BY PairEdge, FrmType DEF Side, Replies
  <2>2. net' \in [Side -> Seq(Frames)]
    BY <1>9, <2>1, SendType DEF ConnectAccept
  <2> QED  BY <1>9, <2>1, <2>2 DEF ConnectAccept
<1>10. ASSUME NEW i \in Sid, ConnectFail(i) PROVE TypeOK'
  <2>1. <<"S", i>> \in E
    BY PairEdge DEF Side
  <2>2. pre' \in [Sid -> Seq(Frames)]
    BY <1>10, EmptySeq DEF ConnectFail, removePreRegistered
  <2>3. inPre' \in [Sid -> BOOLEAN]
    BY <1>10, Zenon DEF ConnectFail, removePreRegistered
  <2> QED  BY <1>10, <2>1, <2>2, <2>3 DEF ConnectFail
<1>11. ASSUME NEW i \in Sid, ConnectRefuse(i) PROVE TypeOK'
  <2>1. <<"S", i>> \in E /\ "S" \in Side
    BY PairEdge DEF Side
  <2>2. Frm(relay[<<"S", i>>], i, 0) \in Frames
    BY <1>11, FrmType DEF ConnectRefuse, Replies
  <2>3. net' \in [Side -> Seq(Frames)]
    BY <1>11, <2>1, <2>2, SendType DEF ConnectRefuse
  <2> QED  BY <1>11, <2>1, <2>3 DEF ConnectRefuse
<1>12. ASSUME NEW e \in E, RelayRead(e) PROVE TypeOK'
  <2>0. sent[e] + 1 \in Nat
    OBVIOUS
  <2>1. Frm("DATA", e[2], sent[e] + 1) \in Frames /\ e[1] \in Side
    BY <2>0, EdgePair, FrmType
  <2>2. net' \in [Side -> Seq(Frames)]
    BY <1>12, <2>1, SendType DEF RelayRead
  <2>3. tn' \in [Sid -> Nat]
    <3>1. PICK nr \in 1..BufMax :
            tn' = IF e[1] = "C" THEN [tn EXCEPT ![e[2]] = @ + nr] ELSE tn
      BY <1>12 DEF RelayRead
    <3>2. tn \in [Sid -> Nat] /\ nr \in Nat /\ e[2] \in Sid
      BY EdgePair
    <3>3. tn[e[2]] + nr \in Nat
      BY <3>2
    <3> HIDE MuxAssumption DEF TypeOK
    <3> QED  BY <3>1, <3>2, <3>3
  <2>4. /\ sent' \in [E -> Nat]
        /\ \E l \in {"end", "signal", "read"} : relay' = [relay EXCEPT ![e] = l]
        /\ UNCHANGED <<tunOk, listening, held, reg, preVars, edgeVars, out, code,
                       ready, notice, blacklist>>
    <3> DEFINE l == IF ~tunOk THEN "end" ELSE IF relay[e] = "fastread" THEN "signal" ELSE "read"
    <3>1. relay' = [relay EXCEPT ![e] = l]
      BY <1>12 DEF RelayRead
    <3>2. l \in {"end", "signal", "read"}
      OBVIOUS
    <3>3. /\ sent' \in [E -> Nat]
          /\ UNCHANGED <<tunOk, listening, held, reg, preVars, edgeVars, out, code,
                         ready, notice, blacklist>>
      BY <1>12 DEF RelayRead
    <3> HIDE DEF l
    <3> QED  BY <3>1, <3>2, <3>3
  <2> HIDE MuxAssumption
  <2> QED  BY <2>2, <2>3, <2>4
<1>13. ASSUME NEW e \in E, RelayEof(e) PROVE TypeOK'
  BY <1>13 DEF RelayEof
<1>14. ASSUME NEW e \in E, RelayEnd(e) PROVE TypeOK'
  <2>1. rd' \in [E -> BOOLEAN] /\ wr' \in [E -> BOOLEAN] /\ notice' \in [E -> BOOLEAN]
    BY <1>14 DEF RelayEnd
  <2> QED  BY <1>14, <2>1 DEF RelayEnd, Bits
<1>15. ASSUME NEW e \in E, Notice(e) PROVE TypeOK'
  <2>1. Frm("CLOSE_W", e[2], 0) \in Frames /\ e[1] \in Side
    BY EdgePair, FrmType
  <2>2. net' \in [Side -> Seq(Frames)]
    BY <1>15, <2>1, SendType DEF Notice
  <2>3. notice' \in [E -> BOOLEAN]
    BY <1>15, Zenon DEF Notice
  <2> QED  BY <1>15, <2>2, <2>3 DEF Notice
<1>16. ASSUME NEW e \in E, QueueWrite(e) PROVE TypeOK'
  <2>1. q[e] \in Seq(Frames) /\ q[e] /= <<>>
    BY <1>16 DEF QueueWrite, QHead
  <2>2. Head(q[e]).n \in Nat /\ Tail(q[e]) \in Seq(Frames)
    BY <2>1, HeadTailProperties, FrameFields
  <2>3. Append(out[e], Head(q[e]).n) \in Seq(Nat)
    BY <2>2, AppendProperties
  <2> QED  BY <1>16, <2>2, <2>3 DEF QueueWrite
<1>17. ASSUME NEW e \in E, QueueWriteErr(e) PROVE TypeOK'
  <2>1. Frm("CLOSE_R", e[2], 0) \in Frames /\ e[1] \in Side
    BY EdgePair, FrmType
  <2>2. net' \in [Side -> Seq(Frames)]
    BY <1>17, <2>1, SendType DEF QueueWriteErr
  <2> QED  BY <1>17, <2>2, CloseForceType DEF QueueWriteErr
<1>18. ASSUME NEW e \in E, QueueClose(e) PROVE TypeOK'
  BY <1>18, CloseForceType DEF QueueClose
<1>19. ASSUME NEW e \in E, QueueCloseW(e) PROVE TypeOK'
  <2>1. q' \in [E -> Seq(Frames)]
    BY <1>19, EmptySeq DEF QueueCloseW
  <2>2. qOpen' \in [E -> BOOLEAN] /\ wr' \in [E -> BOOLEAN]
    BY <1>19, Zenon DEF QueueCloseW
  <2> QED  BY <1>19, <2>1, <2>2 DEF QueueCloseW
<1>20. ASSUME NEW e \in E, Clean(e) PROVE TypeOK'
  <2>1. reg' \in [E -> BOOLEAN]
    BY <1>20 DEF Clean, Forget, Found
  <2> QED  BY <1>20, <2>1 DEF Clean
<1>21. ASSUME NEW x \in Side, ListenDeliver(x) PROVE TypeOK'
  <2>1. net[x] /= <<>>
    BY <1>21 DEF ListenDeliver, Incoming
  <2>2. EdgeOf(x) \in E /\ Head(net[x]) \in Frames
    BY <2>1, HeadType
  <2>3. net' \in [Side -> Seq(Frames)] /\ q' \in [E -> Seq(Frames)]
    BY <1>21, <2>1, <2>2, ConsumeType, DeliverType DEF ListenDeliver
  <2>4. closed' \in [E -> SUBSET Bits]
    BY <1>21, <2>2 DEF ListenDeliver, Bits
  <2> QED  BY <1>21, <2>3, <2>4 DEF ListenDeliver
<1>22. ASSUME NEW x \in Side, ListenCloseR(x) PROVE TypeOK'
  <2>1. net[x] /= <<>>
    BY <1>22 DEF ListenCloseR, Incoming
  <2>2. EdgeOf(x) \in E
    BY <2>1, HeadType
  <2>3. net' \in [Side -> Seq(Frames)]
    BY <1>22, <2>1, ConsumeType DEF ListenCloseR
  <2>4. closed' \in [E -> SUBSET Bits] /\ rd' \in [E -> BOOLEAN]
    BY <1>22, <2>2 DEF ListenCloseR, Bits
  <2> QED  BY <1>22, <2>3, <2>4 DEF ListenCloseR
<1>23. ASSUME NEW x \in Side, ListenUnknown(x) PROVE TypeOK'
  <2>1. net[x] /= <<>>
    BY <1>23 DEF ListenUnknown, Incoming
  <2>2. EdgeOf(x) \in E /\ Tail(net[x]) \in Seq(Frames) /\ Head(net[x]).sid \in Sid
    BY <2>1, HeadType
  <2>3. Peer(x) \in Side /\ Peer(x) /= x /\ Frm("CLOSE_R", Head(net[x]).sid, 0) \in Frames
    BY <2>2, FrmType DEF Peer, Side
  <2>4. Append(net[Peer(x)], Frm("CLOSE_R", Head(net[x]).sid, 0)) \in Seq(Frames)
    BY <2>3, AppendProperties
  <2>5. net' \in [Side -> Seq(Frames)]
    BY <1>23, <2>2, <2>3, <2>4 DEF ListenUnknown
  <2>6. reg' \in [E -> BOOLEAN]
    BY <1>23, <2>2 DEF ListenUnknown, Forget, Found
  <2> QED  BY <1>23, <2>5, <2>6 DEF ListenUnknown
<1>24. ASSUME NEW x \in Side, TunDisconnected(x) PROVE TypeOK'
  <2>1. ASSUME NEW e \in E
        PROVE  Append(q[e], Frm("CLOSE", e[2], 0)) \in Seq(Frames)
    <3>1. Frm("CLOSE", e[2], 0) \in Frames
      BY EdgePair, FrmType
    <3> QED  BY <3>1, AppendProperties
  <2>2. q' \in [E -> Seq(Frames)]
    BY <1>24, <2>1 DEF TunDisconnected
  <2>3. listening' \in [Side -> BOOLEAN] /\ reg' \in [E -> BOOLEAN]
    BY <1>24 DEF TunDisconnected
  <2> QED  BY <1>24, <2>2, <2>3 DEF TunDisconnected
<1>25. CASE ListenReply
  <2>1. "C" \in Side /\ net["C"] /= <<>>
    BY <1>25 DEF ListenReply, Incoming, Side
  <2>2. net' \in [Side -> Seq(Frames)]
    BY <1>25, <2>1, ConsumeType DEF ListenReply
  <2>3. ready' \in [Sid -> Replies \cup {"empty", "taken", "panic"}]
    BY <1>25, <2>1, HeadType DEF ListenReply, Incoming
  <2> QED  BY <1>25, <2>2, <2>3 DEF ListenReply
<1>26. CASE ListenOpen
  <2>1. "S" \in Side /\ net["S"] /= <<>>
    BY <1>26 DEF ListenOpen, Incoming, Side
  <2>2. net' \in [Side -> Seq(Frames)]
    BY <1>26, <2>1, ConsumeType DEF ListenOpen
  <2>3. Head(net["S"]).sid \in Sid /\ <<"S", Head(net["S"]).sid>> \in E
    BY <2>1, HeadType, PairEdge
  <2>4. inPre' \in [Sid -> BOOLEAN]
    BY <1>26, <2>3, Zenon DEF ListenOpen
  <2>5. pre' \in [Sid -> Seq(Frames)]
    BY <1>26, <2>3, EmptySeq DEF ListenOpen
  <2> QED  BY <1>26, <2>2, <2>3, <2>4, <2>5 DEF ListenOpen
<1>27. CASE ListenPre
  <2>1. "S" \in Side /\ net["S"] /= <<>>
    BY <1>27 DEF ListenPre, Incoming, Side
  <2>2. net' \in [Side -> Seq(Frames)]
    BY <1>27, <2>1, ConsumeType DEF ListenPre
  <2>3. Head(net["S"]) \in Frames
    BY <2>1, HeadType
  <2>4. <<Head(net["S"])>> \in Seq(Frames)
    BY <2>3
  <2> QED  BY <1>27, <2>2, <2>4 DEF ListenPre
<1>28. CASE preDeliver
  <2>1. \A j \in Sid : pre[j] \o held \in Seq(Frames)
    BY ConcatProperties
  <2>2. held[1].sid \in Sid
    <3>1. Len(held) \in Nat \ {0} /\ 1 \in 1..Len(held)
      BY <1>28, EmptySeq DEF preDeliver
    <3> QED  BY <3>1, ElementOfSeq, FrameFields
  <2>3. pre' \in [Sid -> Seq(Frames)]
    BY <1>28, <2>1, <2>2 DEF preDeliver
  <2> QED  BY <1>28, <2>3, EmptySeq DEF preDeliver
<1>29. CASE TunBreak
  <2>1. net' \in [Side -> Seq(Frames)]
    BY <1>29, EmptySeq DEF TunBreak
  <2> QED  BY <1>29, <2>1 DEF TunBreak
<1> QED
  BY <1>1, <1>2, <1>3, <1>4, <1>5, <1>6, <1>7, <1>8, <1>9, <1>10, <1>11, <1>12,
     <1>13, <1>14, <1>15, <1>16, <1>17, <1>18, <1>19, <1>20, <1>21, <1>22,
     <1>23, <1>24, <1>25, <1>26, <1>27, <1>28, <1>29
  DEF Next, RelayRun, Connect, Listen, ListenS, Queue

-----------------------------------------------------------------------------
(* Control *)

\* The step adds no frame of the kinds A to the stream to side y.
Calm(y, A) ==
    \A i \in Sid : Once(net[y], A, i) =>
        Once(net'[y], A, i) /\ (Has(net'[y], A, i) => Has(net[y], A, i))

\* Writing a frame of another kind, or to the other side, adds none.
LEMMA CalmSend ==
    ASSUME TypeOK, NEW x \in Side, NEW f \in Frames, Send(x, f), NEW y \in Side, NEW A,
           f.act \in A => y /= Peer(x)
    PROVE  Calm(y, A)
<1>1. net[y] \in Seq(Frames) /\ Peer(x) \in Side
  BY DEF TypeOK, Peer, Side
<1>2. net'[y] = net[y] \/ (y = Peer(x) /\ net'[y] = Append(net[y], f))
  BY <1>1 DEF TypeOK, Send
<1>3. CASE net'[y] = net[y]
  BY <1>3 DEF Calm
<1>4. CASE y = Peer(x) /\ net'[y] = Append(net[y], f)
  BY <1>1, <1>4, HasAppend DEF Calm
<1> QED  BY <1>2, <1>3, <1>4

\* Reading a frame adds none.
LEMMA CalmConsume ==
    ASSUME TypeOK, NEW x \in Side, net[x] /= <<>>, Consume(x), NEW y \in Side, NEW A
    PROVE  Calm(y, A)
<1>1. net[y] \in Seq(Frames)
  BY DEF TypeOK
<1>2. net'[y] = net[y] \/ (y = x /\ net'[y] = Tail(net[y]))
  BY DEF TypeOK, Consume
<1>3. CASE net'[y] = net[y]
  BY <1>3 DEF Calm
<1>4. CASE y = x /\ net'[y] = Tail(net[y])
  BY <1>1, <1>4, HasTail DEF Calm
<1> QED  BY <1>2, <1>3, <1>4

\* An unknown frame is taken from its stream; CLOSE_R may go the other way.
LEMMA UnknownNet ==
    ASSUME TypeOK, NEW x \in Side, ListenUnknown(x)
    PROVE  \E f \in Frames :
             /\ f.act = "CLOSE_R" /\ net'[x] = Tail(net[x])
             /\ net'[Peer(x)] \in {net[Peer(x)], Append(net[Peer(x)], f)}
<1> DEFINE f == Frm("CLOSE_R", Head(net[x]).sid, 0)
<1>1. net[x] /= <<>>
  BY DEF ListenUnknown, Incoming
<1>2. Head(net[x]).sid \in Sid
  BY <1>1, HeadType
<1>3. f \in Frames /\ f.act = "CLOSE_R"
  BY <1>2, FrmType DEF Frm
<1>4. Peer(x) \in Side /\ Peer(x) /= x /\ net \in [Side -> Seq(Frames)]
  BY DEF TypeOK, Peer, Side
<1> HIDE DEF f
<1>5. net' = [net EXCEPT ![x] = Tail(@),
                         ![Peer(x)] = IF Head(net[x]).act = "DATA" THEN Append(@, f) ELSE @]
  BY DEF ListenUnknown, f
<1>6. net'[x] = Tail(net[x]) /\ net'[Peer(x)] \in {net[Peer(x)], Append(net[Peer(x)], f)}
  BY <1>4, <1>5
<1> QED  BY <1>3, <1>6

\* OPEN is written by relay only, its answers by connectToDest only.
Special(y) ==
    \/ y = "S" /\ \E i \in Sid : RelayStart(i)
    \/ y = "C" /\ \E i \in Sid : ConnectAccept(i) \/ ConnectRefuse(i)

\* No other step adds an OPEN or an answer to a stream.
LEMMA NetCalm ==
    ASSUME TypeOK, Next, NEW y \in Side, NEW A \in {{"OPEN"}, Replies}
    PROVE  Calm(y, A) \/ Special(y)
<1> USE DEF Special
<1>1. ASSUME NEW i \in Sid, HandleRequest(i) PROVE Calm(y, A) \/ Special(y)
  BY <1>1 DEF HandleRequest, Calm
<1>2. ASSUME NEW i \in Sid, HandleOffline(i) PROVE Calm(y, A) \/ Special(y)
  BY <1>2 DEF HandleOffline, Calm
<1>3. ASSUME NEW i \in Sid, RelayStart(i) PROVE Calm(y, A) \/ Special(y)
  <2>1. Frm("OPEN", i, 0) \in Frames /\ "C" \in Side /\ Peer("C") = "S"
    BY FrmType DEF Side, Peer
  <2>2. CASE dest[i] \in blacklist
    BY <1>3, <2>2 DEF RelayStart, Calm
  <2>3. CASE dest[i] \notin blacklist /\ y /= "S"
    BY <1>3, <2>1, <2>3, CalmSend DEF RelayStart
  <2>4. CASE y = "S"
    BY <1>3, <2>4
  <2> QED  BY <2>2, <2>3, <2>4
<1>4. ASSUME NEW i \in Sid, RelaySignal(i) PROVE Calm(y, A) \/ Special(y)
  BY <1>4 DEF RelaySignal, Calm
<1>5. ASSUME NEW i \in Sid, RelayNoSignal(i) PROVE Calm(y, A) \/ Special(y)
  BY <1>5 DEF RelayNoSignal, Calm
<1>6. ASSUME NEW i \in Sid, RelayWaitTimeout(i) PROVE Calm(y, A) \/ Special(y)
  BY <1>6 DEF RelayWaitTimeout, Calm
<1>7. ASSUME NEW i \in Sid, RelayReadTimeout(i) PROVE Calm(y, A) \/ Special(y)
  BY <1>7 DEF RelayReadTimeout, Calm
<1>8. ASSUME NEW i \in Sid, ConnectOk(i) PROVE Calm(y, A) \/ Special(y)
  BY <1>8 DEF ConnectOk, Calm
<1>9. ASSUME NEW i \in Sid, ConnectAccept(i) PROVE Calm(y, A) \/ Special(y)
  <2>1. Frm("OPEN_Y", i, 0) \in Frames /\ "S" \in Side /\ Peer("S") = "C"
    BY FrmType DEF Side, Peer, Replies
  <2>2. CASE y /= "C"
    BY <1>9, <2>1, <2>2, CalmSend DEF ConnectAccept
  <2>3. CASE y = "C"
    BY <1>9, <2>3
  <2> QED  BY <2>2, <2>3
<1>10. ASSUME NEW i \in Sid, ConnectFail(i) PROVE Calm(y, A) \/ Special(y)
  BY <1>10 DEF ConnectFail, Calm
<1>11. ASSUME NEW i \in Sid, ConnectRefuse(i) PROVE Calm(y, A) \/ Special(y)
  <2>1. Frm(relay[<<"S", i>>], i, 0) \in Frames /\ "S" \in Side /\ Peer("S") = "C"
    BY <1>11, FrmType DEF ConnectRefuse, Side, Peer, Replies
  <2>2. CASE y /= "C"
    BY <1>11, <2>1, <2>2, CalmSend DEF ConnectRefuse
  <2>3. CASE y = "C"
    BY <1>11, <2>3
  <2> QED  BY <2>2, <2>3
<1>12. ASSUME NEW e \in E, RelayRead(e) PROVE Calm(y, A) \/ Special(y)
  <2>1. e[1] \in Side /\ e[2] \in Sid /\ sent[e] + 1 \in Nat
    BY EdgePair DEF TypeOK
  <2>2. Frm("DATA", e[2], sent[e] + 1) \in Frames
    BY <2>1, FrmType
  <2>3. Frm("DATA", e[2], sent[e] + 1).act \notin A
    BY DEF Frm, Replies
  <2> QED  BY <1>12, <2>1, <2>2, <2>3, CalmSend DEF RelayRead
<1>13. ASSUME NEW e \in E, RelayEof(e) PROVE Calm(y, A) \/ Special(y)
  BY <1>13 DEF RelayEof, Calm
<1>14. ASSUME NEW e \in E, RelayEnd(e) PROVE Calm(y, A) \/ Special(y)
  BY <1>14 DEF RelayEnd, Calm
<1>15. ASSUME NEW e \in E, Notice(e) PROVE Calm(y, A) \/ Special(y)
  <2>1. e[1] \in Side /\ Frm("CLOSE_W", e[2], 0) \in Frames
    BY EdgePair, FrmType
  <2>2. Frm("CLOSE_W", e[2], 0).act \notin A
    BY DEF Frm, Replies
  <2> QED  BY <1>15, <2>1, <2>2, CalmSend DEF Notice
<1>16. ASSUME NEW e \in E, QueueWrite(e) PROVE Calm(y, A) \/ Special(y)
  BY <1>16 DEF QueueWrite, Calm
<1>17. ASSUME NEW e \in E, QueueWriteErr(e) PROVE Calm(y, A) \/ Special(y)
  <2>1. e[1] \in Side /\ Frm("CLOSE_R", e[2], 0) \in Frames
    BY EdgePair, FrmType
  <2>2. Frm("CLOSE_R", e[2], 0).act \notin A
    BY DEF Frm, Replies
  <2>3. CASE UNCHANGED net
    BY <2>3 DEF Calm
  <2>4. CASE Send(e[1], Frm("CLOSE_R", e[2], 0))
    BY <2>1, <2>2, <2>4, CalmSend
  <2> QED  BY <1>17, <2>3, <2>4 DEF QueueWriteErr
<1>18. ASSUME NEW e \in E, QueueClose(e) PROVE Calm(y, A) \/ Special(y)
  BY <1>18 DEF QueueClose, Calm
<1>19. ASSUME NEW e \in E, QueueCloseW(e) PROVE Calm(y, A) \/ Special(y)
  BY <1>19 DEF QueueCloseW, Calm
<1>20. ASSUME NEW e \in E, Clean(e) PROVE Calm(y, A) \/ Special(y)
  BY <1>20 DEF Clean, Calm
<1>21. ASSUME NEW x \in Side, ListenDeliver(x) PROVE Calm(y, A) \/ Special(y)
  <2>1. net[x] /= <<>>
    BY <1>21 DEF ListenDeliver, Incoming
  <2> QED  BY <1>21, <2>1, CalmConsume DEF ListenDeliver
<1>22. ASSUME NEW x \in Side, ListenCloseR(x) PROVE Calm(y, A) \/ Special(y)
  <2>1. net[x] /= <<>>
    BY <1>22 DEF ListenCloseR, Incoming
  <2> QED  BY <1>22, <2>1, CalmConsume DEF ListenCloseR
<1>23. ASSUME NEW x \in Side, ListenUnknown(x) PROVE Calm(y, A) \/ Special(y)
  <2>1. net[x] /= <<>>
    BY <1>23 DEF ListenUnknown, Incoming
  <2>2. net[y] \in Seq(Frames)
    BY DEF TypeOK
  <2>3. PICK f \in Frames : /\ f.act = "CLOSE_R" /\ net'[x] = Tail(net[x])
                            /\ net'[Peer(x)] \in {net[Peer(x)], Append(net[Peer(x)], f)}
    BY <1>23, UnknownNet
  <2>4. f.act \notin A /\ (y = x \/ y = Peer(x))
    BY <2>3 DEF Replies, Side, Peer
  <2>5. CASE y = x
    BY <2>1, <2>2, <2>3, <2>5, HasTail DEF Calm
  <2>6. CASE y = Peer(x) /\ net'[y] = Append(net[y], f)
    BY <2>2, <2>3, <2>4, <2>6, HasAppend DEF Calm
  <2>7. CASE y = Peer(x) /\ net'[y] = net[y]
    BY <2>7 DEF Calm
  <2> QED  BY <2>3, <2>4, <2>5, <2>6, <2>7
<1>24. ASSUME NEW x \in Side, TunDisconnected(x) PROVE Calm(y, A) \/ Special(y)
  BY <1>24 DEF TunDisconnected, Calm
<1>25. CASE ListenReply
  <2>1. "C" \in Side /\ net["C"] /= <<>>
    BY <1>25 DEF ListenReply, Incoming, Side
  <2> QED  BY <1>25, <2>1, CalmConsume DEF ListenReply
<1>26. CASE ListenOpen
  <2>1. "S" \in Side /\ net["S"] /= <<>>
    BY <1>26 DEF ListenOpen, Incoming, Side
  <2> QED  BY <1>26, <2>1, CalmConsume DEF ListenOpen
<1>27. CASE ListenPre
  <2>1. "S" \in Side /\ net["S"] /= <<>>
    BY <1>27 DEF ListenPre, Incoming, Side
  <2> QED  BY <1>27, <2>1, CalmConsume DEF ListenPre
<1>28. CASE preDeliver
  BY <1>28 DEF preDeliver, Calm
<1>29. CASE TunBreak
  <2>1. net'[y] = <<>>
    BY <1>29 DEF TunBreak
  <2> QED  BY <2>1, EmptyStream DEF Calm
<1> QED
  BY <1>1, <1>2, <1>3, <1>4, <1>5, <1>6, <1>7, <1>8, <1>9, <1>10, <1>11, <1>12,
     <1>13, <1>14, <1>15, <1>16, <1>17, <1>18, <1>19, <1>20, <1>21, <1>22,
     <1>23, <1>24, <1>25, <1>26, <1>27, <1>28, <1>29
  DEF Next, RelayRun, Connect, Listen, ListenS, Queue

\* Where the two relays of a session may go.
Keeps(i) ==
    /\ relay'[<<"C", i>>] \in {"idle", "start"} => relay[<<"C", i>>] \in {"idle", "start"}
    /\ relay'[<<"S", i>>] = "idle" <=> relay[<<"S", i>>] = "idle"
    /\ relay'[<<"S", i>>] = "dial" => relay[<<"S", i>>] = "dial"
    /\ relay'[<<"S", i>>] \in Unanswered => relay[<<"S", i>>] \in Unanswered
    /\ relay[<<"S", i>>] = "done" => relay'[<<"S", i>>] = "done"

\* Apart from the OPEN of the session, a relay does not go back.
LEMMA RelayKeeps ==
    ASSUME TypeOK, NEW i \in Sid, Next, ~ListenOpen
    PROVE  Keeps(i)
<1> USE DEF TypeOK, Keeps, Unanswered, Goto
<1>0. /\ <<"C", i>> \in E /\ <<"S", i>> \in E
      /\ \A j : <<"C", i>> /= <<"S", j>> /\ (<<"C", i>> = <<"C", j>> => i = j)
      /\ \A j : <<"S", i>> /= <<"C", j>> /\ (<<"S", i>> = <<"S", j>> => i = j)
  BY PairEdge DEF Side
<1>1. ASSUME NEW j \in Sid, HandleRequest(j) PROVE Keeps(i)
  BY <1>0, <1>1 DEF HandleRequest
<1>2. ASSUME NEW j \in Sid, HandleOffline(j) PROVE Keeps(i)
  BY <1>0, <1>2 DEF HandleOffline
<1>3. ASSUME NEW j \in Sid, RelayStart(j) PROVE Keeps(i)
  BY <1>0, <1>3 DEF RelayStart
<1>4. ASSUME NEW j \in Sid, RelaySignal(j) PROVE Keeps(i)
  BY <1>0, <1>4 DEF RelaySignal
<1>5. ASSUME NEW j \in Sid, RelayNoSignal(j) PROVE Keeps(i)
  BY <1>0, <1>5 DEF RelayNoSignal
<1>6. ASSUME NEW j \in Sid, RelayWaitTimeout(j) PROVE Keeps(i)
  BY <1>0, <1>6 DEF RelayWaitTimeout
<1>7. ASSUME NEW j \in Sid, RelayReadTimeout(j) PROVE Keeps(i)
  BY <1>0, <1>7 DEF RelayReadTimeout
<1>8. ASSUME NEW j \in Sid, ConnectOk(j) PROVE Keeps(i)
  BY <1>0, <1>8 DEF ConnectOk
<1>9. ASSUME NEW j \in Sid, ConnectAccept(j) PROVE Keeps(i)
  BY <1>0, <1>9 DEF ConnectAccept
<1>10. ASSUME NEW j \in Sid, ConnectFail(j) PROVE Keeps(i)
  BY <1>0, <1>10 DEF ConnectFail
<1>11. ASSUME NEW j \in Sid, ConnectRefuse(j) PROVE Keeps(i)
  BY <1>0, <1>11 DEF ConnectRefuse
<1>12. ASSUME NEW e \in E, RelayRead(e) PROVE Keeps(i)
  BY <1>0, <1>12 DEF RelayRead
<1>13. ASSUME NEW e \in E, RelayEof(e) PROVE Keeps(i)
  BY <1>0, <1>13 DEF RelayEof
<1>14. ASSUME NEW e \in E, RelayEnd(e) PROVE Keeps(i)
  BY <1>0, <1>14 DEF RelayEnd
<1>15. ASSUME NEW e \in E, Notice(e) PROVE Keeps(i)
  BY <1>0, <1>15 DEF Notice
<1>16. ASSUME NEW e \in E, QueueWrite(e) PROVE Keeps(i)
  BY <1>0, <1>16 DEF QueueWrite
<1>17. ASSUME NEW e \in E, QueueWriteErr(e) PROVE Keeps(i)
  BY <1>0, <1>17 DEF QueueWriteErr
<1>18. ASSUME NEW e \in E, QueueClose(e) PROVE Keeps(i)
  BY <1>0, <1>18 DEF QueueClose
<1>19. ASSUME NEW e \in E, QueueCloseW(e) PROVE Keeps(i)
  BY <1>0, <1>19 DEF QueueCloseW
<1>20. ASSUME NEW e \in E, Clean(e) PROVE Keeps(i)
  BY <1>0, <1>20 DEF Clean
<1>21. ASSUME NEW x \in Side, ListenDeliver(x) PROVE Keeps(i)
  BY <1>0, <1>21 DEF ListenDeliver
<1>22. ASSUME NEW x \in Side, ListenCloseR(x) PROVE Keeps(i)
  BY <1>0, <1>22 DEF ListenCloseR
<1>23. ASSUME NEW x \in Side, ListenUnknown(x) PROVE Keeps(i)
  BY <1>0, <1>23 DEF ListenUnknown
<1>24. ASSUME NEW x \in Side, TunDisconnected(x) PROVE Keeps(i)
  BY <1>0, <1>24 DEF TunDisconnected
<1>25. CASE ListenReply
  BY <1>0, <1>25 DEF ListenReply
<1>26. CASE ListenOpen
  BY <1>26
<1>27. CASE ListenPre
  BY <1>0, <1>27 DEF ListenPre
<1>28. CASE preDeliver
  BY <1>0, <1>28 DEF preDeliver
<1>29. CASE TunBreak
  BY <1>0, <1>29 DEF TunBreak
<1> HIDE DEF TypeOK, Keeps, Unanswered, Goto
<1> QED
  BY <1>1, <1>2, <1>3, <1>4, <1>5, <1>6, <1>7, <1>8, <1>9, <1>10, <1>11, <1>12,
     <1>13, <1>14, <1>15, <1>16, <1>17, <1>18, <1>19, <1>20, <1>21, <1>22,
     <1>23, <1>24, <1>25, <1>26, <1>27, <1>28, <1>29
  DEF Next, RelayRun, Connect, Listen, ListenS, Queue

\* The steps that may use edge.ready.
ReadyUse == UNCHANGED ready \/ ListenReply \/ \E i \in Sid : RelaySignal(i)

\* Only Listen and the client's relay use edge.ready.
LEMMA ReadyStep ==
    ASSUME Next
    PROVE  ReadyUse
<1> USE DEF ReadyUse
<1>1. ASSUME NEW j \in Sid, HandleRequest(j) PROVE ReadyUse
  BY <1>1 DEF HandleRequest
<1>2. ASSUME NEW j \in Sid, HandleOffline(j) PROVE ReadyUse
  BY <1>2 DEF HandleOffline
<1>3. ASSUME NEW j \in Sid, RelayStart(j) PROVE ReadyUse
  BY <1>3 DEF RelayStart
<1>4. ASSUME NEW j \in Sid, RelaySignal(j) PROVE ReadyUse
  BY <1>4
<1>5. ASSUME NEW j \in Sid, RelayNoSignal(j) PROVE ReadyUse
  BY <1>5 DEF RelayNoSignal
<1>6. ASSUME NEW j \in Sid, RelayWaitTimeout(j) PROVE ReadyUse
  BY <1>6 DEF RelayWaitTimeout
<1>7. ASSUME NEW j \in Sid, RelayReadTimeout(j) PROVE ReadyUse
  BY <1>7 DEF RelayReadTimeout
<1>8. ASSUME NEW j \in Sid, ConnectOk(j) PROVE ReadyUse
  BY <1>8 DEF ConnectOk
<1>9. ASSUME NEW j \in Sid, ConnectAccept(j) PROVE ReadyUse
  BY <1>9 DEF ConnectAccept
<1>10. ASSUME NEW j \in Sid, ConnectFail(j) PROVE ReadyUse
  BY <1>10 DEF ConnectFail
<1>11. ASSUME NEW j \in Sid, ConnectRefuse(j) PROVE ReadyUse
  BY <1>11 DEF ConnectRefuse
<1>12. ASSUME NEW e \in E, RelayRead(e) PROVE ReadyUse
  BY <1>12 DEF RelayRead
<1>13. ASSUME NEW e \in E, RelayEof(e) PROVE ReadyUse
  BY <1>13 DEF RelayEof
<1>14. ASSUME NEW e \in E, RelayEnd(e) PROVE ReadyUse
  BY <1>14 DEF RelayEnd
<1>15. ASSUME NEW e \in E, Notice(e) PROVE ReadyUse
  BY <1>15 DEF Notice
<1>16. ASSUME NEW e \in E, QueueWrite(e) PROVE ReadyUse
  BY <1>16 DEF QueueWrite
<1>17. ASSUME NEW e \in E, QueueWriteErr(e) PROVE ReadyUse
  BY <1>17 DEF QueueWriteErr
<1>18. ASSUME NEW e \in E, QueueClose(e) PROVE ReadyUse
  BY <1>18 DEF QueueClose
<1>19. ASSUME NEW e \in E, QueueCloseW(e) PROVE ReadyUse
  BY <1>19 DEF QueueCloseW
<1>20. ASSUME NEW e \in E, Clean(e) PROVE ReadyUse
  BY <1>20 DEF Clean
<1>21. ASSUME NEW x \in Side, ListenDeliver(x) PROVE ReadyUse
  BY <1>21 DEF ListenDeliver
<1>22. ASSUME NEW x \in Side, ListenCloseR(x) PROVE ReadyUse
  BY <1>22 DEF ListenCloseR
<1>23. ASSUME NEW x \in Side, ListenUnknown(x) PROVE ReadyUse
  BY <1>23 DEF ListenUnknown
<1>24. ASSUME NEW x \in Side, TunDisconnected(x) PROVE ReadyUse
  BY <1>24 DEF TunDisconnected
<1>25. CASE ListenReply
  BY <1>25
<1>26. CASE ListenOpen
  BY <1>26 DEF ListenOpen
<1>27. CASE ListenPre
  BY <1>27 DEF ListenPre
<1>28. CASE preDeliver
  BY <1>28 DEF preDeliver
<1>29. CASE TunBreak
  BY <1>29 DEF TunBreak
<1> QED
  BY <1>1, <1>2, <1>3, <1>4, <1>5, <1>6, <1>7, <1>8, <1>9, <1>10, <1>11, <1>12,
     <1>13, <1>14, <1>15, <1>16, <1>17, <1>18, <1>19, <1>20, <1>21, <1>22,
     <1>23, <1>24, <1>25, <1>26, <1>27, <1>28, <1>29
  DEF Next, RelayRun, Connect, Listen, ListenS, Queue

\* Listen reads OPEN only for a session that is idle on the server.
LEMMA OpenIdle ==
    ASSUME TypeOK, OpenInv, ListenOpen
    PROVE  /\ net["S"] /= <<>> /\ Head(net["S"]).sid \in Sid
           /\ Has(net["S"], {"OPEN"}, Head(net["S"]).sid)
           /\ ~Has(net'["S"], {"OPEN"}, Head(net["S"]).sid)
           /\ relay[<<"S", Head(net["S"]).sid>>] = "idle"
<1>1. /\ "S" \in Side /\ net["S"] \in Seq(Frames) /\ net["S"] /= <<>>
      /\ Head(net["S"]).act = "OPEN" /\ net'["S"] = Tail(net["S"])
  BY DEF ListenOpen, Incoming, Consume, TypeOK, Side
<1>2. Head(net["S"]).sid \in Sid
  BY <1>1, HeadType
<1>3. Once(net["S"], {"OPEN"}, Head(net["S"]).sid) /\ Head(net["S"]).act \in {"OPEN"}
  BY <1>1, <1>2 DEF OpenInv
<1>4. /\ Has(net["S"], {"OPEN"}, Head(net["S"]).sid)
      /\ ~Has(net'["S"], {"OPEN"}, Head(net["S"]).sid)
  BY <1>1, <1>3, HasTail
<1> QED  BY <1>1, <1>2, <1>4 DEF OpenInv

\* A session is opened once: relay writes OPEN when it starts, and the server
\* goes from idle to dialing when Listen reads it.
LEMMA OpenStep ==
    ASSUME TypeOK, OpenInv, Next
    PROVE  OpenInv'
<1> DEFINE Good(i) ==
        /\ Once(net'["S"], {"OPEN"}, i)
        /\ Has(net'["S"], {"OPEN"}, i) =>
             relay'[<<"S", i>>] = "idle" /\ relay'[<<"C", i>>] \notin {"idle", "start"}
        /\ relay'[<<"C", i>>] \in {"idle", "start"} => relay'[<<"S", i>>] = "idle"
<1>0. "S" \in Side /\ net["S"] \in Seq(Frames) /\ {"OPEN"} \in {{"OPEN"}, Replies}
  BY DEF TypeOK, Side
<1> SUFFICES ASSUME NEW i \in Sid
             PROVE  Good(i)
  BY DEF OpenInv
<1>a. Once(net["S"], {"OPEN"}, i)
  BY DEF OpenInv
<1>1. ASSUME NEW j \in Sid, RelayStart(j), ~Calm("S", {"OPEN"}), ~ListenOpen
      PROVE  Good(i)
  <2> DEFINE f == Frm("OPEN", j, 0)
  <2>1. f \in Frames /\ f.act \in {"OPEN"} /\ f.sid = j
    BY FrmType DEF Frm
  <2>2. net'["S"] = Append(net["S"], f)
    <3>1. net'["S"] = Append(net["S"], f) \/ net'["S"] = net["S"]
      BY <1>0, <1>1 DEF RelayStart, Send, Peer, TypeOK, Side
    <3> QED  BY <1>1, <3>1 DEF Calm
  <2> HIDE DEF f
  <2>3. ~Has(net["S"], {"OPEN"}, j) /\ relay[<<"S", j>>] = "idle"
    BY <1>1 DEF OpenInv, RelayStart
  <2>4. relay'[<<"C", j>>] \notin {"idle", "start"}
    BY <1>1, PairEdge DEF RelayStart, Goto, TypeOK, Side
  <2>5. Keeps(i)
    BY <1>1, RelayKeeps
  <2>6. Once(net'["S"], {"OPEN"}, i)
    BY <1>0, <1>a, <2>1, <2>2, <2>3, HasAppend
  <2>7. Has(net'["S"], {"OPEN"}, i) => Has(net["S"], {"OPEN"}, i) \/ i = j
    BY <1>0, <2>1, <2>2, HasAppend
  <2> QED  BY <2>3, <2>4, <2>5, <2>6, <2>7 DEF OpenInv, Keeps
<1>2. CASE ListenOpen
  <2> DEFINE j == Head(net["S"]).sid
  <2>1. /\ net["S"] /= <<>> /\ j \in Sid
        /\ Has(net["S"], {"OPEN"}, j) /\ ~Has(net'["S"], {"OPEN"}, j)
        /\ net'["S"] = Tail(net["S"])
    BY <1>0, <1>2, OpenIdle DEF ListenOpen, Consume, TypeOK
  <2>2. /\ Once(net'["S"], {"OPEN"}, i)
        /\ Has(net'["S"], {"OPEN"}, i) => Has(net["S"], {"OPEN"}, i)
    BY <1>0, <1>a, <2>1, HasTail
  <2>3. relay' = [relay EXCEPT ![<<"S", j>>] = "dial"]
    BY <1>2 DEF ListenOpen, Goto
  <2> HIDE DEF j
  <2>4. relay'[<<"C", i>>] = relay[<<"C", i>>] /\ (i /= j => relay'[<<"S", i>>] = relay[<<"S", i>>])
    BY <2>1, <2>3, PairEdge DEF TypeOK, Side
  <2> QED  BY <2>1, <2>2, <2>4 DEF OpenInv
<1>3. CASE ~ListenOpen /\ Calm("S", {"OPEN"})
  <2>1. Keeps(i)
    BY <1>3, RelayKeeps
  <2> QED  BY <1>3, <2>1 DEF Calm, OpenInv, Keeps
<1> HIDE DEF Good
<1> QED  BY <1>0, <1>1, <1>2, <1>3, NetCalm DEF Special

\* It is answered once: connectToDest writes the answer on its way out of the
\* states in which there is none.
LEMMA ReplyStep ==
    ASSUME TypeOK, OpenInv, ReplyInv, Next
    PROVE  ReplyInv'
<1> DEFINE Good(i) ==
        /\ Once(net'["C"], Replies, i)
        /\ Has(net'["C"], Replies, i) =>
             ready'[i] = "empty" /\ relay'[<<"S", i>>] \notin Unanswered
        /\ relay'[<<"S", i>>] \in Unanswered => ready'[i] = "empty"
        /\ ready'[i] /= "panic"
<1>0. /\ "C" \in Side /\ net["C"] \in Seq(Frames) /\ Replies \in {{"OPEN"}, Replies}
      /\ \A j \in Sid : <<"C", j>> \in E /\ <<"S", j>> \in E
  BY PairEdge DEF TypeOK, Side
<1> SUFFICES ASSUME NEW i \in Sid
             PROVE  Good(i)
  BY DEF ReplyInv
<1>a. Once(net["C"], Replies, i)
  BY DEF ReplyInv
<1>1. relay'[<<"S", i>>] \in Unanswered => relay[<<"S", i>>] \in Unanswered
  <2>1. CASE ListenOpen
    <3>1. Head(net["S"]).sid \in Sid /\ relay[<<"S", Head(net["S"]).sid>>] = "idle"
      BY <2>1, OpenIdle
    <3>2. relay' = [relay EXCEPT ![<<"S", Head(net["S"]).sid>>] = "dial"]
      BY <2>1 DEF ListenOpen, Goto
    <3> QED  BY <1>0, <3>1, <3>2 DEF Unanswered, TypeOK
  <2>2. CASE ~ListenOpen
    BY <2>2, RelayKeeps DEF Keeps
  <2> QED  BY <2>1, <2>2
<1>2. ASSUME NEW j \in Sid, NEW a \in Replies, NEW l,
             relay[<<"S", j>>] \in Unanswered, Send("S", Frm(a, j, 0)),
             Goto(<<"S", j>>, l), l \notin Unanswered, UNCHANGED ready
      PROVE  Good(i)
  <2> DEFINE f == Frm(a, j, 0)
  <2>1. f \in Frames /\ f.act \in Replies /\ f.sid = j
    BY <1>2, FrmType DEF Frm
  <2>2. net'["C"] = Append(net["C"], f) \/ net'["C"] = net["C"]
    BY <1>0, <1>2 DEF Send, Peer, TypeOK, Side
  <2> HIDE DEF f
  <2>3. ~Has(net["C"], Replies, j) /\ ready[j] = "empty"
    BY <1>2 DEF ReplyInv
  <2>4. Once(net'["C"], Replies, i)
    BY <1>0, <1>a, <2>1, <2>2, <2>3, HasAppend
  <2>5. Has(net'["C"], Replies, i) => Has(net["C"], Replies, i) \/ i = j
    <3>1. Has(Append(net["C"], f), Replies, i) => Has(net["C"], Replies, i) \/ i = j
      BY <1>0, <2>1, HasAppend
    <3> QED  BY <2>2, <3>1
  <2>6. relay'[<<"S", j>>] \notin Unanswered
    BY <1>0, <1>2 DEF Goto, TypeOK
  <2> QED  BY <1>1, <1>2, <2>3, <2>4, <2>5, <2>6 DEF ReplyInv
<1>3. ASSUME NEW j \in Sid, ConnectAccept(j)
      PROVE  Good(i)
  <2>1. /\ relay[<<"S", j>>] \in Unanswered /\ Send("S", Frm("OPEN_Y", j, 0))
        /\ Goto(<<"S", j>>, IF tunOk THEN "read" ELSE "stuck") /\ UNCHANGED ready
        /\ (IF tunOk THEN "read" ELSE "stuck") \notin Unanswered /\ "OPEN_Y" \in Replies
    BY <1>3 DEF ConnectAccept, Unanswered, Replies
  <2> HIDE DEF Good
  <2> QED  BY <1>2, <2>1
<1>4. ASSUME NEW j \in Sid, ConnectRefuse(j)
      PROVE  Good(i)
  <2>1. /\ relay[<<"S", j>>] \in Unanswered /\ relay[<<"S", j>>] \in Replies
        /\ Send("S", Frm(relay[<<"S", j>>], j, 0))
        /\ Goto(<<"S", j>>, "refused") /\ UNCHANGED ready /\ "refused" \notin Unanswered
    BY <1>4 DEF ConnectRefuse, Unanswered, Replies
  <2> HIDE DEF Good
  <2> QED  BY <1>2, <2>1
<1>5. CASE ListenReply
  <2> DEFINE j == Head(net["C"]).sid
  <2>1. /\ net["C"] /= <<>> /\ Head(net["C"]).act \in Replies /\ net'["C"] = Tail(net["C"])
        /\ UNCHANGED relay
    BY <1>0, <1>5 DEF ListenReply, Incoming, Consume, TypeOK
  <2>2. j \in Sid
    BY <1>0, <2>1, HeadType
  <2>3. Has(net["C"], Replies, j) /\ ~Has(net'["C"], Replies, j)
    <3>1. Once(net["C"], Replies, j)
      BY <2>2 DEF ReplyInv
    <3> QED  BY <1>0, <2>1, <3>1, HasTail
  <2>4. /\ Once(net'["C"], Replies, i)
        /\ Has(net'["C"], Replies, i) => Has(net["C"], Replies, i)
    BY <1>0, <1>a, <2>1, HasTail
  <2>5. ready[j] = "empty" /\ relay[<<"S", j>>] \notin Unanswered
    BY <2>2, <2>3 DEF ReplyInv
  <2>6. ready' = [ready EXCEPT ![j] = Head(net["C"]).act]
    BY <1>5, <2>2, <2>5 DEF ListenReply, TypeOK
  <2> HIDE DEF j
  <2>7. ready'[j] /= "panic" /\ (i /= j => ready'[i] = ready[i])
    BY <2>1, <2>2, <2>6 DEF TypeOK, Replies
  <2> QED  BY <2>1, <2>2, <2>3, <2>4, <2>5, <2>7 DEF ReplyInv
<1>6. ASSUME NEW j \in Sid, RelaySignal(j)
      PROVE  Good(i)
  <2>1. ready[j] \in Replies /\ ready[j] /= "empty"
    BY <1>6 DEF RelaySignal, Replies
  <2>2. ready' = [ready EXCEPT ![j] = "taken"] /\ UNCHANGED net
    BY <1>6 DEF RelaySignal
  <2>3. relay'[<<"S", i>>] = relay[<<"S", i>>]
    BY <1>0, <1>6 DEF RelaySignal, Goto, TypeOK
  <2> QED  BY <2>1, <2>2, <2>3 DEF ReplyInv, TypeOK
<1>7. CASE Calm("C", Replies) /\ UNCHANGED ready
  BY <1>1, <1>7 DEF Calm, ReplyInv
<1> HIDE DEF Good
<1>8. UNCHANGED ready \/ ListenReply \/ \E j \in Sid : RelaySignal(j)
  BY ReadyStep DEF ReadyUse
<1>9. Calm("C", Replies) \/ \E j \in Sid : ConnectAccept(j) \/ ConnectRefuse(j)
  BY <1>0, NetCalm DEF Special
<1> QED  BY <1>3, <1>4, <1>5, <1>6, <1>7, <1>8, <1>9

\* FastInv of one session: its relay r, its code c and the number t of bytes it has read.
FastAt(r, c, t) ==
    /\ r \in {"idle", "start", "signal", "wait", "fastread"} => c = "none"
    /\ r = "read" => c = "OPEN_Y"
    /\ r = "fastread" => t < FastMax
    /\ c /= "OPEN_Y" => t <= (FastMax - 1) + BufMax

\* A step is looked at for the one session it changes.
LEMMA FastFrame ==
    ASSUME FastInv, NEW i \in Sid,
           \A j \in Sid : j /= i => /\ relay'[<<"C", j>>] = relay[<<"C", j>>]
                                    /\ code'[j] = code[j] /\ tn'[j] = tn[j],
           FastAt(relay[<<"C", i>>], code[i], tn[i]) =>
               FastAt(relay'[<<"C", i>>], code'[i], tn'[i])
    PROVE  FastInv'
<1>1. \A j \in Sid : FastAt(relay[<<"C", j>>], code[j], tn[j])
  BY DEF FastInv, FastAt
<1>2. \A j \in Sid : FastAt(relay'[<<"C", j>>], code'[j], tn'[j])
  BY <1>1
<1> QED  BY <1>2 DEF FastInv, FastAt

\* The client's relay reads in fast open only when it has room.
LEMMA FastStep ==
    ASSUME TypeOK, FastInv, Next
    PROVE  FastInv'
<1> USE MuxAssumption DEF TypeOK, FastInv, Goto
<1>0. \A j \in Sid : <<"C", j>> \in E /\ <<"S", j>> \in E
  BY PairEdge DEF Side
<1>1. ASSUME NEW i \in Sid, HandleRequest(i) PROVE FastInv'
  BY <1>0, <1>1 DEF HandleRequest
<1>2. ASSUME NEW i \in Sid, HandleOffline(i) PROVE FastInv'
  BY <1>0, <1>2 DEF HandleOffline
<1>3. ASSUME NEW i \in Sid, RelayStart(i) PROVE FastInv'
  <2>1. /\ relay[<<"C", i>>] = "start" /\ UNCHANGED tn
        /\ \/ /\ code' = [code EXCEPT ![i] = "OPEN_DENIED"]
              /\ relay' = [relay EXCEPT ![<<"C", i>>] = "end"]
           \/ /\ UNCHANGED code
              /\ \E l \in {"signal", "end"} : relay' = [relay EXCEPT ![<<"C", i>>] = l]
    BY <1>3 DEF RelayStart
  <2>2. \A j \in Sid : j /= i => <<"C", j>> /= <<"C", i>>
    OBVIOUS
  <2>3. DOMAIN relay = E /\ DOMAIN code = Sid
    OBVIOUS
  <2> HIDE MuxAssumption DEF TypeOK, FastInv, Goto
  <2>4. \A j \in Sid : j /= i => code'[j] = code[j] /\ relay'[<<"C", j>>] = relay[<<"C", j>>]
    BY <1>0, <2>1, <2>2, <2>3
  <2>5. \/ code'[i] = "OPEN_DENIED" /\ relay'[<<"C", i>>] = "end"
        \/ code'[i] = code[i] /\ relay'[<<"C", i>>] \in {"signal", "end"}
    BY <1>0, <2>1, <2>3
  <2>6. FastAt(relay[<<"C", i>>], code[i], tn[i]) =>
          FastAt(relay'[<<"C", i>>], code'[i], tn'[i])
    BY <2>1, <2>5 DEF FastAt
  <2> QED  BY <2>1, <2>4, <2>6, FastFrame
<1>4. ASSUME NEW i \in Sid, RelaySignal(i) PROVE FastInv'
  BY <1>0, <1>4 DEF RelaySignal
<1>5. ASSUME NEW i \in Sid, RelayNoSignal(i) PROVE FastInv'
  <2>0. tn[i] \in Nat /\ FastMax \in Nat
    BY <1>0
  <2>1. FastFull(i) \/ tn[i] < FastMax
    BY <2>0 DEF FastFull
  <2>2. code[i] = "none"
    BY <1>5 DEF RelayNoSignal
  <2>3. \A j \in Sid : j /= i => relay'[<<"C", j>>] = relay[<<"C", j>>]
    BY <1>0, <1>5 DEF RelayNoSignal
  <2>4. /\ relay'[<<"C", i>>] \in {"wait", "fastread"}
        /\ relay'[<<"C", i>>] = "fastread" => tn[i] < FastMax
    BY <1>0, <2>1, <1>5 DEF RelayNoSignal
  <2>5. UNCHANGED <<tn, code>>
    BY <1>5 DEF RelayNoSignal
  <2> QED  BY <1>0, <2>2, <2>3, <2>4, <2>5
<1>6. ASSUME NEW i \in Sid, RelayWaitTimeout(i) PROVE FastInv'
  BY <1>0, <1>6 DEF RelayWaitTimeout
<1>7. ASSUME NEW i \in Sid, RelayReadTimeout(i) PROVE FastInv'
  BY <1>0, <1>7 DEF RelayReadTimeout
<1>8. ASSUME NEW i \in Sid, ConnectOk(i) PROVE FastInv'
  BY <1>0, <1>8 DEF ConnectOk
<1>9. ASSUME NEW i \in Sid, ConnectAccept(i) PROVE FastInv'
  BY <1>0, <1>9 DEF ConnectAccept
<1>10. ASSUME NEW i \in Sid, ConnectFail(i) PROVE FastInv'
  <2>1. UNCHANGED <<tn, code>> /\ \E l : relay' = [relay EXCEPT ![<<"S", i>>] = l]
    BY <1>10 DEF ConnectFail
  <2>2. \A j \in Sid : relay'[<<"C", j>>] = relay[<<"C", j>>]
    BY <1>0, <2>1
  <2> HIDE MuxAssumption DEF TypeOK, Goto
  <2> QED  BY <2>1, <2>2
<1>11. ASSUME NEW i \in Sid, ConnectRefuse(i) PROVE FastInv'
  BY <1>0, <1>11 DEF ConnectRefuse
<1>12. ASSUME NEW e \in E, RelayRead(e) PROVE FastInv'
  <2>1. UNCHANGED code /\ e[2] \in Sid /\ e = <<e[1], e[2]>>
    BY <1>12, EdgePair DEF RelayRead
  <2>2. \A d \in E : d /= e => relay'[d] = relay[d]
    BY <1>12 DEF RelayRead
  <2>3. CASE e[1] /= "C"
    <3>1. \A j \in Sid : <<"C", j>> /= e
      BY <2>1, <2>3
    <3>2. UNCHANGED tn
      BY <1>12, <2>3 DEF RelayRead
    <3> QED  BY <1>0, <2>1, <2>2, <3>1, <3>2
  <2>4. CASE e[1] = "C"
    <3> DEFINE i == e[2]
    <3>1. e = <<"C", i>> /\ \A j \in Sid : j /= i => <<"C", j>> /= e
      BY <2>1, <2>4
    <3> HIDE DEF i
    <3>2. /\ tn[i] \in Nat /\ tn'[i] \in Nat /\ tn'[i] <= tn[i] + BufMax
          /\ \A j \in Sid : j /= i => tn'[j] = tn[j]
      <4>1. PICK nr \in 1..BufMax : tn' = [tn EXCEPT ![i] = @ + nr]
        BY <1>12, <2>4 DEF RelayRead, i
      <4>2. i \in Sid /\ tn[i] \in Nat /\ BufMax \in Nat /\ DOMAIN tn = Sid
        BY <2>1 DEF i
      <4> HIDE MuxAssumption DEF TypeOK, FastInv, Goto
      <4> QED  BY <4>1, <4>2
    <3>3. relay[e] = "read" \/ (relay[e] = "fastread" /\ tn[i] < FastMax /\ code[i] = "none")
      BY <2>1, <3>1, <1>12 DEF RelayRead, i
    <3>4. /\ relay'[e] \in {"end", "signal", "read"}
          /\ relay'[e] = "signal" => relay[e] = "fastread"
          /\ relay'[e] = "read" => relay[e] = "read"
      BY <1>12 DEF RelayRead
    <3>5. i \in Sid /\ (relay[e] = "read" => code[i] = "OPEN_Y")
      BY <2>1, <3>1 DEF i
    <3>6. code[i] /= "OPEN_Y" => tn'[i] <= (FastMax - 1) + BufMax
      BY <3>2, <3>3, <3>5
    <3>7. \A j \in Sid : j /= i => /\ tn'[j] = tn[j] /\ code'[j] = code[j]
                                  /\ relay'[<<"C", j>>] = relay[<<"C", j>>]
      BY <1>0, <2>1, <2>2, <3>1, <3>2
    <3>8. code'[i] = code[i] /\ relay'[<<"C", i>>] = relay'[e]
      BY <2>1, <3>1
    <3>9. /\ relay'[<<"C", i>>] \in {"end", "signal", "read"}
          /\ relay'[<<"C", i>>] = "signal" => code'[i] = "none"
          /\ relay'[<<"C", i>>] = "read" => code'[i] = "OPEN_Y"
          /\ code'[i] /= "OPEN_Y" => tn'[i] <= (FastMax - 1) + BufMax
      BY <3>3, <3>4, <3>5, <3>6, <3>8
    <3> HIDE MuxAssumption DEF TypeOK, FastInv, Goto
    <3> QED  BY <3>5, <3>7, <3>9, FastFrame DEF FastAt
  <2> QED  BY <2>3, <2>4
<1>13. ASSUME NEW e \in E, RelayEof(e) PROVE FastInv'
  BY <1>0, <1>13 DEF RelayEof
<1>14. ASSUME NEW e \in E, RelayEnd(e) PROVE FastInv'
  BY <1>0, <1>14 DEF RelayEnd
<1>15. ASSUME NEW e \in E, Notice(e) PROVE FastInv'
  BY <1>0, <1>15 DEF Notice
<1>16. ASSUME NEW e \in E, QueueWrite(e) PROVE FastInv'
  BY <1>0, <1>16 DEF QueueWrite
<1>17. ASSUME NEW e \in E, QueueWriteErr(e) PROVE FastInv'
  BY <1>0, <1>17 DEF QueueWriteErr
<1>18. ASSUME NEW e \in E, QueueClose(e) PROVE FastInv'
  BY <1>0, <1>18 DEF QueueClose
<1>19. ASSUME NEW e \in E, QueueCloseW(e) PROVE FastInv'
  BY <1>0, <1>19 DEF QueueCloseW
<1>20. ASSUME NEW e \in E, Clean(e) PROVE FastInv'
  BY <1>0, <1>20 DEF Clean
<1>21. ASSUME NEW x \in Side, ListenDeliver(x) PROVE FastInv'
  BY <1>0, <1>21 DEF ListenDeliver
<1>22. ASSUME NEW x \in Side, ListenCloseR(x) PROVE FastInv'
  BY <1>0, <1>22 DEF ListenCloseR
<1>23. ASSUME NEW x \in Side, ListenUnknown(x) PROVE FastInv'
  BY <1>0, <1>23 DEF ListenUnknown
<1>24. ASSUME NEW x \in Side, TunDisconnected(x) PROVE FastInv'
  BY <1>0, <1>24 DEF TunDisconnected
<1>25. CASE ListenReply
  BY <1>0, <1>25 DEF ListenReply
<1>26. CASE ListenOpen
  BY <1>0, <1>26 DEF ListenOpen
<1>27. CASE ListenPre
  BY <1>0, <1>27 DEF ListenPre
<1>28. CASE preDeliver
  BY <1>0, <1>28 DEF preDeliver
<1>29. CASE TunBreak
  BY <1>0, <1>29 DEF TunBreak
<1> HIDE DEF TypeOK, FastInv, Goto
<1> QED
  BY <1>1, <1>2, <1>3, <1>4, <1>5, <1>6, <1>7, <1>8, <1>9, <1>10, <1>11, <1>12,
     <1>13, <1>14, <1>15, <1>16, <1>17, <1>18, <1>19, <1>20, <1>21, <1>22,
     <1>23, <1>24, <1>25, <1>26, <1>27, <1>28, <1>29
  DEF Next, RelayRun, Connect, Listen, ListenS, Queue

\* preRegistry has a buffer exactly while connectToDest dials.
LEMMA PreStep ==
    ASSUME TypeOK, PreOnlyWhileDialing, Next
    PROVE  PreOnlyWhileDialing'
<1> USE DEF TypeOK, PreOnlyWhileDialing, Goto, preVars
<1>0. \A j \in Sid : <<"C", j>> \in E /\ <<"S", j>> \in E
  BY PairEdge DEF Side
<1>1. ASSUME NEW i \in Sid, HandleRequest(i) PROVE PreOnlyWhileDialing'
  BY <1>0, <1>1 DEF HandleRequest
<1>2. ASSUME NEW i \in Sid, HandleOffline(i) PROVE PreOnlyWhileDialing'
  BY <1>0, <1>2 DEF HandleOffline
<1>3. ASSUME NEW i \in Sid, RelayStart(i) PROVE PreOnlyWhileDialing'
  <2>1. UNCHANGED inPre /\ \E l : relay' = [relay EXCEPT ![<<"C", i>>] = l]
    BY <1>3 DEF RelayStart
  <2>2. \A j \in Sid : <<"S", j>> /= <<"C", i>>
    OBVIOUS
  <2>3. \A j \in Sid : relay'[<<"S", j>>] = relay[<<"S", j>>]
    BY <1>0, <2>1, <2>2
  <2> QED  BY <2>1, <2>3
<1>4. ASSUME NEW i \in Sid, RelaySignal(i) PROVE PreOnlyWhileDialing'
  BY <1>0, <1>4 DEF RelaySignal
<1>5. ASSUME NEW i \in Sid, RelayNoSignal(i) PROVE PreOnlyWhileDialing'
  BY <1>0, <1>5 DEF RelayNoSignal
<1>6. ASSUME NEW i \in Sid, RelayWaitTimeout(i) PROVE PreOnlyWhileDialing'
  BY <1>0, <1>6 DEF RelayWaitTimeout
<1>7. ASSUME NEW i \in Sid, RelayReadTimeout(i) PROVE PreOnlyWhileDialing'
  BY <1>0, <1>7 DEF RelayReadTimeout
<1>8. ASSUME NEW i \in Sid, ConnectOk(i) PROVE PreOnlyWhileDialing'
  BY <1>0, <1>8 DEF ConnectOk
<1>9. ASSUME NEW i \in Sid, ConnectAccept(i) PROVE PreOnlyWhileDialing'
  BY <1>0, <1>9 DEF ConnectAccept
<1>10. ASSUME NEW i \in Sid, ConnectFail(i) PROVE PreOnlyWhileDialing'
  <2>1. PICK a \in {"OPEN_N", "OPEN_DENIED"} : Goto(<<"S", i>>, a)
    BY <1>10 DEF ConnectFail
  <2>2. \A j \in Sid : j /= i => relay'[<<"S", j>>] = relay[<<"S", j>>] /\ inPre'[j] = inPre[j]
    BY <1>0, <2>1, <1>10 DEF ConnectFail, removePreRegistered
  <2>3. ~inPre'[i] /\ relay'[<<"S", i>>] /= "dial"
    BY <1>0, <2>1, <1>10 DEF ConnectFail, removePreRegistered
  <2> QED  BY <2>2, <2>3
<1>11. ASSUME NEW i \in Sid, ConnectRefuse(i) PROVE PreOnlyWhileDialing'
  BY <1>0, <1>11 DEF ConnectRefuse
<1>12. ASSUME NEW e \in E, RelayRead(e) PROVE PreOnlyWhileDialing'
  BY <1>0, <1>12 DEF RelayRead
<1>13. ASSUME NEW e \in E, RelayEof(e) PROVE PreOnlyWhileDialing'
  BY <1>0, <1>13 DEF RelayEof
<1>14. ASSUME NEW e \in E, RelayEnd(e) PROVE PreOnlyWhileDialing'
  BY <1>0, <1>14 DEF RelayEnd
<1>15. ASSUME NEW e \in E, Notice(e) PROVE PreOnlyWhileDialing'
  BY <1>0, <1>15 DEF Notice
<1>16. ASSUME NEW e \in E, QueueWrite(e) PROVE PreOnlyWhileDialing'
  BY <1>0, <1>16 DEF QueueWrite
<1>17. ASSUME NEW e \in E, QueueWriteErr(e) PROVE PreOnlyWhileDialing'
  BY <1>0, <1>17 DEF QueueWriteErr
<1>18. ASSUME NEW e \in E, QueueClose(e) PROVE PreOnlyWhileDialing'
  BY <1>0, <1>18 DEF QueueClose
<1>19. ASSUME NEW e \in E, QueueCloseW(e) PROVE PreOnlyWhileDialing'
  BY <1>0, <1>19 DEF QueueCloseW
<1>20. ASSUME NEW e \in E, Clean(e) PROVE PreOnlyWhileDialing'
  BY <1>0, <1>20 DEF Clean
<1>21. ASSUME NEW x \in Side, ListenDeliver(x) PROVE PreOnlyWhileDialing'
  BY <1>0, <1>21 DEF ListenDeliver
<1>22. ASSUME NEW x \in Side, ListenCloseR(x) PROVE PreOnlyWhileDialing'
  BY <1>0, <1>22 DEF ListenCloseR
<1>23. ASSUME NEW x \in Side, ListenUnknown(x) PROVE PreOnlyWhileDialing'
  BY <1>0, <1>23 DEF ListenUnknown
<1>24. ASSUME NEW x \in Side, TunDisconnected(x) PROVE PreOnlyWhileDialing'
  BY <1>0, <1>24 DEF TunDisconnected
<1>25. CASE ListenReply
  BY <1>0, <1>25 DEF ListenReply
<1>26. CASE ListenOpen
  <2>1. "S" \in Side /\ net["S"] /= <<>>
    BY <1>26 DEF ListenOpen, Incoming, Side
  <2>2. Head(net["S"]).sid \in Sid
    BY <2>1, HeadType
  <2> QED  BY <1>0, <2>2, <1>26 DEF ListenOpen
<1>27. CASE ListenPre
  BY <1>0, <1>27 DEF ListenPre
<1>28. CASE preDeliver
  BY <1>0, <1>28 DEF preDeliver
<1>29. CASE TunBreak
  BY <1>0, <1>29 DEF TunBreak
<1> HIDE DEF TypeOK, PreOnlyWhileDialing, Goto, preVars
<1> QED
  BY <1>1, <1>2, <1>3, <1>4, <1>5, <1>6, <1>7, <1>8, <1>9, <1>10, <1>11, <1>12,
     <1>13, <1>14, <1>15, <1>16, <1>17, <1>18, <1>19, <1>20, <1>21, <1>22,
     <1>23, <1>24, <1>25, <1>26, <1>27, <1>28, <1>29
  DEF Next, RelayRun, Connect, Listen, ListenS, Queue

\* connectToDest registers the edge when it has dialed, and not before.
LEMMA EdgeStep ==
    ASSUME TypeOK, OpenInv, PreOnlyWhileDialing, EdgeInv, Next
    PROVE  EdgeInv'
<1> USE DEF TypeOK, EdgeInv, Goto, preVars, edgeVars
<1>0. \A j \in Sid : <<"C", j>> \in E /\ <<"S", j>> \in E
  BY PairEdge DEF Side
<1>1. ASSUME NEW i \in Sid, HandleRequest(i) PROVE EdgeInv'
  BY <1>0, <1>1 DEF HandleRequest, register
<1>2. ASSUME NEW i \in Sid, HandleOffline(i) PROVE EdgeInv'
  BY <1>0, <1>2 DEF HandleOffline
<1>3. ASSUME NEW i \in Sid, RelayStart(i) PROVE EdgeInv'
  BY <1>0, <1>3 DEF RelayStart
<1>4. ASSUME NEW i \in Sid, RelaySignal(i) PROVE EdgeInv'
  BY <1>0, <1>4 DEF RelaySignal
<1>5. ASSUME NEW i \in Sid, RelayNoSignal(i) PROVE EdgeInv'
  BY <1>0, <1>5 DEF RelayNoSignal
<1>6. ASSUME NEW i \in Sid, RelayWaitTimeout(i) PROVE EdgeInv'
  BY <1>0, <1>6 DEF RelayWaitTimeout
<1>7. ASSUME NEW i \in Sid, RelayReadTimeout(i) PROVE EdgeInv'
  BY <1>0, <1>7 DEF RelayReadTimeout
<1>8. ASSUME NEW i \in Sid, ConnectOk(i) PROVE EdgeInv'
  BY <1>0, <1>8 DEF ConnectOk, register
<1>9. ASSUME NEW i \in Sid, ConnectAccept(i) PROVE EdgeInv'
  BY <1>0, <1>9 DEF ConnectAccept
<1>10. ASSUME NEW i \in Sid, ConnectFail(i) PROVE EdgeInv'
  BY <1>0, <1>10 DEF ConnectFail, removePreRegistered
<1>11. ASSUME NEW i \in Sid, ConnectRefuse(i) PROVE EdgeInv'
  BY <1>0, <1>11 DEF ConnectRefuse
<1>12. ASSUME NEW e \in E, RelayRead(e) PROVE EdgeInv'
  BY <1>0, <1>12 DEF RelayRead
<1>13. ASSUME NEW e \in E, RelayEof(e) PROVE EdgeInv'
  BY <1>0, <1>13 DEF RelayEof
<1>14. ASSUME NEW e \in E, RelayEnd(e) PROVE EdgeInv'
  BY <1>0, <1>14 DEF RelayEnd
<1>15. ASSUME NEW e \in E, Notice(e) PROVE EdgeInv'
  BY <1>0, <1>15 DEF Notice
<1>16. ASSUME NEW e \in E, QueueWrite(e) PROVE EdgeInv'
  BY <1>0, <1>16 DEF QueueWrite, QHead
<1>17. ASSUME NEW e \in E, QueueWriteErr(e) PROVE EdgeInv'
  BY <1>0, <1>17 DEF QueueWriteErr, closeForce
<1>18. ASSUME NEW e \in E, QueueClose(e) PROVE EdgeInv'
  BY <1>0, <1>18 DEF QueueClose, closeForce
<1>19. ASSUME NEW e \in E, QueueCloseW(e) PROVE EdgeInv'
  BY <1>0, <1>19 DEF QueueCloseW
<1>20. ASSUME NEW e \in E, Clean(e) PROVE EdgeInv'
  BY <1>0, <1>20 DEF Clean, Forget, Found
<1>21. ASSUME NEW x \in Side, ListenDeliver(x) PROVE EdgeInv'
  BY <1>0, <1>21 DEF ListenDeliver
<1>22. ASSUME NEW x \in Side, ListenCloseR(x) PROVE EdgeInv'
  BY <1>0, <1>22 DEF ListenCloseR
<1>23. ASSUME NEW x \in Side, ListenUnknown(x) PROVE EdgeInv'
  BY <1>0, <1>23 DEF ListenUnknown, Forget, Found
<1>24. ASSUME NEW x \in Side, TunDisconnected(x) PROVE EdgeInv'
  BY <1>0, <1>24 DEF TunDisconnected
<1>25. CASE ListenReply
  BY <1>0, <1>25 DEF ListenReply
<1>26. CASE ListenOpen
  <2>1. Head(net["S"]).sid \in Sid /\ relay[<<"S", Head(net["S"]).sid>>] = "idle"
    BY <1>26, OpenIdle
  <2> QED  BY <1>0, <2>1, <1>26 DEF ListenOpen
<1>27. CASE ListenPre
  BY <1>0, <1>27 DEF ListenPre
<1>28. CASE preDeliver
  BY <1>0, <1>28 DEF preDeliver
<1>29. CASE TunBreak
  BY <1>0, <1>29 DEF TunBreak
<1> HIDE DEF TypeOK, EdgeInv, Goto, preVars, edgeVars
<1> QED
  BY <1>1, <1>2, <1>3, <1>4, <1>5, <1>6, <1>7, <1>8, <1>9, <1>10, <1>11, <1>12,
     <1>13, <1>14, <1>15, <1>16, <1>17, <1>18, <1>19, <1>20, <1>21, <1>22,
     <1>23, <1>24, <1>25, <1>26, <1>27, <1>28, <1>29
  DEF Next, RelayRun, Connect, Listen, ListenS, Queue

\* Queues and buffers get the frames of their session.
LEMMA HeldStep ==
    ASSUME TypeOK, HeldInv, Next
    PROVE  HeldInv'
<1>0. \A j \in Sid : <<"C", j>> \in E /\ <<"S", j>> \in E
  BY PairEdge DEF Side
<1>1. ASSUME NEW i \in Sid, HandleRequest(i) PROVE HeldInv'
  <2>1. /\ UNCHANGED <<held, pre>> /\ q'[<<"C", i>>] = <<>>
        /\ \A d \in E : d /= <<"C", i>> => q'[d] = q[d]
    BY <1>0, <1>1 DEF HandleRequest, register, preVars, TypeOK
  <2> QED  BY <2>1, EmptyStream DEF HeldInv
<1>2. ASSUME NEW i \in Sid, HandleOffline(i) PROVE HeldInv'
  <2>1. UNCHANGED <<held, pre, q>>
    BY <1>2 DEF HandleOffline, preVars, edgeVars
  <2> QED  BY <2>1 DEF HeldInv
<1>3. ASSUME NEW i \in Sid, RelayStart(i) PROVE HeldInv'
  <2>1. UNCHANGED <<held, pre, q>>
    BY <1>3 DEF RelayStart, preVars, edgeVars
  <2> QED  BY <2>1 DEF HeldInv
<1>4. ASSUME NEW i \in Sid, RelaySignal(i) PROVE HeldInv'
  <2>1. UNCHANGED <<held, pre, q>>
    BY <1>4 DEF RelaySignal, preVars, edgeVars
  <2> QED  BY <2>1 DEF HeldInv
<1>5. ASSUME NEW i \in Sid, RelayNoSignal(i) PROVE HeldInv'
  <2>1. UNCHANGED <<held, pre, q>>
    BY <1>5 DEF RelayNoSignal, preVars, edgeVars
  <2> QED  BY <2>1 DEF HeldInv
<1>6. ASSUME NEW i \in Sid, RelayWaitTimeout(i) PROVE HeldInv'
  <2>1. UNCHANGED <<held, pre, q>>
    BY <1>6 DEF RelayWaitTimeout, preVars, edgeVars
  <2> QED  BY <2>1 DEF HeldInv
<1>7. ASSUME NEW i \in Sid, RelayReadTimeout(i) PROVE HeldInv'
  <2>1. UNCHANGED <<held, pre, q>>
    BY <1>7 DEF RelayReadTimeout, preVars, edgeVars
  <2> QED  BY <2>1 DEF HeldInv
<1>8. ASSUME NEW i \in Sid, ConnectOk(i) PROVE HeldInv'
  <2>1. q'[<<"S", i>>] = pre[i] /\ \A d \in E : d /= <<"S", i>> => q'[d] = q[d]
    BY <1>0, <1>8 DEF ConnectOk, register, TypeOK
  <2>2. UNCHANGED held /\ pre'[i] = <<>> /\ \A j \in Sid : j /= i => pre'[j] = pre[j]
    BY <1>8 DEF ConnectOk, TypeOK
  <2>3. <<"S", i>>[2] = i
    OBVIOUS
  <2> QED  BY <2>1, <2>2, <2>3, EmptyStream DEF HeldInv
<1>9. ASSUME NEW i \in Sid, ConnectAccept(i) PROVE HeldInv'
  <2>1. UNCHANGED <<held, pre, q>>
    BY <1>9 DEF ConnectAccept, preVars, edgeVars
  <2> QED  BY <2>1 DEF HeldInv
<1>10. ASSUME NEW i \in Sid, ConnectFail(i) PROVE HeldInv'
  <2>1. UNCHANGED <<held, q>> /\ pre'[i] = <<>> /\ \A j \in Sid : j /= i => pre'[j] = pre[j]
    BY <1>10 DEF ConnectFail, removePreRegistered, edgeVars, TypeOK
  <2> QED  BY <2>1, EmptyStream DEF HeldInv
<1>11. ASSUME NEW i \in Sid, ConnectRefuse(i) PROVE HeldInv'
  <2>1. UNCHANGED <<held, pre, q>>
    BY <1>11 DEF ConnectRefuse, preVars, edgeVars
  <2> QED  BY <2>1 DEF HeldInv
<1>12. ASSUME NEW e \in E, RelayRead(e) PROVE HeldInv'
  <2>1. UNCHANGED <<held, pre, q>>
    BY <1>12 DEF RelayRead, preVars, edgeVars
  <2> QED  BY <2>1 DEF HeldInv
<1>13. ASSUME NEW e \in E, RelayEof(e) PROVE HeldInv'
  <2>1. UNCHANGED <<held, pre, q>>
    BY <1>13 DEF RelayEof, preVars, edgeVars
  <2> QED  BY <2>1 DEF HeldInv
<1>14. ASSUME NEW e \in E, RelayEnd(e) PROVE HeldInv'
  <2>1. UNCHANGED <<held, pre, q>>
    BY <1>14 DEF RelayEnd, preVars, edgeVars
  <2> QED  BY <2>1 DEF HeldInv
<1>15. ASSUME NEW e \in E, Notice(e) PROVE HeldInv'
  <2>1. UNCHANGED <<held, pre, q>>
    BY <1>15 DEF Notice, preVars, edgeVars
  <2> QED  BY <2>1 DEF HeldInv
<1>16. ASSUME NEW e \in E, QueueWrite(e) PROVE HeldInv'
  <2>1. /\ UNCHANGED <<held, pre>> /\ q[e] /= <<>> /\ q[e] \in Seq(Frames)
        /\ q'[e] = Tail(q[e]) /\ \A d \in E : d /= e => q'[d] = q[d]
    BY <1>16 DEF QueueWrite, QHead, preVars, TypeOK
  <2> QED  BY <2>1, OwnTail DEF HeldInv
<1>17. ASSUME NEW e \in E, QueueWriteErr(e) PROVE HeldInv'
  <2>1. UNCHANGED <<held, pre>> /\ q'[e] = <<>> /\ \A d \in E : d /= e => q'[d] = q[d]
    BY <1>17 DEF QueueWriteErr, closeForce, preVars, TypeOK
  <2> QED  BY <2>1, EmptyStream DEF HeldInv
<1>18. ASSUME NEW e \in E, QueueClose(e) PROVE HeldInv'
  <2>1. UNCHANGED <<held, pre>> /\ q'[e] = <<>> /\ \A d \in E : d /= e => q'[d] = q[d]
    BY <1>18 DEF QueueClose, closeForce, preVars, TypeOK
  <2> QED  BY <2>1, EmptyStream DEF HeldInv
<1>19. ASSUME NEW e \in E, QueueCloseW(e) PROVE HeldInv'
  <2>1. UNCHANGED <<held, pre>> /\ q'[e] = <<>> /\ \A d \in E : d /= e => q'[d] = q[d]
    BY <1>19 DEF QueueCloseW, closeForce, preVars, TypeOK
  <2> QED  BY <2>1, EmptyStream DEF HeldInv
<1>20. ASSUME NEW e \in E, Clean(e) PROVE HeldInv'
  <2>1. UNCHANGED <<held, pre, q>>
    BY <1>20 DEF Clean, preVars, edgeVars
  <2> QED  BY <2>1 DEF HeldInv
<1>21. ASSUME NEW x \in Side, ListenDeliver(x) PROVE HeldInv'
  <2> DEFINE f == Head(net[x])
             d == EdgeOf(x)
  <2>1. f \in Frames /\ d \in E /\ f.sid = d[2] /\ q[d] \in Seq(Frames)
    BY <1>21, HeadType DEF ListenDeliver, Incoming, EdgeOf, TypeOK
  <2> HIDE DEF f, d
  <2>2. /\ UNCHANGED <<held, pre>>
        /\ q'[d] \in {q[d], Append(q[d], f)} /\ \A c \in E : c /= d => q'[c] = q[c]
    BY <2>1, <1>21 DEF ListenDeliver, deliver, f, d, preVars, TypeOK
  <2>3. Own(q[d], d[2])
    BY <2>1 DEF HeldInv
  <2>4. Own(Append(q[d], f), d[2])
    BY <2>1, <2>3, OwnAppend
  <2> QED  BY <2>2, <2>3, <2>4 DEF HeldInv
<1>22. ASSUME NEW x \in Side, ListenCloseR(x) PROVE HeldInv'
  <2>1. UNCHANGED <<held, pre, q>>
    BY <1>22 DEF ListenCloseR, preVars, edgeVars
  <2> QED  BY <2>1 DEF HeldInv
<1>23. ASSUME NEW x \in Side, ListenUnknown(x) PROVE HeldInv'
  <2>1. UNCHANGED <<held, pre, q>>
    BY <1>23 DEF ListenUnknown, preVars, edgeVars
  <2> QED  BY <2>1 DEF HeldInv
<1>24. ASSUME NEW x \in Side, TunDisconnected(x) PROVE HeldInv'
  <2>1. ASSUME NEW e \in E PROVE Own(q'[e], e[2])
    <3> DEFINE f == Frm("CLOSE", e[2], 0)
    <3>1. f \in Frames /\ f.sid = e[2] /\ q[e] \in Seq(Frames)
      BY EdgePair, FrmType DEF Frm, TypeOK
    <3> HIDE DEF f
    <3>2. q'[e] \in {q[e], Append(q[e], f)}
      BY <1>24 DEF TunDisconnected, f
    <3>3. Own(q[e], e[2])
      BY DEF HeldInv
    <3>4. Own(Append(q[e], f), e[2])
      BY <3>1, <3>3, OwnAppend
    <3> QED  BY <3>2, <3>3, <3>4
  <2>2. UNCHANGED <<held, pre>>
    BY <1>24 DEF TunDisconnected, preVars
  <2> QED  BY <2>1, <2>2 DEF HeldInv
<1>25. CASE ListenReply
  <2>1. UNCHANGED <<held, pre, q>>
    BY <1>25 DEF ListenReply, preVars, edgeVars
  <2> QED  BY <2>1 DEF HeldInv
<1>26. CASE ListenOpen
  <2> DEFINE i == Head(net["S"]).sid
  <2>1. "S" \in Side /\ net["S"] /= <<>>
    BY <1>26 DEF ListenOpen, Incoming, Side
  <2>2. i \in Sid
    BY <2>1, HeadType
  <2> HIDE DEF i
  <2>3. UNCHANGED <<held, q>> /\ pre'[i] = <<>> /\ \A j \in Sid : j /= i => pre'[j] = pre[j]
    BY <2>2, <1>26 DEF ListenOpen, edgeVars, TypeOK, i
  <2> QED  BY <2>3, EmptyStream DEF HeldInv
<1>27. CASE ListenPre
  <2>1. UNCHANGED <<pre, q>> /\ Head(net["S"]).act = "DATA" /\ held' = <<Head(net["S"])>>
    BY <1>27 DEF ListenPre, Incoming, preVars, edgeVars
  <2>2. Len(held') = 1 /\ held'[1].act = "DATA"
    BY <2>1
  <2> QED  BY <2>1, <2>2 DEF HeldInv
<1>28. CASE preDeliver
  <2> DEFINE i == held[1].sid
  <2>1. /\ held[1] \in Frames /\ i \in Sid
        /\ \A s \in Seq(Frames) : s \o held = Append(s, held[1])
    BY <1>28, HeldFrame DEF preDeliver
  <2>2. held[1].sid = i
    OBVIOUS
  <2> HIDE DEF i
  <2>3. pre[i] \in Seq(Frames)
    BY <2>1 DEF TypeOK
  <2>4. /\ UNCHANGED q /\ held' = <<>> /\ pre'[i] \in {pre[i], Append(pre[i], held[1])}
        /\ \A j \in Sid : j /= i => pre'[j] = pre[j]
    BY <2>1, <2>3, <1>28 DEF preDeliver, edgeVars, TypeOK, i
  <2>5. Own(pre[i], i)
    BY <2>1 DEF HeldInv
  <2>6. Own(Append(pre[i], held[1]), i)
    BY <2>1, <2>2, <2>3, <2>5, OwnAppend
  <2> QED  BY <2>4, <2>5, <2>6 DEF HeldInv
<1>29. CASE TunBreak
  <2>1. UNCHANGED <<held, pre, q>>
    BY <1>29 DEF TunBreak, preVars, edgeVars
  <2> QED  BY <2>1 DEF HeldInv
<1> QED
  BY <1>1, <1>2, <1>3, <1>4, <1>5, <1>6, <1>7, <1>8, <1>9, <1>10, <1>11, <1>12,
     <1>13, <1>14, <1>15, <1>16, <1>17, <1>18, <1>19, <1>20, <1>21, <1>22,
     <1>23, <1>24, <1>25, <1>26, <1>27, <1>28, <1>29
  DEF Next, RelayRun, Connect, Listen, ListenS, Queue

-----------------------------------------------------------------------------
(* The stages *)

\* t holds the numbers of s, or some of them, in order if s is.
Part(s, t, i) == Nums(t, i) \subseteq Nums(s, i) /\ (Incr(s, i) => Incr(t, i))
Same(s, t, i) == Nums(t, i) = Nums(s, i) /\ (Incr(s, i) => Incr(t, i))

\* What a step may do to the stages of an edge.  Nothing new: and what is lost
\* is lost by a queue that has exited, a tunnel that is broken, or on the way
\* to an edge that is no longer known.
Quiet(e) ==
    /\ out'[e] = out[e] /\ sent'[Source(e)] = sent[Source(e)]
    /\ Part(q[e], q'[e], e[2]) /\ Part(PreOf(e), PreOf(e)', e[2])
    /\ Part(HeldOf(e), HeldOf(e)', e[2]) /\ Part(net[e[1]], net'[e[1]], e[2])
    /\ e[1] = "S" \/ HandleRequest(e[2]) \/ ~qOpen'[e] \/ Same(q[e], q'[e], e[2])
    /\ e[1] = "S" \/ ~qOpen'[e] \/ ~Found(e)' \/ ~tunOk' \/ Same(net[e[1]], net'[e[1]], e[2])

\* The peer's relay sends its next number.
Sent(e) ==
    /\ out'[e] = out[e] /\ q'[e] = q[e] /\ PreOf(e)' = PreOf(e) /\ HeldOf(e)' = HeldOf(e)
    /\ sent'[Source(e)] = sent[Source(e)] + 1
    /\ \E f \in Frames :
         /\ IsData(f, e[2]) /\ f.n = sent[Source(e)] + 1
         /\ net'[e[1]] = IF tunOk THEN Append(net[e[1]], f) ELSE net[e[1]]
    /\ tunOk' = tunOk

\* Listen takes a DATA frame off the tunnel ...
Taken(e) ==
    /\ out'[e] = out[e] /\ sent'[Source(e)] = sent[Source(e)]
    /\ PreOf(e)' = PreOf(e) /\ HeldOf(e) = <<>>
    /\ net[e[1]] /= <<>> /\ IsData(Head(net[e[1]]), e[2])
    /\ net'[e[1]] = Tail(net[e[1]])

\* ... puts it into the queue, or holds it ...
Delivered(e) ==
    /\ Taken(e) /\ q'[e] = Append(q[e], Head(net[e[1]])) /\ HeldOf(e)' = <<>>
    /\ qOpen[e] /\ Found(e) /\ tunOk
Holds(e) ==
    Taken(e) /\ q'[e] = q[e] /\ HeldOf(e)' = <<Head(net[e[1]])>> /\ e[1] = "S"

\* ... to put it into the buffer.
PreDelivered(e) ==
    /\ out'[e] = out[e] /\ sent'[Source(e)] = sent[Source(e)] /\ q'[e] = q[e]
    /\ net'[e[1]] = net[e[1]]
    /\ held /= <<>> /\ HeldOf(e) = held /\ IsData(held[1], e[2])
    /\ PreOf(e)' = Append(PreOf(e), held[1]) /\ HeldOf(e)' = <<>> /\ e[1] = "S"

\* The buffer becomes the queue.
Registered(e) ==
    /\ out'[e] = <<>> /\ sent'[Source(e)] = sent[Source(e)] /\ net'[e[1]] = net[e[1]]
    /\ q'[e] = PreOf(e) /\ PreOf(e)' = <<>> /\ HeldOf(e)' = HeldOf(e) /\ e[1] = "S"

\* The queue writes its first frame.
Written(e) ==
    /\ sent'[Source(e)] = sent[Source(e)] /\ net'[e[1]] = net[e[1]]
    /\ PreOf(e)' = PreOf(e) /\ HeldOf(e)' = HeldOf(e)
    /\ qOpen[e] /\ q[e] /= <<>> /\ IsData(Head(q[e]), e[2])
    /\ out'[e] = Append(out[e], Head(q[e]).n) /\ q'[e] = Tail(q[e])

Moves(e) ==
    \/ Quiet(e) \/ Sent(e) \/ Delivered(e) \/ Holds(e) \/ PreDelivered(e)
    \/ Registered(e) \/ Written(e)

\* The numbers of a stream are natural numbers.
LEMMA NumsNat ==
    ASSUME NEW s, NEW i
    PROVE  Nums(s, i) \subseteq Nat
BY DEF Nums

\* Nothing, or everything, is kept.
LEMMA PartSame ==
    ASSUME NEW s, NEW i
    PROVE  Part(s, s, i) /\ Same(s, s, i) /\ Part(s, <<>>, i)
BY EmptyStream DEF Part, Same

\* A stream that has the same numbers has no others.
LEMMA SamePart ==
    ASSUME NEW s, NEW t, NEW i, Same(s, t, i)
    PROVE  Part(s, t, i)
BY DEF Part, Same

\* A frame that is not DATA of the session changes none of its numbers.
LEMMA SameAppend ==
    ASSUME NEW s \in Seq(Frames), NEW f \in Frames, NEW i, ~IsData(f, i)
    PROVE  Same(s, Append(s, f), i)
<1>1. Nums(Append(s, f), i) = Nums(s, i)
  BY NumsAppend
<1>2. Incr(s, i) => Incr(Append(s, f), i)
  BY IncrAppend
<1> QED  BY <1>1, <1>2 DEF Same

\* What the first frame leaves.
LEMMA PartTail ==
    ASSUME NEW s \in Seq(Frames), s /= <<>>, NEW i, Incr(s, i)
    PROVE  /\ Part(s, Tail(s), i)
           /\ ~IsData(Head(s), i) => Same(s, Tail(s), i)
BY NumsTail DEF Part, Same

\* Writing to the tunnel anything but DATA changes no numbers.
LEMMA SendSame ==
    ASSUME TypeOK, NEW x \in Side, NEW f \in Frames, Send(x, f), NEW e \in E,
           ~IsData(f, e[2])
    PROVE  Same(net[e[1]], net'[e[1]], e[2])
<1>1. e[1] \in Side /\ net[e[1]] \in Seq(Frames)
  BY EdgePair DEF TypeOK
<1>2. net'[e[1]] = net[e[1]] \/ net'[e[1]] = Append(net[e[1]], f)
  BY <1>1 DEF Send, TypeOK
<1> QED  BY <1>1, <1>2, SameAppend, PartSame

\* Reading from the tunnel takes the numbers of DATA only.
LEMMA ConsumePart ==
    ASSUME TypeOK, NEW x \in Side, net[x] /= <<>>, net'[x] = Tail(net[x]), NEW e \in E,
           e[1] = x, Incr(net[e[1]], e[2])
    PROVE  /\ Part(net[e[1]], net'[e[1]], e[2])
           /\ ~IsData(Head(net[x]), e[2]) => Same(net[e[1]], net'[e[1]], e[2])
<1>1. net[x] \in Seq(Frames)
  BY DEF TypeOK
<1> QED  BY <1>1, PartTail

-----------------------------------------------------------------------------
(* The moves keep the order *)

\* What an edge has written after one more number.
LEMMA OutAppend ==
    ASSUME NEW o \in Seq(Nat), NEW n \in Nat
    PROVE  /\ OutNums(Append(o, n)) = OutNums(o) \cup {n}
           /\ OutIncr(o) /\ (\A m \in OutNums(o) : m < n) => OutIncr(Append(o, n))
<1>1. /\ Len(Append(o, n)) = Len(o) + 1 /\ Len(o) \in Nat
      /\ \A a \in 1..Len(o) : Append(o, n)[a] = o[a] /\ o[a] \in Nat
      /\ Append(o, n)[Len(o) + 1] = n
  BY AppendProperties, LenProperties, ElementOfSeq
<1>2. OutNums(Append(o, n)) \subseteq OutNums(o) \cup {n}
  BY <1>1 DEF OutNums
<1>3. OutNums(o) \cup {n} \subseteq OutNums(Append(o, n))
  <2>1. Len(o) + 1 \in 1..Len(o) + 1 /\ 1..Len(o) \subseteq 1..Len(o) + 1
    BY <1>1
  <2> QED  BY <1>1, <2>1 DEF OutNums
<1>4. ASSUME OutIncr(o), \A m \in OutNums(o) : m < n
      PROVE  OutIncr(Append(o, n))
  <2>1. \A a \in 1..Len(o) : o[a] < n
    BY <1>4 DEF OutNums
  <2> QED  BY <1>1, <1>4, <2>1 DEF OutIncr
<1> QED  BY <1>2, <1>3, <1>4

\* Each move keeps the chain of the stages.
LEMMA ChainMoves ==
    ASSUME NEW O \in SUBSET Nat, NEW Q \in SUBSET Nat, NEW P \in SUBSET Nat,
           NEW H \in SUBSET Nat, NEW N \in SUBSET Nat, NEW T \in Nat, Chain(O, Q, P, H, N, T)
    PROVE  /\ \A Q1 \in SUBSET Q, P1 \in SUBSET P, H1 \in SUBSET H, N1 \in SUBSET N :
                Chain(O, Q1, P1, H1, N1, T)
           /\ Chain(O, Q, P, H, N, T + 1) /\ Chain(O, Q, P, H, N \cup {T + 1}, T + 1)
           /\ \A n \in N, N1 \in SUBSET N : (\A m \in N1 : n < m) /\ H = {} =>
                Chain(O, Q \cup {n}, P, {}, N1, T) /\ Chain(O, Q, P, {n}, N1, T)
           /\ \A n \in H : H = {n} => Chain(O, Q, P \cup {n}, {}, N, T)
           /\ Chain({}, P, {}, H, N, T)
           /\ \A n \in Q, Q1 \in SUBSET Q : (\A m \in Q1 : n < m) =>
                Chain(O \cup {n}, Q1, P, H, N, T)
<1>1. \A Q1 \in SUBSET Q, P1 \in SUBSET P, H1 \in SUBSET H, N1 \in SUBSET N :
        Chain(O, Q1, P1, H1, N1, T)
  BY DEF Chain, Before
<1>2. Chain(O, Q, P, H, N, T + 1)
  BY DEF Chain, Before
<1>3. Chain(O, Q, P, H, N \cup {T + 1}, T + 1)
  BY DEF Chain, Before
<1>4. ASSUME NEW n \in N, NEW N1 \in SUBSET N, \A m \in N1 : n < m, H = {}
      PROVE  Chain(O, Q \cup {n}, P, {}, N1, T) /\ Chain(O, Q, P, {n}, N1, T)
  BY <1>4 DEF Chain, Before
<1>5. ASSUME NEW n \in H, H = {n}
      PROVE  Chain(O, Q, P \cup {n}, {}, N, T)
  BY <1>5 DEF Chain, Before
<1>6. Chain({}, P, {}, H, N, T)
  BY DEF Chain, Before
<1>7. ASSUME NEW n \in Q, NEW Q1 \in SUBSET Q, \A m \in Q1 : n < m
      PROVE  Chain(O \cup {n}, Q1, P, H, N, T)
  BY <1>7 DEF Chain, Before
<1> QED  BY <1>1, <1>2, <1>3, <1>4, <1>5, <1>6, <1>7

\* The stages of an edge have their types.
LEMMA StageTypes ==
    ASSUME TypeOK, NEW e \in E
    PROVE  /\ e[1] \in Side /\ e[2] \in Sid /\ Source(e) \in E /\ sent[Source(e)] \in Nat
           /\ q[e] \in Seq(Frames) /\ PreOf(e) \in Seq(Frames) /\ HeldOf(e) \in Seq(Frames)
           /\ net[e[1]] \in Seq(Frames) /\ out[e] \in Seq(Nat)
           /\ OutNums(out[e]) \subseteq Nat
<1>1. e[1] \in Side /\ e[2] \in Sid
  BY EdgePair
<1>2. Source(e) \in E
  BY <1>1 DEF Source, Peer, Side, E
<1>3. PreOf(e) \in Seq(Frames) /\ HeldOf(e) \in Seq(Frames)
  BY <1>1, EmptySeq DEF PreOf, HeldOf, TypeOK
<1>4. out[e] \in Seq(Nat)
  BY DEF TypeOK
<1>5. OutNums(out[e]) \subseteq Nat
  BY <1>4, ElementOfSeq DEF OutNums
<1> QED  BY <1>1, <1>2, <1>3, <1>4, <1>5 DEF TypeOK

\* The numbers of a stream of one frame.
LEMMA NumsOne ==
    ASSUME NEW f \in Frames, NEW i, IsData(f, i)
    PROVE  Nums(<<f>>, i) = {f.n}
<1>1. <<f>> = Append(<<>>, f) /\ <<>> \in Seq(Frames)
  OBVIOUS
<1>2. Nums(Append(<<>>, f), i) = Nums(<<>>, i) \cup {f.n}
  BY <1>1, NumsAppend
<1> QED  BY <1>1, <1>2, EmptyStream

\* Every move keeps the order of an edge's numbers.
LEMMA OrderMoves ==
    ASSUME TypeOK, HeldInv, NEW e \in E, Ordered(e), Moves(e)
    PROVE  Ordered(e)'
<1> DEFINE i == e[2]
           O == OutNums(out[e])
           Q == Nums(q[e], i)
           P == Nums(PreOf(e), i)
           H == Nums(HeldOf(e), i)
           N == Nums(net[e[1]], i)
           T == sent[Source(e)]
           s == net[e[1]]
<1>1. /\ T \in Nat /\ q[e] \in Seq(Frames) /\ PreOf(e) \in Seq(Frames) /\ s \in Seq(Frames)
      /\ out[e] \in Seq(Nat) /\ O \in SUBSET Nat
  BY StageTypes
<1>2. Q \in SUBSET Nat /\ P \in SUBSET Nat /\ H \in SUBSET Nat /\ N \in SUBSET Nat
  BY NumsNat
<1>3. /\ OutIncr(out[e]) /\ Incr(q[e], i) /\ Incr(PreOf(e), i) /\ Incr(s, i)
      /\ Chain(O, Q, P, H, N, T)
  BY DEF Ordered
<1>4. /\ \A Q1 \in SUBSET Q, P1 \in SUBSET P, H1 \in SUBSET H, N1 \in SUBSET N :
           Chain(O, Q1, P1, H1, N1, T)
      /\ Chain(O, Q, P, H, N, T + 1) /\ Chain(O, Q, P, H, N \cup {T + 1}, T + 1)
      /\ \A n \in N, N1 \in SUBSET N : (\A m \in N1 : n < m) /\ H = {} =>
           Chain(O, Q \cup {n}, P, {}, N1, T) /\ Chain(O, Q, P, {n}, N1, T)
      /\ \A n \in H : H = {n} => Chain(O, Q, P \cup {n}, {}, N, T)
      /\ Chain({}, P, {}, H, N, T)
      /\ \A n \in Q, Q1 \in SUBSET Q : (\A m \in Q1 : n < m) =>
           Chain(O \cup {n}, Q1, P, H, N, T)
  BY <1>1, <1>2, <1>3, ChainMoves
<1>5. CASE Quiet(e)
  BY <1>3, <1>4, <1>5 DEF Quiet, Part, Ordered
<1>6. CASE Sent(e)
  <2>1. PICK f \in Frames :
          /\ IsData(f, i) /\ f.n = T + 1
          /\ net'[e[1]] = IF tunOk THEN Append(s, f) ELSE s
    BY <1>6 DEF Sent
  <2>2. CASE net'[e[1]] = s
    BY <1>3, <1>4, <1>6, <2>2 DEF Sent, Ordered
  <2>3. CASE net'[e[1]] = Append(s, f)
    <3>1. Nums(Append(s, f), i) = N \cup {T + 1}
      BY <1>1, <2>1, NumsAppend
    <3>2. \A n \in N : n < T + 1
      BY <1>1, <1>2, <1>3 DEF Chain
    <3>3. Incr(Append(s, f), i)
      BY <1>1, <1>3, <2>1, <3>2, IncrAppend
    <3> QED  BY <1>3, <1>4, <1>6, <2>3, <3>1, <3>3 DEF Sent, Ordered
  <2> QED  BY <2>1, <2>2, <2>3
<1>7. ASSUME Taken(e)
      PROVE  /\ Head(s) \in Frames /\ IsData(Head(s), i) /\ Head(s).n \in N /\ H = {}
             /\ Incr(Tail(s), i) /\ net'[e[1]] = Tail(s)
             /\ Nums(Tail(s), i) \subseteq N /\ \A m \in Nums(Tail(s), i) : Head(s).n < m
  <2>1. s /= <<>> /\ IsData(Head(s), i) /\ net'[e[1]] = Tail(s) /\ HeldOf(e) = <<>>
    BY <1>7 DEF Taken
  <2>2. Head(s) \in Frames
    BY <1>1, <2>1, HeadTailProperties
  <2>a. s \in Seq(Frames) /\ Incr(s, i)
    BY <1>1, <1>3
  <2> HIDE DEF s, i, N
  <2>b. /\ Incr(Tail(s), i) /\ Head(s).n \in Nums(s, i) /\ Nums(Tail(s), i) \subseteq Nums(s, i)
        /\ \A m \in Nums(Tail(s), i) : Head(s).n < m
    BY <2>1, <2>a, NumsTail
  <2>3. /\ Incr(Tail(s), i) /\ Head(s).n \in N /\ Nums(Tail(s), i) \subseteq N
        /\ \A m \in Nums(Tail(s), i) : Head(s).n < m
    BY <2>b DEF s, i, N
  <2> QED  BY <2>1, <2>2, <2>3, EmptyStream
<1>8. CASE Delivered(e)
  <2> DEFINE n == Head(s).n
             N1 == Nums(Tail(s), i)
  <2>1. /\ Head(s) \in Frames /\ IsData(Head(s), i) /\ n \in N /\ H = {}
        /\ Incr(Tail(s), i) /\ net'[e[1]] = Tail(s) /\ N1 \subseteq N /\ \A m \in N1 : n < m
    BY <1>7, <1>8 DEF Delivered
  <2>2. Nums(Append(q[e], Head(s)), i) = Q \cup {n}
    BY <1>1, <2>1, NumsAppend
  <2>3. \A m \in Q : m < n
    BY <1>3, <2>1 DEF Chain, Before
  <2>4. Incr(Append(q[e], Head(s)), i)
    BY <1>1, <1>3, <2>1, <2>3, IncrAppend
  <2>5. Chain(O, Q \cup {n}, P, {}, N1, T)
    BY <1>4, <2>1
  <2>6. Nums(HeldOf(e)', i) = {}
    BY <1>8, EmptyStream DEF Delivered
  <2> QED  BY <1>3, <1>8, <2>1, <2>2, <2>4, <2>5, <2>6 DEF Delivered, Taken, Ordered
<1>9. CASE Holds(e)
  <2> DEFINE n == Head(s).n
             N1 == Nums(Tail(s), i)
  <2>1. /\ Head(s) \in Frames /\ IsData(Head(s), i) /\ n \in N /\ H = {}
        /\ Incr(Tail(s), i) /\ net'[e[1]] = Tail(s) /\ N1 \subseteq N /\ \A m \in N1 : n < m
    BY <1>7, <1>9 DEF Holds
  <2>2. Nums(HeldOf(e)', i) = {n}
    BY <1>9, <2>1, NumsOne DEF Holds
  <2>3. Chain(O, Q, P, {n}, N1, T)
    BY <1>4, <2>1
  <2> QED  BY <1>3, <1>9, <2>1, <2>2, <2>3 DEF Holds, Taken, Ordered
<1>10. CASE PreDelivered(e)
  <2>1. held[1] \in Frames /\ IsData(held[1], i) /\ HeldOf(e) = <<held[1]>>
    BY <1>10, HeldFrame DEF PreDelivered
  <2>2. H = {held[1].n}
    BY <2>1, NumsOne
  <2>3. Nums(PreOf(e)', i) = P \cup {held[1].n}
    BY <1>1, <1>10, <2>1, NumsAppend DEF PreDelivered
  <2>4. \A m \in P : m < held[1].n
    BY <1>3, <2>2 DEF Chain, Before
  <2>5. Incr(PreOf(e)', i)
    BY <1>1, <1>3, <1>10, <2>1, <2>4, IncrAppend DEF PreDelivered
  <2>6. Chain(O, Q, P \cup {held[1].n}, {}, N, T)
    BY <1>4, <2>2
  <2>7. Nums(HeldOf(e)', i) = {}
    BY <1>10, EmptyStream DEF PreDelivered
  <2> QED  BY <1>3, <1>10, <2>3, <2>5, <2>6, <2>7 DEF PreDelivered, Ordered
<1>11. CASE Registered(e)
  <2>1. OutIncr(<<>>) /\ OutNums(<<>>) = {} /\ Nums(<<>>, i) = {} /\ Incr(<<>>, i)
    BY EmptyStream DEF OutIncr, OutNums
  <2> QED  BY <1>3, <1>4, <1>11, <2>1 DEF Registered, Ordered
<1>12. CASE Written(e)
  <2> DEFINE n == Head(q[e]).n
             Q1 == Nums(Tail(q[e]), i)
  <2>1. q[e] /= <<>> /\ IsData(Head(q[e]), i)
    BY <1>12 DEF Written
  <2>2. Incr(Tail(q[e]), i) /\ n \in Q /\ Q1 \subseteq Q /\ \A m \in Q1 : n < m
    BY <1>1, <1>3, <2>1, NumsTail
  <2>3. n \in Nat /\ \A m \in O : m < n
    BY <1>2, <1>3, <2>2 DEF Chain, Before
  <2>4. OutNums(Append(out[e], n)) = O \cup {n} /\ OutIncr(Append(out[e], n))
    BY <1>1, <1>3, <2>3, OutAppend
  <2>5. Chain(O \cup {n}, Q1, P, H, N, T)
    BY <1>4, <2>2
  <2> QED  BY <1>3, <1>12, <2>2, <2>4, <2>5 DEF Written, Ordered
<1> QED  BY <1>5, <1>6, <1>8, <1>9, <1>10, <1>11, <1>12 DEF Moves

-----------------------------------------------------------------------------
(* Every step moves the numbers *)

\* Reading a frame that is not DATA of the session leaves its numbers.
LEMMA ConsumeSame ==
    ASSUME TypeOK, NEW x \in Side, net[x] /= <<>>, Consume(x), NEW e \in E,
           Incr(net[e[1]], e[2]), ~IsData(Head(net[x]), e[2])
    PROVE  Same(net[e[1]], net'[e[1]], e[2])
<1>1. e[1] \in Side
  BY EdgePair
<1>2. CASE e[1] = x
  <2>1. net'[x] = Tail(net[x])
    BY DEF Consume, TypeOK
  <2> QED  BY <1>2, <2>1, ConsumePart
<1>3. CASE e[1] /= x
  <2>1. net'[e[1]] = net[e[1]]
    BY <1>1, <1>3 DEF Consume, TypeOK
  <2> QED  BY <2>1, PartSame
<1> QED  BY <1>2, <1>3

\* Every step makes one of the moves at every edge.
LEMMA StageStep ==
    ASSUME TypeOK, HeldInv, EdgeInv, NEW e \in E, Ordered(e), Next
    PROVE  Moves(e)
<1>0. /\ e[1] \in Side /\ e[2] \in Sid /\ Source(e) \in E /\ e = <<e[1], e[2]>>
      /\ q[e] \in Seq(Frames) /\ net[e[1]] \in Seq(Frames) /\ PreOf(e) \in Seq(Frames)
      /\ Incr(net[e[1]], e[2])
  BY StageTypes, EdgePair DEF Ordered
<1>a. /\ Part(q[e], q[e], e[2]) /\ Same(q[e], q[e], e[2]) /\ Part(q[e], <<>>, e[2])
      /\ Part(PreOf(e), PreOf(e), e[2]) /\ Part(PreOf(e), <<>>, e[2])
      /\ Part(HeldOf(e), HeldOf(e), e[2]) /\ Part(HeldOf(e), <<>>, e[2])
      /\ Same(net[e[1]], net[e[1]], e[2]) /\ Part(net[e[1]], net[e[1]], e[2])
      /\ Part(net[e[1]], <<>>, e[2])
  BY PartSame
<1>1. ASSUME NEW i \in Sid, HandleRequest(i) PROVE Moves(e)
  <2>1. UNCHANGED <<net, held, pre, out, sent>> /\ (q'[e] = q[e] \/ (e[2] = i /\ q'[e] = <<>>))
    BY <1>1 DEF HandleRequest, register, preVars, TypeOK
  <2> QED  BY <1>a, <2>1, <1>1 DEF Moves, Quiet, PreOf, HeldOf
<1>2. ASSUME NEW i \in Sid, HandleOffline(i) PROVE Moves(e)
  <2>1. UNCHANGED <<net, held, pre, q, out, sent>>
    BY <1>2 DEF HandleOffline, preVars, edgeVars
  <2> QED  BY <1>a, <2>1 DEF Moves, Quiet, PreOf, HeldOf
<1>3. ASSUME NEW i \in Sid, RelayStart(i) PROVE Moves(e)
  <2> DEFINE f == Frm("OPEN", i, 0)
  <2>1. f \in Frames /\ ~IsData(f, e[2]) /\ "C" \in Side
    BY FrmType DEF IsData, Frm, Side, Replies
  <2> HIDE DEF f
  <2>2. UNCHANGED <<held, pre, q, out, sent>> /\ (Send("C", f) \/ UNCHANGED net)
    BY <1>3 DEF RelayStart, preVars, edgeVars, f
  <2>3. Same(net[e[1]], net'[e[1]], e[2])
    BY <1>a, <2>1, <2>2, SendSame
  <2> QED  BY <1>a, <2>2, <2>3, SamePart DEF Moves, Quiet, PreOf, HeldOf
<1>4. ASSUME NEW i \in Sid, RelaySignal(i) PROVE Moves(e)
  <2>1. UNCHANGED <<net, held, pre, q, out, sent>>
    BY <1>4 DEF RelaySignal, preVars, edgeVars
  <2> QED  BY <1>a, <2>1 DEF Moves, Quiet, PreOf, HeldOf
<1>5. ASSUME NEW i \in Sid, RelayNoSignal(i) PROVE Moves(e)
  <2>1. UNCHANGED <<net, held, pre, q, out, sent>>
    BY <1>5 DEF RelayNoSignal, preVars, edgeVars
  <2> QED  BY <1>a, <2>1 DEF Moves, Quiet, PreOf, HeldOf
<1>6. ASSUME NEW i \in Sid, RelayWaitTimeout(i) PROVE Moves(e)
  <2>1. UNCHANGED <<net, held, pre, q, out, sent>>
    BY <1>6 DEF RelayWaitTimeout, preVars, edgeVars
  <2> QED  BY <1>a, <2>1 DEF Moves, Quiet, PreOf, HeldOf
<1>7. ASSUME NEW i \in Sid, RelayReadTimeout(i) PROVE Moves(e)
  <2>1. UNCHANGED <<net, held, pre, q, out, sent>>
    BY <1>7 DEF RelayReadTimeout, preVars, edgeVars
  <2> QED  BY <1>a, <2>1 DEF Moves, Quiet, PreOf, HeldOf
<1>8. ASSUME NEW i \in Sid, ConnectOk(i) PROVE Moves(e)
  <2>1. UNCHANGED <<net, held, sent, out>> /\ relay[<<"S", i>>] = "dial"
    BY <1>8 DEF ConnectOk
  <2>2. CASE e = <<"S", i>>
    <3>1. e[1] = "S" /\ e[2] = i /\ out[e] = <<>>
      BY <2>1, <2>2 DEF EdgeInv
    <3>2. q'[e] = pre[i] /\ pre'[i] = <<>>
      BY <2>2, <1>8 DEF ConnectOk, register, TypeOK
    <3> QED  BY <2>1, <3>1, <3>2 DEF Moves, Registered, PreOf, HeldOf
  <2>3. CASE e /= <<"S", i>>
    <3>1. q'[e] = q[e] /\ (e[1] = "S" => pre'[e[2]] = pre[e[2]])
      BY <1>0, <2>3, <1>8 DEF ConnectOk, register, TypeOK
    <3> QED  BY <1>a, <2>1, <3>1 DEF Moves, Quiet, PreOf, HeldOf
  <2> QED  BY <2>2, <2>3
<1>9. ASSUME NEW i \in Sid, ConnectAccept(i) PROVE Moves(e)
  <2> DEFINE f == Frm("OPEN_Y", i, 0)
  <2>1. f \in Frames /\ ~IsData(f, e[2]) /\ "S" \in Side
    BY FrmType DEF IsData, Frm, Side, Replies
  <2> HIDE DEF f
  <2>2. UNCHANGED <<held, pre, q, out, sent>> /\ (Send("S", f) \/ UNCHANGED net)
    BY <1>9 DEF ConnectAccept, preVars, edgeVars, f
  <2>3. Same(net[e[1]], net'[e[1]], e[2])
    BY <1>a, <2>1, <2>2, SendSame
  <2> QED  BY <1>a, <2>2, <2>3, SamePart DEF Moves, Quiet, PreOf, HeldOf
<1>10. ASSUME NEW i \in Sid, ConnectFail(i) PROVE Moves(e)
  <2>1. UNCHANGED <<net, held, q, sent, out>> /\ pre'[e[2]] \in {pre[e[2]], <<>>}
    BY <1>0, <1>10 DEF ConnectFail, removePreRegistered, edgeVars, TypeOK
  <2> QED  BY <1>a, <2>1 DEF Moves, Quiet, PreOf, HeldOf
<1>11. ASSUME NEW i \in Sid, ConnectRefuse(i) PROVE Moves(e)
  <2> DEFINE f == Frm(relay[<<"S", i>>], i, 0)
  <2>1. f \in Frames /\ ~IsData(f, e[2]) /\ "S" \in Side
    BY <1>11, FrmType DEF IsData, Frm, Side, Replies, ConnectRefuse
  <2> HIDE DEF f
  <2>2. UNCHANGED <<held, pre, q, out, sent>> /\ (Send("S", f) \/ UNCHANGED net)
    BY <1>11 DEF ConnectRefuse, preVars, edgeVars, f
  <2>3. Same(net[e[1]], net'[e[1]], e[2])
    BY <1>a, <2>1, <2>2, SendSame
  <2> QED  BY <1>a, <2>2, <2>3, SamePart DEF Moves, Quiet, PreOf, HeldOf
<1>12. ASSUME NEW d \in E, RelayRead(d) PROVE Moves(e)
  <2> DEFINE f == Frm("DATA", d[2], sent[d] + 1)
  <2>1. d[1] \in Side /\ d[2] \in Sid /\ sent[d] + 1 \in Nat /\ d = <<d[1], d[2]>>
    BY EdgePair DEF TypeOK
  <2>2. f \in Frames /\ IsData(f, d[2]) /\ f.n = sent[d] + 1 /\ f.sid = d[2]
    BY <2>1, FrmType DEF Frm, IsData
  <2> HIDE DEF f
  <2>3. UNCHANGED <<held, pre, q, out, tunOk>> /\ Send(d[1], f)
    BY <1>12 DEF RelayRead, preVars, edgeVars, f
  <2>4. CASE Source(e) = d
    <3>1. Peer(d[1]) = e[1] /\ e[2] = d[2]
      BY <1>0, <2>4 DEF Source, Peer, Side
    <3>2. net'[e[1]] = IF tunOk THEN Append(net[e[1]], f) ELSE net[e[1]]
      BY <1>0, <2>3, <3>1 DEF Send, TypeOK
    <3>3. sent'[Source(e)] = sent[Source(e)] + 1
      BY <2>4, <1>12 DEF RelayRead, TypeOK
    <3> QED  BY <2>2, <2>3, <2>4, <3>1, <3>2, <3>3 DEF Moves, Sent, PreOf, HeldOf
  <2>5. CASE Source(e) /= d
    <3>1. sent'[Source(e)] = sent[Source(e)]
      BY <1>0, <2>5, <1>12 DEF RelayRead, TypeOK
    <3>2. Peer(d[1]) /= e[1] \/ e[2] /= d[2]
      BY <1>0, <2>1, <2>5 DEF Source, Peer, Side
    <3>3. CASE Peer(d[1]) /= e[1]
      <4>1. net'[e[1]] = net[e[1]]
        BY <1>0, <2>3, <3>3 DEF Send, TypeOK
      <4> QED  BY <1>a, <2>3, <3>1, <4>1 DEF Moves, Quiet, PreOf, HeldOf
    <3>4. CASE e[2] /= d[2]
      <4>1. ~IsData(f, e[2])
        BY <2>2, <3>4 DEF IsData
      <4>2. Same(net[e[1]], net'[e[1]], e[2])
        BY <2>1, <2>2, <2>3, <4>1, SendSame
      <4> QED  BY <1>a, <2>3, <3>1, <4>2, SamePart DEF Moves, Quiet, PreOf, HeldOf
    <3> QED  BY <3>2, <3>3, <3>4
  <2> QED  BY <2>4, <2>5
<1>13. ASSUME NEW d \in E, RelayEof(d) PROVE Moves(e)
  <2>1. UNCHANGED <<net, held, pre, q, out, sent>>
    BY <1>13 DEF RelayEof, preVars, edgeVars
  <2> QED  BY <1>a, <2>1 DEF Moves, Quiet, PreOf, HeldOf
<1>14. ASSUME NEW d \in E, RelayEnd(d) PROVE Moves(e)
  <2>1. UNCHANGED <<net, held, pre, q, out, sent>>
    BY <1>14 DEF RelayEnd, preVars, edgeVars
  <2> QED  BY <1>a, <2>1 DEF Moves, Quiet, PreOf, HeldOf
<1>15. ASSUME NEW d \in E, Notice(d) PROVE Moves(e)
  <2> DEFINE f == Frm("CLOSE_W", d[2], 0)
  <2>1. f \in Frames /\ ~IsData(f, e[2]) /\ d[1] \in Side
    BY EdgePair, FrmType DEF IsData, Frm, Side, Replies
  <2> HIDE DEF f
  <2>2. UNCHANGED <<held, pre, q, out, sent>> /\ (Send(d[1], f) \/ UNCHANGED net)
    BY <1>15 DEF Notice, preVars, edgeVars, f
  <2>3. Same(net[e[1]], net'[e[1]], e[2])
    BY <1>a, <2>1, <2>2, SendSame
  <2> QED  BY <1>a, <2>2, <2>3, SamePart DEF Moves, Quiet, PreOf, HeldOf
<1>16. ASSUME NEW d \in E, QueueWrite(d) PROVE Moves(e)
  <2>1. UNCHANGED <<net, held, pre, sent>>
    BY <1>16 DEF QueueWrite, preVars
  <2>2. CASE d = e
    <3>1. /\ qOpen[e] /\ q[e] /= <<>> /\ Head(q[e]).act = "DATA"
          /\ out'[e] = Append(out[e], Head(q[e]).n) /\ q'[e] = Tail(q[e])
      BY <2>2, <1>16 DEF QueueWrite, QHead, TypeOK
    <3>2. Own(q[e], e[2])
      BY DEF HeldInv
    <3>3. IsData(Head(q[e]), e[2])
      BY <1>0, <3>1, <3>2, OwnTail DEF IsData
    <3> QED  BY <2>1, <3>1, <3>3 DEF Moves, Written, PreOf, HeldOf
  <2>3. CASE d /= e
    <3>1. q'[e] = q[e] /\ out'[e] = out[e]
      BY <2>3, <1>16 DEF QueueWrite, TypeOK
    <3> QED  BY <1>a, <2>1, <3>1 DEF Moves, Quiet, PreOf, HeldOf
  <2> QED  BY <2>2, <2>3
<1>17. ASSUME NEW d \in E, QueueWriteErr(d) PROVE Moves(e)
  <2> DEFINE f == Frm("CLOSE_R", d[2], 0)
  <2>1. f \in Frames /\ ~IsData(f, e[2]) /\ d[1] \in Side
    BY EdgePair, FrmType DEF IsData, Frm
  <2> HIDE DEF f
  <2>2. UNCHANGED <<held, pre, out, sent>> /\ (Send(d[1], f) \/ UNCHANGED net)
    BY <1>17 DEF QueueWriteErr, preVars, f
  <2>3. q'[e] = q[e] \/ (q'[e] = <<>> /\ ~qOpen'[e])
    BY <1>17 DEF QueueWriteErr, closeForce, TypeOK
  <2>4. Same(net[e[1]], net'[e[1]], e[2])
    BY <1>a, <2>1, <2>2, SendSame
  <2> QED  BY <1>a, <2>2, <2>3, <2>4, SamePart DEF Moves, Quiet, PreOf, HeldOf
<1>18. ASSUME NEW d \in E, QueueClose(d) PROVE Moves(e)
  <2>1. /\ UNCHANGED <<net, held, pre, out, sent>>
        /\ q'[e] = q[e] \/ (q'[e] = <<>> /\ ~qOpen'[e])
    BY <1>18 DEF QueueClose, closeForce, preVars, TypeOK
  <2> QED  BY <1>a, <2>1 DEF Moves, Quiet, PreOf, HeldOf
<1>19. ASSUME NEW d \in E, QueueCloseW(d) PROVE Moves(e)
  <2>1. /\ UNCHANGED <<net, held, pre, out, sent>>
        /\ q'[e] = q[e] \/ (q'[e] = <<>> /\ ~qOpen'[e])
    BY <1>19 DEF QueueCloseW, closeForce, preVars, TypeOK
  <2> QED  BY <1>a, <2>1 DEF Moves, Quiet, PreOf, HeldOf
<1>20. ASSUME NEW d \in E, Clean(d) PROVE Moves(e)
  <2>1. UNCHANGED <<net, held, pre, q, out, sent>>
    BY <1>20 DEF Clean, preVars, edgeVars
  <2> QED  BY <1>a, <2>1 DEF Moves, Quiet, PreOf, HeldOf
<1>21. ASSUME NEW x \in Side, ListenDeliver(x) PROVE Moves(e)
  <2> DEFINE f == Head(net[x])
             c == EdgeOf(x)
  <2>1. /\ x \in Side /\ net[x] /= <<>> /\ Consume(x) /\ (x = "S" => held = <<>>) /\ deliver(c, f)
        /\ Found(c) /\ tunOk
    BY <1>21 DEF ListenDeliver, Incoming
  <2>2. f \in Frames /\ c \in E /\ c[1] = x /\ c[2] = f.sid /\ c = <<x, f.sid>>
    BY <2>1, HeadType DEF EdgeOf
  <2>3. UNCHANGED <<held, pre, out, sent, qOpen>>
    BY <1>21 DEF ListenDeliver, preVars
  <2> HIDE DEF c
  <2>4. CASE IsData(f, e[2]) /\ e[1] = x
    <3>1. e = c
      BY <1>0, <2>2, <2>4 DEF IsData
    <3>2. net'[e[1]] = Tail(net[e[1]])
      BY <2>1, <2>4 DEF Consume, TypeOK
    <3>3. CASE qOpen[e]
      <4>1. q'[e] = Append(q[e], f)
        BY <2>1, <3>1, <3>3 DEF deliver, TypeOK
      <4>2. HeldOf(e) = <<>> /\ HeldOf(e)' = <<>> /\ PreOf(e)' = PreOf(e)
        BY <2>1, <2>3, <2>4 DEF HeldOf, PreOf
      <4> QED  BY <2>1, <2>3, <2>4, <3>1, <3>2, <3>3, <4>1, <4>2 DEF Moves, Delivered, Taken
    <3>4. CASE ~qOpen[e]
      <4>1. q'[e] = q[e] /\ ~qOpen'[e]
        BY <2>1, <2>3, <3>1, <3>4 DEF deliver, TypeOK
      <4>2. Part(net[e[1]], net'[e[1]], e[2])
        BY <1>0, <2>1, <2>4, <3>2, ConsumePart
      <4> QED  BY <1>a, <2>3, <4>1, <4>2 DEF Moves, Quiet, PreOf, HeldOf
    <3> QED  BY <3>3, <3>4
  <2>5. CASE ~(IsData(f, e[2]) /\ e[1] = x)
    <3>1. Same(net[e[1]], net'[e[1]], e[2])
      <4>1. CASE e[1] = x
        BY <1>0, <2>1, <2>5, <4>1, ConsumeSame
      <4>2. CASE e[1] /= x
        <5>1. net'[e[1]] = net[e[1]]
          BY <1>0, <2>1, <4>2 DEF Consume, TypeOK
        <5> QED  BY <1>a, <5>1
      <4> QED  BY <4>1, <4>2
    <3>2. q'[e] = q[e] \/ (e = c /\ q'[e] = Append(q[e], f))
      BY <2>1, <2>2 DEF deliver, TypeOK
    <3>3. Same(q[e], q'[e], e[2])
      <4>1. CASE e = c
        BY <1>0, <1>a, <2>2, <2>5, <3>2, <4>1, SameAppend
      <4> QED  BY <1>a, <3>2, <4>1
    <3> QED  BY <1>a, <2>3, <3>1, <3>3, SamePart DEF Moves, Quiet, PreOf, HeldOf
  <2> QED  BY <2>4, <2>5
<1>22. ASSUME NEW x \in Side, ListenCloseR(x) PROVE Moves(e)
  <2>1. x \in Side /\ net[x] /= <<>> /\ Head(net[x]).act /= "DATA" /\ Consume(x)
    BY <1>22 DEF ListenCloseR, Incoming, Side, Replies
  <2>2. Same(net[e[1]], net'[e[1]], e[2])
    BY <1>0, <1>a, <2>1, ConsumeSame DEF IsData
  <2>3. UNCHANGED <<held, pre, q, out, sent>>
    BY <1>22 DEF ListenCloseR, preVars, edgeVars
  <2> QED  BY <1>a, <2>2, <2>3, SamePart DEF Moves, Quiet, PreOf, HeldOf
<1>23. ASSUME NEW x \in Side, ListenUnknown(x) PROVE Moves(e)
  <2> DEFINE f == Head(net[x])
  <2>1. net[x] /= <<>> /\ UNCHANGED <<held, pre, q, out, sent>>
    BY <1>23 DEF ListenUnknown, Incoming, preVars, edgeVars
  <2>2. PICK g \in Frames : /\ g.act = "CLOSE_R" /\ net'[x] = Tail(net[x])
                            /\ net'[Peer(x)] \in {net[Peer(x)], Append(net[Peer(x)], g)}
    BY <1>23, UnknownNet
  <2>3. e[1] = x \/ e[1] = Peer(x)
    BY <1>0 DEF Peer, Side
  <2>4. CASE e[1] = x
    <3>1. /\ Part(net[e[1]], net'[e[1]], e[2])
          /\ ~IsData(Head(net[x]), e[2]) => Same(net[e[1]], net'[e[1]], e[2])
      BY <1>0, <2>1, <2>2, <2>4, ConsumePart
    <3>2. IsData(Head(net[x]), e[2]) => ~Found(e)'
      <4>1. IsData(Head(net[x]), e[2]) => EdgeOf(x) = e
        BY <1>0, <2>4 DEF EdgeOf, IsData
      <4> QED  BY <4>1, <1>23 DEF ListenUnknown, Forget, Found, TypeOK
    <3> QED  BY <1>a, <2>1, <3>1, <3>2 DEF Moves, Quiet, PreOf, HeldOf
  <2>5. CASE e[1] = Peer(x)
    <3>1. ~IsData(g, e[2])
      BY <2>2 DEF IsData
    <3>2. Same(net[e[1]], net'[e[1]], e[2])
      BY <1>0, <1>a, <2>2, <2>5, <3>1, SameAppend
    <3> QED  BY <1>a, <2>1, <3>2, SamePart DEF Moves, Quiet, PreOf, HeldOf
  <2> QED  BY <2>3, <2>4, <2>5
<1>24. ASSUME NEW x \in Side, TunDisconnected(x) PROVE Moves(e)
  <2> DEFINE f == Frm("CLOSE", e[2], 0)
  <2>1. f \in Frames /\ ~IsData(f, e[2])
    BY <1>0, FrmType DEF IsData, Frm
  <2> HIDE DEF f
  <2>2. UNCHANGED <<net, held, pre, out, sent>> /\ q'[e] \in {q[e], Append(q[e], f)}
    BY <1>24 DEF TunDisconnected, preVars, f
  <2>3. Same(q[e], q'[e], e[2])
    BY <1>0, <1>a, <2>1, <2>2, SameAppend
  <2> QED  BY <1>a, <2>2, <2>3, SamePart DEF Moves, Quiet, PreOf, HeldOf
<1>25. CASE ListenReply
  <2>1. "C" \in Side /\ net["C"] /= <<>> /\ Head(net["C"]).act /= "DATA" /\ Consume("C")
    BY <1>25 DEF ListenReply, Incoming, Side, Replies
  <2>2. Same(net[e[1]], net'[e[1]], e[2])
    BY <1>0, <1>a, <2>1, ConsumeSame DEF IsData
  <2>3. UNCHANGED <<held, pre, q, out, sent>>
    BY <1>25 DEF ListenReply, preVars, edgeVars
  <2> QED  BY <1>a, <2>2, <2>3, SamePart DEF Moves, Quiet, PreOf, HeldOf
<1>26. CASE ListenOpen
  <2>1. "S" \in Side /\ net["S"] /= <<>> /\ Head(net["S"]).act /= "DATA" /\ Consume("S")
    BY <1>26 DEF ListenOpen, Incoming, Side, Replies
  <2>2. Same(net[e[1]], net'[e[1]], e[2])
    BY <1>0, <1>a, <2>1, ConsumeSame DEF IsData
  <2>3. UNCHANGED <<held, q, out, sent>> /\ pre'[e[2]] \in {pre[e[2]], <<>>}
    BY <1>0, <1>26 DEF ListenOpen, edgeVars, TypeOK
  <2> QED  BY <1>a, <2>2, <2>3, SamePart DEF Moves, Quiet, PreOf, HeldOf
<1>27. CASE ListenPre
  <2> DEFINE f == Head(net["S"])
  <2>1. /\ "S" \in Side /\ net["S"] /= <<>> /\ Consume("S") /\ held = <<>> /\ f.act = "DATA"
        /\ held' = <<f>> /\ UNCHANGED <<pre, q, out, sent>>
    BY <1>27 DEF ListenPre, Incoming, Side, preVars, edgeVars
  <2>2. f \in Frames
    BY <2>1, HeadType
  <2>3. CASE IsData(f, e[2]) /\ e[1] = "S"
    <3>1. net'[e[1]] = Tail(net[e[1]])
      BY <2>1, <2>3 DEF Consume, TypeOK
    <3> QED  BY <2>1, <2>3, <3>1 DEF Moves, Holds, Taken, PreOf, HeldOf
  <2>4. CASE ~IsData(f, e[2])
    <3>1. Same(net[e[1]], net'[e[1]], e[2])
      BY <1>0, <2>1, <2>4, ConsumeSame
    <3>2. Part(<<>>, <<f>>, e[2])
      <4>1. <<f>> = Append(<<>>, f) /\ <<>> \in Seq(Frames)
        OBVIOUS
      <4>2. Same(<<>>, Append(<<>>, f), e[2])
        BY <2>2, <2>4, <4>1, SameAppend
      <4> QED  BY <4>1, <4>2, SamePart
    <3>3. Part(HeldOf(e), HeldOf(e)', e[2])
      BY <1>a, <2>1, <3>2 DEF HeldOf
    <3> QED  BY <1>a, <2>1, <3>1, <3>3, SamePart DEF Moves, Quiet, PreOf
  <2>5. CASE e[1] /= "S"
    <3>1. net'[e[1]] = net[e[1]]
      BY <1>0, <2>1, <2>5 DEF Consume, TypeOK
    <3> QED  BY <1>a, <2>1, <2>5, <3>1 DEF Moves, Quiet, PreOf, HeldOf
  <2> QED  BY <2>3, <2>4, <2>5
<1>28. CASE preDeliver
  <2> DEFINE i == held[1].sid
  <2>1. /\ held[1].act = "DATA" /\ i \in Sid /\ held /= <<>>
        /\ \A s \in Seq(Frames) : s \o held = Append(s, held[1])
    BY <1>28, HeldFrame DEF preDeliver
  <2>2. IsData(held[1], i)
    BY <2>1 DEF IsData
  <2> HIDE DEF i
  <2>3. pre[i] \in Seq(Frames)
    BY <2>1 DEF TypeOK
  <2>4. /\ UNCHANGED <<net, q, out, sent>> /\ held' = <<>>
        /\ pre'[i] \in {pre[i], Append(pre[i], held[1])}
        /\ \A j \in Sid : j /= i => pre'[j] = pre[j]
    BY <2>1, <2>3, <1>28 DEF preDeliver, edgeVars, TypeOK, i
  <2>5. CASE e[1] = "S" /\ e[2] = i /\ pre'[i] = Append(pre[i], held[1])
    BY <2>1, <2>2, <2>4, <2>5 DEF Moves, PreDelivered, PreOf, HeldOf
  <2>6. CASE e[1] /= "S" \/ pre'[e[2]] = pre[e[2]]
    BY <1>a, <2>4, <2>6 DEF Moves, Quiet, PreOf, HeldOf
  <2> QED  BY <1>0, <2>4, <2>5, <2>6
<1>29. CASE TunBreak
  <2>1. UNCHANGED <<held, pre, q, out, sent>> /\ net'[e[1]] = <<>> /\ ~tunOk'
    BY <1>0, <1>29 DEF TunBreak, preVars, edgeVars
  <2> QED  BY <1>a, <2>1 DEF Moves, Quiet, PreOf, HeldOf
<1> QED
  BY <1>1, <1>2, <1>3, <1>4, <1>5, <1>6, <1>7, <1>8, <1>9, <1>10, <1>11, <1>12,
     <1>13, <1>14, <1>15, <1>16, <1>17, <1>18, <1>19, <1>20, <1>21, <1>22,
     <1>23, <1>24, <1>25, <1>26, <1>27, <1>28, <1>29
  DEF Next, RelayRun, Connect, Listen, ListenS, Queue

\* An edge that is not reachable, or a queue that has exited, stays so.
Shut(e) == (qOpen'[e] => qOpen[e]) /\ (Found(e)' => Found(e)) /\ (tunOk' => tunOk)

\* On the client only a new request opens a queue or registers an edge.
LEMMA Shuts ==
    ASSUME TypeOK, NEW e \in E, e[1] = "C", Next
    PROVE  HandleRequest(e[2]) \/ Shut(e)
<1> USE DEF TypeOK, Shut, Found, edgeVars
<1>0. \A i : e = <<"C", i>> => i = e[2]
  OBVIOUS
<1>1. ASSUME NEW i \in Sid, HandleRequest(i) PROVE HandleRequest(e[2]) \/ Shut(e)
  <2>1. CASE i = e[2]
    BY <1>1, <2>1
  <2>2. CASE i /= e[2]
    BY <2>2, <1>1 DEF HandleRequest, register
  <2> QED  BY <2>1, <2>2
<1>2. ASSUME NEW i \in Sid, HandleOffline(i) PROVE HandleRequest(e[2]) \/ Shut(e)
  BY <1>2 DEF HandleOffline
<1>3. ASSUME NEW i \in Sid, RelayStart(i) PROVE HandleRequest(e[2]) \/ Shut(e)
  BY <1>3 DEF RelayStart
<1>4. ASSUME NEW i \in Sid, RelaySignal(i) PROVE HandleRequest(e[2]) \/ Shut(e)
  BY <1>4 DEF RelaySignal
<1>5. ASSUME NEW i \in Sid, RelayNoSignal(i) PROVE HandleRequest(e[2]) \/ Shut(e)
  BY <1>5 DEF RelayNoSignal
<1>6. ASSUME NEW i \in Sid, RelayWaitTimeout(i) PROVE HandleRequest(e[2]) \/ Shut(e)
  BY <1>6 DEF RelayWaitTimeout
<1>7. ASSUME NEW i \in Sid, RelayReadTimeout(i) PROVE HandleRequest(e[2]) \/ Shut(e)
  BY <1>7 DEF RelayReadTimeout
<1>8. ASSUME NEW i \in Sid, ConnectOk(i) PROVE HandleRequest(e[2]) \/ Shut(e)
  <2>1. e /= <<"S", i>>
    OBVIOUS
  <2> QED  BY <2>1, <1>8 DEF ConnectOk, register
<1>9. ASSUME NEW i \in Sid, ConnectAccept(i) PROVE HandleRequest(e[2]) \/ Shut(e)
  BY <1>9 DEF ConnectAccept
<1>10. ASSUME NEW i \in Sid, ConnectFail(i) PROVE HandleRequest(e[2]) \/ Shut(e)
  BY <1>10 DEF ConnectFail
<1>11. ASSUME NEW i \in Sid, ConnectRefuse(i) PROVE HandleRequest(e[2]) \/ Shut(e)
  BY <1>11 DEF ConnectRefuse
<1>12. ASSUME NEW d \in E, RelayRead(d) PROVE HandleRequest(e[2]) \/ Shut(e)
  BY <1>12 DEF RelayRead
<1>13. ASSUME NEW d \in E, RelayEof(d) PROVE HandleRequest(e[2]) \/ Shut(e)
  BY <1>13 DEF RelayEof
<1>14. ASSUME NEW d \in E, RelayEnd(d) PROVE HandleRequest(e[2]) \/ Shut(e)
  BY <1>14 DEF RelayEnd, Bits
<1>15. ASSUME NEW d \in E, Notice(d) PROVE HandleRequest(e[2]) \/ Shut(e)
  BY <1>15 DEF Notice
<1>16. ASSUME NEW d \in E, QueueWrite(d) PROVE HandleRequest(e[2]) \/ Shut(e)
  BY <1>16 DEF QueueWrite
<1>17. ASSUME NEW d \in E, QueueWriteErr(d) PROVE HandleRequest(e[2]) \/ Shut(e)
  BY <1>17 DEF QueueWriteErr, closeForce
<1>18. ASSUME NEW d \in E, QueueClose(d) PROVE HandleRequest(e[2]) \/ Shut(e)
  BY <1>18 DEF QueueClose, closeForce
<1>19. ASSUME NEW d \in E, QueueCloseW(d) PROVE HandleRequest(e[2]) \/ Shut(e)
  BY <1>19 DEF QueueCloseW
<1>20. ASSUME NEW d \in E, Clean(d) PROVE HandleRequest(e[2]) \/ Shut(e)
  BY <1>20 DEF Clean, Forget
<1>21. ASSUME NEW x \in Side, ListenDeliver(x) PROVE HandleRequest(e[2]) \/ Shut(e)
  BY <1>21 DEF ListenDeliver, EdgeOf, Bits
<1>22. ASSUME NEW x \in Side, ListenCloseR(x) PROVE HandleRequest(e[2]) \/ Shut(e)
  BY <1>22 DEF ListenCloseR, EdgeOf, Bits
<1>23. ASSUME NEW x \in Side, ListenUnknown(x) PROVE HandleRequest(e[2]) \/ Shut(e)
  BY <1>23 DEF ListenUnknown, Forget, EdgeOf
<1>24. ASSUME NEW x \in Side, TunDisconnected(x) PROVE HandleRequest(e[2]) \/ Shut(e)
  BY <1>24 DEF TunDisconnected
<1>25. CASE ListenReply
  BY <1>25 DEF ListenReply
<1>26. CASE ListenOpen
  BY <1>26 DEF ListenOpen
<1>27. CASE ListenPre
  BY <1>27 DEF ListenPre
<1>28. CASE preDeliver
  BY <1>28 DEF preDeliver
<1>29. CASE TunBreak
  BY <1>29 DEF TunBreak
<1> HIDE DEF TypeOK, Shut, Found, edgeVars
<1> QED
  BY <1>1, <1>2, <1>3, <1>4, <1>5, <1>6, <1>7, <1>8, <1>9, <1>10, <1>11, <1>12,
     <1>13, <1>14, <1>15, <1>16, <1>17, <1>18, <1>19, <1>20, <1>21, <1>22,
     <1>23, <1>24, <1>25, <1>26, <1>27, <1>28, <1>29
  DEF Next, RelayRun, Connect, Listen, ListenS, Queue

\* Nothing is missing on the way to the application.
LEMMA GapStep ==
    ASSUME TypeOK, OpenInv, HeldInv, EdgeInv, OrderInv, GapInv, Next
    PROVE  GapInv'
<1> SUFFICES ASSUME NEW i \in Sid
             PROVE  NoGap(<<"C", i>>)'
  BY DEF GapInv
<1> DEFINE e == <<"C", i>>
           L == Len(out[e])
           Q == Nums(q[e], i)
           N == Nums(net["C"], i)
           T == sent[<<"S", i>>]
<1>0. e \in E /\ e[1] = "C" /\ e[2] = i /\ Source(e) = <<"S", i>>
  BY PairEdge DEF Side, Source, Peer
<1> HIDE DEF e
<1>1. /\ T \in Nat /\ q[e] \in Seq(Frames) /\ net["C"] \in Seq(Frames) /\ out[e] \in Seq(Nat)
      /\ L \in Nat /\ Q \subseteq Nat /\ N \subseteq Nat
  BY <1>0, StageTypes, NumsNat, LenProperties
<1>2. /\ Incr(q[e], i) /\ Incr(net["C"], i) /\ Before(Q, N) /\ Before(OutNums(out[e]), N)
      /\ \A n \in OutNums(out[e]) \cup Q \cup N : 1 <= n /\ n <= T
  BY <1>0, SMTT(20) DEF OrderInv, Ordered, Chain
<1>3. /\ \A k \in 1..L : out[e][k] = k
      /\ qOpen[e] => \A n \in Q : n > L /\ L+1..n \subseteq Q
      /\ qOpen[e] /\ Found(e) /\ tunOk => L+1..T \subseteq Q \cup N
  <2>1. NoGap(e)
    BY DEF GapInv, e
  <2> QED  BY <1>0, <2>1 DEF NoGap
<1>4. \A n \in N : n > L
  <2> SUFFICES ASSUME NEW n \in N, L > 0
               PROVE  L < n
    BY <1>1, <1>2
  <2>1. L \in 1..L /\ out[e][L] = L
    BY <1>1, <1>3
  <2>2. L \in OutNums(out[e])
    BY <2>1 DEF OutNums
  <2> QED  BY <1>2, <2>2 DEF Before
<1>5. SUFFICES
        LET L1 == Len(out'[e])
            Q1 == Nums(q'[e], i)
            N1 == Nums(net'["C"], i)
        IN  /\ \A k \in 1..L1 : out'[e][k] = k
            /\ qOpen'[e] => \A n \in Q1 : n > L1 /\ L1+1..n \subseteq Q1
            /\ qOpen'[e] /\ Found(e)' /\ tunOk' => L1+1..sent'[<<"S", i>>] \subseteq Q1 \cup N1
  BY <1>0, <1>5 DEF NoGap, e
<1>6. CASE HandleRequest(i)
  <2>1. UNCHANGED <<out, sent>> /\ relay[<<"C", i>>] = "idle" /\ q'[e] = <<>>
    BY <1>0, <1>6 DEF HandleRequest, register, e, TypeOK
  <2>2. relay[<<"S", i>>] = "idle"
    BY <2>1 DEF OpenInv
  <2>3. T = 0
    BY <2>2 DEF EdgeInv
  <2>4. L = 0
    <3> SUFFICES ASSUME L > 0
                 PROVE  FALSE
      BY <1>1
    <3>1. L \in 1..L /\ out[e][L] = L
      BY <1>1, <1>3
    <3>2. L \in OutNums(out[e])
      BY <3>1 DEF OutNums
    <3> QED  BY <1>1, <1>2, <2>3, <3>2
  <2>5. Nums(q'[e], i) = {}
    BY <2>1, EmptyStream
  <2> QED  BY <1>3, <2>1, <2>3, <2>4, <2>5
<1>7. CASE ~HandleRequest(i)
  <2>1. (qOpen'[e] => qOpen[e]) /\ (Found(e)' => Found(e)) /\ (tunOk' => tunOk)
    BY <1>0, <1>7, Shuts DEF Shut
  <2>2. Moves(e)
    BY <1>0, StageStep DEF OrderInv
  <2>3. CASE Quiet(e)
    <3>1. /\ out'[e] = out[e] /\ sent'[<<"S", i>>] = T
          /\ ~qOpen'[e] \/ Nums(q'[e], i) = Q
          /\ ~qOpen'[e] \/ ~Found(e)' \/ ~tunOk' \/ Nums(net'["C"], i) = N
      BY <1>0, <1>7, <2>3 DEF Quiet, Same
    <3> QED  BY <1>3, <2>1, <3>1
  <2>4. CASE Sent(e)
    <3>1. PICK f \in Frames :
            /\ IsData(f, i) /\ f.n = T + 1
            /\ net'["C"] = IF tunOk THEN Append(net["C"], f) ELSE net["C"]
      BY <1>0, <2>4 DEF Sent
    <3>2. tunOk => Nums(net'["C"], i) = N \cup {T + 1}
      BY <1>1, <3>1, NumsAppend
    <3>3. out'[e] = out[e] /\ q'[e] = q[e] /\ sent'[<<"S", i>>] = T + 1
      BY <1>0, <2>4 DEF Sent
    <3>4. ASSUME NEW n \in L+1..T+1
          PROVE  n \in L+1..T \/ n = T + 1
      BY <1>1
    <3> QED  BY <1>3, <2>1, <3>2, <3>3, <3>4
  <2>5. CASE Delivered(e)
    <3> DEFINE f == Head(net["C"])
               N1 == Nums(Tail(net["C"]), i)
    <3>1. /\ net["C"] /= <<>> /\ IsData(f, i) /\ qOpen[e] /\ Found(e) /\ tunOk
          /\ out'[e] = out[e] /\ sent'[<<"S", i>>] = T
          /\ q'[e] = Append(q[e], f) /\ net'["C"] = Tail(net["C"])
      BY <1>0, <2>5 DEF Delivered, Taken
    <3>2. f \in Frames
      BY <1>1, <3>1, HeadTailProperties
    <3> HIDE DEF f
    <3>3. f.n \in N /\ N = N1 \cup {f.n} /\ \A m \in N1 : f.n < m
      BY <1>1, <1>2, <3>1, NumsTail DEF f
    <3>4. Nums(q'[e], i) = Q \cup {f.n}
      BY <1>1, <3>1, <3>2, NumsAppend
    <3> HIDE DEF N1, N, Q, T, L
    <3>5. L+1..T \subseteq Q \cup N
      BY <1>3, <3>1
    <3>6. f.n > L /\ f.n \in Nat /\ f.n <= T
      BY <1>1, <1>2, <1>4, <3>3
    <3>7. L+1..f.n \subseteq Q \cup {f.n}
      BY <1>1, <3>3, <3>5, <3>6
    <3>8. L+1..T \subseteq (Q \cup {f.n}) \cup N1
      BY <3>3, <3>5
    <3>9. \A n \in Q : n > L /\ L+1..n \subseteq Q
      BY <1>3, <3>1
    <3> QED  BY <1>3, <3>1, <3>4, <3>6, <3>7, <3>8, <3>9 DEF N1, L, T
  <2>6. CASE Written(e)
    <3> DEFINE n == Head(q[e]).n
               Q1 == Nums(Tail(q[e]), i)
    <3>1. /\ qOpen[e] /\ q[e] /= <<>> /\ IsData(Head(q[e]), i)
          /\ out'[e] = Append(out[e], n) /\ q'[e] = Tail(q[e])
          /\ sent'[<<"S", i>>] = T /\ net'["C"] = net["C"]
      BY <1>0, <2>6 DEF Written
    <3>2. n \in Q /\ Q = Q1 \cup {n} /\ \A m \in Q1 : n < m
      BY <1>1, <1>2, <3>1, NumsTail
    <3> HIDE DEF n, Q1, Q, N, L, T
    <3>3. \A m \in Q : m > L /\ L+1..m \subseteq Q
      BY <1>3, <3>1
    <3>4. n = L + 1
      <4>0. n \in Nat /\ L \in Nat /\ n > L
        BY <1>1, <3>2, <3>3
      <4>1. n \in Nat /\ L + 1 \in L+1..n
        BY <4>0
      <4>2. L + 1 \in Q
        BY <3>2, <3>3, <4>1
      <4> QED  BY <1>1, <3>2, <3>3, <4>1, <4>2
    <3>5. /\ Len(out'[e]) = L + 1 /\ out'[e][L + 1] = n
          /\ \A k \in 1..L : out'[e][k] = out[e][k]
      BY <1>1, <3>1, <3>4, AppendProperties DEF L
    <3>6. \A k \in 1..L+1 : out'[e][k] = k
      BY <1>1, <1>3, <3>4, <3>5
    <3>7. ASSUME NEW m \in Q1
          PROVE  m > L + 1 /\ (L + 1) + 1..m \subseteq Q1
      <4>1. m \in Q /\ m > n /\ m \in Nat
        BY <1>1, <3>2
      <4>2. L+1..m \subseteq Q
        BY <3>3, <4>1
      <4> QED  BY <1>1, <3>2, <3>4, <4>1, <4>2
    <3>8. L+1..T \subseteq Q \cup N => (L + 1) + 1..T \subseteq Q1 \cup N
      BY <1>1, <3>2, <3>4
    <3>9. /\ qOpen'[e] /\ Found(e)' /\ tunOk' => L+1..T \subseteq Q \cup N
      BY <1>3, <2>1
    <3> QED  BY <3>1, <3>5, <3>6, <3>7, <3>8, <3>9 DEF Q1, N, T
  <2> QED  BY <1>0, <2>2, <2>3, <2>4, <2>5, <2>6 DEF Moves, Holds, PreDelivered, Registered
<1> QED  BY <1>6, <1>7

-----------------------------------------------------------------------------
(* The end of the stream *)

\* A stream keeps its end when a frame that is not DATA of the session is
\* appended, or one to a stream without CLOSE_W; and when it loses its first
\* frame.
LEMMA EndsAppend ==
    ASSUME NEW s \in Seq(Frames), NEW f \in Frames, NEW i, Ends(s, i),
           ~IsData(f, i) \/ ~Has(s, {"CLOSE_W"}, i)
    PROVE  Ends(Append(s, f), i)
<1>1. /\ Len(Append(s, f)) = Len(s) + 1 /\ Len(s) \in Nat
      /\ \A a \in 1..Len(s) : Append(s, f)[a] = s[a]
      /\ Append(s, f)[Len(s) + 1] = f
  BY AppendProperties, LenProperties
<1> SUFFICES ASSUME NEW a \in 1..Len(s) + 1, NEW b \in 1..Len(s) + 1, a < b,
                    Append(s, f)[a].act = "CLOSE_W", Append(s, f)[a].sid = i
             PROVE  ~IsData(Append(s, f)[b], i)
  BY <1>1 DEF Ends
<1>2. a \in 1..Len(s) /\ s[a].act = "CLOSE_W" /\ s[a].sid = i
  BY <1>1
<1>3. CASE b \in 1..Len(s)
  BY <1>1, <1>2, <1>3 DEF Ends
<1>4. CASE b = Len(s) + 1
  BY <1>1, <1>2, <1>4 DEF Has
<1> QED  BY <1>1, <1>3, <1>4

LEMMA EndsTail ==
    ASSUME NEW s \in Seq(Frames), s /= <<>>, NEW i, Ends(s, i)
    PROVE  /\ Ends(Tail(s), i)
           /\ \A A : Has(Tail(s), A, i) => Has(s, A, i)
           /\ Head(s).act = "CLOSE_W" /\ Head(s).sid = i =>
                Has(s, {"CLOSE_W"}, i) /\ Nums(Tail(s), i) = {}
<1>1. /\ Len(s) \in Nat \ {0} /\ Len(Tail(s)) = Len(s) - 1 /\ Head(s) = s[1]
      /\ \A a \in 1..Len(s) - 1 : Tail(s)[a] = s[a + 1] /\ a + 1 \in 1..Len(s)
      /\ 1 \in 1..Len(s)
  BY HeadTailProperties, EmptySeq
<1>2. Ends(Tail(s), i)
  <2> SUFFICES ASSUME NEW a \in 1..Len(s) - 1, NEW b \in 1..Len(s) - 1, a < b,
                      Tail(s)[a].act = "CLOSE_W", Tail(s)[a].sid = i
               PROVE  ~IsData(Tail(s)[b], i)
    BY <1>1 DEF Ends
  <2>1. a + 1 \in 1..Len(s) /\ b + 1 \in 1..Len(s) /\ a + 1 < b + 1
    BY <1>1
  <2> QED  BY <1>1, <2>1 DEF Ends
<1>3. \A A : Has(Tail(s), A, i) => Has(s, A, i)
  BY <1>1 DEF Has
<1>4. ASSUME Head(s).act = "CLOSE_W", Head(s).sid = i
      PROVE  Has(s, {"CLOSE_W"}, i) /\ Nums(Tail(s), i) = {}
  <2>1. \A a \in 1..Len(s) - 1 : ~IsData(Tail(s)[a], i)
    <3> SUFFICES ASSUME NEW a \in 1..Len(s) - 1
                 PROVE  ~IsData(s[a + 1], i)
      BY <1>1
    <3>1. 1 < a + 1 /\ a + 1 \in 1..Len(s)
      BY <1>1
    <3> QED  BY <1>1, <1>4, <3>1 DEF Ends
  <2> QED  BY <1>1, <1>4, <2>1 DEF Has, Nums
<1> QED  BY <1>2, <1>3, <1>4

\* What a step may do to the streams of a session towards the application when
\* it neither sends nor delivers nor writes: add frames of other kinds or of
\* other sessions, lose some.
NetLess(i) ==
    \/ net'["C"] \in {net["C"], <<>>}
    \/ net["C"] /= <<>> /\ net'["C"] = Tail(net["C"])
    \/ \E f \in Frames : /\ net'["C"] = Append(net["C"], f)
                         /\ f.sid = i => f.act \notin {"DATA", "CLOSE_W"}
QueueLess(e) ==
    \/ ~qOpen'[e]
    \/ q'[e] = <<>>
    \/ /\ qOpen[e] /\ out'[e] = out[e]
       /\ q'[e] = q[e] \/ \E f \in Frames : f.act = "CLOSE" /\ q'[e] = Append(q[e], f)
Aside(i) ==
    /\ notice'[<<"S", i>>] => notice[<<"S", i>>]
    /\ sent'[<<"S", i>>] = sent[<<"S", i>>]
    /\ NetLess(i) /\ QueueLess(<<"C", i>>)

\* The steps that do.
Towards(i) ==
    \/ RelayRead(<<"S", i>>) \/ RelayEnd(<<"S", i>>) \/ Notice(<<"S", i>>)
    \/ QueueWrite(<<"C", i>>)
    \/ ListenDeliver("C") /\ EdgeOf("C") = <<"C", i>>

\* What is written to the tunnel for others.
LEMMA SendLess ==
    ASSUME TypeOK, NEW i \in Sid, NEW x \in Side, NEW f \in Frames, Send(x, f),
           x = "S" /\ f.sid = i => f.act \notin {"DATA", "CLOSE_W"}
    PROVE  NetLess(i)
<1>1. net'["C"] = net["C"] \/ (x = "S" /\ net'["C"] = Append(net["C"], f))
  BY DEF Send, TypeOK, Side, Peer
<1> QED  BY <1>1 DEF NetLess

\* What is read from it.
LEMMA ConsumeLess ==
    ASSUME TypeOK, NEW i \in Sid, NEW x \in Side, net[x] /= <<>>, Consume(x)
    PROVE  NetLess(i)
<1>1. net'["C"] = net["C"] \/ (x = "C" /\ net'["C"] = Tail(net["C"]))
  BY DEF Consume, TypeOK, Side
<1> QED  BY <1>1 DEF NetLess

\* Every step is one of these.
LEMMA EofMoves ==
    ASSUME TypeOK, Next, NEW i \in Sid
    PROVE  Aside(i) \/ Towards(i)
<1> DEFINE Goal == Aside(i) \/ Towards(i)
           c == <<"C", i>>
           d == <<"S", i>>
<1>0. /\ c \in E /\ d \in E /\ c /= d
      /\ \A j : c /= <<"S", j>> /\ d /= <<"C", j>>
      /\ \A e \in E : e /= d /\ e[1] = "S" => e[2] /= i
  BY PairEdge DEF Side
<1>q. UNCHANGED <<q, qOpen, out>> => QueueLess(c)
  BY DEF QueueLess
<1>n. UNCHANGED net => NetLess(i)
  BY DEF NetLess
<1>a. /\ UNCHANGED <<notice, sent>> /\ NetLess(i) /\ QueueLess(c) => Goal
  BY DEF Aside
<1> USE DEF edgeVars
<1> HIDE DEF Goal, c, d
<1>1. ASSUME NEW j \in Sid, HandleRequest(j) PROVE Goal
  <2>1. UNCHANGED <<net, out, notice, sent>>
    BY <1>1 DEF HandleRequest
  <2>2. QueueLess(c)
    BY <1>0, <1>1 DEF HandleRequest, register, QueueLess, TypeOK, c
  <2> QED  BY <1>n, <1>a, <2>1, <2>2
<1>2. ASSUME NEW j \in Sid, HandleOffline(j) PROVE Goal
  BY <1>q, <1>n, <1>a, <1>2 DEF HandleOffline
<1>3. ASSUME NEW j \in Sid, RelayStart(j) PROVE Goal
  <2> DEFINE f == Frm("OPEN", j, 0)
  <2>1. f \in Frames /\ f.act \notin {"DATA", "CLOSE_W"} /\ "C" \in Side
    BY FrmType DEF Frm, Side, Replies
  <2>2. UNCHANGED <<q, qOpen, out, notice, sent>> /\ (Send("C", f) \/ UNCHANGED net)
    BY <1>3 DEF RelayStart
  <2> HIDE DEF f
  <2> QED  BY <1>q, <1>n, <1>a, <2>1, <2>2, SendLess
<1>4. ASSUME NEW j \in Sid, RelaySignal(j) PROVE Goal
  BY <1>q, <1>n, <1>a, <1>4 DEF RelaySignal
<1>5. ASSUME NEW j \in Sid, RelayNoSignal(j) PROVE Goal
  BY <1>q, <1>n, <1>a, <1>5 DEF RelayNoSignal
<1>6. ASSUME NEW j \in Sid, RelayWaitTimeout(j) PROVE Goal
  BY <1>q, <1>n, <1>a, <1>6 DEF RelayWaitTimeout
<1>7. ASSUME NEW j \in Sid, RelayReadTimeout(j) PROVE Goal
  BY <1>q, <1>n, <1>a, <1>7 DEF RelayReadTimeout
<1>8. ASSUME NEW j \in Sid, ConnectOk(j) PROVE Goal
  <2>1. UNCHANGED <<net, out, notice, sent>>
    BY <1>8 DEF ConnectOk
  <2>2. QueueLess(c)
    BY <1>0, <1>8 DEF ConnectOk, register, QueueLess, TypeOK, c
  <2> QED  BY <1>n, <1>a, <2>1, <2>2
<1>9. ASSUME NEW j \in Sid, ConnectAccept(j) PROVE Goal
  <2> DEFINE f == Frm("OPEN_Y", j, 0)
  <2>1. f \in Frames /\ f.act \notin {"DATA", "CLOSE_W"} /\ "S" \in Side
    BY FrmType DEF Frm, Side, Replies
  <2>2. UNCHANGED <<q, qOpen, out, notice, sent>> /\ (Send("S", f) \/ UNCHANGED net)
    BY <1>9 DEF ConnectAccept
  <2> HIDE DEF f
  <2> QED  BY <1>q, <1>n, <1>a, <2>1, <2>2, SendLess
<1>10. ASSUME NEW j \in Sid, ConnectFail(j) PROVE Goal
  BY <1>q, <1>n, <1>a, <1>10 DEF ConnectFail
<1>11. ASSUME NEW j \in Sid, ConnectRefuse(j) PROVE Goal
  <2> DEFINE f == Frm(relay[<<"S", j>>], j, 0)
  <2>1. f \in Frames /\ f.act \notin {"DATA", "CLOSE_W"} /\ "S" \in Side
    BY <1>11, FrmType DEF Frm, Side, Replies, ConnectRefuse
  <2>2. UNCHANGED <<q, qOpen, out, notice, sent>> /\ (Send("S", f) \/ UNCHANGED net)
    BY <1>11 DEF ConnectRefuse
  <2> HIDE DEF f
  <2> QED  BY <1>q, <1>n, <1>a, <2>1, <2>2, SendLess
<1>12. ASSUME NEW e \in E, RelayRead(e) PROVE Goal
  <2> DEFINE f == Frm("DATA", e[2], sent[e] + 1)
  <2>1. e[1] \in Side /\ e[2] \in Sid /\ sent[e] + 1 \in Nat
    BY EdgePair DEF TypeOK
  <2>2. f \in Frames /\ f.sid = e[2] /\ Send(e[1], f)
    BY <1>12, <2>1, FrmType DEF RelayRead, Frm
  <2> HIDE DEF f
  <2>3. UNCHANGED <<q, qOpen, out, notice>> /\ (e /= d => sent'[d] = sent[d])
    BY <1>0, <1>12 DEF RelayRead, TypeOK
  <2>4. e /= d => NetLess(i)
    BY <1>0, <2>1, <2>2, SendLess
  <2> QED  BY <1>q, <1>12, <2>3, <2>4 DEF Goal, Aside, Towards, c, d
<1>13. ASSUME NEW e \in E, RelayEof(e) PROVE Goal
  BY <1>q, <1>n, <1>a, <1>13 DEF RelayEof
<1>14. ASSUME NEW e \in E, RelayEnd(e) PROVE Goal
  <2>1. UNCHANGED <<q, qOpen, out, net, sent>> /\ (e /= d => notice'[d] = notice[d])
    BY <1>0, <1>14 DEF RelayEnd, TypeOK
  <2> QED  BY <1>q, <1>n, <1>14, <2>1 DEF Goal, Aside, Towards, c, d
<1>15. ASSUME NEW e \in E, Notice(e) PROVE Goal
  <2> DEFINE f == Frm("CLOSE_W", e[2], 0)
  <2>1. e[1] \in Side /\ f \in Frames /\ f.sid = e[2] /\ Send(e[1], f)
    BY <1>15, EdgePair, FrmType DEF Notice, Frm
  <2> HIDE DEF f
  <2>2. UNCHANGED <<q, qOpen, out, sent>> /\ (e /= d => notice'[d] = notice[d])
    BY <1>0, <1>15 DEF Notice, TypeOK
  <2>3. e /= d => NetLess(i)
    BY <1>0, <2>1, SendLess
  <2> QED  BY <1>q, <1>15, <2>2, <2>3 DEF Goal, Aside, Towards, c, d
<1>16. ASSUME NEW e \in E, QueueWrite(e) PROVE Goal
  <2>1. UNCHANGED <<qOpen, net, sent, notice>>
    BY <1>16 DEF QueueWrite
  <2>2. e /= c => out'[c] = out[c] /\ q'[c] = q[c]
    BY <1>0, <1>16 DEF QueueWrite, TypeOK
  <2> QED  BY <1>n, <1>a, <1>16, <2>1, <2>2 DEF Goal, QueueLess, Towards, c
<1>17. ASSUME NEW e \in E, QueueWriteErr(e) PROVE Goal
  <2> DEFINE f == Frm("CLOSE_R", e[2], 0)
  <2>1. e[1] \in Side /\ f \in Frames /\ f.act \notin {"DATA", "CLOSE_W"}
    BY EdgePair, FrmType DEF Frm
  <2>2. UNCHANGED <<out, notice, sent>> /\ (Send(e[1], f) \/ UNCHANGED net)
    BY <1>17 DEF QueueWriteErr
  <2> HIDE DEF f
  <2>3. QueueLess(c)
    BY <1>0, <1>17 DEF QueueWriteErr, closeForce, QueueLess, TypeOK
  <2> QED  BY <1>n, <1>a, <2>1, <2>2, <2>3, SendLess
<1>18. ASSUME NEW e \in E, QueueClose(e) PROVE Goal
  <2>1. QueueLess(c)
    BY <1>0, <1>18 DEF QueueClose, closeForce, QueueLess, TypeOK
  <2> QED  BY <1>n, <1>a, <1>18, <2>1 DEF QueueClose
<1>19. ASSUME NEW e \in E, QueueCloseW(e) PROVE Goal
  <2>1. QueueLess(c)
    BY <1>0, <1>19 DEF QueueCloseW, QueueLess, TypeOK
  <2> QED  BY <1>n, <1>a, <1>19, <2>1 DEF QueueCloseW
<1>20. ASSUME NEW e \in E, Clean(e) PROVE Goal
  BY <1>q, <1>n, <1>a, <1>20 DEF Clean
<1>21. ASSUME NEW x \in Side, ListenDeliver(x) PROVE Goal
  <2>1. net[x] /= <<>> /\ Consume(x) /\ UNCHANGED <<qOpen, out, notice, sent>>
    BY <1>21 DEF ListenDeliver, Incoming
  <2>2. NetLess(i)
    BY <2>1, ConsumeLess
  <2>3. CASE EdgeOf(x) = c
    BY <1>21, <2>3 DEF Goal, Towards, EdgeOf, c
  <2>4. CASE EdgeOf(x) /= c
    <3>1. q'[c] = q[c]
      BY <1>0, <1>21, <2>4 DEF ListenDeliver, deliver, TypeOK
    <3> QED  BY <1>a, <2>1, <2>2, <3>1 DEF QueueLess
  <2> QED  BY <2>3, <2>4
<1>22. ASSUME NEW x \in Side, ListenCloseR(x) PROVE Goal
  <2>1. net[x] /= <<>> /\ Consume(x) /\ UNCHANGED <<q, qOpen, out, notice, sent>>
    BY <1>22 DEF ListenCloseR, Incoming
  <2> QED  BY <1>q, <1>a, <2>1, ConsumeLess
<1>23. ASSUME NEW x \in Side, ListenUnknown(x) PROVE Goal
  <2>1. net[x] /= <<>> /\ UNCHANGED <<q, qOpen, out, notice, sent>>
    BY <1>23 DEF ListenUnknown, Incoming
  <2>2. PICK f \in Frames : /\ f.act = "CLOSE_R" /\ net'[x] = Tail(net[x])
                            /\ net'[Peer(x)] \in {net[Peer(x)], Append(net[Peer(x)], f)}
    BY <1>23, UnknownNet
  <2>3. NetLess(i)
    BY <2>1, <2>2 DEF NetLess, Side, Peer
  <2> QED  BY <1>q, <1>a, <2>1, <2>3
<1>24. ASSUME NEW x \in Side, TunDisconnected(x) PROVE Goal
  <2> DEFINE f == Frm("CLOSE", i, 0)
  <2>1. f \in Frames /\ f.act = "CLOSE"
    BY FrmType DEF Frm
  <2>2. UNCHANGED <<net, qOpen, out, notice, sent>> /\ q'[c] \in {q[c], Append(q[c], f)}
    BY <1>0, <1>24 DEF TunDisconnected, c
  <2> HIDE DEF f
  <2>3. QueueLess(c)
    BY <2>1, <2>2 DEF QueueLess
  <2> QED  BY <1>n, <1>a, <2>2, <2>3
<1>25. ASSUME ListenReply PROVE Goal
  <2>1. /\ "C" \in Side /\ net["C"] /= <<>> /\ Consume("C")
        /\ UNCHANGED <<q, qOpen, out, notice, sent>>
    BY <1>25 DEF ListenReply, Incoming, Side
  <2> QED  BY <1>q, <1>a, <2>1, ConsumeLess
<1>26. ASSUME ListenOpen PROVE Goal
  <2>1. /\ "S" \in Side /\ net["S"] /= <<>> /\ Consume("S")
        /\ UNCHANGED <<q, qOpen, out, notice, sent>>
    BY <1>26 DEF ListenOpen, Incoming, Side
  <2> QED  BY <1>q, <1>a, <2>1, ConsumeLess
<1>27. ASSUME ListenPre PROVE Goal
  <2>1. /\ "S" \in Side /\ net["S"] /= <<>> /\ Consume("S")
        /\ UNCHANGED <<q, qOpen, out, notice, sent>>
    BY <1>27 DEF ListenPre, Incoming, Side
  <2> QED  BY <1>q, <1>a, <2>1, ConsumeLess
<1>28. ASSUME preDeliver PROVE Goal
  BY <1>q, <1>n, <1>a, <1>28 DEF preDeliver
<1>29. ASSUME TunBreak PROVE Goal
  <2>1. UNCHANGED <<q, qOpen, out, notice, sent>> /\ net'["C"] = <<>>
    BY <1>29 DEF TunBreak, Side
  <2> QED  BY <1>q, <1>a, <2>1 DEF NetLess
<1>30. Goal
  BY <1>1, <1>2, <1>3, <1>4, <1>5, <1>6, <1>7, <1>8, <1>9, <1>10, <1>11, <1>12,
     <1>13, <1>14, <1>15, <1>16, <1>17, <1>18, <1>19, <1>20, <1>21, <1>22,
     <1>23, <1>24, <1>25, <1>26, <1>27, <1>28, <1>29
  DEF Next, RelayRun, Connect, Listen, ListenS, Queue
<1> QED  BY <1>30 DEF Goal

\* A relay that has finished stays so.
LEMMA DoneStays ==
    ASSUME TypeOK, OpenInv, Next, NEW i \in Sid, relay[<<"S", i>>] = "done"
    PROVE  relay'[<<"S", i>>] = "done"
<1>1. CASE ~ListenOpen
  BY <1>1, RelayKeeps DEF Keeps
<1>2. CASE ListenOpen
  <2> DEFINE j == Head(net["S"]).sid
  <2>1. j \in Sid /\ relay[<<"S", j>>] = "idle" /\ relay' = [relay EXCEPT ![<<"S", j>>] = "dial"]
    BY <1>2, OpenIdle DEF ListenOpen, Goto
  <2> HIDE DEF j
  <2>2. <<"S", i>> \in E /\ <<"S", j>> /= <<"S", i>>
    BY <2>1, PairEdge DEF Side
  <2> QED  BY <2>1, <2>2 DEF TypeOK
<1> QED  BY <1>1, <1>2

\* What a stream loses or gains for others does not concern the session.
LEMMA NetLessKeeps ==
    ASSUME TypeOK, NEW i \in Sid, NetLess(i), Ends(net["C"], i), Incr(net["C"], i)
    PROVE  /\ Ends(net'["C"], i) /\ Nums(net'["C"], i) \subseteq Nums(net["C"], i)
           /\ Has(net'["C"], {"CLOSE_W"}, i) => Has(net["C"], {"CLOSE_W"}, i)
<1>1. net["C"] \in Seq(Frames)
  BY DEF TypeOK, Side
<1>2. CASE net'["C"] \in {net["C"], <<>>}
  BY <1>2, EmptyStream DEF Ends
<1>3. CASE net["C"] /= <<>> /\ net'["C"] = Tail(net["C"])
  BY <1>1, <1>3, EndsTail, NumsTail
<1>4. ASSUME NEW f \in Frames, net'["C"] = Append(net["C"], f),
             f.sid = i => f.act \notin {"DATA", "CLOSE_W"}
      PROVE  /\ Ends(net'["C"], i) /\ Nums(net'["C"], i) \subseteq Nums(net["C"], i)
             /\ Has(net'["C"], {"CLOSE_W"}, i) => Has(net["C"], {"CLOSE_W"}, i)
  <2>1. ~IsData(f, i) /\ ~(f.act \in {"CLOSE_W"} /\ f.sid = i)
    BY <1>4 DEF IsData
  <2> QED  BY <1>1, <1>4, <2>1, EndsAppend, NumsAppend, HasAppend
<1> QED  BY <1>2, <1>3, <1>4 DEF NetLess

\* CLOSE_W comes behind all the data on its way to the application.
LEMMA EofStep ==
    ASSUME TypeOK, OpenInv, HeldInv, OrderInv, GapInv, GapInv', EofInv, Next
    PROVE  EofInv'
<1> SUFFICES ASSUME NEW i \in Sid
             PROVE  Eof(i)'
  BY DEF EofInv
<1> DEFINE W == {"CLOSE_W"}
           e == <<"C", i>>
           d == <<"S", i>>
           s == net["C"]
           L == Len(out[e])
           Q == Nums(q[e], i)
           N == Nums(s, i)
<1>0. e \in E /\ d \in E /\ e /= d /\ e[1] = "C" /\ e[2] = i /\ Source(e) = d
  BY PairEdge DEF Side, Source, Peer
<1>1. /\ sent[d] \in Nat /\ q[e] \in Seq(Frames) /\ s \in Seq(Frames) /\ out[e] \in Seq(Nat)
      /\ L \in Nat /\ Q \subseteq Nat /\ N \subseteq Nat
  BY <1>0, StageTypes, NumsNat, LenProperties
<1>2. Incr(q[e], i) /\ Incr(s, i) /\ Own(q[e], i)
  BY <1>0 DEF OrderInv, Ordered, HeldInv
<1>3. /\ Ends(s, i) /\ (qOpen[e] => Ends(q[e], i))
      /\ notice[d] => relay[d] = "done"
      /\ Has(s, W, i) => relay[d] = "done"
      /\ qOpen[e] /\ Has(q[e], W, i) =>
           relay[d] = "done" /\ N = {} /\ L+1..sent[d] \subseteq Q
  BY DEF EofInv, Eof
<1>4. relay[d] = "done" => relay'[d] = "done"
  BY DoneStays
<1>5. SUFFICES
        /\ Ends(net'["C"], i) /\ (qOpen'[e] => Ends(q'[e], i))
        /\ notice'[d] => relay'[d] = "done"
        /\ Has(net'["C"], W, i) => relay'[d] = "done"
        /\ qOpen'[e] /\ Has(q'[e], W, i) =>
             /\ relay'[d] = "done" /\ Nums(net'["C"], i) = {}
             /\ Len(out'[e])+1..sent'[d] \subseteq Nums(q'[e], i)
  BY <1>5 DEF Eof
<1> HIDE DEF e, d
<1>6. CASE Aside(i)
  <2>1. /\ notice'[d] => notice[d]
        /\ sent'[d] = sent[d] /\ NetLess(i) /\ QueueLess(e)
    BY <1>6 DEF Aside, d, e
  <2>2. /\ Ends(net'["C"], i) /\ Nums(net'["C"], i) \subseteq N
        /\ Has(net'["C"], W, i) => Has(s, W, i)
    BY <1>2, <1>3, <2>1, NetLessKeeps
  <2>3. CASE ~qOpen'[e]
    BY <1>3, <1>4, <2>1, <2>2, <2>3
  <2>4. CASE q'[e] = <<>>
    <3>1. Ends(<<>>, i)
      BY DEF Ends
    <3>2. ~Has(<<>>, W, i)
      BY EmptyStream
    <3> QED  BY <1>3, <1>4, <2>1, <2>2, <2>4, <3>1, <3>2
  <2>5. CASE qOpen[e] /\ out'[e] = out[e] /\ q'[e] = q[e]
    <3> HIDE DEF L, Q, N, s, W
    <3> QED  BY <1>3, <1>4, <2>1, <2>2, <2>5 DEF L, Q
  <2>6. ASSUME qOpen[e], out'[e] = out[e], NEW f \in Frames, f.act = "CLOSE",
               q'[e] = Append(q[e], f)
        PROVE  /\ Ends(q'[e], i) /\ Nums(q'[e], i) = Q
               /\ Has(q'[e], W, i) => Has(q[e], W, i)
    <3>1. ~IsData(f, i) /\ ~(f.act \in W /\ f.sid = i)
      BY <2>6 DEF IsData
    <3> QED  BY <1>1, <1>3, <2>6, <3>1, EndsAppend, NumsAppend, HasAppend
  <2>7. CASE qOpen[e] /\ out'[e] = out[e]
             /\ \E f \in Frames : f.act = "CLOSE" /\ q'[e] = Append(q[e], f)
    <3>1. /\ Ends(q'[e], i) /\ Nums(q'[e], i) = Q
          /\ Has(q'[e], W, i) => Has(q[e], W, i)
      BY <2>6, <2>7
    <3> HIDE DEF L, Q, N, s, W
    <3> QED  BY <1>3, <1>4, <2>1, <2>2, <2>7, <3>1 DEF L
  <2> QED  BY <2>1, <2>3, <2>4, <2>5, <2>7 DEF QueueLess
<1>7. CASE RelayRead(d)
  <2> DEFINE f == Frm("DATA", i, sent[d] + 1)
  <2>1. f \in Frames /\ f.act = "DATA" /\ d[1] = "S" /\ d[2] = i
    <3>1. sent[d] + 1 \in Nat
      BY <1>1
    <3>2. f \in Frames
      BY <3>1, FrmType
    <3> QED  BY <3>2 DEF Frm, d
  <2>2. /\ relay[d] /= "done" /\ UNCHANGED <<q, qOpen, out, notice>>
        /\ Send("S", f)
    BY <1>7, <2>1 DEF RelayRead, edgeVars
  <2> HIDE DEF f
  <2>3. net'["C"] = s \/ net'["C"] = Append(s, f)
    BY <2>2 DEF Send, TypeOK, Side, Peer
  <2>4. ~notice[d] /\ ~Has(s, W, i) /\ ~(qOpen[e] /\ Has(q[e], W, i))
    BY <1>3, <2>2
  <2>5. ~Has(net'["C"], W, i) /\ Ends(net'["C"], i)
    <3>1. ~Has(Append(s, f), W, i)
      <4>1. f.act \notin W
        BY <2>1
      <4> HIDE DEF W, s
      <4> QED  BY <1>1, <2>1, <2>4, <4>1, HasAppend
    <3>2. Ends(Append(s, f), i)
      BY <1>1, <1>3, <2>1, <2>4, EndsAppend
    <3> QED  BY <1>3, <2>3, <2>4, <3>1, <3>2
  <2> QED  BY <1>3, <2>2, <2>4, <2>5
<1>8. CASE RelayEnd(d)
  <2>1. relay'[d] = "done" /\ UNCHANGED <<q, qOpen, out, net, sent>>
    BY <1>0, <1>8 DEF RelayEnd, Goto, TypeOK
  <2> QED  BY <1>3, <2>1
<1>9. CASE Notice(d)
  <2> DEFINE f == Frm("CLOSE_W", i, 0)
  <2>1. f \in Frames /\ ~IsData(f, i) /\ d[1] = "S" /\ d[2] = i
    BY FrmType DEF Frm, IsData, d
  <2>2. notice[d] /\ UNCHANGED <<q, qOpen, out, sent>> /\ Send("S", f)
    BY <1>9, <2>1 DEF Notice, edgeVars
  <2> HIDE DEF f
  <2>3. net'["C"] = s \/ net'["C"] = Append(s, f)
    BY <2>2 DEF Send, TypeOK, Side, Peer
  <2>4. Ends(net'["C"], i) /\ Nums(net'["C"], i) = N
    <3>1. Ends(Append(s, f), i)
      BY <1>1, <1>3, <2>1, EndsAppend
    <3>2. Nums(Append(s, f), i) = N
      BY <1>1, <2>1, NumsAppend
    <3> QED  BY <1>3, <2>3, <3>1, <3>2
  <2>5. relay'[d] = "done"
    BY <1>3, <1>4, <2>2
  <2> QED  BY <1>3, <2>2, <2>4, <2>5
<1>10. CASE QueueWrite(e)
  <2> DEFINE n == Head(q[e]).n
             Q1 == Nums(Tail(q[e]), i)
  <2>1. /\ UNCHANGED <<net, qOpen, sent, notice>> /\ qOpen[e] /\ q[e] /= <<>>
        /\ Head(q[e]).act = "DATA" /\ q'[e] = Tail(q[e]) /\ out'[e] = Append(out[e], n)
    BY <1>0, <1>10 DEF QueueWrite, QHead, TypeOK
  <2>2. IsData(Head(q[e]), i)
    BY <1>1, <1>2, <2>1, OwnTail DEF IsData
  <2>3. Ends(q'[e], i) /\ (Has(q'[e], W, i) => Has(q[e], W, i))
    BY <1>1, <1>3, <2>1, EndsTail
  <2>4. n \in Q /\ Q = Q1 \cup {n}
    BY <1>1, <1>2, <2>1, <2>2, NumsTail
  <2>5. n = L + 1 /\ Len(out'[e]) = L + 1
    <3>1. Len(out'[e]) = L + 1 /\ out'[e][L + 1] = n
      BY <1>1, <2>1, <2>4, AppendProperties
    <3>2. \A k \in 1..Len(out'[e]) : out'[e][k] = k
      BY DEF GapInv, NoGap, e
    <3> HIDE DEF n, L
    <3>3. L + 1 \in 1..L + 1
      BY <1>1
    <3> QED  BY <3>1, <3>2, <3>3
  <2> HIDE DEF n, Q1, Q, L, W
  <2>6. L+1..sent[d] \subseteq Q => (L + 1) + 1..sent[d] \subseteq Q1
    <3> SUFFICES ASSUME L+1..sent[d] \subseteq Q, NEW m \in (L + 1) + 1..sent[d]
                 PROVE  m \in Q1
      OBVIOUS
    <3>1. m \in L+1..sent[d] /\ m /= L + 1
      BY <1>1
    <3> QED  BY <2>4, <2>5, <3>1
  <2> QED  BY <1>3, <1>4, <2>1, <2>3, <2>5, <2>6 DEF Q1
<1>11. CASE ListenDeliver("C") /\ EdgeOf("C") = e
  <2> DEFINE f == Head(s)
  <2>1. /\ s /= <<>> /\ tunOk /\ Found(e) /\ f.act \in {"DATA", "CLOSE_W"} /\ f.sid = i
        /\ net'["C"] = Tail(s) /\ UNCHANGED <<qOpen, out, sent, notice>>
        /\ q'[e] = IF qOpen[e] THEN Append(q[e], f) ELSE q[e]
    BY <1>0, <1>11 DEF ListenDeliver, Incoming, Consume, deliver, EdgeOf, TypeOK, Side, e
  <2>2. f \in Frames
    BY <1>1, <2>1, HeadTailProperties
  <2>3. /\ Ends(Tail(s), i) /\ (Has(Tail(s), W, i) => Has(s, W, i))
        /\ f.act = "CLOSE_W" => Has(s, W, i) /\ Nums(Tail(s), i) = {}
    BY <1>1, <1>3, <2>1, EndsTail
  <2>4. /\ IsData(f, i) => f.n \in N
        /\ ~IsData(f, i) => Nums(Tail(s), i) = N
    BY <1>1, <1>2, <2>1, NumsTail
  <2> HIDE DEF f
  <2>5. CASE ~qOpen[e]
    BY <1>3, <1>4, <2>1, <2>3, <2>5
  <2>6. CASE qOpen[e] /\ f.act = "DATA"
    <3>1. IsData(f, i) /\ f.act \notin W
      BY <2>1, <2>6 DEF IsData
    <3>2. ~Has(q[e], W, i)
      BY <1>3, <2>4, <2>6, <3>1
    <3>3. Ends(q'[e], i) /\ ~Has(q'[e], W, i)
      BY <1>1, <1>3, <2>1, <2>2, <2>6, <3>1, <3>2, EndsAppend, HasAppend
    <3> QED  BY <1>3, <1>4, <2>1, <2>3, <3>3
  <2>7. CASE qOpen[e] /\ f.act = "CLOSE_W"
    <3>1. ~IsData(f, i)
      BY <2>7 DEF IsData
    <3>2. Ends(q'[e], i) /\ Nums(q'[e], i) = Q
      BY <1>1, <1>3, <2>1, <2>2, <2>7, <3>1, EndsAppend, NumsAppend
    <3>3. L+1..sent[d] \subseteq Q \cup N
      <4>1. NoGap(e)
        BY DEF GapInv, e
      <4> QED  BY <1>0, <2>1, <2>7, <4>1 DEF NoGap
    <3>4. N = {} /\ Nums(Tail(s), i) = {} /\ relay'[d] = "done"
      BY <1>3, <1>4, <2>3, <2>4, <2>7, <3>1
    <3> HIDE DEF N, Q, L, W
    <3>5. L+1..sent[d] \subseteq Q
      BY <3>3, <3>4
    <3> QED  BY <2>1, <2>3, <3>2, <3>4, <3>5 DEF L
  <2> QED  BY <2>1, <2>5, <2>6, <2>7
<1> QED  BY <1>6, <1>7, <1>8, <1>9, <1>10, <1>11, EofMoves DEF Towards, d, e

-----------------------------------------------------------------------------
(* The theorems *)

\* In the beginning nothing is open and nothing is under way.
LEMMA InitInv ==
    ASSUME Init
    PROVE  IInv
<1> USE MuxAssumption
<1>0. /\ \A i \in Sid : <<"C", i>> \in E /\ <<"S", i>> \in E
      /\ "C" \in Side /\ "S" \in Side
  BY PairEdge DEF Side
<1>1. TypeOK
  <2>1. <<>> \in Seq(Frames) /\ <<>> \in Seq(Nat) /\ {} \in SUBSET Bits
    OBVIOUS
  <2> QED  BY <2>1 DEF Init, TypeOK
<1>2. /\ \A y \in Side : net[y] = <<>>
      /\ \A e \in E : q[e] = <<>> /\ out[e] = <<>> /\ relay[e] = "idle" /\ sent[e] = 0
                      /\ ~qOpen[e] /\ ~reg[e] /\ ~notice[e]
      /\ \A i \in Sid : /\ pre[i] = <<>> /\ ~inPre[i] /\ code[i] = "none"
                        /\ ready[i] = "empty" /\ tn[i] = 0
      /\ held = <<>>
  BY DEF Init
<1>3. OpenInv /\ ReplyInv
  BY <1>0, <1>2, EmptyStream DEF OpenInv, ReplyInv
<1>4. FastInv /\ PreOnlyWhileDialing /\ EdgeInv
  <2>1. \A i \in Sid : tn[i] <= (FastMax - 1) + BufMax
    <3>1. 0 <= (FastMax - 1) + BufMax
      OBVIOUS
    <3> QED  BY <1>2, <3>1
  <2>2. FastInv
    BY <1>0, <1>2, <2>1 DEF FastInv
  <2>3. PreOnlyWhileDialing
    BY <1>0, <1>2 DEF PreOnlyWhileDialing
  <2>4. EdgeInv
    BY <1>0, <1>2 DEF EdgeInv
  <2> QED  BY <2>2, <2>3, <2>4
<1>5. HeldInv
  BY <1>2, EmptyStream DEF HeldInv
<1>6. ASSUME NEW e \in E
      PROVE  Ordered(e)
  <2>1. e[1] \in Side /\ e[2] \in Sid /\ PreOf(e) = <<>> /\ HeldOf(e) = <<>>
    BY <1>2, EdgePair DEF PreOf, HeldOf
  <2>2. OutIncr(<<>>) /\ OutNums(<<>>) = {}
    BY DEF OutIncr, OutNums
  <2>3. Chain({}, {}, {}, {}, {}, sent[Source(e)])
    BY DEF Chain, Before
  <2>4. Nums(<<>>, e[2]) = {} /\ Incr(<<>>, e[2])
    BY EmptyStream
  <2>5. out[e] = <<>> /\ q[e] = <<>> /\ net[e[1]] = <<>>
    BY <1>2, <2>1
  <2> QED  BY <2>1, <2>2, <2>3, <2>4, <2>5 DEF Ordered
<1>7. ASSUME NEW i \in Sid
      PROVE  NoGap(<<"C", i>>)
  <2> DEFINE e == <<"C", i>>
  <2>1. e \in E
    BY <1>0
  <2>2. Len(out[e]) = 0 /\ ~qOpen[e]
    BY <1>2, <2>1
  <2> QED  BY <2>2 DEF NoGap
<1>8. ASSUME NEW i \in Sid
      PROVE  Eof(i)
  <2>1. /\ net["C"] = <<>> /\ ~qOpen[<<"C", i>>] /\ ~notice[<<"S", i>>]
    BY <1>0, <1>2
  <2>2. Ends(<<>>, i)
    BY DEF Ends
  <2>3. ~Has(<<>>, {"CLOSE_W"}, i)
    BY EmptyStream
  <2> QED  BY <2>1, <2>2, <2>3 DEF Eof
<1> QED  BY <1>1, <1>3, <1>4, <1>5, <1>6, <1>7, <1>8 DEF IInv, ControlInv, OrderInv, GapInv, EofInv

\* Every step keeps the invariant.
LEMMA StepInv ==
    ASSUME IInv, [Next]_vars
    PROVE  IInv'
<1>1. CASE Next
  <2>1. /\ TypeOK /\ OpenInv /\ ReplyInv /\ FastInv /\ PreOnlyWhileDialing /\ EdgeInv
        /\ HeldInv /\ OrderInv /\ GapInv /\ EofInv
    BY DEF IInv, ControlInv
  <2>2. TypeOK'
    BY <1>1, <2>1, TypeStep
  <2>3. OpenInv' /\ ReplyInv'
    BY <1>1, <2>1, OpenStep, ReplyStep
  <2>4. FastInv' /\ PreOnlyWhileDialing' /\ EdgeInv' /\ HeldInv'
    BY <1>1, <2>1, FastStep, PreStep, EdgeStep, HeldStep
  <2>5. ASSUME NEW e \in E
        PROVE  Ordered(e)'
    <3>1. Ordered(e)
      BY <2>1 DEF OrderInv
    <3>2. Moves(e)
      BY <1>1, <2>1, <3>1, StageStep
    <3> QED  BY <2>1, <3>1, <3>2, OrderMoves
  <2>6. GapInv'
    BY <1>1, <2>1, GapStep
  <2>7. EofInv'
    BY <1>1, <2>1, <2>6, EofStep
  <2> QED  BY <2>2, <2>3, <2>4, <2>5, <2>6, <2>7 DEF IInv, ControlInv, OrderInv
<1>2. CASE UNCHANGED vars
  <2> USE <1>2 DEF vars
  <2>1. TypeOK'
    BY DEF IInv, TypeOK
  <2>2. OpenInv' /\ ReplyInv'
    BY DEF IInv, ControlInv, OpenInv, ReplyInv
  <2>3. FastInv' /\ PreOnlyWhileDialing' /\ EdgeInv' /\ HeldInv'
    BY DEF IInv, ControlInv, FastInv, PreOnlyWhileDialing, EdgeInv, HeldInv
  <2>4. OrderInv' /\ GapInv'
    BY DEF IInv, OrderInv, Ordered, PreOf, HeldOf, GapInv, NoGap, Found
  <2>5. EofInv'
    BY DEF IInv, EofInv, Eof
  <2> QED  BY <2>1, <2>2, <2>3, <2>4, <2>5 DEF IInv, ControlInv
<1> QED  BY <1>1, <1>2

\* The invariant holds in every reachable state.
THEOREM Invariant == Spec => []IInv
<1>1. Init => IInv
  BY InitInv
<1>2. IInv /\ [Next]_vars => IInv'
  BY StepInv
<1> QED  BY <1>1, <1>2, PTL DEF Spec

\* Every variable has its type.
THEOREM TypeCorrect == Spec => []TypeOK
<1>1. IInv => TypeOK
  BY DEF IInv
<1> QED  BY <1>1, Invariant, PTL

\* edge.ready is used once: there is one OPEN for a session, hence one
\* connectToDest, hence one answer.
THEOREM ReadyUsedOnce == Spec => []ReadyOnce
<1>1. IInv => ReadyOnce
  BY DEF IInv, ControlInv, ReplyInv, ReadyOnce
<1> QED  BY <1>1, Invariant, PTL

\* Before it has seen OPEN_Y relay sends less than FAST_OPEN_BUF_MAX_SIZE plus
\* one buffer, for every limit and every size of the buffer: the limit is
\* tested before a read that may fill the buffer.
THEOREM FastOpenBounded == Spec => []FastOpenBound
<1>1. IInv => FastOpenBound
  BY DEF IInv, ControlInv, FastInv, FastOpenBound
<1> QED  BY <1>1, Invariant, PTL

\* preRegistry has a buffer exactly while connectToDest dials.
THEOREM PreRegistryOnlyDialing == Spec => []PreOnlyWhileDialing
<1>1. IInv => PreOnlyWhileDialing
  BY DEF IInv, ControlInv
<1> QED  BY <1>1, Invariant, PTL

\* The destination receives in the order in which the application sent.
THEOREM UpOrder == Spec => []UpInOrder
<1>1. IInv => UpInOrder
  <2> SUFFICES ASSUME IInv, NEW i \in Sid
               PROVE  LET o == out[<<"S", i>>] IN
                        /\ \A j, k \in 1 .. Len(o) : j < k => o[j] < o[k]
                        /\ \A k \in 1 .. Len(o) : o[k] <= sent[<<"C", i>>]
    BY DEF UpInOrder
  <2> DEFINE e == <<"S", i>>
  <2>1. e \in E /\ Source(e) = <<"C", i>>
    BY PairEdge DEF Side, Source, Peer
  <2>2. Ordered(e)
    BY <2>1 DEF IInv, OrderInv
  <2> HIDE DEF e
  <2>3. OutIncr(out[e]) /\ \A n \in OutNums(out[e]) : n <= sent[<<"C", i>>]
    BY <2>1, <2>2 DEF Ordered, Chain
  <2>4. \A k \in 1 .. Len(out[e]) : out[e][k] \in OutNums(out[e])
    BY DEF OutNums
  <2> QED  BY <2>3, <2>4 DEF OutIncr, e
<1> QED  BY <1>1, Invariant, PTL

\* The application receives everything the destination sent, in order, up to
\* where the stream ends.
THEOREM DownWithoutGap == Spec => []DownNoGap
<1>1. IInv => DownNoGap
  BY DEF IInv, GapInv, NoGap, DownNoGap
<1> QED  BY <1>1, Invariant, PTL

\* The application sees the orderly end of the stream only when it has all that
\* the server's relay read from the destination, for any number of sessions and
\* reads, whatever else the tunnel carries.
THEOREM EofAfterData == Spec => EofBehindData
<1>1. ASSUME IInv, NEW i \in Sid, QueueCloseW(<<"C", i>>)
      PROVE  Len(out[<<"C", i>>]) = sent[<<"S", i>>]
  <2> DEFINE e == <<"C", i>>
             T == sent[<<"S", i>>]
             L == Len(out[e])
             Q == Nums(q[e], i)
  <2>0. e \in E /\ e[1] = "C" /\ e[2] = i /\ Source(e) = <<"S", i>>
    BY PairEdge DEF Side, Source, Peer
  <2>1. /\ qOpen[e] /\ q[e] /= <<>> /\ Head(q[e]).act = "CLOSE_W"
        /\ Eof(i) /\ NoGap(e) /\ Ordered(e) /\ Own(q[e], i)
    BY <1>1, <2>0 DEF QueueCloseW, QHead, IInv, EofInv, GapInv, OrderInv, ControlInv, HeldInv
  <2>2. T \in Nat /\ q[e] \in Seq(Frames) /\ L \in Nat
    BY <1>1, <2>0, StageTypes, LenProperties DEF IInv
  <2>3. Ends(q[e], i) /\ Incr(q[e], i)
    BY <2>0, <2>1 DEF Eof, Ordered
  <2>4. Head(q[e]).sid = i /\ ~IsData(Head(q[e]), i)
    BY <2>1, <2>2, OwnTail DEF IsData
  <2> HIDE DEF e
  <2>5. Has(q[e], {"CLOSE_W"}, i) /\ Nums(Tail(q[e]), i) = {}
    BY <2>1, <2>2, <2>3, <2>4, EndsTail
  <2>6. Q = {}
    BY <2>1, <2>2, <2>3, <2>4, <2>5, NumsTail
  <2>7. L+1..T \subseteq Q
    BY <2>1, <2>5 DEF Eof, e
  <2>8. L >= T
    BY <2>2, <2>6, <2>7
  <2>9. L <= T
    <3> SUFFICES ASSUME L > 0
                 PROVE  L <= T
      BY <2>2
    <3>1. L \in 1..L /\ out[e][L] = L
      BY <2>1, <2>2 DEF NoGap
    <3>2. L \in OutNums(out[e])
      BY <3>1 DEF OutNums
    <3> QED  BY <2>0, <2>1, <3>2 DEF Ordered, Chain
  <2> QED  BY <2>2, <2>8, <2>9 DEF e
<1>2. IInv => [\A i \in Sid : QueueCloseW(<<"C", i>>) =>
                               Len(out[<<"C", i>>]) = sent[<<"S", i>>]]_vars
  BY <1>1
<1> QED  BY <1>2, Invariant, PTL DEF EofBehindData
=============================================================================
