--------------------------- MODULE RequestProofs ---------------------------
(***************************************************************************)
(* Proofs about a request: the invariant of the front end, however much    *)
(* the application sends, and with the one of GeoProofs the properties of  *)
(* Request for every table and width of the filter.                        *)
(***************************************************************************)
EXTENDS Request, GeoProofs

-----------------------------------------------------------------------------
(* The invariant *)

\* What the application has sent and ClientServe has not read.
Stream == sock \o net

Early == {"detect", "unknown", "s5head", "s5meth", "http", "body", "local"}

\* What each stage of ClientServe has in the pushback buffer, whom it serves and
\* how often it has answered.
AtStage ==
    /\ stage \in {"detect", "s5meth", "s5req", "body", "local"} => pb = <<>>
    /\ stage \in {"unknown", "s5head", "http"} => pb = <<"head">>
    /\ stage \in {"s5head", "s5meth", "s5req"} => kind \in Socks
    /\ stage = "http" => kind \in Http
    /\ stage = "body" => kind = "plain" /\ target = "right"
    /\ stage \in Early => replies = 0
    /\ stage = "s5req" => replies = 1

\* The first unit is the one that tells the protocol.
First == stage = "detect" => IF sent = 0 THEN Stream = <<>>
                          ELSE Stream /= <<>> /\ Head(Stream) = "head"

\* With an application that waits for the answers: what is left of the stream
\* at each stage.
Waiting ==
    /\ stage = "detect" => Stream = IF sent = 0 THEN <<>> ELSE Script(kind)[1]
    /\ stage \in {"s5head", "s5meth"} => Stream = <<"meth">>
    /\ stage = "s5req" => Stream = IF sent = 1 THEN <<>> ELSE <<"reqA", "reqB">>
    /\ stage = "http" => Stream = IF kind = "plain" THEN <<"hdr", "body">> ELSE <<"hdr">>
    /\ stage = "body" => over \o Stream = <<"body">>
    /\ stage \in Early => sent = IF stage = "detect" THEN sent ELSE 1
    /\ stage \in Early => sent \in {0, 1}
    /\ stage = "s5req" => sent \in {1, 2}
    /\ stage \in Early \cup {"s5req"} => data = 0

\* With the request complete and in time: what is handed over.
Handed ==
    /\ target = "right" /\ sent = Len(Script(kind))
    /\ \/ kind = "plain" /\ conn = "pb" /\ pb = <<"request">> /\ Stream = <<>> /\ replies = 0
       \/ kind \in {"s5", "connect"} /\ conn = "raw" /\ Stream = [n \in 1..data |-> "data"]

Flow == ~eager => /\ Waiting
                  /\ stage \in {"handover", "handed"} /\ ~short /\ ~late => Handed

FrontInv == FrontTypeOK /\ AtStage /\ First /\ Flow

-----------------------------------------------------------------------------
(* Sequences *)

\* A unit that arrives stays in its place.
LEMMA ArriveKeeps ==
    ASSUME NEW U, NEW s \in Seq(U), NEW t \in Seq(U), t /= <<>>
    PROVE  /\ Append(s, Head(t)) \o Tail(t) = s \o t
           /\ Append(s, Head(t)) \in Seq(U) /\ Tail(t) \in Seq(U)
OBVIOUS

\* What is read is the head of the stream.
LEMMA ReadHead ==
    ASSUME NEW U, NEW s \in Seq(U), NEW t \in Seq(U), s /= <<>>
    PROVE  /\ Tail(s) \o t = Tail(s \o t) /\ Head(s) = Head(s \o t)
           /\ Tail(s) \in Seq(U) /\ s \o t /= <<>>
OBVIOUS

\* Concatenation is associative.
LEMMA Associative ==
    ASSUME NEW U, NEW r \in Seq(U), NEW s \in Seq(U), NEW t \in Seq(U)
    PROVE  r \o (s \o t) = (r \o s) \o t /\ r \o (s \o t) \in Seq(U)
OBVIOUS

\* A stream of one unit that has arrived in part has arrived.
LEMMA AllOfOne ==
    ASSUME NEW U, NEW s \in Seq(U), NEW t \in Seq(U), Len(s \o t) = 1, s /= <<>>
    PROVE  s = s \o t /\ t = <<>>
<1>1. Len(s \o t) = Len(s) + Len(t) /\ Len(s) \in Nat /\ Len(t) \in Nat /\ Len(s) /= 0
  OBVIOUS
<1>2. Len(t) = 0
  BY <1>1
<1>3. t = <<>>
  BY <1>2
<1>4. s \o <<>> = s
  OBVIOUS
<1> QED  BY <1>3, <1>4

\* A stream of two units whose second has arrived has arrived.
LEMMA AllOfTwo ==
    ASSUME NEW U, NEW s \in Seq(U), NEW t \in Seq(U), NEW b,
           Len(s \o t) = 2, (s \o t)[1] /= b, Has(b, s)
    PROVE  s = s \o t /\ t = <<>>
<1>1. Len(s \o t) = Len(s) + Len(t) /\ Len(s) \in Nat /\ Len(t) \in Nat
  OBVIOUS
<1>2. PICK w \in 1..Len(s) : s[w] = b
  BY DEF Has
<1>3. (s \o t)[w] = b
  BY <1>2
<1>4. w /= 1
  BY <1>3
<1>5. Len(t) = 0
  BY <1>1, <1>2, <1>4
<1>6. t = <<>>
  BY <1>5
<1>7. s \o <<>> = s
  OBVIOUS
<1> QED  BY <1>6, <1>7

\* What the bufio.Reader holds behind the header.
LEMMA BehindHeader ==
    ASSUME NEW s \in Seq(Unit), s /= <<>>, s[1] = "hdr", \A w \in 2..Len(s) : s[w] /= "hdr"
    PROVE  Behind("hdr", <<"head">> \o s) = Tail(s)
<1> DEFINE h == <<"head">> \o s
           w == CHOOSE j \in DOMAIN h : h[j] = "hdr"
<1>1. /\ Len(s) \in Nat \ {0} /\ Len(h) = Len(s) + 1 /\ DOMAIN h = 1..Len(s) + 1
      /\ h[1] = "head" /\ \A j \in 1..Len(s) : h[j + 1] = s[j]
  OBVIOUS
<1>2. h[2] = "hdr" /\ 2 \in DOMAIN h
  BY <1>1
<1>3. ASSUME NEW j \in DOMAIN h, h[j] = "hdr" PROVE j = 2
  <2> SUFFICES ASSUME j /= 2 PROVE FALSE
    OBVIOUS
  <2>1. j /= 1
    BY <1>1, <1>3
  <2>2. j \in 3..Len(s) + 1
    BY <1>1, <2>1
  <2>3. j - 1 \in 2..Len(s) /\ j - 1 \in 1..Len(s) /\ (j - 1) + 1 = j
    BY <1>1, <2>2
  <2>4. h[j] = s[j - 1]
    BY <1>1, <2>3
  <2> QED  BY <1>3, <2>3, <2>4
<1>4. w = 2
  BY <1>2, <1>3
<1>5. Behind("hdr", h) = SubSeq(h, 3, Len(h))
  <2>1. Behind("hdr", h) = SubSeq(h, w + 1, Len(h))
    BY DEF Behind
  <2> HIDE DEF h, w
  <2> QED  BY <1>4, <2>1
<1>6. SubSeq(h, 3, Len(h)) = Tail(s)
  <2>1. h \in Seq(Unit)
    BY DEF Unit
  <2>2. /\ SubSeq(h, 3, Len(h)) \in Seq(Unit) /\ Len(SubSeq(h, 3, Len(h))) = Len(s) - 1
        /\ \A j \in 1..Len(s) - 1 : SubSeq(h, 3, Len(h))[j] = h[j + 2]
    BY <1>1, <2>1
  <2>3. /\ Tail(s) \in Seq(Unit) /\ Len(Tail(s)) = Len(s) - 1
        /\ \A j \in 1..Len(s) - 1 : Tail(s)[j] = s[j + 1]
    BY <1>1
  <2>4. ASSUME NEW j \in 1..Len(s) - 1 PROVE h[j + 2] = s[j + 1]
    <3>1. j + 1 \in 1..Len(s) /\ (j + 1) + 1 = j + 2
      BY <1>1
    <3> QED  BY <1>1, <3>1
  <2> HIDE DEF h
  <2> QED  BY <1>1, <2>2, <2>3, <2>4
<1> QED  BY <1>5, <1>6

\* What is behind a unit is part of the sequence.
LEMMA BehindType ==
    ASSUME NEW U, NEW s \in Seq(U), NEW u, Has(u, s)
    PROVE  Behind(u, s) \in Seq(U)
<1> DEFINE w == CHOOSE j \in DOMAIN s : s[j] = u
<1>1. w \in DOMAIN s
  BY DEF Has
<1>2. w \in 1..Len(s)
  BY <1>1
<1> HIDE DEF w
<1>3. SubSeq(s, w + 1, Len(s)) \in Seq(U)
  BY <1>2
<1> QED  BY <1>3 DEF Behind, w

\* The messages of a request.
LEMMA Scripts ==
    ASSUME NEW k \in Kind
    PROVE  /\ Len(Script(k)) \in 0..2
           /\ \A n \in 1..Len(Script(k)) : Script(k)[n] \in Seq(Unit)
           /\ Len(Script(k)) > 0 => Script(k)[1] /= <<>> /\ Head(Script(k)[1]) = "head"
           /\ k \in Socks => /\ Len(Script(k)) = 2 /\ Tail(Script(k)[1]) = <<"meth">>
                             /\ Script(k)[2] = <<"reqA", "reqB">>
           /\ k \in Http => Len(Script(k)) = 1 /\ Tail(Script(k)[1]) =
                                IF k = "plain" THEN <<"hdr", "body">> ELSE <<"hdr">>
           /\ k \notin Socks => Len(Script(k)) \in {0, 1}
<1> DEFINE M1 == <<"head", "meth">>
           M2 == <<"reqA", "reqB">>
           P1 == <<"head", "hdr", "body">>
           H1 == <<"head", "hdr">>
           O1 == <<"head">>
<1>1. /\ M1 \in Seq(Unit) /\ M2 \in Seq(Unit)
      /\ P1 \in Seq(Unit) /\ H1 \in Seq(Unit)
      /\ O1 \in Seq(Unit)
  BY DEF Unit
<1>2. /\ Tail(M1) = <<"meth">> /\ Head(M1) = "head"
      /\ Tail(P1) = <<"hdr", "body">>
      /\ Head(P1) = "head"
      /\ Tail(H1) = <<"hdr">> /\ Head(H1) = "head"
      /\ Head(O1) = "head" /\ O1 /= <<>> /\ H1 /= <<>>
      /\ P1 /= <<>> /\ M1 /= <<>>
  OBVIOUS
<1> HIDE DEF M1, M2, P1, H1, O1
<1>3. ASSUME NEW m \in Seq(Unit), Script(k) = <<m>>
      PROVE  Len(Script(k)) = 1 /\ Script(k)[1] = m /\ \A n \in 1..Len(Script(k)) : n = 1
  BY <1>3
<1>4. CASE k \in Socks
  <2>1. Script(k) = <<M1, M2>>
    BY <1>4 DEF Script, Socks, Http, M1, M2, P1, H1, O1
  <2>2. /\ Len(Script(k)) = 2 /\ Script(k)[1] = M1
        /\ Script(k)[2] = M2 /\ k \notin Http
    BY <1>4, <2>1 DEF Socks, Http
  <2>3. M2 = <<"reqA", "reqB">>
    BY DEF M2
  <2>4. \A n \in 1..2 : n = 1 \/ n = 2
    OBVIOUS
  <2>5. \A n \in 1..Len(Script(k)) : Script(k)[n] \in Seq(Unit)
    BY <1>1, <2>2, <2>4
  <2> HIDE DEF M1, M2
  <2>6. Len(Script(k)) > 0 => Script(k)[1] /= <<>> /\ Head(Script(k)[1]) = "head"
    BY <1>2, <2>2
  <2>7. Tail(Script(k)[1]) = <<"meth">> /\ Script(k)[2] = <<"reqA", "reqB">>
    BY <1>2, <2>2, <2>3
  <2>8. Len(Script(k)) \in 0..2
    BY <2>2
  <2> QED  BY <1>4, <2>2, <2>5, <2>6, <2>7, <2>8
<1>5. CASE k = "plain"
  <2>1. Script(k) = <<P1>> /\ k \notin Socks
    BY <1>5 DEF Script, Socks, Http, M1, M2, P1, H1, O1
  <2>2. /\ Len(Script(k)) = 1 /\ Script(k)[1] = P1 /\ 1 \in 0..2
        /\ Len(Script(k)) > 0
    BY <1>1, <1>3, <2>1
  <2>3. ASSUME NEW n \in 1..Len(Script(k)) PROVE n = 1
    BY <2>2
  <2> QED  BY <1>1, <1>2, <1>5, <2>1, <2>2, <2>3
<1>6. CASE k \in Http \ {"plain"}
  <2>1. Script(k) = <<H1>> /\ k \notin Socks
    BY <1>6 DEF Script, Socks, Http, M1, M2, P1, H1, O1
  <2>2. Len(Script(k)) = 1 /\ Script(k)[1] = H1
    BY <1>1, <1>3, <2>1
  <2>3. ASSUME NEW n \in 1..Len(Script(k)) PROVE n = 1
    BY <2>2
  <2> QED  BY <1>1, <1>2, <1>6, <2>1, <2>2, <2>3
<1>7. CASE k = "other"
  <2>1. Script(k) = <<O1>> /\ k \notin Socks /\ k \notin Http
    BY <1>7 DEF Script, Socks, Http, M1, M2, P1, H1, O1
  <2>2. Len(Script(k)) = 1 /\ Script(k)[1] = O1
    BY <1>1, <1>3, <2>1
  <2>3. ASSUME NEW n \in 1..Len(Script(k)) PROVE n = 1
    BY <2>2
  <2> QED  BY <1>1, <1>2, <2>1, <2>2, <2>3
<1>8. CASE k = "quiet"
  <2>1. Script(k) = <<>> /\ k \notin Socks /\ k \notin Http
    BY <1>8 DEF Script, Socks, Http, M1, M2, P1, H1, O1
  <2> QED  BY <2>1
<1> QED  BY <1>4, <1>5, <1>6, <1>7, <1>8 DEF Kind

-----------------------------------------------------------------------------
(* The application and the network *)

\* The parts of the invariant.
LEMMA Parts ==
    ASSUME FrontInv
    PROVE  /\ FrontTypeOK /\ AtStage /\ First /\ kind \in Kind /\ sock \in Seq(Unit) /\ net \in Seq(Unit)
           /\ over \in Seq(Unit) /\ Stream \in Seq(Unit) /\ (~eager => Waiting)
           /\ sent \in Nat /\ data \in Nat /\ replies \in Nat
           /\ ~eager /\ stage \in {"handover", "handed"} /\ ~short /\ ~late => Handed
BY DEF FrontInv, FrontTypeOK, Flow, Stream

\* A message of the request.
LEMMA AppSendStep ==
    ASSUME FrontInv, AppSend
    PROVE  FrontInv'
<1> DEFINE m == Script(kind)[sent + 1]
<1>1. /\ sent < Len(Script(kind)) /\ sent' = sent + 1 /\ (eager \/ sent <= replies)
      /\ net' = net \o m /\ kind' = kind /\ eager' = eager /\ data' = data /\ sock' = sock
      /\ pb' = pb /\ over' = over /\ replies' = replies /\ stage' = stage /\ target' = target
      /\ conn' = conn /\ short' = short /\ late' = late
  BY DEF AppSend, Proceeds
<1>2. m \in Seq(Unit) /\ sent' \in 0..2 /\ sent \in 0..1 /\ Len(Script(kind)) \in 0..2
  BY <1>1, Parts, Scripts, SMTT(30)
<1> HIDE DEF m
<1>3. Stream' = Stream \o m /\ net' \in Seq(Unit)
  <2>1. sock \in Seq(Unit) /\ net \in Seq(Unit)
    BY Parts
  <2>2. sock \o (net \o m) = (sock \o net) \o m /\ net \o m \in Seq(Unit)
    BY ONLY <1>2, <2>1, Associative
  <2> QED  BY <1>1, <2>2 DEF Stream
<1>4. FrontTypeOK'
  BY <1>1, <1>2, <1>3, Parts DEF FrontTypeOK
<1>5. AtStage'
  BY <1>1, Parts DEF AtStage
<1>6. sent = 0 => m = Script(kind)[1] /\ m /= <<>> /\ Head(m) = "head"
  <2>1. Script(kind)[1] /= <<>> /\ Head(Script(kind)[1]) = "head"
    BY <1>1, <1>2, Parts, Scripts
  <2> QED  BY <2>1 DEF m
<1>7. Stream = <<>> => Stream' = m
  BY <1>2, <1>3
<1>8. First'
  <2>1. sent' /= 0
    BY <1>1, <1>2
  <2>2. ASSUME stage = "detect" PROVE Stream' /= <<>> /\ Head(Stream') = "head"
    <3>1. CASE sent = 0
      BY <1>6, <1>7, <2>2, <3>1, Parts DEF First
    <3>2. CASE sent /= 0
      <4>1. Stream /= <<>> /\ Head(Stream) = "head"
        BY <2>2, <3>2, Parts DEF First
      <4> QED  BY <1>2, <1>3, <4>1, Parts
    <3> QED  BY <3>1, <3>2
  <2> QED  BY <1>1, <2>1, <2>2 DEF First
<1>9. ASSUME ~eager PROVE Waiting'
  <2>0. Waiting /\ AtStage /\ sent <= replies
    BY <1>1, <1>9, Parts
  <2>1. CASE stage \in Early
    <3>1. stage = "detect" /\ sent = 0
      BY <1>2, <2>0, <2>1 DEF Waiting, AtStage
    <3>2. Stream' = Script(kind)[1] /\ data = 0
      BY <1>6, <1>7, <2>0, <3>1 DEF Waiting, Early
    <3> QED  BY <1>1, <3>1, <3>2 DEF Waiting, Early
  <2>2. CASE stage = "s5req"
    <3>1. sent = 1 /\ kind \in Socks /\ Stream = <<>> /\ data = 0
      BY <1>2, <2>0, <2>2 DEF Waiting, AtStage
    <3>2. Stream' = Script(kind)[2]
      BY <1>7, <3>1 DEF m
    <3>3. Stream' = <<"reqA", "reqB">> /\ sent' = 2
      BY <1>1, <3>1, <3>2, Parts, Scripts
    <3> QED  BY <1>1, <2>2, <3>1, <3>3 DEF Waiting, Early
  <2> QED  BY <1>1, <2>1, <2>2 DEF Waiting, Early
<1>10. ASSUME ~eager, stage \in {"handover", "handed"}, ~short, ~late PROVE Handed'
  BY <1>1, <1>2, <1>10, Parts DEF Handed
<1> QED  BY <1>1, <1>4, <1>5, <1>8, <1>9, <1>10 DEF FrontInv, Flow

\* A unit behind the request: with an application that waits, the front end has
\* given all its answers.
LEMMA AppDataStep ==
    ASSUME FrontInv, AppData
    PROVE  FrontInv'
<1>1. /\ kind \in {"s5", "connect", "plain"} /\ sent = Len(Script(kind))
      /\ (eager \/ sent <= replies) /\ data' = data + 1 /\ data < MaxData /\ sent' = sent
      /\ net' = Append(net, "data") /\ kind' = kind /\ eager' = eager /\ sock' = sock
      /\ pb' = pb /\ over' = over /\ replies' = replies /\ stage' = stage /\ target' = target
      /\ conn' = conn /\ short' = short /\ late' = late
  BY DEF AppData, Proceeds
<1>2. /\ "data" \in Unit /\ (kind = "s5" => kind \in Socks) /\ (kind /= "s5" => kind \in Http)
      /\ "connect" \notin Socks /\ "plain" \notin Socks
  BY <1>1 DEF Unit, Socks, Http
<1>3. Stream' = Append(Stream, "data") /\ net' \in Seq(Unit)
  BY <1>1, <1>2, Parts, SMTT(30) DEF Stream
<1>4. sent \in {1, 2} /\ (kind \in Socks => sent = 2)
  BY <1>1, <1>2, Parts, Scripts
<1>5. FrontTypeOK'
  BY <1>1, <1>3, Parts, FrontAssumption DEF FrontTypeOK
<1>6. AtStage'
  BY <1>1, Parts DEF AtStage
<1>7. First'
  <2>1. ASSUME stage = "detect" PROVE Stream' /= <<>> /\ Head(Stream') = "head"
    <3>1. Stream /= <<>> /\ Head(Stream) = "head"
      BY <1>4, <2>1, Parts DEF First
    <3> QED  BY <1>2, <1>3, <3>1, Parts, SMTT(30)
  <2> QED  BY <1>1, <1>4, <2>1 DEF First
<1>8. ASSUME ~eager PROVE stage \notin Early /\ stage /= "s5req"
  <2>1. sent <= replies /\ AtStage
    BY <1>1, <1>8, Parts
  <2> QED  BY <1>4, <2>1 DEF AtStage
<1>9. ASSUME ~eager PROVE Waiting'
  BY <1>1, <1>8, <1>9 DEF Waiting, Early
<1>10. ASSUME ~eager, stage \in {"handover", "handed"}, ~short, ~late PROVE Handed'
  <2>1. Handed /\ replies >= 1
    BY <1>1, <1>4, <1>10, Parts
  <2>2. /\ target = "right" /\ kind \in {"s5", "connect"} /\ conn = "raw"
        /\ Stream = [n \in 1..data |-> "data"]
    BY <2>1 DEF Handed
  <2>3. Stream' = [n \in 1..data' |-> "data"]
    <3>1. /\ Stream \in Seq(Unit) /\ Len(Stream) = data /\ data \in Nat /\ data' = data + 1
          /\ \A n \in 1..data : Stream[n] = "data"
      BY <1>1, <2>2, Parts
    <3>2. /\ Append(Stream, "data") \in Seq(Unit) /\ Len(Append(Stream, "data")) = data + 1
          /\ \A n \in 1..data + 1 : Append(Stream, "data")[n] = "data"
      BY <1>2, <3>1
    <3>3. Append(Stream, "data") = [n \in 1..data + 1 |-> "data"]
      <4>1. PICK t \in Seq(Unit) : t = Append(Stream, "data")
        BY <3>2
      <4>2. t = [n \in 1..Len(t) |-> t[n]]
        OBVIOUS
      <4> QED  BY <3>2, <4>1, <4>2
    <3> QED  BY <1>3, <3>1, <3>3
  <2> QED  BY <1>1, <2>2, <2>3 DEF Handed
<1> QED  BY <1>1, <1>5, <1>6, <1>7, <1>9, <1>10 DEF FrontInv, Flow

\* The steps that leave the stream and what ClientServe has made of it alone.
LEMMA StreamSame ==
    ASSUME FrontInv, kind' = kind, eager' = eager, sent' = sent, data' = data, Stream' = Stream,
           sock' \in Seq(Unit), net' \in Seq(Unit), pb' = pb, over' = over, replies' = replies,
           target' = target, conn' = conn, short' = short, late' = late,
           \/ stage' = stage
           \/ stage' = "closed"
           \/ stage = "handover" /\ stage' = "handed"
    PROVE  FrontInv'
<1>1. FrontTypeOK'
  BY Parts DEF FrontTypeOK, Stages
<1>2. AtStage'
  BY Parts DEF AtStage, Early
<1>3. First'
  BY Parts DEF First
<1>4. ASSUME ~eager PROVE Waiting'
  BY <1>4, Parts DEF Waiting, Early
<1>5. ASSUME ~eager, stage' \in {"handover", "handed"}, ~short, ~late PROVE Handed'
  <2>1. Handed
    BY <1>5, Parts
  <2> QED  BY <2>1 DEF Handed
<1> QED  BY <1>1, <1>2, <1>3, <1>4, <1>5 DEF FrontInv, Flow

\* A unit comes from the network into the socket.
LEMMA ArriveStep ==
    ASSUME FrontInv, Arrive
    PROVE  FrontInv'
<1>1. Stream' = Stream /\ sock' \in Seq(Unit) /\ net' \in Seq(Unit)
  BY ArriveKeeps, Parts DEF Arrive, Stream
<1> QED  BY <1>1, StreamSame DEF Arrive

-----------------------------------------------------------------------------
(* ClientServe *)

\* detectProtocol pushes back the unit that it has read.
LEMMA DetectStep ==
    ASSUME FrontInv, Detect
    PROVE  FrontInv'
<1>1. /\ stage = "detect" /\ sock /= <<>> /\ sock' = Tail(sock) /\ pb' = pb \o <<Head(sock)>>
      /\ net' = net /\ kind' = kind /\ eager' = eager /\ sent' = sent /\ data' = data
      /\ over' = over /\ replies' = replies /\ target' = target /\ conn' = conn
      /\ short' = short /\ late' = late
  BY DEF Detect, appVars
<1>2. stage' = IF kind \in Socks THEN "s5head" ELSE IF kind \in Http THEN "http" ELSE "unknown"
  BY DEF Detect, Goto, Socks, Http
<1>3. Stream' = Tail(Stream) /\ Head(sock) = Head(Stream) /\ Stream /= <<>> /\ sock' \in Seq(Unit)
  BY <1>1, ReadHead, Parts DEF Stream
<1>4. sent /= 0 /\ Head(Stream) = "head" /\ pb = <<>> /\ replies = 0
  BY <1>1, <1>3, Parts DEF First, AtStage, Early
<1>5. pb' = <<"head">>
  <2>1. pb' = <<>> \o <<"head">>
    BY <1>1, <1>3, <1>4
  <2> QED  BY <2>1
<1>6. FrontTypeOK'
  BY <1>1, <1>2, <1>3, <1>5, Parts DEF FrontTypeOK, Stages, Blocked
<1>7. AtStage' /\ First'
  BY <1>1, <1>2, <1>4, <1>5 DEF AtStage, First
<1>8. ASSUME ~eager PROVE Waiting'
  <2>1. Stream = Script(kind)[1] /\ sent = 1 /\ data = 0
    BY <1>1, <1>4, <1>8, Parts DEF Waiting, Early
  <2>2. /\ kind \in Socks => Stream' = <<"meth">>
        /\ kind \in Http => Stream' = IF kind = "plain" THEN <<"hdr", "body">> ELSE <<"hdr">>
    BY <1>3, <2>1, Parts, Scripts
  <2> QED  BY <1>1, <1>2, <2>1, <2>2 DEF Waiting
<1> QED  BY <1>1, <1>2, <1>6, <1>7, <1>8 DEF FrontInv, Flow

\* The head is read from the pushback buffer.
LEMMA S5HeaderStep ==
    ASSUME FrontInv, S5Header
    PROVE  FrontInv'
<1>1. /\ stage = "s5head" /\ pb' = <<>> /\ stage' \in {"closed", "s5meth"}
      /\ net' = net /\ kind' = kind /\ eager' = eager /\ sent' = sent /\ data' = data
      /\ sock' = sock /\ over' = over /\ replies' = replies /\ target' = target /\ conn' = conn
      /\ short' = short /\ late' = late
  BY DEF S5Header, appVars, ReadPushback, Goto
<1>2. FrontTypeOK'
  BY <1>1, Parts DEF FrontTypeOK, Stages, Blocked
<1>3. AtStage' /\ First'
  BY <1>1, Parts DEF AtStage, First, Early
<1>4. ASSUME ~eager PROVE Waiting'
  BY <1>1, <1>4, Parts DEF Waiting, Early, Stream
<1> QED  BY <1>1, <1>2, <1>3, <1>4 DEF FrontInv, Flow

\* The methods of an application that waits are all there is on the stream.
LEMMA S5MethodsStep ==
    ASSUME FrontInv, S5Methods
    PROVE  FrontInv'
<1>1. /\ stage = "s5meth" /\ sock /= <<>> /\ sock' = <<>> /\ net' = net /\ kind' = kind
      /\ eager' = eager /\ sent' = sent /\ data' = data /\ pb' = pb /\ over' = over
      /\ target' = target /\ conn' = conn /\ short' = short /\ late' = late
  BY DEF S5Methods, appVars
<1>2. \/ stage' = "closed" /\ replies' = replies
      \/ stage' = "s5req" /\ replies' = replies + 1
  BY DEF S5Methods, Reply, Goto
<1>3. replies = 0 /\ pb = <<>> /\ kind \in Socks
  BY <1>1, Parts DEF AtStage, Early
<1>4. FrontTypeOK'
  BY <1>1, <1>2, <1>3, Parts DEF FrontTypeOK, Stages, Blocked
<1>5. AtStage' /\ First'
  BY <1>1, <1>2, <1>3 DEF AtStage, First, Early
<1>6. ASSUME ~eager PROVE Waiting'
  <2>1. Stream = <<"meth">> /\ sent = 1 /\ data = 0
    BY <1>1, <1>6, Parts DEF Waiting, Early
  <2>2. Len(sock \o net) = 1
    BY <2>1 DEF Stream
  <2>3. net = <<>>
    BY <1>1, <2>2, AllOfOne, Parts
  <2>4. Stream' = <<>>
    BY <1>1, <2>3 DEF Stream
  <2> QED  BY <1>1, <1>2, <2>1, <2>4 DEF Waiting, Early
<1> QED  BY <1>1, <1>2, <1>4, <1>5, <1>6 DEF FrontInv, Flow

\* A request in one piece is all there is on the stream.
LEMMA S5RequestStep ==
    ASSUME FrontInv, S5Request
    PROVE  FrontInv'
<1>1. /\ stage = "s5req" /\ sock /= <<>> /\ sock' = <<>> /\ net' = net /\ kind' = kind
      /\ eager' = eager /\ sent' = sent /\ data' = data /\ pb' = pb /\ over' = over
      /\ late' = late /\ short' = ~Has("reqB", sock)
      /\ target' = IF Has("reqB", sock) THEN "right" ELSE "wrong"
  BY DEF S5Request, appVars
<1>2. \/ stage' = "closed" /\ replies' = replies /\ conn' = conn
      \/ stage' = "closed" /\ replies' = replies /\ conn' = "raw"
      \/ stage' = "handover" /\ replies' = replies + 1 /\ conn' = "raw" /\ kind = "s5"
  BY DEF S5Request, Reply, Goto
<1>3. replies = 1 /\ pb = <<>> /\ kind \in Socks
  BY <1>1, Parts DEF AtStage
<1>4. FrontTypeOK'
  <2>1. short' \in BOOLEAN /\ target' \in {"right", "wrong"} /\ sock' \in Seq(Unit)
    BY <1>1
  <2> QED  BY <1>1, <1>2, <1>3, <2>1, Parts DEF FrontTypeOK, Stages, Blocked
<1>5. AtStage' /\ First'
  BY <1>1, <1>2, <1>3 DEF AtStage, First, Early
<1>6. Waiting'
  BY <1>2 DEF Waiting, Early
<1>7. ASSUME ~eager, ~short', stage' = "handover" PROVE Handed'
  <2>1. Has("reqB", sock) /\ Waiting /\ kind = "s5" /\ target' = "right" /\ conn' = "raw"
    BY <1>1, <1>2, <1>7, Parts
  <2>2. Stream /= <<>>
    BY <1>1, ReadHead, Parts DEF Stream
  <2>3. sent = 2 /\ Stream = <<"reqA", "reqB">> /\ data = 0
    BY <1>1, <2>1, <2>2 DEF Waiting
  <2>4. Len(sock \o net) = 2 /\ (sock \o net)[1] /= "reqB"
    BY <2>3 DEF Stream
  <2>5. net = <<>>
    BY <2>1, <2>4, AllOfTwo, Parts
  <2>6. Stream' = [n \in 1..data' |-> "data"]
    <3>1. Stream' = <<>> /\ data' = 0
      BY <1>1, <2>3, <2>5 DEF Stream
    <3> QED  BY <3>1
  <2>7. sent' = Len(Script(kind))'
    BY <1>1, <1>3, <2>3, Parts, Scripts
  <2> QED  BY <1>1, <2>1, <2>6, <2>7 DEF Handed
<1> QED  BY <1>1, <1>2, <1>4, <1>5, <1>6, <1>7 DEF FrontInv, Flow

\* The header of an application that waits; the body of a plain request may
\* have arrived with it.
LEMMA HttpHeaderStep ==
    ASSUME FrontInv, HttpHeader
    PROVE  FrontInv'
<1>1. /\ stage = "http" /\ Has("hdr", sock) /\ pb' = <<>> /\ sock' = <<>> /\ net' = net
      /\ over' = Behind("hdr", pb \o sock) /\ kind' = kind /\ eager' = eager /\ sent' = sent
      /\ data' = data /\ short' = short /\ late' = late
      /\ target' = IF kind \in {"connect", "plain"} THEN "right" ELSE target
      /\ conn' = IF kind = "connect" THEN "raw" ELSE conn
  BY DEF HttpHeader, appVars, ReadPushback
<1>2. \/ stage' = "closed" /\ replies' = replies
      \/ stage' = "local" /\ replies' = replies
      \/ stage' = "body" /\ replies' = replies /\ kind = "plain"
      \/ stage' = "handover" /\ replies' = replies + 1 /\ kind = "connect"
  BY DEF HttpHeader, Reply, Goto
<1>3. replies = 0 /\ pb = <<"head">> /\ kind \in Http
  BY <1>1, Parts DEF AtStage, Early
<1>4. over' \in Seq(Unit)
  <2>1. pb \o sock \in Seq(Unit)
    BY <1>3, Parts DEF Unit
  <2>2. Has("hdr", pb \o sock)
    <3>1. PICK n \in 1..Len(sock) : sock[n] = "hdr"
      BY <1>1, Parts DEF Has
    <3>2. n + 1 \in DOMAIN (pb \o sock) /\ (pb \o sock)[n + 1] = sock[n]
      BY <1>3, <3>1, Parts
    <3> QED  BY <3>1, <3>2 DEF Has
  <2> QED  BY <1>1, <2>1, <2>2, BehindType
<1>5. FrontTypeOK'
  BY <1>1, <1>2, <1>3, <1>4, Parts DEF FrontTypeOK, Stages, Blocked
<1>6. AtStage' /\ First'
  BY <1>1, <1>2, <1>3 DEF AtStage, First, Early
<1>7. sock /= <<>> /\ sock \in Seq(Unit) /\ net \in Seq(Unit)
  BY <1>1, Parts DEF Has
<1>8. Stream' = net
  BY <1>1, <1>7 DEF Stream
<1>9. ASSUME ~eager
      PROVE  /\ sent = 1 /\ data = 0
             /\ Stream = IF kind = "plain" THEN <<"hdr", "body">> ELSE <<"hdr">>
  BY <1>1, <1>9, Parts DEF Waiting, Early
<1>10. ASSUME ~eager PROVE Waiting'
  <2>1. ASSUME kind = "plain" PROVE over' \o Stream' = <<"body">>
    <3>1. Stream = <<"hdr", "body">> /\ Stream \in Seq(Unit)
      BY <1>9, <1>10, <2>1, Parts
    <3>2. /\ Len(Stream) = 2 /\ Stream[1] = "hdr" /\ Stream[2] = "body"
          /\ Tail(Stream) = <<"body">>
      BY <3>1
    <3>3. /\ Len(sock) \in 1..2 /\ \A n \in 1..Len(sock) : sock[n] = Stream[n]
      <4>1. PICK x \in Seq(Unit) : x = Stream
        BY <3>1
      <4>2. Len(x) = 2 /\ x = sock \o net
        BY <3>2, <4>1 DEF Stream
      <4>3. Len(x) = Len(sock) + Len(net) /\ \A n \in 1..Len(sock) : sock[n] = x[n]
        BY <1>7, <4>2
      <4>4. Len(sock) \in Nat /\ Len(net) \in Nat /\ Len(sock) /= 0
        BY <1>7
      <4>5. Len(sock) \in 1..2
        <5>1. PICK a \in Nat, b \in Nat : a = Len(sock) /\ b = Len(net)
          BY <4>4
        <5>2. a + b = 2 /\ a /= 0
          BY ONLY <4>2, <4>3, <4>4, <5>1
        <5> QED  BY ONLY <5>1, <5>2, a \in Nat, b \in Nat
      <4> HIDE DEF Stream
      <4> QED  BY ONLY <4>1, <4>3, <4>5
    <3>4. sock[1] = "hdr" /\ \A n \in 2..Len(sock) : sock[n] /= "hdr"
      BY <3>2, <3>3
    <3>5. over' = Tail(sock)
      BY <1>1, <1>3, <1>7, <3>4, BehindHeader
    <3>6. Tail(sock) \o net = Tail(Stream)
      BY <1>7, ReadHead DEF Stream
    <3> QED  BY <1>8, <3>2, <3>5, <3>6
  <2> QED  BY <1>1, <1>2, <1>9, <1>10, <2>1 DEF Waiting, Early
<1>11. ASSUME ~eager, stage' = "handover" PROVE Handed'
  <2>1. kind = "connect" /\ sent = 1 /\ data = 0 /\ Stream = <<"hdr">>
    BY <1>2, <1>9, <1>11
  <2>2. Len(sock \o net) = 1
    BY <2>1 DEF Stream
  <2>3. net = <<>>
    BY <1>7, <2>2, AllOfOne
  <2>4. Stream' = [n \in 1..data' |-> "data"]
    <3>1. Stream' = <<>> /\ data' = 0
      BY <1>1, <1>8, <2>1, <2>3
    <3> QED  BY <3>1
  <2>5. sent' = Len(Script(kind))'
    BY <1>1, <1>3, <2>1, Parts, Scripts
  <2> QED  BY <1>1, <2>1, <2>4, <2>5 DEF Handed
<1> QED  BY <1>1, <1>2, <1>5, <1>6, <1>10, <1>11 DEF FrontInv, Flow

\* The body is the last of what an application that waits has sent.
LEMMA HttpBodyStep ==
    ASSUME FrontInv, HttpBody
    PROVE  FrontInv'
<1>1. /\ stage = "body" /\ Has("body", over \o sock) /\ over' = Behind("body", over \o sock)
      /\ sock' = <<>> /\ pb' = pb \o <<"request">> /\ conn' = "pb" /\ stage' = "handover"
      /\ net' = net /\ kind' = kind /\ eager' = eager /\ sent' = sent /\ data' = data
      /\ replies' = replies /\ target' = target /\ short' = short /\ late' = late
  BY DEF HttpBody, appVars, Unread, Goto
<1>2. replies = 0 /\ pb = <<>> /\ kind = "plain" /\ target = "right" /\ kind \in Http
  BY <1>1, Parts DEF AtStage, Early, Http
<1>3. pb' = <<"request">>
  BY <1>1, <1>2
<1>4. over \o sock \in Seq(Unit) /\ over \in Seq(Unit) /\ sock \in Seq(Unit) /\ net \in Seq(Unit)
  BY Parts
<1>5. over' \in Seq(Unit)
  BY <1>1, <1>4, BehindType
<1>6. FrontTypeOK'
  <2>1. sock' \in Seq(Unit)
    BY <1>1
  <2>2. pb' \in {<<>>, <<"head">>, <<"request">>, <<"part">>}
    BY <1>3, Zenon
  <2> HIDE <1>3
  <2> QED  BY <1>1, <1>5, <2>1, <2>2, Parts DEF FrontTypeOK, Stages
<1>7. AtStage' /\ First' /\ Waiting'
  BY <1>1 DEF AtStage, First, Waiting, Early
<1>8. ASSUME ~eager PROVE Handed'
  <2>1. over \o Stream = <<"body">> /\ sent = 1
    BY <1>1, <1>8, Parts DEF Waiting, Early
  <2>2. over \o (sock \o net) = (over \o sock) \o net
    BY ONLY <1>4, Associative
  <2>3. Len((over \o sock) \o net) = 1
    BY <2>1, <2>2 DEF Stream
  <2>4. over \o sock /= <<>>
    BY <1>1 DEF Has
  <2>5. net = <<>>
    BY <1>4, <2>3, <2>4, AllOfOne
  <2>6. Stream' = <<>>
    BY <1>1, <2>5 DEF Stream
  <2>7. sent' = Len(Script(kind))'
    BY <1>1, <1>2, <2>1, Parts, Scripts
  <2> QED  BY <1>1, <1>2, <1>3, <2>6, <2>7 DEF Handed
<1> QED  BY <1>1, <1>6, <1>7, <1>8 DEF FrontInv, Flow

\* A read that fails closes the connection, or hands over a late body.
LEMMA ReadFailsStep ==
    ASSUME FrontInv, ReadFails
    PROVE  FrontInv'
<1>1. /\ stage \in Blocked /\ net' = net /\ kind' = kind /\ eager' = eager /\ sent' = sent
      /\ data' = data /\ sock' = sock /\ over' = over /\ replies' = replies
      /\ target' = target /\ short' = short /\ Stream' = Stream
  BY DEF ReadFails, appVars, Stream
<1>2. CASE stage = "body"
  <2>1. PICK part \in {<<>>, <<"part">>} : pb' = pb \o part
    BY <1>2 DEF ReadFails, Unread
  <2>2. late' = TRUE /\ conn' = "pb" /\ stage' = "handover"
    BY <1>2 DEF ReadFails, Goto
  <2>3. pb' \in {<<>>, <<"part">>}
    <3>1. pb = <<>>
      BY <1>2, Parts DEF AtStage
    <3>2. <<>> \o <<>> = <<>> /\ <<>> \o <<"part">> = <<"part">>
      OBVIOUS
    <3> QED  BY <2>1, <3>1, <3>2
  <2>4. FrontTypeOK'
    BY <1>1, <2>2, <2>3, Parts DEF FrontTypeOK, Stages, Blocked
  <2>5. AtStage' /\ First' /\ Waiting'
    BY <2>2 DEF AtStage, First, Waiting, Early
  <2> QED  BY <2>2, <2>4, <2>5 DEF FrontInv, Flow
<1>3. CASE stage /= "body"
  <2>1. stage' = "closed" /\ pb' = pb /\ late' = late /\ conn' = conn
    BY <1>3 DEF ReadFails, Goto
  <2>2. sock' \in Seq(Unit) /\ net' \in Seq(Unit)
    BY <1>1, Parts
  <2> QED  BY <1>1, <2>1, <2>2, StreamSame
<1> QED  BY <1>2, <1>3

\* The steps that only end the handshake.
LEMMA EndStep ==
    ASSUME FrontInv, Unknown \/ LocalServlet \/ HandleRequest
    PROVE  FrontInv'
<1>1. /\ net' = net /\ kind' = kind /\ eager' = eager /\ sent' = sent
      /\ data' = data /\ sock' = sock /\ over' = over /\ replies' = replies /\ pb' = pb
      /\ target' = target /\ short' = short /\ Stream' = Stream /\ late' = late /\ conn' = conn
      /\ (stage' = "closed" \/ (stage = "handover" /\ stage' = "handed"))
  BY DEF Unknown, LocalServlet, HandleRequest, Goto, appVars, Stream
<1>2. sock' \in Seq(Unit) /\ net' \in Seq(Unit)
  BY <1>1, Parts
<1> QED  BY <1>1, <1>2, StreamSame

\* With the connection all that was known of it goes.
LEMMA RelayedStep ==
    ASSUME FrontInv, Relayed
    PROVE  FrontInv'
<1>1. /\ stage' = "gone" /\ kind' = "quiet" /\ eager' = FALSE /\ sent' = 0 /\ data' = 0
      /\ net' = <<>> /\ sock' = <<>> /\ pb' = <<>> /\ over' = <<>> /\ replies' = 0
      /\ target' = "none" /\ conn' = "none" /\ short' = FALSE /\ late' = FALSE
  BY DEF Relayed
<1>2. FrontTypeOK'
  <2>1. /\ net' \in Seq(Unit) /\ sock' \in Seq(Unit) /\ over' \in Seq(Unit)
        /\ pb' \in {<<>>, <<"head">>, <<"request">>, <<"part">>}
    BY <1>1
  <2>2. stage' \in Stages /\ data' \in 0..MaxData /\ sent' \in 0..2 /\ replies' \in 0..2
    BY <1>1, FrontAssumption DEF Stages
  <2>3. /\ kind' \in Kind /\ target' \in {"none", "right", "wrong"}
        /\ conn' \in {"none", "raw", "pb"}
    BY <1>1 DEF Kind
  <2>4. eager' \in BOOLEAN /\ short' \in BOOLEAN /\ late' \in BOOLEAN
    BY <1>1, Zenon
  <2> QED  BY <2>1, <2>2, <2>3, <2>4 DEF FrontTypeOK
<1>3. AtStage' /\ First' /\ Waiting'
  BY <1>1 DEF AtStage, First, Waiting, Early
<1> QED  BY <1>1, <1>2, <1>3 DEF FrontInv, Flow

-----------------------------------------------------------------------------
(* The front end's invariant *)

\* The invariant holds initially.
LEMMA FrontInvInit ==
    ASSUME FrontInit
    PROVE  FrontInv
<1>1. Stream = <<>>
  BY DEF FrontInit, Stream
<1>2. FrontTypeOK
  <2>1. /\ net \in Seq(Unit) /\ sock \in Seq(Unit) /\ over \in Seq(Unit)
        /\ pb \in {<<>>, <<"head">>, <<"request">>, <<"part">>}
    BY DEF FrontInit
  <2>2. stage \in Stages /\ data \in 0..MaxData
    BY FrontAssumption DEF FrontInit, Stages, Blocked
  <2>3. sent \in 0..2 /\ replies \in 0..2
    BY DEF FrontInit
  <2>4. /\ kind \in Kind /\ eager \in BOOLEAN /\ target \in {"none", "right", "wrong"}
        /\ conn \in {"none", "raw", "pb"} /\ short \in BOOLEAN /\ late \in BOOLEAN
    BY Zenon DEF FrontInit
  <2> QED  BY <2>1, <2>2, <2>3, <2>4 DEF FrontTypeOK
<1>3. AtStage /\ First /\ Waiting
  BY <1>1 DEF FrontInit, AtStage, First, Waiting, Early
<1> QED  BY <1>2, <1>3 DEF FrontInit, FrontInv, Flow

\* Every step keeps the invariant.
LEMMA FrontInvNext ==
    ASSUME FrontInv, [FrontNext]_frontVars
    PROVE  FrontInv'
<1>1. CASE UNCHANGED frontVars
  <2>1. /\ net' = net /\ kind' = kind /\ eager' = eager /\ sent' = sent
        /\ data' = data /\ sock' = sock /\ over' = over /\ replies' = replies /\ pb' = pb
        /\ target' = target /\ short' = short /\ Stream' = Stream /\ late' = late
        /\ conn' = conn /\ stage' = stage
    BY <1>1 DEF frontVars, appVars, Stream
  <2>2. sock' \in Seq(Unit) /\ net' \in Seq(Unit)
    BY <2>1, Parts
  <2> QED  BY <2>1, <2>2, StreamSame
<1> QED
  BY <1>1, AppSendStep, AppDataStep, ArriveStep, DetectStep, S5HeaderStep, S5MethodsStep,
     S5RequestStep, HttpHeaderStep, HttpBodyStep, ReadFailsStep, EndStep, RelayedStep
     DEF FrontNext, Serve

\* What the tunnel gets is a matter of the invariant.
LEMMA FrontFaithful ==
    ASSUME FrontInv
    PROVE  Faithful
<1> SUFFICES ASSUME stage = "handed", ~eager, ~short, ~late
             PROVE  target = "right" /\ ToRelay = Owed
  BY DEF Faithful
<1>1. Handed /\ sock \in Seq(Unit) /\ net \in Seq(Unit) /\ Stream \in Seq(Unit)
  BY Parts
<1>2. CASE kind = "plain"
  <2>1. conn = "pb" /\ pb = <<"request">> /\ sock \o net = <<>> /\ target = "right"
    BY <1>1, <1>2 DEF Handed, Stream
  <2>2. ToRelay = (<<"request">> \o sock) \o net
    BY <2>1 DEF ToRelay
  <2>3. sock = <<>> /\ net = <<>>
    BY <1>1, <2>1
  <2>4. ToRelay = <<"request">>
    BY <2>2, <2>3
  <2> QED  BY <1>2, <2>1, <2>4 DEF Owed
<1>3. CASE kind /= "plain"
  <2>1. conn = "raw" /\ Stream = [n \in 1..data |-> "data"] /\ target = "right"
    BY <1>1, <1>3 DEF Handed
  <2>2. ToRelay = (<<>> \o sock) \o net
    BY <2>1 DEF ToRelay
  <2>3. <<>> \o sock = sock
    BY <1>1
  <2>4. ToRelay = Stream
    BY <2>2, <2>3 DEF Stream
  <2> QED  BY <1>3, <2>1, <2>4 DEF Owed
<1> QED  BY <1>2, <1>3

-----------------------------------------------------------------------------
(* The theorems *)

\* A step of the client leaves the filter alone, and a step of the filter the client.
LEMMA Apart ==
    ASSUME [Next]_vars
    PROVE  [FrontNext]_frontVars /\ [GeoNext]_geoVars
BY DEF Next, Client, Server, vars

\* The inductive invariant: what each stage of ClientServe has read, pushed back and
\* answered and what is left on the stream, and the soundness of the filter's trie.
THEOREM Invariant == Spec => [](FrontInv /\ GeoInv)
<1>1. Init => FrontInv /\ GeoInv
  BY FrontInvInit, GeoInvInit DEF Init
<1>2. FrontInv /\ GeoInv /\ [Next]_vars => FrontInv' /\ GeoInv'
  BY Apart, FrontInvNext, GeoInvNext
<1> QED  BY <1>1, <1>2, PTL DEF Spec

\* The pushback buffer never holds more than the head or the rewritten request, the
\* front end never gives more answers than the protocols have, and every index that
\* buildRoutingTable and Find store lies in the array it is used with.
THEOREM TypeCorrect == Spec => []TypeOK
<1>1. FrontInv /\ GeoInv => TypeOK
  BY GeoTyped DEF FrontInv, TypeOK
<1> QED  BY <1>1, Invariant, PTL

\* For an application that waits for its answers, whose SOCKS request came in one
\* piece and whose body came in time (ClientServe is not built for the others),
\* the tunnel gets the host the application named and every byte behind the
\* handshake, however much that is and however the network cuts up the rest.
THEOREM HandedFaithfully == Spec => []Faithful
<1>1. FrontInv => Faithful
  BY FrontFaithful
<1> QED  BY <1>1, Invariant, PTL

\* Filter denies a host exactly when the longest matching network belongs to the
\* denied country, for every table, width and levelling of the trie (trie.go, geoip.go).
THEOREM FilterExactHolds == Spec => []FilterExact
<1>1. GeoInv => FilterExact
  BY DEF GeoInv, FindInv
<1> QED  BY <1>1, Invariant, PTL
=============================================================================
