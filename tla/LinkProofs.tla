---------------------------- MODULE LinkProofs ----------------------------
(***************************************************************************)
(* Proofs about Link for every interval, timeout and delay that satisfies  *)
(* LinkAssumption, and any number of frames, writers and stalled writes.   *)
(***************************************************************************)
EXTENDS Link, SequenceTheorems, TLAPS

(* The invariant *)

Frames == [act : {"ping", "pong", "data"}, part : Part, age : 0..D]

\* The types as a proof needs them: TypeOK says nothing of the domains.
Typed ==
    /\ net \in {"up", "down"} /\ stalls \in 0..MaxStall
    /\ chan \in [End -> Seq(Frames)]
    /\ interval \in [End -> 1..Interval + Tmo] /\ timer \in [End -> 0..Interval + Tmo]
    /\ wtimer \in [End -> 0..WriteTmo] /\ ahead \in [End -> Nat] /\ rear \in [End -> Nat]
    /\ waiting \in [End -> BOOLEAN] /\ heard \in [End -> BOOLEAN] /\ lost \in [End -> BOOLEAN]
    /\ writing \in [End -> {"no", "ping", "pong"}] /\ ended \in [End -> Outcome]
    /\ silent \in [End -> Nat] /\ behind \in [End -> Nat]

\* A stream: its frames are older towards the head, all complete, at least m
\* old, and it has a frame of a kind that is.
Aging(s)        == \A j, k \in 1..Len(s) : j < k => s[k].age <= s[j].age
Whole(s)        == \A k \in 1..Len(s) : s[k].part = "all"
AllOld(s, m)    == \A k \in 1..Len(s) : s[k].age >= m
Has(s, act, m)  == \E k \in 1..Len(s) : s[k].act = act /\ s[k].age >= m

\* The writers in line are so many at most.
RoomInv == \A e \in End : ahead[e] + rear[e] <= Relays

AgeInv == \A e \in End : Aging(chan[e])

\* Nothing has gone wrong so far: then nothing is stalled or cut.
Clear == net = "up" /\ stalls = 0
WholeInv == Clear => \A e \in End : writing[e] = "no" /\ ahead[e] = 0 /\ Whole(chan[e])

\* An end that waits for an answer will get it, or the end of the stream, before
\* its timer runs out: the ping is under way, or the pong, or the peer has
\* closed and what it has written is being read.
Pinged(e) == Running(Peer(e)) /\ Has(chan[Peer(e)], "ping", Tmo - timer[e])
Ponged(e) == Has(chan[e], "pong", Tmo - D - timer[e])
Ending(e) == ~Running(Peer(e)) /\ timer[e] > 0 /\ AllOld(chan[e], Tmo - D - timer[e])
AnswerInv == Clear => \A e \in End : Running(e) /\ waiting[e] => Pinged(e) \/ Ponged(e) \/ Ending(e)

\* Writes stall only when something has gone wrong, that of a pong only while
\* frames still come in.
StallInv ==
    /\ net = "down" => \A e \in End : chan[e] = <<>>
    /\ \A e \in End : /\ writing[e] = "pong" => stalls > 0
                      /\ writing[e] = "ping" => waiting[e] /\ (stalls > 0 \/ net = "down")
                      /\ ahead[e] > 0 => stalls > 0 \/ net = "down"

\* How long a write of Listen may take with n relays behind it, and any of them.
Moved(n) == (1 + n) * WriteTmo
Longest == Moved(Relays)

\* How long an end may still be silent.
Slack == IF stalls > 0 \/ net = "down" THEN Longest ELSE 0
Lasts(e) ==
    Running(e) =>
        /\ writing[e] = "no" /\ ~waiting[e] => silent[e] + timer[e] <= interval[e]
        /\ writing[e] = "no" /\ waiting[e] => silent[e] + timer[e] <= interval[e] + Tmo + Slack
        /\ writing[e] = "ping" => silent[e] + wtimer[e] <= interval[e] + Moved(rear[e])
        /\ writing[e] = "pong" =>
             silent[e] + wtimer[e] <= interval[e] + Tmo + Longest + Moved(rear[e])
SilentInv == \A e \in End : Lasts(e)

\* A frame behind a gap is handled only as the first one.
GapInv == \A e \in End : behind[e] <= IF lost[e] THEN 1 ELSE 0

IInv ==
    /\ Typed /\ RoomInv /\ AgeInv /\ WholeInv /\ AnswerInv /\ StallInv /\ SilentInv /\ GapInv
    /\ NoFalseAlarm

-----------------------------------------------------------------------------
(* Streams *)

\* The other end of the other end is the end itself.
LEMMA PeerEnd ==
    ASSUME NEW e \in End
    PROVE  /\ Peer(e) \in End /\ Peer(e) /= e /\ Peer(Peer(e)) = e
           /\ \A d \in End : d = e \/ d = Peer(e)
BY DEF End, Peer

\* A new frame.
LEMMA FrameType ==
    ASSUME NEW act \in {"ping", "pong", "data"}, NEW part \in Part
    PROVE  /\ Frame(act, part) \in Frames /\ Frame(act, part).age = 0
           /\ Frame(act, part).act = act /\ Frame(act, part).part = part
<1>1. 0 \in 0..D
  BY LinkAssumption
<1> QED  BY <1>1 DEF Frame, Frames

\* An empty stream.
LEMMA EmptyStream ==
    /\ <<>> \in Seq(Frames) /\ Aging(<<>>) /\ Whole(<<>>)
    /\ \A m : AllOld(<<>>, m)
BY DEF Aging, Whole, AllOld

\* A frame is added at the end.
LEMMA StreamAppend ==
    ASSUME NEW s \in Seq(Frames), NEW f \in Frames, f.age = 0
    PROVE  /\ Append(s, f) \in Seq(Frames)
           /\ Aging(s) => Aging(Append(s, f))
           /\ Whole(s) /\ f.part = "all" => Whole(Append(s, f))
           /\ \A a, m : Has(s, a, m) => Has(Append(s, f), a, m)
           /\ \A m : 0 >= m => Has(Append(s, f), f.act, m)
<1>1. /\ Append(s, f) \in Seq(Frames) /\ Len(Append(s, f)) = Len(s) + 1 /\ Len(s) \in Nat
      /\ \A k \in 1..Len(s) : Append(s, f)[k] = s[k] /\ s[k] \in Frames
      /\ Append(s, f)[Len(s) + 1] = f
  BY AppendProperties, LenProperties, ElementOfSeq
<1>2. \A k \in 1..Len(s) : s[k].age \in Nat
  BY <1>1, LinkAssumption DEF Frames
<1>3. ASSUME Aging(s)
      PROVE  Aging(Append(s, f))
  BY <1>1, <1>2, <1>3 DEF Aging
<1>4. ASSUME Whole(s), f.part = "all"
      PROVE  Whole(Append(s, f))
  BY <1>1, <1>4 DEF Whole
<1>5. Len(s) + 1 \in 1..Len(s) + 1 /\ 1..Len(s) \subseteq 1..Len(s) + 1
  BY <1>1
<1>6. \A a, m : Has(s, a, m) => Has(Append(s, f), a, m)
  BY <1>1, <1>5 DEF Has
<1>7. \A m : 0 >= m => Has(Append(s, f), f.act, m)
  BY <1>1, <1>5 DEF Has
<1> QED  BY <1>1, <1>3, <1>4, <1>6, <1>7

\* The first frame is taken off.
LEMMA StreamTail ==
    ASSUME NEW s \in Seq(Frames), s /= <<>>
    PROVE  /\ Head(s) \in Frames /\ Tail(s) \in Seq(Frames)
           /\ Aging(s) => Aging(Tail(s))
           /\ Whole(s) => Whole(Tail(s)) /\ Head(s).part = "all"
           /\ \A m : AllOld(s, m) => AllOld(Tail(s), m)
           /\ \A a, m : Has(s, a, m) =>
                Has(Tail(s), a, m) \/ (Head(s).act = a /\ Head(s).age >= m)
<1>1. /\ Len(s) \in Nat \ {0} /\ Len(Tail(s)) = Len(s) - 1 /\ Head(s) = s[1]
      /\ \A k \in 1..Len(s) - 1 : Tail(s)[k] = s[k + 1] /\ k + 1 \in 1..Len(s)
      /\ \A k \in 1..Len(s) : s[k] \in Frames
      /\ 1 \in 1..Len(s) /\ Tail(s) \in Seq(Frames)
  BY HeadTailProperties, EmptySeq, ElementOfSeq
<1>2. Aging(s) => Aging(Tail(s))
  BY <1>1 DEF Aging
<1>3. Whole(s) => Whole(Tail(s)) /\ Head(s).part = "all"
  BY <1>1 DEF Whole
<1>4. \A m : AllOld(s, m) => AllOld(Tail(s), m)
  BY <1>1 DEF AllOld
<1>5. ASSUME NEW a, NEW m, Has(s, a, m), ~(Head(s).act = a /\ Head(s).age >= m)
      PROVE  Has(Tail(s), a, m)
  <2>1. PICK k \in 1..Len(s) : s[k].act = a /\ s[k].age >= m
    BY <1>5 DEF Has
  <2>2. k /= 1
    BY <1>1, <1>5, <2>1
  <2>3. k - 1 \in 1..Len(s) - 1 /\ Tail(s)[k - 1] = s[k]
    BY <1>1, <2>2
  <2> QED  BY <1>1, <2>1, <2>3 DEF Has
<1> QED  BY <1>1, <1>2, <1>3, <1>4, <1>5

\* What a tick makes of a stream.
Older(s) == [i \in DOMAIN s |-> [s[i] EXCEPT !.age = IF @ < D THEN @ + 1 ELSE D]]

\* A unit of time: every frame is older by one, up to the bound.
LEMMA StreamOlder ==
    ASSUME NEW s \in Seq(Frames), Aging(s)
    PROVE  /\ Older(s) \in Seq(Frames) /\ Aging(Older(s))
           /\ Whole(s) => Whole(Older(s))
           /\ s = <<>> => Older(s) = <<>>
           /\ s /= <<>> /\ ~(Head(s).age >= D) =>
                /\ \A a : \A m \in Int : Has(s, a, m) => Has(Older(s), a, m + 1)
                /\ \A m \in Int : AllOld(s, m) => AllOld(Older(s), m + 1) /\ m < D
<1>0. D \in Nat
  BY LinkAssumption
<1>1. /\ DOMAIN s = 1..Len(s) /\ Len(s) \in Nat
      /\ \A k \in 1..Len(s) : s[k] \in Frames
  BY LenProperties, ElementOfSeq
<1>2. \A k \in 1..Len(s) : s[k].age \in Nat /\ s[k].age <= D
  BY <1>0, <1>1 DEF Frames
<1>3. ASSUME NEW k \in 1..Len(s)
      PROVE  /\ Older(s)[k] \in Frames /\ Older(s)[k].act = s[k].act
             /\ Older(s)[k].part = s[k].part
             /\ Older(s)[k].age = IF s[k].age < D THEN s[k].age + 1 ELSE D
  <2>1. Older(s)[k] = [s[k] EXCEPT !.age = IF s[k].age < D THEN s[k].age + 1 ELSE D]
    BY <1>1 DEF Older
  <2>2. (IF s[k].age < D THEN s[k].age + 1 ELSE D) \in 0..D
    BY <1>0, <1>2
  <2> QED  BY <1>1, <2>1, <2>2 DEF Frames
<1>4. Older(s) \in Seq(Frames) /\ Len(Older(s)) = Len(s)
  <2>1. Older(s) = [k \in 1..Len(s) |-> Older(s)[k]]
    BY <1>1 DEF Older
  <2>2. Older(s) \in [1..Len(s) -> Frames]
    BY <1>1, <1>3, <2>1 DEF Older
  <2> QED  BY <1>1, <2>2
<1>5. Aging(Older(s))
  BY <1>0, <1>2, <1>3, <1>4 DEF Aging
<1>6. Whole(s) => Whole(Older(s))
  BY <1>3, <1>4 DEF Whole
<1>7. s = <<>> => Older(s) = <<>>
  BY <1>4, EmptySeq
<1>8. ASSUME s /= <<>>, ~(Head(s).age >= D)
      PROVE  /\ \A a : \A m \in Int : Has(s, a, m) => Has(Older(s), a, m + 1)
             /\ \A m \in Int : AllOld(s, m) => AllOld(Older(s), m + 1) /\ m < D
  <2>1. 1 \in 1..Len(s) /\ Head(s) = s[1] /\ s[1].age < D
    BY <1>0, <1>1, <1>2, <1>8, HeadTailProperties, EmptySeq
  <2>2. \A k \in 1..Len(s) : s[k].age < D
    BY <1>0, <1>2, <2>1 DEF Aging
  <2>3. \A k \in 1..Len(s) : Older(s)[k].age = s[k].age + 1
    BY <1>3, <2>2
  <2>4. ASSUME NEW a, NEW m \in Int, Has(s, a, m)
        PROVE  Has(Older(s), a, m + 1)
    <3>1. PICK k \in 1..Len(s) : s[k].act = a /\ s[k].age >= m
      BY <2>4 DEF Has
    <3>2. Older(s)[k].act = a /\ Older(s)[k].age >= m + 1
      BY <1>2, <1>3, <2>3, <3>1
    <3> QED  BY <1>4, <3>2 DEF Has
  <2>5. ASSUME NEW m \in Int, AllOld(s, m)
        PROVE  AllOld(Older(s), m + 1) /\ m < D
    <3>1. \A k \in 1..Len(s) : Older(s)[k].age >= m + 1
      BY <1>2, <2>3, <2>5 DEF AllOld
    <3>2. m < D
      BY <1>0, <1>2, <2>1, <2>5 DEF AllOld
    <3> QED  BY <1>4, <3>1, <3>2 DEF AllOld
  <2> QED  BY <2>4, <2>5
<1> QED  BY <1>4, <1>5, <1>6, <1>7, <1>8

\* A stream of two frames has one left behind the first.
LEMMA LongTail ==
    ASSUME NEW s \in Seq(Frames), s /= <<>>, Len(s) > 1
    PROVE  Tail(s) /= <<>>
<1>1. Len(Tail(s)) = Len(s) - 1 /\ Len(s) \in Nat /\ Tail(s) \in Seq(Frames)
  BY HeadTailProperties, LenProperties
<1>2. PICK n \in Nat : n = Len(s)
  BY <1>1
<1>3. Len(Tail(s)) = n - 1 /\ n > 1
  BY <1>1, <1>2
<1>4. PICK m \in Int : m = Len(Tail(s))
  BY <1>3
<1>5. m /= 0
  BY <1>3, <1>4
<1>6. Tail(s) = <<>> => Len(Tail(s)) = 0
  BY <1>1, EmptySeq
<1> QED  BY <1>4, <1>5, <1>6, Zenon

-----------------------------------------------------------------------------
(* What the steps do *)

\* What a write puts on the stream to the other end.
LEMMA PutStream ==
    ASSUME Typed, NEW ch \in [End -> Seq(Frames)], NEW e \in End,
           NEW act \in {"ping", "pong", "data"}, NEW part \in Part
    PROVE  LET new == Put(ch, e, act, part) IN
           /\ new \in [End -> Seq(Frames)] /\ new[e] = ch[e]
           /\ new[Peer(e)] = IF net = "up" /\ Running(Peer(e))
                             THEN Append(ch[Peer(e)], Frame(act, part)) ELSE ch[Peer(e)]
           /\ (\A d \in End : Aging(ch[d])) => \A d \in End : Aging(new[d])
           /\ (\A d \in End : Whole(ch[d])) /\ part = "all" => \A d \in End : Whole(new[d])
<1> DEFINE f == Frame(act, part)
           p == Peer(e)
<1>1. f \in Frames /\ f.age = 0 /\ f.part = part
  BY FrameType
<1>2. p \in End /\ p /= e /\ \A d \in End : d = e \/ d = p
  BY PeerEnd
<1>3. /\ Append(ch[p], f) \in Seq(Frames)
      /\ Aging(ch[p]) => Aging(Append(ch[p], f))
      /\ Whole(ch[p]) /\ part = "all" => Whole(Append(ch[p], f))
  BY <1>1, <1>2, StreamAppend
<1> HIDE DEF f, p
<1>4. Put(ch, e, act, part) = IF net = "up" /\ Running(p)
                              THEN [ch EXCEPT ![p] = Append(ch[p], f)] ELSE ch
  BY DEF Put, f, p
<1>5. CASE net = "up" /\ Running(p)
  <2> DEFINE new == Put(ch, e, act, part)
  <2>1. new \in [End -> Seq(Frames)] /\ new[e] = ch[e] /\ new[p] = Append(ch[p], f)
    BY <1>2, <1>3, <1>4, <1>5
  <2> QED  BY <1>2, <1>3, <1>5, <2>1 DEF f, p
<1>6. CASE ~(net = "up" /\ Running(p))
  BY <1>4, <1>6 DEF p
<1> QED  BY <1>5, <1>6

\* Listen has written the frame and starts a new round, or it is stalled.
Wrote(e, act, ch) ==
    /\ chan' = Put(ch, e, act, "all")
    /\ timer' = [timer EXCEPT ![e] = IF waiting'[e] THEN Tmo ELSE interval[e]]
    /\ UNCHANGED <<writing, wtimer, stalls>>
Stalled(e, act, ch) ==
    /\ IF ahead[e] = 0 THEN Stall ELSE UNCHANGED stalls
    /\ chan' = ch
    /\ writing' = [writing EXCEPT ![e] = act]
    /\ wtimer' = [wtimer EXCEPT ![e] = WriteTmo]
    /\ UNCHANGED timer

\* What a frame that is read leaves of the streams.
Left(e, ch) ==
    \E rest \in Seq(Frames) :
        /\ \/ rest = Tail(chan[e])
           \/ Head(chan[e]).part /= "all" /\ Tail(chan[e]) /= <<>> /\ rest = Tail(Tail(chan[e]))
        /\ ch = [chan EXCEPT ![e] = rest]

\* Receive, by what happens to the answer.
LEMMA ReceiveEffect ==
    ASSUME Typed, NEW e \in End, Receive(e)
    PROVE  LET f == Head(chan[e]) IN
           /\ Running(e) /\ writing[e] = "no" /\ ~lost[e]
           /\ chan[e] /= <<>> /\ f \in Frames
           /\ \E ch \in [End -> Seq(Frames)] :
                /\ Left(e, ch)
                /\ \/ f.act = "ping" /\ Stalled(e, "pong", ch) /\ UNCHANGED <<silent, heard>>
                   \/ f.act = "ping" /\ Wrote(e, "pong", ch) /\ Update(e)
                   \/ /\ f.act /= "ping" /\ chan' = ch /\ Update(e)
                      /\ timer' = [timer EXCEPT ![e] = IF waiting'[e] THEN Tmo ELSE interval[e]]
                      /\ UNCHANGED <<writing, wtimer, stalls>>
           /\ waiting' = IF f.act = "pong" THEN [waiting EXCEPT ![e] = FALSE] ELSE waiting
           /\ lost' = [lost EXCEPT ![e] = (f.part /= "all")]
           /\ behind' = [behind EXCEPT ![e] = IF f.part /= "all" THEN behind[e] + 1 ELSE behind[e]]
           /\ UNCHANGED <<net, interval, ahead, rear, ended>>
<1> DEFINE s == chan[e]
           f == Head(s)
           gap == lost[e] \/ f.part /= "all"
<1>1. s \in Seq(Frames) /\ lost[e] \in BOOLEAN
  BY DEF Typed
<1>2. Running(e) /\ writing[e] = "no" /\ s /= <<>> /\ ~lost[e]
  BY DEF Receive, Readable, parse_frame, VerifyHash16At6
<1>3. f \in Frames /\ Tail(s) \in Seq(Frames)
  BY <1>1, <1>2, StreamTail
<1>4. gap <=> f.part /= "all"
  BY <1>2
<1>5. /\ waiting' = IF f.act = "pong" THEN [waiting EXCEPT ![e] = FALSE] ELSE waiting
      /\ lost' = [lost EXCEPT ![e] = gap]
      /\ behind' = [behind EXCEPT ![e] = IF gap THEN @ + 1 ELSE @]
      /\ UNCHANGED <<net, interval, ahead, rear, ended>>
  BY DEF Receive, verify
<1>6. PICK rest \in IF gap /\ Len(s) > 1 THEN {Tail(s), Tail(Tail(s))} ELSE {Tail(s)} :
        LET ch == [chan EXCEPT ![e] = rest]
        IN  IF f.act = "ping" THEN ListenWrites(e, "pong", ch)
            ELSE chan' = ch /\ newRound(e, waiting'[e]) /\ UNCHANGED <<writing, wtimer, stalls>>
  BY DEF Receive
<1>7. Len(s) > 1 => Tail(s) /= <<>>
  BY <1>1, <1>2, LongTail
<1>8. /\ rest \in Seq(Frames)
      /\ rest = Tail(s) \/ (f.part /= "all" /\ Tail(s) /= <<>> /\ rest = Tail(Tail(s)))
  <2>1. CASE rest = Tail(s)
    BY <1>3, <2>1
  <2>2. CASE gap /\ Len(s) > 1 /\ rest = Tail(Tail(s))
    <3>1. Tail(s) /= <<>>
      BY <1>7, <2>2
    <3>2. rest \in Seq(Frames)
      BY <1>3, <2>2, <3>1, StreamTail
    <3> QED  BY <1>4, <2>2, <3>1, <3>2
  <2> QED  BY <1>6, <2>1, <2>2
<1> DEFINE ch == [chan EXCEPT ![e] = rest]
<1>9. ch \in [End -> Seq(Frames)] /\ Left(e, ch)
  BY <1>8 DEF Typed, Left
<1>10. IF writing'[e] = "no" THEN Update(e) ELSE UNCHANGED <<silent, heard>>
  BY DEF Receive
<1>11. \/ f.act = "ping" /\ Stalled(e, "pong", ch) /\ UNCHANGED <<silent, heard>>
       \/ f.act = "ping" /\ Wrote(e, "pong", ch) /\ Update(e)
       \/ /\ f.act /= "ping" /\ chan' = ch /\ Update(e)
          /\ timer' = [timer EXCEPT ![e] = IF waiting'[e] THEN Tmo ELSE interval[e]]
          /\ UNCHANGED <<writing, wtimer, stalls>>
  <2> HIDE DEF ch
  <2>0. /\ writing \in [End -> {"no", "ping", "pong"}]
        /\ IF f.act = "ping" THEN ListenWrites(e, "pong", ch)
           ELSE chan' = ch /\ newRound(e, waiting'[e]) /\ UNCHANGED <<writing, wtimer, stalls>>
    BY <1>6 DEF ch, Typed
  <2>1. CASE f.act = "ping" /\ Stalled(e, "pong", ch)
    <3>1. writing'[e] = "pong"
      BY <2>0, <2>1 DEF Stalled
    <3> QED  BY <1>10, <2>1, <3>1
  <2>2. CASE f.act = "ping" /\ Wrote(e, "pong", ch)
    BY <1>2, <1>10, <2>2 DEF Wrote
  <2>3. CASE f.act /= "ping"
    BY <1>2, <1>10, <2>0, <2>3 DEF newRound
  <2>4. f.act = "ping" => Stalled(e, "pong", ch) \/ Wrote(e, "pong", ch)
    BY <2>0 DEF ListenWrites, Stalled, Wrote, newRound, SetWriteDeadline
  <2> QED  BY <2>1, <2>2, <2>3, <2>4
<1> QED  BY <1>2, <1>3, <1>4, <1>5, <1>9, <1>11

\* The deadline of a read: the tunnel is given up, or a ping is written.
LEMMA TimeoutEffect ==
    ASSUME Typed, NEW e \in End, ReadTimeout(e)
    PROVE  /\ Running(e) /\ writing[e] = "no" /\ timer[e] = 0
           /\ UNCHANGED <<net, interval, silent, heard, behind>>
           /\ \/ /\ waiting[e] /\ Return(e, "unresponsive")
                 /\ UNCHANGED <<chan, waiting, timer, wtimer, lost, stalls>>
              \/ /\ ~waiting[e] /\ waiting' = [waiting EXCEPT ![e] = TRUE]
                 /\ UNCHANGED <<ahead, rear, ended>>
                 /\ \E b \in BOOLEAN : lost' = [lost EXCEPT ![e] = @ \/ b]
                 /\ \E ch \in [End -> Seq(Frames)] :
                      /\ \/ ch = chan
                         \/ ~Readable(e) /\ chan[e] /= <<>> /\ ch = [chan EXCEPT ![e] = <<>>]
                      /\ Wrote(e, "ping", ch) \/ Stalled(e, "ping", ch)
<1>1. /\ Running(e) /\ writing[e] = "no" /\ timer[e] = 0
      /\ UNCHANGED <<net, interval, silent, heard, behind>>
  BY DEF ReadTimeout
<1>2. CASE waiting[e]
  BY <1>1, <1>2 DEF ReadTimeout, consumeError
<1>3. CASE ~waiting[e]
  <2> DEFINE torn == chan[e] /= <<>> /\ ~Readable(e)
             ch == IF torn THEN [chan EXCEPT ![e] = <<>>] ELSE chan
  <2>1. /\ ping(e) /\ ListenWrites(e, "ping", ch) /\ UNCHANGED <<ahead, rear, ended>>
        /\ \E early \in BOOLEAN : lost' = [lost EXCEPT ![e] = @ \/ torn \/ early]
    BY <1>3 DEF ReadTimeout, consumeError
  <2>2. ch \in [End -> Seq(Frames)]
    BY EmptyStream DEF Typed
  <2>3. ch = chan \/ (~Readable(e) /\ chan[e] /= <<>> /\ ch = [chan EXCEPT ![e] = <<>>])
    OBVIOUS
  <2>4. \E b \in BOOLEAN : lost' = [lost EXCEPT ![e] = @ \/ b]
    <3>1. PICK early \in BOOLEAN : lost' = [lost EXCEPT ![e] = @ \/ torn \/ early]
      BY <2>1
    <3> DEFINE b == torn \/ early
    <3>2. b \in BOOLEAN
      OBVIOUS
    <3>3. (lost[e] \/ torn \/ early) = (lost[e] \/ b)
      OBVIOUS
    <3> HIDE DEF b
    <3>4. lost' = [lost EXCEPT ![e] = lost[e] \/ b]
      BY <3>1, <3>3
    <3> QED  BY <3>2, <3>4
  <2>5. Wrote(e, "ping", ch) \/ Stalled(e, "ping", ch)
    BY <2>1 DEF ListenWrites, Wrote, Stalled, newRound, SetWriteDeadline
  <2> HIDE DEF torn, ch
  <2> QED  BY <1>1, <1>3, <2>1, <2>2, <2>3, <2>4, <2>5 DEF ping
<1> QED  BY <1>2, <1>3 DEF Typed

\* A stalled write is counted while the network works.
LEMMA StallStep ==
    ASSUME Typed, Stall
    PROVE  /\ stalls \in Nat /\ stalls' \in 0..MaxStall
           /\ \/ net = "down" /\ stalls' = stalls
              \/ net = "up" /\ stalls' = stalls + 1
BY LinkAssumption DEF Typed, Stall, MayStall

\* Writers come and leave one by one, all leave a closed tunnel, and those
\* behind Listen are in front of it once it has written.
LEMMA LineStep ==
    ASSUME Typed, RoomInv, Next
    PROVE  ahead' \in [End -> Nat] /\ rear' \in [End -> Nat] /\ RoomInv'
<1>0. ahead \in [End -> Nat] /\ rear \in [End -> Nat] /\ Relays \in Nat
  BY LinkAssumption DEF Typed
<1>a. \A d \in End : ahead[d] + rear[d] <= Relays
  BY DEF RoomInv
<1>b. ASSUME NEW e \in End, NEW a \in Nat, NEW b \in Nat, a + b <= Relays,
             ahead' = [ahead EXCEPT ![e] = a], rear' = [rear EXCEPT ![e] = b]
      PROVE  ahead' \in [End -> Nat] /\ rear' \in [End -> Nat] /\ RoomInv'
  <2>1. ahead' \in [End -> Nat] /\ rear' \in [End -> Nat]
    BY <1>0, <1>b
  <2>2. ASSUME NEW d \in End PROVE ahead'[d] + rear'[d] <= Relays
    <3>1. CASE d = e
      BY <1>0, <1>b, <3>1
    <3>2. CASE d /= e
      BY <1>0, <1>a, <1>b, <3>2
    <3> QED  BY <3>1, <3>2
  <2> QED  BY <2>1, <2>2 DEF RoomInv
<1>c. ASSUME NEW e \in End, NEW why, Return(e, why)
      PROVE  ahead' \in [End -> Nat] /\ rear' \in [End -> Nat] /\ RoomInv'
  <2>1. ahead' = [ahead EXCEPT ![e] = 0] /\ rear' = [rear EXCEPT ![e] = 0]
    BY <1>c DEF Return
  <2>2. 0 \in Nat /\ 0 + 0 <= Relays
    BY <1>0
  <2> QED  BY <1>b, <2>1, <2>2
<1>d. CASE UNCHANGED <<ahead, rear>>
  BY <1>0, <1>d DEF RoomInv
<1>1. ASSUME NEW e \in End, Receive(e) PROVE UNCHANGED <<ahead, rear>>
  BY <1>1 DEF Receive
<1>2. ASSUME NEW e \in End, ReadTimeout(e)
      PROVE  UNCHANGED <<ahead, rear>> \/ Return(e, "unresponsive")
  BY <1>2 DEF ReadTimeout
<1>3. ASSUME NEW e \in End, StalledDone(e)
      PROVE  RoomInv' /\ ahead' \in [End -> Nat] /\ rear' \in [End -> Nat]
  <2>1. ahead' = [ahead EXCEPT ![e] = rear[e]] /\ rear' = [rear EXCEPT ![e] = 0]
    BY <1>3 DEF StalledDone
  <2>2. rear[e] \in Nat /\ rear[e] + 0 <= Relays
    BY <1>0, <1>a
  <2> QED  BY <1>b, <2>1, <2>2
<1>4. ASSUME NEW e \in End, AppDataWaits(e)
      PROVE  RoomInv' /\ ahead' \in [End -> Nat] /\ rear' \in [End -> Nat]
  <2>1. /\ ahead[e] \in Nat /\ rear[e] \in Nat /\ ahead[e] + rear[e] < Relays
        /\ ahead = [ahead EXCEPT ![e] = ahead[e]] /\ rear = [rear EXCEPT ![e] = rear[e]]
    BY <1>0, <1>4 DEF AppDataWaits
  <2>2. \/ ahead' = [ahead EXCEPT ![e] = ahead[e] + 1] /\ rear' = rear
        \/ rear' = [rear EXCEPT ![e] = rear[e] + 1] /\ ahead' = ahead
    BY <1>4 DEF AppDataWaits
  <2>3. (ahead[e] + 1) + rear[e] <= Relays /\ ahead[e] + (rear[e] + 1) <= Relays
    BY <1>0, <2>1
  <2> QED  BY <1>b, <2>1, <2>2, <2>3
<1>5. ASSUME NEW e \in End, AppDataDone(e) \/ AppDataCut(e)
      PROVE  RoomInv' /\ ahead' \in [End -> Nat] /\ rear' \in [End -> Nat]
  <2>1. CASE Return(e, "write")
    BY <1>c, <2>1
  <2>2. CASE ahead' = [ahead EXCEPT ![e] = ahead[e] - 1] /\ rear' = rear
    <3>1. ahead[e] > 0 /\ rear = [rear EXCEPT ![e] = rear[e]]
      BY <1>0, <1>5 DEF AppDataDone, AppDataCut
    <3>2. ahead[e] - 1 \in Nat /\ rear[e] \in Nat /\ (ahead[e] - 1) + rear[e] <= Relays
      BY <1>0, <1>a, <3>1
    <3> QED  BY <1>b, <2>2, <3>1, <3>2
  <2> QED  BY <1>5, <2>1, <2>2 DEF AppDataDone, AppDataCut
<1>6. ASSUME NEW e \in End, ReceiveTampered(e) \/ StalledFails(e) \/ Eof(e)
      PROVE  \E why : Return(e, why)
  BY <1>6 DEF ReceiveTampered, StalledFails, Eof
<1>7. AppData("clt") \/ AppData("svr") \/ NetDown \/ Tick => UNCHANGED <<ahead, rear>>
  BY DEF AppData, NetDown, Tick, writeVars
<1> QED
  BY <1>c, <1>d, <1>1, <1>2, <1>3, <1>4, <1>5, <1>6, <1>7 DEF Next, End

\* The write deadline is set, or comes nearer.
LEMMA DeadlineStep ==
    ASSUME Typed, Next
    PROVE  wtimer' \in [End -> 0..WriteTmo]
<1>0. wtimer \in [End -> 0..WriteTmo] /\ WriteTmo \in 0..WriteTmo
  BY LinkAssumption DEF Typed
<1>1. ASSUME NEW e \in End, wtimer' = [wtimer EXCEPT ![e] = WriteTmo]
      PROVE  wtimer' \in [End -> 0..WriteTmo]
  BY <1>0, <1>1
<1>2. CASE UNCHANGED wtimer
  BY <1>0, <1>2
<1>3. CASE Tick
  <2>1. ASSUME NEW e \in End
        PROVE  (IF wtimer[e] > 0 THEN wtimer[e] - 1 ELSE 0) \in 0..WriteTmo
    <3>1. wtimer[e] \in 0..WriteTmo /\ WriteTmo \in Nat
      BY <1>0, LinkAssumption
    <3> QED  BY <3>1
  <2> QED  BY <1>3, <2>1 DEF Tick
<1>4. ASSUME NEW e \in End, Receive(e)
      PROVE  UNCHANGED wtimer \/ wtimer' = [wtimer EXCEPT ![e] = WriteTmo]
  BY <1>4, ReceiveEffect DEF Stalled, Wrote
<1>5. ASSUME NEW e \in End, ReadTimeout(e)
      PROVE  UNCHANGED wtimer \/ wtimer' = [wtimer EXCEPT ![e] = WriteTmo]
  BY <1>5, TimeoutEffect DEF Stalled, Wrote
<1>6. ASSUME NEW e \in End, AppDataWaits(e) PROVE wtimer' = [wtimer EXCEPT ![e] = WriteTmo]
  BY <1>6 DEF AppDataWaits, SetWriteDeadline
<1> QED
  BY <1>1, <1>2, <1>3, <1>4, <1>5, <1>6
  DEF Next, ReceiveTampered, StalledDone, StalledFails, Eof, AppData, AppDataDone, AppDataCut,
      NetDown, writeVars

\* Every step keeps the types.
LEMMA TypedStep ==
    ASSUME Typed, RoomInv, AgeInv, Next
    PROVE  Typed'
<1>0. /\ Tmo \in 0..Interval + Tmo
      /\ 1..Interval + Tmo \subseteq 0..Interval + Tmo
      /\ "all" \in Part /\ "head" \in Part /\ "body" \in Part
  BY LinkAssumption DEF Part
<1>a. ahead' \in [End -> Nat] /\ rear' \in [End -> Nat] /\ wtimer' \in [End -> 0..WriteTmo]
  BY LineStep, DeadlineStep
<1>1. ASSUME NEW e \in End, Receive(e) PROVE Typed'
  <2> DEFINE f == Head(chan[e])
  <2>1. PICK ch \in [End -> Seq(Frames)] :
          \/ f.act = "ping" /\ Stalled(e, "pong", ch) /\ UNCHANGED <<silent, heard>>
          \/ f.act = "ping" /\ Wrote(e, "pong", ch) /\ Update(e)
          \/ /\ f.act /= "ping" /\ chan' = ch /\ Update(e)
             /\ timer' = [timer EXCEPT ![e] = IF waiting'[e] THEN Tmo ELSE interval[e]]
             /\ UNCHANGED <<writing, wtimer, stalls>>
    BY <1>1, ReceiveEffect
  <2>2. /\ waiting' = IF f.act = "pong" THEN [waiting EXCEPT ![e] = FALSE] ELSE waiting
        /\ lost' = [lost EXCEPT ![e] = (f.part /= "all")]
        /\ behind' = [behind EXCEPT ![e] = IF f.part /= "all" THEN behind[e] + 1 ELSE behind[e]]
        /\ UNCHANGED <<net, interval, ended>>
    BY <1>1, ReceiveEffect
  <2> HIDE DEF f
  <2>3. waiting' \in [End -> BOOLEAN] /\ lost' \in [End -> BOOLEAN]
    BY <2>2, Zenon DEF Typed
  <2>4. heard' \in [End -> BOOLEAN]
    BY <2>1, Zenon DEF Typed, Update
  <2>5. behind' \in [End -> Nat] /\ silent' \in [End -> Nat]
    <3>1. behind[e] + 1 \in Nat /\ behind[e] \in Nat
      BY DEF Typed
    <3>2. behind' \in [End -> Nat]
      BY <2>2, <3>1 DEF Typed
    <3>3. silent' = silent \/ silent' = [silent EXCEPT ![e] = 0]
      BY <2>1 DEF Update
    <3>4. silent \in [End -> Nat] /\ 0 \in Nat
      BY DEF Typed
    <3>5. silent' \in [End -> Nat]
      BY <3>3, <3>4
    <3> QED  BY <3>2, <3>5
  <2>6. timer' \in [End -> 0..Interval + Tmo]
    BY <1>0, <2>1 DEF Typed, Stalled, Wrote
  <2>7. writing' \in [End -> {"no", "ping", "pong"}]
    BY <2>1 DEF Typed, Stalled, Wrote
  <2>8. stalls' \in 0..MaxStall
    <3>1. Stall \/ UNCHANGED stalls
      BY <2>1 DEF Stalled, Wrote
    <3> QED  BY <3>1, StallStep DEF Typed
  <2>9. chan' \in [End -> Seq(Frames)]
    BY <1>0, <2>1, PutStream DEF Stalled, Wrote
  <2> QED  BY <1>a, <2>2, <2>3, <2>4, <2>5, <2>6, <2>7, <2>8, <2>9 DEF Typed
<1>2. ASSUME NEW e \in End, ReceiveTampered(e) PROVE Typed'
  BY <1>2, <1>a DEF ReceiveTampered, Return, Typed, Outcome
<1>3. ASSUME NEW e \in End, ReadTimeout(e) PROVE Typed'
  <2>1. CASE waiting[e]
    <3>1. /\ UNCHANGED <<net, interval, silent, heard, behind, chan, waiting, timer, lost, stalls>>
          /\ Return(e, "unresponsive")
      BY <1>3, <2>1, TimeoutEffect
    <3> QED  BY <1>a, <3>1 DEF Return, Typed, Outcome
  <2>2. CASE ~waiting[e]
    <3>1. PICK ch \in [End -> Seq(Frames)] : Wrote(e, "ping", ch) \/ Stalled(e, "ping", ch)
      BY <1>3, <2>2, TimeoutEffect
    <3>2. /\ waiting' = [waiting EXCEPT ![e] = TRUE]
          /\ \E b \in BOOLEAN : lost' = [lost EXCEPT ![e] = @ \/ b]
          /\ UNCHANGED <<net, interval, silent, heard, behind, ended>>
      BY <1>3, <2>2, TimeoutEffect
    <3>3. waiting' \in [End -> BOOLEAN] /\ lost' \in [End -> BOOLEAN]
      BY <3>2, Zenon DEF Typed
    <3>4. timer' \in [End -> 0..Interval + Tmo]
      BY <1>0, <3>1 DEF Typed, Stalled, Wrote
    <3>5. writing' \in [End -> {"no", "ping", "pong"}]
      BY <3>1 DEF Typed, Stalled, Wrote
    <3>6. stalls' \in 0..MaxStall
      <4>1. Stall \/ UNCHANGED stalls
        BY <3>1 DEF Stalled, Wrote
      <4> QED  BY <4>1, StallStep DEF Typed
    <3>7. chan' \in [End -> Seq(Frames)]
      BY <1>0, <3>1, PutStream DEF Stalled, Wrote
    <3> QED  BY <1>a, <3>2, <3>3, <3>4, <3>5, <3>6, <3>7 DEF Typed
  <2> QED  BY <2>1, <2>2
<1>4. ASSUME NEW e \in End, StalledDone(e) PROVE Typed'
  <2>1. chan \in [End -> Seq(Frames)] /\ writing[e] \in {"ping", "pong"}
    BY <1>4 DEF Typed, StalledDone
  <2>2. Put(chan, e, writing[e], "all") \in [End -> Seq(Frames)]
    BY <1>0, <2>1, PutStream
  <2>3. timer' \in [End -> 0..Interval + Tmo]
    BY <1>0, <1>4 DEF Typed, StalledDone, newRound
  <2>4. heard' \in [End -> BOOLEAN]
    BY <1>4, Zenon DEF Typed, StalledDone, Update
  <2>5. silent' \in [End -> Nat] /\ writing' \in [End -> {"no", "ping", "pong"}]
    BY <1>4 DEF Typed, StalledDone, Update
  <2>6. /\ chan' = Put(chan, e, writing[e], "all")
        /\ UNCHANGED <<net, interval, waiting, ended, lost, behind, stalls>>
    BY <1>4 DEF StalledDone
  <2> QED  BY <1>a, <2>2, <2>3, <2>4, <2>5, <2>6 DEF Typed
<1>5. ASSUME NEW e \in End, StalledFails(e) PROVE Typed'
  <2>1. chan \in [End -> Seq(Frames)] /\ writing[e] \in {"ping", "pong"}
    BY <1>5 DEF Typed, StalledFails
  <2>2. Put(chan, e, writing[e], "head") \in [End -> Seq(Frames)]
    BY <1>0, <2>1, PutStream
  <2>3. /\ chan' = Put(chan, e, writing[e], "head") /\ Return(e, "write")
        /\ UNCHANGED <<net, interval, waiting, timer, silent, heard, lost, behind, stalls>>
    BY <1>5 DEF StalledFails
  <2> QED  BY <1>a, <2>2, <2>3 DEF Typed, Return, Outcome
<1>6. ASSUME NEW e \in End, Eof(e) PROVE Typed'
  BY <1>6, <1>a DEF Eof, Return, Typed, Outcome
<1>7. ASSUME NEW e \in End, AppData(e) PROVE Typed'
  <2>1. Put(chan, e, "data", "all") \in [End -> Seq(Frames)]
    BY <1>0, PutStream DEF Typed
  <2> QED  BY <1>7, <1>a, <2>1 DEF AppData, Typed, idlerVars
<1>8. ASSUME NEW e \in End, AppDataCut(e) PROVE Typed'
  <2>1. PICK part \in Part : chan' = Put(chan, e, "data", part)
    BY <1>8 DEF AppDataCut
  <2>2. chan' \in [End -> Seq(Frames)]
    BY <2>1, PutStream DEF Typed
  <2>4. UNCHANGED <<ended, writing>> \/ Return(e, "write")
    BY <1>8 DEF AppDataCut
  <2>5. UNCHANGED <<net, interval, waiting, timer, silent, heard, lost, behind, stalls>>
    BY <1>8 DEF AppDataCut
  <2> QED  BY <1>a, <2>2, <2>4, <2>5 DEF Typed, Return, Outcome
<1>9. CASE NetDown
  BY <1>9, <1>a, EmptyStream DEF NetDown, Typed, idlerVars
<1>10. CASE Tick
  <2>1. ASSUME NEW e \in End PROVE chan'[e] = Older(chan[e]) /\ Older(chan[e]) \in Seq(Frames)
    BY <1>10, StreamOlder DEF Tick, Typed, AgeInv, Older
  <2>2. chan' \in [End -> Seq(Frames)]
    BY <1>10, <2>1 DEF Tick
  <2>3. ASSUME NEW e \in End, Running(e), writing[e] = "no"
        PROVE  timer[e] > 0 /\ timer[e] - 1 \in 0..Interval + Tmo
    <3>1. timer[e] \in 0..Interval + Tmo /\ timer[e] > 0
      BY <1>10, <2>3 DEF Tick, Typed
    <3> QED  BY <3>1, LinkAssumption
  <2>4. timer' \in [End -> 0..Interval + Tmo]
    BY <1>10, <2>3 DEF Tick, Typed
  <2>5. silent' \in [End -> Nat]
    <3>1. /\ silent \in [End -> Nat]
          /\ silent' = [e \in End |-> IF Running(e) THEN silent[e] + 1 ELSE silent[e]]
      BY <1>10 DEF Tick, Typed
    <3> QED  BY <3>1
  <2> QED  BY <1>10, <1>a, <2>2, <2>4, <2>5 DEF Tick, Typed
<1>11. ASSUME NEW e \in End, AppDataWaits(e) PROVE Typed'
  <2>1. stalls' \in 0..MaxStall
    BY <1>11, StallStep DEF AppDataWaits, Typed
  <2> QED  BY <1>11, <1>a, <2>1 DEF AppDataWaits, Typed, idlerVars
<1>12. ASSUME NEW e \in End, AppDataDone(e) PROVE Typed'
  <2>1. Put(chan, e, "data", "all") \in [End -> Seq(Frames)]
    BY <1>0, PutStream DEF Typed
  <2> QED  BY <1>12, <1>a, <2>1 DEF AppDataDone, Typed, idlerVars
<1> QED
  BY <1>1, <1>2, <1>3, <1>4, <1>5, <1>6, <1>7, <1>8, <1>9, <1>10, <1>11, <1>12 DEF Next

\* Behind a gap an end handles one frame at most: the next header does not
\* verify, and the end is out of step for good.
LEMMA GapStep ==
    ASSUME Typed, GapInv, Next
    PROVE  GapInv'
<1>1. ASSUME NEW e \in End, Receive(e) PROVE GapInv'
  <2>1. /\ ~lost[e] /\ lost' = [lost EXCEPT ![e] = (Head(chan[e]).part /= "all")]
        /\ behind' = [behind EXCEPT
                        ![e] = IF Head(chan[e]).part /= "all" THEN behind[e] + 1 ELSE behind[e]]
    BY <1>1, ReceiveEffect
  <2>2. behind[e] = 0
    BY <2>1 DEF GapInv, Typed
  <2>3. behind'[e] <= IF lost'[e] THEN 1 ELSE 0
    <3>1. lost'[e] <=> Head(chan[e]).part /= "all"
      BY <2>1, Zenon DEF Typed
    <3>2. behind'[e] = IF Head(chan[e]).part /= "all" THEN behind[e] + 1 ELSE behind[e]
      BY <2>1 DEF Typed
    <3> QED  BY <2>2, <3>1, <3>2
  <2>4. \A d \in End : d /= e => behind'[d] = behind[d] /\ lost'[d] = lost[d]
    BY <2>1 DEF Typed
  <2> QED  BY <2>3, <2>4 DEF GapInv
<1>2. ASSUME NEW e \in End, ReadTimeout(e) PROVE GapInv'
  <2>1. /\ UNCHANGED behind
        /\ UNCHANGED lost \/ \E b \in BOOLEAN : lost' = [lost EXCEPT ![e] = @ \/ b]
    BY <1>2, TimeoutEffect
  <2>2. \A d \in End : lost[d] => lost'[d]
    BY <2>1 DEF Typed
  <2> QED  BY <2>1, <2>2 DEF GapInv, Typed
<1>3. CASE UNCHANGED <<lost, behind>>
  BY <1>3 DEF GapInv
<1> QED
  BY <1>1, <1>2, <1>3
  DEF Next, ReceiveTampered, StalledDone, StalledFails, Eof, AppData, AppDataWaits,
      AppDataDone, AppDataCut, NetDown, Tick

\* Taking frames off a stream keeps the order of the ages, and whole frames
\* are taken one by one.
LEMMA LeftStream ==
    ASSUME Typed, NEW e \in End, chan[e] /= <<>>, NEW ch \in [End -> Seq(Frames)], Left(e, ch)
    PROVE  /\ (\A d \in End : Aging(chan[d])) => \A d \in End : Aging(ch[d])
           /\ \A d \in End : d /= e => ch[d] = chan[d]
           /\ Whole(chan[e]) => ch[e] = Tail(chan[e]) /\ Whole(ch[e])
<1>1. PICK rest \in Seq(Frames) :
        /\ \/ rest = Tail(chan[e])
           \/ Head(chan[e]).part /= "all" /\ Tail(chan[e]) /= <<>> /\ rest = Tail(Tail(chan[e]))
        /\ ch = [chan EXCEPT ![e] = rest]
  BY DEF Left
<1>2. chan[e] \in Seq(Frames) /\ Tail(chan[e]) \in Seq(Frames)
  BY StreamTail DEF Typed
<1>3. Aging(chan[e]) => Aging(rest)
  <2>1. Aging(chan[e]) => Aging(Tail(chan[e]))
    BY <1>2, StreamTail
  <2>2. Tail(chan[e]) /= <<>> => (Aging(Tail(chan[e])) => Aging(Tail(Tail(chan[e]))))
    BY <1>2, StreamTail
  <2> QED  BY <1>1, <2>1, <2>2
<1>4. Whole(chan[e]) => rest = Tail(chan[e]) /\ Whole(rest)
  BY <1>1, <1>2, StreamTail
<1>5. ch[e] = rest /\ \A d \in End : d /= e => ch[d] = chan[d]
  BY <1>1 DEF Typed
<1> QED  BY <1>3, <1>4, <1>5

\* Frames are read in the order in which they were written.
LEMMA AgeStep ==
    ASSUME Typed, AgeInv, Next
    PROVE  AgeInv'
<1>0. /\ "all" \in Part /\ "head" \in Part
      /\ chan \in [End -> Seq(Frames)] /\ \A d \in End : Aging(chan[d])
  BY DEF Part, Typed, AgeInv
<1>1. ASSUME NEW e \in End, Receive(e) PROVE AgeInv'
  <2>1. PICK ch \in [End -> Seq(Frames)] :
          Left(e, ch) /\ (chan' = ch \/ chan' = Put(ch, e, "pong", "all"))
    BY <1>1, ReceiveEffect DEF Stalled, Wrote
  <2>2. \A d \in End : Aging(ch[d])
    BY <1>0, <1>1, <2>1, ReceiveEffect, LeftStream
  <2>3. \A d \in End : Aging(Put(ch, e, "pong", "all")[d])
    BY <1>0, <2>2, PutStream
  <2> QED  BY <2>1, <2>2, <2>3 DEF AgeInv
<1>2. ASSUME NEW e \in End, ReadTimeout(e) PROVE AgeInv'
  <2>1. CASE UNCHANGED chan
    BY <1>0, <2>1 DEF AgeInv
  <2>2. CASE ~UNCHANGED chan
    <3>1. PICK ch \in [End -> Seq(Frames)] :
            /\ ch = chan \/ ch = [chan EXCEPT ![e] = <<>>]
            /\ chan' = ch \/ chan' = Put(ch, e, "ping", "all")
      BY <1>2, <2>2, TimeoutEffect DEF Stalled, Wrote
    <3>2. \A d \in End : Aging(ch[d])
      BY <1>0, <3>1, EmptyStream
    <3>3. \A d \in End : Aging(Put(ch, e, "ping", "all")[d])
      BY <1>0, <3>2, PutStream
    <3> QED  BY <3>1, <3>2, <3>3 DEF AgeInv
  <2> QED  BY <2>1, <2>2
<1>3. ASSUME NEW e \in End, StalledDone(e) PROVE AgeInv'
  <2>1. writing[e] \in {"ping", "pong", "data"} /\ chan' = Put(chan, e, writing[e], "all")
    BY <1>3 DEF Typed, StalledDone
  <2> QED  BY <1>0, <2>1, PutStream DEF AgeInv
<1>4. ASSUME NEW e \in End, StalledFails(e) PROVE AgeInv'
  <2>1. writing[e] \in {"ping", "pong", "data"} /\ chan' = Put(chan, e, writing[e], "head")
    BY <1>4 DEF Typed, StalledFails
  <2> QED  BY <1>0, <2>1, PutStream DEF AgeInv
<1>5. ASSUME NEW e \in End, AppData(e) \/ AppDataDone(e) PROVE AgeInv'
  <2>1. chan' = Put(chan, e, "data", "all")
    BY <1>5 DEF AppData, AppDataDone
  <2> QED  BY <1>0, <2>1, PutStream DEF AgeInv
<1>6. ASSUME NEW e \in End, AppDataCut(e) PROVE AgeInv'
  <2>1. PICK part \in Part : chan' = Put(chan, e, "data", part)
    BY <1>6 DEF AppDataCut
  <2> QED  BY <1>0, <2>1, PutStream DEF AgeInv
<1>7. CASE NetDown
  BY <1>7, EmptyStream DEF NetDown, AgeInv
<1>8. CASE Tick
  <2>1. \A e \in End : chan'[e] = Older(chan[e])
    BY <1>8 DEF Tick, Older
  <2>2. \A e \in End : Aging(Older(chan[e]))
    BY <1>0, StreamOlder
  <2> QED  BY <2>1, <2>2 DEF AgeInv
<1>9. CASE UNCHANGED chan
  BY <1>0, <1>9 DEF AgeInv
<1> QED
  BY <1>1, <1>2, <1>3, <1>4, <1>5, <1>6, <1>7, <1>8, <1>9
  DEF Next, ReceiveTampered, Eof, AppDataWaits

\* What has gone wrong stays on record.
LEMMA ClearStep ==
    ASSUME Typed, Next
    PROVE  /\ (Clear' => Clear) /\ (net = "down" => net' = "down")
           /\ stalls \in Nat /\ stalls' \in Nat /\ (stalls > 0 => stalls' > 0)
<1>0. stalls \in Nat /\ net \in {"up", "down"}
  BY LinkAssumption DEF Typed
<1>1. Stall => stalls' \in Nat /\ (stalls > 0 => stalls' > 0) /\ (stalls' = 0 => stalls = 0)
  BY <1>0, StallStep, LinkAssumption
<1>2. ASSUME NEW e \in End, Receive(e) PROVE UNCHANGED net /\ (UNCHANGED stalls \/ Stall)
  BY <1>2, ReceiveEffect DEF Stalled, Wrote
<1>3. ASSUME NEW e \in End, ReadTimeout(e) PROVE UNCHANGED net /\ (UNCHANGED stalls \/ Stall)
  BY <1>3, TimeoutEffect DEF Stalled, Wrote
<1>4. (UNCHANGED net /\ (UNCHANGED stalls \/ Stall)) \/ (NetDown /\ UNCHANGED stalls)
  BY <1>2, <1>3
  DEF Next, ReceiveTampered, StalledDone, StalledFails, Eof, AppData, AppDataWaits,
      AppDataDone, AppDataCut, NetDown, Tick
<1> QED  BY <1>0, <1>1, <1>4 DEF Clear, NetDown

\* While nothing has gone wrong no write stalls: a step that stalls one leaves
\* that state.
LEMMA StallNotClear ==
    ASSUME Typed, Stall
    PROVE  stalls' > 0 \/ net = "down"
BY StallStep

\* As long as nothing has gone wrong, nothing is cut.
LEMMA WholeStep ==
    ASSUME Typed, AgeInv, WholeInv, Next
    PROVE  WholeInv'
<1> SUFFICES ASSUME Clear'
             PROVE  \A e \in End : writing'[e] = "no" /\ ahead'[e] = 0 /\ Whole(chan'[e])
  BY DEF WholeInv
<1>0. /\ "all" \in Part /\ chan \in [End -> Seq(Frames)]
      /\ Clear /\ ~Stall
  BY ClearStep, StallNotClear, LinkAssumption DEF Part, Typed, Clear
<1>a. \A d \in End : writing[d] = "no" /\ ahead[d] = 0 /\ Whole(chan[d])
  BY <1>0 DEF WholeInv
<1> DEFINE Fine == \A d \in End : writing'[d] = "no" /\ ahead'[d] = 0 /\ Whole(chan'[d])
<1>1. ASSUME NEW e \in End, Receive(e) PROVE Fine
  <2>1. PICK ch \in [End -> Seq(Frames)] :
          /\ Left(e, ch) /\ (chan' = ch \/ chan' = Put(ch, e, "pong", "all"))
          /\ UNCHANGED <<writing, ahead>>
    BY <1>0, <1>1, <1>a, ReceiveEffect DEF Stalled, Wrote
  <2>2. chan[e] /= <<>> /\ Whole(chan[e])
    BY <1>1, <1>a, ReceiveEffect
  <2>3. \A d \in End : Whole(ch[d])
    BY <1>a, <2>1, <2>2, LeftStream
  <2>4. \A d \in End : Whole(Put(ch, e, "pong", "all")[d])
    BY <1>0, <2>3, PutStream
  <2> QED  BY <1>a, <2>1, <2>3, <2>4
<1>2. ASSUME NEW e \in End, ReadTimeout(e) PROVE Fine
  <2>1. CASE waiting[e]
    <3>1. /\ UNCHANGED chan /\ writing' = [writing EXCEPT ![e] = "no"]
          /\ ahead' = [ahead EXCEPT ![e] = 0]
      BY <1>2, <2>1, TimeoutEffect DEF Return
    <3> QED  BY <1>a, <3>1 DEF Typed
  <2>2. CASE ~waiting[e]
    <3>1. PICK ch \in [End -> Seq(Frames)] :
            /\ ch = chan \/ ch = [chan EXCEPT ![e] = <<>>]
            /\ chan' = Put(ch, e, "ping", "all") /\ UNCHANGED <<writing, ahead>>
      BY <1>0, <1>2, <1>a, <2>2, TimeoutEffect DEF Stalled, Wrote
    <3>2. \A d \in End : Whole(ch[d])
      BY <1>0, <1>a, <3>1, EmptyStream
    <3>3. \A d \in End : Whole(Put(ch, e, "ping", "all")[d])
      BY <1>0, <3>2, PutStream
    <3> QED  BY <1>a, <3>1, <3>3
  <2> QED  BY <2>1, <2>2
<1>3. ASSUME NEW e \in End, \/ StalledDone(e) \/ StalledFails(e)
                             \/ AppDataWaits(e) \/ AppDataDone(e) \/ AppDataCut(e)
      PROVE  FALSE
  BY <1>0, <1>3, <1>a
  DEF StalledDone, StalledFails, AppDataWaits, AppDataDone, AppDataCut, Blocked
<1>4. ASSUME NEW e \in End, AppData(e) PROVE Fine
  <2>1. \A d \in End : Whole(Put(chan, e, "data", "all")[d])
    BY <1>0, <1>a, PutStream
  <2> QED  BY <1>4, <1>a, <2>1 DEF AppData, idlerVars, writeVars
<1>5. ASSUME NEW e \in End, ReceiveTampered(e) \/ Eof(e) PROVE Fine
  BY <1>5, <1>a DEF ReceiveTampered, Eof, Return, Typed
<1>6. CASE NetDown
  BY <1>6 DEF NetDown, Clear
<1>7. CASE Tick
  <2>1. \A e \in End : chan'[e] = Older(chan[e]) /\ UNCHANGED <<writing, ahead>>
    BY <1>7 DEF Tick, Older
  <2>2. \A e \in End : Whole(Older(chan[e]))
    BY <1>0, <1>a, StreamOlder DEF AgeInv
  <2> QED  BY <1>a, <2>1, <2>2
<1> QED
  BY <1>1, <1>2, <1>3, <1>4, <1>5, <1>6, <1>7 DEF Next

\* Relays are in line only where a write has stalled.
LEMMA FrontStep ==
    ASSUME Typed, StallInv, Next
    PROVE  \A d \in End : ahead'[d] > 0 => stalls' > 0 \/ net' = "down"
<1>0. /\ ahead \in [End -> Nat] /\ (Stall => stalls' > 0 \/ net = "down")
      /\ (stalls > 0 \/ net = "down" => stalls' > 0 \/ net' = "down")
  BY StallNotClear, ClearStep DEF Typed
<1>1. \A d \in End : ahead[d] > 0 \/ writing[d] /= "no" => stalls > 0 \/ net = "down"
  BY DEF StallInv, Typed
<1>2. ASSUME NEW e \in End, NEW n, n > 0 => stalls' > 0 \/ net' = "down",
             ahead' = [ahead EXCEPT ![e] = n]
      PROVE  \A d \in End : ahead'[d] > 0 => stalls' > 0 \/ net' = "down"
  <2>1. \A d \in End : ahead'[d] = IF d = e THEN n ELSE ahead[d]
    BY <1>0, <1>2
  <2> QED  BY <1>0, <1>1, <1>2, <2>1
<1>3. ASSUME NEW e \in End, NEW why, Return(e, why)
      PROVE  \A d \in End : ahead'[d] > 0 => stalls' > 0 \/ net' = "down"
  <2>1. ahead' = [ahead EXCEPT ![e] = 0] /\ ~(0 > 0)
    BY <1>3 DEF Return
  <2> QED  BY <1>2, <2>1
<1>4. CASE UNCHANGED ahead
  BY <1>0, <1>1, <1>4
<1>5. ASSUME NEW e \in End, StalledDone(e)
      PROVE  \A d \in End : ahead'[d] > 0 => stalls' > 0 \/ net' = "down"
  BY <1>0, <1>1, <1>2, <1>5 DEF StalledDone
<1>6. ASSUME NEW e \in End, AppDataWaits(e)
      PROVE  \A d \in End : ahead'[d] > 0 => stalls' > 0 \/ net' = "down"
  <2>1. stalls' > 0 \/ net' = "down"
    BY <1>0, <1>1, <1>6 DEF AppDataWaits, Blocked
  <2> QED  BY <2>1
<1>7. ASSUME NEW e \in End, AppDataDone(e) \/ AppDataCut(e)
      PROVE  \A d \in End : ahead'[d] > 0 => stalls' > 0 \/ net' = "down"
  <2>1. stalls' > 0 \/ net' = "down"
    BY <1>0, <1>1, <1>7 DEF AppDataDone, AppDataCut
  <2> QED  BY <2>1
<1>8. ASSUME NEW e \in End, Receive(e) PROVE UNCHANGED ahead
  BY <1>8 DEF Receive
<1>9. ASSUME NEW e \in End, ReadTimeout(e) PROVE UNCHANGED ahead \/ Return(e, "unresponsive")
  BY <1>9 DEF ReadTimeout
<1> QED
  BY <1>3, <1>4, <1>5, <1>6, <1>7, <1>8, <1>9
  DEF Next, ReceiveTampered, StalledFails, Eof, AppData, NetDown, Tick, writeVars

\* Where a stalled write comes from.
LEMMA StallInvStep ==
    ASSUME Typed, StallInv, Next
    PROVE  StallInv'
<1>0. stalls \in Nat /\ net \in {"up", "down"} /\ (Stall => stalls' > 0 \/ net = "down")
  BY StallNotClear, LinkAssumption DEF Typed
<1>a. (stalls > 0 => stalls' > 0) /\ (net = "down" => net' = "down")
  BY ClearStep
<1>b. \A e \in End : /\ writing[e] = "pong" => stalls > 0
                     /\ writing[e] = "ping" => waiting[e] /\ (stalls > 0 \/ net = "down")
                     /\ ahead[e] /= 0 => stalls > 0 \/ net = "down"
  BY DEF StallInv, Typed
<1> DEFINE Down == net' = "down" => \A e \in End : chan'[e] = <<>>
           Mine(e) == /\ writing'[e] = "pong" => stalls' > 0
                      /\ writing'[e] = "ping" => waiting'[e] /\ (stalls' > 0 \/ net' = "down")
<1>c. ASSUME NEW e \in End, writing'[e] = writing[e], waiting[e] => waiting'[e] PROVE Mine(e)
  BY <1>a, <1>b, <1>c
<1>d. ASSUME NEW e \in End, writing'[e] = "no" PROVE Mine(e)
  BY <1>d
<1>e. net = "down" => \A e \in End : chan[e] = <<>>
  BY DEF StallInv
<1> SUFFICES Down /\ \A e \in End : Mine(e)
  BY FrontStep DEF StallInv
<1>1. ASSUME NEW e \in End, Receive(e) PROVE Down /\ \A d \in End : Mine(d)
  <2>1. chan[e] /= <<>> /\ writing[e] = "no" /\ UNCHANGED net
    BY <1>1, ReceiveEffect
  <2>2. net = "up"
    BY <1>0, <1>e, <2>1
  <2>a. /\ \/ writing' = writing
           \/ /\ writing' = [writing EXCEPT ![e] = "pong"]
              /\ Stall \/ (ahead[e] /= 0 /\ UNCHANGED stalls)
        /\ waiting' = waiting \/ waiting' = [waiting EXCEPT ![e] = FALSE]
    BY <1>1, ReceiveEffect DEF Stalled, Wrote
  <2>3. \A d \in End : d /= e => writing'[d] = writing[d] /\ waiting'[d] = waiting[d]
    BY <2>a DEF Typed
  <2>4. writing'[e] = "no" \/ (writing'[e] = "pong" /\ stalls' > 0)
    BY <1>0, <1>b, <2>1, <2>2, <2>a DEF Typed
  <2>5. Mine(e)
    BY <2>4
  <2>6. \A d \in End : d /= e => Mine(d)
    BY <1>c, <2>3
  <2> QED  BY <2>1, <2>2, <2>5, <2>6
<1>2. ASSUME NEW e \in End, ReadTimeout(e) PROVE Down /\ \A d \in End : Mine(d)
  <2>1. CASE waiting[e]
    <3>1. UNCHANGED <<chan, net, waiting>> /\ Return(e, "unresponsive")
      BY <1>2, <2>1, TimeoutEffect
    <3>2. writing'[e] = "no" /\ \A d \in End : d /= e => writing'[d] = writing[d]
      BY <3>1 DEF Return, Typed
    <3> QED  BY <1>c, <1>d, <1>e, <3>1, <3>2
  <2>2. CASE ~waiting[e]
    <3>1. UNCHANGED net /\ waiting' = [waiting EXCEPT ![e] = TRUE] /\ writing[e] = "no"
      BY <1>2, <2>2, TimeoutEffect
    <3>2. PICK ch \in [End -> Seq(Frames)] :
            /\ ch = chan \/ (chan[e] /= <<>> /\ ch = [chan EXCEPT ![e] = <<>>])
            /\ Wrote(e, "ping", ch) \/ Stalled(e, "ping", ch)
      BY <1>2, <2>2, TimeoutEffect
    <3>3. Down
      <4> SUFFICES ASSUME net = "down" PROVE \A d \in End : chan'[d] = <<>>
        BY <3>1
      <4>1. ch = chan
        BY <1>e, <3>2
      <4>2. chan' = chan
        BY <3>2, <4>1 DEF Wrote, Stalled, Put
      <4> QED  BY <1>e, <4>2
    <3>4. \A d \in End : d /= e => writing'[d] = writing[d] /\ waiting'[d] = waiting[d]
      BY <3>1, <3>2 DEF Stalled, Wrote, Typed
    <3>5. /\ waiting'[e]
          /\ \/ writing'[e] = "no"
             \/ writing'[e] = "ping" /\ (Stall \/ (ahead[e] /= 0 /\ UNCHANGED stalls))
      BY <3>1, <3>2 DEF Stalled, Wrote, Typed
    <3>6. Mine(e)
      BY <1>0, <1>b, <3>1, <3>5
    <3> QED  BY <1>c, <3>3, <3>4, <3>6
  <2> QED  BY <2>1, <2>2
<1>3. ASSUME NEW e \in End, StalledDone(e) PROVE Down /\ \A d \in End : Mine(d)
  <2>1. /\ chan' = Put(chan, e, writing[e], "all") /\ UNCHANGED <<net, waiting>>
        /\ writing'[e] = "no" /\ \A d \in End : d /= e => writing'[d] = writing[d]
    BY <1>3 DEF StalledDone, Typed
  <2> QED  BY <1>c, <1>d, <1>e, <2>1 DEF Put
<1>4. ASSUME NEW e \in End, StalledFails(e) PROVE Down /\ \A d \in End : Mine(d)
  <2>1. /\ chan' = Put(chan, e, writing[e], "head") /\ UNCHANGED <<net, waiting>>
        /\ writing'[e] = "no" /\ \A d \in End : d /= e => writing'[d] = writing[d]
    BY <1>4 DEF StalledFails, Return, Typed
  <2> QED  BY <1>c, <1>d, <1>e, <2>1 DEF Put
<1>5. ASSUME NEW e \in End, ReceiveTampered(e) \/ Eof(e) PROVE Down /\ \A d \in End : Mine(d)
  <2>1. /\ UNCHANGED <<chan, net, waiting>>
        /\ writing'[e] = "no" /\ \A d \in End : d /= e => writing'[d] = writing[d]
    BY <1>5 DEF ReceiveTampered, Eof, Return, Typed
  <2> QED  BY <1>c, <1>d, <1>e, <2>1
<1>6. ASSUME NEW e \in End, AppData(e) \/ AppDataWaits(e) \/ AppDataDone(e)
      PROVE  Down /\ \A d \in End : Mine(d)
  <2>1. /\ chan' = Put(chan, e, "data", "all") \/ UNCHANGED chan
        /\ UNCHANGED <<net, waiting, writing>>
    BY <1>6 DEF AppData, AppDataWaits, AppDataDone, idlerVars
  <2> QED  BY <1>c, <1>e, <2>1 DEF Put
<1>7. ASSUME NEW e \in End, AppDataCut(e) PROVE Down /\ \A d \in End : Mine(d)
  <2>1. PICK part \in Part : chan' = Put(chan, e, "data", part)
    BY <1>7 DEF AppDataCut
  <2>2. /\ UNCHANGED <<net, waiting>>
        /\ UNCHANGED writing \/ writing' = [writing EXCEPT ![e] = "no"]
    BY <1>7 DEF AppDataCut, Return
  <2>3. \A d \in End : writing'[d] = writing[d] \/ writing'[d] = "no"
    BY <2>2 DEF Typed
  <2>4. Down
    BY <1>e, <2>1, <2>2 DEF Put
  <2> QED  BY <1>c, <1>d, <2>2, <2>3, <2>4
<1>8. CASE NetDown
  <2>1. \A d \in End : chan'[d] = <<>> /\ writing'[d] = writing[d] /\ waiting'[d] = waiting[d]
    BY <1>8 DEF NetDown, idlerVars
  <2> QED  BY <1>c, <2>1
<1>9. CASE Tick
  <2>1. /\ \A d \in End : chan'[d] = Older(chan[d])
        /\ UNCHANGED <<net, waiting, writing>>
    BY <1>9 DEF Tick, Older
  <2>2. Older(<<>>) = <<>>
    BY EmptyStream, StreamOlder
  <2> QED  BY <1>c, <1>e, <2>1, <2>2
<1> QED  BY <1>1, <1>2, <1>3, <1>4, <1>5, <1>6, <1>7, <1>8, <1>9 DEF Next

\* One more relay is one more timeout.
LEMMA MovedUp ==
    ASSUME NEW n \in Nat
    PROVE  /\ Moved(n) \in Nat /\ WriteTmo <= Moved(n) /\ Moved(n + 1) = Moved(n) + WriteTmo
           /\ \A m \in Nat : n <= m => Moved(n) <= Moved(m)
<1>1. WriteTmo \in Nat
  BY LinkAssumption
<1>2. ASSUME NEW a \in Nat, NEW b \in Nat, NEW w \in Nat, a <= b PROVE a * w <= b * w
  <2>1. PICK k \in Nat : b = a + k
    <3>1. b - a \in Nat /\ b = a + (b - a)
      BY <1>2
    <3> QED  BY <3>1
  <2>2. k * w \in Nat /\ b * w = a * w + k * w /\ a * w \in Nat
    BY <2>1
  <2> QED  BY <2>2
<1>3. Moved(n) \in Nat /\ Moved(n + 1) = Moved(n) + WriteTmo
  BY <1>1 DEF Moved
<1>4. \A m \in Nat : n <= m => Moved(n) <= Moved(m)
  BY <1>1, <1>2 DEF Moved
<1>5. WriteTmo <= Moved(n)
  <2>1. 1 * WriteTmo <= (1 + n) * WriteTmo
    BY <1>1, <1>2
  <2> QED  BY <1>1, <2>1 DEF Moved
<1> QED  BY <1>3, <1>4, <1>5

\* The times are numbers.
LEMMA Times ==
    ASSUME Typed, NEW e \in End
    PROVE  /\ silent[e] \in Nat /\ timer[e] \in Nat /\ interval[e] \in Nat /\ wtimer[e] \in Nat
           /\ wtimer[e] <= WriteTmo /\ Tmo \in Nat /\ WriteTmo \in Nat
           /\ Longest \in Nat /\ Slack \in Nat /\ Slack <= Longest
<1>1. /\ silent[e] \in Nat /\ timer[e] \in Nat /\ interval[e] \in Nat /\ wtimer[e] \in Nat
      /\ wtimer[e] <= WriteTmo /\ Tmo \in Nat /\ WriteTmo \in Nat
  BY LinkAssumption DEF Typed
<1>2. Longest \in Nat
  BY MovedUp, LinkAssumption DEF Longest
<1> QED  BY <1>1, <1>2 DEF Slack

\* A stalled write takes its time, and that of every relay that comes meanwhile;
\* the timers count down what is left.
LEMMA SilentStep ==
    ASSUME Typed, RoomInv, StallInv, SilentInv, Next, Typed'
    PROVE  SilentInv'
<1>0. Tmo \in Nat /\ WriteTmo \in Nat /\ Longest \in Nat /\ Longest' = Longest
  BY LinkAssumption, MovedUp DEF Longest, Moved
<1>a. Slack \in Nat /\ Slack <= Longest /\ Slack' \in Nat /\ Slack <= Slack'
  <2>1. (stalls > 0 \/ net = "down") => (stalls > 0 \/ net = "down")'
    BY ClearStep
  <2> QED  BY <1>0, <2>1 DEF Slack
<1>m. \A d \in End : /\ Moved(rear[d]) \in Nat /\ WriteTmo <= Moved(rear[d])
                     /\ Moved(rear[d]) <= Longest
  <2> SUFFICES ASSUME NEW d \in End
               PROVE  /\ Moved(rear[d]) \in Nat /\ WriteTmo <= Moved(rear[d])
                      /\ Moved(rear[d]) <= Longest
    OBVIOUS
  <2>1. rear[d] \in Nat /\ rear[d] <= Relays /\ Relays \in Nat
    <3>1. ahead[d] \in Nat /\ rear[d] \in Nat /\ ahead[d] + rear[d] <= Relays /\ Relays \in Nat
      BY LinkAssumption DEF Typed, RoomInv
    <3> QED  BY <3>1
  <2> QED  BY <2>1, MovedUp DEF Longest
<1>b. \A e \in End : Lasts(e)
  BY DEF SilentInv
<1>c. SUFFICES \A e \in End : Lasts(e)'
  BY <1>c DEF SilentInv
\* An end whose line behind Listen does not change, in a step that lets time
\* pass or not.
<1>d. ASSUME NEW e \in End, ended'[e] = ended[e], writing'[e] = writing[e],
             waiting'[e] = waiting[e], interval'[e] = interval[e], rear'[e] = rear[e],
             \/ silent'[e] = silent[e] /\ timer'[e] = timer[e] /\ wtimer'[e] = wtimer[e]
             \/ writing[e] = "no" /\ silent'[e] = silent[e] + 1 /\ timer'[e] = timer[e] - 1
             \/ writing[e] = "no" /\ silent'[e] = silent[e] /\ timer'[e] = timer[e]
             \/ writing[e] /= "no" /\ silent'[e] = silent[e] + 1 /\ wtimer'[e] = wtimer[e] - 1
      PROVE  Lasts(e)'
  <2> DEFINE t == silent[e] + timer[e]
             u == silent[e] + wtimer[e]
  <2>1. /\ t \in Nat /\ u \in Nat /\ interval[e] \in Nat
        /\ writing[e] = "no" => silent'[e] + timer'[e] = t
        /\ writing[e] /= "no" => silent'[e] + wtimer'[e] = u
    BY <1>d, Times
  <2> HIDE DEF t, u
  <2>2. Lasts(e)
    BY <1>b
  <2>3. Moved(rear'[e]) = Moved(rear[e])
    BY <1>d
  <2>4. Running(e)' <=> Running(e)
    BY <1>d DEF Running
  <2>5. Running(e) =>
          /\ writing[e] = "no" /\ ~waiting[e] => t <= interval[e]
          /\ writing[e] = "no" /\ waiting[e] => t <= interval[e] + Tmo + Slack
          /\ writing[e] = "ping" => u <= interval[e] + Moved(rear[e])
          /\ writing[e] = "pong" => u <= interval[e] + Tmo + Longest + Moved(rear[e])
    BY <2>2 DEF Lasts, t, u
  <2>6. t <= interval[e] + Tmo + Slack => t <= interval[e] + Tmo + Slack'
    BY <1>0, <1>a, <2>1
  <2>7. Running(e)' =>
          /\ writing'[e] = "no" /\ ~waiting'[e] => silent'[e] + timer'[e] <= interval'[e]
          /\ writing'[e] = "no" /\ waiting'[e] =>
               silent'[e] + timer'[e] <= interval'[e] + Tmo + Slack'
          /\ writing'[e] = "ping" => silent'[e] + wtimer'[e] <= interval'[e] + Moved(rear'[e])
          /\ writing'[e] = "pong" =>
               silent'[e] + wtimer'[e] <= interval'[e] + Tmo + Longest + Moved(rear'[e])
    BY <1>d, <2>1, <2>3, <2>4, <2>5, <2>6
  <2> QED  BY <1>0, <2>7 DEF Lasts, Moved
<1>e. ASSUME NEW e \in End, ~Running(e)' PROVE Lasts(e)'
  BY <1>e DEF Lasts
<1>f. ASSUME NEW e \in End, silent'[e] = 0, writing'[e] = "no", interval'[e] = interval[e],
             timer'[e] = IF waiting'[e] THEN Tmo ELSE interval[e]
      PROVE  Lasts(e)'
  <2>1. interval[e] \in Nat
    BY Times
  <2> QED  BY <1>0, <1>a, <1>f, <2>1 DEF Lasts
<1>1. ASSUME NEW e \in End, Receive(e) PROVE \A d \in End : Lasts(d)'
  <2>1. /\ Running(e) /\ writing[e] = "no" /\ UNCHANGED <<interval, ended, rear>>
        /\ waiting' = waiting \/ waiting' = [waiting EXCEPT ![e] = FALSE]
    BY <1>1, ReceiveEffect
  <2>2. \/ /\ silent' = [silent EXCEPT ![e] = 0] /\ UNCHANGED <<writing, wtimer>>
           /\ timer' = [timer EXCEPT ![e] = IF waiting'[e] THEN Tmo ELSE interval[e]]
        \/ /\ UNCHANGED silent /\ writing' = [writing EXCEPT ![e] = "pong"]
           /\ wtimer' = [wtimer EXCEPT ![e] = WriteTmo] /\ UNCHANGED timer
    BY <1>1, ReceiveEffect DEF Stalled, Wrote, Update
  <2>3. ASSUME NEW d \in End, d /= e PROVE Lasts(d)'
    <3>1. /\ writing'[d] = writing[d] /\ waiting'[d] = waiting[d] /\ silent'[d] = silent[d]
          /\ timer'[d] = timer[d] /\ wtimer'[d] = wtimer[d]
      BY <2>1, <2>2, <2>3 DEF Typed
    <3> QED  BY <1>d, <2>1, <3>1
  <2>4. Lasts(e)'
    <3>1. CASE UNCHANGED writing
      <4>1. writing'[e] = "no"
        BY <2>1, <3>1
      <4>2. silent'[e] = 0 /\ timer'[e] = IF waiting'[e] THEN Tmo ELSE interval[e]
        BY <2>1, <2>2, <4>1 DEF Typed
      <4> QED  BY <1>f, <2>1, <4>1, <4>2
    <3>2. CASE writing' = [writing EXCEPT ![e] = "pong"]
      <4>1. writing'[e] = "pong" /\ silent'[e] = silent[e] /\ wtimer'[e] = WriteTmo
        BY <2>1, <2>2, <3>2 DEF Typed
      <4>2. silent[e] + timer[e] <= interval[e] + Tmo + Longest
        <5>1. Lasts(e)
          BY <1>b
        <5>2. CASE waiting[e]
          <6>1. silent[e] + timer[e] <= interval[e] + Tmo + Slack
            BY <2>1, <5>1, <5>2 DEF Lasts
          <6> QED  BY <1>0, <1>a, <6>1, Times
        <5>3. CASE ~waiting[e]
          <6>1. silent[e] + timer[e] <= interval[e]
            BY <2>1, <5>1, <5>3 DEF Lasts
          <6> QED  BY <1>0, <6>1, Times
        <5> QED  BY <5>2, <5>3
      <4>3. silent[e] + WriteTmo <= interval[e] + Tmo + Longest + Moved(rear[e])
        BY <1>0, <1>m, <4>2, Times
      <4>4. silent'[e] + wtimer'[e] <= interval'[e] + Tmo + Longest + Moved(rear'[e])
        BY <2>1, <4>1, <4>3
      <4> QED  BY <1>0, <4>1, <4>4 DEF Lasts, Moved
    <3> QED  BY <2>2, <3>1, <3>2
  <2> QED  BY <2>3, <2>4
<1>2. ASSUME NEW e \in End, ReadTimeout(e) PROVE \A d \in End : Lasts(d)'
  <2>1. /\ Running(e) /\ writing[e] = "no" /\ timer[e] = 0 /\ UNCHANGED <<interval, silent>>
    BY <1>2, TimeoutEffect
  <2>2. CASE waiting[e]
    <3>1. Return(e, "unresponsive") /\ UNCHANGED <<waiting, timer, wtimer>>
      BY <1>2, <2>2, TimeoutEffect
    <3>2. ~Running(e)'
      BY <3>1 DEF Return, Running, Typed
    <3>3. \A d \in End : d /= e => /\ ended'[d] = ended[d] /\ writing'[d] = writing[d]
                                   /\ rear'[d] = rear[d]
      BY <3>1 DEF Return, Typed
    <3> QED  BY <1>d, <1>e, <2>1, <3>1, <3>2, <3>3
  <2>3. CASE ~waiting[e]
    <3>1. /\ waiting' = [waiting EXCEPT ![e] = TRUE] /\ UNCHANGED <<ended, rear>>
          /\ \/ /\ timer' = [timer EXCEPT ![e] = IF waiting'[e] THEN Tmo ELSE interval[e]]
                /\ UNCHANGED <<writing, wtimer>>
             \/ /\ wtimer' = [wtimer EXCEPT ![e] = WriteTmo] /\ UNCHANGED timer
                /\ writing' = [writing EXCEPT ![e] = "ping"]
      BY <1>2, <2>3, TimeoutEffect DEF Wrote, Stalled
    <3>2. \A d \in End : d /= e => /\ waiting'[d] = waiting[d] /\ timer'[d] = timer[d]
                                   /\ writing'[d] = writing[d] /\ wtimer'[d] = wtimer[d]
      BY <3>1 DEF Typed
    <3>3. /\ waiting'[e]
          /\ \/ timer'[e] = Tmo /\ writing'[e] = "no"
             \/ wtimer'[e] = WriteTmo /\ writing'[e] = "ping"
      BY <2>1, <3>1 DEF Typed
    <3>4. silent[e] <= interval[e]
      <4>1. Lasts(e)
        BY <1>b
      <4>2. silent[e] + 0 <= interval[e]
        BY <2>1, <2>3, <4>1 DEF Lasts
      <4> QED  BY <4>2, Times
    <3>5. Lasts(e)'
      <4>1. silent[e] + Tmo <= interval[e] + Tmo + Slack'
        BY <1>0, <1>a, <3>4, Times
      <4>2. silent[e] + WriteTmo <= interval[e] + Moved(rear[e])
        BY <1>0, <1>m, <3>4, Times
      <4>3. /\ writing'[e] = "no" => silent'[e] + timer'[e] <= interval'[e] + Tmo + Slack'
            /\ writing'[e] = "ping" => silent'[e] + wtimer'[e] <= interval'[e] + Moved(rear'[e])
        BY <2>1, <3>1, <3>3, <4>1, <4>2
      <4> QED  BY <1>0, <3>3, <4>3 DEF Lasts, Moved
    <3> QED  BY <1>d, <2>1, <3>1, <3>2, <3>5
  <2> QED  BY <2>2, <2>3
<1>3. ASSUME NEW e \in End, StalledDone(e) PROVE \A d \in End : Lasts(d)'
  <2>1. /\ Running(e) /\ writing[e] \in {"ping", "pong"} /\ wtimer[e] > 0
        /\ rear' = [rear EXCEPT ![e] = 0]
        /\ writing' = [writing EXCEPT ![e] = "no"]
        /\ timer' = [timer EXCEPT ![e] = IF waiting[e] THEN Tmo ELSE interval[e]]
        /\ UNCHANGED <<interval, waiting, wtimer, ended>>
    BY <1>3 DEF StalledDone, newRound, Typed
  <2>2. /\ writing[e] = "pong" => silent' = [silent EXCEPT ![e] = 0]
        /\ writing[e] = "ping" => silent' = silent
    BY <1>3 DEF StalledDone, Update
  <2>3. \A d \in End : d /= e => /\ writing'[d] = writing[d] /\ timer'[d] = timer[d]
                                 /\ silent'[d] = silent[d] /\ rear'[d] = rear[d]
    BY <2>1, <2>2 DEF Typed
  <2>4. writing'[e] = "no" /\ timer'[e] = IF waiting[e] THEN Tmo ELSE interval[e]
    BY <2>1 DEF Typed
  <2>5. Lasts(e)'
    <3>1. CASE writing[e] = "pong"
      <4>1. silent'[e] = 0
        BY <2>2, <3>1 DEF Typed
      <4> QED  BY <1>f, <2>1, <2>4, <4>1
    <3>2. CASE writing[e] = "ping"
      <4>1. waiting[e] /\ Slack = Longest
        BY <3>2 DEF StallInv, Slack
      <4>2. Lasts(e)
        BY <1>b
      <4>3. silent[e] + wtimer[e] <= interval[e] + Moved(rear[e])
        BY <2>1, <3>2, <4>2 DEF Lasts
      <4>4. silent[e] + Tmo <= interval[e] + Tmo + Slack'
        BY <1>0, <1>a, <1>m, <4>1, <4>3, Times
      <4>5. timer'[e] = Tmo /\ silent'[e] = silent[e] /\ waiting'[e]
        BY <2>1, <2>2, <2>4, <3>2, <4>1
      <4> QED  BY <2>1, <2>4, <4>4, <4>5 DEF Lasts
    <3> QED  BY <2>1, <3>1, <3>2
  <2> QED  BY <1>d, <2>1, <2>3, <2>5
<1>4. ASSUME NEW e \in End, StalledFails(e) \/ ReceiveTampered(e) \/ Eof(e)
      PROVE  \A d \in End : Lasts(d)'
  <2>1. /\ Return(e, "write") \/ Return(e, "tampered") \/ Return(e, "eof")
        /\ UNCHANGED <<waiting, timer, wtimer, silent, interval>>
    BY <1>4 DEF StalledFails, ReceiveTampered, Eof
  <2>2. ~Running(e)'
    BY <2>1 DEF Return, Running, Typed
  <2>3. \A d \in End : d /= e => /\ ended'[d] = ended[d] /\ writing'[d] = writing[d]
                                 /\ rear'[d] = rear[d]
    <3>1. /\ ended \in [End -> Outcome] /\ writing \in [End -> {"no", "ping", "pong"}]
          /\ rear \in [End -> Nat]
      BY DEF Typed
    <3>2. PICK why : /\ ended' = [ended EXCEPT ![e] = why]
                     /\ writing' = [writing EXCEPT ![e] = "no"] /\ rear' = [rear EXCEPT ![e] = 0]
      BY <2>1 DEF Return
    <3> QED  BY <3>1, <3>2
  <2> QED  BY <1>d, <1>e, <2>1, <2>2, <2>3
<1>5. ASSUME NEW e \in End, AppDataCut(e) PROVE \A d \in End : Lasts(d)'
  <2>1. /\ UNCHANGED <<ended, writing, rear>> \/ Return(e, "write")
        /\ UNCHANGED <<waiting, timer, wtimer, silent, interval>>
    BY <1>5 DEF AppDataCut
  <2>2. CASE UNCHANGED <<ended, writing, rear>>
    BY <1>d, <2>1, <2>2
  <2>3. CASE Return(e, "write")
    <3>1. ~Running(e)'
      BY <2>3 DEF Return, Running, Typed
    <3>2. \A d \in End : d /= e => /\ ended'[d] = ended[d] /\ writing'[d] = writing[d]
                                   /\ rear'[d] = rear[d]
      BY <2>3 DEF Return, Typed
    <3> QED  BY <1>d, <1>e, <2>1, <3>1, <3>2
  <2> QED  BY <2>1, <2>2, <2>3
<1>6. CASE UNCHANGED <<ended, writing, waiting, interval, silent, timer, rear, wtimer>>
  BY <1>d, <1>6
<1>7. CASE Tick
  <2>1. UNCHANGED <<ended, writing, waiting, interval, rear>>
    BY <1>7 DEF Tick
  <2>2. ASSUME NEW e \in End, Running(e), writing[e] = "no" PROVE Lasts(e)'
    <3>1. silent'[e] = silent[e] + 1 /\ timer'[e] = timer[e] - 1
      BY <1>7, <2>2 DEF Tick
    <3> QED  BY <1>d, <2>1, <2>2, <3>1
  <2>3. ASSUME NEW e \in End, Running(e), writing[e] /= "no" PROVE Lasts(e)'
    <3>1. silent'[e] = silent[e] + 1 /\ wtimer'[e] = wtimer[e] - 1
      BY <1>7, <2>3 DEF Tick, Blocked
    <3> QED  BY <1>d, <2>1, <2>3, <3>1
  <2>4. ASSUME NEW e \in End, ~Running(e) PROVE Lasts(e)'
    BY <1>e, <2>1, <2>4 DEF Running
  <2> QED  BY <2>2, <2>3, <2>4
<1>8. ASSUME NEW e \in End, AppDataWaits(e) PROVE \A d \in End : Lasts(d)'
  <2>1. /\ UNCHANGED <<ended, writing, waiting, interval, silent, timer>>
        /\ wtimer' = [wtimer EXCEPT ![e] = WriteTmo]
        /\ IF writing[e] = "no" THEN UNCHANGED rear ELSE rear' = [rear EXCEPT ![e] = @ + 1]
    BY <1>8 DEF AppDataWaits, SetWriteDeadline, idlerVars
  <2>2. ASSUME NEW d \in End, d /= e PROVE Lasts(d)'
    <3>1. wtimer'[d] = wtimer[d] /\ rear'[d] = rear[d]
      BY <2>1, <2>2 DEF Typed
    <3> QED  BY <1>d, <2>1, <2>2, <3>1
  <2>3. CASE writing[e] = "no"
    BY <1>d, <2>1, <2>2, <2>3
  <2>4. CASE writing[e] /= "no"
    <3>1. wtimer'[e] = WriteTmo /\ rear'[e] = rear[e] + 1 /\ rear[e] \in Nat
      BY <2>1, <2>4 DEF Typed
    <3>2. Moved(rear'[e]) = Moved(rear[e]) + WriteTmo
      BY <3>1, MovedUp
    <3> DEFINE m == Moved(rear[e])
               n == Moved(rear'[e])
    <3>3. m \in Nat /\ n = m + WriteTmo
      BY <1>m, <3>2
    <3> HIDE DEF m, n
    <3>4. Running(e) => /\ writing[e] = "ping" => silent[e] + wtimer[e] <= interval[e] + m
                        /\ writing[e] = "pong" =>
                             silent[e] + wtimer[e] <= interval[e] + Tmo + Longest + m
      BY <1>b DEF Lasts, m
    <3>5. Running(e) => /\ writing[e] = "ping" => silent[e] + WriteTmo <= interval[e] + n
                        /\ writing[e] = "pong" =>
                             silent[e] + WriteTmo <= interval[e] + Tmo + Longest + n
      <4>1. /\ silent[e] \in Nat /\ wtimer[e] \in Nat /\ interval[e] \in Nat
            /\ Tmo \in Nat /\ Longest \in Nat /\ WriteTmo \in Nat
        BY Times
      <4> QED  BY <3>3, <3>4, <4>1
    <3>6. Running(e)' =>
            /\ writing'[e] /= "no"
            /\ writing'[e] = "ping" => silent'[e] + wtimer'[e] <= interval'[e] + n
            /\ writing'[e] = "pong" =>
                 silent'[e] + wtimer'[e] <= interval'[e] + Tmo + Longest + n
      BY <2>1, <2>4, <3>1, <3>5 DEF Running
    <3>7. Lasts(e)'
      BY <1>0, <3>6 DEF Lasts, Moved, n
    <3> QED  BY <2>2, <3>7
  <2> QED  BY <2>3, <2>4
<1> QED
  BY <1>1, <1>2, <1>3, <1>4, <1>5, <1>6, <1>7, <1>8
  DEF Next, AppData, AppDataDone, NetDown, idlerVars, writeVars

\* What a stream has of one age it has of any lower one.
LEMMA Lower ==
    ASSUME NEW s \in Seq(Frames), NEW n \in Int
    PROVE  /\ \A a : \A m \in Int : Has(s, a, m) /\ (n <= m \/ n <= 0) => Has(s, a, n)
           /\ n <= 0 => AllOld(s, n)
           /\ \A a : Has(s, a, n) => s /= <<>> /\ n <= D
<1>1. Len(s) \in Nat /\ \A k \in 1..Len(s) : s[k].age \in Nat /\ s[k].age <= D
  <2>1. Len(s) \in Nat /\ \A k \in 1..Len(s) : s[k] \in Frames
    BY ElementOfSeq, LenProperties
  <2> QED  BY <2>1, LinkAssumption DEF Frames
<1>2. ASSUME NEW a, NEW m \in Int, Has(s, a, m), n <= m \/ n <= 0
      PROVE  Has(s, a, n)
  BY <1>1, <1>2 DEF Has
<1>3. n <= 0 => AllOld(s, n)
  BY <1>1 DEF AllOld
<1>4. ASSUME NEW a, Has(s, a, n)
      PROVE  s /= <<>> /\ n <= D
  <2>1. PICK k \in 1..Len(s) : s[k].age >= n
    BY <1>4 DEF Has
  <2>2. n <= D
    BY <1>1, <2>1, LinkAssumption
  <2>3. Len(s) /= 0
    BY <1>1, <2>1
  <2> QED  BY <2>2, <2>3, EmptySeq
<1> QED  BY <1>2, <1>3, <1>4

\* While nothing has gone wrong, an end that waits still has time left.
Answered(e) == Running(e) /\ waiting[e] => Pinged(e) \/ Ponged(e) \/ Ending(e)

LEMMA TimeLeft ==
    ASSUME Typed, NEW e \in End, Pinged(e) \/ Ponged(e) \/ Ending(e)
    PROVE  timer[e] > 0 /\ (Pinged(e) => timer[e] >= Tmo - D)
<1>1. timer[e] \in Nat /\ Tmo \in Nat /\ D \in Nat /\ 2 * D < Tmo
  BY Times, LinkAssumption
<1>2. chan[e] \in Seq(Frames) /\ chan[Peer(e)] \in Seq(Frames)
  BY PeerEnd DEF Typed
<1>3. Pinged(e) => Tmo - timer[e] <= D
  BY <1>1, <1>2, Lower DEF Pinged
<1>4. Ponged(e) => Tmo - D - timer[e] <= D
  BY <1>1, <1>2, Lower DEF Ponged
<1>5. Ending(e) => timer[e] > 0
  BY DEF Ending
<1> QED  BY <1>1, <1>3, <1>4, <1>5

\* As long as nothing has gone wrong, every ping is answered in time.
LEMMA AnswerStep ==
    ASSUME Typed, AgeInv, WholeInv, AnswerInv, Next, Typed'
    PROVE  AnswerInv'
<1> SUFFICES ASSUME Clear'
             PROVE  \A e \in End : Answered(e)'
  BY DEF AnswerInv, Answered
<1>0. /\ "all" \in Part /\ chan \in [End -> Seq(Frames)] /\ chan' \in [End -> Seq(Frames)]
      /\ Clear /\ ~Stall /\ net = "up"
      /\ Tmo \in Nat /\ Tmo > 0 /\ D \in Nat /\ 2 * D < Tmo /\ 0 - D <= 0 /\ 0 - D \in Int
  <2>1. Clear /\ net = "up"
    BY ClearStep DEF Clear
  <2>2. ~Stall
    BY StallNotClear, ClearStep DEF Clear
  <2>3. /\ Tmo \in Nat /\ Tmo > 0 /\ D \in Nat /\ 2 * D < Tmo /\ 0 - D <= 0 /\ 0 - D \in Int
    BY LinkAssumption
  <2>4. "all" \in Part /\ chan \in [End -> Seq(Frames)] /\ chan' \in [End -> Seq(Frames)]
    BY DEF Part, Typed
  <2> QED  BY <2>1, <2>2, <2>3, <2>4
<1>a. \A d \in End : writing[d] = "no" /\ ahead[d] = 0 /\ Whole(chan[d]) /\ Answered(d)
  BY <1>0 DEF WholeInv, AnswerInv, Answered
<1>b. \A d \in End : /\ timer[d] \in Nat /\ Tmo - timer[d] \in Int /\ Tmo - D - timer[d] \in Int
  BY <1>0, Times
<1>c. \A d \in End : chan[d] /= <<>> => Readable(d)
  <2> SUFFICES ASSUME NEW d \in End, chan[d] /= <<>> PROVE Readable(d)
    OBVIOUS
  <2>1. Head(chan[d]).part = "all"
    BY <1>0, <1>a, StreamTail
  <2> QED  BY <2>1 DEF Readable
\* An end of which, and of the other end, a step only adds frames.
<1>k. ASSUME NEW d \in End, timer'[d] = timer[d], waiting'[d] = waiting[d],
             ended'[d] = ended[d], ended'[Peer(d)] = ended[Peer(d)],
             \A a, m : Has(chan[d], a, m) => Has(chan'[d], a, m),
             \A a, m : Has(chan[Peer(d)], a, m) => Has(chan'[Peer(d)], a, m),
             Running(Peer(d)) \/ chan'[d] = chan[d]
      PROVE  Answered(d)'
  <2>1. /\ Pinged(d) => Pinged(d)'
    BY <1>k DEF Pinged, Running
  <2>2. /\ Ponged(d) => Ponged(d)'
    BY <1>k DEF Ponged
  <2>3. /\ Ending(d) => Ending(d)'
    BY <1>k DEF Ending, Running
  <2> QED  BY <1>a, <1>k, <2>1, <2>2, <2>3 DEF Answered, Running
<1>p. ASSUME NEW e \in End, NEW ch \in [End -> Seq(Frames)],
             NEW act \in {"ping", "pong", "data"}, chan' = Put(ch, e, act, "all")
      PROVE  /\ chan'[e] = ch[e]
             /\ \A a, m : Has(ch[Peer(e)], a, m) => Has(chan'[Peer(e)], a, m)
             /\ Running(Peer(e)) => \A m : 0 >= m => Has(chan'[Peer(e)], act, m)
             /\ ~Running(Peer(e)) => chan'[Peer(e)] = ch[Peer(e)]
  <2>1. /\ chan'[e] = ch[e]
        /\ chan'[Peer(e)] = IF Running(Peer(e)) THEN Append(ch[Peer(e)], Frame(act, "all"))
                            ELSE ch[Peer(e)]
    <3>1. /\ Put(ch, e, act, "all")[e] = ch[e]
          /\ Put(ch, e, act, "all")[Peer(e)] =
               IF net = "up" /\ Running(Peer(e))
               THEN Append(ch[Peer(e)], Frame(act, "all")) ELSE ch[Peer(e)]
      <4>1. "all" \in Part
        BY <1>0
      <4> QED  BY <4>1, PutStream, ZenonT(40)
    <3> QED  BY <1>0, <1>p, <3>1
  <2>2. /\ Frame(act, "all") \in Frames /\ Frame(act, "all").age = 0
        /\ Frame(act, "all").act = act /\ ch[Peer(e)] \in Seq(Frames)
    BY <1>0, <1>p, FrameType, PeerEnd
  <2>3. /\ \A a, m : Has(ch[Peer(e)], a, m) => Has(Append(ch[Peer(e)], Frame(act, "all")), a, m)
        /\ \A m : 0 >= m => Has(Append(ch[Peer(e)], Frame(act, "all")), act, m)
    BY <2>2, StreamAppend
  <2> QED  BY <2>1, <2>3
<1>1. ASSUME NEW e \in End, Receive(e) PROVE \A d \in End : Answered(d)'
  <2> DEFINE f == Head(chan[e])
             p == Peer(e)
  <2>1. /\ Running(e) /\ chan[e] /= <<>> /\ f \in Frames /\ UNCHANGED ended
        /\ waiting' = IF f.act = "pong" THEN [waiting EXCEPT ![e] = FALSE] ELSE waiting
    BY <1>1, ReceiveEffect
  <2>2. PICK ch \in [End -> Seq(Frames)] :
          /\ Left(e, ch)
          /\ timer' = [timer EXCEPT ![e] = IF waiting'[e] THEN Tmo ELSE interval[e]]
          /\ \/ f.act = "ping" /\ chan' = Put(ch, e, "pong", "all")
             \/ f.act /= "ping" /\ chan' = ch
    BY <1>0, <1>1, <1>a, ReceiveEffect DEF Stalled, Wrote
  <2>3. ch[e] = Tail(chan[e]) /\ p \in End /\ p /= e /\ Peer(p) = e /\ ch[p] = chan[p]
    <3>1. \A d \in End : d /= e => ch[d] = chan[d]
      BY <2>1, <2>2, LeftStream
    <3>2. ch[e] = Tail(chan[e])
      BY <1>a, <2>1, <2>2, LeftStream
    <3> QED  BY <3>1, <3>2, PeerEnd
  <2> HIDE DEF f, p
  <2>4. /\ \A a, m : Has(chan[p], a, m) => Has(chan'[p], a, m)
        /\ chan'[e] = Tail(chan[e])
        /\ f.act = "ping" /\ Running(p) => \A m : 0 >= m => Has(chan'[p], "pong", m)
    BY <1>p, <2>2, <2>3 DEF p
  <2>5. \A a, m : Has(chan[e], a, m) => Has(chan'[e], a, m) \/ (f.act = a /\ f.age >= m)
    BY <1>0, <2>1, <2>4, StreamTail DEF f
  <2>6. /\ timer'[p] = timer[p] /\ waiting'[p] = waiting[p]
        /\ timer'[e] = IF waiting'[e] THEN Tmo ELSE interval[e]
    BY <2>1, <2>2, <2>3 DEF Typed
  <2>7. waiting'[e] => waiting[e] /\ f.act /= "pong"
    BY <2>1, Zenon DEF Typed
  <2>8. Answered(e)'
    <3> SUFFICES ASSUME waiting'[e] PROVE (Pinged(e) \/ Ponged(e) \/ Ending(e))'
      BY DEF Answered
    <3>1. timer'[e] = Tmo /\ (Pinged(e) \/ Ponged(e) \/ Ending(e)) /\ f.act /= "pong"
      BY <1>a, <2>1, <2>6, <2>7 DEF Answered
    <3>2. Tmo - timer'[e] = 0 /\ Tmo - D - timer'[e] = 0 - D /\ timer'[e] > 0
      BY <1>0, <3>1
    <3>3. CASE Pinged(e)
      <4>1. Running(p)' /\ Has(chan'[p], "ping", Tmo - timer[e])
        BY <2>1, <2>4, <3>3 DEF Pinged, p, Running
      <4>2. chan'[p] \in Seq(Frames)
        BY <1>0, <2>3
      <4>3. Has(chan'[p], "ping", 0)
        <5>1. 0 \in Int /\ 0 <= 0 /\ Tmo - timer[e] \in Int
          BY <1>b
        <5> QED  BY <4>1, <4>2, <5>1, Lower
      <4> QED  BY <3>2, <4>1, <4>3 DEF Pinged, p
    <3>4. CASE Ponged(e)
      <4>1. Has(chan'[e], "pong", Tmo - D - timer[e])
        BY <2>5, <3>1, <3>4 DEF Ponged
      <4>2. Has(chan'[e], "pong", 0 - D)
        BY <1>0, <1>b, <4>1, Lower
      <4> QED  BY <3>2, <4>2 DEF Ponged
    <3>5. CASE Ending(e)
      <4>1. AllOld(chan'[e], 0 - D)
        BY <1>0, Lower
      <4> QED  BY <2>1, <3>2, <3>5, <4>1 DEF Ending, Running
    <3> QED  BY <3>1, <3>3, <3>4, <3>5
  <2>9. Answered(p)'
    <3> SUFFICES ASSUME Running(p), waiting[p] PROVE (Pinged(p) \/ Ponged(p) \/ Ending(p))'
      BY <2>1, <2>6 DEF Answered, Running
    <3>1. Pinged(p) \/ Ponged(p)
      BY <1>a, <2>1, <2>3 DEF Answered, Ending
    <3>2. CASE Ponged(p)
      BY <2>4, <2>6, <3>2 DEF Ponged
    <3>3. CASE Pinged(p)
      <4>1. Has(chan[e], "ping", Tmo - timer[p])
        BY <2>3, <3>3 DEF Pinged
      <4>2. CASE Has(chan'[e], "ping", Tmo - timer[p])
        BY <2>1, <2>3, <2>6, <4>2 DEF Pinged, Running
      <4>3. CASE f.act = "ping" /\ f.age >= Tmo - timer[p]
        <5>1. f.age \in Nat /\ f.age <= D
          BY <1>0, <2>1 DEF Frames
        <5>2. 0 >= Tmo - D - timer[p]
          <6>1. PICK t \in Nat : t = timer[p]
            BY <1>b, <2>3
          <6>2. PICK a \in Nat : a = f.age
            BY <5>1
          <6>3. a >= Tmo - t /\ a <= D
            BY <4>3, <5>1, <6>1, <6>2
          <6>4. 0 >= Tmo - D - t
            BY <1>0, <6>3
          <6> QED  BY <6>1, <6>4
        <5> QED  BY <2>4, <2>6, <4>3, <5>2 DEF Ponged
      <4> QED  BY <2>5, <4>1, <4>2, <4>3
    <3> QED  BY <3>1, <3>2, <3>3
  <2> QED  BY <2>8, <2>9, PeerEnd DEF p
<1>2. ASSUME NEW e \in End, ReadTimeout(e) PROVE ~waiting[e] /\ \A d \in End : Answered(d)'
  <2> DEFINE p == Peer(e)
  <2>1. Running(e) /\ timer[e] = 0
    BY <1>2, TimeoutEffect
  <2>2. ~waiting[e]
    BY <1>a, <2>1, TimeLeft DEF Answered
  <2>3. waiting' = [waiting EXCEPT ![e] = TRUE] /\ UNCHANGED ended
    BY <1>2, <2>2, TimeoutEffect
  <2>4. /\ chan' = Put(chan, e, "ping", "all")
        /\ timer' = [timer EXCEPT ![e] = IF waiting'[e] THEN Tmo ELSE interval[e]]
    BY <1>0, <1>2, <1>a, <1>c, <2>2, TimeoutEffect DEF Stalled, Wrote
  <2>5. p \in End /\ p /= e /\ Peer(p) = e
    BY PeerEnd
  <2> HIDE DEF p
  <2>6. /\ waiting'[e] /\ timer'[e] = Tmo /\ timer'[p] = timer[p] /\ waiting'[p] = waiting[p]
    BY <2>3, <2>4, <2>5 DEF Typed
  <2>7. /\ chan'[e] = chan[e] /\ \A a, m : Has(chan[p], a, m) => Has(chan'[p], a, m)
        /\ Running(p) => Has(chan'[p], "ping", 0)
    <3>1. 0 >= 0
      OBVIOUS
    <3> QED  BY <1>0, <1>p, <2>4, <3>1 DEF p
  <2>8. Answered(p)'
    BY <1>k, <2>1, <2>3, <2>5, <2>6, <2>7
  <2>9. Answered(e)'
    <3>1. Tmo - timer'[e] = 0 /\ Tmo - D - timer'[e] = 0 - D /\ timer'[e] > 0
      BY <1>0, <2>6
    <3>2. CASE Running(p)
      <4>1. Pinged(e)'
        BY <2>3, <2>7, <3>1, <3>2 DEF Pinged, p, Running
      <4> QED  BY <4>1 DEF Answered
    <3>3. CASE ~Running(p)
      <4>1. AllOld(chan'[e], 0 - D)
        BY <1>0, Lower
      <4>2. Ending(e)'
        BY <2>3, <3>1, <3>3, <4>1 DEF Ending, p, Running
      <4> QED  BY <4>2 DEF Answered
    <3> QED  BY <3>2, <3>3
  <2> QED  BY <2>2, <2>8, <2>9, PeerEnd DEF p
<1>3. ASSUME NEW e \in End, \/ StalledDone(e) \/ StalledFails(e)
                             \/ AppDataWaits(e) \/ AppDataDone(e) \/ AppDataCut(e)
      PROVE  FALSE
  BY <1>0, <1>3, <1>a
  DEF StalledDone, StalledFails, AppDataWaits, AppDataDone, AppDataCut, Blocked
<1>4. ASSUME NEW e \in End, AppData(e) PROVE \A d \in End : Answered(d)'
  <2> DEFINE p == Peer(e)
  <2>1. /\ Running(e) /\ chan' = Put(chan, e, "data", "all")
        /\ UNCHANGED <<ended, timer, waiting>>
    BY <1>4 DEF AppData, idlerVars
  <2>2. p \in End /\ p /= e /\ Peer(p) = e
    BY PeerEnd
  <2> HIDE DEF p
  <2>3. chan'[e] = chan[e] /\ \A a, m : Has(chan[p], a, m) => Has(chan'[p], a, m)
    BY <1>0, <1>p, <2>1 DEF p
  <2>4. Answered(e)'
    BY <1>k, <2>1, <2>3 DEF p
  <2>5. Answered(p)'
    BY <1>k, <2>1, <2>2, <2>3
  <2> QED  BY <2>4, <2>5, PeerEnd DEF p
<1>5. ASSUME NEW e \in End, ReceiveTampered(e) \/ Eof(e) PROVE \A d \in End : Answered(d)'
  <2> DEFINE p == Peer(e)
  <2>1. /\ Running(e) /\ UNCHANGED <<chan, timer, waiting>>
        /\ Return(e, "tampered") \/ Return(e, "eof")
    BY <1>5 DEF ReceiveTampered, Eof
  <2>2. p \in End /\ p /= e /\ Peer(p) = e
    BY PeerEnd
  <2> HIDE DEF p
  <2>3. ~Running(e)' /\ ended'[p] = ended[p]
    <3>1. PICK o \in {"tampered", "eof"} : ended' = [ended EXCEPT ![e] = o]
      BY <2>1 DEF Return
    <3>2. ended'[e] = o /\ ended'[p] = ended[p]
      BY <2>2, <3>1 DEF Typed
    <3> QED  BY <3>2 DEF Running
  <2>4. Answered(e)'
    BY <2>3 DEF Answered
  <2>5. Answered(p)'
    <3> SUFFICES ASSUME Running(p), waiting[p] PROVE (Pinged(p) \/ Ponged(p) \/ Ending(p))'
      BY <2>1, <2>3 DEF Answered, Running
    <3>1. Pinged(p) \/ Ponged(p)
      BY <1>a, <2>1, <2>2 DEF Answered, Ending
    <3>2. CASE Ponged(p)
      BY <2>1, <3>2 DEF Ponged
    <3>3. CASE Pinged(p)
      <4>1. timer[p] > 0 /\ timer[p] >= Tmo - D
        BY <2>2, <3>3, TimeLeft
      <4>2. Tmo - D - timer[p] <= 0 /\ Tmo - D - timer[p] \in Int
        BY <1>0, <1>b, <2>2, <4>1
      <4>3. AllOld(chan[p], Tmo - D - timer[p])
        BY <1>0, <2>2, <4>2, Lower
      <4> QED  BY <2>1, <2>2, <2>3, <4>1, <4>3 DEF Ending
    <3> QED  BY <3>1, <3>2, <3>3
  <2> QED  BY <2>4, <2>5, PeerEnd DEF p
<1>6. CASE NetDown
  BY <1>6 DEF NetDown, Clear
<1>7. CASE Tick
  <2> SUFFICES ASSUME NEW d \in End, Running(d), waiting[d]
               PROVE  (Pinged(d) \/ Ponged(d) \/ Ending(d))'
    BY <1>7 DEF Tick, Answered, Running
  <2> DEFINE p == Peer(d)
  <2>1. p \in End
    BY PeerEnd
  <2>2. /\ timer'[d] = timer[d] - 1 /\ UNCHANGED ended
        /\ \A e \in End : chan'[e] = Older(chan[e])
    BY <1>7, <1>a DEF Tick, Older
  <2>3. /\ \A e \in End : Running(e) /\ chan[e] /= <<>> => ~(Head(chan[e]).age >= D)
        /\ ~Running(p) => chan[d] /= <<>>
    BY <1>0, <1>7, <1>a, <1>c, <2>1 DEF Tick, Readable
  <2>4. Tmo - timer'[d] = (Tmo - timer[d]) + 1 /\ Tmo - D - timer'[d] = (Tmo - D - timer[d]) + 1
    BY <1>0, <1>b, <2>2
  <2>5. \A e \in End : chan[e] \in Seq(Frames) /\ Aging(chan[e])
    BY <1>0 DEF AgeInv
  <2> DEFINE m == Tmo - timer[d]
             n == Tmo - D - timer[d]
  <2>6. m \in Int /\ n \in Int
    BY <1>b
  <2>7. Tmo - timer'[d] = m + 1 /\ Tmo - D - timer'[d] = n + 1
    BY <2>4
  <2>8. n < D => timer'[d] > 0
    <3>1. ASSUME NEW T \in Nat, NEW c \in Nat, NEW t \in Nat, 2 * c < T, T - c - t < c
          PROVE  t - 1 > 0
      BY <3>1
    <3>2. Tmo \in Nat /\ D \in Nat /\ timer[d] \in Nat /\ 2 * D < Tmo
      BY <1>0, <1>b
    <3>3. n < D => timer[d] - 1 > 0
      BY ONLY <3>1, <3>2
    <3> QED  BY <2>2, <3>3
  <2> HIDE DEF p, m, n
  <2>9. CASE Pinged(d)
    <3>1. Running(p) /\ Has(chan[p], "ping", m)
      BY <2>9 DEF Pinged, p, m
    <3>2. chan[p] /= <<>>
      BY <2>1, <2>5, <2>6, <3>1, Lower
    <3>3. Has(Older(chan[p]), "ping", m + 1)
      BY <2>1, <2>3, <2>5, <2>6, <3>1, <3>2, StreamOlder
    <3>4. Running(p)' /\ Has(chan'[p], "ping", Tmo - timer'[d])
      BY <2>1, <2>2, <2>7, <3>1, <3>3 DEF Running
    <3> QED  BY <3>4 DEF Pinged, p
  <2>10. CASE Ponged(d)
    <3>1. Has(chan[d], "pong", n)
      BY <2>10 DEF Ponged, n
    <3>2. chan[d] /= <<>>
      BY <2>5, <2>6, <3>1, Lower
    <3>3. Has(Older(chan[d]), "pong", n + 1)
      BY <2>3, <2>5, <2>6, <3>1, <3>2, StreamOlder
    <3> QED  BY <2>2, <2>7, <3>3 DEF Ponged
  <2>11. CASE Ending(d)
    <3>1. ~Running(p) /\ AllOld(chan[d], n)
      BY <2>11 DEF Ending, p, n
    <3>2. AllOld(Older(chan[d]), n + 1) /\ n < D
      BY <2>3, <2>5, <2>6, <3>1, StreamOlder
    <3>3. ~Running(p)' /\ timer'[d] > 0 /\ AllOld(chan'[d], Tmo - D - timer'[d])
      BY <2>2, <2>7, <2>8, <3>1, <3>2 DEF Running
    <3> QED  BY <3>3 DEF Ending, p
  <2> QED  BY <1>a, <2>9, <2>10, <2>11 DEF Answered
<1> QED  BY <1>1, <1>2, <1>3, <1>4, <1>5, <1>6, <1>7 DEF Next

\* Only the end of a wait gives a tunnel up as unresponsive, and no wait ends
\* without an answer while nothing has gone wrong.
LEMMA AlarmStep ==
    ASSUME Typed, AnswerInv, NoFalseAlarm, Next
    PROVE  NoFalseAlarm'
<1>0. net \in {"up", "down"} /\ stalls \in Nat
  BY ClearStep DEF Typed
<1>1. ASSUME NEW d \in End, ended'[d] = "unresponsive", ended[d] /= "unresponsive"
      PROVE  ~Clear
  <2>1. PICK e \in End : ReadTimeout(e) /\ waiting[e] /\ Return(e, "unresponsive")
    <3>1. ASSUME NEW e \in End, Receive(e) PROVE UNCHANGED ended
      BY <3>1, ReceiveEffect
    <3>2. ASSUME NEW e \in End, ReadTimeout(e)
          PROVE  UNCHANGED ended \/ (waiting[e] /\ Return(e, "unresponsive"))
      BY <3>2, TimeoutEffect
    <3>3. ASSUME NEW e \in End, Return(e, "write") \/ Return(e, "tampered") \/ Return(e, "eof")
          PROVE  FALSE
      BY <1>1, <3>3 DEF Return, Typed
    <3> QED
      BY <1>1, <3>1, <3>2, <3>3
      DEF Next, ReceiveTampered, StalledDone, StalledFails, Eof, AppData, AppDataWaits,
          AppDataDone, AppDataCut, NetDown, Tick
  <2>2. Running(e) /\ timer[e] = 0
    BY <2>1, TimeoutEffect
  <2>3. ~(Pinged(e) \/ Ponged(e) \/ Ending(e))
    BY <2>2, TimeLeft
  <2> QED  BY <2>1, <2>2, <2>3 DEF AnswerInv
<1>2. ~Clear => net' = "down" \/ stalls' > 0
  BY <1>0, ClearStep DEF Clear
<1>3. ASSUME NEW d \in End, ended'[d] = "unresponsive"
      PROVE  net' = "down" \/ stalls' > 0
  <2>1. CASE ended[d] = "unresponsive"
    BY <2>1, ClearStep DEF NoFalseAlarm
  <2>2. CASE ended[d] /= "unresponsive"
    BY <1>1, <1>2, <1>3, <2>2
  <2> QED  BY <2>1, <2>2
<1> QED  BY <1>3 DEF NoFalseAlarm

-----------------------------------------------------------------------------
(* The theorems *)

\* A tunnel starts with the server's first ping under way.
LEMMA InitInv ==
    ASSUME Init
    PROVE  IInv
<1>0. /\ Tmo \in Nat \ {0} /\ WriteTmo \in Nat \ {0} /\ D \in Nat /\ Interval \in Nat
      /\ Interval > 2 * Tmo /\ 2 * D < Tmo /\ Deltas \subseteq 0..2 * Tmo - 1 /\ MaxStall \in Nat
  BY LinkAssumption
<1>1. PICK delta \in Deltas : interval = [e \in End |-> NewIdler(e, delta)]
  BY DEF Init
<1>2. /\ net = "up" /\ stalls = 0
      /\ waiting = [e \in End |-> e = "svr"]
      /\ chan = [e \in End |-> IF e = "clt" THEN <<Frame("ping", "all")>> ELSE <<>>]
      /\ timer = [e \in End |-> IF e = "svr" THEN Tmo ELSE interval[e]]
      /\ writing = [e \in End |-> "no"] /\ silent = [e \in End |-> 0]
      /\ ahead = [e \in End |-> 0] /\ rear = [e \in End |-> 0] /\ wtimer = [e \in End |-> 0]
      /\ heard = [e \in End |-> FALSE] /\ ended = [e \in End |-> "no"]
      /\ lost = [e \in End |-> FALSE] /\ behind = [e \in End |-> 0]
  BY DEF Init
<1> DEFINE f == Frame("ping", "all")
<1>3. f \in Frames /\ f.age = 0 /\ f.act = "ping" /\ f.part = "all"
  BY FrameType DEF Part
<1> HIDE DEF f
<1>4. <<f>> = Append(<<>>, f)
  OBVIOUS
<1>5. /\ <<f>> \in Seq(Frames) /\ Aging(<<f>>) /\ Whole(<<f>>)
      /\ \A m : 0 >= m => Has(<<f>>, "ping", m)
  BY <1>3, <1>4, EmptyStream, StreamAppend
<1>6. End = {"clt", "svr"} /\ Peer("svr") = "clt" /\ "clt" \in End /\ "svr" \in End
  BY DEF End, Peer
<1>7. chan["clt"] = <<f>> /\ chan["svr"] = <<>>
  BY <1>2, <1>6 DEF f
<1>8. Interval - delta \in 1..Interval + Tmo /\ Interval + Tmo \in 1..Interval + Tmo
  <2>1. delta \in 0..2 * Tmo - 1
    BY <1>0, <1>1
  <2> QED  BY <1>0, <2>1
<1>9. interval \in [End -> 1..Interval + Tmo]
  BY <1>1, <1>8 DEF NewIdler
<1>10. timer \in [End -> 0..Interval + Tmo]
  <2>1. /\ Tmo \in 0..Interval + Tmo
        /\ 1..Interval + Tmo \subseteq 0..Interval + Tmo
    BY <1>0
  <2> QED  BY <1>2, <1>9, <2>1
<1>11. Typed
  <2>1. chan \in [End -> Seq(Frames)]
    BY <1>2, <1>5, EmptyStream DEF f
  <2>2. waiting \in [End -> BOOLEAN] /\ heard \in [End -> BOOLEAN] /\ lost \in [End -> BOOLEAN]
    BY <1>2
  <2>3. writing \in [End -> {"no", "ping", "pong"}] /\ ended \in [End -> Outcome]
    BY <1>2 DEF Outcome
  <2>4. silent \in [End -> Nat] /\ behind \in [End -> Nat] /\ stalls \in 0..MaxStall
    BY <1>0, <1>2
  <2>5. /\ ahead \in [End -> Nat] /\ rear \in [End -> Nat] /\ wtimer \in [End -> 0..WriteTmo]
    BY <1>0, <1>2
  <2> QED  BY <1>2, <1>9, <1>10, <2>1, <2>2, <2>3, <2>4, <2>5 DEF Typed
<1>19. RoomInv
  BY <1>2, LinkAssumption DEF RoomInv
<1>12. AgeInv
  BY <1>5, <1>6, <1>7, EmptyStream DEF AgeInv
<1>13. WholeInv
  BY <1>2, <1>5, <1>6, <1>7, EmptyStream DEF WholeInv
<1>14. AnswerInv
  <2>1. ASSUME NEW e \in End, waiting[e] PROVE Pinged(e)
    <3>1. e = "svr"
      BY <1>2, <2>1
    <3>2. timer[e] = Tmo /\ Tmo - Tmo = 0 /\ 0 >= 0
      BY <1>0, <1>2, <1>6, <3>1
    <3>3. Has(chan["clt"], "ping", Tmo - timer[e])
      BY <1>5, <1>7, <3>2
    <3> QED  BY <1>2, <1>6, <3>1, <3>3 DEF Pinged, Running
  <2> QED  BY <2>1 DEF AnswerInv
<1>15. StallInv
  BY <1>2 DEF StallInv
<1>16. SilentInv
  <2>1. ASSUME NEW e \in End PROVE Lasts(e)
    <3>1. /\ writing[e] = "no" /\ silent[e] = 0
          /\ timer[e] = IF waiting[e] THEN Tmo ELSE interval[e]
      BY <1>2
    <3>2. interval[e] \in Nat /\ Slack \in Nat
      BY <1>11, Times
    <3> QED  BY <1>0, <3>1, <3>2 DEF Lasts
  <2> QED  BY <2>1 DEF SilentInv
<1>17. GapInv
  BY <1>2 DEF GapInv
<1>18. NoFalseAlarm
  BY <1>2 DEF NoFalseAlarm
<1> QED
  BY <1>11, <1>12, <1>13, <1>14, <1>15, <1>16, <1>17, <1>18, <1>19 DEF IInv

\* No step of a tunnel, nor one of anything else, breaks the invariant.
LEMMA StepInv ==
    ASSUME IInv, [Next]_vars
    PROVE  IInv'
<1>1. CASE Next
  <2>1. /\ Typed /\ RoomInv /\ AgeInv /\ WholeInv /\ AnswerInv /\ StallInv /\ SilentInv /\ GapInv
        /\ NoFalseAlarm
    BY DEF IInv
  <2>2. Typed' /\ RoomInv'
    BY <1>1, <2>1, TypedStep, LineStep
  <2>3. AgeInv' /\ WholeInv'
    BY <1>1, <2>1, AgeStep, WholeStep
  <2>4. AnswerInv'
    BY <1>1, <2>1, <2>2, AnswerStep
  <2>5. StallInv' /\ SilentInv'
    BY <1>1, <2>1, <2>2, StallInvStep, SilentStep
  <2>6. GapInv' /\ NoFalseAlarm'
    BY <1>1, <2>1, GapStep, AlarmStep
  <2> QED  BY <2>2, <2>3, <2>4, <2>5, <2>6 DEF IInv
<1>2. CASE UNCHANGED vars
  BY <1>2 DEF vars, idlerVars, writeVars, IInv, Typed, RoomInv, AgeInv, WholeInv, AnswerInv, StallInv, SilentInv,
     GapInv, NoFalseAlarm, Clear, Slack, Lasts, Pinged, Ponged, Ending, Running
<1> QED  BY <1>1, <1>2

\* The inductive invariant holds of every tunnel (the loops of Listen at both
\* ends, the idler, and the frames written and parsed in between).
THEOREM Invariant == Spec => []IInv
<1>1. Init => IInv
  BY InitInv
<1>2. IInv /\ [Next]_vars => IInv'
  BY StepInv
<1> QED  BY <1>1, <1>2, PTL DEF Spec

\* Every timer, flag, frame and outcome of Listen and the idler has its type.
THEOREM TypeCorrect == Spec => []TypeOK
<1>1. IInv => TypeOK
  <2> SUFFICES ASSUME Typed, RoomInv PROVE TypeOK
    BY DEF IInv
  <2>1. \A e \in End : \A i \in DOMAIN chan[e] : chan[e][i] \in Frames
    BY DEF Typed
  <2>2. \A e \in End :
          /\ interval[e] \in 1..Interval + Tmo
          /\ timer[e] \in 0..Interval + Tmo /\ wtimer[e] \in 0..WriteTmo
          /\ ahead[e] \in Nat /\ rear[e] \in Nat
          /\ waiting[e] \in BOOLEAN /\ heard[e] \in BOOLEAN /\ lost[e] \in BOOLEAN
          /\ writing[e] \in {"no", "ping", "pong"} /\ ended[e] \in Outcome
          /\ silent[e] \in Nat /\ behind[e] \in Nat
    BY DEF Typed
  <2> QED  BY <2>1, <2>2 DEF Typed, RoomInv, TypeOK, Frames
<1> QED  BY <1>1, Invariant, PTL

\* While the network carries every frame within D and no write stalls, the idler
\* (consumeError) gives up no tunnel, for every interval and timeout of which
\* two delays are less than the timeout.
THEOREM AlarmsTrue == Spec => []NoFalseAlarm
<1>1. IInv => NoFalseAlarm
  BY DEF IInv
<1> QED  BY <1>1, Invariant, PTL

\* No end of a tunnel goes on without handling a frame for longer than its
\* interval, one timeout, and the writes of Listen that stall, each of them
\* postponed by no more than WRITE_TUN_TIMEOUT for every other writer that comes
\* to the tunnel (Listen, idler.newRound, frameWriteBuffer).
THEOREM SilenceBounded == Spec => []DeadDetected
<1>1. IInv => DeadDetected
  <2> DEFINE w == (1 + Relays) * WriteTmo
                  * (IF stalls > 0 THEN 2 ELSE IF net = "down" THEN 1 ELSE 0)
  <2> SUFFICES ASSUME Typed, RoomInv, StallInv, SilentInv, NEW e \in End, Running(e)
               PROVE  silent[e] <= interval[e] + Tmo + w
    BY DEF IInv, DeadDetected
  <2>1. /\ silent[e] \in Nat /\ timer[e] \in Nat /\ wtimer[e] \in Nat /\ interval[e] \in Nat
        /\ Longest \in Nat /\ Slack \in Nat /\ Slack <= Longest /\ Tmo \in Nat
    BY Times
  <2>2. Lasts(e)
    BY DEF SilentInv
  <2>3. writing[e] \in {"no", "ping", "pong"} /\ waiting[e] \in BOOLEAN
    BY DEF Typed
  <2>4. /\ writing[e] = "pong" => stalls > 0
        /\ writing[e] = "ping" => stalls > 0 \/ net = "down"
    BY DEF StallInv
  <2>5. Moved(rear[e]) \in Nat /\ Moved(rear[e]) <= Longest
    <3>1. ahead[e] \in Nat /\ rear[e] \in Nat /\ ahead[e] + rear[e] <= Relays /\ Relays \in Nat
      BY LinkAssumption DEF Typed, RoomInv
    <3>2. rear[e] <= Relays
      BY <3>1
    <3> QED  BY <3>1, <3>2, MovedUp DEF Longest
  <2>6. /\ writing[e] = "no" => silent[e] <= interval[e] + Tmo + Slack
        /\ writing[e] = "ping" => silent[e] <= interval[e] + Longest
        /\ writing[e] = "pong" => silent[e] <= interval[e] + Tmo + Longest + Longest
    <3>1. /\ writing[e] = "no" /\ ~waiting[e] => silent[e] + timer[e] <= interval[e]
          /\ writing[e] = "no" /\ waiting[e] => silent[e] + timer[e] <= interval[e] + Tmo + Slack
          /\ writing[e] = "ping" => silent[e] + wtimer[e] <= interval[e] + Moved(rear[e])
          /\ writing[e] = "pong" =>
               silent[e] + wtimer[e] <= interval[e] + Tmo + Longest + Moved(rear[e])
      BY <2>2 DEF Lasts
    <3>2. PICK m \in Nat : m = Moved(rear[e]) /\ m <= Longest
      BY <2>5
    <3> QED  BY <2>1, <3>1, <3>2
  <2>7. CASE stalls > 0
    <3>1. w = Longest + Longest
      <4>1. w = (1 + Relays) * WriteTmo * 2 /\ (1 + Relays) * WriteTmo \in Nat
        BY <2>1, <2>7 DEF Longest, Moved
      <4> QED  BY <4>1 DEF Longest, Moved
    <3> HIDE DEF w
    <3> QED  BY <2>1, <2>3, <2>6, <3>1
  <2>8. CASE ~(stalls > 0) /\ net = "down"
    <3>1. w = Longest
      BY <2>1, <2>8 DEF Longest, Moved
    <3> HIDE DEF w
    <3> QED  BY <2>1, <2>3, <2>4, <2>6, <2>8, <3>1
  <2>9. CASE ~(stalls > 0) /\ net /= "down"
    <3>1. w = 0 /\ Slack = 0
      BY <2>1, <2>9 DEF Slack, Longest, Moved
    <3> HIDE DEF w
    <3> QED  BY <2>1, <2>3, <2>4, <2>6, <2>9, <3>1
  <2> QED  BY <2>7, <2>8, <2>9
<1> QED  BY <1>1, Invariant, PTL

\* Behind a frame that was cut off or torn, an end handles one frame at most:
\* the hash of the next header fails (parse_frame) and Listen returns.
THEOREM GapContained == Spec => []CutContained
<1>1. IInv => CutContained
  BY DEF IInv, Typed, GapInv, CutContained
<1> QED  BY <1>1, Invariant, PTL
=============================================================================
