-------------------------------- MODULE Link --------------------------------
(***************************************************************************)
(* One tunnel at work (src/tunnel/multiplexer.go): the reading loop of     *)
(* Listen at both ends with its idler, and the writing and parsing of      *)
(* frames on the encrypted stream between them.                            *)
(*                                                                         *)
(* Time is discrete.  A frame is read at most D units after it was written *)
(* while the network works and the reader reads; the network may stop      *)
(* carrying anything without telling either end.  A write is done at once  *)
(* or stalls on a full send buffer and holds wlock, which the other        *)
(* writers of that end, Listen among them, then wait for in the order they *)
(* came.  All have the one write deadline of the connection, and every     *)
(* writer that comes moves it.  A write that meets it leaves a part of the *)
(* frame on the stream.  Nothing behind a part can be decrypted (the       *)
(* sender's key stream is ahead of the reader's), which the hash of the    *)
(* next frame header shows; the one chance in 2^16 that it does not is     *)
(* left out.                                                               *)
(***************************************************************************)
EXTENDS Integers, Sequences

CONSTANTS Interval,    \* the ping interval of the session
          Tmo,         \* GENERAL_SO_TIMEOUT
          WriteTmo,    \* WRITE_TUN_TIMEOUT
          Deltas,      \* bound: what the client may draw to ping earlier
          D,           \* bound: the delay of a frame
          Relays,      \* bound: other writers that one end has at a time
          MaxFlight,   \* bound: frames under way in one direction
          MaxStall     \* bound: writes that stall while the network works

ASSUME LinkAssumption ==
    /\ Tmo \in Nat \ {0} /\ WriteTmo \in Nat \ {0} /\ D \in Nat
    /\ Interval \in Nat /\ Interval > 2 * Tmo
    /\ Deltas \subseteq 0..2 * Tmo - 1
    /\ 2 * D < Tmo                       \* a round trip fits the timeout
    /\ Relays \in Nat /\ MaxFlight \in Nat \ {0} /\ MaxStall \in Nat

End == {"clt", "svr"}
Peer(e) == IF e = "clt" THEN "svr" ELSE "clt"
Part == {"all", "head", "body"}   \* how much of a frame was written: all, less
                                  \* than its header, or a part of its body
Outcome == {"no", "unresponsive", "tampered", "write", "eof"}

VARIABLES
    net,        \* "up", or "down": it swallows everything
    chan,       \* chan[e]: frames on the stream to e
    interval,   \* idler.interval
    waiting,    \* idler.waiting
    timer,      \* time left to the deadline of Listen's read
    writing,    \* the frame whose write Listen is stalled in, or "no"
    ahead,      \* the other writers that have wlock or wait for it, those in
    rear,       \*   front of Listen (all while it writes nothing) and behind it
    wtimer,     \* time left to the write deadline of the connection
    silent,     \* time since the last frame was handled (priority.last)
    heard,      \* a frame was handled at all
    ended,      \* why Listen returned, "no" while it runs
    lost,       \* e's decryption is out of step with the stream
    behind,     \* history: frames e handled on a stream with a gap
    stalls

idlerVars == <<interval, waiting, timer, writing>>
writeVars == <<ahead, rear, wtimer>>
vars == <<net, chan, idlerVars, writeVars, silent, heard, ended, lost, behind, stalls>>

Running(e) == ended[e] = "no"
Frame(act, part) == [act |-> act, part |-> part, age |-> 0]

\* The idler takes up to twice the timeout off the client's interval and lets
\* the server ping later (the second that both ends add per tunnel is less
\* than a unit of time).
NewIdler(e, delta) == IF e = "clt" THEN Interval - delta ELSE Interval + Tmo

\* Listen makes the server ping first.
Init ==
    /\ net = "up" /\ stalls = 0
    /\ \E delta \in Deltas :
         interval = [e \in End |-> NewIdler(e, delta)]
    /\ waiting = [e \in End |-> e = "svr"]
    /\ chan = [e \in End |-> IF e = "clt" THEN <<Frame("ping", "all")>> ELSE <<>>]
    /\ timer = [e \in End |-> IF e = "svr" THEN Tmo ELSE interval[e]]
    /\ writing = [e \in End |-> "no"]
    /\ ahead = [e \in End |-> 0] /\ rear = [e \in End |-> 0]
    /\ wtimer = [e \in End |-> 0]
    /\ silent = [e \in End |-> 0] /\ heard = [e \in End |-> FALSE]
    /\ ended = [e \in End |-> "no"]
    /\ lost = [e \in End |-> FALSE] /\ behind = [e \in End |-> 0]

-----------------------------------------------------------------------------
(* The stream *)

\* The bytes e has written, unless they are swallowed.
Put(ch, e, act, part) ==
    IF net = "up" /\ Running(Peer(e))
    THEN [ch EXCEPT ![Peer(e)] = Append(@, Frame(act, part))] ELSE ch

MayStall == net = "down" \/ stalls < MaxStall
Stall == /\ MayStall
         /\ stalls' = IF net = "down" THEN stalls ELSE stalls + 1

\* A stalled write has wlock.
Blocked(e) == ahead[e] > 0 \/ writing[e] /= "no"

\* SetWriteDeadline holds for the write that has wlock as well.
SetWriteDeadline(e) == wtimer' = [wtimer EXCEPT ![e] = WriteTmo]

\* ReadFull gets what it waits for: a part of a frame is filled up from the
\* frame behind it; out of step, any eight bytes are a header.
Readable(e) ==
    /\ chan[e] /= <<>>
    /\ \/ Head(chan[e]).part = "all" \/ Len(chan[e]) > 1
       \/ lost[e] /\ Head(chan[e]).part = "body"

\* Listen returns and the tunnel is closed, which ends every write.
Return(e, why) ==
    /\ ended' = [ended EXCEPT ![e] = why]
    /\ writing' = [writing EXCEPT ![e] = "no"]
    /\ ahead' = [ahead EXCEPT ![e] = 0] /\ rear' = [rear EXCEPT ![e] = 0]

-----------------------------------------------------------------------------
(* idler *)

\* Mutant of newRound: the deadline is counted from the old one, not from now.
newRoundAdds(e, wait) ==
    timer' = [timer EXCEPT ![e] = @ + IF wait THEN Tmo ELSE interval[e]]

\* newRound: the time until the next read gives up.
newRound(e, wait) == timer' = [timer EXCEPT ![e] = IF wait THEN Tmo ELSE interval[e]]

\* Mutant of ping: the idler does not wait for the answer.
pingNoWait(e) == UNCHANGED waiting

ping(e) == waiting' = [waiting EXCEPT ![e] = TRUE]

\* Mutant of verify: a pong does not clear the flag.
verifyNothing(e, act) == UNCHANGED waiting

verify(e, act) == waiting' = IF act = "pong" THEN [waiting EXCEPT ![e] = FALSE] ELSE waiting

\* Listen writes a ping or a pong itself: done, or it stalls, or it waits for
\* wlock.  ch is the stream that is left after what it has read.
ListenWrites(e, act, ch) ==
    \/ /\ ahead[e] = 0
       /\ chan' = Put(ch, e, act, "all")
       /\ newRound(e, waiting'[e])
       /\ UNCHANGED <<writing, wtimer, stalls>>
    \/ /\ IF ahead[e] = 0 THEN Stall ELSE UNCHANGED stalls
       /\ chan' = ch
       /\ writing' = [writing EXCEPT ![e] = act]
       /\ SetWriteDeadline(e)
       /\ UNCHANGED timer

\* Conn.Update.
Update(e) == silent' = [silent EXCEPT ![e] = 0] /\ heard' = [heard EXCEPT ![e] = TRUE]

-----------------------------------------------------------------------------
(* Listen *)

\* The header's hash: it fails where the header is made of parts of two frames
\* or comes behind a gap; the hash covers no byte of the body.
VerifyHash16At6(e, f) == ~lost[e] /\ f.part /= "head"

\* Mutant of parse_frame: the hash is not looked at.
parse_frameUnchecked(e, f) == TRUE

parse_frame(e, f) == VerifyHash16At6(e, f)

\* A frame is read and handled.
Receive(e) ==
    LET s == chan[e]
        f == Head(s)
        gap == lost[e] \/ f.part /= "all"
    IN  /\ Running(e) /\ writing[e] = "no" /\ Readable(e)
        /\ parse_frame(e, f)
        /\ lost' = [lost EXCEPT ![e] = gap]
        /\ behind' = [behind EXCEPT ![e] = IF gap THEN @ + 1 ELSE @]
        /\ verify(e, f.act)
        /\ \E rest \in IF gap /\ Len(s) > 1 THEN {Tail(s), Tail(Tail(s))} ELSE {Tail(s)} :
             LET ch == [chan EXCEPT ![e] = rest]
             IN  IF f.act = "ping" THEN ListenWrites(e, "pong", ch)
                 ELSE /\ chan' = ch /\ newRound(e, waiting'[e])
                      /\ UNCHANGED <<writing, wtimer, stalls>>
        /\ IF writing'[e] = "no" THEN Update(e) ELSE UNCHANGED <<silent, heard>>
        /\ UNCHANGED <<net, interval, ahead, rear, ended>>

\* ERR_DATA_TAMPERED.
ReceiveTampered(e) ==
    /\ Running(e) /\ writing[e] = "no" /\ Readable(e)
    /\ ~parse_frame(e, Head(chan[e]))
    /\ Return(e, "tampered")
    /\ UNCHANGED <<net, chan, interval, waiting, timer, wtimer, silent, heard, lost, behind, stalls>>

consumeError(e) == IF waiting[e] THEN "ERR_PING_TIMEOUT" ELSE "ERR_NEW_PING"

\* The deadline of the read.  One that waited for the answer to a ping ends the
\* tunnel, another is followed by a ping.  What ReadFull had got of a frame by
\* then is gone.
ReadTimeout(e) ==
    /\ Running(e) /\ writing[e] = "no" /\ timer[e] = 0
    /\ IF consumeError(e) = "ERR_PING_TIMEOUT"
       THEN Return(e, "unresponsive") /\ UNCHANGED <<chan, waiting, timer, wtimer, lost, stalls>>
       ELSE /\ ping(e)
            /\ LET torn == chan[e] /= <<>> /\ ~Readable(e)
               IN  /\ ListenWrites(e, "ping", IF torn THEN [chan EXCEPT ![e] = <<>>] ELSE chan)
                   /\ \E early \in BOOLEAN :
                        /\ early => chan[e] /= <<>> /\ Head(chan[e]).age < D
                        /\ lost' = [lost EXCEPT ![e] = @ \/ torn \/ early]
            /\ UNCHANGED <<ahead, rear, ended>>
    /\ UNCHANGED <<net, interval, silent, heard, behind>>

\* The stalled write of Listen gets through, and those behind it have wlock; if
\* it was a pong, the frame is handled now.
StalledDone(e) ==
    /\ Running(e) /\ writing[e] /= "no" /\ ahead[e] = 0 /\ wtimer[e] > 0
    /\ chan' = Put(chan, e, writing[e], "all")
    /\ writing' = [writing EXCEPT ![e] = "no"]
    /\ ahead' = [ahead EXCEPT ![e] = rear[e]] /\ rear' = [rear EXCEPT ![e] = 0]
    /\ newRound(e, waiting[e])
    /\ IF writing[e] = "pong" THEN Update(e) ELSE UNCHANGED <<silent, heard>>
    /\ UNCHANGED <<net, interval, waiting, wtimer, ended, lost, behind, stalls>>

\* It meets the deadline: Listen has handled no frame for that time, so the
\* failure is never tolerated.
StalledFails(e) ==
    /\ Running(e) /\ writing[e] /= "no" /\ ahead[e] = 0 /\ wtimer[e] = 0
    /\ chan' = Put(chan, e, writing[e], "head")
    /\ Return(e, "write")
    /\ UNCHANGED <<net, interval, waiting, timer, wtimer, silent, heard, lost, behind, stalls>>

\* The peer has closed the tunnel, and what it wrote before is read.
Eof(e) ==
    /\ Running(e) /\ writing[e] = "no" /\ net = "up"
    /\ ~Running(Peer(e)) /\ ~Readable(e)
    /\ Return(e, "eof")
    /\ UNCHANGED <<net, chan, interval, waiting, timer, wtimer, silent, heard, lost, behind, stalls>>

-----------------------------------------------------------------------------
(* The relays of the sessions, and the world *)

\* A relay writes a frame of data at once.
AppData(e) ==
    /\ Running(e) /\ ~Blocked(e) /\ Len(chan[Peer(e)]) < MaxFlight
    /\ chan' = Put(chan, e, "data", "all")
    /\ UNCHANGED <<net, idlerVars, writeVars, silent, heard, ended, lost, behind, stalls>>

\* A relay sets the deadline, and its write stalls or waits for wlock.
AppDataWaits(e) ==
    /\ Running(e) /\ ahead[e] + rear[e] < Relays
    /\ IF Blocked(e) THEN UNCHANGED stalls ELSE Stall
    /\ SetWriteDeadline(e)
    /\ IF writing[e] = "no"
       THEN ahead' = [ahead EXCEPT ![e] = @ + 1] /\ UNCHANGED rear
       ELSE rear' = [rear EXCEPT ![e] = @ + 1] /\ UNCHANGED ahead
    /\ UNCHANGED <<net, chan, idlerVars, silent, heard, ended, lost, behind>>

\* The write that has wlock gets through.
AppDataDone(e) ==
    /\ Running(e) /\ ahead[e] > 0 /\ wtimer[e] > 0 /\ Len(chan[Peer(e)]) < MaxFlight
    /\ chan' = Put(chan, e, "data", "all")
    /\ ahead' = [ahead EXCEPT ![e] = @ - 1]
    /\ UNCHANGED <<net, idlerVars, rear, wtimer, silent, heard, ended, lost, behind, stalls>>

\* frameWriteBuffer: a write that met the deadline counts as done if a frame was
\* handled within the same time, else the tunnel is closed.
Tolerated(e) == heard[e] /\ silent[e] < WriteTmo

\* The write that has wlock meets the deadline; so does the next one, unless
\* another writer comes first.
AppDataCut(e) ==
    /\ Running(e) /\ ahead[e] > 0 /\ wtimer[e] = 0
    /\ \E part \in Part \ {"all"} : chan' = Put(chan, e, "data", part)
    /\ IF Tolerated(e)
       THEN ahead' = [ahead EXCEPT ![e] = @ - 1] /\ UNCHANGED <<ended, writing, rear>>
       ELSE Return(e, "write")
    /\ UNCHANGED <<net, interval, waiting, timer, wtimer, silent, heard, lost, behind, stalls>>

NetDown ==
    /\ net = "up"
    /\ net' = "down" /\ chan' = [e \in End |-> <<>>]
    /\ UNCHANGED <<idlerVars, writeVars, silent, heard, ended, lost, behind, stalls>>

\* Time passes when nothing is due.
Tick ==
    /\ \E e \in End : Running(e)
    /\ \A e \in End : Running(e) =>
         /\ Blocked(e) => wtimer[e] > 0
         /\ writing[e] = "no" =>
              /\ timer[e] > 0
              /\ ~(Readable(e) /\ Head(chan[e]).age >= D)
              /\ ~(net = "up" /\ ~Running(Peer(e)) /\ ~Readable(e))
    /\ timer' = [e \in End |-> IF Running(e) /\ writing[e] = "no" THEN timer[e] - 1 ELSE timer[e]]
    /\ wtimer' = [e \in End |-> IF wtimer[e] > 0 THEN wtimer[e] - 1 ELSE 0]
    /\ silent' = [e \in End |-> IF Running(e) THEN silent[e] + 1 ELSE silent[e]]
    /\ chan' = [e \in End |-> [i \in DOMAIN chan[e] |->
                  [chan[e][i] EXCEPT !.age = IF @ < D THEN @ + 1 ELSE D]]]
    /\ UNCHANGED <<net, interval, waiting, writing, ahead, rear, heard, ended, lost, behind, stalls>>

Next ==
    \/ \E e \in End : \/ Receive(e) \/ ReceiveTampered(e) \/ ReadTimeout(e)
                      \/ StalledDone(e) \/ StalledFails(e) \/ Eof(e)
                      \/ AppData(e) \/ AppDataWaits(e) \/ AppDataDone(e) \/ AppDataCut(e)
    \/ NetDown \/ Tick

Spec == Init /\ [][Next]_vars

-----------------------------------------------------------------------------
TypeOK ==
    /\ net \in {"up", "down"} /\ stalls \in 0..MaxStall
    /\ \A e \in End :
         /\ \A i \in DOMAIN chan[e] :
              chan[e][i] \in [act : {"ping", "pong", "data"}, part : Part, age : 0..D]
         /\ interval[e] \in 1..Interval + Tmo
         /\ timer[e] \in 0..Interval + Tmo /\ wtimer[e] \in 0..WriteTmo
         /\ ahead[e] \in Nat /\ rear[e] \in Nat /\ ahead[e] + rear[e] <= Relays
         /\ waiting[e] \in BOOLEAN /\ heard[e] \in BOOLEAN /\ lost[e] \in BOOLEAN
         /\ writing[e] \in {"no", "ping", "pong"} /\ ended[e] \in Outcome
         /\ silent[e] \in Nat /\ behind[e] \in Nat

\* While the network works and no write stalls, the idler gives up no tunnel:
\* every ping is answered in time, whatever both ends' pings, pongs and data do
\* in between.
NoFalseAlarm ==
    \A e \in End : ended[e] = "unresponsive" => net = "down" \/ stalls > 0

\* A dead or unreadable tunnel is given up: no end goes on longer without
\* handling a frame than its interval, the time for the answer to one ping, and
\* the writes of Listen that stall in between: the ping, and while the network
\* works the pong of a frame that counts as handled only when it is answered.
\* Such a write may last its own timeout and another one for every relay that
\* comes to the tunnel meanwhile, for each moves the deadline they share.
DeadDetected ==
    \A e \in End : Running(e) =>
        silent[e] <= interval[e] + Tmo
                     + (1 + Relays) * WriteTmo
                       * (IF stalls > 0 THEN 2 ELSE IF net = "down" THEN 1 ELSE 0)

\* Behind a frame that was cut off, or that a read deadline tore, an end
\* handles at most one more frame: the one whose body was filled up.
CutContained == \A e \in End : behind[e] <= 1
=============================================================================
