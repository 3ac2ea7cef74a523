------------------------------- MODULE Edge -------------------------------
(***************************************************************************)
(* One edge connection of a multiplexer and its queue                      *)
(* (src/tunnel/queue.go: edgeConn, equeue), with the goroutines that share *)
(* it:                                                                     *)
(*   - opener: egressRouter.register, which hands over the frames buffered *)
(*     while the server was connecting (_push_all);                        *)
(*   - listen: multiplexer.Listen, which delivers DATA and CLOSE_W frames  *)
(*     and applies CLOSE_R;                                                *)
(*   - loop: equeue.sendLoop, the only consumer, parked on a condition     *)
(*     variable while the queue is empty;                                  *)
(*   - relay: multiplexer.relay, which ends when the connection cannot be  *)
(*     read any more and tells the peer;                                   *)
(*   - killer: cleanOfTun or router.destroy, which pushes CLOSE.           *)
(* A critical section of q.lock is one action; Signal comes after Unlock,  *)
(* and edgeConn.closed is changed by a separate load and compare-and-swap. *)
(***************************************************************************)
EXTENDS Naturals, Sequences, FiniteSets

CONSTANTS PreData,   \* frames buffered in preRegistry before register
          MaxData    \* bound: DATA frames the peer sends to this edge

ASSUME EdgeAssumption ==
    /\ PreData \in Nat
    /\ MaxData \in Nat

Bits == {"R", "W"}      \* TCP_CLOSE_R, TCP_CLOSE_W; both: TCP_CLOSED
Acts == {"DATA", "CLOSE_W", "CLOSE"}
Frame == [act : Acts, n : Nat]
Data(i) == [act |-> "DATA", n |-> i]
\* Mutant of CloseW: the other close frame.
CloseRead == [act |-> "CLOSE_R", n |-> 0]

\* The frame FRAME_ACTION_CLOSE_W as it is queued.
CloseW  == [act |-> "CLOSE_W", n |-> 0]
CloseAll == [act |-> "CLOSE", n |-> 0]

Producers == {"opener", "listen", "killer"}
Setters   == {"listen", "relay", "loop"}   \* callers of bitwiseCompareAndSet

VARIABLES
    buffer,    \* q.buffer
    bufNil,    \* q.buffer = nil
    batch,     \* the list sendLoop took, from the current frame on
    loop,      \* control state of sendLoop
    owes,      \* producers between Unlock and Signal
    opener,    \* control state of register
    listen,    \* control state of Listen
    got,       \* DATA frames Listen has received for this edge
    peerW,     \* the peer has sent CLOSE_W
    relay,     \* control state of relay
    code,      \* relay's open code: "OPEN_Y", "DENIED" or "none"
    notice,    \* the goroutine that writes relay's CLOSE_W is running
    killer,    \* control state of cleanOfTun / router.destroy
    registered,\* the edge is in router.registry
    closed,    \* edgeConn.closed
    loaded,    \* what each caller of bitwiseCompareAndSet has read
    rdOpen,    \* the connection can be read
    wrOpen,    \* the connection can be written
    toPeer,    \* control frames this edge has sent to the peer
    accepted,  \* history: frames put into q.buffer
    written    \* history: frames written to the connection

vars == <<buffer, bufNil, batch, loop, owes, opener, listen, got, peerW, relay,
          code, notice, killer, registered, closed, loaded, rdOpen, wrOpen,
          toPeer, accepted, written>>
queueVars  == <<buffer, bufNil, accepted>>
bitVars    == <<closed, loaded>>
connVars   == <<rdOpen, wrOpen>>
peerVars   == <<got, peerW>>
relayVars  == <<relay, code, notice>>

Init ==
    /\ buffer = <<>> /\ bufNil = FALSE
    /\ batch = <<>> /\ loop = "check"
    /\ owes = {}
    /\ opener = "push"
    /\ listen = "recv" /\ got = PreData /\ peerW = FALSE
    /\ relay = "read" /\ code = "none" /\ notice = FALSE
    /\ killer = "idle"
    /\ registered = TRUE
    /\ closed = {} /\ loaded = [a \in Setters |-> {}]
    /\ rdOpen = TRUE /\ wrOpen = TRUE
    /\ toPeer = {}
    /\ accepted = <<>> /\ written = <<>>

-----------------------------------------------------------------------------
(* Producers *)

\* Mutants of push: no Signal; the frames are put in front.
pushSilent(p, fs) ==
    /\ IF bufNil THEN UNCHANGED <<buffer, accepted>>
       ELSE buffer' = buffer \o fs /\ accepted' = accepted \o fs
    /\ UNCHANGED <<owes, bufNil>>
pushFront(p, fs) ==
    /\ IF bufNil THEN UNCHANGED <<buffer, accepted>>
       ELSE buffer' = fs \o buffer /\ accepted' = accepted \o fs
    /\ owes' = owes \cup {p}
    /\ UNCHANGED bufNil

\* _push and _push_all: append unless the queue was exited, then Signal.
push(p, fs) ==
    /\ IF bufNil THEN UNCHANGED <<buffer, accepted>>
       ELSE buffer' = buffer \o fs /\ accepted' = accepted \o fs
    /\ owes' = owes \cup {p}
    /\ UNCHANGED bufNil

\* cond.Signal wakes the loop if it is parked, and is lost otherwise.
Signal(p) ==
    /\ p \in owes
    /\ owes' = owes \ {p}
    /\ loop' = IF loop = "waiting" THEN "check" ELSE loop
    /\ UNCHANGED <<queueVars, batch, opener, listen, peerVars, relayVars,
                   killer, registered, bitVars, connVars, toPeer, written>>

\* register: the frames received in fast open, in order.
PushAll ==
    /\ opener = "push"
    /\ opener' = "signal"
    /\ push("opener", [i \in 1 .. PreData |-> Data(i)])
    /\ UNCHANGED <<batch, loop, listen, peerVars, relayVars, killer,
                   registered, bitVars, connVars, toPeer, written>>

\* register returns and releases the router's lock.
Registered == opener = "signal" /\ "opener" \notin owes

\* getRegistered: a fully closed edge is dropped from the registry.
Lookup == registered /\ closed /= Bits

\* Listen receives a DATA frame: the edge is looked up and, when it is gone,
\* the peer is told to stop.
ListenData ==
    /\ Registered /\ listen = "recv" /\ "listen" \notin owes
    /\ ~peerW /\ got < PreData + MaxData
    /\ got' = got + 1
    /\ registered' = Lookup
    /\ IF Lookup THEN listen' = "deliver" /\ UNCHANGED toPeer
       ELSE toPeer' = toPeer \cup {"CLOSE_R"} /\ UNCHANGED listen
    /\ UNCHANGED <<queueVars, batch, loop, owes, opener, peerW, relayVars,
                   killer, bitVars, connVars, written>>

ListenDeliver ==
    /\ listen = "deliver"
    /\ listen' = "recv"
    /\ push("listen", <<Data(got)>>)
    /\ UNCHANGED <<batch, loop, opener, peerVars, relayVars, killer,
                   registered, bitVars, connVars, toPeer, written>>

\* Listen receives CLOSE_W ...
ListenCloseW ==
    /\ Registered /\ listen = "recv" /\ "listen" \notin owes
    /\ ~peerW
    /\ peerW' = TRUE
    /\ registered' = Lookup
    /\ listen' = IF Lookup THEN "loadW" ELSE "recv"
    /\ UNCHANGED <<queueVars, batch, loop, owes, opener, got, relayVars,
                   killer, bitVars, connVars, toPeer, written>>

\* ... and after bitwiseCompareAndSet delivers it.
ListenDeliverW ==
    /\ listen = "deliverW"
    /\ listen' = "recv"
    /\ push("listen", <<CloseW>>)
    /\ UNCHANGED <<batch, loop, opener, peerVars, relayVars, killer,
                   registered, bitVars, connVars, toPeer, written>>

\* Listen receives CLOSE_R ...
ListenCloseR ==
    /\ Registered /\ listen = "recv" /\ "listen" \notin owes
    /\ registered' = Lookup
    /\ listen' = IF Lookup THEN "loadR" ELSE "recv"
    /\ UNCHANGED <<queueVars, batch, loop, owes, opener, peerVars, relayVars,
                   killer, bitVars, connVars, toPeer, written>>

\* ... and after bitwiseCompareAndSet shuts the read side.
ListenShutR ==
    /\ listen = "shutR"
    /\ listen' = "recv"
    /\ rdOpen' = FALSE
    /\ UNCHANGED <<queueVars, batch, loop, owes, opener, peerVars, relayVars,
                   killer, registered, bitVars, wrOpen, toPeer, written>>

\* cleanOfTun or router.destroy: push CLOSE, drop the edge from the registry.
Kill ==
    /\ Registered /\ killer = "idle" /\ registered
    /\ killer' = "done"
    /\ registered' = FALSE
    /\ push("killer", <<CloseAll>>)
    /\ UNCHANGED <<batch, loop, opener, listen, peerVars, relayVars, bitVars,
                   connVars, toPeer, written>>

\* clean, every TICKER_INTERVAL.
Clean ==
    /\ Registered /\ registered /\ closed = Bits
    /\ registered' = FALSE
    /\ UNCHANGED <<queueVars, batch, loop, owes, opener, listen, peerVars,
                   relayVars, killer, bitVars, connVars, toPeer, written>>

-----------------------------------------------------------------------------
(* bitwiseCompareAndSet(mask): one load, at most one compare-and-swap. *)

\* The load; a set bit ends the call with false.
bitFree(mask) == mask \notin closed
loadBit(a, mask) ==
    /\ loaded' = [loaded EXCEPT ![a] = IF bitFree(mask) THEN closed ELSE {}]
    /\ UNCHANGED closed

\* Mutant of casWins: a plain store.
storeAlways(a) == TRUE

\* The compare-and-swap succeeds only if nothing changed since the load.
casWins(a) == closed = loaded[a]
casBit(a, mask) ==
    /\ closed' = IF casWins(a) THEN loaded[a] \cup {mask} ELSE closed
    /\ loaded' = [loaded EXCEPT ![a] = {}]

ListenLoad ==
    /\ listen \in {"loadW", "loadR"}
    /\ LET m == IF listen = "loadW" THEN "W" ELSE "R" IN
         /\ loadBit("listen", m)
         /\ listen' = IF bitFree(m)
                      THEN (IF m = "W" THEN "casW" ELSE "casR")
                      ELSE (IF m = "W" THEN "deliverW" ELSE "shutR")
    /\ UNCHANGED <<queueVars, batch, loop, owes, opener, peerVars, relayVars,
                   killer, registered, connVars, toPeer, written>>

ListenCas ==
    /\ listen \in {"casW", "casR"}
    /\ casBit("listen", IF listen = "casW" THEN "W" ELSE "R")
    /\ listen' = IF listen = "casW" THEN "deliverW" ELSE "shutR"
    /\ UNCHANGED <<queueVars, batch, loop, owes, opener, peerVars, relayVars,
                   killer, registered, connVars, toPeer, written>>

-----------------------------------------------------------------------------
(* sendLoop *)

\* Lock; park while the queue is empty, else take the whole list.
LoopTake ==
    /\ loop = "check"
    /\ IF buffer = <<>>
       THEN loop' = "waiting" /\ UNCHANGED <<batch, buffer>>
       ELSE /\ batch' = buffer
            /\ buffer' = <<>>
            /\ loop' = "send"
    /\ UNCHANGED <<bufNil, accepted, owes, opener, listen, peerVars, relayVars, killer, registered, bitVars, connVars, toPeer, written>>

\* sendFrame succeeds.
LoopWrite ==
    /\ loop = "send" /\ Head(batch).act = "DATA" /\ wrOpen
    /\ written' = Append(written, Head(batch))
    /\ batch' = Tail(batch)
    /\ loop' = IF Tail(batch) = <<>> THEN "check" ELSE "send"
    /\ UNCHANGED <<queueVars, owes, opener, listen, peerVars, relayVars,
                   killer, registered, bitVars, connVars, toPeer>>

\* sendFrame fails: the far end is gone or too slow, or the socket was closed.
LoopWriteErr ==
    /\ loop = "send" /\ Head(batch).act = "DATA"
    /\ loop' = "load"
    /\ UNCHANGED <<queueVars, batch, owes, opener, listen, peerVars, relayVars, killer, registered, bitVars, connVars, toPeer, written>>

LoopLoad ==
    /\ loop = "load"
    /\ loadBit("loop", "W")
    /\ loop' = IF bitFree("W") THEN "cas" ELSE "abort"
    /\ UNCHANGED <<queueVars, batch, owes, opener, listen, peerVars, relayVars, killer, registered, connVars, toPeer, written>>

LoopCas ==
    /\ loop = "cas"
    /\ casBit("loop", "W")
    /\ loop' = IF casWins("loop") THEN "notify" ELSE "abort"
    /\ UNCHANGED <<queueVars, batch, owes, opener, listen, peerVars, relayVars, killer, registered, connVars, toPeer, written>>

\* "only actively closed can notify peer"
LoopNotify ==
    /\ loop = "notify"
    /\ toPeer' = toPeer \cup {"CLOSE_R"}
    /\ loop' = "abort"
    /\ UNCHANGED <<queueVars, batch, owes, opener, listen, peerVars, relayVars, killer, registered, bitVars, connVars, written>>

\* _close(true): the rest is freed, the queue is nil, the connection closed.
closeForce ==
    /\ buffer' = <<>> /\ bufNil' = TRUE /\ UNCHANGED accepted
    /\ closed' = Bits /\ UNCHANGED loaded
    /\ rdOpen' = FALSE /\ wrOpen' = FALSE
    /\ loop' = "exited"

LoopAbort ==
    /\ loop = "abort"
    /\ closeForce
    /\ UNCHANGED <<batch, owes, opener, listen, peerVars, relayVars, killer,
                   registered, toPeer, written>>

LoopClose ==
    /\ loop = "send" /\ Head(batch).act = "CLOSE"
    /\ closeForce
    /\ UNCHANGED <<batch, owes, opener, listen, peerVars, relayVars, killer,
                   registered, toPeer, written>>

\* _close(false)
LoopCloseW ==
    /\ loop = "send" /\ Head(batch).act = "CLOSE_W"
    /\ buffer' = <<>> /\ bufNil' = TRUE
    /\ wrOpen' = FALSE
    /\ loop' = "exited"
    /\ UNCHANGED <<accepted, batch, owes, opener, listen, peerVars, relayVars,
                   killer, registered, bitVars, rdOpen, toPeer, written>>

-----------------------------------------------------------------------------
(* relay: its deferred function *)

\* EOF or an error on the connection, a failed write to the tunnel, or a
\* refused open; code says which signal relay had received by then.
RelayEnd ==
    /\ Registered /\ relay = "read"
    /\ relay' = "load"
    /\ code' \in {"OPEN_Y", "DENIED", "none"}
    /\ UNCHANGED <<queueVars, batch, loop, owes, opener, listen, peerVars,
                   notice, killer, registered, bitVars, connVars, toPeer, written>>

RelayLoad ==
    /\ relay = "load"
    /\ loadBit("relay", "R")
    /\ relay' = IF bitFree("R") THEN "cas" ELSE "shut"
    /\ UNCHANGED <<queueVars, batch, loop, owes, opener, listen, peerVars, code,
                   notice, killer, registered, connVars, toPeer, written>>

\* "actively close then notify peer": the CLOSE_W frame is written by a
\* goroutine of its own.
RelayCas ==
    /\ relay = "cas"
    /\ casBit("relay", "R")
    /\ notice' = (casWins("relay") /\ code /= "DENIED")
    /\ relay' = "shut"
    /\ UNCHANGED <<queueVars, batch, loop, owes, opener, listen, peerVars, code,
                   killer, registered, connVars, toPeer, written>>

RelayNotice ==
    /\ notice
    /\ notice' = FALSE
    /\ toPeer' = toPeer \cup {"CLOSE_W"}
    /\ UNCHANGED <<queueVars, batch, loop, owes, opener, listen, peerVars, relay,
                   code, killer, registered, bitVars, connVars, written>>

\* closeR after OPEN_Y, else the whole connection is closed.
RelayShut ==
    /\ relay = "shut"
    /\ rdOpen' = FALSE
    /\ wrOpen' = (wrOpen /\ code = "OPEN_Y")
    /\ relay' = "done"
    /\ UNCHANGED <<queueVars, batch, loop, owes, opener, listen, peerVars, code,
                   notice, killer, registered, bitVars, toPeer, written>>

-----------------------------------------------------------------------------
Produce == PushAll \/ (\E p \in Producers : Signal(p))
ListenRun ==
    \/ ListenDeliver \/ ListenDeliverW \/ ListenShutR \/ ListenLoad
    \/ ListenCas
Listen == ListenData \/ ListenCloseW \/ ListenCloseR \/ ListenRun
Loop ==
    \/ LoopTake \/ LoopWrite \/ LoopWriteErr \/ LoopLoad \/ LoopCas
    \/ LoopNotify \/ LoopAbort \/ LoopClose \/ LoopCloseW
RelayRun == RelayLoad \/ RelayCas \/ RelayShut
Relay == RelayEnd \/ RelayRun \/ RelayNotice

Next == Produce \/ Listen \/ Kill \/ Clean \/ Loop \/ Relay

Spec == Init /\ [][Next]_vars

\* The Go scheduler runs every goroutine that is not waiting for the network:
\* a producer reaches its Signal, sendLoop goes on (a write has a deadline),
\* relay finishes its deferred function, and a read on a connection whose
\* read side is shut returns.
FairSpec ==
    /\ Spec
    /\ \A p \in Producers : WF_vars(Signal(p))
    /\ WF_vars(PushAll)
    /\ WF_vars(ListenRun)
    /\ WF_vars(Loop)
    /\ WF_vars(RelayRun \/ (~rdOpen /\ RelayEnd))
    /\ WF_vars(RelayNotice)

-----------------------------------------------------------------------------
(* Properties *)

\* Every variable has its type.
TypeQueue ==
    /\ buffer \in Seq(Frame) /\ batch \in Seq(Frame)
    /\ accepted \in Seq(Frame) /\ written \in Seq(Frame)
TypeFlags ==
    /\ bufNil \in BOOLEAN /\ peerW \in BOOLEAN /\ notice \in BOOLEAN
    /\ registered \in BOOLEAN /\ rdOpen \in BOOLEAN /\ wrOpen \in BOOLEAN
TypeControl ==
    /\ loop \in {"check", "waiting", "send", "load", "cas", "notify", "abort",
                 "exited"}
    /\ owes \in SUBSET Producers
    /\ opener \in {"push", "signal"}
    /\ listen \in {"recv", "deliver", "loadW", "casW", "deliverW", "loadR",
                   "casR", "shutR"}
    /\ relay \in {"read", "load", "cas", "shut", "done"}
    /\ code \in {"OPEN_Y", "DENIED", "none"}
    /\ killer \in {"idle", "done"}
    /\ got \in Nat
    /\ closed \in SUBSET Bits /\ loaded \in [Setters -> SUBSET Bits]
    /\ toPeer \in SUBSET {"CLOSE_W", "CLOSE_R"}
TypeOK == TypeQueue /\ TypeFlags /\ TypeControl

\* The queue keeps the promise of EdgeStream: what is written is what was
\* accepted, in order, from the first frame on, never past a closing frame,
\* and nothing is accepted or written once the queue was exited.
Stream == INSTANCE EdgeStream WITH open <- ~bufNil
ImplementsStream == Stream!Spec

\* sendLoop is never parked on a non-empty queue unless a producer is still
\* on its way to Signal: the Signal after Unlock loses no wake-up.
NoLostWakeup == loop = "waiting" /\ buffer /= <<>> => owes /= {}

\* While sendLoop may look at q.buffer the list is not nil.
LoopHasBuffer == loop /= "exited" => ~bufNil

\* Until the queue is exited, every frame it took is in one of three places, in
\* order: written, in the list sendLoop took, or in the shared list.  This is
\* what makes ImplementsStream inductive.
QueueSplit == ~bufNil => accepted = written \o (batch \o buffer)

\* sendLoop has a list in hand exactly while it is sending.
BatchState ==
    /\ loop \in {"check", "waiting"} => batch = <<>>
    /\ loop = "send" => batch /= <<>>

\* The inductive invariant of the proofs.
IInv == TypeOK /\ QueueSplit /\ BatchState /\ LoopHasBuffer /\ NoLostWakeup

\* A close bit, once set, is never lost, although every caller swaps in a
\* value computed from an earlier load.
CloseBitsStay == [][closed \subseteq closed']_vars

\* Every frame the queue takes is dealt with: all of them are written, or one
\* of them, or a failed write, ends the queue.
EveryFrameHandled == accepted /= written ~> (accepted = written \/ bufNil)
=============================================================================
