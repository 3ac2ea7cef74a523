---------------------------- MODULE EdgeProofs ----------------------------
(***************************************************************************)
(* Proofs about one edge and its queue, for any number of frames.          *)
(***************************************************************************)
EXTENDS Edge, SequenceTheorems, TLAPS

-----------------------------------------------------------------------------
(* Facts about sequences *)

\* A queue whose first list is not empty: the next element of the whole is
\* the head of that list, and moving it to the written part keeps the whole.
LEMMA QueueHead ==
    ASSUME NEW S, NEW w \in Seq(S), NEW b \in Seq(S), NEW c \in Seq(S),
           NEW a \in Seq(S), b /= <<>>, a = w \o (b \o c)
    PROVE  /\ Len(w) < Len(a)
           /\ a[Len(w) + 1] = Head(b)
           /\ a = Append(w, Head(b)) \o (Tail(b) \o c)
PROOF
  <1>1. /\ Head(b) \in S /\ Tail(b) \in Seq(S)
        /\ b = <<Head(b)>> \o Tail(b)
    BY SMT
  <1>2. b \o c \in Seq(S) /\ Len(b \o c) = Len(b) + Len(c) /\ (b \o c)[1] = b[1]
    BY ConcatProperties, SMT
  <1>3. Len(w) < Len(a) /\ a[Len(w) + 1] = Head(b)
    BY <1>2, ConcatProperties, SMT
  <1>4. b \o c = <<Head(b)>> \o (Tail(b) \o c)
    BY <1>1, SMT
  <1>5. w \o (<<Head(b)>> \o (Tail(b) \o c)) = (w \o <<Head(b)>>) \o (Tail(b) \o c)
    <2> DEFINE h == <<Head(b)>>
               r == Tail(b) \o c
    <2>1. h \in Seq(S) /\ r \in Seq(S)
      BY <1>1, ConcatProperties
    <2> HIDE DEF h, r
    <2>2. (w \o h) \o r = w \o (h \o r)
      BY <2>1, SMTT(30)
    <2> QED
      BY <2>2 DEF h, r
  <1>6. Append(w, Head(b)) = w \o <<Head(b)>>
    BY <1>1, AppendIsConcat
  <1> QED
    BY <1>3, <1>4, <1>5, <1>6

\* Appending to the last part appends to the whole.
LEMMA QueueAppend ==
    ASSUME NEW S, NEW w \in Seq(S), NEW b \in Seq(S), NEW c \in Seq(S),
           NEW f \in Seq(S)
    PROVE  (w \o (b \o c)) \o f = w \o (b \o (c \o f))
PROOF
  <1>1. b \o c \in Seq(S)
    BY ConcatProperties
  <1>2. (b \o c) \o f = b \o (c \o f)
    BY SMTT(30)
  <1>3. (w \o (b \o c)) \o f = w \o ((b \o c) \o f)
    BY <1>1, SMTT(30)
  <1> QED
    BY <1>2, <1>3, Zenon

\* A sequence is a prefix of what is appended to it.
LEMMA PrefixOfConcat ==
    ASSUME NEW S, NEW a \in Seq(S), NEW f \in Seq(S)
    PROVE  Stream!IsPrefix(a, a \o f)
PROOF
  <1>1. Len(a \o f) = Len(a) + Len(f) /\ a \o f \in Seq(S)
    BY ConcatProperties
  <1>2. SubSeq(a, 1, Len(a)) = a
    BY SubSeqFull
  <1>3. SubSeq(a \o f, 1, Len(a)) = a
    BY SubSeqOfConcat1, <1>2, SMT
  <1> QED
    BY <1>1, <1>2, <1>3, SMT DEF Stream!IsPrefix

-----------------------------------------------------------------------------
(* The invariant *)

\* The frames handed over by register form a sequence of frames.
LEMMA PreFrames == [i \in 1 .. PreData |-> Data(i)] \in Seq(Frame)
PROOF
  <1>1. \A i \in 1 .. PreData : Data(i) \in Frame
    BY EdgeAssumption DEF Data, Frame, Acts
  <1> QED
    BY <1>1, EdgeAssumption, IsASeq

\* One push, by any producer, of any frames.
LEMMA PushStep ==
    ASSUME IInv, NEW p \in Producers, NEW fs \in Seq(Frame), push(p, fs),
           UNCHANGED <<batch, loop, written>>
    PROVE  /\ buffer' \in Seq(Frame) /\ accepted' \in Seq(Frame)
           /\ bufNil' \in BOOLEAN /\ owes' \in SUBSET Producers
           /\ QueueSplit' /\ BatchState' /\ LoopHasBuffer' /\ NoLostWakeup'
PROOF
  <1>0. /\ buffer \in Seq(Frame) /\ accepted \in Seq(Frame)
        /\ batch \in Seq(Frame) /\ written \in Seq(Frame)
        /\ bufNil \in BOOLEAN /\ owes \in SUBSET Producers
        /\ QueueSplit /\ BatchState /\ LoopHasBuffer /\ NoLostWakeup
    BY DEF IInv, TypeOK, TypeQueue, TypeFlags, TypeControl
  <1>1. bufNil' = bufNil /\ owes' = owes \cup {p}
    BY DEF push
  <1>2. CASE bufNil
    <2>1. buffer' = buffer /\ accepted' = accepted
      BY <1>2 DEF push
    <2> QED
      BY <1>0, <1>1, <1>2, <2>1
      DEF QueueSplit, BatchState, LoopHasBuffer, NoLostWakeup
  <1>3. CASE ~bufNil
    <2>1. buffer' = buffer \o fs /\ accepted' = accepted \o fs
      BY <1>3 DEF push
    <2>2. accepted = written \o (batch \o buffer)
      BY <1>0, <1>3 DEF QueueSplit
    <2>3. (written \o (batch \o buffer)) \o fs = written \o (batch \o (buffer \o fs))
      <3>1. /\ buffer \in Seq(Frame) /\ batch \in Seq(Frame)
            /\ written \in Seq(Frame)
        BY <1>0
      <3> QED
        BY <3>1, QueueAppend, SMTT(90)
    <2>4. buffer' \in Seq(Frame) /\ accepted' \in Seq(Frame)
      BY <1>0, <2>1, ConcatProperties
    <2>5. QueueSplit'
      BY <2>1, <2>2, <2>3 DEF QueueSplit
    <2> QED
      BY <1>0, <1>1, <1>3, <2>4, <2>5
      DEF BatchState, LoopHasBuffer, NoLostWakeup
  <1> QED
    BY <1>0, <1>2, <1>3

\* The invariant holds initially.
LEMMA InitIInv == Init => IInv
PROOF
  <1> SUFFICES ASSUME Init PROVE IInv
    OBVIOUS
  <1>1. TypeQueue /\ TypeControl
    BY EdgeAssumption DEF Init, TypeQueue, TypeControl, Bits, Setters, Producers
  <1>2. TypeFlags
    BY Zenon DEF Init, TypeFlags
  <1>3. QueueSplit
    BY ConcatEmptySeq, EmptySeq DEF Init, QueueSplit
  <1> QED
    BY <1>1, <1>2, <1>3 DEF TypeOK, Init, IInv, BatchState, LoopHasBuffer, NoLostWakeup

\* Every step keeps the types of flags and control states.
LEMMA ControlStep ==
    ASSUME TypeFlags, TypeControl, [Next]_vars
    PROVE  TypeFlags' /\ TypeControl'
PROOF
  <1> USE DEF queueVars, peerVars, relayVars, bitVars, connVars
  <1>1. ASSUME NEW p \in Producers, Signal(p) PROVE TypeFlags' /\ TypeControl'
    <2>1. TypeControl'
      BY <1>1 DEF Signal, TypeControl
    <2>2. TypeFlags'
      BY <1>1, Zenon DEF Signal, TypeFlags
    <2> QED
      BY <2>1, <2>2
  <1>2. CASE PushAll
    <2>1. TypeControl'
      BY <1>2 DEF PushAll, push, TypeControl, Bits, Setters, Producers
    <2>2. TypeFlags'
      BY <1>2, Zenon DEF PushAll, push, TypeFlags
    <2> QED
      BY <2>1, <2>2
  <1>3. CASE ListenData
    <2>1. TypeControl'
      <3>1. got' = got + 1
        BY <1>3 DEF ListenData
      <3>2. /\ listen' \in {listen, "deliver"}
            /\ toPeer' \in {toPeer, toPeer \cup {"CLOSE_R"}}
        BY <1>3, Zenon DEF ListenData
      <3>3. UNCHANGED <<loop, owes, opener, relay, code, killer, closed, loaded>>
        BY <1>3 DEF ListenData
      <3> QED
        BY <3>1, <3>2, <3>3 DEF TypeControl
    <2>2. TypeFlags'
      BY <1>3, Zenon DEF ListenData, Lookup, TypeFlags
    <2> QED
      BY <2>1, <2>2
  <1>4. CASE ListenDeliver
    <2>1. TypeControl'
      BY <1>4 DEF ListenDeliver, push, TypeControl, Bits, Setters, Producers
    <2>2. TypeFlags'
      BY <1>4, Zenon DEF ListenDeliver, push, TypeFlags
    <2> QED
      BY <2>1, <2>2
  <1>5. CASE ListenCloseW
    <2>1. TypeControl'
      BY <1>5 DEF ListenCloseW, Lookup, TypeControl, Bits, Setters, Producers
    <2>2. TypeFlags'
      BY <1>5, Zenon DEF ListenCloseW, Lookup, TypeFlags
    <2> QED
      BY <2>1, <2>2
  <1>6. CASE ListenDeliverW
    <2>1. TypeControl'
      BY <1>6 DEF ListenDeliverW, push, TypeControl, Bits, Setters, Producers
    <2>2. TypeFlags'
      BY <1>6, Zenon DEF ListenDeliverW, push, TypeFlags
    <2> QED
      BY <2>1, <2>2
  <1>7. CASE ListenCloseR
    <2>1. TypeControl'
      BY <1>7 DEF ListenCloseR, Lookup, TypeControl, Bits, Setters, Producers
    <2>2. TypeFlags'
      BY <1>7, Zenon DEF ListenCloseR, Lookup, TypeFlags
    <2> QED
      BY <2>1, <2>2
  <1>8. CASE ListenShutR
    <2>1. TypeControl'
      BY <1>8 DEF ListenShutR, TypeControl, Bits, Setters, Producers
    <2>2. TypeFlags'
      BY <1>8, Zenon DEF ListenShutR, TypeFlags
    <2> QED
      BY <2>1, <2>2
  <1>9. CASE ListenLoad
    <2>1. TypeControl'
      BY <1>9 DEF ListenLoad, loadBit, bitFree, TypeControl, Bits, Setters, Producers
    <2>2. TypeFlags'
      BY <1>9, Zenon DEF ListenLoad, loadBit, bitFree, TypeFlags
    <2> QED
      BY <2>1, <2>2
  <1>10. CASE ListenCas
    <2>1. TypeControl'
      BY <1>10 DEF ListenCas, casBit, casWins, TypeControl, Bits, Setters, Producers
    <2>2. TypeFlags'
      BY <1>10, Zenon DEF ListenCas, casBit, casWins, TypeFlags
    <2> QED
      BY <2>1, <2>2
  <1>11. CASE Kill
    <2>1. TypeControl'
      BY <1>11 DEF Kill, push, TypeControl, Bits, Setters, Producers
    <2>2. TypeFlags'
      BY <1>11, Zenon DEF Kill, push, TypeFlags
    <2> QED
      BY <2>1, <2>2
  <1>12. CASE Clean
    <2>1. TypeControl'
      BY <1>12 DEF Clean, TypeControl, Bits, Setters, Producers
    <2>2. TypeFlags'
      BY <1>12, Zenon DEF Clean, TypeFlags
    <2> QED
      BY <2>1, <2>2
  <1>13. CASE LoopTake
    <2>1. TypeControl'
      BY <1>13 DEF LoopTake, TypeControl, Bits, Setters, Producers
    <2>2. TypeFlags'
      BY <1>13, Zenon DEF LoopTake, TypeFlags
    <2> QED
      BY <2>1, <2>2
  <1>14. CASE LoopWrite
    <2>1. TypeControl'
      BY <1>14 DEF LoopWrite, TypeControl, Bits, Setters, Producers
    <2>2. TypeFlags'
      BY <1>14, Zenon DEF LoopWrite, TypeFlags
    <2> QED
      BY <2>1, <2>2
  <1>15. CASE LoopWriteErr
    <2>1. TypeControl'
      BY <1>15 DEF LoopWriteErr, TypeControl, Bits, Setters, Producers
    <2>2. TypeFlags'
      BY <1>15, Zenon DEF LoopWriteErr, TypeFlags
    <2> QED
      BY <2>1, <2>2
  <1>16. CASE LoopLoad
    <2>1. TypeControl'
      BY <1>16 DEF LoopLoad, loadBit, bitFree, TypeControl, Bits, Setters, Producers
    <2>2. TypeFlags'
      BY <1>16, Zenon DEF LoopLoad, loadBit, bitFree, TypeFlags
    <2> QED
      BY <2>1, <2>2
  <1>17. CASE LoopCas
    <2>1. TypeControl'
      BY <1>17 DEF LoopCas, casBit, casWins, TypeControl, Bits, Setters, Producers
    <2>2. TypeFlags'
      BY <1>17, Zenon DEF LoopCas, casBit, casWins, TypeFlags
    <2> QED
      BY <2>1, <2>2
  <1>18. CASE LoopNotify
    <2>1. TypeControl'
      BY <1>18 DEF LoopNotify, TypeControl, Bits, Setters, Producers
    <2>2. TypeFlags'
      BY <1>18, Zenon DEF LoopNotify, TypeFlags
    <2> QED
      BY <2>1, <2>2
  <1>19. CASE LoopAbort
    <2>1. TypeControl'
      BY <1>19 DEF LoopAbort, closeForce, TypeControl, Bits, Setters, Producers
    <2>2. TypeFlags'
      BY <1>19, Zenon DEF LoopAbort, closeForce, TypeFlags
    <2> QED
      BY <2>1, <2>2
  <1>20. CASE LoopClose
    <2>1. TypeControl'
      BY <1>20 DEF LoopClose, closeForce, TypeControl, Bits, Setters, Producers
    <2>2. TypeFlags'
      BY <1>20, Zenon DEF LoopClose, closeForce, TypeFlags
    <2> QED
      BY <2>1, <2>2
  <1>21. CASE LoopCloseW
    <2>1. TypeControl'
      BY <1>21 DEF LoopCloseW, TypeControl, Bits, Setters, Producers
    <2>2. TypeFlags'
      BY <1>21, Zenon DEF LoopCloseW, TypeFlags
    <2> QED
      BY <2>1, <2>2
  <1>22. CASE RelayEnd
    <2>1. TypeControl'
      BY <1>22 DEF RelayEnd, TypeControl, Bits, Setters, Producers
    <2>2. TypeFlags'
      BY <1>22, Zenon DEF RelayEnd, TypeFlags
    <2> QED
      BY <2>1, <2>2
  <1>23. CASE RelayLoad
    <2>1. TypeControl'
      BY <1>23 DEF RelayLoad, loadBit, bitFree, TypeControl, Bits, Setters, Producers
    <2>2. TypeFlags'
      BY <1>23, Zenon DEF RelayLoad, loadBit, bitFree, TypeFlags
    <2> QED
      BY <2>1, <2>2
  <1>24. CASE RelayCas
    <2>1. TypeControl'
      BY <1>24 DEF RelayCas, casBit, casWins, TypeControl, Bits, Setters, Producers
    <2>2. TypeFlags'
      BY <1>24, Zenon DEF RelayCas, casBit, casWins, TypeFlags
    <2> QED
      BY <2>1, <2>2
  <1>25. CASE RelayNotice
    <2>1. TypeControl'
      BY <1>25 DEF RelayNotice, TypeControl, Bits, Setters, Producers
    <2>2. TypeFlags'
      BY <1>25, Zenon DEF RelayNotice, TypeFlags
    <2> QED
      BY <2>1, <2>2
  <1>26. CASE RelayShut
    <2>1. TypeControl'
      BY <1>26 DEF RelayShut, TypeControl, Bits, Setters, Producers
    <2>2. TypeFlags'
      BY <1>26, Zenon DEF RelayShut, TypeFlags
    <2> QED
      BY <2>1, <2>2
  <1>27. CASE UNCHANGED vars
    <2>1. TypeControl'
      BY <1>27 DEF vars, TypeControl
    <2>2. TypeFlags'
      BY <1>27, Zenon DEF vars, TypeFlags
    <2> QED
      BY <2>1, <2>2
  <1> QED
    BY <1>1, <1>2, <1>3, <1>4, <1>5, <1>6, <1>7, <1>8, <1>9, <1>10, <1>11, <1>12, <1>13,
       <1>14, <1>15, <1>16, <1>17, <1>18, <1>19, <1>20, <1>21, <1>22, <1>23, <1>24, <1>25,
       <1>26, <1>27
    DEF Next, Produce, Listen, ListenRun, Loop, Relay, RelayRun

\* A step that leaves the queue, sendLoop and the pending signals alone keeps
\* every part of the invariant that speaks of them.
QuietVars == <<buffer, bufNil, batch, accepted, written, loop, owes>>
QueueInv == TypeQueue /\ QueueSplit /\ BatchState /\ LoopHasBuffer /\ NoLostWakeup
LEMMA QuietStep ==
    ASSUME QueueInv, UNCHANGED QuietVars
    PROVE  QueueInv'
PROOF
  BY DEF QueueInv, QuietVars, TypeQueue, QueueSplit, BatchState, LoopHasBuffer,
         NoLostWakeup

\* The steps of sendLoop that only move it towards _close(true).
LEMMA LoopMove ==
    ASSUME QueueInv, UNCHANGED <<buffer, bufNil, batch, accepted, written, owes>>,
           loop \notin {"waiting", "exited"},
           loop' \in {"load", "cas", "notify", "abort"}
    PROVE  QueueInv'
PROOF
  BY DEF QueueInv, TypeQueue, QueueSplit, BatchState, LoopHasBuffer, NoLostWakeup

\* The steps of sendLoop that exit the queue.
LEMMA LoopExit ==
    ASSUME QueueInv, UNCHANGED <<batch, accepted, written>>,
           buffer' = <<>>, bufNil' = TRUE, loop' = "exited"
    PROVE  QueueInv'
PROOF
  BY EmptySeq DEF QueueInv, TypeQueue, QueueSplit, BatchState, LoopHasBuffer,
     NoLostWakeup

\* sendLoop takes the whole list, or parks when it is empty.
LEMMA TakeStep ==
    ASSUME IInv, LoopTake
    PROVE  QueueInv'
PROOF
  <1>1. /\ buffer \in Seq(Frame) /\ batch = <<>> /\ written \in Seq(Frame)
        /\ accepted \in Seq(Frame) /\ loop = "check"
    BY DEF IInv, TypeOK, TypeQueue, BatchState, LoopTake
  <1>2. ~bufNil /\ bufNil' = bufNil
    BY <1>1 DEF IInv, LoopHasBuffer, LoopTake
  <1>3. accepted = written \o buffer /\ accepted' = accepted /\ written' = written
    BY <1>1, <1>2, ConcatEmptySeq DEF IInv, QueueSplit, LoopTake
  <1>4. CASE buffer = <<>>
    <2>1. /\ loop' = "waiting" /\ batch' = batch /\ buffer' = buffer
      BY <1>4 DEF LoopTake
    <2>2. accepted' = written' \o (batch' \o buffer')
      BY <1>1, <1>3, <1>4, <2>1, ConcatEmptySeq
    <2> QED
      BY <1>1, <1>2, <1>3, <1>4, <2>1, <2>2
      DEF QueueInv, TypeQueue, QueueSplit, BatchState, LoopHasBuffer, NoLostWakeup
  <1>5. CASE buffer /= <<>>
    <2>1. /\ loop' = "send" /\ batch' = buffer /\ buffer' = <<>>
      BY <1>5 DEF LoopTake
    <2>2. accepted' = written' \o (batch' \o buffer')
      BY <1>1, <1>3, <2>1, ConcatEmptySeq
    <2> QED
      BY <1>1, <1>2, <1>3, <1>5, <2>1, <2>2, EmptySeq
      DEF QueueInv, TypeQueue, QueueSplit, BatchState, LoopHasBuffer, NoLostWakeup
  <1> QED
    BY <1>4, <1>5

\* sendLoop writes the next frame.
LEMMA WriteStep ==
    ASSUME IInv, LoopWrite
    PROVE  /\ QueueInv'
           /\ Len(written) < Len(accepted)
           /\ accepted[Len(written) + 1] = Head(batch)
PROOF
  <1>1. /\ buffer \in Seq(Frame) /\ batch \in Seq(Frame) /\ written \in Seq(Frame)
        /\ accepted \in Seq(Frame) /\ loop = "send" /\ batch /= <<>>
    BY DEF IInv, TypeOK, TypeQueue, BatchState, LoopWrite
  <1>2. ~bufNil /\ bufNil' = bufNil /\ accepted = written \o (batch \o buffer)
    BY <1>1 DEF IInv, LoopHasBuffer, QueueSplit, LoopWrite, queueVars
  <1>3. /\ Len(written) < Len(accepted)
        /\ accepted[Len(written) + 1] = Head(batch)
        /\ accepted = Append(written, Head(batch)) \o (Tail(batch) \o buffer)
    BY <1>1, <1>2, QueueHead, SMTT(30)
  <1>4. /\ written' = Append(written, Head(batch)) /\ batch' = Tail(batch)
        /\ accepted' = accepted /\ buffer' = buffer /\ owes' = owes
        /\ loop' = IF Tail(batch) = <<>> THEN "check" ELSE "send"
    BY DEF LoopWrite, queueVars
  <1>5. /\ written' \in Seq(Frame) /\ batch' \in Seq(Frame)
    BY <1>1, <1>4, HeadTailProperties, AppendProperties
  <1>6. QueueInv'
    BY <1>1, <1>2, <1>3, <1>4, <1>5
    DEF QueueInv, TypeQueue, QueueSplit, BatchState, LoopHasBuffer, NoLostWakeup
  <1> QED
    BY <1>3, <1>6

\* Every step keeps the invariant.
LEMMA NextIInv == IInv /\ [Next]_vars => IInv'
PROOF
  <1> SUFFICES ASSUME IInv, [Next]_vars PROVE IInv'
    OBVIOUS
  <1>1. TypeFlags' /\ TypeControl'
    BY ControlStep DEF IInv, TypeOK
  <1>2. QueueInv
    BY DEF IInv, TypeOK, QueueInv
  <1>3. QueueInv'
    <2>1. ASSUME NEW p \in Producers, Signal(p) PROVE QueueInv'
      <3>1. /\ UNCHANGED <<buffer, bufNil, batch, accepted, written>>
            /\ loop' = IF loop = "waiting" THEN "check" ELSE loop
        BY <2>1 DEF Signal, queueVars
      <3> QED
        BY <1>2, <3>1 DEF QueueInv, TypeQueue, QueueSplit, BatchState,
           LoopHasBuffer, NoLostWakeup
    <2>2. CASE PushAll
      BY <2>2, PushStep, PreFrames DEF PushAll, Producers, QueueInv, TypeQueue,
         IInv, TypeOK
    <2>3. CASE ListenDeliver
      <3>1. <<Data(got)>> \in Seq(Frame)
        BY DEF Data, Frame, Acts, IInv, TypeOK, TypeControl
      <3> QED
        BY <2>3, <3>1, PushStep DEF ListenDeliver, Producers, QueueInv,
           TypeQueue, IInv, TypeOK
    <2>4. CASE ListenDeliverW
      <3>1. <<CloseW>> \in Seq(Frame)
        BY DEF CloseW, Frame, Acts
      <3> QED
        BY <2>4, <3>1, PushStep DEF ListenDeliverW, Producers, QueueInv,
           TypeQueue, IInv, TypeOK
    <2>5. CASE Kill
      <3>1. <<CloseAll>> \in Seq(Frame)
        BY DEF CloseAll, Frame, Acts
      <3> QED
        BY <2>5, <3>1, PushStep DEF Kill, Producers, QueueInv, TypeQueue,
           IInv, TypeOK
    <2>6. CASE LoopTake
      BY <2>6, TakeStep
    <2>7. CASE LoopWrite
      BY <2>7, WriteStep
    <2>8. CASE LoopWriteErr \/ LoopLoad \/ LoopCas \/ LoopNotify
      BY <1>2, <2>8, LoopMove
      DEF LoopWriteErr, LoopLoad, LoopCas, LoopNotify, queueVars
    <2>9. CASE LoopAbort \/ LoopClose \/ LoopCloseW
      BY <1>2, <2>9, LoopExit DEF LoopAbort, LoopClose, LoopCloseW, closeForce
    <2>10. CASE ListenData
      BY <1>2, <2>10, QuietStep DEF ListenData, QuietVars, queueVars
    <2>11. CASE ListenCloseW
      BY <1>2, <2>11, QuietStep DEF ListenCloseW, QuietVars, queueVars
    <2>12. CASE ListenCloseR
      BY <1>2, <2>12, QuietStep DEF ListenCloseR, QuietVars, queueVars
    <2>13. CASE ListenShutR
      BY <1>2, <2>13, QuietStep DEF ListenShutR, QuietVars, queueVars
    <2>14. CASE ListenLoad
      BY <1>2, <2>14, QuietStep DEF ListenLoad, QuietVars, queueVars
    <2>15. CASE ListenCas
      BY <1>2, <2>15, QuietStep DEF ListenCas, QuietVars, queueVars
    <2>16. CASE Clean
      BY <1>2, <2>16, QuietStep DEF Clean, QuietVars, queueVars
    <2>17. CASE RelayEnd
      BY <1>2, <2>17, QuietStep DEF RelayEnd, QuietVars, queueVars
    <2>18. CASE RelayLoad
      BY <1>2, <2>18, QuietStep DEF RelayLoad, QuietVars, queueVars
    <2>19. CASE RelayCas
      BY <1>2, <2>19, QuietStep DEF RelayCas, QuietVars, queueVars
    <2>20. CASE RelayNotice
      BY <1>2, <2>20, QuietStep DEF RelayNotice, QuietVars, queueVars
    <2>21. CASE RelayShut
      BY <1>2, <2>21, QuietStep DEF RelayShut, QuietVars, queueVars
    <2>22. CASE UNCHANGED vars
      BY <1>2, <2>22, QuietStep DEF vars, QuietVars
    <2> QED
      BY <2>1, <2>2, <2>3, <2>4, <2>5, <2>6, <2>7, <2>8, <2>9,
         <2>10, <2>11, <2>12, <2>13, <2>14, <2>15, <2>16,
         <2>17, <2>18, <2>19, <2>20, <2>21, <2>22
      DEF Next, Produce, Listen, ListenRun, Loop, Relay, RelayRun
  <1> QED
    BY <1>1, <1>3 DEF IInv, TypeOK, QueueInv

\* In every reachable state of an edge its variables are well typed, the frames
\* taken are split between connection, sendLoop and queue in order, sendLoop
\* never meets a nil list and no wake-up is lost.
THEOREM EdgeInvariant == Spec => []IInv
PROOF
  BY InitIInv, NextIInv, PTL DEF Spec

\* Every variable of an edge keeps its type.
THEOREM EdgeTypes == Spec => []TypeOK
PROOF
  <1>1. IInv => TypeOK
    BY DEF IInv
  <1> QED
    BY <1>1, EdgeInvariant, PTL

\* sendLoop is never left parked on a non-empty queue.
THEOREM EdgeNoLostWakeup == Spec => []NoLostWakeup
PROOF
  <1>1. IInv => NoLostWakeup
    BY DEF IInv
  <1> QED
    BY <1>1, EdgeInvariant, PTL

\* sendLoop never meets a nil list.
THEOREM EdgeLoopHasBuffer == Spec => []LoopHasBuffer
PROOF
  <1>1. IInv => LoopHasBuffer
    BY DEF IInv
  <1> QED
    BY <1>1, EdgeInvariant, PTL

-----------------------------------------------------------------------------
(* The queue implements EdgeStream *)

StreamStep == [Stream!Next]_(Stream!streamVars)

\* A push is an Accept, or stutters once the queue was exited.
LEMMA PushIsAccept ==
    ASSUME IInv, NEW p \in Producers, NEW fs \in Seq(Frame), push(p, fs),
           UNCHANGED written
    PROVE  StreamStep
PROOF
  <1>1. CASE bufNil
    BY <1>1 DEF push, StreamStep, Stream!streamVars
  <1>2. CASE ~bufNil
    <2>1. accepted \in Seq(Frame)
      BY DEF IInv, TypeOK, TypeQueue
    <2>2. accepted' = accepted \o fs /\ bufNil' = bufNil
      BY <1>2 DEF push
    <2>3. Stream!IsPrefix(accepted, accepted')
      BY <2>1, <2>2, PrefixOfConcat
    <2> QED
      BY <1>2, <2>2, <2>3 DEF StreamStep, Stream!Next, Stream!Accept
  <1> QED
    BY <1>1, <1>2

\* Leaving the queue is a Shut.
LEMMA ExitIsShut ==
    ASSUME ~bufNil, bufNil' = TRUE, UNCHANGED <<accepted, written>>
    PROVE  StreamStep
PROOF
  BY DEF StreamStep, Stream!Next, Stream!Shut

\* Every step of an edge is a step of the stream or leaves it alone.
LEMMA StepRefines == IInv /\ [Next]_vars => StreamStep
PROOF
  <1> SUFFICES ASSUME IInv, [Next]_vars PROVE StreamStep
    OBVIOUS
  <1> DEFINE Same == UNCHANGED <<accepted, written, bufNil>>
  <1>0. ASSUME Same PROVE StreamStep
    BY <1>0 DEF StreamStep, Stream!streamVars
  <1>1. ASSUME NEW p \in Producers, Signal(p) PROVE Same
    BY <1>1 DEF Signal, queueVars
  <1>2. CASE PushAll
    BY <1>2, PushIsAccept, PreFrames DEF PushAll, Producers
  <1>3. CASE ListenDeliver
    <2>1. <<Data(got)>> \in Seq(Frame)
      BY DEF Data, Frame, Acts, IInv, TypeOK, TypeControl
    <2> QED
      BY <1>3, <2>1, PushIsAccept DEF ListenDeliver, Producers
  <1>4. CASE ListenDeliverW
    <2>1. <<CloseW>> \in Seq(Frame)
      BY DEF CloseW, Frame, Acts
    <2> QED
      BY <1>4, <2>1, PushIsAccept DEF ListenDeliverW, Producers
  <1>5. CASE Kill
    <2>1. <<CloseAll>> \in Seq(Frame)
      BY DEF CloseAll, Frame, Acts
    <2> QED
      BY <1>5, <2>1, PushIsAccept DEF Kill, Producers
  <1>6. CASE LoopTake
    <2>1. Same
      BY <1>6 DEF LoopTake
    <2> QED
      BY <1>0, <2>1
  <1>7. CASE LoopWrite
    <2>1. /\ Len(written) < Len(accepted)
          /\ accepted[Len(written) + 1] = Head(batch)
      BY <1>7, WriteStep
    <2>2. /\ Head(batch).act = "DATA" /\ written' = Append(written, Head(batch))
          /\ accepted' = accepted /\ bufNil' = bufNil
      BY <1>7 DEF LoopWrite, queueVars
    <2>3. ~bufNil
      BY <1>7 DEF LoopWrite, IInv, LoopHasBuffer
    <2> QED
      BY <2>1, <2>2, <2>3 DEF StreamStep, Stream!Next, Stream!Write
  <1>8. CASE LoopWriteErr \/ LoopLoad \/ LoopCas \/ LoopNotify
    <2>1. Same
      BY <1>8 DEF LoopWriteErr, LoopLoad, LoopCas, LoopNotify, queueVars
    <2> QED
      BY <1>0, <2>1
  <1>9. CASE LoopAbort \/ LoopClose \/ LoopCloseW
    <2>1. loop /= "exited" /\ bufNil' = TRUE /\ UNCHANGED <<accepted, written>>
      BY <1>9 DEF LoopAbort, LoopClose, LoopCloseW, closeForce
    <2>2. ~bufNil
      BY <2>1 DEF IInv, LoopHasBuffer
    <2> QED
      BY <2>1, <2>2, ExitIsShut
  <1>10. CASE \/ ListenData \/ ListenCloseW \/ ListenCloseR \/ ListenShutR
              \/ ListenLoad \/ ListenCas \/ Clean
    <2>1. Same
      BY <1>10 DEF ListenData, ListenCloseW, ListenCloseR, ListenShutR,
         ListenLoad, ListenCas, Clean, queueVars
    <2> QED
      BY <1>0, <2>1
  <1>11. CASE RelayEnd \/ RelayLoad \/ RelayCas \/ RelayNotice \/ RelayShut
    <2>1. Same
      BY <1>11 DEF RelayEnd, RelayLoad, RelayCas, RelayNotice, RelayShut, queueVars
    <2> QED
      BY <1>0, <2>1
  <1>12. CASE UNCHANGED vars
    <2>1. Same
      BY <1>12 DEF vars
    <2> QED
      BY <1>0, <2>1
  <1> QED
    BY <1>0, <1>1, <1>2, <1>3, <1>4, <1>5, <1>6, <1>7, <1>8, <1>9, <1>10,
       <1>11, <1>12
    DEF Next, Produce, Listen, ListenRun, Loop, Relay, RelayRun

\* The queue, with its condition variable and its swapped lists, is a gap-free
\* stream in order, closed once and for all.
THEOREM EdgeRefinesStream == Spec => ImplementsStream
PROOF
  <1>1. Init => Stream!Init
    BY DEF Init, Stream!Init
  <1>2. IInv /\ [Next]_vars => [Stream!Next]_(Stream!streamVars)
    BY StepRefines DEF StreamStep
  <1> QED
    BY <1>1, <1>2, EdgeInvariant, PTL DEF Spec, ImplementsStream, Stream!Spec

-----------------------------------------------------------------------------
(* The close bits *)

\* A compare-and-swap of bitwiseCompareAndSet sets a bit and clears none.
LEMMA CasKeepsBits ==
    ASSUME NEW a, NEW mask, casBit(a, mask)
    PROVE  closed \subseteq closed'
PROOF
  BY DEF casBit, casWins

\* No step of any goroutine clears a close bit of the edge.
THEOREM EdgeCloseBitsStay == Spec => CloseBitsStay
PROOF
  <1>1. IInv /\ [Next]_vars => [closed \subseteq closed']_vars
    <2> SUFFICES ASSUME IInv, Next PROVE closed \subseteq closed'
      OBVIOUS
    <2>1. closed \subseteq Bits
      BY DEF IInv, TypeOK, TypeControl
    <2>2. ASSUME NEW p \in Producers, Signal(p) PROVE closed' = closed
      BY <2>2 DEF Signal, bitVars
    <2>3. CASE PushAll \/ Kill \/ Clean
      BY <2>3 DEF PushAll, Kill, Clean, bitVars
    <2>4. CASE \/ ListenData \/ ListenDeliver \/ ListenCloseW \/ ListenDeliverW
               \/ ListenCloseR \/ ListenShutR
      BY <2>4 DEF ListenData, ListenDeliver, ListenCloseW, ListenDeliverW,
         ListenCloseR, ListenShutR, bitVars
    <2>5. CASE ListenLoad \/ LoopLoad \/ RelayLoad
      BY <2>5 DEF ListenLoad, LoopLoad, RelayLoad, loadBit
    <2>6. CASE ListenCas \/ LoopCas \/ RelayCas
      BY <2>6, CasKeepsBits DEF ListenCas, LoopCas, RelayCas
    <2>7. CASE LoopTake \/ LoopWrite \/ LoopWriteErr \/ LoopNotify \/ LoopCloseW
      BY <2>7 DEF LoopTake, LoopWrite, LoopWriteErr, LoopNotify, LoopCloseW, bitVars
    <2>8. CASE LoopAbort \/ LoopClose
      BY <2>1, <2>8 DEF LoopAbort, LoopClose, closeForce
    <2>9. CASE RelayEnd \/ RelayNotice \/ RelayShut
      BY <2>9 DEF RelayEnd, RelayNotice, RelayShut, bitVars
    <2> QED
      BY <2>2, <2>3, <2>4, <2>5, <2>6, <2>7, <2>8, <2>9
      DEF Next, Produce, Listen, ListenRun, Loop, Relay, RelayRun
  <1> QED
    BY <1>1, EdgeInvariant, PTL DEF Spec, CloseBitsStay
=============================================================================
