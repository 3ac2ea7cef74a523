---------------------------- MODULE ClientProofs ----------------------------
(***************************************************************************)
(* Proofs about Client, for any number of goroutines, tunnels and tokens.  *)
(*                                                                         *)
(* The step of the proof is done one part of the invariant at a time.  The *)
(* lemma of a part names the other parts it rests on.                      *)
(***************************************************************************)
EXTENDS Client, FiniteSetTheorems, SequenceTheorems, TLAPS

\* A goroutine that has a tunnel, or has taken a token for one, knows the
\* session it belongs to.
HasTun == \A g \in G : pc[g] \in {"resume", "count", "enter", "listen"} => tun[g] \in Nat

\* mustRestart is an argument of StartTun: it is false once it was looked at.
MustPc == \A g \in G : must[g] => pc[g] \in {"start", "check"}

\* Until the first restart is done its goroutine is the only one.
FirstRound ==
    round = 0 => \A g \in G : pc[g] /= "free" =>
                   /\ Restarting(g) \/ pc[g] = "round"
                   /\ \A h \in G : pc[h] /= "free" => h = g

\* A later restart runs behind the compare-and-swap.
RestartPending == \A g \in G : Restarting(g) /\ round > 0 => state = CLT_PENDING

\* No mux is destroyed before it is made.
DeadMade == \A m \in dead : m <= mux

\* The mux a restart has made stays c.mux, alive, until the restart is over.
FreshMux ==
    \A g \in G : pc[g] \in {"login", "working"} \/ (pc[g] = "round" /\ round = 0)
                 => mux > 0 /\ mux \notin dead

\* The goroutine that did the last restart is not outdated: it ends only when
\* a later restart is under way.
Current ==
    state = CLT_WORKING =>
        \E g \in G : pc[g] = "round" \/ (pc[g] /= "free" /\ rn[g] = round)

RestartInv == MustPc /\ FirstRound /\ RestartPending /\ OneRestart

IInv == TypeOK /\ DtCount /\ HasTun /\ RestartInv /\ DeadMade /\ FreshMux
        /\ WorkingMux /\ Current

\* The goroutines dtCnt counts are finitely many.
LEMMA CountedFinite ==
    LET C == {g \in G : pc[g] \in Counted}
    IN  IsFiniteSet(C) /\ Cardinality(C) \in Nat
<1>1. {g \in G : pc[g] \in Counted} \in SUBSET G
  OBVIOUS
<1> QED  BY <1>1, ClientAssumption, FS_Subset, FS_CardinalityType

\* A goroutine that is counted makes the count positive.
LEMMA CountedPositive ==
    ASSUME DtCount, NEW g \in G, pc[g] \in Counted
    PROVE  dtCnt \in Nat /\ dtCnt > 0
<1> DEFINE C == {h \in G : pc[h] \in Counted}
<1>1. IsFiniteSet(C) /\ Cardinality(C) \in Nat
  BY CountedFinite
<1>2. C /= {}
  OBVIOUS
<1> HIDE DEF C
<1>3. Cardinality(C) /= 0
  BY <1>1, <1>2, FS_EmptySet
<1> QED  BY <1>1, <1>3 DEF DtCount, C

\* A step that moves nobody into or out of the counted region keeps the count.
LEMMA SameCounted ==
    ASSUME DtCount, dtCnt' = dtCnt,
           \A h \in G : pc'[h] \in Counted <=> pc[h] \in Counted
    PROVE  DtCount'
<1>1. {h \in G : pc'[h] \in Counted} = {h \in G : pc[h] \in Counted}
  OBVIOUS
<1> QED  BY <1>1 DEF DtCount

\* One goroutine enters the counted region.
LEMMA OneMoreCounted ==
    ASSUME DtCount, NEW g \in G, pc[g] \notin Counted, dtCnt' = dtCnt + 1,
           \A h \in G : pc'[h] \in Counted <=> pc[h] \in Counted \/ h = g
    PROVE  DtCount'
<1> DEFINE C == {h \in G : pc[h] \in Counted}
<1>1. {h \in G : pc'[h] \in Counted} = C \cup {g}
  OBVIOUS
<1>2. IsFiniteSet(C) /\ g \notin C
  BY CountedFinite
<1>3. Cardinality(C \cup {g}) = Cardinality(C) + 1
  BY <1>2, FS_AddElement
<1> QED  BY <1>1, <1>3 DEF DtCount

\* One goroutine leaves it.
LEMMA OneLessCounted ==
    ASSUME DtCount, NEW g \in G, pc[g] \in Counted, dtCnt' = dtCnt - 1,
           \A h \in G : pc'[h] \in Counted <=> pc[h] \in Counted /\ h /= g
    PROVE  DtCount'
<1> DEFINE C == {h \in G : pc[h] \in Counted}
<1>1. {h \in G : pc'[h] \in Counted} = C \ {g}
  OBVIOUS
<1>2. IsFiniteSet(C) /\ g \in C
  BY CountedFinite
<1>3. Cardinality(C \ {g}) = Cardinality(C) - 1
  BY <1>2, FS_RemoveElement
<1> QED  BY <1>1, <1>3 DEF DtCount
\* The control state and the locals of the goroutines have their types.
TypeLocals ==
    /\ pc \in [G -> Pcs] /\ rn \in [G -> Nat] /\ tun \in [G -> Nat \cup {None}]
    /\ on \in [G -> Nat] /\ cnt \in [G -> Nat]

\* The locals keep their types when StartTun returns.
LEMMA ExitType ==
    ASSUME TypeLocals, NEW g \in G, Exit(g)
    PROVE  TypeLocals'
<1>1. pc' \in [G -> Pcs]
  BY DEF TypeLocals, Exit, Goto, Pcs
<1>2. rn' \in [G -> Nat] /\ cnt' \in [G -> Nat] /\ on' \in [G -> Nat]
  BY DEF TypeLocals, Exit
<1>3. tun' \in [G -> Nat \cup {None}]
  BY DEF TypeLocals, Exit
<1> QED  BY <1>1, <1>2, <1>3 DEF TypeLocals

\* The locals keep their types whoever was the last.
LEMMA OfflineType ==
    ASSUME TypeLocals, NEW g \in G, Offline(g)
    PROVE  TypeLocals'
<1>1. CASE cnt[g] > 0 /\ Goto(g, "check") /\ cnt' = [cnt EXCEPT ![g] = 0]
           /\ UNCHANGED <<rn, tun, on>>
  BY <1>1 DEF TypeLocals, Goto, Pcs
<1>2. CASE Goto(g, "start") /\ rn' = [rn EXCEPT ![g] = 0] /\ UNCHANGED <<tun, on, cnt>>
  BY <1>2 DEF TypeLocals, Goto, Pcs
<1>3. CASE Exit(g)
  BY <1>3, ExitType
<1> QED  BY <1>1, <1>2, <1>3 DEF Offline

\* Every step keeps the types; dtCnt never falls below zero because it counts
\* the goroutine that leaves.
LEMMA TypeStep ==
    ASSUME TypeOK, DtCount, HasTun, Next
    PROVE  TypeOK'
<1> USE ClientAssumption DEF TypeOK, Goto, Exit, locals, muxVars, tokenVars,
           Pcs, RestartPcs, Counted, CLT_WORKING, CLT_PENDING
<1>1. ASSUME NEW g \in G, Start(g) PROVE TypeOK'
  BY <1>1 DEF Start
<1>2. ASSUME NEW g \in G, Check(g) PROVE TypeOK'
  <2>1. must' \in [G -> BOOLEAN]
    BY <1>2, Zenon DEF Check
  <2>2. TypeLocals'
    <3>1. CASE Outdated(g)
      BY <1>2, <3>1, ExitType DEF Check, TypeLocals
    <3>2. CASE ~Outdated(g)
      BY <1>2, <3>2 DEF Check, TypeLocals
    <3> QED  BY <3>1, <3>2
  <2> QED  BY <1>2, <2>1, <2>2 DEF Check, TypeLocals
<1>3. ASSUME NEW g \in G, State(g) PROVE TypeOK'
  <2>1. CASE state /= CLT_WORKING
    <3>1. TypeLocals'
      BY <1>3, <2>1, ExitType DEF State, TypeLocals
    <3> QED  BY <1>3, <3>1 DEF State, TypeLocals
  <2>2. CASE state = CLT_WORKING
    BY <1>3, <2>2 DEF State
  <2> QED  BY <2>1, <2>2
<1>4. ASSUME NEW g \in G, RestartClear(g) PROVE TypeOK'
  BY <1>4 DEF RestartClear
<1>5. ASSUME NEW g \in G, RestartSpin(g) PROVE TypeOK'
  BY <1>5 DEF RestartSpin
<1>6. ASSUME NEW g \in G, RestartDestroy(g) PROVE TypeOK'
  BY <1>6 DEF RestartDestroy
<1>7. ASSUME NEW g \in G, RestartNewMux(g) PROVE TypeOK'
  BY <1>7 DEF RestartNewMux
<1>8. ASSUME NEW g \in G, RestartLogin(g) PROVE TypeOK'
  BY <1>8 DEF RestartLogin
<1>9. ASSUME NEW g \in G, RestartWorking(g) PROVE TypeOK'
  BY <1>9 DEF RestartWorking
<1>10. ASSUME NEW g \in G, RestartRound(g) PROVE TypeOK'
  BY <1>10 DEF RestartRound
<1>11. ASSUME NEW g \in G, RestartSpawn(g) PROVE TypeOK'
  BY <1>11 DEF RestartSpawn
<1>12. ASSUME NEW g \in G, GetToken(g) PROVE TypeOK'
  <2>1. asked' \in BOOLEAN
    BY <1>12 DEF GetToken
  <2>2. CASE token = <<>>
    BY <1>12, <2>1, <2>2 DEF GetToken
  <2>3. CASE token /= <<>>
    <3>1. Head(token) \in Nat /\ Tail(token) \in Seq(Nat)
      BY <2>3, HeadTailProperties
    <3>2. tun' \in [G -> Nat \cup {None}]
      BY <1>12, <2>3, <3>1 DEF GetToken, takeToken
    <3> QED  BY <1>12, <2>1, <2>3, <3>1, <3>2 DEF GetToken, takeToken
  <2> QED  BY <2>2, <2>3
<1>13. ASSUME NEW g \in G, GetTokenAgain(g) PROVE TypeOK'
  <2>1. CASE token = <<>>
    BY <1>13, <2>1 DEF GetTokenAgain
  <2>2. CASE token /= <<>>
    <3>1. Head(token) \in Nat /\ Tail(token) \in Seq(Nat)
      BY <2>2, HeadTailProperties
    <3>2. tun' \in [G -> Nat \cup {None}]
      BY <1>13, <2>2, <3>1 DEF GetTokenAgain, takeToken
    <3> QED  BY <1>13, <2>2, <3>1, <3>2 DEF GetTokenAgain, takeToken
  <2> QED  BY <2>1, <2>2
<1>14. ASSUME NEW g \in G, AwaitTimeout(g) PROVE TypeOK'
  BY <1>14 DEF AwaitTimeout
<1>15. ASSUME NEW g \in G, Resume(g) PROVE TypeOK'
  BY <1>15 DEF Resume
<1>16. ASSUME NEW g \in G, Count(g) PROVE TypeOK'
  BY <1>16 DEF Count, AddTun
<1>17. ASSUME NEW g \in G, Enter(g) PROVE TypeOK'
  <2>1. crashed' \in BOOLEAN
    BY <1>17 DEF Enter
  <2>2. on' \in [G -> Nat]
    BY <1>17 DEF Enter
  <2>3. pc' \in [G -> Pcs]
    BY <1>17 DEF Enter
  <2> QED  BY <1>17, <2>1, <2>2, <2>3 DEF Enter
<1>18. ASSUME NEW g \in G, ListenPing(g) PROVE TypeOK'
  BY <1>18 DEF ListenPing
<1>19. ASSUME NEW g \in G, ListenTokens(g) PROVE TypeOK'
  BY <1>19 DEF ListenTokens, HasTun
<1>20. ASSUME NEW g \in G, ListenEnd(g) PROVE TypeOK'
  BY <1>20 DEF ListenEnd
<1>21. ASSUME NEW g \in G, Uncount(g) PROVE TypeOK'
  <2>1. dtCnt > 0
    BY <1>21, CountedPositive DEF Uncount
  <2> QED  BY <1>21, <2>1 DEF Uncount
<1>22. ASSUME NEW g \in G, Dirty(g) PROVE TypeOK'
  BY <1>22 DEF Dirty
<1>23. ASSUME NEW g \in G, Offline(g) PROVE TypeOK'
  <2>1. must' \in [G -> BOOLEAN]
    BY <1>23, Zenon DEF Offline
  <2>2. state' \in {CLT_WORKING, CLT_PENDING}
    BY <1>23 DEF Offline, casPending
  <2>3. TypeLocals'
    BY <1>23, OfflineType DEF TypeLocals
  <2> QED  BY <1>23, <2>1, <2>2, <2>3 DEF Offline, TypeLocals
<1>24. ASSUME NEW s \in 1 .. MaxLogin, SaveTokens(s) PROVE TypeOK'
  BY <1>24 DEF SaveTokens
<1> QED
  BY <1>1, <1>2, <1>3, <1>4, <1>5, <1>6, <1>7, <1>8, <1>9, <1>10, <1>11, <1>12,
     <1>13, <1>14, <1>15, <1>16, <1>17, <1>18, <1>19, <1>20, <1>21, <1>22, <1>23, <1>24
  DEF Next, Step

-----------------------------------------------------------------------------

\* A session is known from the token, or the login, on.
LEMMA TunStep ==
    ASSUME TypeOK, HasTun, Next
    PROVE  HasTun'
<1> USE DEF TypeOK, HasTun, Goto, Exit, locals
<1>1. ASSUME NEW g \in G, Start(g) PROVE HasTun'
  BY <1>1 DEF Start
<1>2. ASSUME NEW g \in G, Check(g) PROVE HasTun'
  <2>1. \A h \in G : \/ pc'[h] = pc[h] /\ tun'[h] = tun[h]
                     \/ pc'[h] \in {"free", "clear", "state"}
    <3>1. Exit(g) \/ (UNCHANGED tun /\ (Goto(g, "clear") \/ Goto(g, "state")))
      BY <1>2 DEF Check
    <3> QED  BY <3>1
  <2> QED  BY <2>1
<1>3. ASSUME NEW g \in G, State(g) PROVE HasTun'
  BY <1>3 DEF State
<1>4. ASSUME NEW g \in G, RestartClear(g) PROVE HasTun'
  BY <1>4 DEF RestartClear
<1>5. ASSUME NEW g \in G, RestartSpin(g) PROVE HasTun'
  BY <1>5 DEF RestartSpin
<1>6. ASSUME NEW g \in G, RestartDestroy(g) PROVE HasTun'
  BY <1>6 DEF RestartDestroy
<1>7. ASSUME NEW g \in G, RestartNewMux(g) PROVE HasTun'
  BY <1>7 DEF RestartNewMux
<1>8. ASSUME NEW g \in G, RestartLogin(g) PROVE HasTun'
  BY <1>8 DEF RestartLogin
<1>9. ASSUME NEW g \in G, RestartWorking(g) PROVE HasTun'
  BY <1>9 DEF RestartWorking
<1>10. ASSUME NEW g \in G, RestartRound(g) PROVE HasTun'
  BY <1>10 DEF RestartRound
<1>11. ASSUME NEW g \in G, RestartSpawn(g) PROVE HasTun'
  BY <1>11 DEF RestartSpawn
<1>12. ASSUME NEW g \in G, GetToken(g) PROVE HasTun'
  <2>1. token /= <<>> => Head(token) \in Nat
    BY HeadTailProperties
  <2> QED  BY <1>12, <2>1 DEF GetToken, takeToken
<1>13. ASSUME NEW g \in G, GetTokenAgain(g) PROVE HasTun'
  <2>1. token /= <<>> => Head(token) \in Nat
    BY HeadTailProperties
  <2> QED  BY <1>13, <2>1 DEF GetTokenAgain, takeToken
<1>14. ASSUME NEW g \in G, AwaitTimeout(g) PROVE HasTun'
  BY <1>14 DEF AwaitTimeout
<1>15. ASSUME NEW g \in G, Resume(g) PROVE HasTun'
  BY <1>15 DEF Resume
<1>16. ASSUME NEW g \in G, Count(g) PROVE HasTun'
  BY <1>16 DEF Count
<1>17. ASSUME NEW g \in G, Enter(g) PROVE HasTun'
  BY <1>17 DEF Enter
<1>18. ASSUME NEW g \in G, ListenPing(g) PROVE HasTun'
  BY <1>18 DEF ListenPing
<1>19. ASSUME NEW g \in G, ListenTokens(g) PROVE HasTun'
  BY <1>19 DEF ListenTokens
<1>20. ASSUME NEW g \in G, ListenEnd(g) PROVE HasTun'
  BY <1>20 DEF ListenEnd
<1>21. ASSUME NEW g \in G, Uncount(g) PROVE HasTun'
  BY <1>21 DEF Uncount
<1>22. ASSUME NEW g \in G, Dirty(g) PROVE HasTun'
  BY <1>22 DEF Dirty
<1>23. ASSUME NEW g \in G, Offline(g) PROVE HasTun'
  BY <1>23 DEF Offline
<1>24. ASSUME NEW s \in 1 .. MaxLogin, SaveTokens(s) PROVE HasTun'
  BY <1>24 DEF SaveTokens
<1> QED
  BY <1>1, <1>2, <1>3, <1>4, <1>5, <1>6, <1>7, <1>8, <1>9, <1>10, <1>11, <1>12,
     <1>13, <1>14, <1>15, <1>16, <1>17, <1>18, <1>19, <1>20, <1>21, <1>22, <1>23, <1>24
  DEF Next, Step

\* Only the two atomic additions change who is counted.
LEMMA CountStep ==
    ASSUME TypeOK, DtCount, Next
    PROVE  DtCount'
<1> USE DEF TypeOK, Goto, Exit, locals, RestartPcs, Counted
<1>1. ASSUME NEW g \in G, Start(g) PROVE DtCount'
  BY <1>1, SameCounted DEF Start
<1>2. ASSUME NEW g \in G, Check(g) PROVE DtCount'
  BY <1>2, SameCounted DEF Check
<1>3. ASSUME NEW g \in G, State(g) PROVE DtCount'
  BY <1>3, SameCounted DEF State
<1>4. ASSUME NEW g \in G, RestartClear(g) PROVE DtCount'
  BY <1>4, SameCounted DEF RestartClear
<1>5. ASSUME NEW g \in G, RestartSpin(g) PROVE DtCount'
  BY <1>5, SameCounted DEF RestartSpin
<1>6. ASSUME NEW g \in G, RestartDestroy(g) PROVE DtCount'
  BY <1>6, SameCounted DEF RestartDestroy
<1>7. ASSUME NEW g \in G, RestartNewMux(g) PROVE DtCount'
  BY <1>7, SameCounted DEF RestartNewMux
<1>8. ASSUME NEW g \in G, RestartLogin(g) PROVE DtCount'
  BY <1>8, SameCounted DEF RestartLogin
<1>9. ASSUME NEW g \in G, RestartWorking(g) PROVE DtCount'
  BY <1>9, SameCounted DEF RestartWorking
<1>10. ASSUME NEW g \in G, RestartRound(g) PROVE DtCount'
  BY <1>10, SameCounted DEF RestartRound
<1>11. ASSUME NEW g \in G, RestartSpawn(g) PROVE DtCount'
  BY <1>11, SameCounted DEF RestartSpawn
<1>12. ASSUME NEW g \in G, GetToken(g) PROVE DtCount'
  BY <1>12, SameCounted DEF GetToken, takeToken
<1>13. ASSUME NEW g \in G, GetTokenAgain(g) PROVE DtCount'
  BY <1>13, SameCounted DEF GetTokenAgain, takeToken
<1>14. ASSUME NEW g \in G, AwaitTimeout(g) PROVE DtCount'
  BY <1>14, SameCounted DEF AwaitTimeout
<1>15. ASSUME NEW g \in G, Resume(g) PROVE DtCount'
  BY <1>15, SameCounted DEF Resume
<1>16. ASSUME NEW g \in G, Count(g) PROVE DtCount'
  <2>1. \A h \in G : pc'[h] \in Counted <=> pc[h] \in Counted \/ h = g
    BY <1>16 DEF Count
  <2>2. pc[g] \notin Counted /\ dtCnt' = dtCnt + 1
    BY <1>16 DEF Count, AddTun
  <2> QED  BY <2>1, <2>2, OneMoreCounted
<1>17. ASSUME NEW g \in G, Enter(g) PROVE DtCount'
  BY <1>17, SameCounted DEF Enter
<1>18. ASSUME NEW g \in G, ListenPing(g) PROVE DtCount'
  BY <1>18, SameCounted DEF ListenPing
<1>19. ASSUME NEW g \in G, ListenTokens(g) PROVE DtCount'
  BY <1>19, SameCounted DEF ListenTokens
<1>20. ASSUME NEW g \in G, ListenEnd(g) PROVE DtCount'
  BY <1>20, SameCounted DEF ListenEnd
<1>21. ASSUME NEW g \in G, Uncount(g) PROVE DtCount'
  <2>1. \A h \in G : pc'[h] \in Counted <=> pc[h] \in Counted /\ h /= g
    BY <1>21 DEF Uncount
  <2>2. pc[g] \in Counted /\ dtCnt' = dtCnt - 1
    BY <1>21 DEF Uncount
  <2> QED  BY <2>1, <2>2, OneLessCounted
<1>22. ASSUME NEW g \in G, Dirty(g) PROVE DtCount'
  BY <1>22, SameCounted DEF Dirty
<1>23. ASSUME NEW g \in G, Offline(g) PROVE DtCount'
  BY <1>23, SameCounted DEF Offline
<1>24. ASSUME NEW s \in 1 .. MaxLogin, SaveTokens(s) PROVE DtCount'
  BY <1>24, SameCounted DEF SaveTokens
<1> QED
  BY <1>1, <1>2, <1>3, <1>4, <1>5, <1>6, <1>7, <1>8, <1>9, <1>10, <1>11, <1>12,
     <1>13, <1>14, <1>15, <1>16, <1>17, <1>18, <1>19, <1>20, <1>21, <1>22, <1>23, <1>24
  DEF Next, Step

\* A goroutine anywhere else in StartTun does not restart, and is there only
\* after the first restart.
LEMMA NotRestarting ==
    ASSUME TypeOK, RestartInv, NEW g \in G,
           pc[g] \notin {"free", "start", "check", "round"} \cup RestartPcs
    PROVE  round > 0 /\ ~Restarting(g) /\ ~must[g]
<1>1. ~Restarting(g) /\ ~must[g]
  BY DEF RestartInv, MustPc, Restarting
<1>2. round /= 0
  BY <1>1 DEF RestartInv, FirstRound
<1> QED  BY <1>1, <1>2 DEF TypeOK

\* Such a goroutine may go anywhere but into restart.
LEMMA QuietMove ==
    ASSUME TypeOK, RestartInv, UNCHANGED <<state, round, must>>, NEW g \in G,
           pc[g] \notin {"free", "start", "check", "round"} \cup RestartPcs,
           NEW l, l \notin RestartPcs, UNCHANGED pc \/ pc' = [pc EXCEPT ![g] = l]
    PROVE  RestartInv'
<1>1. round > 0 /\ ~Restarting(g) /\ ~must[g]
  BY NotRestarting
<1>2. /\ pc'[g] = pc[g] \/ pc'[g] = l
      /\ \A h \in G : h /= g => pc'[h] = pc[h]
  BY DEF TypeOK
<1>3. \A h \in G : Restarting(h)' => Restarting(h)
  BY <1>1, <1>2 DEF Restarting
<1>4. OneRestart' /\ RestartPending'
  BY <1>3 DEF RestartInv, OneRestart, RestartPending
<1>5. MustPc'
  BY <1>1, <1>2 DEF RestartInv, MustPc
<1>6. FirstRound'
  BY <1>1 DEF FirstRound
<1> QED  BY <1>4, <1>5, <1>6 DEF RestartInv

\* Nobody becomes a second restarter: the compare-and-swap is won only when
\* there is none.
LEMMA RestartStep ==
    ASSUME TypeOK, RestartInv, Next
    PROVE  RestartInv'
<1> USE DEF TypeOK, RestartInv, MustPc, FirstRound, RestartPending, OneRestart,
           Restarting, RestartPcs, Counted, Goto, Exit, locals, CLT_WORKING, CLT_PENDING
<1>1. ASSUME NEW g \in G, Start(g) PROVE RestartInv'
  BY <1>1 DEF Start
<1>2. ASSUME NEW g \in G, Check(g) PROVE RestartInv'
  <2>1. /\ pc[g] = "check" /\ must' = [must EXCEPT ![g] = FALSE] /\ UNCHANGED <<state, round>>
        /\ \/ pc' = [pc EXCEPT ![g] = "free"] /\ rn[g] < round
           \/ pc' = [pc EXCEPT ![g] = "clear"] /\ must[g]
           \/ pc' = [pc EXCEPT ![g] = "state"] /\ ~must[g]
    BY <1>2 DEF Check, Outdated
  <2>2. /\ pc'[g] = "free" \/ (pc'[g] = "clear" /\ must[g]) \/ (pc'[g] = "state" /\ ~must[g])
        /\ ~must'[g] /\ \A h \in G : h /= g => pc'[h] = pc[h] /\ must'[h] = must[h]
    BY <2>1
  <2>3. \A h \in G : Restarting(h)' => Restarting(h)
    BY <2>1, <2>2
  <2>4. MustPc'
    BY <2>2
  <2>5. FirstRound'
    BY <2>1, <2>2
  <2> QED  BY <2>1, <2>3, <2>4, <2>5
<1>3. ASSUME NEW g \in G, State(g) PROVE RestartInv'
  <2>1. round > 0 /\ ~Restarting(g) /\ ~must[g]
    BY <1>3, NotRestarting DEF State
  <2>2. \A h \in G : Restarting(h)' => Restarting(h)
    BY <1>3, <2>1 DEF State
  <2>3. MustPc'
    BY <1>3, <2>1 DEF State
  <2> QED  BY <1>3, <2>1, <2>2, <2>3 DEF State
<1>4. ASSUME NEW g \in G, RestartClear(g) PROVE RestartInv'
  BY <1>4 DEF RestartClear
<1>5. ASSUME NEW g \in G, RestartSpin(g) PROVE RestartInv'
  BY <1>5 DEF RestartSpin
<1>6. ASSUME NEW g \in G, RestartDestroy(g) PROVE RestartInv'
  BY <1>6 DEF RestartDestroy
<1>7. ASSUME NEW g \in G, RestartNewMux(g) PROVE RestartInv'
  BY <1>7 DEF RestartNewMux
<1>8. ASSUME NEW g \in G, RestartLogin(g) PROVE RestartInv'
  BY <1>8 DEF RestartLogin
<1>9. ASSUME NEW g \in G, RestartWorking(g) PROVE RestartInv'
  BY <1>9 DEF RestartWorking
<1>10. ASSUME NEW g \in G, RestartRound(g) PROVE RestartInv'
  <2>1. round' > 0 /\ ~must[g] /\ ~Restarting(g)
    BY <1>10 DEF RestartRound
  <2>2. \A h \in G : Restarting(h)' => Restarting(h) /\ h /= g
    BY <1>10, <2>1 DEF RestartRound
  <2>3. \A h \in G : Restarting(h) /\ h /= g => round > 0
    <3>1. pc[g] = "round" /\ round \in Nat
      BY <1>10 DEF RestartRound
    <3>2. round = 0 => \A h \in G : pc[h] /= "free" => h = g
      BY <3>1
    <3>3. \A h \in G : Restarting(h) => pc[h] /= "free"
      OBVIOUS
    <3> QED  BY <3>1, <3>2, <3>3
  <2>4. RestartPending'
    BY <1>10, <2>2, <2>3 DEF RestartRound
  <2>5. MustPc'
    BY <1>10, <2>1 DEF RestartRound
  <2> QED  BY <1>10, <2>1, <2>2, <2>4, <2>5 DEF RestartRound
<1>11. ASSUME NEW g \in G, RestartSpawn(g) PROVE RestartInv'
  <2>1. round > 0 /\ ~Restarting(g) /\ ~must[g]
    BY <1>11, NotRestarting DEF RestartSpawn
  <2>2. \A h \in G : Restarting(h)' => Restarting(h)
    BY <1>11, <2>1 DEF RestartSpawn
  <2>3. MustPc'
    BY <1>11, <2>1 DEF RestartSpawn
  <2> QED  BY <1>11, <2>1, <2>2, <2>3 DEF RestartSpawn
<1>12. ASSUME NEW g \in G, GetToken(g) PROVE RestartInv'
  <2>1. round > 0 /\ ~Restarting(g) /\ ~must[g]
    BY <1>12, NotRestarting DEF GetToken, takeToken
  <2>2. \A h \in G : Restarting(h)' => Restarting(h)
    BY <1>12, <2>1 DEF GetToken, takeToken
  <2>3. MustPc'
    BY <1>12, <2>1 DEF GetToken, takeToken
  <2> QED  BY <1>12, <2>1, <2>2, <2>3 DEF GetToken
<1>13. ASSUME NEW g \in G, GetTokenAgain(g) PROVE RestartInv'
  <2>1. round > 0 /\ ~Restarting(g) /\ ~must[g]
    BY <1>13, NotRestarting DEF GetTokenAgain, takeToken
  <2>2. \A h \in G : Restarting(h)' => Restarting(h)
    BY <1>13, <2>1 DEF GetTokenAgain, takeToken
  <2>3. MustPc'
    BY <1>13, <2>1 DEF GetTokenAgain, takeToken
  <2> QED  BY <1>13, <2>1, <2>2, <2>3 DEF GetTokenAgain
<1>14. ASSUME NEW g \in G, AwaitTimeout(g) PROVE RestartInv'
  <2>1. pc[g] = "await" /\ pc' = [pc EXCEPT ![g] = "check"] /\ UNCHANGED <<state, round, must>>
    BY <1>14 DEF AwaitTimeout
  <2> QED  BY <2>1, QuietMove
<1>15. ASSUME NEW g \in G, Resume(g) PROVE RestartInv'
  <2>1. round > 0 /\ ~Restarting(g) /\ ~must[g]
    BY <1>15, NotRestarting DEF Resume
  <2>2. \A h \in G : Restarting(h)' => Restarting(h)
    BY <1>15, <2>1 DEF Resume
  <2>3. MustPc'
    BY <1>15, <2>1 DEF Resume
  <2> QED  BY <1>15, <2>1, <2>2, <2>3 DEF Resume
<1>16. ASSUME NEW g \in G, Count(g) PROVE RestartInv'
  <2>1. pc[g] = "count" /\ pc' = [pc EXCEPT ![g] = "enter"] /\ UNCHANGED <<state, round, must>>
    BY <1>16 DEF Count
  <2> QED  BY <2>1, QuietMove
<1>17. ASSUME NEW g \in G, Enter(g) PROVE RestartInv'
  <2>1. /\ UNCHANGED <<state, round, must>>
        /\ pc[g] \notin {"free", "start", "check", "round"} \cup RestartPcs
        /\ "listen" \notin RestartPcs
    BY <1>17 DEF Enter
  <2>2. UNCHANGED pc \/ pc' = [pc EXCEPT ![g] = "listen"]
    BY <1>17 DEF Enter
  <2> QED  BY ONLY TypeOK, RestartInv, g \in G, <2>1, <2>2, QuietMove
<1>18. ASSUME NEW g \in G, ListenPing(g) PROVE RestartInv'
  <2>1. pc[g] = "listen" /\ UNCHANGED pc /\ UNCHANGED <<state, round, must>>
    BY <1>18 DEF ListenPing
  <2> QED  BY <2>1, QuietMove
<1>19. ASSUME NEW g \in G, ListenTokens(g) PROVE RestartInv'
  <2>1. pc[g] = "listen" /\ UNCHANGED pc /\ UNCHANGED <<state, round, must>>
    BY <1>19 DEF ListenTokens
  <2> QED  BY <2>1, QuietMove
<1>20. ASSUME NEW g \in G, ListenEnd(g) PROVE RestartInv'
  <2>1. pc[g] = "listen" /\ pc' = [pc EXCEPT ![g] = "uncount"] /\ UNCHANGED <<state, round, must>>
    BY <1>20 DEF ListenEnd
  <2> QED  BY <2>1, QuietMove
<1>21. ASSUME NEW g \in G, Uncount(g) PROVE RestartInv'
  <2>1. pc[g] = "uncount" /\ pc' = [pc EXCEPT ![g] = "dirty"] /\ UNCHANGED <<state, round, must>>
    BY <1>21 DEF Uncount
  <2> QED  BY <2>1, QuietMove
<1>22. ASSUME NEW g \in G, Dirty(g) PROVE RestartInv'
  <2>1. pc[g] = "dirty" /\ pc' = [pc EXCEPT ![g] = "offline"] /\ UNCHANGED <<state, round, must>>
    BY <1>22 DEF Dirty
  <2> QED  BY <2>1, QuietMove
<1>23. ASSUME NEW g \in G, Offline(g) PROVE RestartInv'
  <2>1. round > 0 /\ ~Restarting(g) /\ ~must[g]
    BY <1>23, NotRestarting DEF Offline
  <2>2. CASE casPending
    <3>1. \A h \in G : ~Restarting(h)
      BY <2>1, <2>2 DEF casPending
    <3>2. state' = CLT_PENDING /\ \A h \in G : Restarting(h)' => h = g
      BY <1>23, <2>1, <2>2, <3>1 DEF Offline, casPending
    <3>3. MustPc'
      BY <1>23, <2>1 DEF Offline
    <3> QED  BY <1>23, <2>1, <3>2, <3>3 DEF Offline
  <2>3. CASE ~casPending
    <3>1. UNCHANGED <<state, must>>
      BY <1>23, <2>3 DEF Offline, casPending
    <3>2. \A h \in G : Restarting(h)' => Restarting(h)
      BY <1>23, <2>1, <2>3, <3>1 DEF Offline
    <3>3. MustPc'
      BY <1>23, <2>1, <3>1 DEF Offline
    <3> QED  BY <1>23, <2>1, <3>1, <3>2, <3>3 DEF Offline
  <2> QED  BY <2>2, <2>3
<1>24. ASSUME NEW s \in 1 .. MaxLogin, SaveTokens(s) PROVE RestartInv'
  BY <1>24 DEF SaveTokens
<1> QED
  BY <1>1, <1>2, <1>3, <1>4, <1>5, <1>6, <1>7, <1>8, <1>9, <1>10, <1>11, <1>12,
     <1>13, <1>14, <1>15, <1>16, <1>17, <1>18, <1>19, <1>20, <1>21, <1>22, <1>23, <1>24
  DEF Next, Step

\* Only a restarter destroys or replaces the mux.
LEMMA MuxStep ==
    ASSUME TypeOK, RestartInv, DeadMade, FreshMux, WorkingMux, Next
    PROVE  DeadMade' /\ FreshMux' /\ WorkingMux'
<1> USE DEF TypeOK, RestartInv, FirstRound, RestartPending, OneRestart, Restarting,
           RestartPcs, Counted, DeadMade, FreshMux, WorkingMux, Goto, Exit, locals,
           muxVars, CLT_WORKING, CLT_PENDING
<1>1. ASSUME NEW g \in G, Start(g) PROVE DeadMade' /\ FreshMux' /\ WorkingMux'
  BY <1>1 DEF Start
<1>2. ASSUME NEW g \in G, Check(g) PROVE DeadMade' /\ FreshMux' /\ WorkingMux'
  BY <1>2 DEF Check
<1>3. ASSUME NEW g \in G, State(g) PROVE DeadMade' /\ FreshMux' /\ WorkingMux'
  BY <1>3 DEF State
<1>4. ASSUME NEW g \in G, RestartClear(g) PROVE DeadMade' /\ FreshMux' /\ WorkingMux'
  BY <1>4 DEF RestartClear
<1>5. ASSUME NEW g \in G, RestartSpin(g) PROVE DeadMade' /\ FreshMux' /\ WorkingMux'
  BY <1>5 DEF RestartSpin
<1>6. ASSUME NEW g \in G, RestartDestroy(g) PROVE DeadMade' /\ FreshMux' /\ WorkingMux'
  <2>1. Restarting(g) /\ \A h \in G : Restarting(h) => h = g
    BY <1>6 DEF RestartDestroy
  <2>2. state = CLT_PENDING \/ round = 0
    BY <2>1
  <2>3. DeadMade'
    BY <1>6 DEF RestartDestroy
  <2>4. FreshMux'
    BY <1>6, <2>1 DEF RestartDestroy
  <2>5. WorkingMux'
    BY <1>6, <2>2 DEF RestartDestroy
  <2> QED  BY <2>3, <2>4, <2>5
<1>7. ASSUME NEW g \in G, RestartNewMux(g) PROVE DeadMade' /\ FreshMux' /\ WorkingMux'
  BY <1>7 DEF RestartNewMux
<1>8. ASSUME NEW g \in G, RestartLogin(g) PROVE DeadMade' /\ FreshMux' /\ WorkingMux'
  BY <1>8 DEF RestartLogin
<1>9. ASSUME NEW g \in G, RestartWorking(g) PROVE DeadMade' /\ FreshMux' /\ WorkingMux'
  BY <1>9 DEF RestartWorking
<1>10. ASSUME NEW g \in G, RestartRound(g) PROVE DeadMade' /\ FreshMux' /\ WorkingMux'
  BY <1>10 DEF RestartRound
<1>11. ASSUME NEW g \in G, RestartSpawn(g) PROVE DeadMade' /\ FreshMux' /\ WorkingMux'
  BY <1>11 DEF RestartSpawn
<1>12. ASSUME NEW g \in G, GetToken(g) PROVE DeadMade' /\ FreshMux' /\ WorkingMux'
  BY <1>12 DEF GetToken, takeToken
<1>13. ASSUME NEW g \in G, GetTokenAgain(g) PROVE DeadMade' /\ FreshMux' /\ WorkingMux'
  BY <1>13 DEF GetTokenAgain, takeToken
<1>14. ASSUME NEW g \in G, AwaitTimeout(g) PROVE DeadMade' /\ FreshMux' /\ WorkingMux'
  BY <1>14 DEF AwaitTimeout
<1>15. ASSUME NEW g \in G, Resume(g) PROVE DeadMade' /\ FreshMux' /\ WorkingMux'
  BY <1>15 DEF Resume
<1>16. ASSUME NEW g \in G, Count(g) PROVE DeadMade' /\ FreshMux' /\ WorkingMux'
  BY <1>16 DEF Count
<1>17. ASSUME NEW g \in G, Enter(g) PROVE DeadMade' /\ FreshMux' /\ WorkingMux'
  BY <1>17 DEF Enter
<1>18. ASSUME NEW g \in G, ListenPing(g) PROVE DeadMade' /\ FreshMux' /\ WorkingMux'
  BY <1>18 DEF ListenPing
<1>19. ASSUME NEW g \in G, ListenTokens(g) PROVE DeadMade' /\ FreshMux' /\ WorkingMux'
  BY <1>19 DEF ListenTokens
<1>20. ASSUME NEW g \in G, ListenEnd(g) PROVE DeadMade' /\ FreshMux' /\ WorkingMux'
  BY <1>20 DEF ListenEnd
<1>21. ASSUME NEW g \in G, Uncount(g) PROVE DeadMade' /\ FreshMux' /\ WorkingMux'
  BY <1>21 DEF Uncount
<1>22. ASSUME NEW g \in G, Dirty(g) PROVE DeadMade' /\ FreshMux' /\ WorkingMux'
  BY <1>22 DEF Dirty
<1>23. ASSUME NEW g \in G, Offline(g) PROVE DeadMade' /\ FreshMux' /\ WorkingMux'
  BY <1>23 DEF Offline, casPending
<1>24. ASSUME NEW s \in 1 .. MaxLogin, SaveTokens(s) PROVE DeadMade' /\ FreshMux' /\ WorkingMux'
  BY <1>24 DEF SaveTokens
<1> QED
  BY <1>1, <1>2, <1>3, <1>4, <1>5, <1>6, <1>7, <1>8, <1>9, <1>10, <1>11, <1>12,
     <1>13, <1>14, <1>15, <1>16, <1>17, <1>18, <1>19, <1>20, <1>21, <1>22, <1>23, <1>24
  DEF Next, Step

\* An outdated goroutine leaves another one behind.
LEMMA CurrentStep ==
    ASSUME TypeOK, Current, Next
    PROVE  Current'
<1> USE DEF TypeOK, Current, Goto, Exit, locals, CLT_WORKING, CLT_PENDING
<1>1. ASSUME NEW g \in G, Start(g) PROVE Current'
  BY <1>1 DEF Start
<1>2. ASSUME NEW g \in G, Check(g) PROVE Current'
  <2> SUFFICES ASSUME state = CLT_WORKING
               PROVE  Current'
    BY <1>2 DEF Check
  <2>1. PICK h \in G : pc[h] = "round" \/ (pc[h] /= "free" /\ rn[h] = round)
    OBVIOUS
  <2>2. h = g => ~Outdated(g)
    BY <1>2, <2>1 DEF Check, Outdated
  <2>3. UNCHANGED <<state, round>>
    BY <1>2 DEF Check
  <2>4. CASE Outdated(g)
    BY <1>2, <2>1, <2>2, <2>3, <2>4 DEF Check
  <2>5. CASE ~Outdated(g)
    BY <1>2, <2>1, <2>3, <2>5 DEF Check
  <2> QED  BY <2>4, <2>5
<1>3. ASSUME NEW g \in G, State(g) PROVE Current'
  BY <1>3 DEF State
<1>4. ASSUME NEW g \in G, RestartClear(g) PROVE Current'
  BY <1>4 DEF RestartClear
<1>5. ASSUME NEW g \in G, RestartSpin(g) PROVE Current'
  BY <1>5 DEF RestartSpin
<1>6. ASSUME NEW g \in G, RestartDestroy(g) PROVE Current'
  BY <1>6 DEF RestartDestroy
<1>7. ASSUME NEW g \in G, RestartNewMux(g) PROVE Current'
  BY <1>7 DEF RestartNewMux
<1>8. ASSUME NEW g \in G, RestartLogin(g) PROVE Current'
  BY <1>8 DEF RestartLogin
<1>9. ASSUME NEW g \in G, RestartWorking(g) PROVE Current'
  BY <1>9 DEF RestartWorking
<1>10. ASSUME NEW g \in G, RestartRound(g) PROVE Current'
  BY <1>10 DEF RestartRound
<1>11. ASSUME NEW g \in G, RestartSpawn(g) PROVE Current'
  BY <1>11 DEF RestartSpawn
<1>12. ASSUME NEW g \in G, GetToken(g) PROVE Current'
  BY <1>12 DEF GetToken, takeToken
<1>13. ASSUME NEW g \in G, GetTokenAgain(g) PROVE Current'
  BY <1>13 DEF GetTokenAgain, takeToken
<1>14. ASSUME NEW g \in G, AwaitTimeout(g) PROVE Current'
  BY <1>14 DEF AwaitTimeout
<1>15. ASSUME NEW g \in G, Resume(g) PROVE Current'
  BY <1>15 DEF Resume
<1>16. ASSUME NEW g \in G, Count(g) PROVE Current'
  BY <1>16 DEF Count
<1>17. ASSUME NEW g \in G, Enter(g) PROVE Current'
  BY <1>17 DEF Enter
<1>18. ASSUME NEW g \in G, ListenPing(g) PROVE Current'
  BY <1>18 DEF ListenPing
<1>19. ASSUME NEW g \in G, ListenTokens(g) PROVE Current'
  BY <1>19 DEF ListenTokens
<1>20. ASSUME NEW g \in G, ListenEnd(g) PROVE Current'
  BY <1>20 DEF ListenEnd
<1>21. ASSUME NEW g \in G, Uncount(g) PROVE Current'
  BY <1>21 DEF Uncount
<1>22. ASSUME NEW g \in G, Dirty(g) PROVE Current'
  BY <1>22 DEF Dirty
<1>23. ASSUME NEW g \in G, Offline(g) PROVE Current'
  BY <1>23 DEF Offline, casPending
<1>24. ASSUME NEW s \in 1 .. MaxLogin, SaveTokens(s) PROVE Current'
  BY <1>24 DEF SaveTokens
<1> QED
  BY <1>1, <1>2, <1>3, <1>4, <1>5, <1>6, <1>7, <1>8, <1>9, <1>10, <1>11, <1>12,
     <1>13, <1>14, <1>15, <1>16, <1>17, <1>18, <1>19, <1>20, <1>21, <1>22, <1>23, <1>24
  DEF Next, Step

-----------------------------------------------------------------------------
\* NewClient and the first StartTun establish the invariant.
LEMMA InitInv ==
    ASSUME Init
    PROVE  IInv
<1> USE ClientAssumption DEF Init, CLT_WORKING, CLT_PENDING
<1>1. PICK g \in G : /\ pc = [h \in G |-> IF h = g THEN "start" ELSE "free"]
                     /\ must = [h \in G |-> h = g]
  OBVIOUS
<1>2. TypeOK
  <2>1. must \in [G -> BOOLEAN]
    BY <1>1
  <2>2. pc \in [G -> Pcs] /\ token \in Seq(Nat)
    BY <1>1 DEF Pcs
  <2> QED  BY <2>1, <2>2 DEF TypeOK
<1>3. DtCount
  <2>1. {h \in G : pc[h] \in Counted} = {}
    BY <1>1 DEF Counted
  <2> QED  BY <2>1, FS_EmptySet DEF DtCount
<1>4. RestartInv
  <2>1. \A h \in G : must[h] <=> h = g
    BY <1>1, Zenon
  <2>2. \A h \in G : pc[h] = IF h = g THEN "start" ELSE "free"
    BY <1>1
  <2> QED
    BY <2>1, <2>2 DEF RestartInv, MustPc, FirstRound, RestartPending, OneRestart, Restarting,
                      RestartPcs
<1>5. HasTun /\ DeadMade /\ FreshMux /\ WorkingMux
  BY <1>1 DEF HasTun, DeadMade, FreshMux, WorkingMux
<1>6. Current
  BY <1>1 DEF Current
<1> QED  BY <1>2, <1>3, <1>4, <1>5, <1>6 DEF IInv

\* Every step of every goroutine keeps it.
LEMMA StepInv ==
    ASSUME IInv, [Next]_vars
    PROVE  IInv'
<1>1. CASE Next
  BY <1>1, TypeStep, TunStep, CountStep, RestartStep, MuxStep, CurrentStep DEF IInv
<1>2. CASE UNCHANGED vars
  <2> USE <1>2 DEF vars
  <2>1. TypeOK' /\ DtCount' /\ HasTun'
    BY DEF IInv, TypeOK, DtCount, HasTun
  <2>2. RestartInv'
    BY DEF IInv, RestartInv, MustPc, FirstRound, RestartPending, OneRestart, Restarting
  <2>3. DeadMade' /\ FreshMux' /\ WorkingMux' /\ Current'
    BY DEF IInv, DeadMade, FreshMux, WorkingMux, Current
  <2> QED  BY <2>1, <2>2, <2>3 DEF IInv
<1> QED  BY <1>1, <1>2

\* The invariant of the client's tunnels, of which the next theorems state the
\* parts that the code promises.
THEOREM Invariant == Spec => []IInv
BY InitInv, StepInv, PTL DEF Spec

\* Every variable of the client keeps its type; in particular dtCnt never goes
\* below zero.
THEOREM TypeCorrect == Spec => []TypeOK
<1>1. IInv => TypeOK
  BY DEF IInv
<1> QED  BY <1>1, Invariant, PTL

\* dtCnt, which decides in StartTun who was the last and when restart may
\* destroy the mux, is the number of goroutines between the two additions,
\* with any number of tunnels.
THEOREM DtCountCorrect == Spec => []DtCount
<1>1. IInv => DtCount
  BY DEF IInv
<1> QED  BY <1>1, Invariant, PTL

\* However many tunnels are lost together, one goroutine at a time is in
\* restart or on its way there.
THEOREM RestartAlone == Spec => []OneRestart
<1>1. IInv => OneRestart
  BY DEF IInv, RestartInv
<1> QED  BY <1>1, Invariant, PTL

\* Behind the first login, while the client's state is CLT_WORKING, c.mux is a
\* mux that restart has made and not destroyed.
THEOREM WorkingMuxAlive == Spec => []WorkingMux
<1>1. IInv => WorkingMux
  BY DEF IInv
<1> QED  BY <1>1, Invariant, PTL

\* The goroutines that StartTun ends early never leave a working client with
\* none.
THEOREM ClientKeepsTrying == Spec => []KeepsTrying
<1>1. IInv => KeepsTrying
  BY DEF IInv, Current, KeepsTrying
<1> QED  BY <1>1, Invariant, PTL
=============================================================================
