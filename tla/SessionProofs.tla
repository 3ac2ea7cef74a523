--------------------------- MODULE SessionProofs ---------------------------
(***************************************************************************)
(* Proofs about Session, for any number of sessions, tunnels and tokens.   *)
(*                                                                         *)
(* Every step is first classified by what it may do to one part of the     *)
(* state: to the token table (MgrStep), to the fields of the mux           *)
(* (MuxStep), to the control state (PcStep).  The conjuncts of IInv are    *)
(* then shown to survive each class of step.                               *)
(***************************************************************************)
EXTENDS Session, FiniteSetTheorems, TLAPS

\* The steps of the server that leave the token table alone.
MgrQuiet(t) ==
    \/ Reject(t)     \/ NewSession(t)  \/ Replied(t)     \/ SetupCipher(t)
    \/ ServeStart(t) \/ PoolPush(t)    \/ ReadRouter(t)  \/ FrameOpen(t)
    \/ FrameTokens(t) \/ Disconnected(t) \/ Leave(t)
    \/ TokensCheck(t) \/ TokensSelect(t)

\* Whatever the step, the token table changes by one operation of SessionMgr
\* or not at all.
LEMMA MgrStep ==
    ASSUME IInv, Next
    PROVE  \/ UNCHANGED mgrVars
           \/ \E s \in Sess : createTokens(s) \/ clearTokens(s)
           \/ \E k \in Token : take(k)
<1>1. ASSUME NEW t \in Tun, TunStep(t)
      PROVE  \/ UNCHANGED mgrVars
             \/ \E s \in Sess : createTokens(s) \/ clearTokens(s)
             \/ \E k \in Token : take(k)
  <2>0. t \in Proc
    BY DEF Proc
  <2>1. CASE Authenticated(t)
    <3>1. ses[t] \in Sess
      BY <2>0, <2>1 DEF IInv, HasSession, Authenticated
    <3> QED  BY <2>1, <3>1 DEF Authenticated
  <2>2. CASE HandshakeFailed(t)
    <3>1. ses[t] \in Sess
      BY <2>0, <2>2 DEF IInv, HasSession, HandshakeFailed
    <3> QED  BY <2>2, <3>1 DEF HandshakeFailed
  <2>3. CASE Resume(t)
    BY <2>3 DEF Resume
  <2>4. CASE TokensCreate(t)
    <3>1. ses[t] \in Sess
      BY <2>4 DEF IInv, HasSession, TokensCreate
    <3> QED  BY <2>4, <3>1 DEF TokensCreate
  <2>5. CASE MgrQuiet(t)
    BY <2>5 DEF MgrQuiet, Reject, NewSession, Replied, SetupCipher, ServeStart,
         PoolPush, ReadRouter, FrameOpen, FrameTokens, Disconnected, Leave,
         PoolCheck, PoolRemove, RouterCheck, RouterClean, ServeEnd,
         TokensCheck, TokensSelect
  <2> QED  BY <1>1, <2>1, <2>2, <2>3, <2>4, <2>5 DEF TunStep, MgrQuiet
<1>2. ASSUME NEW p \in Proc, Destroy(p)
      PROVE  \/ UNCHANGED mgrVars
             \/ \E s \in Sess : createTokens(s) \/ clearTokens(s)
  <2>1. CASE DestroyTokens(p)
    <3>1. ses[p] \in Sess
      BY <2>1 DEF IInv, HasSession, DestroyTokens
    <3> QED  BY <2>1, <3>1 DEF DestroyTokens
  <2>2. CASE ~DestroyTokens(p)
    BY <1>2, <2>2 DEF Destroy, DestroyCleanup, DestroyCheck, DestroyPending,
         DestroyRouter, DestroyPool, DestroyNilRouter, DestroyNilPool,
         DestroyUnlock, DestroyClosed
  <2> QED  BY <2>1, <2>2
<1>3. ASSUME NEW s \in Sess, DialLock(s) \/ DialUse(s)
      PROVE  UNCHANGED mgrVars
  BY <1>3 DEF DialLock, DialUse
<1>4. CASE Close
  BY <1>4 DEF Close
<1> QED  BY <1>1, <1>2, <1>3, <1>4 DEF Next

\* take keeps the two maps of the token table in step.
LEMMA TakeTable ==
    ASSUME TypeMgr, TokenTable, NoTokenAfterClear,
           NEW k \in Token, take(k)
    PROVE  TypeMgr' /\ TokenTable' /\ NoTokenAfterClear'
<1>1. container' \in [Token -> Sess \cup {None}] /\ tokens' \in [Sess -> SUBSET Token]
  BY DEF TypeMgr, take
<1>2. TypeMgr'
  BY <1>1 DEF TypeMgr, take
<1>3. None \notin Sess
  BY ConstAssumption
<1>4. ASSUME NEW j \in Token, NEW s \in Sess
      PROVE  (container[j] = s <=> j \in tokens[s])'
  BY <1>3, <1>4 DEF TokenTable, TypeMgr, take
<1>5. NoTokenAfterClear'
  BY <1>3 DEF NoTokenAfterClear, TypeMgr, take
<1> QED  BY <1>2, <1>4, <1>5 DEF TokenTable

\* clearTokens removes exactly the container entries of its session.
LEMMA ClearTable ==
    ASSUME TypeMgr, TokenTable, NoTokenAfterClear,
           NEW r \in Sess, clearTokens(r)
    PROVE  TypeMgr' /\ TokenTable' /\ NoTokenAfterClear'
<1>1. None \notin Sess
  BY ConstAssumption
<1>2. container' \in [Token -> Sess \cup {None}] /\ tokens' \in [Sess -> SUBSET Token]
  BY DEF TypeMgr, clearTokens
<1>3. nilTokens' \in [Sess -> BOOLEAN]
  BY Zenon DEF TypeMgr, clearTokens
<1>4. ASSUME NEW j \in Token, NEW s \in Sess
      PROVE  (container[j] = s <=> j \in tokens[s])'
  BY <1>1, <1>4 DEF TokenTable, TypeMgr, clearTokens
<1>5. ASSUME NEW s \in Sess, nilTokens'[s], NEW j \in Token
      PROVE  container'[j] /= s
  <2>1. CASE s = r
    BY <1>1, <2>1 DEF TokenTable, TypeMgr, clearTokens
  <2>2. CASE s /= r
    <3>1. nilTokens[s]
      BY <1>5, <2>2 DEF TypeMgr, clearTokens
    <3> QED  BY <1>1, <3>1 DEF NoTokenAfterClear, TypeMgr, clearTokens
  <2> QED  BY <2>1, <2>2
<1> QED  BY <1>2, <1>3, <1>4, <1>5 DEF TypeMgr, TokenTable, NoTokenAfterClear

\* createTokens enters its tokens in both maps, and nowhere once the session
\* has been cleared.
LEMMA CreateTable ==
    ASSUME TypeMgr, TokenTable, NoTokenAfterClear,
           NEW r \in Sess, createTokens(r)
    PROVE  TypeMgr' /\ TokenTable' /\ NoTokenAfterClear'
<1>1. CASE UNCHANGED mgrVars
  BY <1>1 DEF mgrVars, TypeMgr, TokenTable, NoTokenAfterClear
<1>2. CASE /\ ~nilTokens[r]
           /\ \E T \in FreshTokens :
                /\ container' = [k \in Token |-> IF k \in T THEN r ELSE container[k]]
                /\ tokens' = [tokens EXCEPT ![r] = @ \cup T]
           /\ UNCHANGED nilTokens
  <2>1. PICK T \in FreshTokens :
                /\ container' = [k \in Token |-> IF k \in T THEN r ELSE container[k]]
                /\ tokens' = [tokens EXCEPT ![r] = @ \cup T]
    BY <1>2
  <2>2. T \subseteq Token /\ \A k \in T : container[k] = None
    BY DEF FreshTokens
  <2>3. None \notin Sess
    BY ConstAssumption
  <2>4. TypeMgr'
    BY <1>2, <2>1, <2>2 DEF TypeMgr
  <2>5. ASSUME NEW j \in Token, NEW s \in Sess
        PROVE  (container[j] = s <=> j \in tokens[s])'
    BY <2>1, <2>2, <2>3, <2>5 DEF TokenTable, TypeMgr
  <2>6. ASSUME NEW s \in Sess, nilTokens'[s], NEW j \in Token
        PROVE  container'[j] /= s
    BY <1>2, <2>1, <2>6 DEF NoTokenAfterClear, TypeMgr
  <2> QED  BY <2>4, <2>5, <2>6 DEF TokenTable, NoTokenAfterClear
<1> QED  BY <1>1, <1>2 DEF createTokens

\* Every step preserves the facts about the token table.
LEMMA TableStep ==
    ASSUME IInv, Next
    PROVE  TypeMgr' /\ TokenTable' /\ NoTokenAfterClear'
<1>1. TypeMgr /\ TokenTable /\ NoTokenAfterClear
  BY DEF IInv, TypeOK
<1>2. CASE UNCHANGED mgrVars
  BY <1>1, <1>2 DEF mgrVars, TypeMgr, TokenTable, NoTokenAfterClear
<1>3. ASSUME NEW s \in Sess, createTokens(s)
      PROVE  TypeMgr' /\ TokenTable' /\ NoTokenAfterClear'
  BY <1>1, <1>3, CreateTable
<1>4. ASSUME NEW s \in Sess, clearTokens(s)
      PROVE  TypeMgr' /\ TokenTable' /\ NoTokenAfterClear'
  BY <1>1, <1>4, ClearTable
<1>5. ASSUME NEW k \in Token, take(k)
      PROVE  TypeMgr' /\ TokenTable' /\ NoTokenAfterClear'
  BY <1>1, <1>5, TakeTable
<1> QED  BY <1>2, <1>3, <1>4, <1>5, MgrStep

-----------------------------------------------------------------------------
(* Types of the remaining variables. *)

\* The steps of a tunnel goroutine keep the types of the mux, of the control
\* state and of the counters.
LEMMA TunTypes ==
    ASSUME IInv, NEW t \in Tun, TunStep(t)
    PROVE  TypeMux' /\ TypeControl' /\ TypeCounters'
<1> USE DEF IInv, TypeOK, TypeMux, TypeControl, TypeCounters, HasSession,
            mgrVars, muxVars, sideVars, Goto, Crash, Proc, Pcs, ServePcs, DestroyPcs
<1>1. CASE Reject(t)           BY <1>1 DEF Reject
<1>2. CASE NewSession(t)       BY <1>2 DEF NewSession
<1>3. CASE Authenticated(t)    BY <1>3 DEF Authenticated
<1>4. CASE Replied(t)          BY <1>4 DEF Replied
<1>5. CASE HandshakeFailed(t)  BY <1>5 DEF HandshakeFailed
<1>6. CASE Resume(t)           BY <1>6 DEF Resume, TypeMgr
<1>7. CASE SetupCipher(t)      BY <1>7 DEF SetupCipher
<1>8. CASE ServeStart(t)       BY <1>8 DEF ServeStart, AddActive
<1>9. CASE PoolPush(t)         BY <1>9 DEF PoolPush
<1>10. CASE ReadRouter(t)      BY <1>10 DEF ReadRouter
<1>11. CASE FrameOpen(t)       BY <1>11 DEF FrameOpen
<1>12. CASE FrameTokens(t)     BY <1>12 DEF FrameTokens
<1>13. CASE Disconnected(t)    BY <1>13 DEF Disconnected
<1>14. CASE PoolCheck(t)       BY <1>14 DEF PoolCheck
<1>15. CASE PoolRemove(t)      BY <1>15 DEF PoolRemove
<1>16. CASE RouterCheck(t)     BY <1>16 DEF RouterCheck
<1>17. CASE RouterClean(t)     BY <1>17 DEF RouterClean
<1>18. CASE ServeEnd(t)        BY <1>18 DEF ServeEnd, AddActive
<1>19. CASE TokensCreate(t)    BY <1>19 DEF TokensCreate
<1>20. CASE TokensCheck(t)     BY <1>20 DEF TokensCheck
<1>21. CASE TokensSelect(t)    BY <1>21 DEF TokensSelect
<1> QED
  BY <1>1, <1>2, <1>3, <1>4, <1>5, <1>6, <1>7, <1>8, <1>9, <1>10, <1>11, <1>12,
     <1>13, <1>14, <1>15, <1>16, <1>17, <1>18, <1>19, <1>20, <1>21
     DEF TunStep, Leave

\* So do the steps of Session.destroy.
LEMMA DestroyTypes ==
    ASSUME IInv, NEW p \in Proc, Destroy(p)
    PROVE  TypeMux' /\ TypeControl' /\ TypeCounters'
<1> USE DEF IInv, TypeOK, TypeMux, TypeControl, TypeCounters, HasSession,
            mgrVars, muxVars, sideVars, Goto, AfterDestroy, Pcs, ServePcs, DestroyPcs
<1>1. CASE DestroyCleanup(p)   BY <1>1 DEF DestroyCleanup
<1>2. CASE DestroyTokens(p)    BY <1>2 DEF DestroyTokens
<1>3. CASE DestroyCheck(p)     BY <1>3 DEF DestroyCheck
<1>4. CASE DestroyPending(p)   BY <1>4 DEF DestroyPending, MUX_PENDING_CLOSE
<1>5. CASE DestroyRouter(p)    BY <1>5 DEF DestroyRouter
<1>6. CASE DestroyPool(p)      BY <1>6 DEF DestroyPool
<1>7. CASE DestroyNilRouter(p) BY <1>7 DEF DestroyNilRouter
<1>8. CASE DestroyNilPool(p)   BY <1>8 DEF DestroyNilPool
<1>9. CASE DestroyUnlock(p)    BY <1>9 DEF DestroyUnlock
<1>10. CASE DestroyClosed(p)   BY <1>10 DEF DestroyClosed, MUX_CLOSED
<1> QED
  BY <1>1, <1>2, <1>3, <1>4, <1>5, <1>6, <1>7, <1>8, <1>9, <1>10 DEF Destroy

\* Every step keeps the flags Boolean.
LEMMA FlagTypes ==
    ASSUME IInv, Next
    PROVE  TypeFlags'
<1>0. TypeFlags
  BY DEF IInv, TypeOK
<1>1. ASSUME NEW t \in Tun, TunStep(t)
      PROVE  TypeFlags'
  <2>1. CASE Reject(t) \/ HandshakeFailed(t) \/ Disconnected(t)
    BY <1>0, <2>1, Zenon DEF TypeFlags, Reject, HandshakeFailed, Disconnected
  <2>2. CASE Resume(t)
    <3>1. opened' \in [Tun -> BOOLEAN]
      BY <1>0, <2>2, Zenon DEF TypeFlags, Resume
    <3> QED  BY <1>0, <2>2, <3>1, Zenon DEF TypeFlags, Resume
  <2>3. CASE ReadRouter(t)
    BY <1>0, <2>3, Zenon DEF TypeFlags, ReadRouter
  <2>4. CASE /\ UNCHANGED <<keyOk, opened, myRouter>>
             /\ UNCHANGED crashed \/ Crash
    BY <1>0, <2>4, Zenon DEF TypeFlags, Crash
  <2>5. CASE \/ NewSession(t) \/ Authenticated(t) \/ Replied(t) \/ SetupCipher(t)
             \/ ServeStart(t) \/ PoolPush(t) \/ FrameOpen(t) \/ FrameTokens(t)
             \/ Leave(t) \/ TokensCreate(t) \/ TokensCheck(t) \/ TokensSelect(t)
    <3>1. UNCHANGED <<keyOk, opened, myRouter>> /\ (UNCHANGED crashed \/ Crash)
      BY <2>5 DEF NewSession, Authenticated, Replied, SetupCipher, ServeStart,
           PoolPush, FrameOpen, FrameTokens, Leave, PoolCheck, PoolRemove,
           RouterCheck, RouterClean, ServeEnd, TokensCreate, TokensCheck,
           TokensSelect
    <3> QED  BY <2>4, <3>1
  <2> QED  BY <1>1, <2>1, <2>2, <2>3, <2>5 DEF TunStep
<1>2. ASSUME NEW p \in Proc, Destroy(p)
      PROVE  TypeFlags'
  <2>1. CASE DestroyCleanup(p)
    BY <1>0, <2>1, Zenon DEF TypeFlags, DestroyCleanup
  <2>2. CASE DestroyPool(p)
    BY <1>0, <2>2, Zenon DEF TypeFlags, DestroyPool
  <2>3. CASE ~DestroyCleanup(p) /\ ~DestroyPool(p)
    <3>1. UNCHANGED <<keyOk, opened, myRouter, crashed>>
      BY <1>2, <2>3 DEF Destroy, DestroyTokens, DestroyCheck, DestroyPending,
           DestroyRouter, DestroyNilRouter, DestroyNilPool, DestroyUnlock,
           DestroyClosed
    <3> QED  BY <1>0, <3>1, Zenon DEF TypeFlags
  <2> QED  BY <2>1, <2>2, <2>3
<1>3. ASSUME NEW s \in Sess, DialLock(s) \/ DialUse(s)
      PROVE  TypeFlags'
  BY <1>0, <1>3, Zenon DEF TypeFlags, DialLock, DialUse, Crash
<1>4. CASE Close
  BY <1>0, <1>4, Zenon DEF TypeFlags, Close
<1> QED  BY <1>1, <1>2, <1>3, <1>4 DEF Next

\* Every step keeps the types of all variables but the token table's.
LEMMA TypeStep ==
    ASSUME IInv, Next
    PROVE  TypeMux' /\ TypeControl' /\ TypeCounters' /\ TypeFlags'
<1>1. ASSUME NEW s \in Sess, DialLock(s) \/ DialUse(s)
      PROVE  TypeMux' /\ TypeControl' /\ TypeCounters'
  BY <1>1 DEF DialLock, DialUse, Crash, IInv, TypeOK, TypeMux, TypeControl,
       TypeCounters
<1>2. ASSUME Close
      PROVE  TypeMux' /\ TypeControl' /\ TypeCounters'
  BY <1>2 DEF Close, muxVars, Goto, Proc, Pcs, DestroyPcs, IInv, TypeOK, TypeMgr,
       TypeMux, TypeControl, TypeCounters
<1> QED  BY <1>1, <1>2, TunTypes, DestroyTypes, FlagTypes DEF Next

-----------------------------------------------------------------------------
(* Control: a goroutine past its handshake has a session. *)

\* Every step leaves each goroutine that is neither idle nor done, and each
\* tokensHandle at work, with a session.
LEMMA SessionStep ==
    ASSUME IInv, Next
    PROVE  HasSession'
<1> USE DEF IInv, TypeOK, TypeControl, HasSession, sideVars, Goto
<1>1. ASSUME NEW t \in Tun, TunStep(t)
      PROVE  HasSession'
  <2> USE DEF Proc
  <2>1. CASE Reject(t)           BY <2>1 DEF Reject
  <2>2. CASE NewSession(t)       BY <2>2 DEF NewSession
  <2>3. CASE Authenticated(t)    BY <2>3 DEF Authenticated
  <2>4. CASE Replied(t)          BY <2>4 DEF Replied
  <2>5. CASE HandshakeFailed(t)  BY <2>5 DEF HandshakeFailed
  <2>6. CASE Resume(t)           BY <2>6 DEF Resume, TypeMgr
  <2>7. CASE SetupCipher(t)      BY <2>7 DEF SetupCipher
  <2>8. CASE ServeStart(t)       BY <2>8 DEF ServeStart, AddActive
  <2>9. CASE PoolPush(t)         BY <2>9 DEF PoolPush
  <2>10. CASE ReadRouter(t)      BY <2>10 DEF ReadRouter
  <2>11. CASE FrameOpen(t)       BY <2>11 DEF FrameOpen
  <2>12. CASE FrameTokens(t)     BY <2>12 DEF FrameTokens
  <2>13. CASE Disconnected(t)    BY <2>13 DEF Disconnected
  <2>14. CASE PoolCheck(t)       BY <2>14 DEF PoolCheck
  <2>15. CASE PoolRemove(t)      BY <2>15 DEF PoolRemove
  <2>16. CASE RouterCheck(t)     BY <2>16 DEF RouterCheck
  <2>17. CASE RouterClean(t)     BY <2>17 DEF RouterClean
  <2>18. CASE ServeEnd(t)        BY <2>18 DEF ServeEnd, AddActive
  <2>19. CASE TokensCreate(t)    BY <2>19 DEF TokensCreate
  <2>20. CASE TokensCheck(t)     BY <2>20 DEF TokensCheck
  <2>21. CASE TokensSelect(t)    BY <2>21 DEF TokensSelect
  <2> QED
    BY <1>1, <2>1, <2>2, <2>3, <2>4, <2>5, <2>6, <2>7, <2>8, <2>9, <2>10, <2>11,
       <2>12, <2>13, <2>14, <2>15, <2>16, <2>17, <2>18, <2>19, <2>20, <2>21
       DEF TunStep, Leave
<1>2. ASSUME NEW p \in Proc, Destroy(p)
      PROVE  HasSession'
  <2> USE DEF AfterDestroy
  <2>0. /\ pc[p] \in DestroyPcs
        /\ \E l \in DestroyPcs \cup {"done", "idle"} :
              pc' = [pc EXCEPT ![p] = l] /\ (l = "idle" => p = Closer)
        /\ UNCHANGED <<ses, tkPc>>
    BY <1>2 DEF Destroy, DestroyCleanup, DestroyTokens, DestroyCheck,
         DestroyPending, DestroyRouter, DestroyPool, DestroyNilRouter,
         DestroyNilPool, DestroyUnlock, DestroyClosed, DestroyPcs
  <2> QED  BY <2>0, ConstAssumption DEF DestroyPcs, Proc
<1>3. ASSUME NEW s \in Sess, DialLock(s) \/ DialUse(s)
      PROVE  HasSession'
  BY <1>3 DEF DialLock, DialUse
<1>4. CASE Close
  BY <1>4, ConstAssumption DEF Close, Proc, TypeMgr
<1> QED  BY <1>1, <1>2, <1>3, <1>4 DEF Next

-----------------------------------------------------------------------------
(* The lock protocol of multiplexer.destroy and connectToDest. *)

\* A step that moves nobody into the critical part of mux.destroy and leaves
\* the protocol's variables alone.
LockQuiet ==
    /\ UNCHANGED <<status, router, sLock>>
    /\ \A s \in Sess : dialPc'[s] = "use" => dialPc[s] = "use"
    /\ \A p \in Proc : pc'[p] \in LockPcs \cup {"lock", "setClosed"}
                         => pc'[p] = pc[p] /\ ses'[p] = ses[p]

\* A quiet step preserves the lock protocol.
LEMMA QuietKeepsLock ==
    ASSUME IInv, LockQuiet
    PROVE  LockInv'
<1>1. LockInv
  BY DEF IInv
<1>2. ASSUME NEW p \in Proc, pc'[p] \in LockPcs \cup {"lock", "setClosed"}
      PROVE  pc[p] = pc'[p] /\ ses[p] = ses'[p]
  BY <1>2 DEF LockQuiet
<1> QED  BY <1>1, <1>2 DEF LockInv, LockQuiet, LockPcs

\* No step of a tunnel outside mux.destroy takes part in the protocol.
LEMMA TunIsQuiet ==
    ASSUME IInv, NEW t \in Tun, TunStep(t)
    PROVE  LockQuiet
<1>1. UNCHANGED <<status, router, sLock>>
  BY DEF TunStep, Leave, Reject, NewSession, Authenticated, Replied,
       HandshakeFailed, Resume, SetupCipher, ServeStart, PoolPush, ReadRouter,
       FrameOpen, FrameTokens, Disconnected, PoolCheck, PoolRemove, RouterCheck,
       RouterClean, ServeEnd, TokensCreate, TokensCheck, TokensSelect, muxVars
<1>2. dialPc' = dialPc \/ \E s \in Sess : dialPc' = [dialPc EXCEPT ![s] = "dial"]
  <2>1. CASE FrameOpen(t)
    BY <2>1 DEF FrameOpen, IInv, HasSession, Proc
  <2>2. CASE ~FrameOpen(t)
    BY <2>2 DEF TunStep, Leave, Reject, NewSession, Authenticated, Replied,
         HandshakeFailed, Resume, SetupCipher, ServeStart, PoolPush, ReadRouter,
         FrameTokens, Disconnected, PoolCheck, PoolRemove, RouterCheck,
         RouterClean, ServeEnd, TokensCreate, TokensCheck, TokensSelect, sideVars
  <2> QED  BY <2>1, <2>2
<1>3. \A s \in Sess : dialPc'[s] = "use" => dialPc[s] = "use"
  BY <1>2 DEF IInv, TypeOK, TypeControl
<1>4. \/ UNCHANGED <<pc, ses>>
      \/ \E l \in Pcs \ (LockPcs \cup {"lock", "setClosed"}) :
            pc' = [pc EXCEPT ![t] = l] /\ \A p \in Proc \ {t} : ses'[p] = ses[p]
  <2> USE DEF Pcs, ServePcs, DestroyPcs, LockPcs, Goto
  <2>0. ses \in [Proc -> Sess \cup {None}]
    BY DEF IInv, TypeOK, TypeControl
  <2>1. CASE NewSession(t)
    BY <2>0, <2>1 DEF NewSession
  <2>2. CASE Resume(t)
    BY <2>0, <2>2 DEF Resume
  <2>3. CASE \/ Reject(t) \/ Authenticated(t) \/ Replied(t) \/ HandshakeFailed(t)
             \/ SetupCipher(t) \/ ServeStart(t) \/ PoolPush(t) \/ ReadRouter(t)
    BY <2>3 DEF Reject, Authenticated, Replied, HandshakeFailed, SetupCipher,
         ServeStart, PoolPush, ReadRouter
  <2>4. CASE Disconnected(t) \/ Leave(t)
    BY <2>4 DEF Disconnected, Leave, PoolCheck, PoolRemove, RouterCheck,
         RouterClean, ServeEnd
  <2>5. CASE \/ FrameOpen(t) \/ FrameTokens(t)
             \/ TokensCreate(t) \/ TokensCheck(t) \/ TokensSelect(t)
    BY <2>5 DEF FrameOpen, FrameTokens, TokensCreate, TokensCheck, TokensSelect
  <2> QED  BY <2>1, <2>2, <2>3, <2>4, <2>5 DEF TunStep
<1>5. pc \in [Proc -> Pcs]
  BY DEF IInv, TypeOK, TypeControl
<1> QED  BY <1>1, <1>3, <1>4, <1>5 DEF LockQuiet

\* The steps of mux.destroy keep the protocol: the lock is taken before the
\* router is touched and released after it has become nil.
LEMMA DestroyKeepsLock ==
    ASSUME IInv, NEW p \in Proc, Destroy(p)
    PROVE  LockInv'
<1>0. \A q \in Proc : q \notin Sess /\ q /= None
  BY ConstAssumption DEF Proc
<1>1. ses[p] \in Sess
  BY DEF IInv, HasSession, Destroy, DestroyCleanup, DestroyTokens, DestroyCheck,
       DestroyPending, DestroyRouter, DestroyPool, DestroyNilRouter,
       DestroyNilPool, DestroyUnlock, DestroyClosed
<1> USE DEF IInv, TypeOK, TypeMux, TypeControl, LockInv, LockPcs, Goto,
            AfterDestroy, sideVars
<1>2. CASE DestroyCleanup(p) \/ DestroyTokens(p) \/ DestroyCheck(p)
  <2>1. UNCHANGED <<status, router, sLock, dialPc, ses>>
    BY <1>2 DEF DestroyCleanup, DestroyTokens, DestroyCheck, muxVars
  <2>2. \E l \in Pcs \ (LockPcs \cup {"lock", "setClosed"}) :
            pc' = [pc EXCEPT ![p] = l]
    BY <1>2 DEF DestroyCleanup, DestroyTokens, DestroyCheck, Pcs, DestroyPcs
  <2> QED  BY <2>1, <2>2, QuietKeepsLock DEF LockQuiet
<1>3. CASE DestroyPending(p)
  BY <1>0, <1>1, <1>3 DEF DestroyPending, MUX_PENDING_CLOSE
<1>4. CASE DestroyRouter(p)
  <2>1. CASE router[ses[p]] = "nil"
    BY <1>0, <1>1, <1>4, <2>1 DEF DestroyRouter, HasSession
  <2>2. CASE router[ses[p]] /= "nil"
    <3>1. /\ sLock[ses[p]] = None
          /\ sLock' = [sLock EXCEPT ![ses[p]] = p]
          /\ router' = [router EXCEPT ![ses[p]] = "destroyed"]
          /\ pc' = [pc EXCEPT ![p] = "destroyPool"]
          /\ UNCHANGED <<status, ses, dialPc>>
      BY <1>4, <2>2 DEF DestroyRouter
    <3>2. pc[p] = "lock" /\ status[ses[p]] < 0
      BY <1>4 DEF DestroyRouter
    <3>3. \A q \in Proc : pc[q] \in LockPcs => ses[q] \in Sess /\ ses[q] /= ses[p]
      BY <1>0, <3>1 DEF HasSession
    <3>4. \A s \in Sess : dialPc[s] = "use" => s /= ses[p]
      BY <1>0, <1>1, <3>1, ConstAssumption
    <3> QED  BY <1>0, <1>1, <3>1, <3>2, <3>3, <3>4
  <2> QED  BY <2>1, <2>2
<1>5. CASE DestroyPool(p)
  BY <1>0, <1>1, <1>5 DEF DestroyPool
<1>6. CASE DestroyNilRouter(p)
  BY <1>0, <1>1, <1>6 DEF DestroyNilRouter
<1>7. CASE DestroyNilPool(p)
  BY <1>0, <1>1, <1>7 DEF DestroyNilPool
<1>8. CASE DestroyUnlock(p)
  BY <1>0, <1>1, <1>8 DEF DestroyUnlock
<1>9. CASE DestroyClosed(p)
  BY <1>0, <1>1, <1>9 DEF DestroyClosed, MUX_CLOSED
<1> QED  BY <1>2, <1>3, <1>4, <1>5, <1>6, <1>7, <1>8, <1>9 DEF Destroy

\* connectToDest keeps the protocol.
LEMMA DialKeepsLock ==
    ASSUME IInv, NEW s \in Sess, DialLock(s) \/ DialUse(s)
    PROVE  LockInv'
<1>0. s /= None /\ \A p \in Proc : p /= None /\ p /= s
  BY ConstAssumption DEF Proc
<1> USE DEF IInv, TypeOK, TypeMux, TypeControl, HasSession, LockInv, LockPcs
<1>1. CASE DialLock(s)
  BY <1>0, <1>1 DEF DialLock, MuxClosed
<1>2. CASE DialUse(s)
  BY <1>0, <1>2 DEF DialUse
<1> QED  BY <1>1, <1>2

\* Every step preserves the lock protocol.
LEMMA LockStep ==
    ASSUME IInv, Next
    PROVE  LockInv'
<1>1. ASSUME Close
      PROVE  LockQuiet
  <2>1. UNCHANGED <<status, router, sLock, dialPc>>
    BY <1>1 DEF Close, muxVars
  <2>2. /\ pc' = [pc EXCEPT ![Closer] = "cleanup"]
        /\ \A p \in Proc \ {Closer} : ses'[p] = ses[p]
    BY <1>1 DEF Close, Goto, IInv, TypeOK, TypeControl
  <2>3. pc \in [Proc -> Pcs]
    BY DEF IInv, TypeOK, TypeControl
  <2> QED  BY <2>1, <2>2, <2>3 DEF LockQuiet, LockPcs
<1> QED  BY <1>1, QuietKeepsLock, TunIsQuiet, DestroyKeepsLock, DialKeepsLock DEF Next

-----------------------------------------------------------------------------
(* The inductive invariant and what follows from it. *)

\* The server starts in the invariant.
LEMMA InitIInv ==
    Init => IInv
<1> SUFFICES ASSUME Init  PROVE IInv
  OBVIOUS
<1>1. TypeMgr /\ TypeMux /\ TypeControl /\ TypeCounters
  BY DEF Init, TypeMgr, TypeMux, TypeControl, TypeCounters, Proc, Pcs
<1>2. TypeFlags
  BY Zenon DEF Init, TypeFlags
<1>3. TokenTable /\ NoTokenAfterClear
  BY ConstAssumption DEF Init, TokenTable, NoTokenAfterClear
<1>4. HasSession /\ LockInv
  BY DEF Init, HasSession, LockInv, LockPcs
<1> QED  BY <1>1, <1>2, <1>3, <1>4 DEF IInv, TypeOK

\* The inductive invariant holds of every behaviour of the server: types, the
\* token table, the sessions of working goroutines and the lock protocol.
THEOREM SessionInvariant == Spec => []IInv
<1>1. IInv /\ [Next]_vars => IInv'
  <2>1. CASE Next
    BY <2>1, TableStep, TypeStep, SessionStep, LockStep DEF IInv, TypeOK
  <2>2. CASE UNCHANGED vars
    BY <2>2 DEF vars, IInv, TypeOK, TypeMgr, TypeMux, TypeControl, TypeCounters,
         TypeFlags, HasSession, TokenTable, NoTokenAfterClear, LockInv
  <2> QED  BY <2>1, <2>2
<1> QED  BY InitIInv, <1>1, PTL DEF Spec

\* Type correctness.
THEOREM SessionTypes == Spec => []TypeOK
<1>1. IInv => TypeOK
  BY DEF IInv
<1> QED  BY SessionInvariant, <1>1, PTL

\* The two maps of the token table agree after any interleaving of take,
\* createTokens and clearTokens.
THEOREM SessionTokenTable == Spec => []TokenTable
<1>1. IInv => TokenTable
  BY DEF IInv
<1> QED  BY SessionInvariant, <1>1, PTL

\* No token leads to a session whose tokens were cleared, however late a
\* tokensHandle goroutine runs createTokens.
THEOREM SessionNoTokenAfterClear == Spec => []NoTokenAfterClear
<1>1. IInv => NoTokenAfterClear
  BY DEF IInv
<1> QED  BY SessionInvariant, <1>1, PTL

\* connectToDest never finds the router destroyed after its status check under
\* sLock.
THEOREM SessionDialSeesRouter == Spec => []DialSeesRouter
<1>1. IInv => DialSeesRouter
  BY DEF IInv, LockInv, DialSeesRouter
<1> QED  BY SessionInvariant, <1>1, PTL

\* egressRouter.destroy runs at most once on a router, although two goroutines
\* may pass the status check of mux.destroy together.
THEOREM SessionRouterDestroyedOnce == Spec => []RouterDestroyedOnce
<1>1. IInv => RouterDestroyedOnce
  BY DEF IInv, TypeOK, TypeMux, HasSession, LockInv, RouterDestroyedOnce
<1> QED  BY SessionInvariant, <1>1, PTL

\* A token passes from one session to another only through the empty entry.
THEOREM SessionTokenOwner == Spec => TokenOwner
<1> DEFINE Keeps == \A k \in Token : container[k] /= None
                        => container'[k] \in {container[k], None}
<1>1. IInv /\ [Next]_vars => [Keeps]_vars
  <2> SUFFICES ASSUME IInv, Next, NEW k \in Token, container[k] /= None
               PROVE  container'[k] \in {container[k], None}
    OBVIOUS
  <2>1. TypeMgr
    BY DEF IInv, TypeOK
  <2>2. CASE UNCHANGED mgrVars
    BY <2>2 DEF mgrVars
  <2>3. ASSUME NEW s \in Sess, createTokens(s)
        PROVE  container'[k] \in {container[k], None}
    BY <2>1, <2>3 DEF createTokens, FreshTokens, mgrVars, TypeMgr
  <2>4. ASSUME NEW s \in Sess, clearTokens(s)
        PROVE  container'[k] \in {container[k], None}
    BY <2>1, <2>4 DEF clearTokens, TypeMgr
  <2>5. ASSUME NEW j \in Token, take(j)
        PROVE  container'[k] \in {container[k], None}
    BY <2>1, <2>5 DEF take, TypeMgr
  <2> QED  BY <2>2, <2>3, <2>4, <2>5, MgrStep
<1> QED  BY SessionInvariant, <1>1, PTL DEF Spec, TokenOwner

-----------------------------------------------------------------------------
(* The reference count of DataTunServe. *)

\* The goroutines that a session counts.  They are finitely many at any time,
\* however many connections the server may come to accept.
Active(s) == {t \in Tun : ses[t] = s /\ pc[t] \in Counted}
CountInv  == \A s \in Sess : IsFiniteSet(Active(s)) /\ activeCnt[s] = Cardinality(Active(s))

\* One goroutine p moves without crossing one of the two atomic additions, and
\* is given a session only before the first.
Steady(p) ==
    /\ \/ UNCHANGED pc
       \/ \E l \in Pcs : /\ pc' = [pc EXCEPT ![p] = l]
                         /\ l \in Counted <=> pc[p] \in Counted
    /\ \/ UNCHANGED ses
       \/ pc[p] \notin Counted /\ \E s : ses' = [ses EXCEPT ![p] = s]
    /\ UNCHANGED activeCnt

\* Every step but the two additions is steady.
LEMMA SteadyStep ==
    ASSUME IInv, Next
    PROVE  \/ \E p \in Proc : Steady(p)
           \/ \E t \in Tun : ServeStart(t) \/ ServeEnd(t)
<1> USE DEF Steady, Goto, Counted, Pcs, ServePcs, DestroyPcs
<1>1. ASSUME NEW t \in Tun, TunStep(t), ~ServeStart(t), ~ServeEnd(t)
      PROVE  Steady(t)
  <2>1. CASE Reject(t)           BY <2>1 DEF Reject
  <2>2. CASE NewSession(t)
    <3>1. PICK s \in Sess : ses' = [ses EXCEPT ![t] = s]
      BY <2>2 DEF NewSession
    <3>2. pc[t] = "idle" /\ pc' = [pc EXCEPT ![t] = "auth"] /\ UNCHANGED activeCnt
      BY <2>2 DEF NewSession
    <3>3. pc[t] \notin Counted /\ "auth" \notin Counted /\ "auth" \in Pcs
      BY <3>2
    <3> HIDE DEF Counted, Pcs
    <3> QED  BY <3>1, <3>2, <3>3, Zenon
  <2>3. CASE Authenticated(t)    BY <2>3 DEF Authenticated
  <2>4. CASE Replied(t)          BY <2>4 DEF Replied
  <2>5. CASE HandshakeFailed(t)  BY <2>5 DEF HandshakeFailed
  <2>6. CASE Resume(t)           BY <2>6 DEF Resume
  <2>7. CASE SetupCipher(t)      BY <2>7 DEF SetupCipher
  <2>8. CASE PoolPush(t)         BY <2>8 DEF PoolPush
  <2>9. CASE ReadRouter(t)       BY <2>9 DEF ReadRouter
  <2>10. CASE FrameOpen(t) \/ FrameTokens(t)
    BY <2>10 DEF FrameOpen, FrameTokens
  <2>11. CASE Disconnected(t)    BY <2>11 DEF Disconnected
  <2>12. CASE PoolCheck(t)       BY <2>12 DEF PoolCheck
  <2>13. CASE PoolRemove(t)      BY <2>13 DEF PoolRemove
  <2>14. CASE RouterCheck(t)     BY <2>14 DEF RouterCheck
  <2>15. CASE RouterClean(t)     BY <2>15 DEF RouterClean
  <2>16. CASE TokensCreate(t) \/ TokensCheck(t) \/ TokensSelect(t)
    BY <2>16 DEF TokensCreate, TokensCheck, TokensSelect
  <2> QED
    BY <1>1, <2>1, <2>2, <2>3, <2>4, <2>5, <2>6, <2>7, <2>8, <2>9, <2>10, <2>11, <2>12,
       <2>13, <2>14, <2>15, <2>16 DEF TunStep, Leave
<1>2. ASSUME NEW p \in Proc, Destroy(p)
      PROVE  Steady(p)
  <2> USE DEF AfterDestroy
  <2>1. CASE DestroyCleanup(p)   BY <2>1 DEF DestroyCleanup
  <2>2. CASE DestroyTokens(p)    BY <2>2 DEF DestroyTokens
  <2>3. CASE DestroyCheck(p)
    <3>1. PICK l \in {"idle", "done", "pending"} : pc' = [pc EXCEPT ![p] = l]
      BY <2>3 DEF DestroyCheck
    <3>2. pc[p] = "status" /\ UNCHANGED <<ses, activeCnt>>
      BY <2>3 DEF DestroyCheck
    <3> QED  BY <3>1, <3>2
  <2>4. CASE DestroyPending(p)   BY <2>4 DEF DestroyPending
  <2>5. CASE DestroyRouter(p)    BY <2>5 DEF DestroyRouter
  <2>6. CASE DestroyPool(p)      BY <2>6 DEF DestroyPool
  <2>7. CASE DestroyNilRouter(p) BY <2>7 DEF DestroyNilRouter
  <2>8. CASE DestroyNilPool(p)   BY <2>8 DEF DestroyNilPool
  <2>9. CASE DestroyUnlock(p)    BY <2>9 DEF DestroyUnlock
  <2>10. CASE DestroyClosed(p)
    <3>1. PICK l \in {"idle", "done"} : pc' = [pc EXCEPT ![p] = l]
      BY <2>10 DEF DestroyClosed
    <3>2. pc[p] = "setClosed" /\ UNCHANGED <<ses, activeCnt>>
      BY <2>10 DEF DestroyClosed
    <3> QED  BY <3>1, <3>2
  <2> QED
    BY <1>2, <2>1, <2>2, <2>3, <2>4, <2>5, <2>6, <2>7, <2>8, <2>9, <2>10 DEF Destroy
<1>3. ASSUME NEW s \in Sess, DialLock(s) \/ DialUse(s)
      PROVE  Steady(Closer)
  BY <1>3 DEF DialLock, DialUse
<1>4. CASE Close
  <2>1. Steady(Closer)
    <3>1. PICK s : ses' = [ses EXCEPT ![Closer] = s]
      BY <1>4 DEF Close
    <3>2. /\ pc[Closer] = "idle" /\ pc' = [pc EXCEPT ![Closer] = "cleanup"]
          /\ UNCHANGED activeCnt
      BY <1>4 DEF Close
    <3>3. pc[Closer] \notin Counted /\ "cleanup" \notin Counted /\ "cleanup" \in Pcs
      BY <3>2
    <3> HIDE DEF Counted, Pcs
    <3> QED  BY <3>1, <3>2, <3>3, Zenon
  <2> QED  BY <2>1 DEF Proc
<1> QED  BY <1>1, <1>2, <1>3, <1>4 DEF Next, Proc

\* A session counts exactly the goroutines between the two additions.
LEMMA CountStep ==
    ASSUME IInv, CountInv, Next
    PROVE  CountInv'
<1>0. /\ pc \in [Proc -> Pcs] /\ ses \in [Proc -> Sess \cup {None}]
      /\ activeCnt \in [Sess -> Int] /\ Tun \subseteq Proc
  BY DEF IInv, TypeOK, TypeControl, TypeCounters, Proc
<1>a. \A s \in Sess : IsFiniteSet(Active(s)) /\ activeCnt[s] = Cardinality(Active(s))
  BY DEF CountInv
<1>1. ASSUME NEW p \in Proc, Steady(p)
      PROVE  CountInv'
  <2>1. ASSUME NEW t \in Tun
        PROVE  /\ pc'[t] \in Counted <=> pc[t] \in Counted
               /\ pc[t] \in Counted => ses'[t] = ses[t]
    BY <1>0, <1>1 DEF Steady
  <2>2. \A s \in Sess : Active(s)' = Active(s)
    BY <2>1 DEF Active
  <2>3. UNCHANGED activeCnt
    BY <1>1 DEF Steady
  <2> QED  BY <1>a, <2>2, <2>3 DEF CountInv
<1>2. ASSUME NEW t \in Tun, ServeStart(t)
      PROVE  CountInv'
  <2>1. /\ pc[t] = "serve" /\ pc' = [pc EXCEPT ![t] = "push"] /\ UNCHANGED ses
        /\ activeCnt' = [activeCnt EXCEPT ![ses[t]] = @ + 1]
    BY <1>2 DEF ServeStart, Goto, AddActive
  <2>2. PICK r \in Sess : r = ses[t]
    BY <1>0, <2>1 DEF IInv, HasSession
  <2>3. t \notin Active(r) /\ Active(r)' = Active(r) \cup {t}
    BY <1>0, <2>1, <2>2 DEF Active, Counted
  <2>4. \A s \in Sess : s /= r => Active(s)' = Active(s) /\ activeCnt'[s] = activeCnt[s]
    BY <1>0, <2>1, <2>2 DEF Active, Counted
  <2>5. activeCnt'[r] = activeCnt[r] + 1
    BY <1>0, <2>1, <2>2
  <2>6. /\ IsFiniteSet(Active(r)')
        /\ Cardinality(Active(r)') = Cardinality(Active(r)) + 1
    BY <1>a, <2>2, <2>3, FS_AddElement
  <2>7. \A s \in Sess : IsFiniteSet(Active(s)') /\ activeCnt'[s] = Cardinality(Active(s)')
    <3> SUFFICES ASSUME NEW s \in Sess
                 PROVE  IsFiniteSet(Active(s)') /\ activeCnt'[s] = Cardinality(Active(s)')
      OBVIOUS
    <3>1. CASE s = r
      BY <1>a, <2>5, <2>6, <3>1
    <3>2. CASE s /= r
      BY <1>a, <2>4, <3>2
    <3> QED  BY <3>1, <3>2
  <2> QED  BY <2>7 DEF CountInv
<1>3. ASSUME NEW t \in Tun, ServeEnd(t)
      PROVE  CountInv'
  <2>1. /\ pc[t] = "leave" /\ UNCHANGED ses
        /\ \E l \in {"cleanup", "done"} : pc' = [pc EXCEPT ![t] = l]
        /\ activeCnt' = [activeCnt EXCEPT ![ses[t]] = @ + -1]
    BY <1>3 DEF ServeEnd, Goto, AddActive
  <2>2. PICK r \in Sess : r = ses[t]
    BY <1>0, <2>1 DEF IInv, HasSession
  <2>3. t \in Active(r) /\ Active(r)' = Active(r) \ {t}
    BY <1>0, <2>1, <2>2 DEF Active, Counted
  <2>4. \A s \in Sess : s /= r => Active(s)' = Active(s) /\ activeCnt'[s] = activeCnt[s]
    BY <1>0, <2>1, <2>2 DEF Active, Counted
  <2>5. activeCnt'[r] = activeCnt[r] - 1
    BY <1>0, <2>1, <2>2
  <2>6. /\ IsFiniteSet(Active(r)')
        /\ Cardinality(Active(r)') = Cardinality(Active(r)) - 1
    BY <1>a, <2>2, <2>3, FS_RemoveElement
  <2>7. \A s \in Sess : IsFiniteSet(Active(s)') /\ activeCnt'[s] = Cardinality(Active(s)')
    <3> SUFFICES ASSUME NEW s \in Sess
                 PROVE  IsFiniteSet(Active(s)') /\ activeCnt'[s] = Cardinality(Active(s)')
      OBVIOUS
    <3>1. CASE s = r
      BY <1>a, <2>5, <2>6, <3>1
    <3>2. CASE s /= r
      BY <1>a, <2>4, <3>2
    <3> QED  BY <3>1, <3>2
  <2> QED  BY <2>7 DEF CountInv
<1> QED  BY <1>1, <1>2, <1>3, SteadyStep

\* activeCnt is the number of goroutines of the session between the two atomic
\* additions of DataTunServe, so the one that finds LastTunnel is the last.
THEOREM SessionActiveCount == Spec => []ActiveCount
<1>1. Init => CountInv
  <2> SUFFICES ASSUME Init PROVE CountInv
    OBVIOUS
  <2>1. \A s \in Sess : Active(s) = {} /\ activeCnt[s] = 0
    BY DEF Init, Active, Counted, Proc
  <2> QED  BY <2>1, FS_EmptySet DEF CountInv
<1>2. IInv /\ CountInv /\ [Next]_vars => CountInv'
  <2>1. CASE UNCHANGED vars
    BY <2>1 DEF vars, CountInv, Active
  <2> QED  BY <2>1, CountStep
<1>3. CountInv => ActiveCount
  BY DEF CountInv, Active, ActiveCount
<1> QED  BY <1>1, <1>2, <1>3, SessionInvariant, PTL DEF Spec
=============================================================================
