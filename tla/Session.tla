------------------------------ MODULE Session ------------------------------
(***************************************************************************)
(* Server side sessions of deblocus (src/tunnel/server.go): the token      *)
(* table of SessionMgr, the handshake outcomes of TunnelServe that create  *)
(* or resume a Session, the reference count kept by DataTunServe, and the  *)
(* tear-down Session.destroy -> multiplexer.destroy, with the unlocked     *)
(* reads of mux.pool and mux.router that Listen, onTunDisconnected and     *)
(* bestSend make while another goroutine may be destroying the mux.        *)
(*                                                                         *)
(* One process per tunnel connection (the goroutine of TunnelServe, then   *)
(* of DataTunServe), one for the token requests each tunnel carries        *)
(* (tokensHandle), one for a connectToDest goroutine of each session and   *)
(* one for Server.Close.  Token values are opaque.                         *)
(***************************************************************************)
EXTENDS Integers, FiniteSets

CONSTANTS Sess,         \* the Session objects NewSession may allocate
          Tun,          \* accepted tunnel connections
          Token,        \* token values (keys of SessionMgr.container)
          cid,          \* client name user@ip of a session
          Closer,       \* the goroutine that runs Server.Close
          None,         \* nil session
          TokenNum,     \* how many tokens createTokens generates
          MaxReq        \* bound: token requests a tunnel carries

ASSUME ConstAssumption ==
    /\ Closer \notin Tun
    /\ None \notin Sess \cup Tun \cup {Closer}
    /\ Sess \cap (Tun \cup {Closer}) = {}
    /\ TokenNum \in Nat \ {0}
    /\ MaxReq \in Nat
    /\ IsFiniteSet(Token)

VARIABLES
    container,  \* SessionMgr.container: token -> session, None when absent
    tokens,     \* Session.tokens: the keys this session owns
    nilTokens,  \* Session.tokens = nil
    keyOk,      \* cipherFactory.key has not been zeroed by Cleanup
    activeCnt,  \* Session.activeCnt
    status,     \* mux.status: 0, MUX_PENDING_CLOSE = -1, MUX_CLOSED = -2
    router,     \* mux.router: "ok", "destroyed" (registry = nil), "nil"
    pool,       \* mux.pool: "ok", "destroyed", "nil"
    pooled,     \* tunnels in mux.pool
    sLock,      \* holder of mux.sLock, None when free
    made,       \* sessions already allocated by NewSession
    opened,     \* the tunnel's socket is open on the server
    pc,         \* control state of every tunnel goroutine and of the closer
    ses,        \* the session that goroutine works on
    myRouter,   \* Listen's local copy of p.router is not nil
    tkPc,       \* control state of the tokensHandle goroutine of a tunnel
    tkCnt,      \* requests for tokens this tunnel has carried
    dialPc,     \* control state of a connectToDest goroutine of a session
    seen,       \* uniqSession of Server.Close
    crashed     \* an unrecovered panic has ended the process

vars == <<container, tokens, nilTokens, keyOk, activeCnt, status, router, pool,
          pooled, sLock, made, opened, pc, ses, myRouter, tkPc, tkCnt, dialPc,
          seen, crashed>>
mgrVars  == <<container, tokens, nilTokens>>
muxVars  == <<status, router, pool, pooled, sLock>>
sideVars == <<tkPc, tkCnt, dialPc, seen>>

\* Mutant of MUX_CLOSED: a lost sign.
MuxClosedPositive == 2

MUX_PENDING_CLOSE == -1
MUX_CLOSED == -2

Proc == Tun \cup {Closer}

ServePcs   == {"serve", "push", "router", "listen", "poolCheck", "poolRemove",
               "routerCheck", "routerClean", "leave"}
DestroyPcs == {"cleanup", "clear", "status", "pending", "lock", "destroyPool",
               "nilRouter", "nilPool", "unlock", "setClosed"}
Pcs == {"idle", "auth", "reply", "cipher", "done"} \cup ServePcs \cup DestroyPcs

-----------------------------------------------------------------------------
\* Mutant of MuxClosed: a mux about to close does not count.
MuxFullyClosed(s) == status[s] = MUX_CLOSED

\* atomic.LoadInt32(&p.status) < 0
MuxClosed(s) == status[s] < 0

(* The operations of SessionMgr; each runs under mgr.lock. *)

\* Mutant of take: the owner keeps the key.
takeKeepsKey(k) ==
    /\ container' = [container EXCEPT ![k] = None]
    /\ UNCHANGED <<tokens, nilTokens>>

\* take: removes the token from the container and from its owner.
take(k) ==
    /\ container' = [container EXCEPT ![k] = None]
    /\ tokens' = IF container[k] = None THEN tokens
                 ELSE [tokens EXCEPT ![container[k]] = @ \ {k}]
    /\ UNCHANGED nilTokens

\* clearTokens: forgets every token of s and sets its map to nil.
clearTokens(s) ==
    /\ container' = [k \in Token |-> IF k \in tokens[s] THEN None ELSE container[k]]
    /\ tokens' = [tokens EXCEPT ![s] = {}]
    /\ nilTokens' = [nilTokens EXCEPT ![s] = TRUE]

\* Mutant of FreshTokens: a generated value is not looked up.
AnyTokens == {T \in SUBSET Token : Cardinality(T) = TokenNum}

\* The values createTokens may generate: a value found in the container is
\* drawn again.
FreshTokens ==
    {T \in SUBSET {k \in Token : container[k] = None} : Cardinality(T) = TokenNum}

\* Mutant of createTokens: session.tokens is not checked for nil.
createTokensUnchecked(s) ==
    /\ \E T \in FreshTokens :
         /\ container' = [k \in Token |-> IF k \in T THEN s ELSE container[k]]
         /\ tokens' = [tokens EXCEPT ![s] = @ \cup T]
    /\ UNCHANGED nilTokens

\* createTokens: nothing once clearTokens has run, else `many' new tokens.
createTokens(s) ==
    \/ /\ nilTokens[s]
       /\ UNCHANGED mgrVars
    \/ /\ ~nilTokens[s]
       /\ \E T \in FreshTokens :
            /\ container' = [k \in Token |-> IF k \in T THEN s ELSE container[k]]
            /\ tokens' = [tokens EXCEPT ![s] = @ \cup T]
       /\ UNCHANGED nilTokens

-----------------------------------------------------------------------------
Init ==
    /\ container = [k \in Token |-> None]
    /\ tokens = [s \in Sess |-> {}]
    /\ nilTokens = [s \in Sess |-> FALSE]
    /\ keyOk = [s \in Sess |-> TRUE]
    /\ activeCnt = [s \in Sess |-> 0]
    /\ status = [s \in Sess |-> 0]
    /\ router = [s \in Sess |-> "ok"]
    /\ pool = [s \in Sess |-> "ok"]
    /\ pooled = [s \in Sess |-> {}]
    /\ sLock = [s \in Sess |-> None]
    /\ made = {}
    /\ opened = [t \in Tun |-> TRUE]
    /\ pc = [p \in Proc |-> "idle"]
    /\ ses = [p \in Proc |-> None]
    /\ myRouter = [t \in Tun |-> FALSE]
    /\ tkPc = [t \in Tun |-> "idle"]
    /\ tkCnt = [t \in Tun |-> 0]
    /\ dialPc = [s \in Sess |-> "idle"]
    /\ seen = {}
    /\ crashed = FALSE

Goto(p, l) == pc' = [pc EXCEPT ![p] = l]

(* TunnelServe: the handshake of one connection. *)

\* verifyDbcHello or finishDHExchange failed: no session, the socket is closed.
Reject(t) ==
    /\ pc[t] = "idle"
    /\ Goto(t, "done")
    /\ opened' = [opened EXCEPT ![t] = FALSE]
    /\ UNCHANGED <<mgrVars, muxVars, sideVars, keyOk, activeCnt, made, ses,
                   myRouter, crashed>>

\* fullHandshake: NewSession, then authenticate waits for the client.
NewSession(t) ==
    /\ pc[t] = "idle"
    /\ \E s \in Sess \ made :
         /\ made' = made \cup {s}
         /\ ses' = [ses EXCEPT ![t] = s]
    /\ Goto(t, "auth")
    /\ UNCHANGED <<mgrVars, muxVars, sideVars, keyOk, activeCnt, opened,
                   myRouter, crashed>>

\* authenticate: credentials accepted, tokens generated for the reply.
Authenticated(t) ==
    /\ pc[t] = "auth"
    /\ createTokens(ses[t])
    /\ Goto(t, "reply")
    /\ UNCHANGED <<muxVars, sideVars, keyOk, activeCnt, made, opened, ses,
                   myRouter, crashed>>

\* The reply was written; Connect returned without error.
Replied(t) ==
    /\ pc[t] = "reply"
    /\ Goto(t, "serve")
    /\ UNCHANGED <<mgrVars, muxVars, sideVars, keyOk, activeCnt, made, opened,
                   ses, myRouter, crashed>>

\* authenticate failed (bad credentials, broken socket, reply not written):
\* TunnelServe closes the socket and forgets the session's tokens.
HandshakeFailed(t) ==
    /\ pc[t] \in {"auth", "reply"}
    /\ clearTokens(ses[t])
    /\ Goto(t, "done")
    /\ opened' = [opened EXCEPT ![t] = FALSE]
    /\ UNCHANGED <<muxVars, sideVars, keyOk, activeCnt, made, ses, myRouter,
                   crashed>>

\* resumeSession: take(token); an unknown token closes the socket.
Resume(t) ==
    /\ pc[t] = "idle"
    /\ \E k \in Token :
         /\ take(k)
         /\ ses' = [ses EXCEPT ![t] = container[k]]
         /\ IF container[k] = None
            THEN Goto(t, "done") /\ opened' = [opened EXCEPT ![t] = FALSE]
            ELSE Goto(t, "cipher") /\ UNCHANGED opened
    /\ UNCHANGED <<muxVars, sideVars, keyOk, activeCnt, made, myRouter, crashed>>

\* conn.SetupCipher(session.cipherFactory, token), SetId, go DataTunServe.
SetupCipher(t) ==
    /\ pc[t] = "cipher"
    /\ Goto(t, "serve")
    /\ UNCHANGED <<mgrVars, muxVars, sideVars, keyOk, activeCnt, made, opened,
                   ses, myRouter, crashed>>

-----------------------------------------------------------------------------
(* DataTunServe and the parts of Listen that touch mux fields. *)

\* Mutant of AddActive: a flag instead of a count.
SetActive(s, d) == activeCnt' = [activeCnt EXCEPT ![s] = IF d > 0 THEN 1 ELSE 0]

\* atomic.AddInt32(&t.activeCnt, d)
AddActive(s, d) == activeCnt' = [activeCnt EXCEPT ![s] = @ + d]

\* Mutant of LastTunnel: off by one.
NoTunnelBefore(s) == activeCnt[s] - 1 < 0

\* The result of the deferred atomic.AddInt32(&t.activeCnt, -1) is <= 0.
LastTunnel(s) == activeCnt[s] - 1 <= 0

\* A nil dereference in a goroutine that recovers nothing ends the process.
Crash == crashed' = TRUE

ServeStart(t) ==
    /\ pc[t] = "serve"
    /\ AddActive(ses[t], 1)
    /\ Goto(t, "push")
    /\ UNCHANGED <<mgrVars, muxVars, sideVars, keyOk, made, opened, ses,
                   myRouter, crashed>>

\* Listen: p.pool.Push(tun).
PoolPush(t) ==
    /\ pc[t] = "push"
    /\ IF pool[ses[t]] = "nil"
       THEN Crash /\ UNCHANGED <<pc, pooled>>
       ELSE /\ pooled' = [pooled EXCEPT ![ses[t]] = @ \cup {t}]
            /\ Goto(t, "router")
            /\ UNCHANGED crashed
    /\ UNCHANGED <<mgrVars, status, router, pool, sLock, sideVars, keyOk,
                   activeCnt, made, opened, ses, myRouter>>

\* Listen: router = p.router, first ping, enter the frame loop.
ReadRouter(t) ==
    /\ pc[t] = "router"
    /\ myRouter' = [myRouter EXCEPT ![t] = router[ses[t]] /= "nil"]
    /\ Goto(t, "listen")
    /\ UNCHANGED <<mgrVars, muxVars, sideVars, keyOk, activeCnt, made, opened,
                   ses, crashed>>

\* Listen, FRAME_ACTION_OPEN: router.preRegister, go connectToDest.
FrameOpen(t) ==
    /\ pc[t] = "listen" /\ opened[t]
    /\ IF myRouter[t]
       THEN /\ dialPc[ses[t]] = "idle"
            /\ dialPc' = [dialPc EXCEPT ![ses[t]] = "dial"]
            /\ UNCHANGED crashed
       ELSE Crash /\ UNCHANGED dialPc
    /\ UNCHANGED <<mgrVars, muxVars, tkPc, tkCnt, seen, keyOk, activeCnt, made,
                   opened, pc, ses, myRouter>>

\* Listen, FRAME_ACTION_TOKENS: go tokensHandle.
FrameTokens(t) ==
    /\ pc[t] = "listen" /\ opened[t]
    /\ tkPc[t] = "idle" /\ tkCnt[t] < MaxReq
    /\ tkPc' = [tkPc EXCEPT ![t] = "create"]
    /\ tkCnt' = [tkCnt EXCEPT ![t] = @ + 1]
    /\ UNCHANGED <<mgrVars, muxVars, dialPc, seen, keyOk, activeCnt, made,
                   opened, pc, ses, myRouter, crashed>>

\* The peer goes away, stays silent or sends a corrupt frame, or the server
\* side socket was closed by pool.destroy: Listen returns and its deferred
\* onTunDisconnected closes the socket.
Disconnected(t) ==
    /\ pc[t] = "listen"
    /\ opened' = [opened EXCEPT ![t] = FALSE]
    /\ Goto(t, "poolCheck")
    /\ UNCHANGED <<mgrVars, muxVars, sideVars, keyOk, activeCnt, made, ses,
                   myRouter, crashed>>

\* onTunDisconnected: if p.pool != nil ...
PoolCheck(t) ==
    /\ pc[t] = "poolCheck"
    /\ Goto(t, IF pool[ses[t]] /= "nil" THEN "poolRemove" ELSE "routerCheck")
    /\ UNCHANGED <<mgrVars, muxVars, sideVars, keyOk, activeCnt, made, opened,
                   ses, myRouter, crashed>>

\* ... p.pool.Remove(tun), which reads the field again.
PoolRemove(t) ==
    /\ pc[t] = "poolRemove"
    /\ IF pool[ses[t]] = "nil"
       THEN Crash /\ UNCHANGED <<pc, pooled>>
       ELSE /\ pooled' = [pooled EXCEPT ![ses[t]] = @ \ {t}]
            /\ Goto(t, "routerCheck")
            /\ UNCHANGED crashed
    /\ UNCHANGED <<mgrVars, status, router, pool, sLock, sideVars, keyOk,
                   activeCnt, made, opened, ses, myRouter>>

\* onTunDisconnected: if p.router != nil ...
RouterCheck(t) ==
    /\ pc[t] = "routerCheck"
    /\ Goto(t, IF router[ses[t]] /= "nil" THEN "routerClean" ELSE "leave")
    /\ UNCHANGED <<mgrVars, muxVars, sideVars, keyOk, activeCnt, made, opened,
                   ses, myRouter, crashed>>

\* ... p.router.cleanOfTun(tun).
RouterClean(t) ==
    /\ pc[t] = "routerClean"
    /\ IF router[ses[t]] = "nil"
       THEN Crash /\ UNCHANGED pc
       ELSE Goto(t, "leave") /\ UNCHANGED crashed
    /\ UNCHANGED <<mgrVars, muxVars, sideVars, keyOk, activeCnt, made, opened,
                   ses, myRouter>>

\* DataTunServe's deferred function: the last tunnel destroys the session.
ServeEnd(t) ==
    /\ pc[t] = "leave"
    /\ AddActive(ses[t], -1)
    /\ Goto(t, IF LastTunnel(ses[t]) THEN "cleanup" ELSE "done")
    /\ UNCHANGED <<mgrVars, muxVars, sideVars, keyOk, made, opened, ses,
                   myRouter, crashed>>

-----------------------------------------------------------------------------
(* Session.destroy and multiplexer.destroy, by a tunnel goroutine or by     *)
(* the closer.                                                              *)

\* Where a goroutine goes after destroy returns.
AfterDestroy(p) == IF p = Closer THEN "idle" ELSE "done"

\* cipherFactory.Cleanup()
DestroyCleanup(p) ==
    /\ pc[p] = "cleanup"
    /\ keyOk' = [keyOk EXCEPT ![ses[p]] = FALSE]
    /\ Goto(p, "clear")
    /\ UNCHANGED <<mgrVars, muxVars, sideVars, activeCnt, made, opened, ses,
                   myRouter, crashed>>

\* mgr.clearTokens(t)
DestroyTokens(p) ==
    /\ pc[p] = "clear"
    /\ clearTokens(ses[p])
    /\ Goto(p, "status")
    /\ UNCHANGED <<muxVars, sideVars, keyOk, activeCnt, made, opened, ses,
                   myRouter, crashed>>

\* mux.destroy: don't close repeatedly
DestroyCheck(p) ==
    /\ pc[p] = "status"
    /\ Goto(p, IF MuxClosed(ses[p]) THEN AfterDestroy(p) ELSE "pending")
    /\ UNCHANGED <<mgrVars, muxVars, sideVars, keyOk, activeCnt, made, opened,
                   ses, myRouter, crashed>>

DestroyPending(p) ==
    /\ pc[p] = "pending"
    /\ status' = [status EXCEPT ![ses[p]] = MUX_PENDING_CLOSE]
    /\ Goto(p, "lock")
    /\ UNCHANGED <<mgrVars, router, pool, pooled, sLock, sideVars, keyOk,
                   activeCnt, made, opened, ses, myRouter, crashed>>

\* sLock.Lock, p.router.destroy(); on a nil router the panic is recovered
\* and status stays as it is.
DestroyRouter(p) ==
    /\ pc[p] = "lock" /\ sLock[ses[p]] = None
    /\ IF router[ses[p]] = "nil"
       THEN Goto(p, AfterDestroy(p)) /\ UNCHANGED <<router, sLock>>
       ELSE /\ sLock' = [sLock EXCEPT ![ses[p]] = p]
            /\ router' = [router EXCEPT ![ses[p]] = "destroyed"]
            /\ Goto(p, "destroyPool")
    /\ UNCHANGED <<mgrVars, status, pool, pooled, sideVars, keyOk, activeCnt,
                   made, opened, ses, myRouter, crashed>>

\* p.pool.destroy() closes every tunnel in the pool.
DestroyPool(p) ==
    /\ pc[p] = "destroyPool"
    /\ opened' = [t \in Tun |-> opened[t] /\ t \notin pooled[ses[p]]]
    /\ pooled' = [pooled EXCEPT ![ses[p]] = {}]
    /\ pool' = [pool EXCEPT ![ses[p]] = "destroyed"]
    /\ Goto(p, "nilRouter")
    /\ UNCHANGED <<mgrVars, status, router, sLock, sideVars, keyOk, activeCnt,
                   made, ses, myRouter, crashed>>

\* Mutant of DestroyNilRouter: p.router is kept.
DestroyKeepsRouter(p) ==
    /\ pc[p] = "nilRouter"
    /\ Goto(p, "nilPool")
    /\ UNCHANGED <<mgrVars, muxVars, sideVars, keyOk, activeCnt, made, opened,
                   ses, myRouter, crashed>>

DestroyNilRouter(p) ==
    /\ pc[p] = "nilRouter"
    /\ router' = [router EXCEPT ![ses[p]] = "nil"]
    /\ Goto(p, "nilPool")
    /\ UNCHANGED <<mgrVars, status, pool, pooled, sLock, sideVars, keyOk,
                   activeCnt, made, opened, ses, myRouter, crashed>>

DestroyNilPool(p) ==
    /\ pc[p] = "nilPool"
    /\ pool' = [pool EXCEPT ![ses[p]] = "nil"]
    /\ pooled' = [pooled EXCEPT ![ses[p]] = {}]
    /\ Goto(p, "unlock")
    /\ UNCHANGED <<mgrVars, status, router, sLock, sideVars, keyOk, activeCnt,
                   made, opened, ses, myRouter, crashed>>

DestroyUnlock(p) ==
    /\ pc[p] = "unlock"
    /\ sLock' = [sLock EXCEPT ![ses[p]] = None]
    /\ Goto(p, "setClosed")
    /\ UNCHANGED <<mgrVars, status, router, pool, pooled, sideVars, keyOk,
                   activeCnt, made, opened, ses, myRouter, crashed>>

DestroyClosed(p) ==
    /\ pc[p] = "setClosed"
    /\ status' = [status EXCEPT ![ses[p]] = MUX_CLOSED]
    /\ Goto(p, AfterDestroy(p))
    /\ UNCHANGED <<mgrVars, router, pool, pooled, sLock, sideVars, keyOk,
                   activeCnt, made, opened, ses, myRouter, crashed>>

\* Server.Close: one session of every client name met in the container.
Close ==
    /\ pc[Closer] = "idle"
    /\ \E k \in Token :
         /\ container[k] /= None
         /\ cid[container[k]] \notin seen
         /\ seen' = seen \cup {cid[container[k]]}
         /\ ses' = [ses EXCEPT ![Closer] = container[k]]
    /\ Goto(Closer, "cleanup")
    /\ UNCHANGED <<mgrVars, muxVars, tkPc, tkCnt, dialPc, keyOk, activeCnt,
                   made, opened, myRouter, crashed>>

-----------------------------------------------------------------------------
(* tokensHandle and bestSend: one goroutine per request, no recover. *)

TokensCreate(t) ==
    /\ tkPc[t] = "create"
    /\ createTokens(ses[t])
    /\ tkPc' = [tkPc EXCEPT ![t] = IF nilTokens[ses[t]] THEN "idle" ELSE "check"]
    /\ UNCHANGED <<muxVars, tkCnt, dialPc, seen, keyOk, activeCnt, made, opened,
                   pc, ses, myRouter, crashed>>

\* bestSend: abandon when the mux is closed, else use p.pool.
TokensCheck(t) ==
    /\ tkPc[t] = "check"
    /\ tkPc' = [tkPc EXCEPT ![t] = IF MuxClosed(ses[t]) \/ pool[ses[t]] = "nil"
                                   THEN "idle" ELSE "select"]
    /\ UNCHANGED <<mgrVars, muxVars, tkCnt, dialPc, seen, keyOk, activeCnt,
                   made, opened, pc, ses, myRouter, crashed>>

\* p.pool.Select(), then the write; a failed try goes back to the check, a
\* sent reply or the third failure ends the goroutine.
TokensSelect(t) ==
    /\ tkPc[t] = "select"
    /\ IF pool[ses[t]] = "nil"
       THEN Crash /\ UNCHANGED tkPc
       ELSE /\ \E l \in {"check", "idle"} : tkPc' = [tkPc EXCEPT ![t] = l]
            /\ UNCHANGED crashed
    /\ UNCHANGED <<mgrVars, muxVars, tkCnt, dialPc, seen, keyOk, activeCnt,
                   made, opened, pc, ses, myRouter>>

-----------------------------------------------------------------------------
(* connectToDest: the check of mux.status under sLock, then the router. *)

\* sLock.Lock, status check; a closed mux makes it return.
DialLock(s) ==
    /\ dialPc[s] = "dial" /\ sLock[s] = None
    /\ IF MuxClosed(s)
       THEN dialPc' = [dialPc EXCEPT ![s] = "idle"] /\ UNCHANGED sLock
       ELSE /\ sLock' = [sLock EXCEPT ![s] = s]
            /\ dialPc' = [dialPc EXCEPT ![s] = "use"]
    /\ UNCHANGED <<mgrVars, status, router, pool, pooled, tkPc, tkCnt, seen,
                   keyOk, activeCnt, made, opened, pc, ses, myRouter, crashed>>

\* p.router.register or removePreRegistered, then Unlock.
DialUse(s) ==
    /\ dialPc[s] = "use"
    /\ IF router[s] = "ok"
       THEN /\ dialPc' = [dialPc EXCEPT ![s] = "idle"]
            /\ sLock' = [sLock EXCEPT ![s] = None]
            /\ UNCHANGED crashed
       ELSE Crash /\ UNCHANGED <<dialPc, sLock>>
    /\ UNCHANGED <<mgrVars, status, router, pool, pooled, tkPc, tkCnt, seen,
                   keyOk, activeCnt, made, opened, pc, ses, myRouter>>

-----------------------------------------------------------------------------
Destroy(p) ==
    \/ DestroyCleanup(p)   \/ DestroyTokens(p)    \/ DestroyCheck(p)
    \/ DestroyPending(p)   \/ DestroyRouter(p)    \/ DestroyPool(p)
    \/ DestroyNilRouter(p) \/ DestroyNilPool(p)   \/ DestroyUnlock(p)
    \/ DestroyClosed(p)

\* The steps of DataTunServe after Listen has returned.
Leave(t) ==
    \/ PoolCheck(t) \/ PoolRemove(t) \/ RouterCheck(t) \/ RouterClean(t)
    \/ ServeEnd(t)

TunStep(t) ==
    \/ Reject(t)     \/ NewSession(t)  \/ Authenticated(t) \/ Replied(t)
    \/ HandshakeFailed(t) \/ Resume(t) \/ SetupCipher(t)   \/ ServeStart(t)
    \/ PoolPush(t)   \/ ReadRouter(t)  \/ FrameOpen(t)     \/ FrameTokens(t)
    \/ Disconnected(t) \/ Leave(t)
    \/ TokensCreate(t) \/ TokensCheck(t) \/ TokensSelect(t)

Next ==
    /\ ~crashed
    /\ \/ \E t \in Tun : TunStep(t)
       \/ \E p \in Proc : Destroy(p)
       \/ \E s \in Sess : DialLock(s) \/ DialUse(s)
       \/ Close

Spec == Init /\ [][Next]_vars

\* Goroutines that are not waiting for the network keep running.
\* A read on a socket that pool.destroy has closed fails.
Running(p) ==
    \/ Destroy(p)
    \/ p \in Tun /\ (Leave(p) \/ (~opened[p] /\ Disconnected(p)))
Fairness ==
    /\ \A p \in Proc : WF_vars(~crashed /\ Running(p))
    /\ \A s \in Sess : WF_vars(~crashed /\ (DialLock(s) \/ DialUse(s)))

FairSpec == Spec /\ Fairness

-----------------------------------------------------------------------------
(* Properties *)

\* Every variable has its type.
TypeMgr ==
    /\ container \in [Token -> Sess \cup {None}]
    /\ tokens \in [Sess -> SUBSET Token]
    /\ nilTokens \in [Sess -> BOOLEAN]
TypeMux ==
    /\ status \in [Sess -> {0, -1, -2}]
    /\ router \in [Sess -> {"ok", "destroyed", "nil"}]
    /\ pool \in [Sess -> {"ok", "destroyed", "nil"}]
    /\ pooled \in [Sess -> SUBSET Tun]
    /\ sLock \in [Sess -> Proc \cup Sess \cup {None}]
TypeControl ==
    /\ made \in SUBSET Sess
    /\ pc \in [Proc -> Pcs]
    /\ ses \in [Proc -> Sess \cup {None}]
    /\ tkPc \in [Tun -> {"idle", "create", "check", "select"}]
    /\ dialPc \in [Sess -> {"idle", "dial", "use"}]
TypeCounters ==
    /\ activeCnt \in [Sess -> Int]
    /\ tkCnt \in [Tun -> Nat]
    /\ seen \in SUBSET {cid[s] : s \in Sess}
TypeFlags ==
    /\ keyOk \in [Sess -> BOOLEAN]
    /\ opened \in [Tun -> BOOLEAN]
    /\ myRouter \in [Tun -> BOOLEAN]
    /\ crashed \in BOOLEAN
TypeOK == TypeMgr /\ TypeMux /\ TypeControl /\ TypeCounters /\ TypeFlags

\* The two maps of the token table agree: a token leads to a session exactly
\* when that session owns it, so clearTokens(s), which walks session.tokens,
\* removes every container entry of s and none of another session.
TokenTable ==
    \A k \in Token, s \in Sess : container[k] = s <=> k \in tokens[s]

\* Once clearTokens has run for a session (failed handshake or destroy) no
\* token leads to it any more, whatever createTokens calls were in flight
\* (the "issue #35" of createTokens).
NoTokenAfterClear ==
    \A s \in Sess : nilTokens[s] => \A k \in Token : container[k] /= s

\* A goroutine that serves t is counted by its session between the two
\* atomic additions of DataTunServe, and nothing else is counted.
Counted == {"push", "router", "listen", "poolCheck", "poolRemove",
            "routerCheck", "routerClean", "leave"}
ActiveCount ==
    \A s \in Sess :
        activeCnt[s] = Cardinality({t \in Tun : ses[t] = s /\ pc[t] \in Counted})

\* The protocol of multiplexer.destroy and connectToDest: a connectToDest that
\* read a non-negative status under sLock finds the router intact until it
\* unlocks, whoever is destroying the mux.
DialSeesRouter ==
    \A s \in Sess : dialPc[s] = "use" => router[s] = "ok"

\* Router.destroy closes a channel, so it must not run twice on one router,
\* although two goroutines may both pass the status check of mux.destroy.
RouterDestroyedOnce ==
    \A p \in Proc : pc[p] = "lock" /\ sLock[ses[p]] = None
                     => router[ses[p]] \in {"ok", "nil"}

\* The inductive invariant of the proofs.  A goroutine at work has a session;
\* sLock is held by the destroyer in its critical section or by connectToDest;
\* the router is only touched after status has become negative, and is never
\* left "destroyed" when the lock is free.
HasSession ==
    /\ \A p \in Proc : pc[p] \notin {"idle", "done"} => ses[p] \in Sess
    /\ \A t \in Tun : tkPc[t] /= "idle" => ses[t] \in Sess /\ pc[t] /= "idle"
LockPcs == {"destroyPool", "nilRouter", "nilPool", "unlock"}
LockInv ==
    /\ \A p \in Proc : pc[p] \in LockPcs => sLock[ses[p]] = p
    /\ \A p \in Proc : pc[p] \in LockPcs \cup {"lock", "setClosed"} => status[ses[p]] < 0
    /\ \A p \in Proc : pc[p] \in {"nilPool", "unlock"} => router[ses[p]] = "nil"
    /\ \A s \in Sess : dialPc[s] = "use" => sLock[s] = s /\ router[s] = "ok"
    /\ \A s \in Sess : router[s] /= "ok" => status[s] < 0
    /\ \A s \in Sess : sLock[s] = None => router[s] /= "destroyed"
IInv == TypeOK /\ HasSession /\ TokenTable /\ NoTokenAfterClear /\ LockInv

\* A token is never handed from one session to another: it is first taken or
\* cleared.
TokenOwner ==
    [][\A k \in Token : container[k] /= None
          => container'[k] \in {container[k], None}]_vars

\* A session all of whose tunnels have stopped listening is torn down, unless
\* another tunnel resumes it in time or the process dies.
Serving(s) == \E t \in Tun : ses[t] = s /\ pc[t] \in {"cipher", "serve", "push", "router", "listen"}
Leaving(s) == \E t \in Tun : ses[t] = s /\ pc[t] \in {"poolCheck", "poolRemove", "routerCheck", "routerClean", "leave"}
Reclaimed ==
    \A s \in Sess :
        Leaving(s) ~> (pool[s] = "nil" /\ nilTokens[s]) \/ Serving(s) \/ crashed

\* Until Server.Close, no goroutine uses a mux field that destroy set to nil: what the
\* status check of connectToDest ("to prevent mux.fields were cleaned") is for.
NoNilMux == seen = {} => ~crashed
=============================================================================
