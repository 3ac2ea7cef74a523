------------------------------- MODULE Client -------------------------------
(***************************************************************************)
(* The client's tunnels (src/tunnel/client.go): the goroutines of StartTun *)
(* that keep `parallels' tunnels open, the restart that logs in again and  *)
(* replaces the mux when all of them are lost, and the pool of tokens that *)
(* lets a further tunnel join the session.                                 *)
(*                                                                         *)
(* A session of the server is known by the number of its login, a mux by   *)
(* the number of the restart that made it.  The server and the network     *)
(* decide when a login or a dial succeeds and when a tunnel ends.  Sleeps  *)
(* take no model time: any order of the goroutines is possible.            *)
(***************************************************************************)
EXTENDS Integers, Sequences, FiniteSets

CONSTANTS G,            \* goroutines that may run StartTun at one time
          None,         \* no tunnel
          Parallels,    \* params.parallels
          Floor,        \* TOKENS_FLOOR
          LoginTokens,  \* tokens the server hands out at login
          MaxLogin,     \* bound: successful logins
          MaxTokens     \* bound: tokens in the pool when a reply is asked for

ASSUME ClientAssumption ==
    /\ IsFiniteSet(G) /\ None \notin Nat
    /\ Parallels \in Nat \ {0}
    /\ Floor \in Nat /\ LoginTokens \in Nat
    /\ MaxLogin \in Nat /\ MaxTokens \in Nat

CLT_WORKING == 0
CLT_PENDING == 1

VARIABLES
    state,     \* c.state
    round,     \* c.round
    dtCnt,     \* c.dtCnt
    mux,       \* c.mux, 0 when nil
    dead,      \* muxes that were destroyed
    pinged,    \* muxes with pingCnt > 0
    token,     \* c.token: the session of each token
    asked,     \* a token request to the server of c.mux is unanswered
    saving,    \* replies that saveTokens goroutines hold
    logins,    \* sessions opened so far
    pc,        \* control state of every goroutine, "free" when not started
    must,      \* mustRestart
    rn,        \* the goroutine's round
    tun,       \* the session of the goroutine's tunnel, or of the token it has
               \* taken for one; None when tun is nil
    on,        \* the mux it listens on
    cnt,       \* dtcnt: what the goroutine got from its last addition
    crashed    \* an unrecovered panic has ended the client

vars == <<state, round, dtCnt, mux, dead, pinged, token, asked, saving, logins,
          pc, must, rn, tun, on, cnt, crashed>>
tokenVars == <<token, asked, saving>>
muxVars   == <<mux, dead, pinged>>
locals    == <<rn, tun, on, cnt>>

RestartPcs == {"clear", "spin", "destroy", "newMux", "login", "working"}
Counted    == {"enter", "listen", "uncount"}
Pcs == {"free", "start", "check", "round", "spawn", "state", "token", "retoken",
        "await", "resume", "count", "dirty", "offline"} \cup RestartPcs \cup Counted

Goto(g, l) == pc' = [pc EXCEPT ![g] = l]

\* StartTun returns; what the goroutine remembered is gone.
Exit(g) ==
    /\ Goto(g, "free")
    /\ rn' = [rn EXCEPT ![g] = 0]
    /\ tun' = [tun EXCEPT ![g] = None]
    /\ cnt' = [cnt EXCEPT ![g] = 0]
    /\ UNCHANGED on

\* NewClient, then `go client.StartTun(true)'.
Init ==
    /\ state = CLT_WORKING /\ round = 0 /\ dtCnt = 0
    /\ mux = 0 /\ dead = {} /\ pinged = {}
    /\ token = <<>> /\ asked = FALSE /\ saving = {}
    /\ logins = 0
    /\ \E g \in G :
         /\ pc = [h \in G |-> IF h = g THEN "start" ELSE "free"]
         /\ must = [h \in G |-> h = g]
    /\ rn = [g \in G |-> 0]
    /\ tun = [g \in G |-> None]
    /\ on = [g \in G |-> 0]
    /\ cnt = [g \in G |-> 0]
    /\ crashed = FALSE

-----------------------------------------------------------------------------
(* StartTun: the head of its loop *)

\* rn = c.round
Start(g) ==
    /\ pc[g] = "start"
    /\ rn' = [rn EXCEPT ![g] = round]
    /\ Goto(g, "check")
    /\ UNCHANGED <<state, round, dtCnt, muxVars, tokenVars, logins, must, tun,
                   on, cnt, crashed>>

\* Mutant of Outdated: a goroutine of an earlier round goes on.
NeverOutdated(g) == FALSE

\* Mutant of Outdated: the comparison is off by one.
OutdatedEarly(g) == rn[g] <= round

\* rn < c.round: another goroutine has restarted since.
Outdated(g) == rn[g] < round

Check(g) ==
    /\ pc[g] = "check"
    /\ IF Outdated(g) THEN Exit(g)
       ELSE Goto(g, IF must[g] THEN "clear" ELSE "state") /\ UNCHANGED locals
    /\ must' = [must EXCEPT ![g] = FALSE]
    /\ UNCHANGED <<state, round, dtCnt, muxVars, tokenVars, logins, crashed>>

\* c.state == CLT_WORKING, else "now is restarting then exit".
State(g) ==
    /\ pc[g] = "state"
    /\ IF state /= CLT_WORKING THEN Exit(g)
       ELSE Goto(g, IF tun[g] = None THEN "token" ELSE "count") /\ UNCHANGED locals
    /\ UNCHANGED <<state, round, dtCnt, muxVars, tokenVars, logins, must, crashed>>

-----------------------------------------------------------------------------
(* restart *)

\* pendingTK.clearAll: the goroutines that are waiting for a token, or some of
\* them, give up.
RestartClear(g) ==
    /\ pc[g] = "clear"
    /\ \E W \in SUBSET {h \in G : pc[h] = "await"} :
         pc' = [h \in G |-> IF h \in W THEN "check"
                            ELSE IF h = g THEN (IF mux = 0 THEN "newMux" ELSE "spin")
                            ELSE pc[h]]
    /\ UNCHANGED <<state, round, dtCnt, muxVars, tokenVars, logins, must, locals,
                   crashed>>

\* "spin wait for all mux.Listen() goroutines exits"
RestartSpin(g) ==
    /\ pc[g] = "spin" /\ dtCnt <= 0
    /\ Goto(g, "destroy")
    /\ UNCHANGED <<state, round, dtCnt, muxVars, tokenVars, logins, must, locals,
                   crashed>>

RestartDestroy(g) ==
    /\ pc[g] = "destroy"
    /\ dead' = dead \cup {mux}
    /\ asked' = FALSE
    /\ Goto(g, "newMux")
    /\ UNCHANGED <<state, round, dtCnt, mux, pinged, token, saving, logins, must,
                   locals, crashed>>

RestartNewMux(g) ==
    /\ pc[g] = "newMux"
    /\ mux' = mux + 1
    /\ Goto(g, "login")
    /\ UNCHANGED <<state, round, dtCnt, dead, pinged, tokenVars, logins, must,
                   locals, crashed>>

\* initialConnect succeeds; until then it is tried again and again.
RestartLogin(g) ==
    /\ pc[g] = "login" /\ logins < MaxLogin
    /\ logins' = logins + 1
    /\ token' = [i \in 1 .. LoginTokens |-> logins + 1]
    /\ tun' = [tun EXCEPT ![g] = logins + 1]
    /\ Goto(g, "working")
    /\ UNCHANGED <<state, round, dtCnt, muxVars, asked, saving, must, rn, on, cnt,
                   crashed>>

RestartWorking(g) ==
    /\ pc[g] = "working"
    /\ state' = CLT_WORKING
    /\ Goto(g, "round")
    /\ UNCHANGED <<round, dtCnt, muxVars, tokenVars, logins, must, locals, crashed>>

RestartRound(g) ==
    /\ pc[g] = "round"
    /\ round' = round + 1
    /\ rn' = [rn EXCEPT ![g] = round + 1]
    /\ Goto(g, "spawn")
    /\ UNCHANGED <<state, dtCnt, muxVars, tokenVars, logins, must, tun, on, cnt,
                   crashed>>

\* "start n-1 data tun"
RestartSpawn(g) ==
    /\ pc[g] = "spawn"
    /\ \E N \in SUBSET {h \in G : pc[h] = "free"} :
         /\ Cardinality(N) = Parallels - 1
         /\ pc' = [h \in G |-> IF h \in N THEN "start"
                               ELSE IF h = g THEN "state" ELSE pc[h]]
         /\ tun' = [h \in G |-> IF h \in N THEN None ELSE tun[h]]
    /\ UNCHANGED <<state, round, dtCnt, muxVars, tokenVars, logins, must, rn, on,
                   cnt, crashed>>

-----------------------------------------------------------------------------
(* createDataTun *)

\* getToken, once c.lock is held and a token is there.
takeToken(g) ==
    /\ tun' = [tun EXCEPT ![g] = Head(token)]
    /\ token' = Tail(token)
    /\ Goto(g, "resume")

\* getToken: ask for more when few are left; take one, or wait for them.
GetToken(g) ==
    /\ pc[g] = "token"
    /\ asked' = (asked \/ (Len(token) <= Floor /\ state >= CLT_WORKING /\ mux \notin dead))
    /\ IF token = <<>> THEN Goto(g, "await") /\ UNCHANGED <<token, tun>>
       ELSE takeToken(g)
    /\ UNCHANGED <<state, round, dtCnt, muxVars, saving, logins, must, rn, on,
                   cnt, crashed>>

\* After the wait the pool is looked at again, under the lock.
GetTokenAgain(g) ==
    /\ pc[g] = "retoken"
    /\ IF token = <<>> THEN Goto(g, "await") /\ UNCHANGED <<token, tun>>
       ELSE takeToken(g)
    /\ UNCHANGED <<state, round, dtCnt, muxVars, asked, saving, logins, must, rn,
                   on, cnt, crashed>>

AwaitTimeout(g) ==
    /\ pc[g] = "await"
    /\ Goto(g, "check")
    /\ UNCHANGED <<state, round, dtCnt, muxVars, tokenVars, logins, must, locals,
                   crashed>>

\* ResumeSession sends the token and does not wait for an answer; when it
\* fails the token is lost.
Resume(g) ==
    /\ pc[g] = "resume"
    /\ \/ Goto(g, "count") /\ UNCHANGED tun
       \/ Goto(g, "check") /\ tun' = [tun EXCEPT ![g] = None]
    /\ UNCHANGED <<state, round, dtCnt, muxVars, tokenVars, logins, must, rn, on,
                   cnt, crashed>>

-----------------------------------------------------------------------------
(* The life of one tunnel *)

\* Mutant of AddTun: the tunnel is not counted.
ForgetTun == UNCHANGED dtCnt

\* dtcnt = atomic.AddInt32(&c.dtCnt, 1)
AddTun == dtCnt' = dtCnt + 1

Count(g) ==
    /\ pc[g] = "count"
    /\ AddTun
    /\ Goto(g, "enter")
    /\ UNCHANGED <<state, round, muxVars, tokenVars, logins, must, locals, crashed>>

\* c.mux.Listen(tun, ...): p.pool is nil once the mux has been destroyed.
Enter(g) ==
    /\ pc[g] = "enter"
    /\ IF mux \in dead THEN crashed' = TRUE /\ UNCHANGED <<pc, on>>
       ELSE /\ on' = [on EXCEPT ![g] = mux]
            /\ Goto(g, "listen")
            /\ UNCHANGED crashed
    /\ UNCHANGED <<state, round, dtCnt, muxVars, tokenVars, logins, must, rn, tun,
                   cnt>>

\* The server's ping shows that it has accepted the token.
ListenPing(g) ==
    /\ pc[g] = "listen" /\ on[g] \notin pinged
    /\ pinged' = pinged \cup {on[g]}
    /\ UNCHANGED <<state, round, dtCnt, mux, dead, tokenVars, logins, pc, must,
                   locals, crashed>>

\* A token reply for the session of the tunnel: go saveTokens.
ListenTokens(g) ==
    /\ pc[g] = "listen" /\ on[g] = mux /\ asked /\ Len(token) < MaxTokens
    /\ asked' = FALSE
    /\ saving' = saving \cup {tun[g]}
    /\ UNCHANGED <<state, round, dtCnt, muxVars, token, logins, pc, must, locals,
                   crashed>>

\* saveTokens: the tokens join the pool and the waiting goroutines, or those
\* that notifyAll finds waiting, look again.
SaveTokens(s) ==
    /\ s \in saving
    /\ saving' = saving \ {s}
    /\ token' = Append(token, s)
    /\ \E W \in SUBSET {h \in G : pc[h] = "await"} :
         pc' = [h \in G |-> IF h \in W THEN "retoken" ELSE pc[h]]
    /\ UNCHANGED <<state, round, dtCnt, muxVars, asked, logins, must, locals,
                   crashed>>

\* Listen returns.
ListenEnd(g) ==
    /\ pc[g] = "listen"
    /\ Goto(g, "uncount")
    /\ on' = [on EXCEPT ![g] = 0]
    /\ UNCHANGED <<state, round, dtCnt, muxVars, tokenVars, logins, must, rn, tun,
                   cnt, crashed>>

\* dtcnt = atomic.AddInt32(&c.dtCnt, -1); tun = nil
Uncount(g) ==
    /\ pc[g] = "uncount"
    /\ dtCnt' = dtCnt - 1
    /\ cnt' = [cnt EXCEPT ![g] = dtCnt - 1]
    /\ tun' = [tun EXCEPT ![g] = None]
    /\ Goto(g, "dirty")
    /\ UNCHANGED <<state, round, muxVars, tokenVars, logins, must, rn, on,
                   crashed>>

\* "dirty tokens: used abandoned tokens"
Dirty(g) ==
    /\ pc[g] = "dirty"
    /\ token' = IF mux \in pinged THEN token ELSE <<>>
    /\ Goto(g, "offline")
    /\ UNCHANGED <<state, round, dtCnt, muxVars, asked, saving, logins, must,
                   locals, crashed>>

\* Mutant of casPending: test and set apart, the test is not repeated.
setPending == state' = CLT_PENDING

\* Mutant of casPending: the state is tested and left as it is.
testWorking == state = CLT_WORKING /\ UNCHANGED state

\* atomic.CompareAndSwapInt32(&c.state, CLT_WORKING, CLT_PENDING)
casPending == state = CLT_WORKING /\ state' = CLT_PENDING

\* "restart: all connections were disconnected": the goroutine that wins the
\* compare-and-swap starts the restart, which may as well run in its place;
\* whoever was the last ends here.
Offline(g) ==
    /\ pc[g] = "offline"
    /\ \/ /\ cnt[g] > 0
          /\ Goto(g, "check")
          /\ cnt' = [cnt EXCEPT ![g] = 0]
          /\ UNCHANGED <<state, must, rn, tun, on>>
       \/ /\ cnt[g] <= 0
          /\ casPending
          /\ Goto(g, "start")
          /\ must' = [must EXCEPT ![g] = TRUE]
          /\ rn' = [rn EXCEPT ![g] = 0]
          /\ UNCHANGED <<tun, on, cnt>>
       \/ /\ cnt[g] <= 0 /\ state /= CLT_WORKING
          /\ Exit(g)
          /\ UNCHANGED <<state, must>>
    /\ UNCHANGED <<round, dtCnt, muxVars, tokenVars, logins, crashed>>

-----------------------------------------------------------------------------
Step(g) ==
    \/ Start(g) \/ Check(g) \/ State(g)
    \/ RestartClear(g) \/ RestartSpin(g) \/ RestartDestroy(g) \/ RestartNewMux(g)
    \/ RestartLogin(g) \/ RestartWorking(g) \/ RestartRound(g) \/ RestartSpawn(g)
    \/ GetToken(g) \/ GetTokenAgain(g) \/ AwaitTimeout(g) \/ Resume(g)
    \/ Count(g) \/ Enter(g) \/ ListenPing(g) \/ ListenTokens(g) \/ ListenEnd(g)
    \/ Uncount(g) \/ Dirty(g) \/ Offline(g)

Next ==
    /\ ~crashed
    /\ \/ \E g \in G : Step(g)
       \/ \E s \in 1 .. MaxLogin : SaveTokens(s)

Spec == Init /\ [][Next]_vars

-----------------------------------------------------------------------------
(* Properties *)

\* Every variable has its type.
TypeOK ==
    /\ state \in {CLT_WORKING, CLT_PENDING} /\ round \in Nat /\ dtCnt \in Nat
    /\ mux \in Nat /\ dead \in SUBSET Nat /\ pinged \in SUBSET Nat
    /\ token \in Seq(Nat) /\ asked \in BOOLEAN /\ saving \in SUBSET Nat
    /\ logins \in Nat
    /\ pc \in [G -> Pcs] /\ must \in [G -> BOOLEAN]
    /\ rn \in [G -> Nat] /\ tun \in [G -> Nat \cup {None}]
    /\ on \in [G -> Nat] /\ cnt \in [G -> Nat]
    /\ crashed \in BOOLEAN

\* dtCnt, on which a goroutine decides that it was the last and on which
\* restart waits, counts the goroutines between the two atomic additions.
DtCount == dtCnt = Cardinality({g \in G : pc[g] \in Counted})

\* The mux is replaced by one goroutine at a time, however many tunnels are
\* lost together and whichever round they belong to.
Restarting(g) == pc[g] \in RestartPcs \/ (pc[g] \in {"start", "check"} /\ must[g])
OneRestart == \A g, h \in G : Restarting(g) /\ Restarting(h) => g = h

\* Once logged in, a client whose state is CLT_WORKING has a mux that has not
\* been destroyed: ClientServe may hand it a request.
WorkingMux == state = CLT_WORKING /\ round > 0 => mux > 0 /\ mux \notin dead

\* However many goroutines give way to another (an outdated round, a lost
\* compare-and-swap, a restart seen under way), a client that is not crashed
\* and whose state is CLT_WORKING never ends up with nobody to hold a tunnel.
KeepsTrying == state = CLT_WORKING => \E g \in G : pc[g] /= "free"

\* While the state is CLT_PENDING a goroutine is restarting: the others end
\* because "now is restarting then exit".
PendingHasRestart ==
    state = CLT_PENDING => crashed \/ \E g \in G : Restarting(g)
=============================================================================
