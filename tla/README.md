# TLA+ models of deblocus

deblocus carries the connections of local applications, accepted by a SOCKS5 or
HTTP proxy on the client, through a few encrypted TCP tunnels to a server, which
connects them to their destinations. These modules follow a connection through
all of it: the proxy front end, the d5 handshake that makes the tunnels, the
sessions and tokens of the server, the tunnels of the client, the multiplexer
that carries many connections over one tunnel, the pings and frames on the wire,
the queue in front of every connection, and the filter of destinations. They are
checked with TLC on small instances; the safety properties of all modules are proved
with TLAPS for every value of the constants.

File names below are relative to `src/tunnel/` unless said otherwise.

## 1. Inventory

### Components

| Component | State | Operations | Talks to |
|---|---|---|---|
| edge connection and queue (`queue.go`: `edgeConn`, `equeue`) | the list of pending frames, nil after exit; the close bits; the open signal channel | `deliver`, `_push`, `_push_all`, `sendLoop`, `_close`, `bitwiseCompareAndSet` | fed by `Listen`, `register`, `cleanOfTun`; writes to the connection; sends `CLOSE_R` through the tunnel |
| egress router (`queue.go`) | `registry`, `preRegistry`, cleaning channel | `preRegister`, `preDeliver`, `removePreRegistered`, `register`, `getRegistered`, `clean`, `cleanOfTun`, `destroy` | used by both ends of the multiplexer |
| multiplexer (`multiplexer.go`) | `pool`, `router`, `status`, `pingCnt`, `sRtt`, the deny list | `HandleRequest`, `Listen`, `relay`, `connectToDest`, `bestSend`, `onTunDisconnected`, `destroy` | the peer's multiplexer, by frames |
| idler (`multiplexer.go`) | whether a ping is unanswered, RTT estimates | `newRound`, `consumeError`, `ping`, `pong`, `verify`, `updateRtt` | `Listen` |
| frames and session ids (`multiplexer.go`) | `sid_seq` | `pack`, `parse_frame`, `frameWriteBuffer`, `next_sid` | every sender |
| tunnel pool (`connPool.go`, `conn.go`) | the tunnels of a mux and their ranks | `Push`, `Remove`, `Select`, `destroy`, `Conn.Update` | multiplexer |
| server sessions (`server.go`) | `container` (token -> session), `session.tokens`, `activeCnt`, the cipher key | `TunnelServe`, `NewSession`, `take`, `createTokens`, `clearTokens`, `DataTunServe`, `tokensHandle`, `destroy`, `Close` | d5 handshake, multiplexer |
| client (`client.go`) | `state`, `round`, `dtCnt`, `mux`, the token pool | `StartTun`, `restart`, `getToken`, `saveTokens`, `clearTokens`, `ClientServe` | d5 handshake, multiplexer |
| `timedWait` (`wait.go`) | signal channel, group state, waiter count | `await`, `notifyAll`, `clearAll`, `reset` | client tokens |
| d5 handshake (`d5.go`) | per connection: dbcHello, DH key, random; the server's pool of time counters | `Connect` (both sides), `ResumeSession`, `makeDbcHello`, `verifyDbcHello`, `calculateTimeCounter` | client, server sessions |
| proxy front end (`proxy.go`, `conn.go`) | pushback buffer | `detectProtocol`, SOCKS5 and HTTP handshakes | `ClientServe` |
| geo filter (`src/geo/`) | the LC-trie, built once | `buildRoutingTable`, `Find`, `Filter` | `connectToDest` |
| ciphers (`cipher.go`, `src/crypto/`), configuration (`config.go`), boot, authentication (`src/auth/`), logging (`src/glog/`) | - | - | - |

### What is hard

* **Shared fields without a lock.** `Listen`, `onTunDisconnected` and `bestSend`
  read `mux.pool` and `mux.router` while another goroutine's `destroy` sets them
  to nil; only `connectToDest` takes `sLock`.
* **Two steps that look like one.** `getRegistered` followed by `preDeliver`;
  `take(token)` followed by the increment of `activeCnt`; storing `CLT_WORKING`
  followed by the increment of `round`; the load and the compare-and-swap of
  `bitwiseCompareAndSet`; `Unlock` followed by `Signal` in `_push`.
* **Ordering.** A connection's bytes pass through the pre-registration buffer, the
  queue, the batch `sendLoop` has taken and the tunnel; close frames overtake
  registrations; relay's `CLOSE_W` is written by a goroutine of its own.
* **Reference counts that decide.** `activeCnt` destroys a session, `dtCnt`
  restarts a client; both are tested after the atomic addition, on a value that
  may be out of date.
* **Failure at every point.** A tunnel breaks with frames in flight, a handshake
  fails after the session was made, a write fails inside a batch, a dial is
  refused after the application's data was sent (fast open).
* **Streams treated as messages.** The server's first read of a header and of a
  token, and the client's read of a SOCKS request, are single `Read`s; a read
  deadline or a partial write in the middle of a frame puts the two ends of the
  cipher out of step.
* **Clocks and deadlines.** The header of a connection is valid for three minutes
  of a pool that a ticker renews; pings of both ends cross, and the same deadline
  means "ask" or "give up" depending on one flag.
* **Compact data structures.** The level-compressed trie of the filter answers for
  addresses no network covers by the leaf of a neighbour.

The `hazards` of `PROJECT.json` list these, line by line, with the properties
that are about them.

## 2. Modules

| Module | Models | Notes |
|---|---|---|
| `Session` | `SessionMgr`, `Session`, `TunnelServe`/`DataTunServe`, `tokensHandle`, `Server.Close`, `multiplexer.destroy` | control state per tunnel goroutine |
| `Edge` | `edgeConn`, `equeue` and the goroutines around one edge | mutex sections are single steps, `Signal` is a step of its own |
| `EdgeStream` | the abstract promise of a queue: a gap-free FIFO stream until it is shut | implemented by `Edge` |
| `Mux` | two multiplexers and the tunnel between them, from `HandleRequest` to the last close | uses the queue as `EdgeStream` describes it |
| `Client` | `StartTun`, `restart`, the token pool | the server is a nondeterministic environment |
| `Link` | one tunnel: `Listen`'s loop and the idler at both ends, whole and partial frames | discrete time; parameterised by the timeouts |
| `Hello` | the obfuscated header: encoding, decoding, time counters | operators only, shared by TLC and TLAPS |
| `Handshake` | `d5cman`, `d5sman`, `TunnelServe`, the time counter worker | extends `Hello`; its outcomes are the ones `Session` chooses from |
| `Front` | `ClientServe`, the SOCKS5 and HTTP handshakes, the pushback stream | ends where `Mux` begins |
| `Geo` | the LC-trie: `buildRoutingTable`, `buildTrie`, `computeBranch`, `Find`, `Filter` | asked by `connectToDest`; one action per iteration of a loop |
| `Request` | a request through both: `Front`, then `Geo` | composes `Front` and `Geo` |
| `SessionProofs`, `EdgeProofs`, `MuxProofs`, `ClientProofs`, `LinkProofs`, `HandshakeProofs`, `GeoProofs`, `RequestProofs` | theorems about the module of that name (`HandshakeProofs` also about `Hello`, `RequestProofs` about `Front`) | section 4 |
| `MCSession`, `MCEdge`, `MCMux`, `MCClient`, `MCHandshake` | instances for TLC (`Link` and `Request` need none) | |

### Session

A tunnel goroutine runs from `TunnelServe` (`pc` = "idle") through one of the
outcomes of the handshake: `Reject`, `NewSession` - `Authenticated` - `Replied`,
`HandshakeFailed`, or `Resume` - `SetupCipher`. `ServeStart` is the atomic
increment of `DataTunServe`; `PoolPush`, `ReadRouter`, the frames, `Disconnected`
are `Listen`; `PoolCheck` to `RouterClean` are `onTunDisconnected`, with the nil
checks and the uses as separate steps because nothing protects them; `ServeEnd`
is the decrement and the decision to destroy. `Destroy*` are the steps of
`Session.destroy` and `multiplexer.destroy`, run by a tunnel or by `Server.Close`
(`Close`). `TokensCreate`, `TokensCheck`, `TokensSelect` are the goroutine that
answers a token request; `DialLock`, `DialUse` are `connectToDest`'s use of the
router under `sLock`. `crashed` records a panic no `recover` would catch.

Abstracted: token values are opaque (`FreshTokens` asks for enough unused ones,
as the retry loop of `createTokens` finds them); one `connectToDest` and one
`tokensHandle` at a time per session and tunnel; the key is only recorded as
zeroed or not.

### Edge and EdgeStream

The variables are the fields of `edgeConn` and `equeue`, the control states of
five goroutines, and two history variables: `accepted`, every frame the queue
took, and `written`, every DATA frame that reached the connection. `owes` holds
the producers between `Unlock` and `Signal`. `LoopTake` is the critical section
of `sendLoop` (wait, or take the whole list); `LoopWrite`, `LoopWriteErr`,
`LoopClose`, `LoopCloseW` treat the frames of the batch; `closeForce` is
`_close(true)`. The load and the swap of `bitwiseCompareAndSet` are two steps.

`EdgeStream` says what a queue promises: it takes frames while open, writes the
DATA frames it took in order and without a gap, and is silent once shut. The
refinement mapping is `open <- ~bufNil`.

### Mux

An edge is a pair of a side ("C", "S") and a session id. The client's relay runs
`HandleRequest`, `RelayStart` (send `OPEN`), `RelaySignal`/`RelayNoSignal` (the
fast-open loop), the waits with their timeouts, `RelayRead`, `RelayEof`,
`RelayEnd`, `Notice`. The server's side is `ListenOpen` (preRegister),
`ConnectOk` - `ConnectAccept`, or `ConnectFail`/denied - `ConnectRefuse`, then
relay. `Listen*` handle one frame each; a DATA frame for a pre-registered session
is held (`held`) between `getRegistered` and `preDeliver`. `Queue*` are
`sendLoop`. The tunnel is FIFO and may break (`TunBreak`), losing what is in
flight; `TunDisconnected` is `cleanOfTun` on each side.

Abstracted: `bitwiseCompareAndSet` and each queue operation are one step (module
`Edge` has the details); one tunnel; a DATA frame is its number in its direction
(`sent` counts them). A read returns any number of bytes up to the buffer (`BufMax`),
and `tn` adds them up for the client, whose fast-open loop tests it before the next
read; what the server's relay counts is only logged. `sendLoop`'s fallback to another tunnel of the pool
when its own is broken, `frameWriteBuffer`'s tolerance of a cut frame (it is in
`Link`, where it matters), the reuse of a registered key after session ids wrap, and
closeR/closeW on streams without half close (they close both directions) are left
out.

### Client

A goroutine of `StartTun` is an element of `G`, "free" when it is not running.
`Start`, `Check`, `State` are the head of the loop; `Restart*` the steps of
`restart`; `GetToken`, `GetTokenAgain`, `AwaitTimeout`, `Resume` are
`createDataTun`; `Count`, `Enter`, `Listen*`, `Uncount`, `Dirty`, `Offline` the
life of one tunnel. `SaveTokens` is the goroutine that stores a token reply. A
session is the number of its login, a mux the number of the restart that made it;
`dead` holds the destroyed ones. Waiters of `timedWait` are woken or cancelled in
any subset. Sleeps take no time, so every order of the goroutines is explored.
`CLT_CLOSED` is never stored by the code and does not occur.

### Link

`chan[e]` is the stream to end `e`; a frame carries its action, how much of it was
written ("all", a part of its header, a part of its body) and its age. `Receive`
is one turn of `Listen`'s loop with everything the frame makes it do (`verify`,
`pong`, `Update`, the next deadline); `ReadTimeout` is the deadline of a read and
`consumeError`'s decision; `StalledDone` and `StalledFails` end a ping or pong
that `Listen` is blocked in. `AppData` is a relay's write that is done at once,
`AppDataWaits` one that stalls or finds `wlock` taken, and `AppDataDone` and
`AppDataCut` are the two ways in which the write that has the lock ends.

A stalled write holds `Conn.wlock`, and the other writers of that end are in line for
it: `ahead` of them in front of `Listen` and `rear` behind it. The lock is handed over
in the order of arrival: `sync.Mutex` of the Go release the project builds with
(`.travis.yml`, 1.9.x) does so once a waiter has waited a millisecond, and a write
that stalls lasts seconds. There is one write deadline per connection (`wtimer`);
`frameWriteBuffer` moves it before it asks for the lock, which prolongs the write
that has it. `Relays` bounds the writers that one end has besides `Listen`.

`frameWriteBuffer` counts a write that met its deadline as done when a frame was
handled less than `WRITE_TUN_TIMEOUT` ago (`Tolerated`). Behind a gap the reader
is `lost`: it decrypts garbage, which `parse_frame`'s hash refuses; the body of
the frame that was cut is filled up from the bytes behind it and is handled,
because the hash covers the header only. A read deadline in the middle of a frame
loses the part that was read (`torn`).

Abstracted: one frame in flight is one element whatever its length; the chance of
2^-16 that garbage passes the hash is left out; RTT estimates are left out (they
are displayed, nothing depends on them); `idler.enabled` is true, as the interval
the server announces is 110 s.

### Hello and Handshake

A header is the masked pair of type and tail length with the secret and the minute
its hash was made with. `conf` is drawn from the ways the two ends may be
configured against each other; `faults` records what the network and the clock did.
`requestDHExchange`, `ClientKey`, `ClientValidate`, `ClientFinish` are the client's
four steps, `ServerHello` to `ServerAuth` the server's; `ResumeSession` and
`ServerResume` the second connection with a token. `Reject` is everything
`TunnelServe` does on an error, `ClientFails` the deferred function of `Connect`,
with the errors that end the process ("exit") told apart. Messages to the server
arrive one unit at a time, so its single `Read`s may see half of a header or of a
token. `Minute` and `updateNow` let the pool of time counters be a minute late.

Abstracted: hashes, signatures and ciphers are the terms they are computed from, so
two ends agree exactly when they derived from the same things; one client, two
connections; the server's write of its two answers is one step. The tokens and the
session's tear-down are `Session`'s: here the session that a token names is live until
`ServerResume` is over, and a tear-down between `take` and `SetupCipher`
(`server.go:113-117`) is the race of finding 1.

### Front, Geo and Request

`Front` follows one accepted connection. The application's bytes are units that the
network may deliver in any grouping (`AppSend`, `Arrive`); the reads of the code
take what has arrived: `Detect` two bytes, `S5Methods` at least the methods,
`S5Request` one `Read`, `HttpHeader` whatever a `bufio.Reader` finds. `over` is what
that reader holds behind the header, `pb` the pushback buffer. `HandleRequest` is
where `Mux` begins: `Relayed` says that the connection is relay's and forgets all the
front end knew of it.

`Geo` is the filter with addresses of `W` bits, every network being its own next hop
so that any wrong leaf shows. A number is the function of its bits, most significant
first. Each action is one iteration of a loop of the code: `Sort` gives the sorted
entries one by one (any table, without duplicates), `Split` puts an entry into `pre` or
`base` and updates the pointers behind it, `Call` is a call of `buildTrie`, and `Gap`,
`Widen` and `Subtree` are the three branches of its loop over the bit patterns.
A table has at least one network: on an empty one `computeBranch` would index
`base[0]`, and the embedded database is not empty. `Traverse`, `Hit` and
`LookInPrefixes` are the loops of `Find`. The calls that the
recursion still has to make are the set `calls`: each writes nodes of its own block, so
their order does not matter (`Blocks` in `GeoProofs`). `Chain` follows the `pre`
pointers. Not in it: the bit packing of a node, the capacity of the array and the
serialization of the table.

`Request` takes a request through the one and then the other. `Client` is a step of
`Front`, `Server` one of `Geo`, once the request has left the front end. The server
reads its table at start-up; since neither part looks at the other's state, building it
later gives the same answers, and TLC is spared the product of the two.

## 3. Runs

| Run | Instance | States | Shows |
|---|---|---|---|
| `session` | 2 sessions of one client, 2 tunnels, 3 tokens | 728,696 | `TypeOK`, `TokenTable`, `NoTokenAfterClear`, `ActiveCount`, `TokenOwner` |
| `session_teardown` | 1 session, 3 tunnels, `Close` | 718,055 | `DialSeesRouter`, `RouterDestroyedOnce`, `Reclaimed` |
| `session_crash` | as `session` | - | violates `NoNilMux` |
| `edge` | 1 buffered and 2 further DATA frames | 342,631 | `TypeOK`, `NoLostWakeup`, `ImplementsStream`, `CloseBitsStay`, `EveryFrameHandled` |
| `mux` | 1 connection, 2 reads per direction of 1 or 2 bytes, fast open limit 2, a tunnel that may break | 358,497 | `TypeOK`, `DownNoGap`, `UpInOrder`, `ReadyOnce`, `FastOpenBound`, `PreOnlyWhileDialing`, `OpenAnswered`, `RefusalClosesApp`, `DestEofReachesApp`, `EofBehindData` |
| `mux_gap`, `mux_appeof` | the same, tunnel intact | - | violate `UpNoGap`, `AppEofReachesDest` |
| `client` | 2 parallel tunnels, 2 logins | 653,508 | `TypeOK`, `DtCount`, `OneRestart`, `WorkingMux`, `KeepsTrying` |
| `client_pending` | the same | - | violates `PendingHasRestart` |
| `handshake` | tails of 0 and 255 bytes, keys 1 and 65535, 2 minutes | 1,245,176 | `TypeOK`, `LoginAgreed`, `NoGoodRefused`, `HandshakeEnds` |
| `link` | interval 7 (the client's 2), timeout 3, write timeout 3, delay 1; 2 relays at each end, 2 frames in flight, 1 stall while the network works | 3,477,672 | `TypeOK`, `NoFalseAlarm`, `DeadDetected`, `CutContained` |
| `request` | every kind of request, 3 units of data behind it; all tables of up to 5 networks of 3-bit addresses, root branch 1, every address | 279,774 | `TypeOK`, `Faithful`, `FilterExact`, `Settled` |

**Why the bounds are enough for the questions asked.** `session`: every race on
the token table is between two of `take`, `createTokens`, `clearTokens`, of the
same or of two sessions; three token values let a token be freed and issued again.
`session_teardown`: two destroyers, a resuming tunnel and a dial are all the roles
there are. `edge`: one frame from `register`, two from `Listen` give a batch with
more than one frame, a push while a batch is being written, and a close behind
both. `mux`: two reads are one before and one after the fast-open limit, or a short one
below it and a full one that goes beyond; edges of
different session ids share nothing but the tunnel, whose order is that of each
of them. `client`: three goroutines are the restarting one, a straggler of the old
round and one tunnel of the new round; a fourth adds no state at two logins.
`handshake`: the lengths and keys are the ends of their ranges, where the sum wraps
(`HelloRoundTrip` proves the rest); two minutes let the pool be late at the login
and at the resumption. `link`: a round trip fits
the timeout, as in the code (110 s, 10 s, 15 s); the client's interval is below the
timeout, which is harder than the 90 s it has at least; two relays are one in front of
`Listen` and one behind it, and two that move the deadline one after the other; two
frames in flight are the cut one and the one behind it; once the network is down,
stalls are not bounded. `request`: it is at
most three units, so every way to cut and join it occurs; three units behind it can be
in the socket, on the network and not yet written; five networks
are base strings that leave a gap on a level and prefixes that reach into it, and with
a root branch of 1 they are enough below the root for `computeBranch` to enter the
loop over the fill factor.

`CHECK_DEADLOCK FALSE` is set wherever the instance may stop: all
tunnels have ended, the connection is finished, the bound on logins is reached, the
handshake is over, or the request is closed.

### Fairness

Only weak fairness, and only for steps the process takes by itself: the Go
scheduler runs every runnable goroutine; writes, dials and the fast-open wait have
deadlines, so they end; a read on a connection that is shut returns. Nothing is
assumed of applications, destinations, the network, or of how long a tunnel lives.
`Reclaimed` assumes fairness for the goroutines that are leaving, destroying or
dialling; `EveryFrameHandled` for producers, `sendLoop`, `Listen` and relay; the
liveness properties of `Mux` for both ends' goroutines. `HandshakeEnds` assumes it
for the steps of the client and of the server, which include that a read meets its
deadline: every read of both sides is preceded by `setRTimeout` or runs under the
deadline of the one before. `Settled` assumes it for `ClientServe`, whose reads and
writes have the same deadlines, and for the filter, whose loops wait for nothing and
which `connectToDest` asks before anything else. `Client` and `Link` state no fairness: their
properties are safety; `DeadDetected` says in units of time what would otherwise be
liveness.

### Findings

1. `session_crash`: a tunnel that resumes a session between `take(token)` and its
   increment of `activeCnt` meets a mux that the last other tunnel has just
   destroyed; `Listen` pushes into a nil pool.
2. `mux_gap`: a DATA frame caught between `getRegistered` and `preDeliver` while
   `register` runs is dropped, the frames after it are delivered.
3. `mux_appeof`: `CLOSE_W` that arrives before the destination is connected is
   dropped; the destination never sees the end of the stream.
4. `client_pending`: `restart` stores `CLT_WORKING` before it increments `round`.
   A straggler that loses its tunnel in between sets `CLT_PENDING` and starts a
   restart that finds itself outdated; everybody else sees `CLT_PENDING` and
   exits. The client stays offline.

### What else the models show

These behaviours are reachable in the models. No run is devoted to them: nothing in
the code promises the opposite, or a property names them as its exception.

* **A killed edge may stay half open** (`Edge`). An edge whose queue ended on
  `CLOSE_W` has a nil list; the `CLOSE` that `cleanOfTun` and `router.destroy` push
  is dropped, and its connection stays open for reading until its far end closes.
* **A failed write is not always announced** (`Mux`). After it `sendLoop` sends
  `CLOSE_R` and stores both close bits; relay then finds the R bit set and sends no
  `CLOSE_W`, so the application's connection may stay half open.
* **A split header or token is refused** (`Handshake`, the fault "split"): the server
  reads each with one `Read`. The token behind a refused resumption is not reused.
* **A late pool is asymmetric** (`Handshake`, the fault "lag"): between the turn of a
  minute and the ticker a client one minute behind is still trusted, one that is a
  minute ahead is not.
* **The client exits on a reset** (`Handshake`, "exit"): a connection that closes
  before the first answer ends the process, and so does a deadline inside that answer.
* **RSA keys cannot log in** (`Handshake`, `DSASign`). `src/deblocus.go:114` offers
  RSA keys, but `DSASign` hands the 65-byte public key to PKCS #1 v1.5 as if it were
  a SHA-512 digest, which the library refuses; the server drops every handshake.
* **The body of a cut frame is delivered** (`Link`): the hash covers the header only,
  so the frame that `frameWriteBuffer` cut in its body reaches its edge with bytes
  that decrypt to nothing sensible before the next header is refused. `CutContained`
  says that it is one frame. It may be a read deadline that tore it, too.
* **Writers keep a dead tunnel alive** (`Link`). A relay that comes to a stalled tunnel
  moves the deadline of the write that has the lock by another 15 s, and `Listen`'s ping
  waits behind it. `DeadDetected` bounds the silence for a given number of relays, and
  TLC refutes the bound with one unit less; with new relays at least every 15 s for ever,
  the code has no bound.
* **Fast open sends almost twice its limit** (`Mux`). 64 KiB are compared before a read of
  up to 65,527 bytes, so close to 128 KiB may be sent before the answer. `FastOpenBound`
  states that sum.
* **A SOCKS request in two segments** (`Front`, `short`) is read with zeros for what
  is missing: refused, or sent to another host or port.
* **A plain HTTP request whose body is late** (`Front`, `late`) is forwarded as far as
  it had been serialized, since `req.Write`'s error is not looked at; bytes that an
  application sends ahead of the answers (`eager`) stay in the `bufio.Reader`.

## 4. Proofs

In every module the theorems follow from one inductive invariant `IInv` (for `Request`
the two of its parts, `FrontInv` and `GeoInv`). The step is shown one
conjunct of `IInv` at a time; the lemma of a conjunct names, in its `ASSUME`, the other
conjuncts it rests on. Where many actions treat a part of the state alike, a lemma first
says which of a few things a step may do to it (`MgrStep`, `SteadyStep`, `StageStep`,
`KeyMoves`, `ServerMoves`), and the conjunct is argued for these.

**SessionProofs** (any sets of sessions, tunnels, tokens; `ConstAssumption`: the
sets are disjoint, `Token` is finite, `TokenNum` is positive). The invariant

    IInv == TypeOK /\ HasSession /\ TokenTable /\ NoTokenAfterClear /\ LockInv

is needed because none of the properties is inductive alone. `TokenTable` and
`NoTokenAfterClear` support each other: `clearTokens` walks `session.tokens` and
removes every container entry only because the two maps agree, and `createTokens`
keeps them in agreement. `HasSession` makes `ses[p]` a session wherever a
step uses it. `LockInv` is the protocol of `sLock`: who is in the critical section
holds the lock, `status` is negative before the router is touched, and the router
is never left half destroyed when the lock is free; `DialSeesRouter` and
`RouterDestroyedOnce` follow. `MgrStep` first shows that a step either leaves the
token table alone or is one of `take`, `createTokens`, `clearTokens`, so the table
is argued about three times and not once per action; `LockStep` treats the lock
action by action. On top of it `CountInv` says that the tunnels between the two atomic
additions are finitely many and that `activeCnt` is their number; every step but the
additions is `Steady`, that is, moves nobody across them and gives nobody who is counted
another session. Theorems: `SessionInvariant`, `SessionTypes`, `SessionTokenTable`,
`SessionNoTokenAfterClear`, `SessionDialSeesRouter`, `SessionRouterDestroyedOnce`,
`SessionTokenOwner`, `SessionActiveCount`.

**EdgeProofs** (any `PreData`, `MaxData` in Nat). The invariant

    IInv == TypeOK /\ QueueSplit /\ BatchState /\ LoopHasBuffer /\ NoLostWakeup

adds `QueueSplit`, `accepted = written \o batch \o buffer` until the queue exits:
without it nothing says that the head of the batch is the next frame of the
stream. `LoopHasBuffer` says that a loop that runs has a list; `BatchState` says when
the batch is empty, so that taking the list loses nothing. Theorems: `EdgeInvariant`, `EdgeTypes`, `EdgeNoLostWakeup`,
`EdgeLoopHasBuffer`, `EdgeRefinesStream` (the refinement of `EdgeStream`),
`EdgeCloseBitsStay`.

**MuxProofs** (any set of session ids, any number of reads, any fast-open limit and
buffer above zero; `MuxAssumption`). The invariant

    IInv == TypeOK /\ ControlInv /\ OrderInv /\ GapInv /\ EofInv

* `ControlInv` counts: one `OPEN` of a session is ever on the tunnel, and only before the
  server knows it (`OpenInv`); one answer, and only while `ready` is empty (`ReplyInv`);
  the client's relay is below the limit when it begins a fast read, and so below the limit
  and one buffer after it (`FastInv`); buffers and queues hold
  frames of their own session (`EdgeInv`, `HeldInv`).
* `OrderInv` compares stages. The numbers of a session's DATA frames pass from the tunnel
  through `Listen`'s hand and `preRegistry` to the queue and the connection; the numbers
  in a stage are smaller than those behind it. `Chain` says nothing of the buffer against
  the queue and the connection: while there is a buffer both are empty (`EdgeInv`), and
  `register` turns the one into the other. `StageStep` shows that each action moves
  numbers from the head of a stage to the end of the next one, adds the next number to
  the tunnel, or drops some.
* `GapInv` is about the client only, where the edge is registered before `OPEN` is sent:
  while its queue is open and found by `Listen`, every number that is not written is in
  the queue or on the tunnel. (On the server it is false: the run `mux_gap`.)
* `EofInv` is about the same direction: a `CLOSE_W` on the tunnel or in the queue has no
  DATA of its session behind it, and from the time relay is to announce the end it sends
  nothing more. With `GapInv`, what is not written when `CLOSE_W` is at the head of the
  queue would have to be behind it.

Theorems: `Invariant`, `TypeCorrect`, `ReadyUsedOnce`, `FastOpenBounded`,
`PreRegistryOnlyDialing`, `UpOrder`, `DownWithoutGap`, `EofAfterData`.

**ClientProofs** (any finite set of goroutines, any number of tunnels, logins and tokens;
`ClientAssumption`, whose `IsFiniteSet(G)` says that a process has finitely many
goroutines). The invariant

    IInv == TypeOK /\ DtCount /\ HasTun /\ RestartInv /\ DeadMade /\ FreshMux
            /\ WorkingMux /\ Current

`OneRestart` rests on the compare-and-swap that stores `CLT_PENDING` (`RestartPending`),
except in the first round, where there is only one goroutine (`FirstRound`), and on
`mustRestart` being an argument that is consumed (`MustPc`). `WorkingMux` needs
`FreshMux`: from the login until the restart is over the mux that it made is neither
replaced nor destroyed, because nobody else is in `restart`. `KeepsTrying` needs
`Current`: the goroutine of the last restart carries the current round number, so it is
never the one that `StartTun` ends as outdated. `DtCount` uses the cardinality theorems
of `FiniteSetTheorems`. Theorems: `Invariant`, `TypeCorrect`, `DtCountCorrect`,
`RestartAlone`, `WorkingMuxAlive`, `ClientKeepsTrying`.

**LinkProofs** (any interval, timeouts, delay, number of relays, frames and stalls;
`LinkAssumption`: a round trip of two delays is less than the timeout, the interval is
more than two timeouts; the code has 110 s in `client.go` and 10 s in `d5.go`). The
invariant

    IInv == Typed /\ RoomInv /\ AgeInv /\ WholeInv /\ AnswerInv /\ StallInv /\ SilentInv
            /\ GapInv /\ NoFalseAlarm

* `AnswerInv` is what `NoFalseAlarm` needs: an end that waits has its ping under way, or
  the pong to it, or the end of the stream, and each is old enough, against the timer, to
  be there before the timer runs out (`Pinged`, `Ponged`, `Ending`). This is where the
  round trip must fit the timeout. `AgeInv`, that frames are older towards the head, lets
  the age of the head bound the others; `WholeInv` keeps cut frames out while all is well.
* `SilentInv` is what `DeadDetected` needs: in each state of an end (reading, waiting,
  stalled in a ping or in a pong) the time it has been silent and the time left add up to
  a bound (`Lasts`), and `StallInv` says when writes may stall at all. For a stalled write
  of `Listen` the time left is that of the shared deadline, and what is gone is at most
  one write timeout for itself and one for every relay behind it (`Moved(rear)`): only a
  relay that comes moves the deadline, it comes behind `Listen`, and it does not leave
  before `Listen` does. `RoomInv`, that the line is no longer than `Relays`, makes this
  `Longest`.
* `GapInv` counts the frames handled behind a gap.

Theorems: `Invariant`, `TypeCorrect`, `AlarmsTrue`, `SilenceBounded`, `GapContained`.

**The header**, in `HandshakeProofs` (every byte and 16-bit key, every integer minute;
no assumption).
`HelloRoundTrip`: the server reads from the header the type and the tail length the
client masked, for all 2^32 combinations; it rests on `MaskInverse` (adding and
subtracting the key modulo 2^16 is the identity) and `Ranges` (the bounds of bytes and
16-bit numbers), and `ModOnce`, the one fact about `%` that the solver is given.
`TrustedWindow`: `calculateTimeCounter`'s alternating sums are the minutes m - 1, m,
m + 1, so with equal secrets a header is trusted in exactly that window.

**HandshakeProofs** (any set of tail lengths and masking keys, any number of minutes;
`HandshakeAssumption`). Both theorems about the header are used where the server reads
it. The invariant

    IInv == Typed /\ StreamInv /\ HelloInv /\ TrustInv /\ NewInv /\ ResInv /\ DownInv
            /\ TimeInv /\ NoGoodRefused

* `StreamInv` counts units: what is on the stream and what the server has read is at most
  what the client has written, and no "auth" unit is there before the client has
  validated the server. So the token's single `Read` never sees more than a token.
* `HelloInv` says that the header is the one this client made; `TrustInv`, that behind it
  the server has the same `dbcHello` as the client and a trusted minute.
* `NewInv` and `ResInv` are the keys of the two kinds of connection: derived from the same
  part of the hello on a login, from the same factory and token on a resumption; a server
  that serves has found them equal, with a live session and the right account.
* `DownInv` lists what may be on the stream to the client in each of its states, so that
  "ok" is read only from a server that serves.
* `TimeInv`: unless a minute began in between, the pool loaded is that of the header's
  minute, or one late and recorded as "lag".

`LoginAgreed` follows from `TrustInv`, `NewInv`, `ResInv` and `DownInv`. `NoGoodRefused`
is inductive with all of them: `GoodTrusted` shows by `TrustedWindow` that a clock in
step is trusted, `GoodKeys` that the hashes match, and every other way to give up needs
a fault that is recorded. Theorems: `Invariant`, `TypeCorrect`, `LoginAgrees`,
`GoodNeverRefused`.

**GeoProofs** (any address width, any root branch up to it, any table; `GeoAssumption`).
The invariant

    GeoInv == SplitInv /\ Filled /\ TrieInv /\ FindInv

follows the code from the table to the answer.

* `SplitInv`: in sorted order the networks that have an entry as a prefix come right
  behind it (`Contiguous`, from `Sandwich`: between two numbers with a common beginning
  are only numbers that have it). So the one comparison of `Split` with the next entry
  decides whether anybody has the entry as a prefix (`SplitTest`), and the pointer of an
  entry is the longest of its prefixes so far, since the prefixes of one network are
  nested (`PtrTo`). When the loop is over this is `Table`: `base` is sorted, no string of
  it is a prefix of another, and the pointers lead from one prefix to the next longest;
  `ChainHolds`: they reach every entry that is a prefix.
* `TrieInv`: a node stands for a range of `base` with common bits up to where it branches
  (`CommonBits`, `NewPrefix`; that two strings of `base` differ, which `computeBranch`
  assumes in its comment and relies on to end its loop, is `BaseDiffer`). The child for a
  bit pattern covers every entry that admits the pattern (`Covers`). With strings of that
  pattern, an entry that is shorter than the pattern is a prefix of each of them, and one
  that is longer only of such strings (`SubtreeCovers`). A string that ends within the
  pattern has every entry that admits it as a prefix (`WidenCovers`). For a gap, an entry
  that admits the pattern is a prefix of the neighbour on the side of any string that has
  it, and of the two neighbours the one with the longer match has them all (`Neighbour`,
  `MatchHolds`, `GapCovers`). `LoopOK` says how far the loop over
  the patterns is: the strings passed lie below what is to do and do not reach into it.
  `computeBranch` only matters in that it returns at least one bit: the fill factor
  decides how fast the trie is, never what it answers.
* `FindInv`: all the entries that contain the host are prefixes of strings below the
  node reached (`Reached`), and later lie on the pointers still to follow (`Followed`).
  At a leaf they are all prefixes of one string, so the first that is found is the
  longest (`LongestIs`).

Two of the lemmas need induction over data: a chain of pointers reaches every prefix, and
a set of numbers has a least and a greatest element. The first is argued by a prefix of
least length that is not reached, and the least-number principle (`Least`) follows from
the theorem of the library that `<` on the naturals is well founded. Theorem:
`GeoInvHolds`; `FilterExact` is a part of `FindInv`.

**RequestProofs** (any amount of data behind the request; `FrontAssumption`). The invariant
of the front end,

    FrontInv == FrontTypeOK /\ AtStage /\ First /\ Flow

says what each stage of `ClientServe` has in the pushback buffer and how many answers it
has given (`AtStage`), that the unit which tells the protocol comes first (`First`), and,
for an application that waits for its answers, what exactly is left of its request on the
socket and the network together (`Waiting`). That is why a read that takes whatever has
arrived takes no byte of the data: at each of them what is left is one message, and the
data begins behind the last answer (`AllOfOne`, `AllOfTwo`, `BehindHeader`). `Faithful`
follows from `Handed`, its strengthening for the time until `HandleRequest` runs. It is
not about a SOCKS request that came in two pieces, an application that writes ahead of
the answers or a body that came late: section 3 says what becomes of these.
With `GeoInv` it is the invariant of `Request`: a step of one part leaves the variables
of the other alone (`Apart`), so each part's own proof carries over. Theorems:
`Invariant`, `TypeCorrect`, `HandedFaithfully`, `FilterExactHolds`.

**Only model-checked**

* All liveness properties (`Reclaimed`, `EveryFrameHandled`, `OpenAnswered`,
  `RefusalClosesApp`, `DestEofReachesApp`, `HandshakeEnds`, `Settled`) and
  their fairness: the prover does not handle them.

Every invariant and every action property that a passing run checks is a theorem.

## 5. Not modelled

* Cryptography (ciphers, hashes, key exchange, signatures): terms in `Handshake`, a
  key stream in step or not in `Link`.
* Configuration, credentials' files, boot and signal handling, logging, the pages of
  the local servlet, statistics and RTT estimates: they read or show, and decide
  nothing the other parts depend on.
* Byte layouts: of frames (the header's fields and the random tail), of SOCKS5 and
  HTTP messages, of the packed trie and the country database.
* `next_sid`: two callers at the limit of the counter, listed as a hazard. Ranks and
  `Select`: any tunnel may be chosen. `timedWait`'s group protocol: `Client` lets any
  subset of its waiters be woken. Several tunnels of one mux in `Mux`, and with them
  the key prefixes of `cleanOfTun`.

## 6. What is left

The safety properties of all modules are proved. The hazards without a property need
more of the system in the model first:

1. Several tunnels of one mux in `Mux`, with the key prefixes of `cleanOfTun` and the
   edges of a tunnel that breaks between `register` and `OPEN_Y`.
2. The tokens of `Client` by the session that issued them, for replies that come late.
3. `next_sid` with two callers at its limit.
