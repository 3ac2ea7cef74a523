-------------------------- MODULE HandshakeProofs --------------------------
(***************************************************************************)
(* Proofs about Handshake for every set of tail lengths and of masking     *)
(* keys, and however many minutes pass.                                    *)
(***************************************************************************)
EXTENDS Handshake, TLAPS, SequenceTheorems

(* The obfuscated header (module Hello) for every key, type and length *)

\* Reduction modulo DPH_MOD of a number that wraps at most once.
LEMMA ModOnce ==
    ASSUME NEW a \in Int, 0 <= a, a < 131072
    PROVE  a % 65536 = IF a < 65536 THEN a ELSE a - 65536
<1>1. CASE a < 65536
  BY <1>1
<1>2. CASE a >= 65536
  <2>1. PICK b \in Int : b = a - 65536
    OBVIOUS
  <2>2. 0 <= b /\ b < 65536 /\ a = 65536 + b
    BY <2>1, <1>2
  <2>3. (65536 + b) % 65536 = b
    BY <2>2
  <2> QED BY <2>1, <2>2, <2>3, <1>2
<1> QED BY <1>1, <1>2

\* The bounds of the two ranges.
LEMMA Ranges ==
    /\ \A n : n \in Uint16 <=> n \in Int /\ 0 <= n /\ n < 65536
    /\ \A n : n \in Byte <=> n \in Int /\ 0 <= n /\ n < 256
<1>1. DPH_MOD \in Int /\ DPH_LEN1 \in Int
  BY DEF DPH_MOD, DPH_LEN1
<1>2. \A n : n \in Uint16 <=> n \in Int /\ 0 <= n /\ n < DPH_MOD
  BY <1>1 DEF Uint16
<1>3. \A n : n \in Byte <=> n \in Int /\ 0 <= n /\ n < DPH_LEN1
  BY <1>1 DEF Byte
<1> QED BY <1>2, <1>3 DEF DPH_MOD, DPH_LEN1

\* Masking and unmasking undo each other on 16 bits, whatever wraps around.
LEMMA MaskInverse ==
    ASSUME NEW x \in Int, 0 <= x, x < 65536, NEW sKey \in Int, 0 <= sKey, sKey < 65536
    PROVE  decode((x + sKey) % DPH_MOD, sKey) = x
<1>1. PICK f \in Int : f = IF x + sKey < 65536 THEN x + sKey ELSE x + sKey - 65536
  OBVIOUS
<1>2. (x + sKey) % 65536 = f
  <2>1. x + sKey \in Int /\ 0 <= x + sKey /\ x + sKey < 131072
    OBVIOUS
  <2> QED BY <1>1, <2>1, ModOnce
<1>3. f - sKey + 65536 = x + 65536 \/ f - sKey + 65536 = x
  BY <1>1
<1>4. x % 65536 = x
  BY ModOnce
<1>5. (x + 65536) % 65536 = x
  <2>1. x + 65536 \in Int /\ 0 <= x + 65536 /\ x + 65536 < 131072 /\ ~(x + 65536 < 65536)
    OBVIOUS
  <2>2. (x + 65536) % 65536 = x + 65536 - 65536
    BY <2>1, ModOnce
  <2> QED BY <2>2
<1>6. (f - sKey + 65536) % 65536 = x
  BY <1>3, <1>4, <1>5
<1> QED BY <1>2, <1>6 DEF decode, DPH_MOD

\* The server reads off the header the type and the length of the tail that the
\* client put into it (makeDbcHello, verifyDbcHello), for every masking key: the
\* addition's overflow is undone.
THEOREM HelloRoundTrip ==
    ASSUME NEW data \in Byte, NEW tail \in Byte, NEW sKey \in Uint16,
           NEW secret, NEW minute \in Int
    PROVE  LET h == makeDbcHello(data, tail, sKey, secret, minute)
           IN  typeOf(h, sKey) = data /\ len2Of(h, sKey) = tail
<1>1. /\ data \in Int /\ 0 <= data /\ data < 256
      /\ tail \in Int /\ 0 <= tail /\ tail < 256
      /\ sKey \in Int /\ 0 <= sKey /\ sKey < 65536
  BY Ranges
<1>2. PICK x \in Int : x = tail * 256 + data
  BY <1>1
<1>3. 0 <= x /\ x < 65536
  BY <1>1, <1>2
<1>4. decode(encode(tail, data, sKey), sKey) = x
  <2>1. encode(tail, data, sKey) = (x + sKey) % DPH_MOD
    BY <1>2 DEF encode, DPH_LEN1
  <2> QED BY <1>1, <1>3, <2>1, MaskInverse
<1>5. x % 256 = data /\ x \div 256 = tail
  BY <1>1, <1>2
<1> QED BY <1>4, <1>5 DEF makeDbcHello, typeOf, len2Of, DPH_LEN1

\* A header is trusted exactly when it was made with the server's key and its
\* minute is at most TIME_ERROR away from the pool's (calculateTimeCounter,
\* verifyDbcHello).
THEOREM TrustedWindow ==
    ASSUME NEW data \in Byte, NEW tail \in Byte, NEW sKey \in Uint16,
           NEW secret, NEW own, NEW minute \in Int, NEW pool \in Int
    PROVE  trusted(makeDbcHello(data, tail, sKey, secret, minute), own,
                   calculateTimeCounter(pool))
           <=> secret = own /\ minute - pool \in -TIME_ERROR..TIME_ERROR
<1>1. calculateTimeCounter(pool) = {pool, pool - 1, pool + 1}
  <2>1. 0..2 * TIME_ERROR = {0, 1, 2}
    BY DEF TIME_ERROR
  <2>2. \A i \in {0, 1, 2} :
          pool + ((i + 1) \div 2) * (IF i % 2 = 1 THEN -1 ELSE 1)
          = IF i = 0 THEN pool ELSE IF i = 1 THEN pool - 1 ELSE pool + 1
    OBVIOUS
  <2> QED BY <2>1, <2>2 DEF calculateTimeCounter
<1>2. minute \in {pool, pool - 1, pool + 1} <=> minute - pool \in -1..1
  OBVIOUS
<1> QED BY <1>1, <1>2 DEF trusted, makeDbcHello, TIME_ERROR

-----------------------------------------------------------------------------
(* The invariant *)

Unit == {"p1a", "p1b", "p2", "dh", "auth", "tka", "tkb"}

\* The client has got as far as the authentication.
Presented == cpc \in {"m5", "up", "failed"}

\* No unit "auth" is on the stream before the client has written one.
Allowed == IF mode = "new" /\ Presented THEN Unit ELSE Unit \ {"auth"}

OnEnds(f) == f = [e \in Ends |-> f[e]]

Typed ==
    /\ conf \in Confs /\ mode \in {"new", "res"}
    /\ now \in 0..MaxMinute /\ tcPool \in {now - 1, now} /\ snap \in Int
    /\ cpc \in CltWaits \cup CltDone \cup {"dialed"}
    /\ spc \in SvrWaits \cup SvrDone \cup {"accepted"}
    /\ randLen \in Byte /\ OnEnds(dbcHello) /\ OnEnds(factory) /\ OnEnds(cipher)
    /\ session \in {"none", "made", "live", "cleared"}
    /\ token \in {"none", "fresh", "used"}
    /\ faults \subseteq {"cut", "late", "split", "lag", "crossed"}

\* How many units the client has written at most, and how many the server has
\* read at least.
Tails == IF randLen > 0 THEN 1 ELSE 0
Sent  == IF cpc = "dialed" THEN 0
         ELSE IF mode = "new" /\ ~Presented THEN 3 + Tails ELSE 4 + Tails
Taken == CASE spc = "part2"           -> 2
           [] spc \in {"dh", "token"} -> 2 + Tails
           [] spc = "auth"            -> 3 + Tails
           [] spc = "serving"         -> 4 + Tails
           [] OTHER                   -> 0
StreamInv ==
    /\ c2s \in Seq(Allowed) /\ sock \in Seq(Allowed)
    /\ Len(c2s) + Len(sock) <= 5
    /\ SvrOpen => Len(c2s) + Len(sock) + Taken <= Sent

\* The header is the one the client has made for this kind of connection.
Type == IF mode = "new" THEN TYPE_NEW ELSE TYPE_RES
HelloInv ==
    IF cpc = "dialed"
    THEN c2s = <<>> /\ sock = <<>> /\ s2c = <<>> /\ spc \in {"accepted", "hello", "closed"}
    ELSE /\ hello.minute \in Int
         /\ hello = makeDbcHello(Type, randLen, conf.sKey, conf.secret, hello.minute)
         /\ dbcHello["clt"] = HelloPart(hello, randLen)

\* Behind the header the server knows what the client has put into it.
Past == {"part2", "dh", "auth", "token", "serving"}
TrustInv ==
    spc \in Past =>
        /\ cpc /= "dialed" /\ trusted(hello, "right", calculateTimeCounter(snap))
        /\ dbcHello["svr"] = dbcHello["clt"]
        /\ spc = "part2" => randLen > 0
        /\ spc \in {"dh", "auth"} => mode = "new"
        /\ spc = "token" => mode = "res"

\* The keys of the two ends, on the first connection and on the second.
Keyed(e, name) ==
    /\ factory[e] = NewCipherFactory(name, "dh", dbcHello[e])
    /\ cipher[e] = InitCipher(factory[e], "sRand")
NewInv ==
    mode = "new" =>
        /\ cpc \in {"m3", "m5", "up"} => Keyed("clt", conf.cipher)
        /\ spc \in {"auth", "serving"} => Keyed("svr", "same")
        /\ spc = "serving" => /\ session = "live" /\ conf.cred = "good" /\ Presented
                              /\ cipher["svr"] = cipher["clt"]
ResInv ==
    mode = "res" =>
        /\ session = "live" /\ conf.cred = "good" /\ token \in {"fresh", "used"}
        /\ cpc \in {"dialed", "up"} /\ factory["clt"] = factory["svr"]
        /\ cpc = "up" => cipher["clt"] = InitCipher(factory["clt"], "token")
        /\ spc = "serving" => cipher["svr"] = InitCipher(factory["svr"], "token")

\* What is on the stream to the client.
DownInv ==
    /\ Len(s2c) <= 3
    /\ cpc = "m2" => \/ s2c = <<>>
                     \/ s2c = <<"efb">> /\ spc = "closed"
                     \/ s2c = <<"m2", "m3">> /\ spc \in {"auth", "closed"}
    /\ cpc = "m3" => s2c \in {<<>>, <<"m3">>} /\ spc \in {"auth", "closed"}
    /\ cpc = "m5" => \/ s2c = <<>> /\ spc \in {"auth", "serving", "closed"}
                     \/ s2c = <<"ok">> /\ spc = "serving"
                     \/ s2c = <<"no">> /\ spc = "closed" /\ conf.cred = "wrong"
    /\ cpc = "up" /\ mode = "new" => spc = "serving"
    /\ cpc = "up" /\ mode = "res" => s2c = <<>> \/ (s2c = <<"efb">> /\ spc = "closed")

\* The pool the server has loaded is that of the minute m, or it is late.
Near(m) == snap = m \/ (snap = m - 1 /\ "lag" \in faults)
TimeInv ==
    "crossed" \notin faults =>
        /\ cpc /= "dialed" /\ spc = "accepted" => hello.minute = now + conf.skew
        /\ cpc = "dialed" /\ spc /= "accepted" => Near(now)
        /\ cpc /= "dialed" /\ spc /= "accepted" => Near(hello.minute - conf.skew)

IInv == /\ Typed /\ StreamInv /\ HelloInv /\ TrustInv /\ NewInv /\ ResInv /\ DownInv
        /\ TimeInv /\ NoGoodRefused

-----------------------------------------------------------------------------
(* Types *)

\* What the ends are configured with.
LEMMA ConfType ==
    ASSUME Typed
    PROVE  /\ conf \in Conf /\ conf.sKey \in Uint16 /\ conf.skew \in Int
           /\ conf.skew \in -2..2
<1>1. conf \in Conf
  BY DEF Typed, Confs
<1>2. conf.sKey \in SKeys /\ conf.skew \in -2..2
  BY <1>1 DEF Conf
<1> QED  BY <1>1, <1>2, HandshakeAssumption

\* A function on the two ends stays one.
LEMMA EndsExcept ==
    ASSUME NEW f, OnEnds(f), NEW e \in Ends, NEW v
    PROVE  /\ OnEnds([f EXCEPT ![e] = v]) /\ [f EXCEPT ![e] = v][e] = v
           /\ \A d \in Ends : d /= e => [f EXCEPT ![e] = v][d] = f[d]
<1>1. DOMAIN f = Ends
  BY DEF OnEnds
<1>2. [f EXCEPT ![e] = v] = [d \in Ends |-> IF d = e THEN v ELSE f[d]]
  BY <1>1 DEF OnEnds
<1> QED  BY <1>1, <1>2 DEF OnEnds

\* What an Accept, a SetupCipher or a Resume makes of the functions on the ends.
Ended(f) == f' = f \/ f' = NoKeys \/ \E e \in Ends : \E v : f' = [f EXCEPT ![e] = v]

\* They stay functions on the ends.
LEMMA EndsStep ==
    ASSUME NEW f, NEW g, OnEnds(f),
           g = f \/ g = NoKeys \/ \E e \in Ends : \E v : g = [f EXCEPT ![e] = v]
    PROVE  OnEnds(g)
<1>1. OnEnds(NoKeys)
  BY DEF OnEnds, NoKeys
<1> QED  BY <1>1, EndsExcept

\* Every step keeps the types.
LEMMA TypedStep ==
    ASSUME Typed, Next
    PROVE  Typed'
<1> DEFINE Rest == /\ conf' \in Confs /\ mode' \in {"new", "res"}
                   /\ now' \in 0..MaxMinute /\ tcPool' \in {now' - 1, now'} /\ snap' \in Int
                   /\ cpc' \in CltWaits \cup CltDone \cup {"dialed"}
                   /\ spc' \in SvrWaits \cup SvrDone \cup {"accepted"} /\ randLen' \in Byte
           More == /\ session' \in {"none", "made", "live", "cleared"}
                   /\ token' \in {"none", "fresh", "used"}
                   /\ faults' \subseteq {"cut", "late", "split", "lag", "crossed"}
           Functions == OnEnds(dbcHello') /\ OnEnds(factory') /\ OnEnds(cipher')
<1>0. MaxMinute \in Nat /\ RandLens \subseteq Byte /\ "clt" \in Ends /\ "svr" \in Ends
  BY HandshakeAssumption DEF Ends
<1>1. Rest
  <2> USE DEF Typed, CltWaits, CltDone, SvrWaits, SvrDone, connVars
  <2>1. CASE Client
    BY <1>0, <2>1 DEF Client, requestDHExchange, ResumeSession, ClientKey, ClientValidate,
       ClientFinish, ClientReadFails, WriteHello, ClientFails
  <2>2. CASE Server
    BY <1>0, <2>2 DEF Server, TunnelServe, ServerHello, ServerPart2, ServerDH, ServerAuth,
       ServerResume, ServerReadFails, ServerWriteFails, Reject, Accept, Dispatch
  <2>3. CASE Minute
    BY <1>0, <2>3 DEF Minute
  <2>4. CASE Arrive \/ Cut \/ updateNow \/ Resume
    BY <1>0, <2>4 DEF Arrive, Cut, updateNow, Resume
  <2> QED  BY <2>1, <2>2, <2>3, <2>4 DEF Next
<1>2. More
  <2> USE DEF Typed, connVars, Fault
  <2>1. CASE Client
    BY <2>1 DEF Client, requestDHExchange, ResumeSession, ClientKey, ClientValidate,
       ClientFinish, ClientReadFails, ClientFails
  <2>2. CASE Server
    BY <2>2 DEF Server, TunnelServe, ServerHello, ServerPart2, ServerDH, ServerAuth,
       ServerResume, ServerReadFails, ServerWriteFails, Reject
  <2>3. CASE Arrive \/ Cut \/ Minute \/ updateNow \/ Resume
    BY <2>3 DEF Arrive, Cut, Minute, updateNow, Resume
  <2> QED  BY <2>1, <2>2, <2>3 DEF Next
<1>3. Functions
  <2>1. /\ Ended(dbcHello) /\ Ended(factory) /\ Ended(cipher)
    <3> USE DEF Ended, connVars, SetupCipher
    <3>1. CASE Client
      BY <1>0, <3>1 DEF Client, requestDHExchange, ResumeSession, ClientKey, ClientValidate,
         ClientFinish, ClientReadFails, WriteHello, ClientFails
    <3>2. CASE Server
      BY <1>0, <3>2 DEF Server, TunnelServe, ServerHello, ServerPart2, ServerDH, ServerAuth,
         ServerResume, ServerReadFails, ServerWriteFails, Reject, Accept
    <3>3. CASE Arrive \/ Cut \/ Minute \/ updateNow \/ Resume
      BY <3>3 DEF Arrive, Cut, Minute, updateNow, Resume
    <3> QED  BY <3>1, <3>2, <3>3 DEF Next
  <2>2. OnEnds(dbcHello) /\ OnEnds(factory) /\ OnEnds(cipher)
    BY DEF Typed
  <2> QED  BY <2>1, <2>2, EndsStep DEF Ended
<1> QED  BY <1>1, <1>2, <1>3 DEF Typed, OnEnds

-----------------------------------------------------------------------------
(* The stream to the server *)

\* A sequence over fewer units is one over more.
LEMMA SeqMono ==
    ASSUME NEW S, NEW T, S \subseteq T, NEW s \in Seq(S)
    PROVE  s \in Seq(T)
<1>1. Len(s) \in Nat /\ s \in [1..Len(s) -> S]
  BY LenProperties
<1>2. s \in [1..Len(s) -> T]
  BY <1>1
<1> QED  BY <1>1, <1>2

\* One unit is taken off a stream.
LEMMA TakeOne ==
    ASSUME NEW S, NEW s \in Seq(S), s /= <<>>
    PROVE  Head(s) \in S /\ Tail(s) \in Seq(S) /\ Len(s) \in Nat /\ Len(Tail(s)) = Len(s) - 1
BY HeadTailProperties, LenProperties

\* The numbers of units.
LEMMA Counts ==
    ASSUME Typed
    PROVE  Tails \in 0..1 /\ Sent \in 0..5 /\ Taken \in 0..5
<1>1. Tails \in 0..1
  BY DEF Tails
<1>2. Sent \in 0..5
  BY <1>1 DEF Sent
<1>3. Taken \in {0, 2, 2 + Tails, 3 + Tails, 4 + Tails}
  BY DEF Taken
<1> QED  BY <1>1, <1>2, <1>3

\* The client does not go back, and what it may have written grows.
Forth ==
    /\ UNCHANGED <<mode, randLen>> /\ (cpc = "dialed" <=> cpc' = "dialed")
    /\ Presented => Presented'

\* Then the bound on the stream grows and no unit becomes illegal.
LEMMA ForthGrows ==
    ASSUME Typed, Forth
    PROVE  Sent <= Sent' /\ Sent' \in 0..5 /\ Allowed \subseteq Allowed' /\ Tails' = Tails
<1>1. Tails' = Tails /\ Tails \in 0..1
  BY DEF Forth, Tails
<1>2. Sent \in 0..5 /\ Sent' \in 0..5 /\ Sent <= Sent'
  BY <1>1 DEF Forth, Sent
<1>3. Allowed \subseteq Allowed'
  BY DEF Forth, Allowed
<1> QED  BY <1>1, <1>2, <1>3

\* The server reads k units at most as far as it goes on, or closes.
LEMMA ServerReads ==
    ASSUME Typed, StreamInv, Forth, NEW k \in 0..2, UNCHANGED c2s,
           sock' \in Seq(Allowed), Len(sock') = Len(sock) - k,
           spc' = "closed" \/ (SvrOpen /\ Taken' \in Int /\ Taken' <= Taken + k)
    PROVE  StreamInv'
<1>1. /\ Len(c2s) \in Nat /\ Len(sock) \in Nat /\ Len(sock') \in Nat
      /\ c2s \in Seq(Allowed) /\ sock \in Seq(Allowed)
  BY LenProperties DEF StreamInv
<1>2. c2s' \in Seq(Allowed') /\ sock' \in Seq(Allowed')
  <2>1. Allowed \subseteq Allowed'
    BY ForthGrows
  <2> QED  BY <1>1, <2>1, SeqMono
<1>3. /\ Len(c2s) + Len(sock) <= 5
      /\ SvrOpen => Len(c2s) + Len(sock) + Taken <= Sent
  BY DEF StreamInv
<1>4. Len(c2s') + Len(sock') <= 5
  BY <1>1, <1>3
<1>5. ASSUME SvrOpen'
      PROVE  Len(c2s') + Len(sock') + Taken' <= Sent'
  <2>1. SvrOpen /\ Taken' \in Int /\ Taken' <= Taken + k
    BY <1>5 DEF SvrOpen
  <2>2. Taken \in 0..5 /\ Sent \in 0..5 /\ Sent' \in 0..5 /\ Sent <= Sent'
    BY Counts, ForthGrows
  <2>3. Len(c2s) + Len(sock) + Taken <= Sent
    BY <1>3, <2>1
  <2>4. Len(c2s') = Len(c2s)
    OBVIOUS
  <2> QED  BY <1>1, <2>1, <2>2, <2>3, <2>4
<1> QED  BY <1>2, <1>4, <1>5 DEF StreamInv

\* Nothing is read.
LEMMA NothingRead ==
    ASSUME Typed, StreamInv, Forth, UNCHANGED <<c2s, sock>>,
           spc' = "closed" \/ (SvrOpen' => SvrOpen /\ Taken' = Taken)
    PROVE  StreamInv'
<1>1. sock' \in Seq(Allowed) /\ Len(sock') = Len(sock) - 0 /\ 0 \in 0..2
  BY LenProperties DEF StreamInv
<1>2. CASE SvrOpen'
  <2>1. SvrOpen /\ Taken' = Taken /\ Taken \in Int
    BY <1>2, Counts DEF SvrOpen
  <2>2. Taken' \in Int /\ Taken' <= Taken + 0
    BY <2>1
  <2> QED  BY <1>1, <2>1, <2>2, ServerReads
<1>3. CASE ~SvrOpen'
  BY <1>1, <1>3, ServerReads DEF SvrOpen
<1> QED  BY <1>2, <1>3

\* The client writes units of the connection it is on.
LEMMA ClientWrites ==
    ASSUME Typed, StreamInv, Allowed \subseteq Allowed', UNCHANGED <<sock, spc>>,
           NEW units \in Seq(Allowed'), ToServer(units), Taken' = Taken, Sent' \in 0..5,
           SvrOpen => Sent + Len(units) <= Sent', Len(c2s) + Len(sock) + Len(units) <= 5
    PROVE  StreamInv'
<1>1. /\ Len(c2s) \in Nat /\ Len(sock) \in Nat /\ Len(units) \in Nat
      /\ c2s \in Seq(Allowed) /\ sock \in Seq(Allowed)
      /\ Len(c2s) + Len(sock) <= 5 /\ (SvrOpen => Len(c2s) + Len(sock) + Taken <= Sent)
  BY LenProperties DEF StreamInv
<1>2. c2s \in Seq(Allowed') /\ sock' \in Seq(Allowed')
  BY <1>1, SeqMono
<1>3. /\ c2s' \in Seq(Allowed')
      /\ Len(c2s') \in {Len(c2s), Len(c2s) + Len(units)} /\ Len(c2s') \in Nat
  BY <1>1, <1>2, ConcatProperties DEF ToServer
<1>4. Taken \in 0..5 /\ Sent \in 0..5
  BY Counts
<1>5. SvrOpen' <=> SvrOpen
  BY DEF SvrOpen
<1>6. Len(c2s') + Len(sock') <= 5
  BY <1>1, <1>3
<1>7. SvrOpen => Len(c2s') + Len(sock') + Taken' <= Sent'
  BY <1>1, <1>3, <1>4
<1> QED  BY <1>2, <1>3, <1>5, <1>6, <1>7 DEF StreamInv

\* The header as the server reads it.
LEMMA HelloRead ==
    ASSUME Typed, HelloInv, cpc /= "dialed"
    PROVE  /\ typeOf(hello, conf.sKey) = Type /\ len2Of(hello, conf.sKey) = randLen
           /\ hello.secret = conf.secret
           /\ \A pool \in Int : trusted(hello, "right", calculateTimeCounter(pool))
                <=> conf.secret = "right" /\ hello.minute - pool \in -TIME_ERROR..TIME_ERROR
<1>1. Type \in Byte /\ randLen \in Byte /\ conf.sKey \in Uint16
  BY ConfType DEF Typed, Type, TYPE_NEW, TYPE_RES, Byte, DPH_LEN1
<1>2. /\ hello = makeDbcHello(Type, randLen, conf.sKey, conf.secret, hello.minute)
      /\ hello.minute \in Int
  BY DEF HelloInv
<1> DEFINE t == Type
           m == hello.minute
           c == conf.secret
           h == hello
<1> HIDE DEF t, m, c, h
<1>3. /\ t \in Byte /\ m \in Int /\ h = makeDbcHello(t, randLen, conf.sKey, c, m)
  BY <1>1, <1>2 DEF t, m, c, h
<1>4. typeOf(h, conf.sKey) = t /\ len2Of(h, conf.sKey) = randLen
  BY <1>1, <1>3, HelloRoundTrip
<1>5. \A pool \in Int : trusted(h, "right", calculateTimeCounter(pool))
                <=> c = "right" /\ m - pool \in -TIME_ERROR..TIME_ERROR
  BY <1>1, <1>3, TrustedWindow
<1>6. h.secret = c
  BY <1>3 DEF makeDbcHello
<1> QED  BY <1>4, <1>5, <1>6 DEF t, m, c, h

\* What the server expects next.
LEMMA DispatchTo ==
    ASSUME Typed, HelloInv, cpc /= "dialed", Dispatch
    PROVE  spc' = IF mode = "new" THEN "dh" ELSE "token"
<1>1. typeOf(hello, conf.sKey) = Type
  BY HelloRead
<1> QED  BY <1>1 DEF Dispatch, Type, TYPE_NEW, TYPE_RES

\* Where a trusted header leads.
LEMMA AcceptTo ==
    ASSUME Typed, HelloInv, cpc /= "dialed", Accept(len2Of(hello, conf.sKey))
    PROVE  /\ dbcHello' = [dbcHello EXCEPT !["svr"] = dbcHello["clt"]]
           /\ spc' = IF randLen > 0 THEN "part2" ELSE IF mode = "new" THEN "dh" ELSE "token"
<1>1. len2Of(hello, conf.sKey) = randLen
  BY HelloRead
<1>2. dbcHello' = [dbcHello EXCEPT !["svr"] = dbcHello["clt"]]
  BY <1>1 DEF Accept, HelloInv
<1>3. spc' = IF randLen > 0 THEN "part2" ELSE IF mode = "new" THEN "dh" ELSE "token"
  BY <1>1, DispatchTo DEF Accept
<1> QED  BY <1>2, <1>3

\* The header and what follows it on either kind of connection.
LEMMA HelloUnits ==
    ASSUME Typed, NEW type, NEW units \in Seq(Unit \ {"auth"}), WriteHello(type, units)
    PROVE  /\ randLen' \in RandLens
           /\ hello' = makeDbcHello(type, randLen', conf.sKey, conf.secret, now + conf.skew)
           /\ dbcHello' = [dbcHello EXCEPT !["clt"] = HelloPart(hello', randLen')]
           /\ \E all \in Seq(Unit \ {"auth"}) :
                Len(all) = 2 + (IF randLen' > 0 THEN 1 ELSE 0) + Len(units) /\ ToServer(all)
<1>1. PICK r \in RandLens :
        /\ hello' = makeDbcHello(type, r, conf.sKey, conf.secret, now + conf.skew)
        /\ randLen' = r /\ dbcHello' = [dbcHello EXCEPT !["clt"] = HelloPart(hello', r)]
        /\ ToServer(<<"p1a", "p1b">> \o (IF r > 0 THEN <<"p2">> ELSE <<>>) \o units)
  BY DEF WriteHello
<1> DEFINE S == Unit \ {"auth"}
           tail == IF r > 0 THEN <<"p2">> ELSE <<>>
           all == <<"p1a", "p1b">> \o tail \o units
<1>2. /\ <<"p1a", "p1b">> \in Seq(S) /\ Len(<<"p1a", "p1b">>) = 2
      /\ tail \in Seq(S) /\ Len(tail) = IF r > 0 THEN 1 ELSE 0
  <2>1. /\ <<"p1a", "p1b">> \in Seq(S) /\ Len(<<"p1a", "p1b">>) = 2
        /\ <<"p2">> \in Seq(S) /\ Len(<<"p2">>) = 1
        /\ <<>> \in Seq(S) /\ Len(<<>>) = 0
    BY DEF Unit
  <2> HIDE DEF S
  <2>2. CASE r > 0
    BY <2>1, <2>2
  <2>3. CASE ~(r > 0)
    BY <2>1, <2>3
  <2> QED  BY <2>2, <2>3
<1> HIDE DEF tail
<1>3. <<"p1a", "p1b">> \o tail \in Seq(S) /\ Len(<<"p1a", "p1b">> \o tail) = 2 + Len(tail)
  BY <1>2, ConcatProperties
<1>4. all \in Seq(S) /\ Len(all) = 2 + Len(tail) + Len(units)
  BY <1>3, ConcatProperties
<1> QED  BY <1>1, <1>2, <1>4 DEF tail

\* What either end writes and reads keeps the stream to the server in order.
LEMMA StreamStep ==
    ASSUME Typed, StreamInv, HelloInv, TrustInv, DownInv, ResInv, Next
    PROVE  StreamInv'
<1>0. /\ c2s \in Seq(Allowed) /\ sock \in Seq(Allowed)
      /\ Len(c2s) \in Nat /\ Len(sock) \in Nat
  BY LenProperties DEF StreamInv
<1>f. ASSUME UNCHANGED <<mode, randLen, cpc>> PROVE Forth
  BY <1>f DEF Forth, Presented
<1>1. CASE requestDHExchange \/ ResumeSession
  <2>1. /\ cpc = "dialed" /\ UNCHANGED <<mode, sock, spc>>
        /\ mode = "new" => cpc' = "m2" /\ WriteHello(TYPE_NEW, <<"dh">>)
        /\ mode = "res" => cpc' = "up" /\ WriteHello(TYPE_RES, <<"tka", "tkb">>)
    BY <1>1 DEF requestDHExchange, ResumeSession
  <2>2. c2s = <<>> /\ sock = <<>> /\ spc \in {"accepted", "hello", "closed"}
    BY <2>1 DEF HelloInv
  <2>3. /\ <<"dh">> \in Seq(Unit \ {"auth"}) /\ Len(<<"dh">>) = 1
        /\ <<"tka", "tkb">> \in Seq(Unit \ {"auth"}) /\ Len(<<"tka", "tkb">>) = 2
    BY DEF Unit
  <2>4. PICK all \in Seq(Unit \ {"auth"}) :
          /\ ToServer(all)
          /\ Len(all) = 2 + Tails' + IF mode = "new" THEN 1 ELSE 2
    <3>1. CASE mode = "new"
      BY <2>1, <2>3, <3>1, HelloUnits DEF Tails
    <3>2. CASE mode = "res"
      BY <2>1, <2>3, <3>2, HelloUnits DEF Tails
    <3> QED  BY <3>1, <3>2 DEF Typed
  <2>5. Tails' \in 0..1 /\ Len(all) \in 0..5
    BY <2>4, LenProperties DEF Tails
  <2>6. Sent = 0 /\ Sent' = Len(all) /\ Taken = 0 /\ Taken' = Taken
    BY <2>1, <2>2, <2>4, <2>5 DEF Sent, Taken, Presented, Typed
  <2>7. Allowed \subseteq Allowed' /\ all \in Seq(Allowed')
    <3>1. Allowed = Unit \ {"auth"} /\ Unit \ {"auth"} \subseteq Allowed'
      BY <2>1 DEF Allowed, Presented
    <3> QED  BY <3>1, SeqMono
  <2>8. Len(c2s) + Len(sock) + Len(all) <= 5
    <3>1. Len(c2s) = 0 /\ Len(sock) = 0
      BY <2>2
    <3>2. PICK n \in 0..5 : n = Len(all)
      BY <2>5
    <3>3. 0 + 0 + n <= 5
      OBVIOUS
    <3> QED  BY <3>1, <3>2, <3>3
  <2>9. Sent + Len(all) <= Sent' /\ Sent' \in 0..5
    BY <2>5, <2>6
  <2> QED  BY <2>1, <2>4, <2>6, <2>7, <2>8, <2>9, ClientWrites
<1>2. CASE ClientKey \/ ClientFinish \/ ClientReadFails
  <2>1. Forth
    BY <1>2 DEF ClientKey, ClientFinish, ClientReadFails, ClientFails, Forth, Presented,
       connVars, CltWaits
  <2>2. UNCHANGED <<c2s, sock, spc, randLen>>
    BY <1>2 DEF ClientKey, ClientFinish, ClientReadFails, ClientFails, connVars
  <2> QED  BY <2>1, <2>2, NothingRead DEF SvrOpen, Taken, Tails
<1>3. CASE ClientValidate
  <2>1. cpc = "m3" /\ UNCHANGED <<mode, randLen, sock, spc>>
    BY <1>3 DEF ClientValidate, ClientFails, connVars
  <2>2. mode = "new"
    BY <2>1 DEF ResInv, Typed
  <2>3. (cpc' = "m5" /\ ToServer(<<"auth">>)) \/ (cpc' \in {"exit", "failed"} /\ UNCHANGED c2s)
    BY <1>3 DEF ClientValidate, ClientFails
  <2>4. Forth /\ Taken' = Taken
    BY <2>1, <2>3 DEF Forth, Presented, Taken, Tails
  <2>5. CASE UNCHANGED c2s
    BY <2>1, <2>4, <2>5, NothingRead DEF SvrOpen
  <2>6. CASE cpc' = "m5" /\ ToServer(<<"auth">>)
    <3>1. <<"auth">> \in Seq(Allowed') /\ Len(<<"auth">>) = 1 /\ Allowed \subseteq Allowed'
      BY <2>1, <2>2, <2>6 DEF Allowed, Presented, Unit
    <3>2. Tails \in 0..1 /\ Tails' = Tails
      BY <2>1 DEF Tails
    <3>3. Sent = 3 + Tails /\ Sent' = 4 + Tails
      BY <2>1, <2>2, <2>6, <3>2 DEF Sent, Presented
    <3>4. CASE SvrOpen
      <4>1. Len(c2s) + Len(sock) + Taken <= Sent /\ Taken = 3 + Tails
        BY <2>1, <3>4 DEF StreamInv, DownInv, Taken, SvrOpen
      <4>2. Len(c2s) + Len(sock) + 1 <= 5 /\ Sent + 1 <= Sent' /\ Sent' \in 0..5
        BY <1>0, <3>2, <3>3, <4>1
      <4> QED  BY <2>1, <2>4, <2>6, <3>1, <4>2, ClientWrites
    <3>5. CASE ~SvrOpen
      <4>1. UNCHANGED c2s
        BY <2>6, <3>5 DEF ToServer
      <4> QED  BY <2>1, <2>4, <4>1, NothingRead DEF SvrOpen
    <3> QED  BY <3>4, <3>5
  <2> QED  BY <2>3, <2>5, <2>6
<1>4. CASE TunnelServe
  BY <1>4, <1>f, NothingRead DEF TunnelServe, Taken, SvrOpen
<1>5. CASE ServerHello
  <2>1. spc = "hello" /\ sock /= <<>> /\ cpc /= "dialed"
    BY <1>5 DEF ServerHello, HelloInv
  <2>2. UNCHANGED <<mode, randLen, cpc, c2s>>
    BY <1>5 DEF ServerHello, Reject, connVars
  <2>3. CASE Len(sock) = 1
    <3>1. sock' = <<>> /\ spc' = "closed"
      BY <1>5, <2>3 DEF ServerHello, Reject
    <3>2. sock' \in Seq(Allowed) /\ Len(sock') = Len(sock) - 1 /\ 1 \in 0..2
      BY <2>3, <3>1
    <3> QED  BY <1>f, <2>2, <3>1, <3>2, ServerReads
  <2>4. CASE Len(sock) /= 1
    <3>1. sock' = Tail(Tail(sock))
      BY <1>5, <2>4 DEF ServerHello
    <3>2. /\ Tail(sock) \in Seq(Allowed) /\ Len(Tail(sock)) = Len(sock) - 1
          /\ Len(Tail(sock)) \in Nat
      BY <1>0, <2>1, TakeOne, LenProperties
    <3>3. Tail(sock) /= <<>>
      <4>1. Len(Tail(sock)) /= 0
        BY <1>0, <2>4, <3>2
      <4> QED  BY <3>2, <4>1, EmptySeq
    <3>4. Tail(Tail(sock)) \in Seq(Allowed) /\ Len(Tail(Tail(sock))) = Len(Tail(sock)) - 1
      BY <3>2, <3>3, TakeOne
    <3>5. sock' \in Seq(Allowed) /\ Len(sock') = Len(sock) - 2 /\ 2 \in 0..2
      BY <1>0, <3>1, <3>2, <3>4
    <3>6. spc' = "closed" \/ Accept(len2Of(hello, conf.sKey))
      BY <1>5, <2>4 DEF ServerHello, Reject
    <3>7. CASE spc' = "closed"
      BY <1>f, <2>2, <3>5, <3>7, ServerReads
    <3>8. CASE Accept(len2Of(hello, conf.sKey))
      <4>1. spc' = IF randLen > 0 THEN "part2" ELSE IF mode = "new" THEN "dh" ELSE "token"
        BY <2>1, <3>8, AcceptTo
      <4>2. Taken' = 2 /\ Taken = 0
        BY <2>1, <2>2, <4>1 DEF Taken, Tails
      <4>3. SvrOpen /\ Taken' \in Int /\ Taken' <= Taken + 2
        BY <2>1, <4>2 DEF SvrOpen
      <4> QED  BY <1>f, <2>2, <3>5, <4>3, ServerReads
    <3> QED  BY <3>6, <3>7, <3>8
  <2> QED  BY <2>3, <2>4
<1>6. CASE ServerPart2 \/ ServerDH \/ ServerAuth
  <2>1. /\ spc \in {"part2", "dh", "auth"} /\ sock /= <<>> /\ sock' = Tail(sock)
        /\ UNCHANGED <<mode, randLen, cpc, c2s>>
    BY <1>6 DEF ServerPart2, ServerDH, ServerAuth, ReadFullByLen, Reject, connVars
  <2>2. sock' \in Seq(Allowed) /\ Len(sock') = Len(sock) - 1 /\ 1 \in 0..2
    BY <1>0, <2>1, TakeOne
  <2>3. cpc /= "dialed" /\ (spc = "part2" => randLen > 0)
    BY <2>1 DEF TrustInv, Past
  <2>4. \/ spc' = "closed"
        \/ spc = "part2" /\ spc' = IF mode = "new" THEN "dh" ELSE "token"
        \/ spc = "dh" /\ spc' = "auth"
        \/ spc = "auth" /\ spc' = "serving"
    BY <1>6, <2>3, DispatchTo DEF ServerPart2, ServerDH, ServerAuth, Reject
  <2>5. CASE spc' = "closed"
    BY <1>f, <2>1, <2>2, <2>5, ServerReads
  <2>6. CASE spc' /= "closed"
    <3>1. Taken \in {2, 2 + Tails, 3 + Tails} /\ Taken' = Taken + 1
      <4>1. Tails' = Tails /\ Tails \in 0..1 /\ (spc = "part2" => Tails = 1)
        BY <2>1, <2>3 DEF Tails
      <4> QED  BY <2>4, <2>6, <4>1 DEF Taken
    <3>2. SvrOpen /\ Taken' \in Int /\ Taken' <= Taken + 1
      BY <2>1, <3>1, Counts DEF SvrOpen
    <3> QED  BY <1>f, <2>1, <2>2, <3>2, ServerReads
  <2> QED  BY <2>5, <2>6
<1>7. CASE ServerResume
  <2>1. /\ spc = "token" /\ sock /= <<>> /\ sock' = <<>>
        /\ UNCHANGED <<mode, randLen, cpc, c2s>>
        /\ spc' = "closed" \/ spc' = "serving"
    BY <1>7 DEF ServerResume, Reject, connVars
  <2>2. Tails \in 0..1 /\ Tails' = Tails
    BY <2>1 DEF Tails
  <2>3. Len(sock) <= 2
    <3>1. Len(c2s) + Len(sock) + Taken <= Sent /\ Taken = 2 + Tails
      BY <2>1 DEF StreamInv, SvrOpen, Taken
    <3>2. Sent <= 4 + Tails
      BY <2>2 DEF Sent
    <3> QED  BY <1>0, <2>2, <3>1, <3>2, Counts
  <2>4. Len(sock) /= 0
    BY <1>0, <2>1, EmptySeq
  <2>5. sock' \in Seq(Allowed) /\ Len(sock') = 0 /\ Len(sock') = Len(sock) - Len(sock)
    BY <1>0, <2>1
  <2>6. Len(sock) \in 0..2
    <3>1. PICK n \in Nat : n = Len(sock)
      BY <1>0
    <3>2. n \in 0..2
      BY <2>3, <3>1
    <3> QED  BY <3>1, <3>2
  <2>7. CASE spc' = "closed"
    BY <1>f, <2>1, <2>5, <2>6, <2>7, ServerReads
  <2>8. CASE spc' = "serving"
    \* A token is read whole here: otherwise it is refused.
    <3>1. Len(sock) = 2
      BY <1>7, <2>8 DEF ServerResume, Reject
    <3>2. Taken = 2 + Tails /\ Taken' = 4 + Tails
      BY <2>1, <2>2, <2>8 DEF Taken
    <3>3. SvrOpen /\ Taken' \in Int /\ Taken' <= Taken + Len(sock)
      BY <2>1, <2>2, <3>1, <3>2 DEF SvrOpen
    <3> QED  BY <1>f, <2>1, <2>5, <2>6, <3>3, ServerReads
  <2> QED  BY <2>1, <2>7, <2>8
<1>8. CASE ServerReadFails \/ ServerWriteFails
  BY <1>8, <1>f, NothingRead DEF ServerReadFails, ServerWriteFails, Reject, connVars
<1>9. CASE Arrive
  <2>1. /\ c2s /= <<>> /\ sock' = Append(sock, Head(c2s)) /\ c2s' = Tail(c2s)
        /\ UNCHANGED <<mode, randLen, cpc, spc>>
    BY <1>9 DEF Arrive, connVars
  <2>2. /\ Head(c2s) \in Allowed /\ c2s' \in Seq(Allowed) /\ Len(c2s') = Len(c2s) - 1
    BY <1>0, <2>1, TakeOne
  <2>3. sock' \in Seq(Allowed) /\ Len(sock') = Len(sock) + 1
    BY <1>0, <2>1, <2>2, AppendProperties
  <2>4. Len(c2s') + Len(sock') = Len(c2s) + Len(sock)
    BY <1>0, <2>2, <2>3
  <2>5. Allowed' = Allowed /\ Taken' = Taken /\ Sent' = Sent /\ (SvrOpen' <=> SvrOpen)
    BY <2>1 DEF Allowed, Taken, Sent, SvrOpen, Presented, Tails
  <2> QED  BY <2>2, <2>3, <2>4, <2>5 DEF StreamInv
<1>10. CASE Cut
  <2>1. c2s' = <<>> /\ UNCHANGED <<mode, randLen, cpc, spc, sock>>
    BY <1>10 DEF Cut, connVars
  <2>2. Allowed' = Allowed /\ Taken' = Taken /\ Sent' = Sent /\ (SvrOpen' <=> SvrOpen)
    BY <2>1 DEF Allowed, Taken, Sent, SvrOpen, Presented, Tails
  <2>3. c2s' \in Seq(Allowed') /\ Len(c2s') = 0
    BY <2>1
  <2>4. Taken \in 0..5 /\ Sent \in 0..5
    BY Counts
  <2> QED  BY <1>0, <2>1, <2>2, <2>3, <2>4 DEF StreamInv
<1>11. CASE Minute \/ updateNow
  BY <1>11, <1>f, NothingRead DEF Minute, updateNow, connVars, Taken, Tails, SvrOpen
<1>12. CASE Resume
  <2>1. c2s' = <<>> /\ sock' = <<>> /\ spc' = "accepted" /\ cpc' = "dialed"
    BY <1>12 DEF Resume
  <2>2. c2s' \in Seq(Allowed') /\ sock' \in Seq(Allowed') /\ Len(c2s') = 0 /\ Len(sock') = 0
    BY <2>1
  <2>3. Taken' = 0 /\ Sent' = 0
    BY <2>1 DEF Taken, Sent
  <2> QED  BY <2>2, <2>3 DEF StreamInv
<1> QED
  BY <1>1, <1>2, <1>3, <1>4, <1>5, <1>6, <1>7, <1>8, <1>9, <1>10, <1>11, <1>12
  DEF Next, Client, Server

-----------------------------------------------------------------------------
(* The header, and what both ends make of it *)

\* The steps that make a header, and the one that opens the second connection.
Opening == requestDHExchange \/ ResumeSession \/ Resume

\* All other steps leave the header and its tail alone, and the client does not
\* start anew.
LEMMA Kept ==
    ASSUME Typed, Next, ~Opening
    PROVE  /\ UNCHANGED <<conf, mode, hello, randLen>> /\ dbcHello'["clt"] = dbcHello["clt"]
           /\ cpc' = "dialed" <=> cpc = "dialed"
<1>1. UNCHANGED <<conf, mode, hello, randLen>>
  <2>1. CASE Client
    BY <2>1 DEF Opening, Client, ClientKey, ClientValidate, ClientFinish, ClientReadFails,
       ClientFails, connVars
  <2>2. CASE Server
    BY <2>2 DEF Server, TunnelServe, ServerHello, ServerPart2, ServerDH, ServerAuth,
       ServerResume, ServerReadFails, ServerWriteFails, Reject, connVars
  <2>3. CASE Arrive \/ Cut \/ Minute \/ updateNow
    BY <2>3 DEF Arrive, Cut, Minute, updateNow, connVars
  <2> QED  BY <2>1, <2>2, <2>3 DEF Next, Opening
<1>2. UNCHANGED dbcHello \/ \E v : dbcHello' = [dbcHello EXCEPT !["svr"] = v]
  <2>1. CASE Client
    BY <2>1 DEF Opening, Client, ClientKey, ClientValidate, ClientFinish, ClientReadFails,
       ClientFails, connVars
  <2>2. CASE Server
    BY <2>2 DEF Server, TunnelServe, ServerHello, ServerPart2, ServerDH, ServerAuth,
       ServerResume, ServerReadFails, ServerWriteFails, Reject, Accept, connVars
  <2>3. CASE Arrive \/ Cut \/ Minute \/ updateNow
    BY <2>3 DEF Arrive, Cut, Minute, updateNow, connVars
  <2> QED  BY <2>1, <2>2, <2>3 DEF Next, Opening
<1>3. dbcHello'["clt"] = dbcHello["clt"]
  BY <1>2, EndsExcept DEF Typed, Ends
<1>4. cpc' = "dialed" <=> cpc = "dialed"
  <2>1. CASE Client
    BY <2>1 DEF Opening, Client, ClientKey, ClientValidate, ClientFinish, ClientReadFails,
       ClientFails, CltWaits
  <2>2. CASE Server
    BY <2>2 DEF Server, TunnelServe, ServerHello, ServerPart2, ServerDH, ServerAuth,
       ServerResume, ServerReadFails, ServerWriteFails, Reject
  <2>3. CASE Arrive \/ Cut \/ Minute \/ updateNow
    BY <2>3 DEF Arrive, Cut, Minute, updateNow
  <2> QED  BY <2>1, <2>2, <2>3 DEF Next, Opening
<1> QED  BY <1>1, <1>3, <1>4

\* What the two openings of a connection do.
LEMMA OpenEffect ==
    ASSUME Typed, requestDHExchange \/ ResumeSession
    PROVE  /\ cpc = "dialed" /\ cpc' = IF mode = "new" THEN "m2" ELSE "up"
           /\ randLen' \in Byte /\ hello'.minute = now + conf.skew /\ hello'.minute \in Int
           /\ hello' = makeDbcHello(Type, randLen', conf.sKey, conf.secret, hello'.minute)
           /\ dbcHello'["clt"] = HelloPart(hello', randLen')
           /\ UNCHANGED <<conf, mode, now, tcPool, spc, snap, sock, s2c, factory, session, token,
                          faults>>
           /\ mode = "res" => cipher' = [cipher EXCEPT !["clt"] =
                                           InitCipher(factory["clt"], "token")]
<1>1. <<"dh">> \in Seq(Unit \ {"auth"}) /\ <<"tka", "tkb">> \in Seq(Unit \ {"auth"})
  BY DEF Unit
<1>2. /\ cpc = "dialed" /\ cpc' = IF mode = "new" THEN "m2" ELSE "up"
      /\ UNCHANGED <<conf, mode, now, tcPool, spc, snap, sock, s2c, factory, session, token,
                     faults>>
      /\ mode = "res" => cipher' = [cipher EXCEPT !["clt"] = InitCipher(factory["clt"], "token")]
      /\ WriteHello(Type, <<"dh">>) \/ WriteHello(Type, <<"tka", "tkb">>)
  BY DEF requestDHExchange, ResumeSession, Type, SetupCipher, TYPE_NEW, TYPE_RES
<1>3. /\ randLen' \in RandLens
      /\ hello' = makeDbcHello(Type, randLen', conf.sKey, conf.secret, now + conf.skew)
      /\ dbcHello' = [dbcHello EXCEPT !["clt"] = HelloPart(hello', randLen')]
  BY <1>1, <1>2, HelloUnits
<1>4. dbcHello'["clt"] = HelloPart(hello', randLen')
  BY <1>3, EndsExcept DEF Typed, Ends
<1>5. hello'.minute = now + conf.skew /\ hello'.minute \in Int
  <2>1. now + conf.skew \in Int
    BY ConfType, HandshakeAssumption DEF Typed
  <2> QED  BY <1>3, <2>1 DEF makeDbcHello
<1> QED  BY <1>2, <1>3, <1>4, <1>5, HandshakeAssumption

\* The header on the stream is the client's.
LEMMA HelloStep ==
    ASSUME Typed, HelloInv, Next
    PROVE  HelloInv'
<1>1. CASE requestDHExchange \/ ResumeSession
  <2>1. UNCHANGED <<conf, mode>> /\ cpc' /= "dialed"
    BY <1>1, OpenEffect
  <2>2. Type' = Type
    BY <2>1 DEF Type
  <2> QED  BY <1>1, <2>1, <2>2, OpenEffect DEF HelloInv
<1>2. CASE Resume
  BY <1>2 DEF Resume, HelloInv
<1>3. CASE ~Opening /\ cpc /= "dialed"
  <2>1. /\ UNCHANGED <<conf, mode, hello, randLen>> /\ dbcHello'["clt"] = dbcHello["clt"]
        /\ cpc' /= "dialed"
    BY <1>3, Kept
  <2>2. /\ hello.minute \in Int /\ dbcHello["clt"] = HelloPart(hello, randLen)
        /\ hello = makeDbcHello(Type, randLen, conf.sKey, conf.secret, hello.minute)
    BY <1>3 DEF HelloInv
  <2>3. Type' = Type
    BY <2>1 DEF Type
  <2> QED  BY <2>1, <2>2, <2>3 DEF HelloInv
<1>4. CASE ~Opening /\ cpc = "dialed"
  <2>1. /\ c2s = <<>> /\ sock = <<>> /\ s2c = <<>> /\ spc \in {"accepted", "hello", "closed"}
        /\ cpc' = "dialed"
    BY <1>4, Kept DEF HelloInv
  <2>2. <<>> \o <<>> = <<>>
    OBVIOUS
  <2>3. CASE Client
    BY <1>4, <2>3 DEF Opening, Client, ClientKey, ClientValidate, ClientFinish,
       ClientReadFails, CltWaits
  <2>4. CASE TunnelServe \/ ServerReadFails
    BY <2>1, <2>2, <2>4 DEF TunnelServe, ServerReadFails, Reject, ToClient, HelloInv, SvrWaits
  <2>5. ASSUME Server, ~TunnelServe, ~ServerReadFails PROVE FALSE
    BY <2>1, <2>5 DEF Server, ServerHello, ServerPart2, ServerDH, ServerAuth, ServerResume,
       ServerWriteFails
  <2>6. CASE Arrive \/ Cut \/ Minute \/ updateNow
    BY <2>1, <2>6 DEF Arrive, Cut, Minute, updateNow, HelloInv
  <2> QED  BY <1>4, <2>3, <2>4, <2>5, <2>6 DEF Next, Opening
<1> QED  BY <1>1, <1>2, <1>3, <1>4 DEF Opening

\* How the server's control state moves.
LEMMA ServerMoves ==
    ASSUME Typed, HelloInv, TrustInv, Next
    PROVE  \/ UNCHANGED <<spc, snap>> /\ dbcHello'["svr"] = dbcHello["svr"]
           \/ spc' = "closed" /\ UNCHANGED <<cpc, snap>>
           \/ TunnelServe \/ Resume
           \/ /\ ServerHello /\ spc = "hello" /\ cpc /= "dialed" /\ UNCHANGED <<cpc, snap>>
              /\ trusted(hello, "right", calculateTimeCounter(snap))
              /\ dbcHello'["svr"] = dbcHello["clt"]
              /\ spc' = IF randLen > 0 THEN "part2" ELSE IF mode = "new" THEN "dh" ELSE "token"
           \/ /\ UNCHANGED <<snap, dbcHello, cpc>> /\ cpc /= "dialed"
              /\ \/ /\ ServerPart2 /\ spc = "part2"
                    /\ spc' = IF mode = "new" THEN "dh" ELSE "token"
                 \/ ServerDH /\ spc = "dh" /\ spc' = "auth"
                 \/ ServerAuth /\ spc = "auth" /\ spc' = "serving"
                 \/ ServerResume /\ spc = "token" /\ spc' = "serving"
<1>1. CASE requestDHExchange \/ ResumeSession
  <2>1. \E v : dbcHello' = [dbcHello EXCEPT !["clt"] = v]
    BY <1>1 DEF requestDHExchange, ResumeSession, WriteHello
  <2>2. dbcHello'["svr"] = dbcHello["svr"]
    BY <2>1, EndsExcept DEF Typed, Ends
  <2> QED  BY <1>1, <2>2, OpenEffect
<1>2. CASE ClientKey \/ ClientValidate \/ ClientFinish \/ ClientReadFails
  BY <1>2 DEF ClientKey, ClientValidate, ClientFinish, ClientReadFails, ClientFails, connVars
<1>3. CASE Arrive \/ Cut \/ Minute \/ updateNow
  BY <1>3 DEF Arrive, Cut, Minute, updateNow, connVars
<1>4. CASE ServerHello
  <2>1. spc = "hello" /\ cpc /= "dialed" /\ UNCHANGED <<cpc, snap>>
    BY <1>4 DEF ServerHello, HelloInv, Reject, connVars
  <2>2. \/ spc' = "closed"
        \/ /\ trusted(hello, "right", calculateTimeCounter(snap))
           /\ Accept(len2Of(hello, conf.sKey))
    BY <1>4 DEF ServerHello, Reject
  <2>3. CASE Accept(len2Of(hello, conf.sKey))
    <3>1. /\ dbcHello' = [dbcHello EXCEPT !["svr"] = dbcHello["clt"]]
          /\ spc' = IF randLen > 0 THEN "part2" ELSE IF mode = "new" THEN "dh" ELSE "token"
      BY <2>1, <2>3, AcceptTo
    <3>2. dbcHello'["svr"] = dbcHello["clt"]
      BY <3>1, EndsExcept DEF Typed, Ends
    <3> QED  BY <1>4, <2>1, <2>2, <3>1, <3>2
  <2> QED  BY <2>1, <2>2, <2>3
<1>5. CASE ServerPart2 \/ ServerDH \/ ServerAuth \/ ServerResume
  <2>1. cpc /= "dialed" /\ UNCHANGED <<snap, dbcHello, cpc>>
    BY <1>5 DEF ServerPart2, ServerDH, ServerAuth, ServerResume, TrustInv, Past, Reject, connVars
  <2>2. CASE ServerPart2
    BY <2>1, <2>2, DispatchTo DEF ServerPart2
  <2>3. CASE ServerDH
    BY <2>1, <2>3 DEF ServerDH, Reject
  <2>4. CASE ServerAuth
    BY <2>1, <2>4 DEF ServerAuth, Reject
  <2>5. CASE ServerResume
    BY <2>1, <2>5 DEF ServerResume, Reject
  <2> QED  BY <1>5, <2>2, <2>3, <2>4, <2>5
<1>6. CASE ServerReadFails \/ ServerWriteFails
  BY <1>6 DEF ServerReadFails, ServerWriteFails, Reject, connVars
<1> QED  BY <1>1, <1>2, <1>3, <1>4, <1>5, <1>6 DEF Next, Client, Server

\* The server goes on behind a trusted header only.
LEMMA TrustStep ==
    ASSUME Typed, HelloInv, TrustInv, Next
    PROVE  TrustInv'
<1>1. CASE spc' = "closed" \/ TunnelServe \/ Resume
  BY <1>1 DEF TrustInv, Past, TunnelServe, Resume
<1>2. CASE UNCHANGED <<spc, snap>> /\ dbcHello'["svr"] = dbcHello["svr"] /\ ~Resume
  <2> SUFFICES ASSUME spc \in Past PROVE TrustInv'
    BY <1>2 DEF TrustInv
  <2>1. /\ cpc /= "dialed" /\ trusted(hello, "right", calculateTimeCounter(snap))
        /\ dbcHello["svr"] = dbcHello["clt"] /\ (spc = "part2" => randLen > 0)
        /\ spc \in {"dh", "auth"} => mode = "new"
        /\ spc = "token" => mode = "res"
    BY DEF TrustInv
  <2>2. ~Opening
    BY <1>2, <2>1 DEF Opening, requestDHExchange, ResumeSession
  <2>3. /\ UNCHANGED <<mode, hello, randLen>> /\ dbcHello'["clt"] = dbcHello["clt"]
        /\ cpc' /= "dialed"
    BY <2>1, <2>2, Kept
  <2> QED  BY <1>2, <2>1, <2>3 DEF TrustInv
<1>3. CASE /\ ServerHello /\ spc = "hello" /\ cpc /= "dialed" /\ UNCHANGED <<cpc, snap>>
           /\ trusted(hello, "right", calculateTimeCounter(snap))
           /\ dbcHello'["svr"] = dbcHello["clt"]
           /\ spc' = IF randLen > 0 THEN "part2" ELSE IF mode = "new" THEN "dh" ELSE "token"
  <2>1. UNCHANGED <<mode, hello, randLen>> /\ dbcHello'["clt"] = dbcHello["clt"]
    BY <1>3, Kept DEF Opening, requestDHExchange, ResumeSession, Resume
  <2>2. mode \in {"new", "res"}
    BY DEF Typed
  <2> QED  BY <1>3, <2>1, <2>2 DEF TrustInv
<1>4. CASE /\ UNCHANGED <<snap, dbcHello, cpc>> /\ cpc /= "dialed"
           /\ \/ /\ ServerPart2 /\ spc = "part2"
                 /\ spc' = IF mode = "new" THEN "dh" ELSE "token"
              \/ ServerDH /\ spc = "dh" /\ spc' = "auth"
              \/ ServerAuth /\ spc = "auth" /\ spc' = "serving"
              \/ ServerResume /\ spc = "token" /\ spc' = "serving"
  <2>1. UNCHANGED <<mode, hello, randLen>>
    BY <1>4, Kept DEF Opening, requestDHExchange, ResumeSession, Resume
  <2>2. mode \in {"new", "res"}
    BY DEF Typed
  <2> QED  BY <1>4, <2>1, <2>2 DEF TrustInv, Past
<1> QED  BY <1>1, <1>2, <1>3, <1>4, ServerMoves

-----------------------------------------------------------------------------
(* The keys *)

\* The functions of an end e change, those of the other end do not.
Sets(e, cf, iv) ==
    /\ factory'[e] = cf /\ cipher'[e] = InitCipher(cf, iv)
    /\ \A d \in Ends : d /= e => factory'[d] = factory[d] /\ cipher'[d] = cipher[d]

\* Which steps touch the keys.
LEMMA KeyMoves ==
    ASSUME Typed, Next
    PROVE  \/ UNCHANGED <<factory, cipher>>
           \/ /\ ClientKey /\ cpc = "m2" /\ UNCHANGED <<spc, conf, mode, dbcHello, session>>
              /\ Sets("clt", NewCipherFactory(conf.cipher, "dh", dbcHello["clt"]), "sRand")
           \/ /\ ServerDH /\ spc = "dh" /\ spc' = "auth"
              /\ UNCHANGED <<cpc, conf, mode, dbcHello>>
              /\ Sets("svr", NewCipherFactory("same", "dh", dbcHello["svr"]), "sRand")
           \/ ResumeSession /\ cpc = "dialed" /\ Sets("clt", factory["clt"], "token")
           \/ /\ ServerResume /\ spc = "token" /\ spc' = "serving" /\ UNCHANGED cpc
              /\ Sets("svr", factory["svr"], "token")
           \/ Resume
<1>0. "clt" \in Ends /\ "svr" \in Ends /\ OnEnds(factory) /\ OnEnds(cipher)
  BY DEF Typed, Ends
<1>a. ASSUME NEW e \in Ends, NEW cf, NEW iv, factory' = [factory EXCEPT ![e] = cf],
             cipher' = [cipher EXCEPT ![e] = InitCipher(cf, iv)]
      PROVE  Sets(e, cf, iv)
  BY <1>0, <1>a, EndsExcept DEF Sets
<1>b. ASSUME NEW e \in Ends, NEW iv, UNCHANGED factory,
             cipher' = [cipher EXCEPT ![e] = InitCipher(factory[e], iv)]
      PROVE  Sets(e, factory[e], iv)
  BY <1>0, <1>b, EndsExcept DEF Sets
<1>1. CASE ClientKey
  <2>1. /\ cpc = "m2" /\ UNCHANGED <<spc, conf, mode, dbcHello, session>>
        /\ LET cf == NewCipherFactory(conf.cipher, "dh", dbcHello["clt"])
           IN  /\ factory' = [factory EXCEPT !["clt"] = cf]
               /\ cipher' = [cipher EXCEPT !["clt"] = InitCipher(cf, "sRand")]
    BY <1>1 DEF ClientKey, SetupCipher, connVars
  <2> QED  BY <1>0, <1>1, <1>a, <2>1
<1>2. CASE ServerDH
  <2>1. CASE DSASign(conf.algo)
    <3>1. /\ spc = "dh" /\ spc' = "auth" /\ UNCHANGED <<cpc, conf, mode, dbcHello>>
          /\ LET cf == NewCipherFactory("same", "dh", dbcHello["svr"])
             IN  /\ factory' = [factory EXCEPT !["svr"] = cf]
                 /\ cipher' = [cipher EXCEPT !["svr"] = InitCipher(cf, "sRand")]
      BY <1>2, <2>1 DEF ServerDH, SetupCipher, connVars
    <3> QED  BY <1>0, <1>2, <1>a, <3>1
  <2>2. CASE ~DSASign(conf.algo)
    BY <1>2, <2>2 DEF ServerDH, Reject
  <2> QED  BY <2>1, <2>2
<1>3. CASE ResumeSession
  <2>1. /\ cpc = "dialed" /\ UNCHANGED factory
        /\ cipher' = [cipher EXCEPT !["clt"] = InitCipher(factory["clt"], "token")]
    BY <1>3 DEF ResumeSession, SetupCipher
  <2> QED  BY <1>0, <1>3, <1>b, <2>1
<1>4. CASE ServerResume
  <2>1. CASE spc' = "serving"
    <3>1. /\ spc = "token" /\ UNCHANGED <<factory, cpc>>
          /\ cipher' = [cipher EXCEPT !["svr"] = InitCipher(factory["svr"], "token")]
      BY <1>4, <2>1 DEF ServerResume, SetupCipher, Reject
    <3> QED  BY <1>0, <1>4, <1>b, <2>1, <3>1
  <2>2. CASE spc' /= "serving"
    BY <1>4, <2>2 DEF ServerResume, Reject
  <2> QED  BY <2>1, <2>2
<1>5. CASE requestDHExchange \/ ClientValidate \/ ClientFinish \/ ClientReadFails
  BY <1>5 DEF requestDHExchange, ClientValidate, ClientFinish, ClientReadFails, ClientFails
<1>6. CASE TunnelServe \/ ServerHello \/ ServerPart2 \/ ServerAuth \/ ServerReadFails
           \/ ServerWriteFails
  BY <1>6 DEF TunnelServe, ServerHello, ServerPart2, ServerAuth, ServerReadFails,
     ServerWriteFails, Reject
<1>7. CASE Arrive \/ Cut \/ Minute \/ updateNow
  BY <1>7 DEF Arrive, Cut, Minute, updateNow
<1> QED  BY <1>1, <1>2, <1>3, <1>4, <1>5, <1>6, <1>7 DEF Next, Client, Server

\* How the client's control state moves.
LEMMA ClientMoves ==
    ASSUME Typed, HelloInv, Next
    PROVE  \/ UNCHANGED cpc
           \/ requestDHExchange /\ cpc = "dialed" /\ cpc' = "m2" /\ UNCHANGED spc
           \/ ResumeSession /\ cpc = "dialed" /\ cpc' = "up" /\ UNCHANGED spc
           \/ ClientKey /\ cpc = "m2" /\ cpc' = "m3" /\ UNCHANGED spc
           \/ ClientValidate /\ cpc = "m3" /\ cpc' \in {"m5", "failed", "exit"} /\ UNCHANGED spc
           \/ ClientFinish /\ cpc = "m5" /\ cpc' \in {"up", "failed"} /\ UNCHANGED spc
           \/ ClientReadFails /\ cpc = "m2" /\ cpc' \in {"failed", "exit"} /\ UNCHANGED spc
           \/ ClientReadFails /\ cpc \in {"m3", "m5"} /\ cpc' = "failed" /\ UNCHANGED spc
           \/ Resume
<1>1. CASE requestDHExchange \/ ResumeSession
  BY <1>1 DEF requestDHExchange, ResumeSession
<1>2. CASE ClientKey
  BY <1>2 DEF ClientKey
<1>3. CASE ClientValidate
  BY <1>3 DEF ClientValidate, ClientFails
<1>4. CASE ClientFinish
  BY <1>4 DEF ClientFinish, ClientFails
<1>5. CASE ClientReadFails
  BY <1>5 DEF ClientReadFails, ClientFails, CltWaits
<1>6. CASE Server
  BY <1>6 DEF Server, TunnelServe, ServerHello, ServerPart2, ServerDH, ServerAuth,
     ServerResume, ServerReadFails, ServerWriteFails, Reject
<1>7. CASE Arrive \/ Cut \/ Minute \/ updateNow
  BY <1>7 DEF Arrive, Cut, Minute, updateNow
<1> QED  BY <1>1, <1>2, <1>3, <1>4, <1>5, <1>6, <1>7 DEF Next, Client

\* What the session and the token go through.
LEMMA SessionMoves ==
    ASSUME Typed, Next, ~Resume
    PROVE  /\ session' = session \/ spc' = "closed" \/ (ServerDH /\ spc = "dh")
              \/ (ServerAuth /\ spc = "auth")
           /\ mode = "res" => \/ session' = session \/ (ServerDH /\ spc = "dh")
                              \/ (ServerAuth /\ spc = "auth")
           /\ token' = token \/ (token = "fresh" /\ token' = "used")
<1>1. CASE Client
  BY <1>1 DEF Client, requestDHExchange, ResumeSession, ClientKey, ClientValidate, ClientFinish,
     ClientReadFails, ClientFails
<1>2. CASE Server
  BY <1>2 DEF Server, TunnelServe, ServerHello, ServerPart2, ServerDH, ServerAuth,
     ServerResume, ServerReadFails, ServerWriteFails, Reject
<1>3. CASE Arrive \/ Cut \/ Minute \/ updateNow
  BY <1>3 DEF Arrive, Cut, Minute, updateNow
<1> QED  BY <1>1, <1>2, <1>3 DEF Next

\* A login that is let in was presented, with the right account and key.
LEMMA AuthEffect ==
    ASSUME Typed, StreamInv, ServerAuth, spc' = "serving"
    PROVE  /\ mode = "new" /\ Presented /\ cipher["clt"] = cipher["svr"]
           /\ conf.cred = "good" /\ session' = "live"
           /\ UNCHANGED <<cpc, conf, mode, factory, cipher, dbcHello>>
<1>1. sock /= <<>> /\ Head(sock) = "auth"
  BY DEF ServerAuth, ReadFullByLen
<1>2. "auth" \in Allowed
  BY <1>1, TakeOne DEF StreamInv
<1>3. mode = "new" /\ Presented
  BY <1>2 DEF Allowed
<1> QED  BY <1>3 DEF ServerAuth, Reject, Authenticate, connVars

\* The keys of the first connection.
LEMMA NewStep ==
    ASSUME Typed, StreamInv, HelloInv, TrustInv, NewInv, Next
    PROVE  NewInv'
<1> SUFFICES ASSUME mode' = "new" PROVE NewInv'
  BY DEF NewInv
<1>0. /\ ~Resume /\ mode = "new" /\ ~ResumeSession /\ UNCHANGED conf
      /\ "clt" \in Ends /\ "svr" \in Ends
  <2>1. ~Resume
    BY DEF Resume
  <2>2. UNCHANGED <<mode, conf>>
    BY <2>1, Kept, OpenEffect DEF Opening
  <2> QED  BY <2>1, <2>2 DEF ResumeSession, Ends
<1>a. /\ cpc \in {"m3", "m5", "up"} => Keyed("clt", conf.cipher)
      /\ spc \in {"auth", "serving"} => Keyed("svr", "same")
      /\ spc = "serving" => /\ session = "live" /\ conf.cred = "good" /\ Presented
                            /\ cipher["svr"] = cipher["clt"]
  BY <1>0 DEF NewInv
<1>1. ASSUME cpc' \in {"m3", "m5", "up"} PROVE Keyed("clt", conf.cipher)'
  <2>1. dbcHello'["clt"] = dbcHello["clt"]
    BY <1>0, <1>1, Kept DEF Opening, requestDHExchange
  <2>2. CASE ClientKey
    <3>1. /\ factory'["clt"] = NewCipherFactory(conf.cipher, "dh", dbcHello["clt"])
          /\ cipher'["clt"] = InitCipher(factory'["clt"], "sRand")
      <4>1. LET cf == NewCipherFactory(conf.cipher, "dh", dbcHello["clt"])
            IN  /\ factory' = [factory EXCEPT !["clt"] = cf]
                /\ cipher' = [cipher EXCEPT !["clt"] = InitCipher(cf, "sRand")]
        BY <2>2 DEF ClientKey, SetupCipher
      <4>2. OnEnds(factory) /\ OnEnds(cipher)
        BY DEF Typed
      <4> QED  BY <1>0, <4>1, <4>2, EndsExcept
    <3> QED  BY <1>0, <2>1, <3>1 DEF Keyed
  <2>3. CASE ~ClientKey
    <3>1. cpc \in {"m3", "m5", "up"}
      BY <1>0, <1>1, <2>3, ClientMoves
    <3>2. factory'["clt"] = factory["clt"] /\ cipher'["clt"] = cipher["clt"]
      BY <1>0, <2>3, KeyMoves DEF Sets
    <3> QED  BY <1>0, <1>a, <2>1, <3>1, <3>2 DEF Keyed
  <2> QED  BY <2>2, <2>3
<1>2. ASSUME spc' \in {"auth", "serving"} PROVE Keyed("svr", "same")'
  <2>1. CASE spc = "dh" /\ spc' = "auth"
    <3>1. ServerDH /\ UNCHANGED dbcHello
      BY <2>1, ServerMoves DEF TunnelServe, Resume
    <3>2. /\ factory'["svr"] = NewCipherFactory("same", "dh", dbcHello["svr"])
          /\ cipher'["svr"] = InitCipher(factory'["svr"], "sRand")
      <4>1. DSASign(conf.algo)
        BY <2>1, <3>1 DEF ServerDH, Reject
      <4>2. LET cf == NewCipherFactory("same", "dh", dbcHello["svr"])
            IN  /\ factory' = [factory EXCEPT !["svr"] = cf]
                /\ cipher' = [cipher EXCEPT !["svr"] = InitCipher(cf, "sRand")]
        BY <3>1, <4>1 DEF ServerDH, SetupCipher
      <4> QED  BY <1>0, <4>2, EndsExcept DEF Typed
    <3> QED  BY <3>1, <3>2 DEF Keyed
  <2>2. CASE ~(spc = "dh" /\ spc' = "auth")
    <3>1. spc \in {"auth", "serving"} /\ dbcHello'["svr"] = dbcHello["svr"]
      BY <1>0, <1>2, <2>2, ServerMoves DEF TunnelServe, TrustInv, Past
    <3>2. factory'["svr"] = factory["svr"] /\ cipher'["svr"] = cipher["svr"]
      BY <1>0, <3>1, KeyMoves DEF Sets
    <3> QED  BY <1>a, <3>1, <3>2 DEF Keyed
  <2> QED  BY <2>1, <2>2
<1>3. ASSUME spc' = "serving"
      PROVE  (session = "live" /\ conf.cred = "good" /\ Presented /\ cipher["svr"] = cipher["clt"])'
  <2>1. CASE ServerAuth
    BY <1>3, <2>1, AuthEffect DEF Presented
  <2>2. CASE ~ServerAuth
    <3>1. spc = "serving" /\ spc' = "serving"
      BY <1>0, <1>3, <2>2, ServerMoves DEF TunnelServe, TrustInv, Past
    <3>2. session = "live" /\ conf.cred = "good" /\ Presented /\ cipher["svr"] = cipher["clt"]
      BY <1>a, <3>1
    <3>3. UNCHANGED <<factory, cipher>>
      BY <1>0, <3>1, <3>2, KeyMoves DEF Presented
    <3>4. session' = session
      BY <1>0, <3>1, SessionMoves
    <3>5. Presented'
      BY <1>0, <3>2, ClientMoves DEF Presented
    <3> QED  BY <1>0, <3>2, <3>3, <3>4, <3>5
  <2> QED  BY <2>1, <2>2
<1> QED  BY <1>1, <1>2, <1>3 DEF NewInv

\* The keys of the second connection.
LEMMA ResStep ==
    ASSUME Typed, StreamInv, HelloInv, TrustInv, NewInv, ResInv, Next
    PROVE  ResInv'
<1> SUFFICES ASSUME mode' = "res" PROVE ResInv'
  BY DEF ResInv
<1>0. "clt" \in Ends /\ "svr" \in Ends
  BY DEF Ends
<1>1. CASE Resume
  <2>1. /\ mode = "new" /\ cpc = "up" /\ spc = "serving" /\ cpc' = "dialed" /\ spc' = "accepted"
        /\ token' \in {"fresh", "used"} /\ UNCHANGED <<conf, factory, session>>
    BY <1>1 DEF Resume
  <2>2. /\ session = "live" /\ conf.cred = "good"
        /\ InitCipher(factory["clt"], "sRand") = InitCipher(factory["svr"], "sRand")
    BY <2>1 DEF NewInv, Keyed
  <2>3. factory["clt"] = factory["svr"]
    BY <2>2 DEF InitCipher
  <2> QED  BY <2>1, <2>2, <2>3 DEF ResInv
<1>2. CASE ~Resume
  <2>1. UNCHANGED <<mode, conf>> /\ mode = "res"
    BY <1>2, Kept, OpenEffect DEF Opening
  <2>2. /\ session = "live" /\ conf.cred = "good" /\ token \in {"fresh", "used"}
        /\ cpc \in {"dialed", "up"} /\ factory["clt"] = factory["svr"]
        /\ cpc = "up" => cipher["clt"] = InitCipher(factory["clt"], "token")
        /\ spc = "serving" => cipher["svr"] = InitCipher(factory["svr"], "token")
    BY <2>1 DEF ResInv
  <2>3. spc \notin {"dh", "auth"}
    BY <2>1 DEF TrustInv, Past
  <2>4. session' = "live" /\ token' \in {"fresh", "used"}
    BY <1>2, <2>1, <2>2, <2>3, SessionMoves
  <2>5. cpc' = cpc \/ (ResumeSession /\ cpc = "dialed" /\ cpc' = "up")
    BY <1>2, <2>1, <2>2, ClientMoves DEF requestDHExchange
  <2>6. \/ UNCHANGED <<factory, cipher>>
        \/ ResumeSession /\ cpc = "dialed" /\ Sets("clt", factory["clt"], "token")
        \/ ServerResume /\ spc = "token" /\ UNCHANGED cpc /\ Sets("svr", factory["svr"], "token")
    BY <1>2, <2>2, <2>3, KeyMoves
  <2>7. factory'["clt"] = factory["clt"] /\ factory'["svr"] = factory["svr"]
    BY <1>0, <2>6 DEF Sets
  <2>8. ASSUME cpc' = "up" PROVE cipher'["clt"] = InitCipher(factory["clt"], "token")
    <3>1. CASE cpc = "up"
      BY <1>0, <2>2, <2>6, <3>1 DEF Sets
    <3>2. CASE cpc = "dialed"
      <4>1. ResumeSession
        BY <2>5, <2>8, <3>2
      <4>2. cipher' = [cipher EXCEPT !["clt"] = InitCipher(factory["clt"], "token")]
        BY <4>1 DEF ResumeSession, SetupCipher
      <4> QED  BY <1>0, <4>2, EndsExcept DEF Typed
    <3> QED  BY <2>2, <3>1, <3>2
  <2>9. ASSUME spc' = "serving" PROVE cipher'["svr"] = InitCipher(factory["svr"], "token")
    <3>1. CASE spc = "serving"
      BY <1>0, <2>2, <2>6, <3>1 DEF Sets
    <3>2. CASE spc /= "serving"
      <4>1. ServerResume
        BY <1>2, <2>3, <2>9, <3>2, ServerMoves DEF TunnelServe
      <4>2. cipher' = [cipher EXCEPT !["svr"] = InitCipher(factory["svr"], "token")]
        BY <2>9, <4>1 DEF ServerResume, SetupCipher, Reject
      <4> QED  BY <1>0, <4>2, EndsExcept DEF Typed
    <3> QED  BY <3>1, <3>2
  <2>10. cpc' \in {"dialed", "up"}
    BY <2>2, <2>5
  <2> QED  BY <2>1, <2>2, <2>4, <2>7, <2>8, <2>9, <2>10 DEF ResInv
<1> QED  BY <1>1, <1>2

-----------------------------------------------------------------------------
(* The stream to the client *)

\* The server's answers go to a client that waits for them, on an empty stream.
LEMMA DownStep ==
    ASSUME Typed, StreamInv, HelloInv, TrustInv, NewInv, ResInv, DownInv, Next
    PROVE  DownInv'
<1>0. /\ mode \in {"new", "res"} /\ cpc \in {"m2", "m3", "m5", "up", "failed", "exit", "dialed"}
      /\ mode = "res" => cpc \in {"dialed", "up"}
      /\ cpc = "dialed" => s2c = <<>> /\ spc \in {"accepted", "hello", "closed"}
  BY DEF Typed, CltWaits, CltDone, ResInv, HelloInv
<1>l. /\ Len(<<>>) <= 3 /\ Len(<<"efb">>) <= 3 /\ Len(<<"m2", "m3">>) <= 3
      /\ Len(<<"ok">>) <= 3 /\ Len(<<"no">>) <= 3
  OBVIOUS
<1>1. CASE requestDHExchange \/ ResumeSession
  <2>1. s2c' = <<>> /\ mode' = mode /\ cpc' = IF mode = "new" THEN "m2" ELSE "up"
    BY <1>0, <1>1, OpenEffect
  <2> QED  BY <1>0, <2>1 DEF DownInv
<1>2. CASE ClientKey
  <2>1. /\ cpc = "m2" /\ cpc' = "m3" /\ s2c /= <<>> /\ Head(s2c) = "m2" /\ s2c' = Tail(s2c)
        /\ UNCHANGED spc
    BY <1>2 DEF ClientKey, ReadFullByLen
  <2>2. s2c = <<"m2", "m3">> /\ spc \in {"auth", "closed"}
    BY <2>1 DEF DownInv
  <2>3. s2c' = <<"m3">>
    BY <2>1, <2>2
  <2> QED  BY <2>1, <2>2, <2>3 DEF DownInv
<1>3. CASE ClientValidate
  <2>1. cpc = "m3" /\ s2c = <<"m3">> /\ spc \in {"auth", "closed"} /\ UNCHANGED spc
    BY <1>3 DEF ClientValidate, ClientFails, ReadFullByLen, DownInv
  <2>2. \/ cpc' = "m5" /\ s2c' = Tail(s2c)
        \/ cpc' \in {"failed", "exit"} /\ s2c' = s2c
    BY <1>3 DEF ClientValidate, ClientFails
  <2>3. \/ cpc' = "m5" /\ s2c' = <<>>
        \/ cpc' \in {"failed", "exit"} /\ s2c' = <<"m3">>
    BY <2>1, <2>2
  <2> QED  BY <2>1, <2>3 DEF DownInv
<1>4. CASE ClientFinish
  <2>1. cpc = "m5" /\ s2c /= <<>> /\ UNCHANGED <<s2c, spc, mode>> /\ mode = "new"
    BY <1>0, <1>4 DEF ClientFinish, ClientFails
  <2>2. cpc' = IF Head(s2c) = "ok" THEN "up" ELSE "failed"
    BY <1>4 DEF ClientFinish, ClientFails
  <2>3. (s2c = <<"ok">> /\ spc = "serving") \/ s2c = <<"no">>
    BY <2>1 DEF DownInv
  <2> QED  BY <2>1, <2>2, <2>3 DEF DownInv
<1>5. CASE ClientReadFails
  <2>1. cpc' \in {"failed", "exit"} /\ UNCHANGED s2c
    BY <1>5 DEF ClientReadFails, ClientFails
  <2> QED  BY <2>1 DEF DownInv
<1>6. CASE TunnelServe \/ ServerPart2
  <2>1. /\ UNCHANGED <<mode, cpc, s2c>> /\ spc \in {"accepted", "part2"}
    BY <1>6 DEF TunnelServe, ServerPart2
  <2> QED  BY <2>1 DEF DownInv
<1>7. ASSUME Reject(<<>>), spc \notin SvrDone PROVE DownInv'
  <2>1. spc' = "closed" /\ UNCHANGED <<cpc, mode, conf>> /\ ToClient(<<>>)
    BY <1>7 DEF Reject
  <2>2. s2c' = s2c
    <3>1. CASE CltOpen
      <4>1. s2c \in {<<>>, <<"m3">>, <<"m2", "m3">>}
        BY <1>0, <1>7, <3>1 DEF DownInv, CltOpen, SvrDone
      <4>2. s2c \o <<>> = s2c
        BY <4>1
      <4> QED  BY <2>1, <4>2 DEF ToClient
    <3>2. CASE ~CltOpen
      BY <2>1, <3>2 DEF ToClient
    <3> QED  BY <3>1, <3>2
  <2> QED  BY <1>7, <2>1, <2>2 DEF DownInv, SvrDone
<1>8. CASE ServerHello
  <2>1. spc = "hello" /\ cpc /= "dialed"
    BY <1>8 DEF ServerHello, HelloInv
  <2>2. CASE Reject(<<>>)
    BY <1>7, <2>1, <2>2 DEF SvrDone
  <2>3. CASE Reject(<<"efb">>)
    <3>1. spc' = "closed" /\ UNCHANGED <<cpc, mode, conf>> /\ ToClient(<<"efb">>)
      BY <2>3 DEF Reject
    <3>2. CASE CltOpen
      <4>1. s2c = <<>> /\ (cpc = "m2" \/ (cpc = "up" /\ mode = "res"))
        BY <1>0, <2>1, <3>2 DEF CltOpen, DownInv
      <4>2. s2c' \in {<<>>, <<"efb">>}
        BY <3>1, <4>1 DEF ToClient
      <4>3. Len(s2c') <= 3
        BY <1>l, <4>2
      <4> QED  BY <3>1, <4>1, <4>2, <4>3 DEF DownInv
    <3>3. CASE ~CltOpen
      <4>1. s2c' = s2c
        BY <3>1, <3>3 DEF ToClient
      <4> QED  BY <3>1, <3>3, <4>1 DEF DownInv, CltOpen
    <3> QED  BY <3>2, <3>3
  <2>4. CASE ~Reject(<<>>) /\ ~Reject(<<"efb">>)
    <3>1. UNCHANGED <<cpc, mode, s2c>>
      BY <1>8, <2>4 DEF ServerHello, sendErrorFeedback
    <3> QED  BY <2>1, <3>1 DEF DownInv
  <2> QED  BY <2>2, <2>3, <2>4
<1>9. CASE ServerDH
  <2>1. spc = "dh" /\ mode = "new" /\ cpc /= "dialed"
    BY <1>9 DEF ServerDH, TrustInv, Past
  <2>2. CASE Reject(<<>>)
    BY <1>7, <2>1, <2>2 DEF SvrDone
  <2>3. CASE ~Reject(<<>>)
    <3>1. spc' = "auth" /\ UNCHANGED <<cpc, mode>> /\ ToClient(<<"m2", "m3">>)
      BY <1>9, <2>3 DEF ServerDH
    <3>2. CASE CltOpen
      <4>1. s2c = <<>> /\ cpc = "m2"
        BY <1>0, <2>1, <3>2 DEF CltOpen, DownInv
      <4>2. s2c' \in {<<>>, <<"m2", "m3">>}
        BY <3>1, <4>1 DEF ToClient
      <4>3. Len(s2c') <= 3
        BY <1>l, <4>2
      <4> QED  BY <3>1, <4>1, <4>2, <4>3 DEF DownInv
    <3>3. CASE ~CltOpen
      <4>1. s2c' = s2c
        BY <3>1, <3>3 DEF ToClient
      <4> QED  BY <3>1, <3>3, <4>1 DEF DownInv, CltOpen
    <3> QED  BY <3>2, <3>3
  <2> QED  BY <2>2, <2>3
<1>10. CASE ServerAuth
  <2>1. spc = "auth" /\ sock /= <<>> /\ Head(sock) = "auth"
    BY <1>10 DEF ServerAuth, ReadFullByLen
  <2>2. mode = "new" /\ Presented
    <3>1. "auth" \in Allowed
      BY <2>1, TakeOne DEF StreamInv
    <3> QED  BY <3>1 DEF Allowed
  <2>3. CASE Reject(<<>>)
    BY <1>7, <2>1, <2>3 DEF SvrDone
  <2>4. CASE ~Reject(<<>>)
    <3>1. /\ UNCHANGED <<cpc, mode, conf>>
          /\ \/ spc' = "serving" /\ ToClient(<<"ok">>)
             \/ spc' = "closed" /\ conf.cred = "wrong" /\ ToClient(<<"no">>)
      BY <1>10, <2>4 DEF ServerAuth, Reject
    <3>2. CASE CltOpen
      <4>1. s2c = <<>> /\ cpc = "m5"
        BY <1>0, <2>1, <2>2, <3>2 DEF CltOpen, DownInv, Presented
      <4>2. \/ s2c' = <<>> /\ spc' \in {"serving", "closed"}
            \/ s2c' = <<"ok">> /\ spc' = "serving"
            \/ s2c' = <<"no">> /\ spc' = "closed" /\ conf.cred = "wrong"
        BY <3>1, <4>1 DEF ToClient
      <4>3. Len(s2c') <= 3
        BY <1>l, <4>2
      <4> QED  BY <3>1, <4>1, <4>2, <4>3 DEF DownInv
    <3>3. CASE ~CltOpen
      <4>1. s2c' = s2c
        BY <3>1, <3>3 DEF ToClient
      <4> QED  BY <3>1, <3>3, <4>1 DEF DownInv, CltOpen
    <3> QED  BY <3>2, <3>3
  <2> QED  BY <2>3, <2>4
<1>11. CASE ServerResume
  <2>1. spc = "token" /\ mode = "res"
    BY <1>11 DEF ServerResume, TrustInv, Past
  <2>2. CASE Reject(<<>>)
    BY <1>7, <2>1, <2>2 DEF SvrDone
  <2>3. CASE ~Reject(<<>>)
    <3>1. UNCHANGED <<cpc, mode, s2c>>
      BY <1>11, <2>3 DEF ServerResume
    <3> QED  BY <1>0, <2>1, <3>1 DEF DownInv
  <2> QED  BY <2>2, <2>3
<1>12. CASE ServerReadFails \/ ServerWriteFails
  <2>1. Reject(<<>>) /\ spc \notin SvrDone
    BY <1>12 DEF ServerReadFails, ServerWriteFails, SvrWaits, SvrDone
  <2> QED  BY <1>7, <2>1
<1>13. CASE Cut
  <2>1. s2c' = <<>> /\ UNCHANGED <<cpc, spc, mode>>
    BY <1>13 DEF Cut
  <2> QED  BY <1>l, <2>1 DEF DownInv
<1>14. CASE Arrive \/ Minute \/ updateNow
  BY <1>14 DEF Arrive, Minute, updateNow, DownInv
<1>15. CASE Resume
  <2>1. s2c' = <<>> /\ cpc' = "dialed"
    BY <1>15 DEF Resume
  <2> QED  BY <1>l, <2>1 DEF DownInv
<1> QED
  BY <1>1, <1>2, <1>3, <1>4, <1>5, <1>6, <1>8, <1>9, <1>10, <1>11, <1>12, <1>13, <1>14, <1>15
  DEF Next, Client, Server

-----------------------------------------------------------------------------
(* The clocks *)

\* A fault is never forgotten.
LEMMA FaultsGrow ==
    ASSUME Next
    PROVE  faults \subseteq faults'
<1>1. CASE Client
  BY <1>1 DEF Client, requestDHExchange, ResumeSession, ClientKey, ClientValidate, ClientFinish,
     ClientReadFails, Fault
<1>2. CASE Server
  BY <1>2 DEF Server, TunnelServe, ServerHello, ServerPart2, ServerDH, ServerAuth,
     ServerResume, ServerReadFails, ServerWriteFails, Fault
<1>3. CASE Arrive \/ Cut \/ Minute \/ updateNow \/ Resume
  BY <1>3 DEF Arrive, Cut, Minute, updateNow, Resume, Fault
<1> QED  BY <1>1, <1>2, <1>3 DEF Next

\* Only a few steps bear on the time between the header and the pool.
LEMMA TimeKept ==
    ASSUME Typed, Next, ~Opening, ~TunnelServe, ~Minute
    PROVE  UNCHANGED <<now, snap>> /\ (spc' = "accepted" <=> spc = "accepted")
<1>1. CASE Client
  BY <1>1 DEF Opening, Client, ClientKey, ClientValidate, ClientFinish, ClientReadFails,
     ClientFails, connVars
<1>2. CASE Server
  BY <1>2 DEF Server, ServerHello, ServerPart2, ServerDH, ServerAuth, ServerResume,
     ServerReadFails, ServerWriteFails, Reject, Accept, Dispatch, SvrWaits, connVars
<1>3. CASE Arrive \/ Cut \/ updateNow
  BY <1>3 DEF Arrive, Cut, updateNow, connVars
<1> QED  BY <1>1, <1>2, <1>3 DEF Next, Opening

\* The pool is the one of the minute in which the header was made, or one late.
LEMMA TimeStep ==
    ASSUME Typed, HelloInv, TimeInv, Next
    PROVE  TimeInv'
<1> SUFFICES ASSUME "crossed" \notin faults' PROVE TimeInv'
  BY DEF TimeInv
<1>0. /\ cpc /= "dialed" /\ spc = "accepted" => hello.minute = now + conf.skew
      /\ cpc = "dialed" /\ spc /= "accepted" => Near(now)
      /\ cpc /= "dialed" /\ spc /= "accepted" => Near(hello.minute - conf.skew)
  BY FaultsGrow DEF TimeInv
<1>t. now \in Int /\ conf.skew \in Int /\ snap \in Int /\ tcPool \in {now - 1, now}
  BY ConfType, HandshakeAssumption DEF Typed
<1>1. CASE requestDHExchange \/ ResumeSession
  <2>1. /\ cpc = "dialed" /\ cpc' /= "dialed" /\ hello'.minute = now + conf.skew
        /\ UNCHANGED <<conf, now, spc, snap, faults>>
    BY <1>1, OpenEffect
  <2>2. hello'.minute - conf.skew = now
    BY <1>t, <2>1
  <2> QED  BY <1>0, <2>1, <2>2 DEF TimeInv, Near
<1>2. CASE Resume
  BY <1>2 DEF Resume, TimeInv
<1>3. CASE TunnelServe
  <2>1. /\ spc = "accepted" /\ spc' = "hello" /\ snap' = tcPool
        /\ faults' = IF tcPool /= now THEN faults \cup {"lag"} ELSE faults
        /\ UNCHANGED <<conf, now, cpc, hello>>
    BY <1>3 DEF TunnelServe
  <2>2. Near(now)'
    BY <1>t, <2>1 DEF Near
  <2>3. cpc /= "dialed" => hello.minute - conf.skew = now
    BY <1>0, <1>t, <2>1
  <2> QED  BY <2>1, <2>2, <2>3 DEF TimeInv, Near
<1>4. CASE Minute
  <2>1. /\ UNCHANGED <<conf, cpc, spc, snap, hello>>
        /\ faults' = IF (cpc = "dialed") /= (spc = "accepted")
                     THEN faults \cup {"crossed"} ELSE faults
    BY <1>4 DEF Minute, connVars
  <2>2. (cpc = "dialed" <=> spc = "accepted") /\ UNCHANGED faults
    BY <2>1
  <2> QED  BY <1>0, <2>1, <2>2 DEF TimeInv, Near
<1>5. CASE ~Opening /\ ~TunnelServe /\ ~Minute
  <2>1. /\ UNCHANGED <<now, snap, conf, hello>> /\ (cpc' = "dialed" <=> cpc = "dialed")
        /\ (spc' = "accepted" <=> spc = "accepted")
    BY <1>5, TimeKept, Kept
  <2> QED  BY <1>0, <2>1, FaultsGrow DEF TimeInv, Near
<1> QED  BY <1>1, <1>2, <1>3, <1>4, <1>5 DEF Opening

-----------------------------------------------------------------------------
(* Nobody is turned away *)

\* A client whose clock is in step is trusted.
LEMMA GoodTrusted ==
    ASSUME Typed, HelloInv, TimeInv, cpc /= "dialed", spc /= "accepted", Sound,
           "crossed" \notin faults
    PROVE  trusted(hello, "right", calculateTimeCounter(snap))
<1>1. Near(hello.minute - conf.skew)
  BY DEF TimeInv
<1>2. hello.minute \in Int /\ conf.skew \in Int /\ snap \in Int
  BY ConfType DEF Typed, HelloInv
<1>3. hello.minute - snap \in -1..1
  BY <1>1, <1>2 DEF Near, Sound, InStep
<1> QED  BY <1>2, <1>3, HelloRead DEF TIME_ERROR, Sound

\* Both ends have the same key as long as the names of their ciphers match.
LEMMA GoodKeys ==
    ASSUME TrustInv, NewInv, mode = "new", spc = "auth", cpc \in {"m3", "m5", "up"}, Sound
    PROVE  cipher["clt"] = cipher["svr"]
<1>1. dbcHello["svr"] = dbcHello["clt"]
  BY DEF TrustInv, Past
<1>2. Keyed("clt", conf.cipher) /\ Keyed("svr", "same") /\ conf.cipher = "same"
  BY DEF NewInv, Sound
<1> QED  BY <1>1, <1>2 DEF Keyed

\* Neither end gives up without a fault.
LEMMA RefusedStep ==
    ASSUME Typed, StreamInv, HelloInv, TrustInv, NewInv, ResInv, DownInv, TimeInv,
           NoGoodRefused, Next
    PROVE  NoGoodRefused'
<1> SUFFICES ASSUME Sound', faults' \subseteq {"lag"}
             PROVE  CltOpen' /\ (spc' = "closed" => mode' = "res" /\ token' = "used")
  BY DEF NoGoodRefused
<1>1. /\ faults \subseteq {"lag"} /\ Connected
  BY FaultsGrow DEF Connected
<1>2. UNCHANGED conf
  BY Kept, OpenEffect DEF Opening, Resume
<1>3. Sound
  BY <1>2, FaultsGrow DEF Sound, InStep
<1>4. CltOpen /\ (spc = "closed" => mode = "res" /\ token = "used")
  BY <1>1, <1>3 DEF NoGoodRefused
<1>5. mode = "res" => cpc \in {"dialed", "up"} /\ token \in {"fresh", "used"}
  BY DEF ResInv
<1>m. mode \in {"new", "res"}
  BY DEF Typed
<1>6. CASE Resume
  BY <1>6 DEF Resume, CltOpen
<1>7. CASE Client
  <2>1. UNCHANGED <<spc, mode, token>>
    BY <1>7 DEF Client, requestDHExchange, ResumeSession, ClientKey, ClientValidate,
       ClientFinish, ClientReadFails, ClientFails
  <2>2. CASE requestDHExchange \/ ResumeSession \/ ClientKey
    BY <1>4, <2>1, <2>2 DEF requestDHExchange, ResumeSession, ClientKey, CltOpen
  <2>3. CASE ClientValidate
    <3>1. cpc = "m3" /\ mode = "new"
      BY <1>5, <1>m, <2>3 DEF ClientValidate
    <3>2. spc = "auth"
      BY <1>4, <3>1 DEF DownInv
    <3>3. cipher["clt"] = cipher["svr"]
      BY <1>3, <3>1, <3>2, GoodKeys
    <3>4. cpc' = "m5"
      BY <1>3, <2>3, <3>3 DEF ClientValidate, Validated, compareVersion, serializeIdentity, Sound
    <3> QED  BY <1>4, <2>1, <3>4 DEF CltOpen
  <2>4. CASE ClientFinish
    <3>1. cpc = "m5" /\ s2c /= <<>> /\ cpc' = IF Head(s2c) = "ok" THEN "up" ELSE "failed"
      BY <2>4 DEF ClientFinish, ClientFails
    <3>2. s2c = <<"ok">>
      BY <1>3, <3>1 DEF DownInv, Sound
    <3> QED  BY <1>4, <2>1, <3>1, <3>2 DEF CltOpen
  <2>5. CASE ClientReadFails
    <3>1. cpc \in CltWaits /\ IsClosedError
      BY <2>5 DEF ClientReadFails, Fault
    <3>2. spc = "closed"
      BY <1>1, <3>1 DEF IsClosedError, SvrOpen
    <3> QED  BY <1>4, <1>5, <3>1, <3>2 DEF CltWaits
  <2> QED  BY <1>7, <2>2, <2>3, <2>4, <2>5 DEF Client
<1>8. CASE Server
  <2>1. UNCHANGED <<cpc, mode>>
    BY <1>8 DEF Server, TunnelServe, ServerHello, ServerPart2, ServerDH, ServerAuth,
       ServerResume, ServerReadFails, ServerWriteFails, Reject
  <2>2. CltOpen'
    BY <1>4, <2>1 DEF CltOpen
  <2> SUFFICES ASSUME spc' = "closed" PROVE mode' = "res" /\ token' = "used"
    BY <2>2
  <2>3. CASE TunnelServe
    BY <2>3 DEF TunnelServe
  <2>4. CASE ServerHello
    <3>1. spc = "hello" /\ cpc /= "dialed"
      BY <2>4 DEF ServerHello, HelloInv
    <3>2. trusted(hello, "right", calculateTimeCounter(snap))
      BY <1>1, <1>3, <3>1, GoodTrusted
    <3>3. Len(sock) /= 1
      BY <2>4 DEF ServerHello, Fault
    <3>4. Accept(len2Of(hello, conf.sKey))
      BY <2>4, <3>2, <3>3 DEF ServerHello
    <3> QED  BY <3>1, <3>4, AcceptTo
  <2>5. CASE ServerPart2
    <3>1. cpc /= "dialed" /\ Dispatch
      BY <2>5 DEF ServerPart2, HelloInv
    <3> QED  BY <3>1, DispatchTo
  <2>6. CASE ServerDH
    BY <1>3, <2>6 DEF ServerDH, DSASign, Sound
  <2>7. CASE ServerAuth
    <3>1. spc = "auth" /\ sock /= <<>> /\ Head(sock) = "auth"
      BY <2>7 DEF ServerAuth, ReadFullByLen
    <3>2. "auth" \in Allowed
      BY <3>1, TakeOne DEF StreamInv
    <3>3. mode = "new" /\ cpc \in {"m5", "up"}
      BY <1>4, <3>2 DEF Allowed, Presented, CltOpen
    <3>4. cipher["clt"] = cipher["svr"]
      BY <1>3, <3>1, <3>3, GoodKeys
    <3> QED  BY <1>3, <2>7, <3>4 DEF ServerAuth, deserializeIdentity, Authenticate, Sound
  <2>8. CASE ServerResume
    <3>1. spc = "token" /\ sock /= <<>> /\ mode = "res" /\ Len(sock) /= 1
      BY <2>8 DEF ServerResume, TrustInv, Past
    <3>2. Len(sock) = 2
      <4>1. Len(c2s) \in Nat /\ Len(sock) \in Nat /\ Len(sock) /= 0
        BY <3>1, LenProperties, EmptySeq DEF StreamInv
      <4>2. Len(c2s) + Len(sock) + Taken <= Sent /\ Taken = 2 + Tails
        BY <3>1 DEF StreamInv, SvrOpen, Taken
      <4>3. Tails \in 0..1 /\ Sent <= 4 + Tails /\ Sent \in Int
        BY Counts DEF Sent
      <4>4. PICK n \in Nat, k \in Nat : n = Len(sock) /\ k = Len(c2s)
        BY <4>1
      <4>5. n /= 0 /\ n /= 1 /\ k + n + (2 + Tails) <= 4 + Tails
        BY <3>1, <4>1, <4>2, <4>3, <4>4
      <4>6. n = 2
        BY <4>3, <4>5
      <4> QED  BY <4>4, <4>6
    <3>3. token /= "fresh" /\ UNCHANGED token
      BY <2>8, <3>2 DEF ServerResume, Reject
    <3> QED  BY <1>5, <2>1, <3>1, <3>3
  <2>9. CASE ServerReadFails
    BY <1>1, <1>4, <2>9 DEF ServerReadFails, Fault
  <2>10. CASE ServerWriteFails
    BY <1>1, <2>10 DEF ServerWriteFails
  <2> QED  BY <1>8, <2>3, <2>4, <2>5, <2>6, <2>7, <2>8, <2>9, <2>10 DEF Server
<1>9. CASE Arrive \/ Minute \/ updateNow
  BY <1>4, <1>9 DEF Arrive, Minute, updateNow, CltOpen
<1>10. CASE Cut
  BY <1>10 DEF Cut, Fault
<1> QED  BY <1>6, <1>7, <1>8, <1>9, <1>10 DEF Next

-----------------------------------------------------------------------------
(* The theorems *)

\* Before the first message every part holds.
LEMMA InitInv == Init => IInv
<1> SUFFICES ASSUME Init PROVE IInv
  OBVIOUS
<1>1. Typed
  BY HandshakeAssumption DEF Init, Typed, OnEnds, NoKeys, Byte, DPH_LEN1, CltWaits, CltDone,
     SvrWaits, SvrDone
<1>2. StreamInv
  <2>1. c2s = <<>> /\ sock = <<>> /\ cpc = "dialed" /\ spc = "accepted"
    BY DEF Init
  <2>2. c2s \in Seq(Allowed) /\ sock \in Seq(Allowed) /\ Len(c2s) = 0 /\ Len(sock) = 0
    BY <2>1
  <2>3. Taken = 0 /\ Sent = 0
    BY <2>1 DEF Taken, Sent
  <2> QED  BY <2>2, <2>3 DEF StreamInv
<1>3. HelloInv /\ TrustInv /\ NewInv /\ ResInv /\ TimeInv
  BY DEF Init, HelloInv, TrustInv, Past, NewInv, ResInv, TimeInv
<1>4. DownInv
  <2>1. s2c = <<>> /\ cpc = "dialed" /\ Len(<<>>) <= 3
    BY DEF Init
  <2> QED  BY <2>1 DEF DownInv
<1>5. NoGoodRefused
  BY DEF Init, NoGoodRefused, CltOpen
<1> QED  BY <1>1, <1>2, <1>3, <1>4, <1>5 DEF IInv

\* A step that changes nothing keeps every part.
LEMMA Stutter == IInv /\ UNCHANGED vars => IInv'
<1> SUFFICES ASSUME IInv, UNCHANGED vars PROVE IInv'
  OBVIOUS
<1>u. UNCHANGED <<conf, mode, now, tcPool, cpc, spc, snap, hello, randLen, dbcHello, c2s, sock, s2c,
                  factory, cipher, session, token, faults>>
  BY DEF vars, connVars
<1>1. Typed' /\ HelloInv' /\ TrustInv'
  BY <1>u DEF IInv, Typed, OnEnds, HelloInv, Type, TrustInv
<1>2. NewInv' /\ ResInv' /\ DownInv'
  BY <1>u DEF IInv, NewInv, Keyed, Presented, ResInv, DownInv
<1>3. TimeInv' /\ NoGoodRefused'
  BY <1>u DEF IInv, TimeInv, Near, NoGoodRefused, Sound, InStep, CltOpen
<1>4. StreamInv'
  BY <1>u DEF IInv, StreamInv, Allowed, Presented, Sent, Taken, Tails, SvrOpen
<1> QED  BY <1>1, <1>2, <1>3, <1>4 DEF IInv

\* The invariant of the handshake: it holds in every state of every behaviour
\* of requestDHExchange, finishDHExchange, authenticate, resumeSession and
\* TunnelServe, with faults of the network and clocks apart.
THEOREM Invariant == Spec => []IInv
<1>1. IInv /\ Next => IInv'
  BY TypedStep, StreamStep, HelloStep, TrustStep, NewStep, ResStep, DownStep, TimeStep,
     RefusedStep DEF IInv
<1> QED  BY <1>1, InitInv, Stutter, PTL DEF Spec

\* The state has its type; no stream holds more than the messages of one
\* handshake.
THEOREM TypeCorrect == Spec => []TypeOK
<1>1. IInv => TypeOK
  <2> SUFFICES ASSUME IInv PROVE TypeOK
    OBVIOUS
  <2>1. Len(c2s) \in Nat /\ Len(sock) \in Nat /\ Len(c2s) + Len(sock) <= 5 /\ Len(s2c) <= 3
    BY LenProperties DEF IInv, StreamInv, DownInv
  <2>2. Len(c2s) <= 5 /\ Len(sock) <= 5
    BY <2>1
  <2> QED  BY <2>1, <2>2 DEF IInv, Typed, TypeOK
<1> QED  BY <1>1, Invariant, PTL

\* Two ends that use a connection agree on the account, the session and the
\* cipher (authenticate, authThenFinishSetting, resumeSession), for every
\* length of the random tail, every masking key and however long it takes.
THEOREM LoginAgrees == Spec => []LoginAgreed
<1>1. IInv => LoginAgreed
  <2> SUFFICES ASSUME IInv PROVE LoginAgreed
    OBVIOUS
  <2>1. mode \in {"new", "res"}
    BY DEF IInv, Typed
  <2>2. ASSUME spc = "serving"
        PROVE  /\ conf.cred = "good" /\ session = "live"
               /\ trusted(hello, "right", calculateTimeCounter(snap))
               /\ cipher["svr"] = cipher["clt"]
    <3>1. cpc /= "dialed" /\ trusted(hello, "right", calculateTimeCounter(snap))
      BY <2>2 DEF IInv, TrustInv, Past
    <3>2. CASE mode = "new"
      BY <2>2, <3>1, <3>2 DEF IInv, NewInv
    <3>3. CASE mode = "res"
      BY <2>2, <3>1, <3>3 DEF IInv, ResInv
    <3> QED  BY <2>1, <3>2, <3>3
  <2>3. cpc = "up" /\ mode = "new" => spc = "serving"
    BY DEF IInv, DownInv
  <2> QED  BY <2>2, <2>3 DEF LoginAgreed
<1> QED  BY <1>1, Invariant, PTL

\* Nobody is turned away without a reason (verifyDbcHello, validate,
\* authenticate, resumeSession): for every length of the random tail and every
\* masking key, with the clocks in step and no fault, neither end gives up.
THEOREM GoodNeverRefused == Spec => []NoGoodRefused
<1>1. IInv => NoGoodRefused
  BY DEF IInv
<1> QED  BY <1>1, Invariant, PTL
=============================================================================
