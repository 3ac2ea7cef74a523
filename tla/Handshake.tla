----------------------------- MODULE Handshake -----------------------------
(***************************************************************************)
(* The d5 handshake (src/tunnel/d5.go with TunnelServe and the time        *)
(* counter of src/tunnel/server.go): a client logs in on one connection    *)
(* and then resumes the session on a second one with a token.              *)
(*                                                                         *)
(* Messages are units on the two streams.  To the server go "p1a" "p1b"    *)
(* (the header), "p2" (its random tail), "dh" (the client's public key),   *)
(* "auth" (hash of the server's random and the identity), "tka" "tkb" (a   *)
(* token); to the client "efb" (error feedback), "m2" (the signed public   *)
(* key and the random), "m3" (hash of the hello and version), "no" or "ok" *)
(* (refused; parameters and tokens).  Keys are what they are derived from. *)
(* A read waits for its unit at most until its deadline, so it may fail at *)
(* any time; a write fails only on a broken connection.                    *)
(***************************************************************************)
EXTENDS Hello, Sequences

CONSTANTS RandLens,     \* lengths of the random tail
          SKeys,        \* values of the key that masks the two bytes
          MaxMinute     \* bound: minutes that pass

ASSUME HandshakeAssumption ==
    /\ RandLens \subseteq Byte /\ SKeys \subseteq Uint16
    /\ MaxMinute \in Nat

\* What both ends are configured with: the client's clock against the
\* server's, the server's public key and its kind, the names of the cipher,
\* the account, the server's version, and whether the server sends feedback.
Conf == [skew : -2..2, secret : {"right", "wrong"}, algo : {"ECC", "RSA"},
         cipher : {"same", "other"}, cred : {"good", "wrong", "malformed", "long"},
         ver : {"known", "newer"}, efb : BOOLEAN, sKey : SKeys]

\* The account, the clock, or the rest is not as it should be.
Confs ==
    {c \in Conf :
        LET plain == c.secret = "right" /\ c.algo = "ECC" /\ c.cipher = "same"
                     /\ c.ver = "known"
        IN  \/ plain /\ c.skew = 0
            \/ plain /\ c.cred = "good"
            \/ c.skew = 0 /\ c.cred = "good"}

VARIABLES
    conf, mode,    \* "new" login, then "res": the second connection
    now, tcPool,   \* the server's minute, and the one its pool was made for
    cpc, spc,      \* control states
    snap,          \* the pool TunnelServe loaded
    hello, randLen,
    c2s, sock,     \* units to the server: under way, arrived
    s2c,           \* units to the client
    dbcHello,      \* dbcHello[e]: the part of the hello the key is made from
    factory,       \* factory[e]: cipherFactory, <<>> before
    cipher,        \* cipher[e]: key and iv of this connection, <<>> before
    session,       \* server: "none", "made", "live" (with tokens), "cleared"
    token,         \* of the second connection
    faults         \* history: what went wrong outside the two programs

connVars == <<snap, hello, randLen, dbcHello>>
vars == <<conf, mode, now, tcPool, cpc, spc, connVars, c2s, sock, s2c, factory,
          cipher, session, token, faults>>

CltWaits == {"m2", "m3", "m5"}
SvrWaits == {"hello", "part2", "dh", "auth", "token"}
CltDone  == {"up", "failed", "exit"}
SvrDone  == {"serving", "closed"}
Ends     == {"clt", "svr"}
NoKeys   == [e \in Ends |-> <<>>]

Init ==
    /\ conf \in Confs /\ mode = "new"
    /\ now = 0 /\ tcPool \in {-1, 0}
    /\ cpc = "dialed" /\ spc = "accepted"
    /\ snap = 0 /\ hello = <<>> /\ randLen = 0
    /\ c2s = <<>> /\ sock = <<>> /\ s2c = <<>>
    /\ dbcHello = NoKeys /\ factory = NoKeys /\ cipher = NoKeys
    /\ session = "none" /\ token = "none" /\ faults = {}

-----------------------------------------------------------------------------
(* What both sides use *)

CltOpen == cpc \notin {"failed", "exit"}
SvrOpen == spc /= "closed"
Connected == "cut" \notin faults
Fault(f) == faults' = faults \cup {f}

\* What a msgWriter writes; it is lost if the other end has closed.
ToServer(units) == c2s' = IF SvrOpen /\ Connected THEN c2s \o units ELSE c2s
ToClient(units) == s2c' = IF CltOpen /\ Connected THEN s2c \o units ELSE s2c

\* The next message is there in full.
ReadFullByLen(stream, unit) == stream /= <<>> /\ Head(stream) = unit

\* The key comes from the secrets, the cipher of a connection from key and iv.
NewCipherFactory(name, key, part) == <<name, key, part>>
InitCipher(cf, iv) == <<cf, iv>>
SetupCipher(e, cf, iv) == cipher' = [cipher EXCEPT ![e] = InitCipher(cf, iv)]

\* dbcHello is the tail, or all of the header if it has none.
HelloPart(h, len) == IF len > 0 THEN <<"tail", len>> ELSE <<"whole", h.f>>

-----------------------------------------------------------------------------
(* The client: d5cman *)

\* The header, its tail, and what the kind of connection puts behind it.
WriteHello(type, units) ==
    \E r \in RandLens :
        LET h == makeDbcHello(type, r, conf.sKey, conf.secret, now + conf.skew)
        IN  /\ hello' = h /\ randLen' = r
            /\ dbcHello' = [dbcHello EXCEPT !["clt"] = HelloPart(h, r)]
            /\ ToServer(<<"p1a", "p1b">> \o (IF r > 0 THEN <<"p2">> ELSE <<>>) \o units)

requestDHExchange ==
    /\ cpc = "dialed" /\ mode = "new"
    /\ WriteHello(TYPE_NEW, <<"dh">>)
    /\ cpc' = "m2"
    /\ UNCHANGED <<conf, mode, now, tcPool, spc, snap, sock, s2c, factory, cipher, session,
                   token, faults>>

\* The client does not wait for an answer.
ResumeSession ==
    /\ cpc = "dialed" /\ mode = "res"
    /\ WriteHello(TYPE_RES, <<"tka", "tkb">>)
    /\ SetupCipher("clt", factory["clt"], "token")
    /\ cpc' = "up"
    /\ UNCHANGED <<conf, mode, now, tcPool, spc, snap, sock, s2c, factory, session, token,
                   faults>>

\* Connect's deferred function closes the connection; some errors end the
\* process instead.
ClientFails(how) ==
    /\ cpc' = how
    /\ UNCHANGED <<conf, mode, now, tcPool, spc, connVars, c2s, sock, s2c, factory, cipher,
                   session, token>>

\* finishDHExchange: the signature is good, the key is set up.  The cipher's
\* name is the client's own.
ClientKey ==
    /\ cpc = "m2" /\ ReadFullByLen(s2c, "m2")
    /\ s2c' = Tail(s2c)
    /\ LET cf == NewCipherFactory(conf.cipher, "dh", dbcHello["clt"])
       IN  factory' = [factory EXCEPT !["clt"] = cf] /\ SetupCipher("clt", cf, "sRand")
    /\ cpc' = "m3"
    /\ UNCHANGED <<conf, mode, now, tcPool, spc, connVars, c2s, sock, session, token, faults>>

\* A newer version of the server is tolerated unless major or minor differ.
compareVersion(ver) == ver = "known"

\* At most 255 bytes, else it panics.
serializeIdentity(cred) == cred /= "long"

\* validate.  Under different keys the hash reads as garbage.
Validated == cipher["clt"] = cipher["svr"] /\ compareVersion(conf.ver)

ClientValidate ==
    /\ cpc = "m3" /\ ReadFullByLen(s2c, "m3")
    /\ IF Validated /\ serializeIdentity(conf.cred)
       THEN \* the first half of authThenFinishSetting
            /\ s2c' = Tail(s2c)
            /\ ToServer(<<"auth">>)
            /\ cpc' = "m5"
            /\ UNCHANGED <<conf, mode, now, tcPool, spc, connVars, sock, factory, cipher,
                           session, token>>
       ELSE ClientFails(IF cipher["clt"] = cipher["svr"] /\ ~compareVersion(conf.ver)
                        THEN "exit" ELSE "failed")
    /\ UNCHANGED faults

\* The second half: parameters and tokens, or AUTH_FAILED.
ClientFinish ==
    /\ cpc = "m5" /\ s2c /= <<>>
    /\ ClientFails(IF Head(s2c) = "ok" THEN "up" ELSE "failed")
    /\ UNCHANGED faults

\* The stream has ended for the client: closed or reset.
IsClosedError == ~Connected \/ (~SvrOpen /\ s2c \in {<<>>, <<"efb">>})

\* A read of the client fails.  If it is the first one, feedback and a closed
\* connection end the process, and so does a deadline that strikes inside the
\* message (parseErrorFeedback); another deadline does not.
ClientReadFails ==
    /\ cpc \in CltWaits
    /\ \/ /\ IsClosedError
          /\ ClientFails(IF cpc = "m2" THEN "exit" ELSE "failed")
          /\ UNCHANGED faults
       \/ /\ \E how \in IF cpc = "m2" /\ s2c /= <<>> THEN {"failed", "exit"} ELSE {"failed"} :
               ClientFails(how)
          /\ Fault("late")

-----------------------------------------------------------------------------
(* The server: TunnelServe and d5sman *)

\* TunnelServe loads the pool before anything is read.
TunnelServe ==
    /\ spc = "accepted"
    /\ spc' = "hello" /\ snap' = tcPool
    /\ faults' = IF tcPool /= now THEN faults \cup {"lag"} ELSE faults
    /\ UNCHANGED <<conf, mode, now, tcPool, cpc, hello, randLen, dbcHello, c2s, sock, s2c,
                   factory, cipher, session, token>>

\* TunnelServe on an error: the connection is closed, and a session that was
\* made already loses its tokens.
Reject(units) ==
    /\ spc' = "closed"
    /\ ToClient(units)
    /\ session' = IF mode = "new" /\ session /= "none" THEN "cleared" ELSE session
    /\ UNCHANGED <<conf, mode, now, tcPool, cpc, connVars, c2s, factory, cipher, token>>

\* The type says what follows the header; a connection of another type is closed
\* like one of a prober, before there is a session.
Dispatch ==
    LET stype == typeOf(hello, conf.sKey)
    IN  spc' = CASE stype = TYPE_NEW -> "dh" [] stype = TYPE_RES -> "token"
                 [] OTHER -> "closed"

\* Mutant of Accept: the tail is taken for the hello even if it is empty.
AcceptTail(len2) ==
    /\ dbcHello' = [dbcHello EXCEPT !["svr"] = <<"tail", len2>>]
    /\ IF len2 > 0 THEN spc' = "part2" ELSE Dispatch

\* Connect behind a trusted header.
Accept(len2) ==
    /\ dbcHello' = [dbcHello EXCEPT !["svr"] = HelloPart(hello, len2)]
    /\ IF len2 > 0 THEN spc' = "part2" ELSE Dispatch

sendErrorFeedback == IF conf.efb THEN <<"efb">> ELSE <<>>

\* Connect: one Read for the header.  Half of it is taken for a probe.
ServerHello ==
    /\ spc = "hello" /\ sock /= <<>>
    /\ IF Len(sock) = 1
       THEN /\ sock' = <<>>
            /\ Fault("split") /\ Reject(<<>>)
       ELSE /\ sock' = Tail(Tail(sock))
            /\ UNCHANGED faults
            /\ IF trusted(hello, "right", calculateTimeCounter(snap))
               THEN /\ Accept(len2Of(hello, conf.sKey))
                    /\ UNCHANGED <<conf, mode, now, tcPool, cpc, snap, hello, randLen, c2s,
                                   s2c, factory, cipher, session, token>>
               ELSE Reject(sendErrorFeedback)

\* The tail is read in full.
ServerPart2 ==
    /\ spc = "part2" /\ ReadFullByLen(sock, "p2")
    /\ sock' = Tail(sock)
    /\ Dispatch
    /\ UNCHANGED <<conf, mode, now, tcPool, cpc, connVars, c2s, s2c, factory, cipher,
                   session, token, faults>>

\* RSA signs nothing but a hash of the right length, which the public key is
\* not: DSASign throws.
DSASign(algo) == algo /= "RSA"

\* finishDHExchange, then NewSession.
ServerDH ==
    /\ spc = "dh" /\ ReadFullByLen(sock, "dh")
    /\ sock' = Tail(sock)
    /\ IF DSASign(conf.algo)
       THEN /\ LET cf == NewCipherFactory("same", "dh", dbcHello["svr"])
               IN  factory' = [factory EXCEPT !["svr"] = cf] /\ SetupCipher("svr", cf, "sRand")
            /\ ToClient(<<"m2", "m3">>)
            /\ session' = "made" /\ spc' = "auth"
            /\ UNCHANGED <<conf, mode, now, tcPool, cpc, connVars, c2s, token>>
       ELSE Reject(<<>>)
    /\ UNCHANGED faults

\* Two fields.
deserializeIdentity(cred) == cred /= "malformed"

\* Mutant of Authenticate: whoever names an account is let in.
AuthenticateAll(cred) == TRUE

\* The account is in the file, with this password.
Authenticate(cred) == cred = "good"

\* authenticate: the hash of the server's random proves the key.
ServerAuth ==
    /\ spc = "auth" /\ ReadFullByLen(sock, "auth")
    /\ sock' = Tail(sock)
    /\ IF /\ cipher["clt"] = cipher["svr"]
          /\ deserializeIdentity(conf.cred) /\ Authenticate(conf.cred)
       THEN /\ session' = "live" /\ spc' = "serving"
            /\ ToClient(<<"ok">>)
            /\ UNCHANGED <<conf, mode, now, tcPool, cpc, connVars, c2s, factory, cipher, token>>
       ELSE Reject(IF conf.cred = "wrong" THEN <<"no">> ELSE <<>>)
    /\ UNCHANGED faults

\* resumeSession: one Read for the token, which is taken.
ServerResume ==
    /\ spc = "token" /\ sock /= <<>>
    /\ sock' = <<>>
    /\ IF Len(sock) = 2 /\ token = "fresh"
       THEN /\ SetupCipher("svr", factory["svr"], "token")
            /\ token' = "used" /\ spc' = "serving"
            /\ UNCHANGED <<conf, mode, now, tcPool, cpc, connVars, c2s, s2c, factory, session,
                           faults>>
       ELSE /\ Reject(<<>>)
            /\ faults' = IF Len(sock) = 1 THEN faults \cup {"split"} ELSE faults

\* Mutant of ServerReadFails: the reads behind the hello have no deadline.
ServerReadFailsHello ==
    /\ spc = "hello" /\ Fault("late") /\ Reject(<<>>) /\ UNCHANGED sock

\* A read of the server fails.
ServerReadFails ==
    /\ spc \in SvrWaits
    /\ IF Connected /\ CltOpen THEN Fault("late") ELSE UNCHANGED faults
    /\ Reject(<<>>)
    /\ UNCHANGED sock

\* A write fails on the broken connection: no answer was delivered.
ServerWriteFails ==
    /\ ~Connected /\ spc \in {"dh", "auth"} /\ sock /= <<>>
    /\ Reject(<<>>)
    /\ UNCHANGED <<sock, faults>>

-----------------------------------------------------------------------------
(* The world *)

Arrive ==
    /\ c2s /= <<>> /\ SvrOpen
    /\ sock' = Append(sock, Head(c2s)) /\ c2s' = Tail(c2s)
    /\ UNCHANGED <<conf, mode, now, tcPool, cpc, spc, connVars, s2c, factory, cipher, session,
                   token, faults>>

\* The connection breaks.
Cut ==
    /\ Connected /\ (cpc \notin CltDone \/ spc \notin SvrDone)
    /\ Fault("cut")
    /\ c2s' = <<>> /\ s2c' = <<>>
    /\ UNCHANGED <<conf, mode, now, tcPool, cpc, spc, connVars, sock, factory, cipher, session,
                   token>>

\* A minute begins; the ticker has made the last one's pool by then.  If it
\* begins between the loading of the pool and the making of the hello, the two
\* are one further apart.
Minute ==
    /\ now < MaxMinute /\ tcPool = now
    /\ now' = now + 1
    /\ faults' = IF (cpc = "dialed") /= (spc = "accepted") THEN faults \cup {"crossed"} ELSE faults
    /\ UNCHANGED <<conf, mode, tcPool, cpc, spc, connVars, c2s, sock, s2c, factory, cipher,
                   session, token>>

\* Mutant of updateNow: the pool is made for the minute to come.
updateNowNext ==
    /\ tcPool < now
    /\ tcPool' = now + 1
    /\ UNCHANGED <<conf, mode, now, cpc, spc, connVars, c2s, sock, s2c, factory, cipher, session,
                   token, faults>>

\* updateTimeCounterWorker.
updateNow ==
    /\ tcPool < now
    /\ tcPool' = now
    /\ UNCHANGED <<conf, mode, now, cpc, spc, connVars, c2s, sock, s2c, factory, cipher, session,
                   token, faults>>

\* The client opens a second connection with a token, which may have been used
\* before.
Resume ==
    /\ mode = "new" /\ cpc = "up" /\ spc = "serving" /\ faults = {}
    /\ mode' = "res" /\ cpc' = "dialed" /\ spc' = "accepted"
    /\ token' \in {"fresh", "used"}
    /\ c2s' = <<>> /\ sock' = <<>> /\ s2c' = <<>>
    /\ cipher' = NoKeys /\ dbcHello' = NoKeys /\ hello' = <<>>
    /\ UNCHANGED <<conf, now, tcPool, snap, randLen, factory, session, faults>>

Client == \/ requestDHExchange \/ ResumeSession \/ ClientKey
          \/ ClientValidate \/ ClientFinish \/ ClientReadFails
Server == \/ TunnelServe \/ ServerHello \/ ServerPart2 \/ ServerDH \/ ServerAuth
          \/ ServerResume \/ ServerReadFails \/ ServerWriteFails
Next == Client \/ Server \/ Arrive \/ Cut \/ Minute \/ updateNow \/ Resume

Spec == Init /\ [][Next]_vars
\* Both goroutines run, and every read of the handshake has a deadline.
FairSpec == Spec /\ WF_vars(Client) /\ WF_vars(Server)

-----------------------------------------------------------------------------
TypeOK ==
    /\ conf \in Confs /\ mode \in {"new", "res"}
    /\ now \in 0..MaxMinute /\ tcPool \in {now - 1, now}
    /\ cpc \in CltWaits \cup CltDone \cup {"dialed"}
    /\ spc \in SvrWaits \cup SvrDone \cup {"accepted"}
    /\ Len(c2s) <= 5 /\ Len(sock) <= 5 /\ Len(s2c) <= 3
    /\ session \in {"none", "made", "live", "cleared"}
    /\ token \in {"none", "fresh", "used"}
    /\ faults \subseteq {"cut", "late", "split", "lag", "crossed"}

\* Two ends that use a connection agree: an end serves a session only for the
\* right account and a header of the right key and minute, the client is logged
\* in only if the server holds the session's tokens, and both have the same
\* cipher, on the first connection and on a resumed one.
LoginAgreed ==
    /\ spc = "serving" =>
         /\ conf.cred = "good" /\ session = "live"
         /\ trusted(hello, "right", calculateTimeCounter(snap))
         /\ cipher["svr"] = cipher["clt"]
    /\ cpc = "up" /\ mode = "new" => spc = "serving"

\* How far apart the clocks may be: a pool that is a minute late refuses a
\* client that is a minute early.
InStep == conf.skew \in IF "lag" \in faults THEN {-1, 0} ELSE {-1, 0, 1}
Sound == conf.secret = "right" /\ conf.algo = "ECC" /\ conf.cipher = "same"
         /\ conf.cred = "good" /\ conf.ver = "known" /\ InStep

\* Nobody is turned away without a reason: with matching configurations, the
\* clocks in step and no fault of the network, neither end gives the handshake
\* up, whatever the length of the random tail and the masking key.
NoGoodRefused ==
    Sound /\ faults \subseteq {"lag"} =>
        /\ CltOpen
        /\ spc = "closed" => mode = "res" /\ token = "used"

\* The handshake ends on both sides whatever the other side or the network
\* does.
HandshakeEnds == <>[](cpc \in CltDone /\ spc \in SvrDone)
=============================================================================
