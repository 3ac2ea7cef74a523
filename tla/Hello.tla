------------------------------- MODULE Hello -------------------------------
(***************************************************************************)
(* The obfuscated header of a tunnel connection (makeDbcHello and          *)
(* verifyDbcHello in src/tunnel/d5.go): what it carries and when it is     *)
(* trusted.  The keyed hash over the header and the minute is taken to be  *)
(* collision free, so comparing it is comparing its inputs.                *)
(***************************************************************************)
EXTENDS Integers

DPH_LEN1   == 256
DPH_MOD    == 65536
TIME_ERROR == 1
TYPE_NEW   == 251
TYPE_RES   == 241

Byte   == 0..DPH_LEN1 - 1
Uint16 == 0..DPH_MOD - 1

\* The two bytes that hide the length of the random tail and the type.
encode(randLen, data, sKey) == (randLen * DPH_LEN1 + data + sKey) % DPH_MOD

decode(z, sKey) == (z - sKey + DPH_MOD) % DPH_MOD

makeDbcHello(data, randLen, sKey, secret, minute) ==
    [f |-> encode(randLen, data, sKey), secret |-> secret, minute |-> minute]

\* calculateTimeCounter(true): the minute, the one before, the one after, ...
calculateTimeCounter(minute) ==
    {minute + ((i + 1) \div 2) * (IF i % 2 = 1 THEN -1 ELSE 1) : i \in 0..2 * TIME_ERROR}

\* The type and the length of the tail if the header is trusted.
trusted(h, secret, tc) == h.secret = secret /\ h.minute \in tc
typeOf(h, sKey) == decode(h.f, sKey) % DPH_LEN1
len2Of(h, sKey) == decode(h.f, sKey) \div DPH_LEN1
=============================================================================
