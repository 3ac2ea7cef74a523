-------------------------------- MODULE Geo --------------------------------
(***************************************************************************)
(* The destination filter of the server (src/geo): a routing table of      *)
(* networks, each with its country, is made into a level-compressed trie,  *)
(* and an address is looked up in it.  One action is one iteration of a    *)
(* loop of the code.                                                       *)
(*                                                                         *)
(* A number is the function of its bits, the most significant first, and   *)
(* an address has W of them instead of 32.  Every network is its own next  *)
(* hop, so a lookup that ends at a wrong one is always seen.  A node of    *)
(* the trie is a record instead of a packed word; its position adr + bitpat*)
(* is the pair <<adr, bitpat>>, adr the number of a block of 1 << branch   *)
(* nodes.  Arrays begin at 1.                                              *)
(***************************************************************************)
EXTENDS Integers, Sequences, FiniteSets, FiniteSetsExt

CONSTANTS W,            \* ADRSIZE
          ROOTBRANCH,   \* the branching factor at the root
          MaxNets       \* bound: the size of the table

ASSUME GeoAssumption == W \in Nat \ {0} /\ ROOTBRANCH \in 0..W /\ MaxNets \in Nat

Bits(n) == [0..n - 1 -> {0, 1}]
Addr    == Bits(W)
NoAddr  == <<>>     \* a host that resolves to no IPv4 address
NOPRE   == 0

\* a < b for numbers of the same width.
Below(a, b) == \E k \in DOMAIN a : a[k] < b[k] /\ \A i \in 0..k - 1 : a[i] = b[i]

\* Extract n bits from str starting at position p; zeros are shifted in.
EXTRACT(p, n, str) == [i \in 0..n - 1 |-> IF p + i \in DOMAIN str THEN str[p + i] ELSE 0]

\* The networks: their host bits are clear, as in the country database.
Net == {e \in [data : Addr, len : 0..W] : \A i \in 0..W - 1 : i >= e.len => e.data[i] = 0}

pstrcmp(a, b) == Below(a.data, b.data) \/ (a.data = b.data /\ a.len < b.len)

\* The first n bits of two strings are the same.
Same(n, a, b) == EXTRACT(0, n, a) = EXTRACT(0, n, b)

isprefix(prev, next) == prev.len <= next.len /\ Same(prev.len, prev.data, next.data)

VARIABLES
    entries,       \* the table, sorted and without duplicates
    i, ptr,        \* the next entry to put into base or pre, the entries' pre
    base, pre,     \* the arrays of the table
    trie,          \* its nodes
    nextfree,      \* the first block that has not been reserved
    args, calls,   \* the arguments of the call of buildTrie for a position;
                   \* the positions whose call is still to be made
    cur, p, todo,  \* the loop over the subtrees of cur: the next string, and
                   \* the bit patterns from bitpat on
    pc,            \* control state
    host, at, pos, preadr,   \* Find
    deny           \* the countries for which the filter denies the host

tableVars == <<entries, i, ptr, base, pre>>
trieVars  == <<trie, nextfree, args, calls, cur, p, todo>>
findVars  == <<host, at, pos, preadr, deny>>
geoVars   == <<tableVars, trieVars, pc, findVars>>

Size == Len(entries)
Root == <<0, <<>>>>

\* The function f with the value v on S.
Put(f, S, v) == [q \in DOMAIN f \cup S |-> IF q \in S THEN v ELSE f[q]]

Node(branch, skip, adr)  == [branch |-> branch, skip |-> skip, adr |-> adr]
Args(prefix, first, n)   == [prefix |-> prefix, first |-> first, n |-> n]

GeoInit ==
    /\ entries = <<>> /\ i = 1 /\ ptr = <<>> /\ base = <<>> /\ pre = <<>>
    /\ trie = [q \in {} |-> 0] /\ nextfree = 1
    /\ args = [q \in {} |-> 0] /\ calls = {} /\ cur = Root /\ p = 1 /\ todo = {}
    /\ pc = "sort"
    /\ host = NoAddr /\ at = Root /\ pos = 0 /\ preadr = NOPRE /\ deny = {}

-----------------------------------------------------------------------------
(* buildRoutingTable *)

\* The entries in sorted order, without duplicates.
Sort(e) ==
    /\ pc = "sort" /\ Size < MaxNets
    /\ Size > 0 => pstrcmp(entries[Size], e)
    /\ entries' = Append(entries, e)
    /\ UNCHANGED <<i, ptr, base, pre, trieVars, pc, findVars>>

\* Initialize the pre-pointers.  The database is never empty: computeBranch would
\* index base[0] of no entries.
Sorted ==
    /\ pc = "sort" /\ Size > 0
    /\ ptr' = [j \in 1..Size |-> NOPRE] /\ pc' = "split"
    /\ UNCHANGED <<entries, i, base, pre, trieVars, findVars>>

\* Mutant of Update: the pointers go to the place behind the new prefix.
UpdateNext ==
    ptr' = [j \in 1..Size |-> IF j > i /\ \A k \in i + 1..j : isprefix(entries[i], entries[k])
                              THEN Len(pre) + 2 ELSE ptr[j]]

\* Update `pre' for all entries that have this prefix.
Update ==
    ptr' = [j \in 1..Size |-> IF j > i /\ \A k \in i + 1..j : isprefix(entries[i], entries[k])
                              THEN Len(pre) + 1 ELSE ptr[j]]

\* A network that is a prefix of the next one goes to pre, any other to base.
Split ==
    /\ pc = "split" /\ i <= Size
    /\ IF i < Size /\ isprefix(entries[i], entries[i + 1])
       THEN /\ pre' = Append(pre, [net |-> entries[i], pre |-> ptr[i]])
            /\ Update
            /\ UNCHANGED base
       ELSE /\ base' = Append(base, [net |-> entries[i], pre |-> ptr[i]])
            /\ UNCHANGED <<pre, ptr>>
    /\ i' = i + 1
    /\ UNCHANGED <<entries, trieVars, pc, findVars>>

\* The first call of buildTrie.
SplitDone ==
    /\ pc = "split" /\ i > Size
    /\ pc' = "build"
    /\ args' = Put(args, {Root}, Args(0, 1, Len(base))) /\ calls' = {Root}
    /\ UNCHANGED <<tableVars, trie, nextfree, cur, p, todo, findVars>>

-----------------------------------------------------------------------------
(* computeBranch: how many bits to skip and to branch on *)

Str(k) == base[k].net.data

\* The first bit from prefix on in which the first and the last string differ.
newPrefix(a) == Min({j \in a.prefix..W - 1 : Str(a.first)[j] /= Str(a.first + a.n - 1)[j]})

\* The loop over b ends: too few strings, no bits left, or less than FILLFACT
\* (a half) of the 2^b patterns occur.
Fill(a, newprefix, b) ==
    \/ a.n < 2^(b - 1)
    \/ newprefix + b > W
    \/ Cardinality({EXTRACT(newprefix, b, Str(k)) : k \in a.first..a.first + a.n - 1}) < 2^(b - 1)

computeBranch(a) ==
    IF a.n = 2 THEN 1
    ELSE IF ROOTBRANCH > 0 /\ a.prefix = 0 /\ a.first = 1 THEN ROOTBRANCH
    ELSE Min({b \in 2..W + 1 : Fill(a, newPrefix(a), b)}) - 1

-----------------------------------------------------------------------------
(* buildTrie *)

\* n = 1: the nodes S all point to string k.
Leaves(S, k) == trie' = Put(trie, S, Node(0, 0, k))

\* A call.  The loop over the subtrees makes further calls; one for a single
\* string is made at once, the others wait in calls: each writes nodes of its
\* own, so their order does not matter.
Call(q) ==
    /\ pc = "build" /\ todo = {} /\ q \in calls
    /\ calls' = calls \ {q}
    /\ IF args[q].n = 1
       THEN /\ Leaves({q}, args[q].first)
            /\ UNCHANGED <<nextfree, cur, p, todo>>
       ELSE /\ trie' = Put(trie, {q}, Node(computeBranch(args[q]),
                                           newPrefix(args[q]) - args[q].prefix, nextfree))
            /\ nextfree' = nextfree + 1
            /\ cur' = q /\ p' = args[q].first /\ todo' = Bits(computeBranch(args[q]))
    /\ UNCHANGED <<tableVars, args, pc, findVars>>

\* The variables of the loop.
newprefix == args[cur].prefix + trie[cur].skip
branch    == trie[cur].branch
last      == args[cur].first + args[cur].n

\* bitpat is the next pattern, and exactly k strings from p on have it.
Iteration(bitpat, k) ==
    /\ pc = "build" /\ bitpat \in todo /\ p + k <= last
    /\ \A b \in todo : b = bitpat \/ Below(bitpat, b)
    /\ \A j \in p..p + k - 1 : EXTRACT(newprefix, branch, Str(j)) = bitpat
    /\ p + k < last => EXTRACT(newprefix, branch, Str(p + k)) /= bitpat
    /\ p' = p + k
    /\ UNCHANGED <<tableVars, nextfree, cur, pc, findVars>>

Children(S) == {<<trie[cur].adr, b>> : b \in S}

\* The calls for the patterns S, with n strings from first on.
SubCalls(S, first, n) ==
    /\ todo' = todo \ S
    /\ args' = Put(args, Children(S), Args(newprefix + branch, first, n))
    /\ IF n = 1 THEN Leaves(Children(S), first) /\ UNCHANGED calls
       ELSE calls' = calls \cup Children(S) /\ UNCHANGED trie

\* The prefixes reached from c by the pointers pre: those that are in every
\* set which holds c and the pointer of each of its members.
Chain(c) ==
    {d \in DOMAIN pre : \A S \in SUBSET DOMAIN pre :
       ({c} \cup {pre[x].pre : x \in S}) \subseteq S \cup {NOPRE} => d \in S}

\* Mutant of Match: the prefixes of the strings next to a gap do not count.
NoMatch(k, bitpat) == 0

\* The length of the longest prefix of string k, longer than newprefix, that
\* bitpat has too; 0 without one.
Match(k, bitpat) ==
    Max({0} \cup {pre[c].net.len : c \in {d \in Chain(base[k].pre) :
        LET n == pre[d].net.len - newprefix
        IN  n > 0 /\ EXTRACT(newprefix, n, Str(k)) = EXTRACT(0, n, bitpat)}})

\* No string has the pattern: its leaf is p - 1 or p, whichever has the longer
\* matching prefix.
Gap(bitpat) ==
    /\ Iteration(bitpat, 0)
    /\ LET first  == args[cur].first
           match1 == IF p > first THEN Match(p - 1, bitpat) ELSE 0
           match2 == IF p < last THEN Match(p, bitpat) ELSE 0
       IN  SubCalls({bitpat},
                    IF (match1 > match2 /\ p > first) \/ p = last THEN p - 1 ELSE p, 1)

\* uint32(base[p].len) - newprefix < branch.
Short(k) == base[k].net.len - newprefix \in 0..branch - 1

\* One string, shorter than the bits to branch on: it has all the patterns that
\* continue it, and bitpat, with its host bits clear, is the first of them.
Widen(bitpat) ==
    /\ Iteration(bitpat, 1) /\ Short(p)
    /\ SubCalls({b \in Bits(branch) : Same(base[p].net.len - newprefix, b, bitpat)}, p, 1)

Subtree(bitpat, k) ==
    /\ Iteration(bitpat, k) /\ k > 0 /\ ~(k = 1 /\ Short(p))
    /\ SubCalls({bitpat}, p, k)

BuildDone ==
    /\ pc = "build" /\ todo = {} /\ calls = {}
    /\ pc' = "ready"
    /\ UNCHANGED <<tableVars, trieVars, findVars>>

-----------------------------------------------------------------------------
(* Filter and Find *)

\* connectToDest asks Filter, which looks the host up unless it has no IPv4
\* address.
Ask(h) ==
    /\ pc = "ready"
    /\ host' = h /\ at' = Root /\ pos' = trie[Root].skip /\ preadr' = NOPRE
    /\ deny' = {}
    /\ pc' = IF h = NoAddr THEN "done" ELSE "find"
    /\ UNCHANGED <<tableVars, trieVars>>

Traverse ==
    /\ pc = "find" /\ trie[at].branch /= 0
    /\ at' = <<trie[at].adr, EXTRACT(pos, trie[at].branch, host)>>
    /\ pos' = pos + trie[at].branch + trie[at'].skip
    /\ UNCHANGED <<tableVars, trieVars, pc, host, preadr, deny>>

Found(net) == pc' = "done" /\ deny' = {net} /\ UNCHANGED preadr

\* At a leaf: was this a hit?
Hit ==
    /\ pc = "find" /\ trie[at].branch = 0
    /\ LET b == base[trie[at].adr]
       IN  IF Same(b.net.len, b.net.data, host) THEN Found(b.net)
           ELSE pc' = "prefix" /\ preadr' = b.pre /\ UNCHANGED deny
    /\ UNCHANGED <<tableVars, trieVars, host, at, pos>>

\* If not, look in the prefix tree.
LookInPrefixes ==
    /\ pc = "prefix"
    /\ IF preadr = NOPRE THEN pc' = "done" /\ UNCHANGED <<preadr, deny>>
       ELSE IF Same(pre[preadr].net.len, Str(trie[at].adr), host) THEN Found(pre[preadr].net)
       ELSE preadr' = pre[preadr].pre /\ UNCHANGED <<pc, deny>>
    /\ UNCHANGED <<tableVars, trieVars, host, at, pos>>

\* connectToDest has its answer.
Return ==
    /\ pc = "done"
    /\ pc' = "ready" /\ host' = NoAddr /\ at' = Root /\ pos' = 0 /\ preadr' = NOPRE /\ deny' = {}
    /\ UNCHANGED <<tableVars, trieVars>>

-----------------------------------------------------------------------------
Build   == \/ (\E e \in Net : Sort(e)) \/ Sorted \/ Split \/ SplitDone
           \/ \E q \in calls : Call(q)
           \/ \E b \in todo : Gap(b) \/ Widen(b) \/ \E k \in 1..last - p : Subtree(b, k)
           \/ BuildDone
Find    == Traverse \/ Hit \/ LookInPrefixes
GeoNext == Build \/ Find \/ (\E h \in Addr \cup {NoAddr} : Ask(h)) \/ Return

GeoSpec == GeoInit /\ [][GeoNext]_geoVars

-----------------------------------------------------------------------------
GeoTypeOK ==
    /\ entries \in Seq(Net) /\ i \in 1..Size + 1 /\ ptr \in Seq(0..Len(pre))
    /\ base \in Seq([net : Net, pre : 0..Len(pre)]) /\ pre \in Seq([net : Net, pre : 0..Len(pre)])
    /\ nextfree \in Nat \ {0} /\ trie \in [DOMAIN trie -> [branch : Nat, skip : Nat, adr : Nat]]
    /\ args \in [DOMAIN args -> [prefix : Nat, first : 1..Len(base), n : 1..Len(base)]]
    /\ DOMAIN args = DOMAIN trie \cup calls /\ calls \cap DOMAIN trie = {}
    /\ pc \in {"sort", "split", "build", "ready", "find", "prefix", "done"}
    /\ host \in Addr \cup {NoAddr} /\ pos \in Nat /\ preadr \in 0..Len(pre) /\ deny \subseteq Net
    /\ pc \notin {"sort", "split", "build"} => at \in DOMAIN trie

\* The networks that contain s, the longest of them.
Covering(s) == {e \in Range(entries) : Same(e.len, e.data, s)}
LongestMatch(s) == {e \in Covering(s) : \A f \in Covering(s) : f.len <= e.len}

\* The filter denies a host exactly when the most specific network of its table
\* that contains the address belongs to the denied country, however the trie
\* was levelled and compressed.
FilterExact ==
    pc = "done" => deny = IF host = NoAddr THEN {} ELSE LongestMatch(host)
=============================================================================
