----------------------------- MODULE GeoProofs -----------------------------
(***************************************************************************)
(* Proofs about Geo for every address width, branching factor at the root  *)
(* and table of networks.                                                  *)
(*                                                                         *)
(* The argument follows the code.  Sorting puts the networks that share a  *)
(* prefix next to each other, so the loop of buildRoutingTable finds by    *)
(* one comparison whether somebody has an entry as a prefix (SplitInv);    *)
(* no string of base is then a prefix of another, and the pointers reach   *)
(* all the other entries (Table, ChainHolds).  Every node of the trie      *)
(* stands for a range of base, and the child for a bit pattern covers      *)
(* every entry that admits the pattern (TrieInv, Covers).  So a lookup     *)
(* always has below it, or at the end of its pointers, every entry that    *)
(* contains the host (FindInv).                                            *)
(***************************************************************************)
EXTENDS Geo, TLAPS, WellFoundedInduction

-----------------------------------------------------------------------------
(* Numbers *)

\* The least-number principle, for a set.
LEMMA Least ==
    ASSUME NEW T, T \subseteq Nat, T /= {}
    PROVE  \E x \in T : \A y \in T : x <= y
<1>1. IsWellFoundedOn(OpToRel(<, Nat), Nat)
  BY NatLessThanWellFounded, Zenon
<1>2. PICK x \in T : \A y \in T : ~(<<y, x>> \in OpToRel(<, Nat))
  BY <1>1, WFMin, Zenon
<1>3. \A y \in T : ~(y < x)
  BY <1>2 DEF OpToRel
<1> QED  BY <1>3

\* A bounded set of numbers has a greatest one.
LEMMA Greatest ==
    ASSUME NEW M \in Nat, NEW T, T \subseteq 0..M, T /= {}
    PROVE  \E x \in T : \A y \in T : y <= x
<1> DEFINE U == {m \in Nat : \A y \in T : y <= m}
<1>1. U \subseteq Nat /\ M \in U
  OBVIOUS
<1>2. PICK u \in U : \A v \in U : u <= v
  BY <1>1, Least
<1>3. u \in T
  <2> SUFFICES ASSUME u \notin T PROVE FALSE
    OBVIOUS
  <2>1. \A y \in T : y < u
    BY <1>2
  <2>2. PICK y \in T : TRUE
    OBVIOUS
  <2>3. u - 1 \in U
    BY <2>1, <2>2, <1>2
  <2> QED  BY <1>2, <2>3
<1> QED  BY <1>2, <1>3

\* What Min returns.
LEMMA MinIs ==
    ASSUME NEW T, T \subseteq Nat, T /= {}
    PROVE  Min(T) \in T /\ \A y \in T : Min(T) <= y
BY Least DEF Min

\* What Max returns.
LEMMA MaxIs ==
    ASSUME NEW M \in Nat, NEW T, T \subseteq 0..M, T /= {}
    PROVE  Max(T) \in T /\ \A y \in T : y <= Max(T)
<1>1. \E x \in T : \A y \in T : x >= y
  BY Greatest
<1> QED  BY <1>1 DEF Max

-----------------------------------------------------------------------------
(* Bit strings *)

Agree(n, a, b) == \A j \in 0..n - 1 : a[j] = b[j]

\* Same compares the bits one by one.
LEMMA SameBits ==
    ASSUME NEW M \in Nat, NEW a \in Bits(M), NEW b \in Bits(M), NEW n \in 0..M
    PROVE  Same(n, a, b) <=> Agree(n, a, b)
BY DEF Same, EXTRACT, Agree, Bits

\* Between two strings with a common beginning are only strings that have it.
LEMMA Sandwich ==
    ASSUME NEW M \in Nat, NEW a \in Bits(M), NEW b \in Bits(M), NEW c \in Bits(M),
           NEW n \in 0..M, a = b \/ Below(a, b), b = c \/ Below(b, c), Agree(n, a, c)
    PROVE  Agree(n, a, b)
<1>1. CASE Below(a, b) /\ Below(b, c)
  <2>1. PICK k \in 0..M - 1 : a[k] < b[k] /\ \A j \in 0..k - 1 : a[j] = b[j]
    BY <1>1 DEF Below, Bits
  <2>2. PICK m \in 0..M - 1 : b[m] < c[m] /\ \A j \in 0..m - 1 : b[j] = c[j]
    BY <1>1 DEF Below, Bits
  <2>3. a[k] \in Int /\ b[k] \in Int /\ c[k] \in Int /\ a[m] \in Int /\ b[m] \in Int /\ c[m] \in Int
    BY DEF Bits
  <2>4. k >= n
    <3> SUFFICES ASSUME k < n PROVE FALSE
      OBVIOUS
    <3>1. a[k] = c[k]
      BY DEF Agree
    <3>2. CASE k <= m
      BY <2>1, <2>2, <2>3, <3>1, <3>2
    <3>3. CASE m < k
      BY <2>1, <2>2, <2>3, <3>3 DEF Agree
    <3> QED  BY <3>2, <3>3
  <2> QED  BY <2>1, <2>4 DEF Agree
<1>2. CASE a = b
  BY <1>2 DEF Agree
<1>3. CASE b = c
  BY <1>3
<1> QED  BY <1>1, <1>2, <1>3

\* The order of numbers is transitive.
LEMMA BelowTrans ==
    ASSUME NEW M \in Nat, NEW a \in Bits(M), NEW b \in Bits(M), NEW c \in Bits(M),
           Below(a, b), Below(b, c)
    PROVE  Below(a, c)
<1>1. PICK k \in 0..M - 1 : a[k] < b[k] /\ \A j \in 0..k - 1 : a[j] = b[j]
  BY DEF Below, Bits
<1>2. PICK m \in 0..M - 1 : b[m] < c[m] /\ \A j \in 0..m - 1 : b[j] = c[j]
  BY DEF Below, Bits
<1>3. a[k] \in Int /\ b[k] \in Int /\ c[k] \in Int /\ a[m] \in Int /\ b[m] \in Int /\ c[m] \in Int
  BY DEF Bits
<1>4. DOMAIN a = 0..M - 1
  BY DEF Bits
<1>5. CASE k <= m
  <2>1. a[k] < c[k] /\ \A j \in 0..k - 1 : a[j] = c[j]
    BY <1>1, <1>2, <1>3, <1>5
  <2> QED  BY <1>4, <2>1 DEF Below
<1>6. CASE m < k
  <2>1. a[m] < c[m] /\ \A j \in 0..m - 1 : a[j] = c[j]
    BY <1>1, <1>2, <1>3, <1>6
  <2> QED  BY <1>4, <2>1 DEF Below
<1> QED  BY <1>5, <1>6

\* No number is below itself.
LEMMA BelowIrreflexive ==
    ASSUME NEW M \in Nat, NEW a \in Bits(M)
    PROVE  ~Below(a, a)
<1>1. \A k \in DOMAIN a : a[k] \in Int
  BY DEF Bits
<1> QED  BY <1>1 DEF Below

-----------------------------------------------------------------------------
(* Networks *)

\* The parts of a network.
LEMMA NetBits ==
    ASSUME NEW a \in Net
    PROVE  /\ a.data \in Bits(W) /\ a.len \in 0..W /\ a = [data |-> a.data, len |-> a.len]
           /\ \A j \in 0..W - 1 : j >= a.len => a.data[j] = 0
BY DEF Net, Addr

\* isprefix compares the bits one by one.
LEMMA PrefixBits ==
    ASSUME NEW a \in Net, NEW b \in Net
    PROVE  isprefix(a, b) <=> a.len <= b.len /\ Agree(a.len, a.data, b.data)
<1>1. W \in Nat /\ a.data \in Bits(W) /\ b.data \in Bits(W) /\ a.len \in 0..W
  BY NetBits, GeoAssumption
<1>2. Same(a.len, a.data, b.data) <=> Agree(a.len, a.data, b.data)
  BY <1>1, SameBits
<1> QED  BY <1>2 DEF isprefix

\* Being a prefix is transitive.
LEMMA PrefixTrans ==
    ASSUME NEW a \in Net, NEW b \in Net, NEW c \in Net, isprefix(a, b), isprefix(b, c)
    PROVE  isprefix(a, c)
<1>1. a.len \in Int /\ b.len \in Int /\ c.len \in Int
  BY NetBits, GeoAssumption
<1>2. /\ a.len <= b.len /\ Agree(a.len, a.data, b.data)
      /\ b.len <= c.len /\ Agree(b.len, b.data, c.data)
  BY PrefixBits
<1>3. a.len <= c.len /\ Agree(a.len, a.data, c.data)
  BY <1>1, <1>2 DEF Agree
<1> QED  BY <1>3, PrefixBits

\* Of two prefixes of a network one is a prefix of the other.
LEMMA PrefixNested ==
    ASSUME NEW a \in Net, NEW b \in Net, NEW c \in Net, isprefix(a, c), isprefix(b, c),
           a.len <= b.len
    PROVE  isprefix(a, b)
<1>1. a.len \in Int /\ b.len \in Int
  BY NetBits, GeoAssumption
<1>2. Agree(a.len, a.data, c.data) /\ Agree(b.len, b.data, c.data)
  BY PrefixBits
<1>3. Agree(a.len, a.data, b.data)
  BY <1>1, <1>2 DEF Agree
<1> QED  BY <1>3, PrefixBits

\* A network is a prefix of itself.
LEMMA PrefixSelf ==
    ASSUME NEW a \in Net
    PROVE  isprefix(a, a)
<1>1. a.len \in Int
  BY NetBits, GeoAssumption
<1> QED  BY <1>1, PrefixBits DEF Agree

\* Host bits are clear, so a prefix as long as the network is the network.
LEMMA PrefixSame ==
    ASSUME NEW a \in Net, NEW b \in Net, isprefix(a, b), b.len <= a.len
    PROVE  a = b
<1>1. /\ a.len \in 0..W /\ b.len \in 0..W /\ W \in Nat
      /\ a.data \in [0..W - 1 -> {0, 1}] /\ b.data \in [0..W - 1 -> {0, 1}]
  BY NetBits, GeoAssumption DEF Bits
<1>2. a.len = b.len /\ Agree(a.len, a.data, b.data)
  BY <1>1, PrefixBits
<1>3. \A j \in 0..W - 1 : a.data[j] = b.data[j]
  <2> SUFFICES ASSUME NEW j \in 0..W - 1 PROVE a.data[j] = b.data[j]
    OBVIOUS
  <2>1. CASE j < a.len
    BY <1>1, <1>2, <2>1 DEF Agree
  <2>2. CASE j >= a.len
    BY <1>1, <1>2, <2>2, NetBits
  <2> QED  BY <1>1, <2>1, <2>2
<1>4. a.data = b.data
  BY <1>1, <1>3
<1> QED  BY <1>2, <1>4, NetBits

\* A prefix is sorted before what it is a prefix of.
LEMMA PrefixBefore ==
    ASSUME NEW a \in Net, NEW b \in Net, isprefix(a, b), a /= b
    PROVE  pstrcmp(a, b)
<1>1. /\ a.len \in 0..W /\ b.len \in 0..W /\ W \in Nat
      /\ a.data \in [0..W - 1 -> {0, 1}] /\ b.data \in [0..W - 1 -> {0, 1}]
  BY NetBits, GeoAssumption DEF Bits
<1>2. a.len <= b.len /\ Agree(a.len, a.data, b.data)
  BY PrefixBits
<1>3. CASE a.data = b.data
  <2>1. a.len /= b.len
    BY <1>3, NetBits
  <2> QED  BY <1>1, <1>2, <1>3, <2>1 DEF pstrcmp
<1>4. CASE a.data /= b.data
  <2> DEFINE T == {j \in 0..W - 1 : a.data[j] /= b.data[j]}
  <2>1. T /= {} /\ T \subseteq Nat
    BY <1>1, <1>4
  <2>2. PICK k \in T : \A j \in T : k <= j
    BY <2>1, Least
  <2>3. \A j \in 0..k - 1 : a.data[j] = b.data[j]
    BY <1>1, <2>2
  <2>4. k >= a.len
    BY <1>1, <1>2, <2>2 DEF Agree
  <2>5. a.data[k] = 0 /\ b.data[k] = 1
    BY <1>1, <2>2, <2>4, NetBits
  <2>6. Below(a.data, b.data)
    BY <1>1, <2>2, <2>3, <2>5 DEF Below
  <2> QED  BY <2>6 DEF pstrcmp
<1> QED  BY <1>3, <1>4

\* The order of the entries is transitive.
LEMMA CmpTrans ==
    ASSUME NEW a \in Net, NEW b \in Net, NEW c \in Net, pstrcmp(a, b), pstrcmp(b, c)
    PROVE  pstrcmp(a, c)
<1>1. /\ a.len \in Int /\ b.len \in Int /\ c.len \in Int /\ W \in Nat
      /\ a.data \in Bits(W) /\ b.data \in Bits(W) /\ c.data \in Bits(W)
  BY NetBits, GeoAssumption
<1>2. Below(a.data, b.data) /\ Below(b.data, c.data) => Below(a.data, c.data)
  BY <1>1, BelowTrans
<1> QED  BY <1>1, <1>2 DEF pstrcmp

\* No entry is before itself.
LEMMA CmpIrreflexive ==
    ASSUME NEW a \in Net
    PROVE  ~pstrcmp(a, a)
<1>1. a.len \in Int /\ W \in Nat /\ a.data \in Bits(W)
  BY NetBits, GeoAssumption
<1> QED  BY <1>1, BelowIrreflexive DEF pstrcmp

\* The networks that have a prefix are next to each other in the order.
LEMMA Contiguous ==
    ASSUME NEW a \in Net, NEW b \in Net, NEW c \in Net, pstrcmp(a, b), pstrcmp(b, c),
           isprefix(a, c)
    PROVE  isprefix(a, b)
<1>1. /\ a.len \in 0..W /\ b.len \in 0..W /\ W \in Nat
      /\ a.data \in Bits(W) /\ b.data \in Bits(W) /\ c.data \in Bits(W)
  BY NetBits, GeoAssumption
<1>2. /\ a.data = b.data \/ Below(a.data, b.data)
      /\ b.data = c.data \/ Below(b.data, c.data)
      /\ Agree(a.len, a.data, c.data)
  BY PrefixBits DEF pstrcmp
<1>3. Agree(a.len, a.data, b.data)
  BY <1>1, <1>2, Sandwich
<1>4. CASE b.len < a.len
  <2>1. isprefix(b, a)
    BY <1>1, <1>3, <1>4, PrefixBits DEF Agree
  <2>2. pstrcmp(b, a)
    BY <1>1, <1>4, <2>1, PrefixBefore
  <2> QED  BY <2>2, CmpTrans, CmpIrreflexive
<1>5. CASE a.len <= b.len
  BY <1>3, <1>5, PrefixBits
<1> QED  BY <1>1, <1>4, <1>5

-----------------------------------------------------------------------------
(* The arrays of the table *)

Entry == [net : Net, pre : Nat]
Built == {"ready", "find", "prefix", "done"}

\* What the loop has not reached yet is not in the arrays.
TableType ==
    /\ entries \in Seq(Net) /\ base \in Seq(Entry) /\ pre \in Seq(Entry) /\ i \in 1..Size + 1
    /\ pc \in {"sort", "split", "build"} \cup Built
    /\ pc = "sort" => i = 1 /\ base = <<>> /\ pre = <<>>
    /\ pc \notin {"sort", "split"} => i = Size + 1

\* The entries are sorted and different.
Ordered == \A j, k \in 1..Size : j < k => pstrcmp(entries[j], entries[k])

\* Nobody else has entry j as a prefix.
Longest(j) == \A k \in 1..Size : isprefix(entries[j], entries[k]) => k = j

\* Record r was made from entry j.
From(r, j) == r = [net |-> entries[j], pre |-> ptr[j]]

\* The entries before i are in base or pre, in their order.
BaseFrom  == \A x \in 1..Len(base) : \E j \in 1..i - 1 : From(base[x], j) /\ Longest(j)
PreFrom   == \A x \in 1..Len(pre) : \E j \in 1..i - 1 : From(pre[x], j) /\ ~Longest(j)
AllPlaced == \A j \in 1..i - 1 : \/ \E x \in 1..Len(base) : base[x].net = entries[j]
                                \/ \E x \in 1..Len(pre) : pre[x].net = entries[j]
BaseOrder == \A x, y \in 1..Len(base) : x < y => pstrcmp(base[x].net, base[y].net)
PreOrder  == \A x, y \in 1..Len(pre) : x < y => pstrcmp(pre[x].net, pre[y].net)
Placed    == BaseFrom /\ PreFrom /\ AllPlaced /\ BaseOrder /\ PreOrder

\* The pointer of entry j leads to the longest of its prefixes before i.
PtrTo(j) ==
    /\ ptr[j] \in 0..Len(pre)
    /\ ptr[j] = NOPRE => \A m \in 1..i - 1 : m /= j => ~isprefix(entries[m], entries[j])
    /\ ptr[j] /= NOPRE =>
         /\ pre[ptr[j]].net /= entries[j] /\ isprefix(pre[ptr[j]].net, entries[j])
         /\ \A m \in 1..i - 1 : m /= j /\ isprefix(entries[m], entries[j])
                                => isprefix(entries[m], pre[ptr[j]].net)

Pointers == pc /= "sort" => DOMAIN ptr = 1..Size /\ \A j \in 1..Size : PtrTo(j)

SplitInv == TableType /\ Ordered /\ Placed /\ Pointers

\* The entries are different, and a prefix comes first.
LEMMA PrefixFirst ==
    ASSUME TableType, Ordered, NEW j \in 1..Size, NEW k \in 1..Size,
           isprefix(entries[j], entries[k]), j /= k
    PROVE  j < k /\ entries[j] /= entries[k]
<1>1. Size \in Nat /\ entries[j] \in Net /\ entries[k] \in Net
  BY DEF TableType, Size
<1>2. entries[j] /= entries[k]
  <2>1. j < k \/ k < j
    BY <1>1
  <2>2. pstrcmp(entries[j], entries[k]) \/ pstrcmp(entries[k], entries[j])
    BY <2>1 DEF Ordered
  <2> QED  BY <1>1, <2>2, CmpIrreflexive
<1>3. pstrcmp(entries[j], entries[k])
  BY <1>1, <1>2, PrefixBefore
<1>4. ~pstrcmp(entries[k], entries[j])
  BY <1>1, <1>3, CmpTrans, CmpIrreflexive
<1> QED  BY <1>1, <1>2, <1>4 DEF Ordered

\* The entries that have entry j as a prefix follow it without a gap.
LEMMA PrefixRun ==
    ASSUME TableType, Ordered, NEW j \in 1..Size, NEW k \in 1..Size,
           isprefix(entries[j], entries[k]), NEW m \in j..k
    PROVE  isprefix(entries[j], entries[m])
<1>1. /\ Size \in Nat /\ m \in 1..Size
      /\ entries[j] \in Net /\ entries[k] \in Net /\ entries[m] \in Net
  BY DEF TableType, Size
<1>2. CASE m = j \/ m = k
  BY <1>1, <1>2, PrefixSelf
<1>3. CASE m /= j /\ m /= k
  <2>1. pstrcmp(entries[j], entries[m]) /\ pstrcmp(entries[m], entries[k])
    BY <1>1, <1>3 DEF Ordered
  <2> QED  BY <1>1, <2>1, Contiguous
<1> QED  BY <1>2, <1>3

\* Split puts an entry into base exactly if nobody else has it as a prefix.
LEMMA SplitTest ==
    ASSUME TableType, Ordered, i <= Size
    PROVE  /\ ~(i < Size /\ isprefix(entries[i], entries[i + 1])) => Longest(i)
           /\ \A j \in 1..Size : (j > i /\ \A k \in i + 1..j : isprefix(entries[i], entries[k]))
                                  <=> (j /= i /\ isprefix(entries[i], entries[j]))
<1>1. Size \in Nat /\ i \in 1..Size
  BY DEF TableType, Size
<1>2. ASSUME NEW j \in 1..Size, j /= i, isprefix(entries[i], entries[j])
      PROVE  j > i /\ \A k \in i + 1..j : isprefix(entries[i], entries[k])
  <2>1. i < j
    BY <1>1, <1>2, PrefixFirst
  <2>2. \A k \in i..j : isprefix(entries[i], entries[k])
    BY <1>1, <1>2, PrefixRun
  <2> QED  BY <1>1, <2>1, <2>2
<1>3. ASSUME NEW j \in 1..Size, j > i, \A k \in i + 1..j : isprefix(entries[i], entries[k])
      PROVE  j /= i /\ isprefix(entries[i], entries[j])
  BY <1>1, <1>3
<1>4. ASSUME ~(i < Size /\ isprefix(entries[i], entries[i + 1]))
      PROVE  Longest(i)
  BY <1>1, <1>2, <1>4 DEF Longest
<1> QED  BY <1>2, <1>3, <1>4

\* Split keeps the arrays in order and the pointers at the longest prefix.
LEMMA SplitStep ==
    ASSUME SplitInv, Split
    PROVE  SplitInv'
<1>0. /\ TableType /\ Ordered /\ BaseFrom /\ PreFrom /\ AllPlaced /\ BaseOrder /\ PreOrder
      /\ Pointers
  BY DEF SplitInv, Placed
<1>1. /\ pc = "split" /\ i \in 1..Size /\ Size \in Nat /\ i' - 1 = i
      /\ entries' = entries /\ pc' = pc
      /\ i' = i + 1
      /\ Size' = Size /\ entries \in Seq(Net) /\ \A j \in 1..Size : entries[j] \in Net
      /\ DOMAIN ptr = 1..Size
  BY <1>0 DEF Split, TableType, Size, Pointers
<1>a. /\ ptr[i] \in 0..Len(pre) /\ base \in Seq(Entry) /\ pre \in Seq(Entry)
      /\ Len(base) \in Nat /\ Len(pre) \in Nat
  BY <1>0, <1>1 DEF Pointers, PtrTo, TableType
<1>b. [net |-> entries[i], pre |-> ptr[i]] \in Entry
  BY <1>1, <1>a DEF Entry
<1>2. Ordered'
  BY <1>0, <1>1 DEF Ordered
<1>3. CASE i < Size /\ isprefix(entries[i], entries[i + 1])
  <2> DEFINE L == Len(pre) + 1
             new == [net |-> entries[i], pre |-> ptr[i]]
  <2>1. /\ pre' = Append(pre, new) /\ base' = base
        /\ DOMAIN ptr' = 1..Size
        /\ \A j \in 1..Size :
             ptr'[j] = IF j /= i /\ isprefix(entries[i], entries[j]) THEN L ELSE ptr[j]
    BY <1>0, <1>1, <1>3, SplitTest DEF Split, Update
  <2>2. new \in Entry /\ pre \in Seq(Entry) /\ Len(pre) \in Nat
    BY <1>a, <1>b
  <2>3. /\ pre' \in Seq(Entry) /\ Len(pre') = L /\ pre'[L] = new
        /\ \A x \in 1..Len(pre) : pre'[x] = pre[x]
    BY <2>1, <2>2
  <2>4. TableType'
    BY <1>0, <1>1, <2>1, <2>3 DEF TableType
  <2>5. \A j \in 1..i : ptr'[j] = ptr[j]
    BY <1>0, <1>1, <2>1, PrefixFirst
  <2>6. Placed'
    <3>1. BaseFrom'
      <4> SUFFICES ASSUME NEW x \in 1..Len(base)
                   PROVE  \E j \in 1..i : From(base[x], j)' /\ Longest(j)'
        BY <1>1, <2>1 DEF BaseFrom
      <4>1. PICK j \in 1..i - 1 : From(base[x], j) /\ Longest(j)
        BY <1>0 DEF BaseFrom
      <4>2. j \in 1..i /\ ptr'[j] = ptr[j]
        BY <1>1, <2>5
      <4>3. From(base[x], j)' /\ Longest(j)'
        BY <1>1, <2>1, <4>1, <4>2 DEF From, Longest
      <4> QED  BY <4>2, <4>3
    <3>2. PreFrom'
      <4> SUFFICES ASSUME NEW x \in 1..L
                   PROVE  \E j \in 1..i : From(pre[x], j)' /\ ~Longest(j)'
        BY <1>1, <2>3 DEF PreFrom
      <4>1. CASE x \in 1..Len(pre)
        <5>1. PICK j \in 1..i - 1 : From(pre[x], j) /\ ~Longest(j)
          BY <1>0, <4>1 DEF PreFrom
        <5>2. j \in 1..i /\ ptr'[j] = ptr[j] /\ pre'[x] = pre[x]
          BY <1>1, <2>3, <2>5, <4>1
        <5>3. From(pre[x], j)' /\ ~Longest(j)'
          BY <1>1, <5>1, <5>2 DEF From, Longest
        <5> QED  BY <5>2, <5>3
      <4>2. CASE x = L
        <5>0. PICK j \in 1..i : j = i
          BY <1>1
        <5>1. From(pre[x], j)'
          BY <1>1, <2>3, <2>5, <4>2, <5>0 DEF From
        <5>2. ~Longest(j)'
          BY <1>1, <1>3, <5>0 DEF Longest
        <5> QED  BY <5>0, <5>1, <5>2
      <4> QED  BY <2>2, <4>1, <4>2
    <3>3. AllPlaced'
      <4> SUFFICES ASSUME NEW j \in 1..i
                   PROVE  \/ \E x \in 1..Len(base) : base[x].net = entries[j]
                          \/ \E x \in 1..L : pre'[x].net = entries[j]
        BY <1>1, <2>1, <2>3 DEF AllPlaced
      <4>1. CASE j = i
        BY <2>2, <2>3, <4>1
      <4>2. CASE j \in 1..i - 1
        BY <1>0, <2>2, <2>3, <4>2, SMTT(30) DEF AllPlaced
      <4> QED  BY <1>1, <4>1, <4>2
    <3>4. \A x \in 1..Len(pre) : pstrcmp(pre[x].net, new.net)
      <4> SUFFICES ASSUME NEW x \in 1..Len(pre) PROVE pstrcmp(pre[x].net, entries[i])
        OBVIOUS
      <4>1. PICK j \in 1..i - 1 : From(pre[x], j)
        BY <1>0 DEF PreFrom
      <4>2. j \in 1..Size /\ j < i /\ pre[x].net = entries[j]
        BY <1>1, <4>1 DEF From
      <4> QED  BY <1>0, <1>1, <4>1, <4>2 DEF Ordered
    <3>5. PreOrder'
      <4> SUFFICES ASSUME NEW x \in 1..L, NEW y \in 1..L, x < y
                   PROVE  pstrcmp(pre'[x].net, pre'[y].net)
        BY <2>3 DEF PreOrder
      <4>1. x \in 1..Len(pre) /\ pre'[x] = pre[x]
        BY <2>2, <2>3
      <4>2. CASE y = L
        BY <2>3, <3>4, <4>1, <4>2
      <4>3. CASE y \in 1..Len(pre)
        BY <1>0, <2>3, <4>1, <4>3 DEF PreOrder
      <4> QED  BY <2>2, <4>2, <4>3
    <3> QED  BY <1>0, <2>1, <3>1, <3>2, <3>3, <3>5 DEF Placed, BaseOrder
  <2>7. ASSUME NEW j \in 1..Size PROVE PtrTo(j)'
    <3>0. PtrTo(j) /\ ptr[j] \in 0..Len(pre)
      BY <1>0, <1>1 DEF Pointers, PtrTo
    <3>1. CASE j /= i /\ isprefix(entries[i], entries[j])
      <4>1. ptr'[j] = L /\ L /= NOPRE /\ L \in 0..L /\ pre'[L].net = entries[i]
        BY <2>1, <2>2, <2>3, <3>1 DEF NOPRE
      <4>2. entries[i] /= entries[j]
        BY <1>0, <1>1, <3>1, PrefixFirst
      <4>3. ASSUME NEW m \in 1..i, isprefix(entries[m], entries[j])
            PROVE  isprefix(entries[m], entries[i])
        <5>1. entries[m] \in Net /\ entries[i] \in Net /\ entries[j] \in Net
          BY <1>1
        <5>2. entries[m].len \in Int /\ entries[i].len \in Int
          BY <5>1, NetBits, GeoAssumption
        <5>3. CASE entries[m].len <= entries[i].len
          BY <3>1, <4>3, <5>1, <5>3, PrefixNested
        <5>4. CASE entries[i].len <= entries[m].len
          <6>1. isprefix(entries[i], entries[m])
            BY <3>1, <4>3, <5>1, <5>4, PrefixNested
          <6>2. m = i
            BY <1>0, <1>1, <6>1, PrefixFirst
          <6> QED  BY <5>1, <6>2, PrefixSelf
        <5> QED  BY <5>2, <5>3, <5>4
      <4> QED  BY <1>1, <2>3, <3>1, <4>1, <4>2, <4>3 DEF PtrTo
    <3>2. CASE ~(j /= i /\ isprefix(entries[i], entries[j]))
      <4>1. ptr'[j] = ptr[j] /\ (ptr[j] /= NOPRE => pre'[ptr[j]] = pre[ptr[j]])
        BY <2>1, <2>2, <2>3, <3>0, <3>2 DEF NOPRE
      <4>2. \A m \in 1..i : m /= j /\ isprefix(entries[m], entries[j]) => m \in 1..i - 1
        BY <1>1, <3>2
      <4>3. ptr'[j] \in 0..L
        BY <2>2, <3>0, <4>1
      <4>4. ASSUME ptr'[j] = NOPRE, NEW m \in 1..i, m /= j
            PROVE  ~isprefix(entries[m], entries[j])
        BY <3>0, <4>1, <4>2, <4>4 DEF PtrTo
      <4>5. ASSUME ptr'[j] /= NOPRE
            PROVE  /\ pre'[ptr'[j]].net /= entries[j] /\ isprefix(pre'[ptr'[j]].net, entries[j])
                   /\ \A m \in 1..i : m /= j /\ isprefix(entries[m], entries[j])
                                      => isprefix(entries[m], pre'[ptr'[j]].net)
        BY <3>0, <4>1, <4>2, <4>5 DEF PtrTo
      <4> QED  BY <1>1, <2>3, <4>3, <4>4, <4>5 DEF PtrTo
    <3> QED  BY <3>1, <3>2
  <2> QED  BY <1>1, <1>2, <2>1, <2>4, <2>6, <2>7 DEF SplitInv, Pointers
<1>4. CASE ~(i < Size /\ isprefix(entries[i], entries[i + 1]))
  <2> DEFINE L == Len(base) + 1
             new == [net |-> entries[i], pre |-> ptr[i]]
  <2>1. base' = Append(base, new) /\ pre' = pre /\ ptr' = ptr /\ Longest(i)
    BY <1>0, <1>1, <1>4, SplitTest DEF Split
  <2>2. new \in Entry /\ base \in Seq(Entry) /\ Len(base) \in Nat /\ Len(pre) \in Nat
    BY <1>a, <1>b
  <2>3. /\ base' \in Seq(Entry) /\ Len(base') = L /\ base'[L] = new
        /\ \A x \in 1..Len(base) : base'[x] = base[x]
    BY <2>1, <2>2
  <2>4. TableType'
    BY <1>0, <1>1, <2>1, <2>3 DEF TableType
  <2>6. Placed'
    <3>1. BaseFrom'
      <4> SUFFICES ASSUME NEW x \in 1..L
                   PROVE  \E j \in 1..i : From(base[x], j)' /\ Longest(j)'
        BY <1>1, <2>3 DEF BaseFrom
      <4>1. CASE x \in 1..Len(base)
        <5>1. PICK j \in 1..i - 1 : From(base[x], j) /\ Longest(j)
          BY <1>0, <4>1 DEF BaseFrom
        <5> QED  BY <1>1, <2>1, <2>3, <4>1, <5>1 DEF From, Longest
      <4>2. CASE x = L
        BY <1>1, <2>1, <2>3, <4>2 DEF From, Longest
      <4> QED  BY <2>2, <4>1, <4>2
    <3>2. PreFrom'
      <4> SUFFICES ASSUME NEW x \in 1..Len(pre)
                   PROVE  \E j \in 1..i : From(pre[x], j)' /\ ~Longest(j)'
        BY <1>1, <2>1 DEF PreFrom
      <4>1. PICK j \in 1..i - 1 : From(pre[x], j) /\ ~Longest(j)
        BY <1>0 DEF PreFrom
      <4> QED  BY <1>1, <2>1, <4>1 DEF From, Longest
    <3>3. AllPlaced'
      <4> SUFFICES ASSUME NEW j \in 1..i
                   PROVE  \/ \E x \in 1..L : base'[x].net = entries[j]
                          \/ \E x \in 1..Len(pre) : pre[x].net = entries[j]
        BY <1>1, <2>1, <2>3 DEF AllPlaced
      <4>1. CASE j = i
        BY <2>2, <2>3, <4>1
      <4>2. CASE j \in 1..i - 1
        BY <1>0, <2>2, <2>3, <4>2 DEF AllPlaced
      <4> QED  BY <1>1, <4>1, <4>2
    <3>4. \A x \in 1..Len(base) : pstrcmp(base[x].net, new.net)
      <4> SUFFICES ASSUME NEW x \in 1..Len(base) PROVE pstrcmp(base[x].net, entries[i])
        OBVIOUS
      <4>1. PICK j \in 1..i - 1 : From(base[x], j)
        BY <1>0 DEF BaseFrom
      <4>2. j \in 1..Size /\ j < i /\ base[x].net = entries[j]
        BY <1>1, <4>1 DEF From
      <4> QED  BY <1>0, <1>1, <4>1, <4>2 DEF Ordered
    <3>5. BaseOrder'
      <4> SUFFICES ASSUME NEW x \in 1..L, NEW y \in 1..L, x < y
                   PROVE  pstrcmp(base'[x].net, base'[y].net)
        BY <2>3 DEF BaseOrder
      <4>1. x \in 1..Len(base) /\ base'[x] = base[x]
        BY <2>2, <2>3
      <4>2. CASE y = L
        BY <2>3, <3>4, <4>1, <4>2
      <4>3. CASE y \in 1..Len(base)
        BY <1>0, <2>3, <4>1, <4>3 DEF BaseOrder
      <4> QED  BY <2>2, <4>2, <4>3
    <3> QED  BY <1>0, <2>1, <3>1, <3>2, <3>3, <3>5 DEF Placed, PreOrder
  <2>7. ASSUME NEW j \in 1..Size PROVE PtrTo(j)'
    <3>1. PtrTo(j)
      BY <1>0, <1>1 DEF Pointers
    <3>2. \A m \in 1..i : m /= j /\ isprefix(entries[m], entries[j]) => m \in 1..i - 1
      BY <1>1, <2>1 DEF Longest
    <3> QED  BY <1>1, <2>1, <3>1, <3>2 DEF PtrTo
  <2> QED  BY <1>1, <1>2, <2>1, <2>4, <2>6, <2>7 DEF SplitInv, Pointers
<1> QED  BY <1>3, <1>4

\* What the arrays hold once all the entries are placed: base is sorted, no
\* string of it is a prefix of another, every other entry is in pre, and every
\* pointer leads to the longest proper prefix of its string.
Nets == {entries[j] : j \in 1..Size}
Leads(r) ==
    /\ r.net \in Nets /\ r.pre \in 0..Len(pre)
    /\ r.pre = NOPRE => \A f \in Nets : isprefix(f, r.net) => f = r.net
    /\ r.pre /= NOPRE =>
         /\ pre[r.pre].net /= r.net /\ isprefix(pre[r.pre].net, r.net)
         /\ \A f \in Nets : f /= r.net /\ isprefix(f, r.net) => isprefix(f, pre[r.pre].net)
Table ==
    /\ Nets \subseteq Net /\ base \in Seq(Entry) /\ pre \in Seq(Entry) /\ BaseOrder
    /\ \A x \in 1..Len(base) : Leads(base[x])
    /\ \A x \in 1..Len(pre) : Leads(pre[x])
    /\ \A x \in 1..Len(base), f \in Nets : isprefix(base[x].net, f) => f = base[x].net
    /\ \A x, y \in 1..Len(base) : base[x].net = base[y].net => x = y
    /\ \A x, y \in 1..Len(pre) : pre[x].net = pre[y].net => x = y
    /\ \A f \in Nets : \E x \in 1..Len(base) : isprefix(f, base[x].net)
    /\ \A f \in Nets : \/ \E x \in 1..Len(base) : base[x].net = f
                       \/ \E x \in 1..Len(pre) : pre[x].net = f

\* A record that is placed has the pointer of its entry.
LEMMA FromLeads ==
    ASSUME TableType, Ordered, Pointers, pc /= "sort", i = Size + 1,
           NEW j \in 1..Size, NEW r, From(r, j)
    PROVE  Leads(r)
<1>1. /\ r.net = entries[j] /\ r.pre = ptr[j] /\ r.net \in Nets /\ PtrTo(j)
      /\ Size \in Nat /\ i - 1 = Size
  BY DEF From, Nets, Pointers, TableType, Size
<1>2. r.pre \in 0..Len(pre)
  BY <1>1 DEF PtrTo
<1>3. ASSUME r.pre = NOPRE, NEW f \in Nets, isprefix(f, r.net)
      PROVE  f = r.net
  <2>1. PICK m \in 1..Size : f = entries[m]
    BY DEF Nets
  <2>2. m = j
    BY <1>1, <1>3, <2>1 DEF PtrTo
  <2> QED  BY <1>1, <2>1, <2>2
<1>4. ASSUME r.pre /= NOPRE
      PROVE  pre[r.pre].net /= r.net /\ isprefix(pre[r.pre].net, r.net)
  BY <1>1, <1>4 DEF PtrTo
<1>5. ASSUME r.pre /= NOPRE, NEW f \in Nets, f /= r.net, isprefix(f, r.net)
      PROVE  isprefix(f, pre[r.pre].net)
  <2>1. PICK m \in 1..Size : f = entries[m]
    BY DEF Nets
  <2>2. m /= j /\ isprefix(entries[m], entries[j])
    BY <1>1, <1>5, <2>1
  <2> QED  BY <1>1, <1>5, <2>1, <2>2 DEF PtrTo
<1> QED  BY <1>1, <1>2, <1>3, <1>4, <1>5 DEF Leads

\* The arrays when the loop of buildRoutingTable is over.
LEMMA SplitTable ==
    ASSUME SplitInv, pc /= "sort", i = Size + 1
    PROVE  Table
<1>0. TableType /\ Ordered /\ Pointers /\ BaseFrom /\ PreFrom /\ AllPlaced /\ BaseOrder /\ PreOrder
  BY DEF SplitInv, Placed
<1>1. /\ Size \in Nat /\ i - 1 = Size /\ \A j \in 1..Size : entries[j] \in Net
      /\ base \in Seq(Entry) /\ pre \in Seq(Entry) /\ Len(base) \in Nat /\ Len(pre) \in Nat
  BY <1>0 DEF TableType, Size
<1>2. Nets \subseteq Net
  BY <1>1 DEF Nets
<1>3. ASSUME NEW x \in 1..Len(base) PROVE Leads(base[x])
  <2>1. PICK j \in 1..Size : From(base[x], j)
    BY <1>0, <1>1 DEF BaseFrom
  <2> QED  BY <1>0, <2>1, FromLeads
<1>4. ASSUME NEW x \in 1..Len(pre) PROVE Leads(pre[x])
  <2>1. PICK j \in 1..Size : From(pre[x], j)
    BY <1>0, <1>1 DEF PreFrom
  <2> QED  BY <1>0, <2>1, FromLeads
<1>5. ASSUME NEW x \in 1..Len(base), NEW f \in Nets, isprefix(base[x].net, f)
      PROVE  f = base[x].net
  <2>1. PICK j \in 1..Size : From(base[x], j) /\ Longest(j)
    BY <1>0, <1>1 DEF BaseFrom
  <2>2. PICK m \in 1..Size : f = entries[m]
    BY DEF Nets
  <2>3. base[x].net = entries[j]
    BY <2>1 DEF From
  <2>4. m = j
    BY <1>5, <2>1, <2>2, <2>3 DEF Longest
  <2> QED  BY <2>2, <2>3, <2>4
<1>6. ASSUME NEW x \in 1..Len(base), NEW y \in 1..Len(base), base[x].net = base[y].net
      PROVE  x = y
  <2>1. base[x].net \in Net
    BY <1>3, <1>2 DEF Leads
  <2>2. ~pstrcmp(base[x].net, base[y].net) /\ ~pstrcmp(base[y].net, base[x].net)
    BY <1>6, <2>1, CmpIrreflexive
  <2>3. ~(x < y) /\ ~(y < x)
    BY <1>0, <2>2 DEF BaseOrder
  <2> QED  BY <1>1, <2>3
<1>7. ASSUME NEW x \in 1..Len(pre), NEW y \in 1..Len(pre), pre[x].net = pre[y].net
      PROVE  x = y
  <2>1. pre[x].net \in Net
    BY <1>4, <1>2 DEF Leads
  <2>2. ~pstrcmp(pre[x].net, pre[y].net) /\ ~pstrcmp(pre[y].net, pre[x].net)
    BY <1>7, <2>1, CmpIrreflexive
  <2>3. ~(x < y) /\ ~(y < x)
    BY <1>0, <2>2 DEF PreOrder
  <2> QED  BY <1>1, <2>3
<1>8. ASSUME NEW f \in Nets
      PROVE  \/ \E x \in 1..Len(base) : base[x].net = f
             \/ \E x \in 1..Len(pre) : pre[x].net = f
  <2>1. PICK j \in 1..Size : f = entries[j]
    BY DEF Nets
  <2> QED  BY <1>0, <1>1, <2>1 DEF AllPlaced
<1>9. ASSUME NEW f \in Nets
      PROVE  \E x \in 1..Len(base) : isprefix(f, base[x].net)
  <2> DEFINE T == {j \in 1..Size : isprefix(f, entries[j])}
  <2>1. PICK m \in 1..Size : f = entries[m]
    BY DEF Nets
  <2>2. m \in T
    BY <1>1, <2>1, PrefixSelf
  <2>3. T \subseteq 0..Size
    BY <1>1
  <2>4. PICK j \in T : \A k \in T : k <= j
    BY <1>1, <2>2, <2>3, Greatest
  <2>5. ASSUME NEW x \in 1..Len(pre), pre[x].net = entries[j]
        PROVE  FALSE
    <3>1. PICK k \in 1..Size : From(pre[x], k) /\ ~Longest(k)
      BY <1>0, <1>1 DEF PreFrom
    <3>2. entries[k] = entries[j]
      BY <2>5, <3>1 DEF From
    <3>3. PICK l \in 1..Size : isprefix(entries[k], entries[l]) /\ l /= k
      BY <3>1 DEF Longest
    <3>4. k = j
      BY <1>0, <1>1, <3>2, PrefixFirst, PrefixSelf
    <3>5. j < l
      BY <1>0, <1>1, <3>3, <3>4, PrefixFirst
    <3>6. l \in T
      <4>1. f \in Net /\ entries[j] \in Net /\ entries[l] \in Net /\ isprefix(f, entries[j])
        BY <1>1, <2>1
      <4> QED  BY <3>3, <3>4, <4>1, PrefixTrans
    <3> QED  BY <1>1, <2>4, <3>5, <3>6
  <2>6. entries[j] \in Nets /\ isprefix(f, entries[j])
    BY DEF Nets
  <2> QED  BY <1>8, <2>5, <2>6
<1> QED  BY <1>0, <1>1, <1>2, <1>3, <1>4, <1>5, <1>6, <1>7, <1>8, <1>9 DEF Table

-----------------------------------------------------------------------------
(* The subtrees *)

\* Strings lo to hi have the same first m bits.
Common(m, lo, hi) ==
    \A x, y \in lo..hi : \A j \in 0..W - 1 : j < m => Str(x)[j] = Str(y)[j]

\* Network f admits pattern b of the w bits from m on.
Fits(f, m, w, b) == \A j \in 0..w - 1 : m + j < f.len => f.data[m + j] = b[j]

\* An entry that is a prefix of one of the strings lo to hi and admits b is a
\* prefix of one of the strings lo2 to hi2.
Covers(m, w, b, lo, hi, lo2, hi2) ==
    \A f \in Nets, x \in lo..hi : isprefix(f, base[x].net) /\ Fits(f, m, w, b)
                                  => \E y \in lo2..hi2 : isprefix(f, base[y].net)

\* What Table says of a string of base.
LEMMA BaseString ==
    ASSUME Table, NEW x \in 1..Len(base)
    PROVE  /\ base[x].net \in Net /\ base[x].net \in Nets /\ Str(x) \in Bits(W)
           /\ base[x].net.len \in 0..W /\ W \in Nat /\ base[x].pre \in 0..Len(pre)
           /\ Len(pre) \in Nat /\ Len(base) \in Nat
<1>1. base[x].net \in Nets /\ Nets \subseteq Net /\ base[x].pre \in 0..Len(pre)
  BY DEF Table, Leads
<1>2. Len(pre) \in Nat /\ Len(base) \in Nat
  BY DEF Table
<1> QED  BY <1>1, <1>2, NetBits, GeoAssumption DEF Str

\* The pointers of a string lead to every entry that is a proper prefix of it.
LEMMA ChainHolds ==
    ASSUME Table, NEW k \in 1..Len(base), NEW f \in Nets, f /= base[k].net,
           isprefix(f, base[k].net)
    PROVE  \E d \in Chain(base[k].pre) : pre[d].net = f
<1>0. /\ f \in Net /\ DOMAIN pre = 1..Len(pre) /\ Len(pre) \in Nat
      /\ base[k].net \in Nets
      /\ \A x \in 1..Len(pre) : Leads(pre[x]) /\ pre[x].net \in Net
  BY BaseString DEF Table, Leads
<1>1. PICK d \in 1..Len(pre) : pre[d].net = f
  <2>1. ASSUME NEW x \in 1..Len(base), base[x].net = f PROVE FALSE
    BY <1>0, <2>1 DEF Table
  <2> QED  BY <2>1 DEF Table
<1>2. Leads(base[k])
  BY DEF Table
<1>3. base[k].pre \in 1..Len(pre) /\ isprefix(f, pre[base[k].pre].net)
  BY <1>0, <1>2 DEF Leads, NOPRE
<1>4. ASSUME NEW S \in SUBSET DOMAIN pre,
             ({base[k].pre} \cup {pre[x].pre : x \in S}) \subseteq S \cup {NOPRE}
      PROVE  d \in S
  <2> DEFINE D == {x \in S : isprefix(f, pre[x].net)}
             T == {pre[x].net.len : x \in D}
  <2>1. base[k].pre \in D
    BY <1>0, <1>3, <1>4 DEF NOPRE
  <2>2. \A x \in D : x \in 1..Len(pre) /\ pre[x].net \in Net /\ pre[x].net.len \in Nat
    BY <1>0, NetBits, GeoAssumption
  <2>3. T /= {} /\ T \subseteq Nat
    BY <2>1, <2>2
  <2>4. PICK l \in T : \A n \in T : l <= n
    BY <2>3, Least
  <2>5. PICK x \in D : \A y \in D : pre[x].net.len <= pre[y].net.len
    BY <2>4
  <2>6. pre[x].net = f
    <3> SUFFICES ASSUME pre[x].net /= f PROVE FALSE
      OBVIOUS
    <3> DEFINE y == pre[x].pre
    <3>1. Leads(pre[x]) /\ isprefix(f, pre[x].net)
      BY <1>0, <2>2
    <3>2. y /= NOPRE /\ y \in 0..Len(pre) /\ isprefix(f, pre[y].net)
          /\ pre[y].net /= pre[x].net /\ isprefix(pre[y].net, pre[x].net)
      BY <3>1 DEF Leads
    <3>3. y \in S
      BY <1>4, <3>2
    <3>4. y \in D
      BY <3>2, <3>3
    <3>5. pre[x].net.len <= pre[y].net.len
      BY <2>5, <3>4
    <3>6. pre[y].net \in Net /\ pre[x].net \in Net
      BY <2>2, <3>4
    <3>7. pre[y].net = pre[x].net
      BY <3>2, <3>5, <3>6, PrefixSame
    <3> QED  BY <3>2, <3>7
  <2>7. x = d
    BY <1>1, <2>2, <2>6 DEF Table
  <2> QED  BY <2>7
<1>5. d \in Chain(base[k].pre)
  BY <1>0, <1>1, <1>4 DEF Chain
<1> QED  BY <1>1, <1>5

\* An entry whose bits a string of base begins with is a prefix of it: the
\* string cannot be shorter, as it is not a prefix of another entry.
LEMMA BaseAgrees ==
    ASSUME Table, NEW y \in 1..Len(base), NEW f \in Nets, Agree(f.len, f.data, Str(y))
    PROVE  isprefix(f, base[y].net)
<1>1. /\ f \in Net /\ base[y].net \in Net /\ f.len \in 0..W /\ base[y].net.len \in 0..W
      /\ W \in Nat
  BY BaseString, NetBits, GeoAssumption DEF Table
<1>2. CASE f.len <= base[y].net.len
  BY <1>1, <1>2, PrefixBits DEF Str
<1>3. CASE base[y].net.len < f.len
  <2>1. Agree(base[y].net.len, base[y].net.data, f.data)
    BY <1>1, <1>3 DEF Agree, Str
  <2>2. isprefix(base[y].net, f)
    BY <1>1, <1>3, <2>1, PrefixBits
  <2>3. f = base[y].net
    BY <2>2 DEF Table
  <2> QED  BY <1>1, <2>3, PrefixSelf
<1> QED  BY <1>1, <1>2, <1>3

\* Two strings of base differ before either of them ends.
LEMMA BaseDiffer ==
    ASSUME Table, NEW x \in 1..Len(base), NEW y \in 1..Len(base), x /= y
    PROVE  \E j \in 0..W - 1 : j < base[x].net.len /\ Str(x)[j] /= Str(y)[j]
<1>1. /\ base[x].net \in Nets /\ base[y].net \in Nets /\ base[x].net.len \in 0..W /\ W \in Nat
      /\ base[x].net \in Net /\ base[y].net \in Net
  BY BaseString
<1> SUFFICES ASSUME \A j \in 0..W - 1 : j < base[x].net.len => Str(x)[j] = Str(y)[j]
             PROVE  FALSE
  OBVIOUS
<1>2. Agree(base[x].net.len, base[x].net.data, Str(y))
  BY <1>1 DEF Agree, Str
<1>3. isprefix(base[x].net, base[y].net)
  BY <1>1, <1>2, BaseAgrees
<1>4. base[y].net = base[x].net
  BY <1>1, <1>3 DEF Table
<1> QED  BY <1>4 DEF Table

\* A bit of a pattern.
LEMMA ExtractBit ==
    ASSUME NEW s \in Bits(W), NEW m \in Nat, NEW w \in Nat, NEW j \in 0..w - 1
    PROVE  /\ EXTRACT(m, w, s) \in Bits(w)
           /\ EXTRACT(m, w, s)[j] = IF m + j < W THEN s[m + j] ELSE 0
<1>1. DOMAIN s = 0..W - 1 /\ W \in Nat /\ \A n \in 0..W - 1 : s[n] \in {0, 1}
  BY GeoAssumption DEF Bits
<1>2. m + j \in DOMAIN s <=> m + j < W
  BY <1>1
<1>3. EXTRACT(m, w, s)[j] = IF m + j < W THEN s[m + j] ELSE 0
  BY <1>2 DEF EXTRACT
<1>4. \A n \in 0..w - 1 : (IF m + n \in DOMAIN s THEN s[m + n] ELSE 0) \in {0, 1}
  BY <1>1
<1>5. EXTRACT(m, w, s) \in Bits(w)
  BY <1>4 DEF EXTRACT, Bits
<1> QED  BY <1>3, <1>5

\* The patterns of strings with common bits are sorted as the strings are.
LEMMA PatternOrder ==
    ASSUME Table, NEW lo \in 1..Len(base), NEW hi \in 1..Len(base), NEW m \in Nat, NEW w \in Nat,
           Common(m, lo, hi), NEW x \in lo..hi, NEW y \in lo..hi, x <= y
    PROVE  \/ EXTRACT(m, w, Str(x)) = EXTRACT(m, w, Str(y))
           \/ Below(EXTRACT(m, w, Str(x)), EXTRACT(m, w, Str(y)))
<1> DEFINE A == EXTRACT(m, w, Str(x))
           B == EXTRACT(m, w, Str(y))
<1>0. /\ x \in 1..Len(base) /\ y \in 1..Len(base) /\ W \in Nat
      /\ base[x].net \in Net /\ base[y].net \in Net
      /\ Str(x) \in Bits(W) /\ Str(y) \in Bits(W)
  <2>1. Len(base) \in Nat
    BY DEF Table
  <2>2. x \in 1..Len(base) /\ y \in 1..Len(base)
    BY <2>1
  <2> QED  BY <2>2, BaseString
<1>1. CASE Str(x) = Str(y)
  BY <1>1
<1>2. CASE Str(x) /= Str(y)
  <2>1. x < y
    BY <1>0, <1>2
  <2>2. pstrcmp(base[x].net, base[y].net)
    BY <1>0, <2>1 DEF Table, BaseOrder
  <2>3. Below(Str(x), Str(y))
    BY <1>2, <2>2 DEF pstrcmp, Str
  <2>4. PICK k \in 0..W - 1 : Str(x)[k] < Str(y)[k] /\ \A j \in 0..k - 1 : Str(x)[j] = Str(y)[j]
    BY <1>0, <2>3 DEF Below, Bits
  <2>5. Str(x)[k] \in {0, 1} /\ Str(y)[k] \in {0, 1}
    BY <1>0 DEF Bits
  <2>6. k >= m
    <3> SUFFICES ASSUME k < m PROVE FALSE
      BY <1>0
    <3>1. Str(x)[k] = Str(y)[k]
      BY DEF Common
    <3> QED  BY <2>4, <2>5, <3>1
  <2>7. \A j \in 0..w - 1 : /\ A[j] = IF m + j < W THEN Str(x)[m + j] ELSE 0
                           /\ B[j] = IF m + j < W THEN Str(y)[m + j] ELSE 0
    BY <1>0, ExtractBit
  <2>8. A \in Bits(w) /\ B \in Bits(w)
    <3>1. CASE w = 0
      BY <3>1 DEF EXTRACT, Bits
    <3>2. CASE w > 0
      <4>1. 0 \in 0..w - 1
        BY <3>2
      <4> QED  BY <1>0, <4>1, ExtractBit
    <3> QED  BY <3>1, <3>2
  <2>9. CASE k < m + w
    <3>1. k - m \in 0..w - 1 /\ m + (k - m) = k
      BY <1>0, <2>6, <2>9
    <3>2. A[k - m] < B[k - m]
      BY <1>0, <2>4, <2>7, <3>1
    <3>3. \A j \in 0..k - m - 1 : A[j] = B[j]
      BY <1>0, <2>4, <2>7, <3>1
    <3>4. k - m \in DOMAIN A
      BY <2>8, <3>1 DEF Bits
    <3> QED  BY <3>2, <3>3, <3>4 DEF Below
  <2>10. CASE k >= m + w
    <3>1. \A j \in 0..w - 1 : A[j] = B[j]
      BY <1>0, <2>4, <2>7, <2>10
    <3>2. A = B
      BY <2>8, <3>1 DEF Bits
    <3> QED  BY <3>2
  <2> QED  BY <1>0, <2>9, <2>10
<1> QED  BY <1>1, <1>2

\* An entry that admits the bits a string has is a prefix of the string.
LEMMA FitsString ==
    ASSUME Table, NEW lo \in 1..Len(base), NEW hi \in 1..Len(base), NEW m \in Nat, NEW w \in Nat,
           Common(m, lo, hi), NEW b, NEW f \in Nets, NEW x \in lo..hi, NEW y \in lo..hi,
           isprefix(f, base[x].net), Fits(f, m, w, b), f.len <= m + w,
           \A j \in 0..w - 1 : m + j < f.len => b[j] = Str(y)[m + j]
    PROVE  isprefix(f, base[y].net)
<1>0. x \in 1..Len(base) /\ y \in 1..Len(base)
  <2>1. Len(base) \in Nat
    BY DEF Table
  <2> QED  BY <2>1
<1>1. f \in Net /\ f.len \in 0..W /\ W \in Nat /\ base[x].net \in Net
  BY <1>0, BaseString, NetBits, GeoAssumption DEF Table
<1>2. Agree(f.len, f.data, Str(x))
  BY <1>1, PrefixBits DEF Str
<1>3. ASSUME NEW j \in 0..f.len - 1 PROVE f.data[j] = Str(y)[j]
  <2>1. CASE j < m
    <3>1. j \in 0..W - 1
      BY <1>1
    <3> QED  BY <1>2, <2>1, <3>1 DEF Agree, Common
  <2>2. CASE j >= m
    <3>1. j - m \in 0..w - 1 /\ m + (j - m) = j /\ m + (j - m) < f.len
      BY <1>1, <2>2, SMTT(30)
    <3>2. f.data[m + (j - m)] = b[j - m] /\ b[j - m] = Str(y)[m + (j - m)]
      BY <3>1 DEF Fits
    <3> QED  BY <3>1, <3>2
  <2> QED  BY <1>1, <2>1, <2>2
<1>4. Agree(f.len, f.data, Str(y))
  BY <1>3 DEF Agree
<1> QED  BY <1>0, <1>4, BaseAgrees

\* An entry longer than the bits of the pattern it admits fixes the pattern.
LEMMA FitsPattern ==
    ASSUME Table, NEW x \in 1..Len(base), NEW m \in Nat, NEW w \in Nat, NEW b \in Bits(w),
           NEW f \in Nets, isprefix(f, base[x].net), Fits(f, m, w, b), f.len >= m + w
    PROVE  EXTRACT(m, w, Str(x)) = b
<1>1. /\ f \in Net /\ f.len \in 0..W /\ W \in Nat /\ base[x].net \in Net /\ Str(x) \in Bits(W)
  BY BaseString, NetBits, GeoAssumption DEF Table
<1>2. Agree(f.len, f.data, Str(x))
  BY <1>1, PrefixBits DEF Str
<1>3. ASSUME NEW j \in 0..w - 1
      PROVE  (IF m + j \in DOMAIN Str(x) THEN Str(x)[m + j] ELSE 0) = b[j]
  <2>1. m + j < f.len /\ m + j \in 0..f.len - 1
    BY <1>1
  <2>2. m + j \in DOMAIN Str(x)
    BY <1>1, <2>1 DEF Bits
  <2> QED  BY <1>2, <2>1, <2>2 DEF Agree, Fits
<1>4. b = [j \in 0..w - 1 |-> b[j]]
  BY DEF Bits
<1> QED  BY <1>3, <1>4 DEF EXTRACT

\* The subtree of all the strings with the pattern.
LEMMA SubtreeCovers ==
    ASSUME Table, NEW lo \in 1..Len(base), NEW hi \in 1..Len(base), NEW m \in Nat, NEW w \in Nat,
           Common(m, lo, hi), NEW b \in Bits(w), NEW lo2 \in lo..hi, NEW hi2 \in lo2..hi,
           EXTRACT(m, w, Str(lo2)) = b,
           \A x \in lo..hi : EXTRACT(m, w, Str(x)) = b => x \in lo2..hi2
    PROVE  Covers(m, w, b, lo, hi, lo2, hi2)
<1> SUFFICES ASSUME NEW f \in Nets, NEW x \in lo..hi, isprefix(f, base[x].net), Fits(f, m, w, b)
             PROVE  \E y \in lo2..hi2 : isprefix(f, base[y].net)
  BY DEF Covers
<1>0. x \in 1..Len(base) /\ lo2 \in 1..Len(base) /\ lo2 \in lo2..hi2
  <2>1. Len(base) \in Nat
    BY DEF Table
  <2> QED  BY <2>1
<1>1. f.len \in 0..W /\ W \in Nat /\ Str(lo2) \in Bits(W)
  BY <1>0, BaseString, NetBits, GeoAssumption DEF Table
<1>2. CASE f.len >= m + w
  <2>1. EXTRACT(m, w, Str(x)) = b
    BY <1>0, <1>2, FitsPattern
  <2> QED  BY <2>1
<1>3. CASE f.len < m + w
  <2>1. ASSUME NEW j \in 0..w - 1, m + j < f.len PROVE b[j] = Str(lo2)[m + j]
    <3>1. m + j < W
      BY <1>1, <2>1
    <3>2. EXTRACT(m, w, Str(lo2))[j] = Str(lo2)[m + j]
      BY <1>1, <3>1, ExtractBit
    <3> QED  BY <3>2
  <2>2. isprefix(f, base[lo2].net)
    BY <1>0, <1>1, <1>3, <2>1, FitsString, SMTT(30)
  <2> QED  BY <1>0, <2>2
<1> QED  BY <1>1, <1>2, <1>3

\* The leaf of a string that ends within the pattern.
LEMMA WidenCovers ==
    ASSUME Table, NEW lo \in 1..Len(base), NEW hi \in 1..Len(base), NEW m \in Nat, NEW w \in Nat,
           Common(m, lo, hi), NEW b \in Bits(w), NEW y \in lo..hi,
           NEW l \in 0..w - 1, base[y].net.len = m + l, Fits(base[y].net, m, w, b)
    PROVE  Covers(m, w, b, lo, hi, y, y)
<1> SUFFICES ASSUME NEW f \in Nets, NEW x \in lo..hi, isprefix(f, base[x].net), Fits(f, m, w, b)
             PROVE  isprefix(f, base[y].net)
  BY DEF Covers
<1>0. x \in 1..Len(base) /\ y \in 1..Len(base)
  <2>1. Len(base) \in Nat
    BY DEF Table
  <2> QED  BY <2>1
<1>1. /\ f \in Net /\ f.len \in 0..W /\ W \in Nat /\ base[y].net.len \in 0..W
      /\ base[x].net \in Net /\ base[y].net \in Net
  BY <1>0, BaseString, NetBits, GeoAssumption DEF Table
<1>2. CASE f.len <= base[y].net.len
  <2>1. f.len <= m + w
    BY <1>1, <1>2
  <2>2. \A j \in 0..w - 1 : m + j < f.len => b[j] = Str(y)[m + j]
    BY <1>1, <1>2 DEF Fits, Str
  <2> QED  BY <2>1, <2>2, FitsString
<1>3. CASE f.len > base[y].net.len
  <2>0. PICK n \in 0..W : n = f.len /\ m + l < n
    BY <1>1, <1>3
  <2>1. Agree(n, f.data, Str(x))
    BY <1>1, <2>0, PrefixBits DEF Str
  <2>2. ASSUME NEW j \in 0..(m + l) - 1 PROVE Str(y)[j] = f.data[j]
    <3>0. j \in 0..W - 1 /\ j \in 0..n - 1
      BY <1>1, <2>0
    <3>1. CASE j < m
      BY <2>1, <3>0, <3>1 DEF Agree, Common
    <3>2. CASE j >= m
      <4>1. PICK k \in 0..w - 1 : m + k = j /\ m + k < m + l /\ m + k < n
        <5>1. j - m \in 0..w - 1 /\ m + (j - m) = j /\ j < m + l /\ j < n
          BY <3>2, <2>0, SMTT(30)
        <5> QED  BY <5>1
      <4>2. f.data[m + k] = b[k] /\ b[k] = Str(y)[m + k]
        BY <2>0, <4>1 DEF Fits, Str
      <4> QED  BY <4>1, <4>2
    <3> QED  BY <3>0, <3>1, <3>2
  <2>3. Agree(m + l, base[y].net.data, f.data)
    BY <2>2, Zenon DEF Agree, Str
  <2>4. isprefix(base[y].net, f)
    <3>1. base[y].net.len <= f.len /\ Agree(base[y].net.len, base[y].net.data, f.data)
      BY <1>1, <1>3, <2>3
    <3> QED  BY <1>1, <3>1, PrefixBits
  <2>5. f = base[y].net
    BY <1>0, <2>4 DEF Table
  <2> QED  BY <1>1, <2>5, PrefixSelf
<1> QED  BY <1>1, <1>2, <1>3

\* What the search for a matching prefix finds.
LEMMA MatchHolds ==
    ASSUME Table, NEW y \in 1..Len(base), newprefix \in Nat, NEW w \in Nat, NEW b \in Bits(w)
    PROVE  /\ Match(y, b) \in 0..W
           /\ \A j \in 0..w - 1 : newprefix + j < Match(y, b) => Str(y)[newprefix + j] = b[j]
           /\ \A f \in Nets : f /= base[y].net /\ isprefix(f, base[y].net) /\ f.len > newprefix
                              /\ f.len <= newprefix + w /\ Fits(f, newprefix, w, b)
                              => f.len <= Match(y, b)
<1> DEFINE m == newprefix
           D == {d \in Chain(base[y].pre) :
                   LET n == pre[d].net.len - newprefix
                   IN  n > 0 /\ EXTRACT(newprefix, n, Str(y)) = EXTRACT(0, n, b)}
           T == {0} \cup {pre[c].net.len : c \in D}
<1>0. W \in Nat /\ Str(y) \in Bits(W) /\ base[y].net \in Net /\ m \in Nat
  BY BaseString
<1> HIDE DEF m
<1>1. \A d \in Chain(base[y].pre) : pre[d].net \in Net /\ pre[d].net.len \in 0..W
  BY NetBits, GeoAssumption DEF Chain, Table, Leads
<1>2. T \subseteq 0..W /\ T /= {}
  BY <1>0, <1>1
<1>3. Match(y, b) = Max(T)
  BY DEF Match
<1> HIDE DEF T
<1>4. Max(T) \in T /\ \A n \in T : n <= Max(T)
  BY <1>0, <1>2, MaxIs
<1>5. ASSUME NEW j \in 0..w - 1, m + j < Match(y, b)
      PROVE  Str(y)[m + j] = b[j]
  <2>1. Max(T) /= 0
    BY <1>0, <1>2, <1>3, <1>4, <1>5
  <2>2. PICK d \in D : pre[d].net.len = Max(T)
    BY <1>4, <2>1 DEF T
  <2> DEFINE n == pre[d].net.len - m
  <2>3. n > 0 /\ EXTRACT(m, n, Str(y)) = EXTRACT(0, n, b) /\ n \in Nat /\ pre[d].net.len \in 0..W
    BY <1>0, <1>1, <2>2 DEF m
  <2>4. j \in 0..n - 1 /\ m + j \in DOMAIN Str(y) /\ 0 + j \in DOMAIN b /\ 0 + j = j
    BY <1>0, <1>2, <1>3, <1>5, <2>2, <2>3 DEF Bits
  <2>5. EXTRACT(m, n, Str(y))[j] = Str(y)[m + j] /\ EXTRACT(0, n, b)[j] = b[j]
    BY <2>4 DEF EXTRACT
  <2> QED  BY <2>3, <2>5
<1>6. ASSUME NEW f \in Nets, f /= base[y].net, isprefix(f, base[y].net), f.len > m,
             f.len <= m + w, Fits(f, m, w, b)
      PROVE  f.len <= Match(y, b)
  <2>1. PICK d \in Chain(base[y].pre) : pre[d].net = f
    BY <1>6, ChainHolds
  <2>2. f \in Net /\ f.len \in 0..W
    BY <1>1, <2>1
  <2>3. Agree(f.len, f.data, Str(y))
    BY <1>0, <1>6, <2>2, PrefixBits DEF Str
  <2> DEFINE n == f.len - m
  <2>4. n \in Nat /\ n > 0 /\ n <= w
    BY <1>0, <1>6, <2>2
  <2>5. ASSUME NEW j \in 0..n - 1
        PROVE  EXTRACT(m, n, Str(y))[j] = EXTRACT(0, n, b)[j]
    <3>1. /\ j \in 0..w - 1 /\ m + j < f.len /\ m + j \in 0..f.len - 1 /\ m + j \in 0..W - 1
          /\ 0 + j = j
      BY <1>0, <2>2, <2>4, SMTT(30)
    <3>2. m + j \in DOMAIN Str(y) /\ 0 + j \in DOMAIN b
      BY <1>0, <3>1 DEF Bits
    <3>3. EXTRACT(m, n, Str(y))[j] = Str(y)[m + j] /\ EXTRACT(0, n, b)[j] = b[j]
      BY <3>1, <3>2 DEF EXTRACT
    <3>4. Str(y)[m + j] = f.data[m + j] /\ f.data[m + j] = b[j]
      BY <1>6, <2>3, <3>1 DEF Agree, Fits
    <3> QED  BY <3>3, <3>4
  <2>6. EXTRACT(m, n, Str(y)) = EXTRACT(0, n, b)
    BY <2>5 DEF EXTRACT
  <2>7. d \in D
    BY <2>1, <2>4, <2>6 DEF m
  <2>8. f.len \in T
    BY <2>1, <2>7 DEF T
  <2> QED  BY <1>3, <1>4, <2>8
<1>7. Match(y, b) \in 0..W
  BY <1>2, <1>3, <1>4
<1> QED  BY <1>5, <1>6, <1>7 DEF m

\* A pattern between those of two strings that agree with an entry.
LEMMA FitsBetween ==
    ASSUME Table, NEW lo \in 1..Len(base), NEW hi \in 1..Len(base), NEW m \in Nat, NEW w \in Nat,
           Common(m, lo, hi), NEW b \in Bits(w), NEW f \in Nets, NEW x \in lo..hi, NEW y \in lo..hi,
           isprefix(f, base[x].net), Fits(f, m, w, b), f.len > m, f.len < m + w,
           \/ x <= y /\ Below(EXTRACT(m, w, Str(y)), b)
           \/ y <= x /\ Below(b, EXTRACT(m, w, Str(y)))
    PROVE  /\ \A j \in 0..w - 1 : m + j < f.len => b[j] = EXTRACT(m, w, Str(y))[j]
           /\ isprefix(f, base[y].net)
<1> DEFINE A == EXTRACT(m, w, Str(x))
           B == EXTRACT(m, w, Str(y))
<1>0. x \in 1..Len(base) /\ y \in 1..Len(base)
  <2>1. Len(base) \in Nat
    BY DEF Table
  <2> QED  BY <2>1
<1>1. /\ f \in Net /\ f.len \in 0..W /\ W \in Nat /\ base[x].net \in Net /\ base[y].net \in Net
      /\ Str(x) \in Bits(W) /\ Str(y) \in Bits(W)
  BY <1>0, BaseString, NetBits, GeoAssumption DEF Table
<1>2. PICK n \in 0..w : f.len = m + n /\ n > 0 /\ n < w
  <2>1. f.len - m \in 0..w /\ f.len = m + (f.len - m) /\ f.len - m > 0 /\ f.len - m < w
    BY <1>1, SMTT(30)
  <2> QED  BY <2>1
<1>3. /\ \A j \in 0..w - 1 : A[j] = IF m + j < W THEN Str(x)[m + j] ELSE 0
      /\ \A j \in 0..w - 1 : B[j] = IF m + j < W THEN Str(y)[m + j] ELSE 0
  BY <1>1, ExtractBit
<1>4. A \in Bits(w) /\ B \in Bits(w)
  <2>1. 0 \in 0..w - 1
    BY <1>2
  <2> QED  BY <1>1, <2>1, ExtractBit
<1>5. Agree(f.len, f.data, Str(x))
  BY <1>1, PrefixBits DEF Str
<1>6. ASSUME NEW j \in 0..n - 1 PROVE A[j] = b[j]
  <2>1. j \in 0..w - 1 /\ m + j < W /\ m + j \in 0..f.len - 1 /\ m + j < f.len
    BY <1>1, <1>2, SMTT(30)
  <2>2. A[j] = Str(x)[m + j] /\ Str(x)[m + j] = f.data[m + j] /\ f.data[m + j] = b[j]
    BY <1>3, <1>5, <2>1 DEF Agree, Fits
  <2> QED  BY <2>2
<1>7. Agree(n, A, b) /\ Agree(n, b, A)
  BY <1>6, Zenon DEF Agree
<1>8. \A j \in 0..n - 1 : b[j] = B[j]
  <2>1. CASE x <= y /\ Below(B, b)
    <3>1. A = B \/ Below(A, B)
      BY <2>1, PatternOrder
    <3>2. Agree(n, A, B)
      BY <1>2, <1>4, <1>7, <2>1, <3>1, Sandwich
    <3> QED  BY <1>6, <3>2 DEF Agree
  <2>2. CASE y <= x /\ Below(b, B)
    <3>1. B = A \/ Below(B, A)
      BY <2>2, PatternOrder
    <3>2. Agree(n, b, B)
      BY <1>2, <1>4, <1>7, <2>2, <3>1, Sandwich
    <3> QED  BY <3>2 DEF Agree
  <2> QED  BY <2>1, <2>2
<1>9. ASSUME NEW j \in 0..w - 1, m + j < f.len
      PROVE  b[j] = B[j] /\ b[j] = Str(y)[m + j]
  <2>1. j \in 0..n - 1 /\ m + j < W
    BY <1>1, <1>2, <1>9, SMTT(30)
  <2> QED  BY <1>3, <1>8, <2>1
<1>10. f.len <= m + w
  BY <1>2
<1>11. isprefix(f, base[y].net)
  BY <1>9, <1>10, FitsString
<1> QED  BY <1>9, <1>11

\* The string next to a gap, on the side of x, has f as a proper prefix.
LEMMA Neighbour ==
    ASSUME Table, NEW lo \in 1..Len(base), NEW hi \in 1..Len(base), newprefix \in Nat,
           NEW w \in Nat, Common(newprefix, lo, hi), NEW b \in Bits(w), NEW f \in Nets,
           NEW x \in lo..hi, NEW y \in lo..hi, isprefix(f, base[x].net),
           Fits(f, newprefix, w, b), f.len > newprefix, f.len < newprefix + w,
           \/ /\ x <= y /\ Below(EXTRACT(newprefix, w, Str(y)), b)
              /\ ~Fits(base[y].net, newprefix, w, b)
           \/ y <= x /\ Below(b, EXTRACT(newprefix, w, Str(y)))
    PROVE  isprefix(f, base[y].net) /\ f.len <= Match(y, b)
<1>1. /\ \A j \in 0..w - 1 : newprefix + j < f.len => b[j] = EXTRACT(newprefix, w, Str(y))[j]
      /\ isprefix(f, base[y].net)
  BY FitsBetween
<1>2. y \in 1..Len(base)
  <2>1. Len(base) \in Nat
    BY DEF Table
  <2> QED  BY <2>1
<1>3. /\ f \in Net /\ f.len \in 0..W /\ W \in Nat /\ Str(y) \in Bits(W)
      /\ \A j \in 0..W - 1 : j >= f.len => f.data[j] = 0
  BY <1>2, BaseString, NetBits, GeoAssumption DEF Table
<1>4. f /= base[y].net
  <2>1. CASE ~Fits(base[y].net, newprefix, w, b)
    BY <2>1
  <2>2. CASE Below(b, EXTRACT(newprefix, w, Str(y)))
    <3> SUFFICES ASSUME f = base[y].net PROVE FALSE
      OBVIOUS
    <3>1. PICK k \in 0..w - 1 : b[k] < EXTRACT(newprefix, w, Str(y))[k]
      BY <2>2 DEF Below, Bits
    <3>2. b[k] \in {0, 1}
      BY DEF Bits
    <3>3. EXTRACT(newprefix, w, Str(y))[k] = IF newprefix + k < W THEN Str(y)[newprefix + k] ELSE 0
      BY <1>3, ExtractBit
    <3>4. ~(newprefix + k < f.len)
      BY <1>1, <3>1, <3>2
    <3>5. ASSUME newprefix + k < W PROVE Str(y)[newprefix + k] = 0
      <4>1. newprefix + k \in 0..W - 1 /\ newprefix + k >= f.len
        BY <1>3, <3>4, <3>5
      <4> QED  BY <1>3, <4>1 DEF Str
    <3> QED  BY <3>1, <3>2, <3>3, <3>5
  <2> QED  BY <2>1, <2>2
<1>5. f.len <= newprefix + w
  BY <1>3
<1> QED  BY <1>1, <1>2, <1>4, <1>5, MatchHolds

\* So is the string with the longer match.
LEMMA MatchCovers ==
    ASSUME Table, NEW lo \in 1..Len(base), NEW hi \in 1..Len(base), newprefix \in Nat,
           NEW w \in Nat, Common(newprefix, lo, hi), NEW b \in Bits(w), NEW f \in Nets,
           NEW x \in lo..hi, NEW z \in lo..hi, isprefix(f, base[x].net),
           Fits(f, newprefix, w, b), f.len < newprefix + w, f.len <= Match(z, b)
    PROVE  isprefix(f, base[z].net)
<1>1. z \in 1..Len(base)
  <2>1. Len(base) \in Nat
    BY DEF Table
  <2> QED  BY <2>1
<1>2. f.len \in 0..W /\ W \in Nat
  BY NetBits, GeoAssumption DEF Table
<1>3. Match(z, b) \in 0..W
  BY <1>1, MatchHolds
<1>4. \A j \in 0..w - 1 : newprefix + j < Match(z, b) => Str(z)[newprefix + j] = b[j]
  BY <1>1, MatchHolds
<1>5. ASSUME NEW j \in 0..w - 1, newprefix + j < f.len PROVE b[j] = Str(z)[newprefix + j]
  <2>1. newprefix + j < Match(z, b)
    BY <1>2, <1>3, <1>5
  <2> QED  BY <1>4, <2>1
<1>6. f.len <= newprefix + w
  BY <1>2
<1> QED  BY <1>5, <1>6, FitsString

\* The choice between the strings before and at s.
Choice(s, lo, hi, b, z) ==
    /\ z \in lo..hi /\ z \in {s - 1, s}
    /\ s > lo /\ s <= hi => (z = s - 1 <=> Match(s - 1, b) > Match(s, b))

\* The strings from s on have patterns above b, those before it have lower ones
\* and end before b.
Above(m, w, b, s, hi) == \A x \in s..hi : Below(b, EXTRACT(m, w, Str(x)))
Passed(m, w, b, lo, s) == \A x \in lo..s - 1 : /\ Below(EXTRACT(m, w, Str(x)), b)
                                               /\ ~Fits(base[x].net, m, w, b)

\* The leaf for a pattern no string has.
LEMMA GapCovers ==
    ASSUME Table, NEW lo \in 1..Len(base), NEW hi \in 1..Len(base), newprefix \in Nat,
           NEW w \in Nat, Common(newprefix, lo, hi), NEW b \in Bits(w), NEW s \in Nat, NEW z,
           Passed(newprefix, w, b, lo, s), Above(newprefix, w, b, s, hi), Choice(s, lo, hi, b, z)
    PROVE  Covers(newprefix, w, b, lo, hi, z, z)
<1>1. Len(base) \in Nat /\ z \in lo..hi /\ z \in 1..Len(base) /\ z \in {s - 1, s}
  BY DEF Table, Choice
<1> SUFFICES ASSUME NEW f \in Nets, NEW x \in lo..hi, isprefix(f, base[x].net),
                    Fits(f, newprefix, w, b)
             PROVE  isprefix(f, base[z].net)
  BY <1>1 DEF Covers
<1>2. f \in Net /\ f.len \in 0..W /\ W \in Nat /\ x \in 1..Len(base)
  BY <1>1, NetBits, GeoAssumption, SMTT(30) DEF Table
<1>3. CASE f.len <= newprefix
  <2>1. f.len <= newprefix + w
    BY <1>2, <1>3
  <2>2. ASSUME NEW j \in 0..w - 1, newprefix + j < f.len PROVE FALSE
    BY <1>2, <1>3, <2>2
  <2> QED  BY <1>1, <2>1, <2>2, FitsString
<1>4. CASE f.len >= newprefix + w
  <2>1. EXTRACT(newprefix, w, Str(x)) = b
    BY <1>2, <1>4, FitsPattern
  <2>2. x < s \/ x >= s
    BY <1>2
  <2>3. Below(b, b)
    BY <2>1, <2>2 DEF Passed, Above
  <2> QED  BY <2>3, BelowIrreflexive
<1>5. CASE f.len > newprefix /\ f.len < newprefix + w
  <2>1. CASE x < s
    <3>1. s - 1 \in lo..hi /\ x <= s - 1 /\ s - 1 \in 1..Len(base)
      BY <1>1, <2>1
    <3>2. isprefix(f, base[s - 1].net) /\ f.len <= Match(s - 1, b)
      BY <1>5, <3>1, Neighbour DEF Passed
    <3>3. CASE z = s
      <4>1. s > lo /\ s <= hi /\ s \in 1..Len(base)
        BY <1>1, <2>1, <3>3
      <4>2. ~(Match(s - 1, b) > Match(s, b))
        BY <1>1, <3>3, <4>1 DEF Choice
      <4>3. Match(s, b) \in 0..W /\ Match(s - 1, b) \in 0..W
        BY <3>1, <4>1, MatchHolds
      <4>4. f.len <= Match(z, b)
        BY <1>2, <3>2, <3>3, <4>2, <4>3
      <4> QED  BY <1>1, <1>5, <4>4, MatchCovers
    <3> QED  BY <1>1, <3>2, <3>3
  <2>2. CASE x >= s
    <3>1. CASE s < lo
      BY <1>1, <2>2, <3>1
    <3>2. CASE s \in lo..hi
      <4>1. s <= x /\ s \in 1..Len(base)
        BY <1>1, <2>2, <3>2
      <4>2. isprefix(f, base[s].net) /\ f.len <= Match(s, b)
        BY <1>5, <3>2, <4>1, Neighbour DEF Above
      <4>3. CASE z = s - 1
        <5>1. s > lo /\ s <= hi /\ s - 1 \in 1..Len(base)
          BY <1>1, <3>2, <4>3
        <5>2. Match(s - 1, b) > Match(s, b)
          BY <4>3, <5>1 DEF Choice
        <5>3. Match(s, b) \in 0..W /\ Match(s - 1, b) \in 0..W
          BY <4>1, <5>1, MatchHolds
        <5>4. f.len <= Match(z, b)
          BY <1>2, <4>2, <4>3, <5>2, <5>3
        <5> QED  BY <1>1, <1>5, <5>4, MatchCovers
      <4> QED  BY <1>1, <4>2, <4>3
    <3> QED  BY <1>1, <2>2, <3>1, <3>2
  <2> QED  BY <1>2, <2>1, <2>2
<1> QED  BY <1>2, <1>3, <1>4, <1>5

\* The last string of a call, the bits before the branch, the position of a child.
End(a)     == a.first + a.n - 1
np(q)      == args[q].prefix + trie[q].skip
Kid(q, b)  == <<trie[q].adr, b>>

\* The call for position q covers strings of base with common bits.
CallOK(q) ==
    /\ args[q] \in [prefix : Nat, first : 1..Len(base), n : 1..Len(base)]
    /\ End(args[q]) <= Len(base) /\ q[1] \in 0..nextfree - 1
    /\ args[q].n > 1 => Common(args[q].prefix, args[q].first, End(args[q]))

\* The node for pattern b of node q.
ChildOK(q, b) ==
    /\ Kid(q, b) \in DOMAIN args /\ args[Kid(q, b)].prefix = np(q) + trie[q].branch
    /\ Covers(np(q), trie[q].branch, b, args[q].first, End(args[q]),
              args[Kid(q, b)].first, End(args[Kid(q, b)]))

\* A node that branches: its strings agree up to the bits it branches on.
InnerOK(q) ==
    /\ trie[q].branch \in Nat \ {0} /\ trie[q].skip \in Nat /\ trie[q].adr \in 1..nextfree - 1
    /\ np(q) < W /\ Common(np(q), args[q].first, End(args[q]))
    /\ \A b \in Bits(trie[q].branch) :
         IF q = cur /\ b \in todo THEN Kid(q, b) \notin DOMAIN args ELSE ChildOK(q, b)

NodeOK(q) == IF args[q].n = 1 THEN trie[q] = Node(0, 0, args[q].first) ELSE InnerOK(q)

\* The loop over the subtrees of cur: the strings before p have patterns below
\* those still to do and end before them, the others have patterns to do.
LoopOK ==
    /\ cur \in DOMAIN trie /\ args[cur].n > 1 /\ todo \subseteq Bits(branch)
    /\ p \in args[cur].first..last
    /\ \A b \in todo, c \in Bits(branch) : Below(b, c) => c \in todo
    /\ \A x \in args[cur].first..p - 1, b \in todo :
         /\ Below(EXTRACT(newprefix, branch, Str(x)), b)
         /\ ~Fits(base[x].net, newprefix, branch, b)
    /\ \A x \in p..last - 1 : EXTRACT(newprefix, branch, Str(x)) \in todo

\* Every node has been called for, and the root first.
TrieType ==
    /\ nextfree \in Nat \ {0} /\ trie \in [DOMAIN trie -> [branch : Nat, skip : Nat, adr : Nat]]
    /\ args \in [DOMAIN args -> [prefix : Nat, first : Nat, n : Nat]]
    /\ DOMAIN args = DOMAIN trie \cup calls /\ calls \cap DOMAIN trie = {}
    /\ pc \in {"sort", "split"} => DOMAIN trie = {} /\ calls = {} /\ todo = {}
    /\ pc \notin {"sort", "split"} => Root \in DOMAIN args /\ args[Root] = Args(0, 1, Len(base))
    /\ pc \in Built => calls = {} /\ todo = {}

Calls  == \A q \in DOMAIN args : CallOK(q)
Nodes  == \A q \in DOMAIN trie : NodeOK(q)
Blocks == \A q, r \in DOMAIN trie :
            args[q].n > 1 /\ args[r].n > 1 /\ trie[q].adr = trie[r].adr => q = r
Loop   == todo /= {} => LoopOK
TrieInv == TrieType /\ Calls /\ Nodes /\ Blocks /\ Loop

-----------------------------------------------------------------------------
(* Lookups *)

\* The network contains the host that is looked up.
Contains(f) == Same(f.len, f.data, host)

FindType ==
    /\ host \in Addr \cup {NoAddr} /\ pos \in Nat /\ preadr \in 0..Len(pre) /\ deny \subseteq Net
    /\ pc \in {"find", "prefix"} => host \in Addr /\ host /= NoAddr /\ deny = {}
    /\ pc \notin {"sort", "split", "build"} => at \in DOMAIN trie
    /\ pc \in {"sort", "split", "build"} => preadr = NOPRE /\ deny = {} /\ at = Root

\* The strings under the node reached have all the entries that contain the
\* host as prefixes.
Reached ==
    pc = "find" =>
      /\ args[at].n > 1 => pos = np(at)
      /\ \A f \in Nets : Contains(f) =>
           \E x \in args[at].first..End(args[at]) : isprefix(f, base[x].net)

\* The entries that contain the host are among those the pointers still lead to.
Followed ==
    pc = "prefix" =>
      /\ args[at].n = 1
      /\ preadr /= NOPRE => isprefix(pre[preadr].net, base[args[at].first].net)
      /\ \A f \in Nets : Contains(f) => preadr /= NOPRE /\ isprefix(f, pre[preadr].net)

FindInv == FindType /\ Reached /\ Followed /\ FilterExact

\* The array of pointers is as long as the table once it is made.
Filled == IF pc = "sort" THEN ptr = <<>> ELSE Size > 0 /\ ptr = [j \in 1..Size |-> ptr[j]]
GeoInv == SplitInv /\ Filled /\ TrieInv /\ FindInv

-----------------------------------------------------------------------------
(* The table is built, and does not change *)

\* The empty table.
LEMMA SplitInit ==
    ASSUME GeoInit
    PROVE  SplitInv /\ Filled
<1>1. /\ entries = <<>> /\ base = <<>> /\ pre = <<>> /\ i = 1 /\ pc = "sort" /\ Size = 0
      /\ Len(base) = 0 /\ Len(pre) = 0
  BY DEF GeoInit, Size
<1>a. ptr = <<>>
  BY DEF GeoInit
<1>2. TableType
  BY <1>1 DEF TableType
<1>3. Ordered /\ Pointers /\ Filled
  BY <1>1, <1>a DEF Ordered, Pointers, Filled
<1>4. Placed
  BY <1>1 DEF Placed, BaseFrom, PreFrom, AllPlaced, BaseOrder, PreOrder
<1> QED  BY <1>2, <1>3, <1>4 DEF SplitInv

\* Sort appends an entry behind the others.
LEMMA SortStep ==
    ASSUME SplitInv, Filled, NEW e \in Net, Sort(e)
    PROVE  SplitInv' /\ Filled'
<1>0. TableType /\ Ordered /\ i = 1 /\ base = <<>> /\ pre = <<>> /\ pc = "sort"
  BY DEF SplitInv, TableType, Sort
<1>1. /\ entries \in Seq(Net) /\ Size \in Nat /\ \A j \in 1..Size : entries[j] \in Net
  BY <1>0 DEF TableType, Size
<1>2. /\ entries' \in Seq(Net) /\ Size' = Size + 1 /\ entries'[Size + 1] = e
      /\ \A j \in 1..Size : entries'[j] = entries[j]
  BY <1>1 DEF Sort, Size
<1>3. i' = 1 /\ base' = <<>> /\ pre' = <<>> /\ pc' = "sort" /\ Len(base') = 0 /\ Len(pre') = 0
  BY <1>0 DEF Sort
<1>4. TableType'
  BY <1>1, <1>2, <1>3 DEF TableType
<1>5. Ordered'
  <2> SUFFICES ASSUME NEW j \in 1..Size + 1, NEW k \in 1..Size + 1, j < k
               PROVE  pstrcmp(entries'[j], entries'[k])
    BY <1>2 DEF Ordered
  <2>1. CASE k \in 1..Size
    <3>1. j \in 1..Size
      BY <1>1, <2>1
    <3> QED  BY <1>0, <1>2, <2>1, <3>1 DEF Ordered
  <2>2. CASE k = Size + 1
    <3>1. j \in 1..Size /\ Size \in 1..Size /\ Size > 0
      BY <1>1, <2>2
    <3>2. pstrcmp(entries[Size], e)
      BY <3>1 DEF Sort
    <3>3. j = Size \/ pstrcmp(entries[j], entries[Size])
      BY <1>0, <1>1, <3>1 DEF Ordered
    <3>4. pstrcmp(entries[j], e)
      BY <1>1, <3>1, <3>2, <3>3, CmpTrans
    <3> QED  BY <1>2, <2>2, <3>1, <3>4
  <2> QED  BY <1>1, <2>1, <2>2
<1>6. Placed'
  BY <1>3 DEF Placed, BaseFrom, PreFrom, AllPlaced, BaseOrder, PreOrder
<1>7. ptr' = <<>>
  BY <1>0 DEF Filled, Sort
<1>8. Pointers' /\ Filled'
  BY <1>3, <1>7 DEF Pointers, Filled
<1> QED  BY <1>4, <1>5, <1>6, <1>8 DEF SplitInv

\* Sorted sets the pointers to NOPRE.
LEMMA SortedStep ==
    ASSUME SplitInv, Sorted
    PROVE  SplitInv' /\ Filled'
<1>0. /\ TableType /\ Ordered /\ i = 1 /\ base = <<>> /\ pre = <<>> /\ pc = "sort" /\ Size \in Nat
      /\ Len(base) = 0 /\ Len(pre) = 0
  BY DEF SplitInv, TableType, Sorted, Size
<1>1. /\ entries' = entries /\ i' = i /\ base' = base /\ pre' = pre /\ pc' = "split"
      /\ Size > 0 /\ Size' = Size /\ ptr' = [j \in 1..Size |-> NOPRE]
  BY DEF Sorted, Size
<1>2. TableType'
  BY <1>0, <1>1 DEF TableType
<1>a. ptr' = [j \in 1..Size' |-> ptr'[j]]
  BY <1>1
<1>3. Ordered' /\ Filled'
  BY <1>0, <1>1, <1>a DEF Ordered, Filled
<1>4. Placed'
  BY <1>0, <1>1 DEF Placed, BaseFrom, PreFrom, AllPlaced, BaseOrder, PreOrder
<1>5. Pointers'
  <2>1. DOMAIN ptr' = 1..Size /\ \A j \in 1..Size : ptr'[j] = 0
    BY <1>1 DEF NOPRE
  <2>2. i' - 1 = 0
    BY <1>0, <1>1
  <2> QED  BY <1>0, <1>1, <2>1, <2>2 DEF Pointers, PtrTo, NOPRE
<1> QED  BY <1>2, <1>3, <1>4, <1>5 DEF SplitInv

\* The actions that leave the table alone.
LEMMA TableSame ==
    ASSUME SplitInv, Filled, UNCHANGED tableVars,
           \/ pc' = pc
           \/ pc = "split" /\ i > Size /\ pc' = "build"
           \/ pc \notin {"sort", "split"} /\ pc' \in {"build"} \cup Built
    PROVE  SplitInv' /\ Filled'
<1>0. TableType /\ Ordered /\ Placed /\ Pointers
  BY DEF SplitInv
<1>1. /\ entries' = entries /\ i' = i /\ base' = base /\ pre' = pre /\ ptr' = ptr
      /\ Size' = Size
  BY DEF tableVars, Size
<1>2. /\ pc' = "sort" <=> pc = "sort"
      /\ pc' \in {"sort", "split", "build"} \cup Built
      /\ pc' \notin {"sort", "split"} => i = Size + 1
  <2>1. Size \in Nat /\ i \in 1..Size + 1 /\ pc \in {"sort", "split", "build"} \cup Built
        /\ (pc \notin {"sort", "split"} => i = Size + 1)
    BY <1>0 DEF TableType, Size
  <2> QED  BY <2>1 DEF Built
<1>3. TableType'
  BY <1>0, <1>1, <1>2 DEF TableType
<1>4. Ordered' /\ Filled'
  BY <1>0, <1>1, <1>2 DEF Ordered, Filled
<1>5. Placed'
  BY <1>0, <1>1 DEF Placed, BaseFrom, PreFrom, AllPlaced, BaseOrder, PreOrder, From, Longest
<1>6. Pointers'
  BY <1>0, <1>1, <1>2 DEF Pointers, PtrTo
<1> QED  BY <1>3, <1>4, <1>5, <1>6 DEF SplitInv

\* So the definitions over the table keep their values.
LEMMA TableDefs ==
    ASSUME UNCHANGED tableVars
    PROVE  /\ Nets' = Nets /\ base' = base /\ pre' = pre /\ entries' = entries
           /\ \A m, lo, hi : Common(m, lo, hi)' <=> Common(m, lo, hi)
           /\ \A m, w, b, lo, hi, lo2, hi2 :
                Covers(m, w, b, lo, hi, lo2, hi2)' <=> Covers(m, w, b, lo, hi, lo2, hi2)
<1>1. Nets' = Nets /\ base' = base /\ pre' = pre /\ entries' = entries
  BY DEF tableVars, Nets, Size
<1>2. \A m, lo, hi : Common(m, lo, hi)' <=> Common(m, lo, hi)
  BY <1>1 DEF Common, Str
<1>3. \A m, w, b, lo, hi, lo2, hi2 :
                Covers(m, w, b, lo, hi, lo2, hi2)' <=> Covers(m, w, b, lo, hi, lo2, hi2)
  BY <1>1 DEF Covers
<1> QED  BY <1>1, <1>2, <1>3

-----------------------------------------------------------------------------
(* computeBranch *)

\* The strings in a range agree on the bits that its first and last share.
LEMMA CommonBits ==
    ASSUME Table, NEW lo \in 1..Len(base), NEW hi \in 1..Len(base), NEW m \in 0..W,
           Agree(m, Str(lo), Str(hi))
    PROVE  Common(m, lo, hi)
<1>0. Len(base) \in Nat /\ W \in Nat
  BY BaseString
<1>1. ASSUME NEW x \in lo..hi PROVE Agree(m, Str(lo), Str(x))
  <2>1. x \in 1..Len(base) /\ lo \in 1..Len(base)
    BY <1>0
  <2>2. Str(lo) = Str(x) \/ Below(Str(lo), Str(x))
    <3>1. lo = x \/ pstrcmp(base[lo].net, base[x].net)
      BY <1>0, <2>1 DEF Table, BaseOrder
    <3> QED  BY <3>1 DEF pstrcmp, Str
  <2>3. Str(x) = Str(hi) \/ Below(Str(x), Str(hi))
    <3>1. hi = x \/ pstrcmp(base[x].net, base[hi].net)
      BY <1>0, <2>1 DEF Table, BaseOrder
    <3> QED  BY <3>1 DEF pstrcmp, Str
  <2>4. Str(lo) \in Bits(W) /\ Str(x) \in Bits(W) /\ Str(hi) \in Bits(W)
    BY <2>1, BaseString
  <2> QED  BY <1>0, <2>2, <2>3, <2>4, Sandwich
<1> SUFFICES ASSUME NEW x \in lo..hi, NEW y \in lo..hi, NEW j \in 0..W - 1, j < m
             PROVE  Str(x)[j] = Str(y)[j]
  BY DEF Common
<1>2. j \in 0..m - 1
  BY <1>0
<1> QED  BY <1>1, <1>2 DEF Agree

\* The bits that computeBranch skips are common to the whole range.
LEMMA NewPrefix ==
    ASSUME Table, NEW a \in [prefix : Nat, first : 1..Len(base), n : 1..Len(base)],
           End(a) <= Len(base), a.n > 1, Common(a.prefix, a.first, End(a))
    PROVE  newPrefix(a) \in a.prefix..W - 1 /\ Common(newPrefix(a), a.first, End(a))
<1> DEFINE x == a.first
           y == End(a)
           T == {j \in a.prefix..W - 1 : Str(a.first)[j] /= Str(a.first + a.n - 1)[j]}
<1>0. /\ Len(base) \in Nat /\ W \in Nat /\ x \in 1..Len(base) /\ y \in 1..Len(base) /\ x < y
      /\ a.prefix \in Nat /\ a.first + a.n - 1 = y
  BY GeoAssumption DEF Table, End
<1>a. x /= y
  BY <1>0
<1>b. \E j \in 0..W - 1 : j < base[x].net.len /\ Str(x)[j] /= Str(y)[j]
  BY <1>0, <1>a, BaseDiffer, Zenon
<1>1. PICK j \in 0..W - 1 : Str(x)[j] /= Str(y)[j]
  BY <1>b
<1>2. x \in x..y /\ y \in x..y
  BY <1>0
<1>3. ~(j < a.prefix)
  BY <1>1, <1>2 DEF Common
<1>4. j \in T
  BY <1>0, <1>1, <1>3 DEF End
<1>5. T \subseteq Nat /\ T /= {}
  BY <1>0, <1>4
<1>6. newPrefix(a) = Min(T)
  BY DEF newPrefix
<1> HIDE DEF T
<1>7. newPrefix(a) \in T /\ \A k \in T : newPrefix(a) <= k
  <2>1. Min(T) \in T /\ \A k \in T : Min(T) <= k
    BY ONLY <1>5, MinIs, Zenon
  <2> QED  BY ONLY <2>1, <1>6
<1>8. newPrefix(a) \in a.prefix..W - 1
  BY <1>7 DEF T
<1>9. ASSUME NEW k \in 0..newPrefix(a) - 1 PROVE Str(x)[k] = Str(y)[k]
  <2>0. k \in 0..W - 1
    BY <1>0, <1>8
  <2>1. CASE k < a.prefix
    BY <1>2, <2>0, <2>1 DEF Common
  <2>2. CASE k >= a.prefix
    <3>1. k \notin T
      BY <1>0, <1>7, <1>8
    <3> QED  BY <1>0, <2>0, <2>2, <3>1 DEF T
  <2> QED  BY <1>0, <2>0, <2>1, <2>2
<1>10. Agree(newPrefix(a), Str(x), Str(y)) /\ newPrefix(a) \in 0..W
  BY <1>0, <1>8, <1>9 DEF Agree
<1> QED  BY <1>0, <1>8, <1>10, CommonBits

\* computeBranch returns at least one bit.
LEMMA ComputeBranch ==
    ASSUME NEW a, newPrefix(a) \in Nat
    PROVE  computeBranch(a) \in Nat \ {0}
<1>0. W \in Nat /\ ROOTBRANCH \in Nat
  BY GeoAssumption
<1>1. CASE a.n = 2
  BY <1>1 DEF computeBranch
<1>2. CASE a.n /= 2 /\ ROOTBRANCH > 0 /\ a.prefix = 0 /\ a.first = 1
  <2>1. computeBranch(a) = ROOTBRANCH
    BY <1>2, Zenon DEF computeBranch
  <2> QED  BY <1>0, <1>2, <2>1
<1>3. CASE a.n /= 2 /\ ~(ROOTBRANCH > 0 /\ a.prefix = 0 /\ a.first = 1)
  <2> DEFINE T == {b \in 2..W + 1 : Fill(a, newPrefix(a), b)}
  <2>1. newPrefix(a) + (W + 1) > W
    BY <1>0
  <2>2. Fill(a, newPrefix(a), W + 1)
    BY <2>1, Zenon DEF Fill
  <2>3. W + 1 \in 2..W + 1
    BY GeoAssumption
  <2>4. W + 1 \in T
    BY <2>2, <2>3
  <2>5. T \subseteq Nat /\ T /= {}
    BY <1>0, <2>4
  <2>6. computeBranch(a) = Min(T) - 1
    BY <1>3, Zenon DEF computeBranch
  <2>7. Min(T) \in T
    BY <2>5, MinIs
  <2>8. Min(T) \in 2..W + 1
    BY <2>7
  <2> HIDE DEF T
  <2> QED  BY <1>0, <2>6, <2>8
<1> QED  BY <1>1, <1>2, <1>3

-----------------------------------------------------------------------------
(* buildTrie *)

\* The loop over the subtrees of cur.
LEMMA LoopFacts ==
    ASSUME TrieInv, Table, todo /= {}
    PROVE  /\ LoopOK /\ CallOK(cur) /\ InnerOK(cur)
           /\ args[cur].first \in 1..Len(base) /\ End(args[cur]) \in 1..Len(base)
           /\ args[cur].first < End(args[cur]) /\ last = End(args[cur]) + 1
           /\ newprefix \in Nat /\ newprefix < W /\ branch \in Nat \ {0} /\ np(cur) = newprefix
           /\ Common(newprefix, args[cur].first, End(args[cur]))
           /\ Len(base) \in Nat /\ W \in Nat /\ p \in args[cur].first..End(args[cur]) + 1
<1>1. LoopOK /\ cur \in DOMAIN trie /\ args[cur].n > 1 /\ cur \in DOMAIN args
  BY DEF TrieInv, Loop, LoopOK, TrieType
<1>2. CallOK(cur) /\ NodeOK(cur)
  BY <1>1 DEF TrieInv, Calls, Nodes
<1>3. InnerOK(cur)
  BY <1>1, <1>2 DEF NodeOK
<1>4. Len(base) \in Nat /\ W \in Nat
  BY GeoAssumption DEF Table
<1>5. /\ args[cur].first \in 1..Len(base) /\ args[cur].n \in 1..Len(base)
      /\ args[cur].prefix \in Nat
      /\ End(args[cur]) <= Len(base)
  BY <1>2 DEF CallOK
<1>6. /\ End(args[cur]) \in 1..Len(base)
      /\ args[cur].first < End(args[cur]) /\ last = End(args[cur]) + 1
  BY <1>1, <1>4, <1>5 DEF End, last
<1>7. newprefix = np(cur) /\ newprefix \in Nat /\ newprefix < W /\ branch \in Nat \ {0}
  BY <1>3, <1>5 DEF InnerOK, np, newprefix, branch
<1>8. Common(newprefix, args[cur].first, End(args[cur]))
  BY <1>3, <1>7 DEF InnerOK
<1>9. p \in args[cur].first..End(args[cur]) + 1
  BY <1>1, <1>6 DEF LoopOK
<1> QED  BY <1>1, <1>2, <1>3, <1>4, <1>5, <1>6, <1>7, <1>8, <1>9

\* The pattern of an iteration divides the strings of the range.
LEMMA Divided ==
    ASSUME TrieInv, Table, NEW b, NEW k \in Nat, Iteration(b, k)
    PROVE  /\ b \in todo /\ b \in Bits(branch) /\ pc = "build"
           /\ Passed(newprefix, branch, b, args[cur].first, p)
           /\ p + k \in args[cur].first..End(args[cur]) + 1
           /\ \A x \in p..p + k - 1 : EXTRACT(newprefix, branch, Str(x)) = b
           /\ Above(newprefix, branch, b, p + k, End(args[cur]))
<1>0. b \in todo /\ pc = "build" /\ p + k <= last
  BY DEF Iteration
<1>1. /\ LoopOK /\ last = End(args[cur]) + 1 /\ p \in args[cur].first..End(args[cur]) + 1
      /\ args[cur].first \in 1..Len(base) /\ End(args[cur]) \in 1..Len(base)
      /\ newprefix \in Nat /\ branch \in Nat \ {0} /\ Len(base) \in Nat
      /\ Common(newprefix, args[cur].first, End(args[cur]))
  BY <1>0, LoopFacts
<1>2. b \in Bits(branch) /\ Passed(newprefix, branch, b, args[cur].first, p)
  BY <1>0, <1>1 DEF LoopOK, Passed
<1>3. p + k \in args[cur].first..End(args[cur]) + 1
  BY <1>0, <1>1
<1>4. Above(newprefix, branch, b, p + k, End(args[cur]))
  <2> SUFFICES ASSUME NEW x \in p + k..End(args[cur])
               PROVE  Below(b, EXTRACT(newprefix, branch, Str(x)))
    BY DEF Above
  <2> DEFINE A == EXTRACT(newprefix, branch, Str(p + k))
             B == EXTRACT(newprefix, branch, Str(x))
  <2>1. /\ p + k < last /\ p + k \in p..last - 1 /\ p + k <= x /\ x \in p..last - 1
        /\ p + k \in args[cur].first..End(args[cur]) /\ x \in args[cur].first..End(args[cur])
    BY <1>1, <1>3
  <2>2. A /= b /\ A \in todo /\ B \in todo
    BY <1>1, <2>1 DEF Iteration, LoopOK
  <2>3. Below(b, A)
    BY <2>2 DEF Iteration
  <2>4. A = B \/ Below(A, B)
    BY <1>1, <2>1, PatternOrder
  <2>5. A \in Bits(branch) /\ B \in Bits(branch)
    BY <1>1, <2>2 DEF LoopOK
  <2> QED  BY <1>1, <1>2, <2>3, <2>4, <2>5, BelowTrans
<1>5. \A x \in p..p + k - 1 : EXTRACT(newprefix, branch, Str(x)) = b
  BY DEF Iteration
<1> QED  BY <1>0, <1>2, <1>3, <1>4, <1>5

\* What a step of the loop has to keep: todo without S, and p'.
LoopRest(S) ==
    /\ p' \in args[cur].first..last
    /\ \A b \in todo \ S, c \in Bits(branch) : Below(b, c) => c \in todo \ S
    /\ \A b \in todo \ S : Passed(newprefix, branch, b, args[cur].first, p')
    /\ \A x \in p'..last - 1 : EXTRACT(newprefix, branch, Str(x)) \in todo \ S

\* The calls for the patterns S.
LEMMA SubCallsStep ==
    ASSUME TrieInv, Table, pc = "build", NEW S, S \subseteq todo, S /= {},
           NEW first, NEW n \in Nat \ {0}, first \in args[cur].first..End(args[cur]),
           first + n - 1 <= End(args[cur]),
           n > 1 => Common(newprefix + branch, first, first + n - 1),
           \A b \in S : Covers(newprefix, branch, b, args[cur].first, End(args[cur]),
                               first, first + n - 1),
           SubCalls(S, first, n), LoopRest(S), UNCHANGED <<tableVars, nextfree, cur, pc>>
    PROVE  TrieInv'
<1> DEFINE C == Children(S)
           v == Args(newprefix + branch, first, n)
<1>0. todo /= {}
  OBVIOUS
<1>1. /\ LoopOK /\ CallOK(cur) /\ InnerOK(cur)
      /\ args[cur].first \in 1..Len(base) /\ End(args[cur]) \in 1..Len(base)
      /\ newprefix \in Nat /\ branch \in Nat \ {0} /\ np(cur) = newprefix /\ Len(base) \in Nat
      /\ cur \in DOMAIN trie
  BY <1>0, LoopFacts DEF LoopOK
<1>2. /\ TrieType /\ Calls /\ Nodes /\ Blocks
  BY DEF TrieInv
<1>3. /\ nextfree' = nextfree /\ cur' = cur /\ pc' = pc /\ todo' = todo \ S /\ base' = base
      /\ \A m, lo, hi : Common(m, lo, hi)' <=> Common(m, lo, hi)
      /\ \A m, w, b, lo, hi, lo2, hi2 :
           Covers(m, w, b, lo, hi, lo2, hi2)' <=> Covers(m, w, b, lo, hi, lo2, hi2)
  BY TableDefs DEF SubCalls
<1>4. ASSUME NEW q \in C PROVE q \notin DOMAIN args
  <2>1. PICK b \in S : q = Kid(cur, b)
    BY DEF Children, Kid
  <2>2. b \in todo /\ b \in Bits(trie[cur].branch)
    BY <1>1 DEF LoopOK, branch
  <2> QED  BY <1>1, <2>1, <2>2 DEF InnerOK
<1>5. DOMAIN args = DOMAIN trie \cup calls /\ calls \cap DOMAIN trie = {} /\ C \cap DOMAIN args = {}
  BY <1>2, <1>4 DEF TrieType
<1>6. /\ DOMAIN args' = DOMAIN args \cup C /\ \A q \in C : args'[q] = v
      /\ \A q \in DOMAIN args : args'[q] = args[q]
  <2>1. args' = Put(args, C, v)
    BY DEF SubCalls
  <2> HIDE DEF C, v
  <2> QED  BY <1>5, <2>1 DEF Put
<1>7. /\ v.prefix = newprefix + branch /\ v.first = first /\ v.n = n
      /\ v \in [prefix : Nat, first : 1..Len(base), n : 1..Len(base)]
      /\ End(v) = first + n - 1 /\ End(v) <= Len(base)
  BY <1>1 DEF Args, End
<1>8. /\ DOMAIN trie' = IF n = 1 THEN DOMAIN trie \cup C ELSE DOMAIN trie
      /\ calls' = IF n = 1 THEN calls ELSE calls \cup C
      /\ \A q \in DOMAIN trie : trie'[q] = trie[q]
      /\ n = 1 => \A q \in C : trie'[q] = Node(0, 0, first)
  <2>1. CASE n = 1
    <3>1. trie' = Put(trie, C, Node(0, 0, first)) /\ calls' = calls
      BY <2>1 DEF SubCalls, Leaves
    <3> HIDE DEF C
    <3> QED  BY <1>5, <2>1, <3>1 DEF Put
  <2>2. CASE n /= 1
    BY <2>2 DEF SubCalls
  <2> QED  BY <2>1, <2>2
<1> HIDE DEF C, v
<1>9. TrieType'
  <2>1. args' \in [DOMAIN args' -> [prefix : Nat, first : Nat, n : Nat]]
    <3>1. args' = [q \in DOMAIN args' |-> args'[q]]
      BY DEF SubCalls, Put
    <3>2. \A q \in DOMAIN args' : args'[q] \in [prefix : Nat, first : Nat, n : Nat]
      BY <1>2, <1>6, <1>7 DEF TrieType
    <3> QED  BY <3>1, <3>2
  <2>2. trie' \in [DOMAIN trie' -> [branch : Nat, skip : Nat, adr : Nat]]
    <3>1. trie' = [q \in DOMAIN trie' |-> trie'[q]]
      <4>1. CASE n = 1
        BY <4>1 DEF SubCalls, Leaves, Put
      <4>2. CASE n /= 1
        BY <1>2, <4>2 DEF SubCalls, TrieType
      <4> QED  BY <4>1, <4>2
    <3>2. \A q \in DOMAIN trie' : trie'[q] \in [branch : Nat, skip : Nat, adr : Nat]
      <4>1. first \in Nat
        BY <1>1
      <4>2. Node(0, 0, first) \in [branch : Nat, skip : Nat, adr : Nat]
        BY <4>1 DEF Node
      <4> QED  BY <1>2, <1>8, <4>2 DEF TrieType
    <3> QED  BY <3>1, <3>2
  <2>3. DOMAIN args' = DOMAIN trie' \cup calls' /\ calls' \cap DOMAIN trie' = {}
    BY <1>5, <1>6, <1>8
  <2>4. Root \in DOMAIN args' /\ args'[Root] = Args(0, 1, Len(base))
    BY <1>2, <1>6 DEF TrieType
  <2> QED  BY <1>2, <1>3, <2>1, <2>2, <2>3, <2>4 DEF TrieType, Built, Root, Args
<1>10. Calls'
  <2> SUFFICES ASSUME NEW q \in DOMAIN args' PROVE CallOK(q)'
    BY DEF Calls
  <2>1. CASE q \in DOMAIN args
    <3>1. CallOK(q) /\ args'[q] = args[q]
      BY <1>2, <1>6, <2>1 DEF Calls
    <3> QED  BY <1>3, <3>1 DEF CallOK, End
  <2>2. CASE q \in C
    <3>1. PICK b \in S : q = <<trie[cur].adr, b>>
      BY <2>2 DEF C, Children
    <3>2. q[1] = trie[cur].adr
      BY <3>1
    <3>3. q[1] \in 0..nextfree - 1
      BY <1>1, <1>2, <3>2 DEF InnerOK, TrieType
    <3> QED  BY <1>3, <1>6, <1>7, <2>2, <3>3 DEF CallOK
  <2> QED  BY <1>6, <2>1, <2>2
<1>11. ASSUME NEW q \in DOMAIN trie
       PROVE  /\ q \in DOMAIN args /\ args'[q] = args[q] /\ trie'[q] = trie[q]
              /\ np(q)' = np(q) /\ NodeOK(q)
  BY <1>2, <1>5, <1>6, <1>8 DEF np, Nodes
<1>12. ASSUME NEW q \in DOMAIN trie, NEW b, ChildOK(q, b)
       PROVE  ChildOK(q, b)'
  <2>1. Kid(q, b)' = Kid(q, b) /\ args'[Kid(q, b)] = args[Kid(q, b)] /\ Kid(q, b) \in DOMAIN args'
    BY <1>6, <1>8, <1>12 DEF Kid, ChildOK
  <2> QED  BY <1>3, <1>11, <1>12, <2>1 DEF ChildOK, End
<1>13. ASSUME NEW b \in S
       PROVE  ChildOK(cur, b)'
  <2>1. Kid(cur, b)' = Kid(cur, b) /\ Kid(cur, b) \in C
    BY <1>1, <1>3, <1>8 DEF Kid, C, Children
  <2>2. args'[Kid(cur, b)] = v /\ Kid(cur, b) \in DOMAIN args'
    BY <1>6, <2>1
  <2>3. Covers(newprefix, branch, b, args[cur].first, End(args[cur]), v.first, End(v))
    BY <1>7
  <2>4. /\ np(cur)' = newprefix /\ trie'[cur].branch = branch
        /\ args'[cur] = args[cur] /\ trie'[cur] = trie[cur]
    BY <1>1, <1>11 DEF branch, np
  <2> QED  BY <1>3, <1>7, <2>1, <2>2, <2>3, <2>4 DEF ChildOK, End, np
<1>14. ASSUME NEW q \in DOMAIN trie, args[q].n /= 1
       PROVE  InnerOK(q)'
  <2>0. InnerOK(q)
    BY <1>11, <1>14 DEF NodeOK
  <2>1. /\ trie'[q].branch \in Nat \ {0} /\ trie'[q].skip \in Nat
        /\ trie'[q].adr \in 1..nextfree' - 1
        /\ np(q)' < W /\ Common(np(q), args[q].first, End(args[q]))' 
    BY <1>3, <1>11, <2>0 DEF InnerOK, End
  <2>2. ASSUME NEW b \in Bits(trie[q].branch)
        PROVE  IF q = cur /\ b \in todo' THEN Kid(q, b) \notin DOMAIN args' ELSE ChildOK(q, b)'
    <3>1. CASE q = cur /\ b \in todo'
      <4>1. b \in todo /\ b \notin S /\ Kid(q, b) \notin DOMAIN args
        BY <1>3, <2>0, <3>1 DEF InnerOK
      <4>2. Kid(q, b) \notin C
        BY <3>1, <4>1 DEF Kid, C, Children
      <4> QED  BY <1>6, <3>1, <4>1, <4>2
    <3>2. CASE q = cur /\ b \in S
      BY <1>3, <1>13, <3>2
    <3>3. CASE ~(q = cur /\ b \in todo)
      <4>1. ChildOK(q, b)
        BY <2>0, <3>3 DEF InnerOK
      <4>2. ~(q = cur /\ b \in todo')
        BY <1>3, <3>3
      <4> QED  BY <1>12, <4>1, <4>2
    <3> QED  BY <1>3, <3>1, <3>2, <3>3
  <2> QED  BY <1>3, <1>11, <2>1, <2>2 DEF InnerOK, Kid
<1>15. Nodes'
  <2> SUFFICES ASSUME NEW q \in DOMAIN trie' PROVE NodeOK(q)'
    BY DEF Nodes
  <2>1. CASE q \in DOMAIN trie
    BY <1>11, <1>14, <2>1 DEF NodeOK, Node
  <2>2. CASE q \notin DOMAIN trie
    <3>1. n = 1 /\ q \in C
      BY <1>8, <2>2
    <3>2. args'[q].n = 1 /\ args'[q].first = first /\ trie'[q] = Node(0, 0, first)
      BY <1>6, <1>7, <1>8, <3>1
    <3> QED  BY <3>2 DEF NodeOK, Node
  <2> QED  BY <2>1, <2>2
<1>16. Blocks'
  <2> SUFFICES ASSUME NEW q \in DOMAIN trie', NEW r \in DOMAIN trie',
                        args'[q].n > 1, args'[r].n > 1,
                      trie'[q].adr = trie'[r].adr
               PROVE  q = r
    BY DEF Blocks
  <2>1. q \in DOMAIN trie /\ r \in DOMAIN trie
    BY <1>6, <1>7, <1>8
  <2> QED  BY <1>2, <1>11, <2>1 DEF Blocks
<1>17. Loop'
  <2>1. /\ newprefix' = newprefix /\ branch' = branch /\ last' = last /\ args'[cur] = args[cur]
        /\ trie'[cur] = trie[cur]
    BY <1>1, <1>3, <1>11 DEF newprefix, branch, last
  <2>2. cur \in DOMAIN trie' /\ args[cur].n > 1 /\ todo \ S \subseteq Bits(branch)
    BY <1>1, <1>8 DEF LoopOK
  <2>3. /\ p' \in args[cur].first..last
        /\ \A b \in todo \ S, c \in Bits(branch) : Below(b, c) => c \in todo \ S
        /\ \A x \in args[cur].first..p' - 1, b \in todo \ S :
             /\ Below(EXTRACT(newprefix, branch, Str(x)), b)
             /\ ~Fits(base[x].net, newprefix, branch, b)
        /\ \A x \in p'..last - 1 : EXTRACT(newprefix, branch, Str(x)) \in todo \ S
    BY DEF LoopRest, Passed
  <2>4. LoopOK'
    BY <1>3, <2>1, <2>2, <2>3 DEF LoopOK, Str
  <2> QED  BY <2>4 DEF Loop
<1> QED  BY <1>9, <1>10, <1>15, <1>16, <1>17 DEF TrieInv

\* Without the least pattern, todo is still closed upwards.
LEMMA StillClosed ==
    ASSUME TrieInv, Table, NEW b, NEW k \in Nat, Iteration(b, k), NEW S, b \in S,
           \A d \in todo \ S, c \in S : ~Below(d, c)
    PROVE  \A d \in todo \ S, c \in Bits(branch) : Below(d, c) => c \in todo \ S
<1>1. b \in todo
  BY DEF Iteration
<1>2. LoopOK
  BY <1>1, LoopFacts
<1> QED  BY <1>2 DEF LoopOK

\* Nothing in todo is below the pattern of an iteration.
LEMMA LeastPattern ==
    ASSUME TrieInv, Table, NEW b, NEW k \in Nat, Iteration(b, k)
    PROVE  \A d \in todo : ~Below(d, b)
<1>1. b \in todo /\ \A d \in todo : d = b \/ Below(b, d)
  BY DEF Iteration
<1>2. LoopOK /\ branch \in Nat
  BY <1>1, LoopFacts
<1>3. todo \subseteq Bits(branch)
  BY <1>2 DEF LoopOK
<1> SUFFICES ASSUME NEW d \in todo, Below(d, b) PROVE FALSE
  OBVIOUS
<1>4. b \in Bits(branch) /\ d \in Bits(branch)
  BY <1>1, <1>3
<1>5. Below(b, b)
  BY <1>1, <1>2, <1>4, BelowTrans
<1> QED  BY <1>2, <1>4, <1>5, BelowIrreflexive

\* Gap keeps the invariant of the trie.
LEMMA GapStep ==
    ASSUME TrieInv, Table, NEW b, Gap(b)
    PROVE  TrieInv'
<1> DEFINE lo == args[cur].first
           hi == End(args[cur])
           match1 == IF p > lo THEN Match(p - 1, b) ELSE 0
           match2 == IF p < last THEN Match(p, b) ELSE 0
           z == IF (match1 > match2 /\ p > lo) \/ p = last THEN p - 1 ELSE p
<1>1. Iteration(b, 0) /\ SubCalls({b}, z, 1)
  BY DEF Gap
<1>2. /\ b \in todo /\ b \in Bits(branch) /\ pc = "build" /\ Passed(newprefix, branch, b, lo, p)
      /\ Above(newprefix, branch, b, p + 0, hi)
  BY <1>1, Divided
<1>3. /\ lo \in 1..Len(base) /\ hi \in 1..Len(base) /\ lo < hi /\ last = hi + 1 /\ Len(base) \in Nat
      /\ newprefix \in Nat /\ branch \in Nat /\ p \in lo..hi + 1 /\ LoopOK
      /\ Common(newprefix, lo, hi)
  BY <1>2, LoopFacts
<1>4. p' = p /\ UNCHANGED <<tableVars, nextfree, cur, pc>>
  <2>1. p' = p + 0 /\ UNCHANGED <<tableVars, nextfree, cur, pc>>
    BY <1>1 DEF Iteration
  <2> QED  BY <1>3, <2>1
<1>5. Choice(p, lo, hi, b, z)
  <2> HIDE DEF lo, hi
  <2>1. CASE p = hi + 1
    BY <1>3, <2>1 DEF Choice
  <2>2. CASE p = lo
    BY <1>3, <2>2 DEF Choice
  <2>3. CASE p > lo /\ p < hi + 1
    <3>1. match1 = Match(p - 1, b) /\ match2 = Match(p, b) /\ p /= last /\ p < last
      BY <1>3, <2>3
    <3>2. z = IF match1 > match2 THEN p - 1 ELSE p
      BY <2>3, <3>1
    <3>3. p - 1 /= p /\ p - 1 \in lo..hi /\ p \in lo..hi
      BY <1>3, <2>3
    <3> QED  BY <3>1, <3>2, <3>3 DEF Choice
  <2> QED  BY <1>3, <2>1, <2>2, <2>3
<1> HIDE DEF z
<1>6. /\ z \in lo..hi /\ z \in Int /\ z + 1 - 1 = z
  BY <1>3, <1>5 DEF Choice
<1>7. Covers(newprefix, branch, b, lo, hi, z, z)
  <2>1. p \in Nat /\ p + 0 = p
    BY <1>3
  <2> QED  BY <1>2, <1>3, <1>5, <2>1, GapCovers
<1>8. LoopRest({b})
  <2>1. p' \in lo..last
    BY <1>3, <1>4
  <2>2. \A d \in todo \ {b}, c \in {b} : ~Below(d, c)
    BY <1>1, LeastPattern
  <2>3. \A d \in todo \ {b}, c \in Bits(branch) : Below(d, c) => c \in todo \ {b}
    BY <1>1, <2>2, StillClosed
  <2>4. \A d \in todo \ {b} : Passed(newprefix, branch, d, lo, p')
    BY <1>3, <1>4 DEF LoopOK, Passed
  <2>5. ASSUME NEW x \in p'..last - 1 PROVE EXTRACT(newprefix, branch, Str(x)) \in todo \ {b}
    <3>1. x \in p..last - 1 /\ x \in p + 0..hi
      BY <1>3, <1>4
    <3>2. EXTRACT(newprefix, branch, Str(x)) \in todo
      BY <1>3, <3>1 DEF LoopOK
    <3>3. Below(b, EXTRACT(newprefix, branch, Str(x)))
      BY <1>2, <3>1 DEF Above
    <3>4. EXTRACT(newprefix, branch, Str(x)) /= b
      BY <1>2, <1>3, <3>3, BelowIrreflexive
    <3> QED  BY <3>2, <3>4
  <2> QED  BY <2>1, <2>3, <2>4, <2>5 DEF LoopRest
<1>9. \A d \in {b} : Covers(newprefix, branch, d, lo, hi, z, z + 1 - 1)
  BY <1>6, <1>7
<1>10. z + 1 - 1 <= hi
  BY <1>3, <1>6
<1> HIDE DEF lo, hi
<1>11. 1 \in Nat \ {0} /\ ~(1 > 1) /\ {b} \subseteq todo /\ {b} /= {}
  BY <1>2
<1> QED  BY <1>1, <1>2, <1>4, <1>6, <1>8, <1>9, <1>10, <1>11, SubCallsStep DEF lo, hi

\* Subtree keeps the invariant of the trie.
LEMMA SubtreeStep ==
    ASSUME TrieInv, Table, NEW b, NEW k \in Nat, Subtree(b, k)
    PROVE  TrieInv'
<1> DEFINE lo == args[cur].first
           hi == End(args[cur])
<1>1. Iteration(b, k) /\ SubCalls({b}, p, k) /\ k > 0 /\ ~(k = 1 /\ Short(p))
  BY DEF Subtree
<1>2. /\ b \in todo /\ b \in Bits(branch) /\ pc = "build" /\ Passed(newprefix, branch, b, lo, p)
      /\ Above(newprefix, branch, b, p + k, hi) /\ p + k \in lo..hi + 1
      /\ \A x \in p..p + k - 1 : EXTRACT(newprefix, branch, Str(x)) = b
  BY <1>1, Divided
<1>3. /\ lo \in 1..Len(base) /\ hi \in 1..Len(base) /\ lo < hi /\ last = hi + 1 /\ Len(base) \in Nat
      /\ newprefix \in Nat /\ branch \in Nat /\ p \in lo..hi + 1 /\ LoopOK /\ W \in Nat
      /\ Common(newprefix, lo, hi)
  BY <1>2, LoopFacts
<1> HIDE DEF lo, hi
<1>4. p' = p + k /\ UNCHANGED <<tableVars, nextfree, cur, pc>>
  BY <1>1 DEF Iteration
<1>5. /\ p \in lo..hi /\ p + k - 1 \in p..hi /\ p \in p..p + k - 1
  BY <1>1, <1>2, <1>3
\* The strings of the subtree agree up to the end of the pattern.
<1>6. Common(newprefix + branch, p, p + k - 1)
  <2> SUFFICES ASSUME NEW x \in p..p + k - 1, NEW y \in p..p + k - 1, NEW j \in 0..W - 1,
                      j < newprefix + branch
               PROVE  Str(x)[j] = Str(y)[j]
    BY DEF Common
  <2>1. x \in lo..hi /\ y \in lo..hi /\ x \in 1..Len(base) /\ y \in 1..Len(base)
    BY <1>3, <1>5
  <2>2. CASE j < newprefix
    BY <1>3, <2>1, <2>2 DEF Common
  <2>3. CASE j >= newprefix
    <3>1. PICK n \in 0..branch - 1 : newprefix + n = j
      <4>1. j - newprefix \in 0..branch - 1 /\ newprefix + (j - newprefix) = j
        BY <1>3, <2>3
      <4> QED  BY <4>1
    <3>2. Str(x) \in Bits(W) /\ Str(y) \in Bits(W) /\ newprefix + n < W
      BY <1>3, <2>1, <3>1, BaseString
    <3>3. /\ EXTRACT(newprefix, branch, Str(x))[n] = Str(x)[j]
          /\ EXTRACT(newprefix, branch, Str(y))[n] = Str(y)[j]
      BY <1>3, <3>1, <3>2, ExtractBit
    <3> QED  BY <1>2, <3>3
  <2> QED  BY <1>3, <2>2, <2>3
<1>7. Covers(newprefix, branch, b, lo, hi, p, p + k - 1)
  <2>1. ASSUME NEW x \in lo..hi, EXTRACT(newprefix, branch, Str(x)) = b PROVE x \in p..p + k - 1
    <3>1. ~Below(b, b)
      BY <1>2, <1>3, BelowIrreflexive
    <3>2. ~(x < p)
      BY <1>2, <1>3, <2>1, <3>1 DEF Passed
    <3>3. ~(x >= p + k)
      BY <1>2, <1>3, <2>1, <3>1 DEF Above
    <3> QED  BY <1>3, <3>2, <3>3
  <2>2. EXTRACT(newprefix, branch, Str(p)) = b
    BY <1>2, <1>5
  <2> QED  BY <1>2, <1>3, <1>5, <2>1, <2>2, SubtreeCovers
\* They do not end before.
<1>8. ASSUME NEW x \in p..p + k - 1, NEW d \in todo \ {b}
      PROVE  ~Fits(base[x].net, newprefix, branch, d)
  <2>0. x \in lo..hi /\ x \in 1..Len(base) /\ EXTRACT(newprefix, branch, Str(x)) = b
    BY <1>2, <1>3, <1>5
  <2>1. PICK l \in 0..W : l = base[x].net.len
    BY <2>0, BaseString
  <2>2. PICK n \in Nat : n = newprefix + branch
    BY <1>3
  <2>3. l >= n
    <3> SUFFICES ASSUME l < n PROVE FALSE
      BY <2>1, <2>2
    <3>1. CASE k = 1
      <4>1. x = p
        BY <1>3, <3>1
      <4>2. PICK y \in lo..hi : y /= x
        BY <1>3
      <4>3. y \in 1..Len(base)
        BY <1>3
      <4>4. PICK j \in 0..W - 1 : j < l /\ Str(x)[j] /= Str(y)[j]
        BY <2>0, <2>1, <4>2, <4>3, BaseDiffer
      <4>5. ~(j < newprefix)
        BY <1>3, <2>0, <4>4 DEF Common
      <4>6. l - newprefix \in 0..branch - 1
        BY <1>3, <2>2, <4>4, <4>5
      <4> QED  BY <1>1, <2>1, <3>1, <4>1, <4>6 DEF Short
    <3>2. CASE k /= 1
      <4>1. PICK y \in p..p + k - 1 : y /= x
        <5>1. p \in p..p + k - 1 /\ p + 1 \in p..p + k - 1 /\ p /= p + 1
          BY <1>1, <1>3, <3>2
        <5> QED  BY <5>1
      <4>2. y \in 1..Len(base)
        BY <1>3, <1>5
      <4>3. PICK j \in 0..W - 1 : j < l /\ Str(x)[j] /= Str(y)[j]
        BY <2>0, <2>1, <4>1, <4>2, BaseDiffer
      <4>4. j < newprefix + branch
        BY <2>2, <4>3
      <4> QED  BY <1>6, <4>3, <4>4 DEF Common
    <3> QED  BY <3>1, <3>2
  <2>4. ASSUME Fits(base[x].net, newprefix, branch, d) PROVE FALSE
    <3>1. base[x].net \in Nets /\ base[x].net \in Net
      BY <2>0, BaseString
    <3>2. isprefix(base[x].net, base[x].net)
      BY <3>1, PrefixSelf
    <3>3. d \in Bits(branch) /\ base[x].net.len >= newprefix + branch
      BY <1>3, <2>1, <2>2, <2>3 DEF LoopOK
    <3>4. EXTRACT(newprefix, branch, Str(x)) = d
      BY <1>3, <2>0, <2>4, <3>1, <3>2, <3>3, FitsPattern
    <3> QED  BY <2>0, <3>4
  <2> QED  BY <2>4
<1>9. LoopRest({b})
  <2>1. p' \in lo..last
    BY <1>2, <1>3, <1>4
  <2>2. \A d \in todo \ {b}, c \in {b} : ~Below(d, c)
    BY <1>1, LeastPattern
  <2>3. \A d \in todo \ {b}, c \in Bits(branch) : Below(d, c) => c \in todo \ {b}
    BY <1>1, <2>2, StillClosed
  <2>4. ASSUME NEW d \in todo \ {b} PROVE Passed(newprefix, branch, d, lo, p')
    <3> SUFFICES ASSUME NEW x \in lo..p + k - 1
                 PROVE  /\ Below(EXTRACT(newprefix, branch, Str(x)), d)
                        /\ ~Fits(base[x].net, newprefix, branch, d)
      BY <1>3, <1>4 DEF Passed
    <3>1. CASE x < p
      <4>1. x \in args[cur].first..p - 1
        BY <1>3, <3>1 DEF lo
      <4> QED  BY <1>3, <4>1 DEF LoopOK
    <3>2. CASE x >= p
      <4>1. x \in p..p + k - 1
        BY <1>3, <3>2
      <4>2. Below(b, d)
        BY <1>1 DEF Iteration
      <4> QED  BY <1>2, <1>8, <4>1, <4>2
    <3> QED  BY <1>3, <3>1, <3>2
  <2>5. ASSUME NEW x \in p'..last - 1 PROVE EXTRACT(newprefix, branch, Str(x)) \in todo \ {b}
    <3>1. x \in p..last - 1 /\ x \in p + k..hi
      BY <1>3, <1>4
    <3>2. EXTRACT(newprefix, branch, Str(x)) \in todo
      BY <1>3, <3>1 DEF LoopOK
    <3>3. Below(b, EXTRACT(newprefix, branch, Str(x)))
      BY <1>2, <3>1 DEF Above
    <3>4. EXTRACT(newprefix, branch, Str(x)) /= b
      BY <1>2, <1>3, <3>3, BelowIrreflexive
    <3> QED  BY <3>2, <3>4
  <2> QED  BY <2>1, <2>3, <2>4, <2>5 DEF LoopRest, lo
<1>10. p + k - 1 <= hi /\ k \in Nat \ {0} /\ {b} \subseteq todo /\ {b} /= {}
  BY <1>1, <1>2, <1>3
<1>11. \A d \in {b} : Covers(newprefix, branch, d, lo, hi, p, p + k - 1)
  BY <1>7
<1> QED  BY <1>1, <1>2, <1>4, <1>5, <1>6, <1>9, <1>10, <1>11, SubCallsStep DEF lo, hi

\* Widen keeps the invariant of the trie.
LEMMA WidenStep ==
    ASSUME TrieInv, Table, NEW b, Widen(b)
    PROVE  TrieInv'
<1> DEFINE lo == args[cur].first
           hi == End(args[cur])
           S  == {c \in Bits(branch) : Same(base[p].net.len - newprefix, c, b)}
<1>1. Iteration(b, 1) /\ Short(p) /\ SubCalls(S, p, 1)
  BY DEF Widen
<1>2. /\ b \in todo /\ b \in Bits(branch) /\ pc = "build" /\ Passed(newprefix, branch, b, lo, p)
      /\ Above(newprefix, branch, b, p + 1, hi) /\ p + 1 \in lo..hi + 1
      /\ \A x \in p..p + 1 - 1 : EXTRACT(newprefix, branch, Str(x)) = b
  BY <1>1, Divided
<1>3. /\ lo \in 1..Len(base) /\ hi \in 1..Len(base) /\ lo < hi /\ last = hi + 1 /\ Len(base) \in Nat
      /\ newprefix \in Nat /\ branch \in Nat /\ p \in lo..hi + 1 /\ LoopOK /\ W \in Nat
      /\ Common(newprefix, lo, hi)
  BY <1>2, LoopFacts
<1> HIDE DEF lo, hi
<1>4. p' = p + 1 /\ UNCHANGED <<tableVars, nextfree, cur, pc>>
  BY <1>1 DEF Iteration
<1>5. p \in lo..hi /\ p \in 1..Len(base) /\ EXTRACT(newprefix, branch, Str(p)) = b
  BY <1>2, <1>3
<1>6. /\ base[p].net.len \in 0..W /\ Str(p) \in Bits(W)
      /\ \A j \in 0..W - 1 : j >= base[p].net.len => Str(p)[j] = 0
  BY <1>5, BaseString, NetBits DEF Str
<1>7. PICK l \in 0..branch - 1 : /\ base[p].net.len - newprefix = l
                                 /\ base[p].net.len = newprefix + l
  BY <1>1, <1>3, <1>6, SMTT(30) DEF Short
<1>8. S = {c \in Bits(branch) : Agree(l, c, b)}
  <2>1. \A c \in Bits(branch) : Same(l, c, b) <=> Agree(l, c, b)
    BY <1>2, <1>3, SameBits
  <2> QED  BY <1>7, <2>1
<1> HIDE DEF S
<1>9. \A j \in 0..branch - 1 : b[j] = IF newprefix + j < W THEN Str(p)[newprefix + j] ELSE 0
  BY <1>3, <1>5, <1>6, ExtractBit
\* A pattern goes to this string if the string admits it.
<1>10. ASSUME NEW c \in Bits(branch)
       PROVE  c \in S <=> Fits(base[p].net, newprefix, branch, c)
  <2>1. ASSUME NEW j \in 0..branch - 1
        PROVE  newprefix + j < base[p].net.len <=> j \in 0..l - 1
    BY <1>3, <1>7
  <2>2. ASSUME NEW j \in 0..l - 1
        PROVE  /\ j \in 0..branch - 1 /\ newprefix + j < base[p].net.len
               /\ base[p].net.data[newprefix + j] = b[j]
    <3>1. j \in 0..branch - 1 /\ newprefix + j < W /\ newprefix + j < newprefix + l
      BY <1>3, <1>6, <1>7
    <3> QED  BY <1>7, <1>9, <3>1 DEF Str
  <2>3. ASSUME Agree(l, c, b) PROVE Fits(base[p].net, newprefix, branch, c)
    BY <2>1, <2>2, <2>3 DEF Agree, Fits
  <2>4. ASSUME Fits(base[p].net, newprefix, branch, c) PROVE Agree(l, c, b)
    <3> SUFFICES ASSUME NEW j \in 0..l - 1 PROVE c[j] = b[j]
      BY DEF Agree
    <3> QED  BY <2>2, <2>4 DEF Fits
  <2> QED  BY <1>8, <2>3, <2>4
\* b is the least of the patterns.
<1>11. ASSUME NEW c \in S, c /= b PROVE Below(b, c)
  <2>0. c \in Bits(branch) /\ Agree(l, c, b)
    BY <1>8
  <2> DEFINE T == {j \in 0..branch - 1 : b[j] /= c[j]}
  <2>1. T /= {} /\ T \subseteq Nat
    BY <1>2, <1>3, <1>11, <2>0 DEF Bits
  <2>2. PICK t \in T : \A j \in T : t <= j
    BY <2>1, Least
  <2>3. ~(t < l)
    BY <1>3, <2>0, <2>2 DEF Agree
  <2>4. b[t] = 0
    <3>1. CASE newprefix + t < W
      <4>1. newprefix + t \in 0..W - 1 /\ newprefix + t >= newprefix + l
        BY <1>3, <2>3, <3>1
      <4> QED  BY <1>6, <1>7, <1>9, <3>1, <4>1
    <3>2. CASE ~(newprefix + t < W)
      BY <1>9, <3>2
    <3> QED  BY <3>1, <3>2
  <2>5. c[t] = 1 /\ t \in DOMAIN b
    BY <1>2, <2>0, <2>2, <2>4 DEF Bits
  <2>6. \A j \in 0..t - 1 : b[j] = c[j]
    BY <1>3, <2>2
  <2>7. b[t] < c[t]
    BY <2>4, <2>5
  <2> QED  BY <2>5, <2>6, <2>7 DEF Below
<1>12. b \in S /\ S \subseteq todo
  <2>1. b \in S
    BY <1>2, <1>8 DEF Agree
  <2>2. ASSUME NEW c \in S PROVE c \in todo
    <3>1. c \in Bits(branch)
      BY <1>8
    <3> QED  BY <1>2, <1>3, <1>11, <3>1 DEF LoopOK
  <2> QED  BY <2>1, <2>2
<1>13. ASSUME NEW c \in S PROVE Covers(newprefix, branch, c, lo, hi, p, p)
  <2>1. c \in Bits(branch) /\ Fits(base[p].net, newprefix, branch, c)
    BY <1>8, <1>10
  <2> QED  BY <1>3, <1>5, <1>7, <2>1, WidenCovers
<1>14. LoopRest(S)
  <2>1. p' \in lo..last
    BY <1>2, <1>3, <1>4
  <2>2. ASSUME NEW d \in todo \ S, NEW c \in S, Below(d, c) PROVE FALSE
    <3>1. /\ d \in Bits(branch) /\ c \in Bits(branch) /\ Below(b, d)
          /\ Agree(l, b, c) /\ l \in 0..branch
      BY <1>1, <1>3, <1>8, <1>12 DEF LoopOK, Iteration, Agree
    <3>2. Agree(l, b, d)
      BY <1>2, <1>3, <2>2, <3>1, Sandwich
    <3>3. Agree(l, d, b)
      BY <3>2 DEF Agree
    <3> QED  BY <1>8, <3>1, <3>3
  <2>3. \A d \in todo \ S, c \in Bits(branch) : Below(d, c) => c \in todo \ S
    BY <1>1, <1>12, <2>2, StillClosed
  <2>4. ASSUME NEW d \in todo \ S PROVE Passed(newprefix, branch, d, lo, p')
    <3> SUFFICES ASSUME NEW x \in lo..p
                 PROVE  /\ Below(EXTRACT(newprefix, branch, Str(x)), d)
                        /\ ~Fits(base[x].net, newprefix, branch, d)
      <4>1. (p + 1) - 1 = p
        BY <1>3
      <4> QED  BY <1>4, <4>1 DEF Passed
    <3>1. CASE x < p
      <4>1. x \in args[cur].first..p - 1
        BY <1>3, <3>1 DEF lo
      <4> QED  BY <1>3, <4>1 DEF LoopOK
    <3>2. CASE x = p
      <4>1. d \in Bits(branch) /\ Below(b, d)
        BY <1>1, <1>3, <1>12 DEF LoopOK, Iteration
      <4> QED  BY <1>5, <1>10, <3>2, <4>1
    <3> QED  BY <1>3, <3>1, <3>2
  <2>5. ASSUME NEW x \in p'..last - 1 PROVE EXTRACT(newprefix, branch, Str(x)) \in todo \ S
    <3>1. x \in p..last - 1 /\ x \in lo..hi /\ x \in 1..Len(base) /\ x /= p
      BY <1>3, <1>4
    <3> DEFINE c == EXTRACT(newprefix, branch, Str(x))
    <3>2. c \in todo /\ c \in Bits(branch)
      BY <1>3, <3>1 DEF LoopOK
    <3>3. PICK j \in 0..W - 1 : j < base[p].net.len /\ Str(p)[j] /= Str(x)[j]
      BY <1>5, <3>1, BaseDiffer
    <3>4. ~(j < newprefix)
      BY <1>3, <1>5, <3>1, <3>3 DEF Common
    <3>5. PICK n \in 0..l - 1 : newprefix + n = j
      <4>1. j - newprefix \in 0..l - 1 /\ newprefix + (j - newprefix) = j
        BY <1>3, <1>7, <3>3, <3>4
      <4> QED  BY <4>1
    <3>6. n \in 0..branch - 1 /\ newprefix + n < W /\ Str(x) \in Bits(W)
      BY <1>3, <3>1, <3>5, BaseString
    <3>7. c[n] = Str(x)[j] /\ b[n] = Str(p)[j]
      BY <1>3, <1>9, <3>5, <3>6, ExtractBit
    <3>8. ~Agree(l, c, b)
      BY <3>3, <3>5, <3>7 DEF Agree
    <3> QED  BY <1>8, <3>2, <3>8
  <2> QED  BY <2>1, <2>3, <2>4, <2>5 DEF LoopRest, lo
<1>15. p + 1 - 1 = p /\ p + 1 - 1 <= hi /\ S /= {} /\ 1 \in Nat \ {0} /\ ~(1 > 1)
  BY <1>3, <1>5, <1>12
<1>16. \A c \in S : Covers(newprefix, branch, c, lo, hi, p, p + 1 - 1)
  BY <1>13, <1>15
<1> QED  BY <1>1, <1>2, <1>4, <1>5, <1>12, <1>14, <1>15, <1>16, SubCallsStep DEF lo, hi

\* A call whose range is one string writes a leaf, any other begins a loop.
LEMMA CallStep ==
    ASSUME TrieInv, Table, NEW q, Call(q)
    PROVE  TrieInv'
<1>1. /\ TrieType /\ Calls /\ Nodes /\ Blocks /\ pc = "build" /\ todo = {} /\ q \in calls
      /\ calls' = calls \ {q} /\ args' = args /\ pc' = pc /\ q \in DOMAIN args /\ CallOK(q)
      /\ nextfree \in Nat \ {0}
  BY DEF TrieInv, Call, TrieType, Calls
<1>2. /\ base' = base
      /\ \A m, lo, hi : Common(m, lo, hi)' <=> Common(m, lo, hi)
      /\ \A m, w, b, lo, hi, lo2, hi2 :
           Covers(m, w, b, lo, hi, lo2, hi2)' <=> Covers(m, w, b, lo, hi, lo2, hi2)
  <2>1. UNCHANGED tableVars
    BY DEF Call
  <2> QED  BY <2>1, TableDefs
<1>3. DOMAIN args = DOMAIN trie \cup calls /\ calls \cap DOMAIN trie = {} /\ q \notin DOMAIN trie
  BY <1>1 DEF TrieType
<1>4. Len(base) \in Nat /\ W \in Nat
  BY GeoAssumption DEF Table
<1>5. /\ args[q] \in [prefix : Nat, first : 1..Len(base), n : 1..Len(base)]
      /\ args[q].prefix \in Nat /\ args[q].first \in 1..Len(base) /\ args[q].n \in 1..Len(base)
  BY <1>1 DEF CallOK
<1>6. ASSUME NEW node \in [branch : Nat, skip : Nat, adr : Nat], trie' = Put(trie, {q}, node)
      PROVE  /\ DOMAIN trie' = DOMAIN trie \cup {q} /\ trie'[q] = node
             /\ \A r \in DOMAIN trie : trie'[r] = trie[r]
             /\ trie' \in [DOMAIN trie' -> [branch : Nat, skip : Nat, adr : Nat]]
             /\ DOMAIN args' = DOMAIN trie' \cup calls' /\ calls' \cap DOMAIN trie' = {}
  <2>1. /\ DOMAIN trie' = DOMAIN trie \cup {q} /\ trie'[q] = node
        /\ \A r \in DOMAIN trie : trie'[r] = trie[r]
    BY <1>3, <1>6 DEF Put
  <2>2. trie' = [r \in DOMAIN trie' |-> trie'[r]]
    BY <1>6 DEF Put
  <2>3. \A r \in DOMAIN trie' : trie'[r] \in [branch : Nat, skip : Nat, adr : Nat]
    BY <1>1, <2>1 DEF TrieType
  <2> QED  BY <1>1, <1>3, <2>1, <2>2, <2>3
<1>7. ASSUME NEW r \in DOMAIN trie, NEW b, ChildOK(r, b), trie'[r] = trie[r]
      PROVE  ChildOK(r, b)'
  BY <1>1, <1>2, <1>7 DEF ChildOK, Kid, np, End
<1>8. ASSUME nextfree' \in Nat, nextfree <= nextfree' PROVE Calls'
  BY <1>1, <1>2, <1>8 DEF Calls, CallOK
<1>9. ASSUME NEW r \in DOMAIN trie, trie'[r] = trie[r], nextfree' \in Nat, nextfree <= nextfree',
             r /= cur' \/ todo' = {}
      PROVE  NodeOK(r)'
  <2>0. NodeOK(r) /\ np(r)' = np(r)
    BY <1>1, <1>9 DEF Nodes, np
  <2>1. CASE args[r].n = 1
    BY <1>1, <1>9, <2>0, <2>1 DEF NodeOK, Node
  <2>2. CASE args[r].n /= 1
    <3>0. InnerOK(r)
      BY <2>0, <2>2 DEF NodeOK
    <3>1. /\ trie[r].branch \in Nat \ {0} /\ trie[r].skip \in Nat
          /\ trie[r].adr \in 1..nextfree' - 1
          /\ np(r) < W /\ Common(np(r), args[r].first, End(args[r]))
      BY <1>1, <1>9, <3>0 DEF InnerOK
    <3>2. ASSUME NEW b \in Bits(trie[r].branch) PROVE ChildOK(r, b)'
      BY <1>1, <1>7, <1>9, <3>0 DEF InnerOK
    <3>3. InnerOK(r)'
      BY <1>1, <1>2, <1>9, <2>0, <3>1, <3>2 DEF InnerOK, End
    <3> QED  BY <1>1, <2>2, <3>3 DEF NodeOK
  <2> QED  BY <2>1, <2>2
<1>10. CASE args[q].n = 1
  <2> DEFINE node == Node(0, 0, args[q].first)
  <2>1. trie' = Put(trie, {q}, node) /\ nextfree' = nextfree /\ cur' = cur /\ todo' = {}
    BY <1>1, <1>10 DEF Call, Leaves
  <2>2. node \in [branch : Nat, skip : Nat, adr : Nat]
    BY <1>4, <1>5 DEF Node
  <2>3. /\ DOMAIN trie' = DOMAIN trie \cup {q} /\ trie'[q] = node
        /\ \A r \in DOMAIN trie : trie'[r] = trie[r]
        /\ trie' \in [DOMAIN trie' -> [branch : Nat, skip : Nat, adr : Nat]]
        /\ DOMAIN args' = DOMAIN trie' \cup calls' /\ calls' \cap DOMAIN trie' = {}
    BY <1>6, <2>1, <2>2
  <2> HIDE DEF node
  <2>4. TrieType'
    BY <1>1, <1>2, <2>1, <2>3 DEF TrieType, Built, Root, Args
  <2>5. Calls'
    BY <1>1, <1>8, <2>1
  <2>6. NodeOK(q)'
    BY <1>1, <1>10, <2>3 DEF NodeOK, node, Node
  <2>7. Nodes'
    BY <1>1, <1>9, <2>1, <2>3, <2>6, SMTT(30) DEF Nodes
  <2>8. Blocks'
    BY <1>1, <1>10, <2>3 DEF Blocks
  <2>9. Loop'
    BY <2>1 DEF Loop
  <2> QED  BY <2>4, <2>5, <2>7, <2>8, <2>9 DEF TrieInv
<1>11. CASE args[q].n /= 1
  <2>a. args[q].n > 1
    BY <1>4, <1>5, <1>11
  <2>0. newPrefix(args[q]) \in args[q].prefix..W - 1
        /\ Common(newPrefix(args[q]), args[q].first, End(args[q]))
    BY <1>1, <1>5, <2>a, NewPrefix DEF CallOK
  <2>b. newPrefix(args[q]) \in Nat /\ newPrefix(args[q]) - args[q].prefix \in Nat
    BY <1>4, <1>5, <2>0
  <2>c. computeBranch(args[q]) \in Nat \ {0}
    BY <2>b, ComputeBranch
  <2> DEFINE br == computeBranch(args[q])
             node == Node(br, newPrefix(args[q]) - args[q].prefix, nextfree)
  <2>1. /\ trie' = Put(trie, {q}, node) /\ nextfree' = nextfree + 1 /\ cur' = q /\ todo' = Bits(br)
        /\ p' = args[q].first
    BY <1>1, <1>11 DEF Call
  <2>2. /\ node \in [branch : Nat, skip : Nat, adr : Nat] /\ node.branch = br /\ node.adr = nextfree
        /\ node.skip = newPrefix(args[q]) - args[q].prefix
    BY <1>1, <2>b, <2>c DEF Node
  <2>3. /\ DOMAIN trie' = DOMAIN trie \cup {q} /\ trie'[q] = node
        /\ \A r \in DOMAIN trie : trie'[r] = trie[r]
        /\ trie' \in [DOMAIN trie' -> [branch : Nat, skip : Nat, adr : Nat]]
        /\ DOMAIN args' = DOMAIN trie' \cup calls' /\ calls' \cap DOMAIN trie' = {}
    BY <1>6, <2>1, <2>2
  <2> HIDE DEF node, br
  <2>d. nextfree' \in Nat /\ nextfree <= nextfree' /\ nextfree' \in Nat \ {0}
    BY <1>1, <2>1
  <2>4. TrieType'
    BY <1>1, <1>2, <2>1, <2>3, <2>d DEF TrieType, Built, Root, Args
  <2>5. Calls'
    BY <1>8, <2>d
  <2>6. np(q)' = newPrefix(args[q]) /\ np(q)' < W
    BY <1>1, <1>4, <1>5, <2>0, <2>2, <2>3 DEF np
  <2>7. ASSUME NEW b PROVE <<nextfree, b>> \notin DOMAIN args
    <3> SUFFICES ASSUME <<nextfree, b>> \in DOMAIN args PROVE FALSE
      OBVIOUS
    <3>1. CallOK(<<nextfree, b>>)
      BY <1>1 DEF Calls
    <3>2. <<nextfree, b>>[1] \in 0..nextfree - 1
      BY <3>1 DEF CallOK
    <3> QED  BY <1>1, <3>2
  <2>8. InnerOK(q)'
    <3>1. /\ trie'[q].branch \in Nat \ {0} /\ trie'[q].skip \in Nat
          /\ trie'[q].adr \in 1..nextfree' - 1
      <4>1. br \in Nat \ {0}
        BY <2>c DEF br
      <4>2. nextfree \in 1..nextfree' - 1
        BY <1>1, <2>1
      <4> QED  BY <2>2, <2>3, <2>b, <4>1, <4>2
    <3>2. Common(np(q), args[q].first, End(args[q]))'
      BY <1>1, <1>2, <2>0, <2>6 DEF End
    <3>3. \A b : Kid(q, b)' \notin DOMAIN args'
      BY <1>1, <2>2, <2>3, <2>7 DEF Kid
    <3>4. q = cur' /\ Bits(trie[q].branch)' = todo'
      BY <2>1, <2>2, <2>3
    <3> QED  BY <2>6, <3>1, <3>2, <3>3, <3>4 DEF InnerOK, Kid
  <2>9. Nodes'
    <3> SUFFICES ASSUME NEW r \in DOMAIN trie' PROVE NodeOK(r)'
      BY DEF Nodes
    <3>1. CASE r = q
      BY <1>1, <1>11, <2>8, <3>1 DEF NodeOK
    <3>2. CASE r /= q
      BY <1>9, <2>1, <2>3, <2>d, <3>2
    <3> QED  BY <3>1, <3>2
  <2>10. Blocks'
    <3> SUFFICES ASSUME NEW r \in DOMAIN trie', NEW t \in DOMAIN trie',
                          args[r].n > 1, args[t].n > 1,
                        trie'[r].adr = trie'[t].adr
                 PROVE  r = t
      BY <1>1 DEF Blocks
    <3>1. ASSUME NEW u \in DOMAIN trie, args[u].n > 1 PROVE trie[u].adr \in 1..nextfree - 1
      BY <1>1, <3>1 DEF Nodes, NodeOK, InnerOK
    <3>2. CASE r = q \/ t = q
      BY <1>1, <2>2, <2>3, <3>1, <3>2
    <3>3. CASE r /= q /\ t /= q
      BY <1>1, <2>3, <3>3 DEF Blocks
    <3> QED  BY <3>2, <3>3
  <2>11. Loop'
    <3>1. /\ branch' = br /\ newprefix' = newPrefix(args[q]) /\ last' = args[q].first + args[q].n
      BY <1>1, <2>1, <2>2, <2>3, <2>6 DEF branch, newprefix, last, np
    <3>2. ASSUME NEW x \in args[q].first..args[q].first + args[q].n - 1
          PROVE  EXTRACT(newPrefix(args[q]), br, Str(x)) \in Bits(br)
      <4>1. x \in 1..Len(base)
        BY <1>1, <1>4, <1>5 DEF CallOK, End
      <4>2. Str(x) \in Bits(W) /\ 0 \in 0..br - 1 /\ br \in Nat
        BY <2>c, <4>1, BaseString DEF br
      <4> QED  BY <2>b, <4>2, ExtractBit
    <3>3. p' \in args[q].first..last' /\ p' = args[q].first
      BY <1>4, <1>5, <2>1, <3>1
    <3>4. q \in DOMAIN trie' /\ args'[q].n > 1
      BY <1>1, <2>3, <2>a
    <3>5. \A x \in p'..last' - 1 : EXTRACT(newprefix', branch', Str(x)) \in todo'
      BY <1>4, <1>5, <2>1, <3>1, <3>2, <3>3
    <3>6. \A x : ~(x \in args[q].first..p' - 1)
      BY <1>4, <1>5, <3>3
    <3>7. LoopOK'
      BY <1>1, <1>2, <2>1, <3>1, <3>3, <3>4, <3>5, <3>6 DEF LoopOK, Str
    <3> QED  BY <3>7 DEF Loop
  <2> QED  BY <2>4, <2>5, <2>9, <2>10, <2>11 DEF TrieInv
<1> QED  BY <1>10, <1>11

\* Split leaves the array of pointers as long as the table.
LEMMA SplitFilled ==
    ASSUME SplitInv, Filled, Split
    PROVE  Filled'
<1>1. /\ pc = "split" /\ pc' = "split" /\ Size' = Size /\ Size > 0
      /\ ptr = [j \in 1..Size |-> ptr[j]]
  BY DEF Split, Filled, Size
<1>2. ptr' = [j \in 1..Size |-> ptr'[j]]
  BY <1>1 DEF Split, Update
<1> QED  BY <1>1, <1>2 DEF Filled

\* The rest of the actions leave the trie alone.
LEMMA TrieSame ==
    ASSUME TrieInv, UNCHANGED trieVars,
           \/ pc \in {"sort", "split"} /\ pc' \in {"sort", "split"}
           \/ /\ UNCHANGED tableVars /\ pc \notin {"sort", "split"} /\ pc' \notin {"sort", "split"}
              /\ pc' \in Built => calls = {} /\ todo = {}
    PROVE  TrieInv'
<1>1. /\ trie' = trie /\ nextfree' = nextfree /\ args' = args /\ calls' = calls /\ cur' = cur
      /\ p' = p /\ todo' = todo
  BY DEF trieVars
<1>2. TrieType /\ Calls /\ Nodes /\ Blocks /\ Loop
  BY DEF TrieInv
<1>3. CASE pc \in {"sort", "split"} /\ pc' \in {"sort", "split"}
  <2>1. DOMAIN trie = {} /\ calls = {} /\ todo = {} /\ DOMAIN args = {}
    BY <1>2, <1>3 DEF TrieType
  <2>2. TrieType'
    BY <1>1, <1>2, <1>3, <2>1 DEF TrieType, Built
  <2>3. Calls' /\ Nodes' /\ Blocks' /\ Loop'
    BY <1>1, <2>1 DEF Calls, Nodes, Blocks, Loop
  <2> QED  BY <2>2, <2>3 DEF TrieInv
<1>4. CASE /\ UNCHANGED tableVars /\ pc \notin {"sort", "split"} /\ pc' \notin {"sort", "split"}
           /\ pc' \in Built => calls = {} /\ todo = {}
  <2>1. /\ base' = base
        /\ \A m, lo, hi : Common(m, lo, hi)' <=> Common(m, lo, hi)
        /\ \A m, w, b, lo, hi, lo2, hi2 :
             Covers(m, w, b, lo, hi, lo2, hi2)' <=> Covers(m, w, b, lo, hi, lo2, hi2)
    BY <1>4, TableDefs
  <2>2. TrieType'
    BY <1>1, <1>2, <1>4, <2>1 DEF TrieType, Root, Args
  <2>3. Calls'
    BY <1>1, <1>2, <2>1 DEF Calls, CallOK, End
  <2>4. ASSUME NEW q \in DOMAIN trie PROVE NodeOK(q)'
    <3>0. NodeOK(q) /\ np(q)' = np(q)
      BY <1>1, <1>2 DEF Nodes, np
    <3>1. ASSUME NEW b, ChildOK(q, b) PROVE ChildOK(q, b)'
      BY <1>1, <2>1, <3>1 DEF ChildOK, Kid, np, End
    <3>2. InnerOK(q) => InnerOK(q)'
      BY <1>1, <2>1, <3>0, <3>1 DEF InnerOK, Kid, End
    <3> QED  BY <1>1, <3>0, <3>2 DEF NodeOK, Node
  <2>5. Nodes' /\ Blocks'
    BY <1>1, <1>2, <2>4 DEF Nodes, Blocks
  <2>6. Loop'
    BY <1>1, <1>2, <2>1 DEF Loop, LoopOK, newprefix, branch, last, Str, Fits
  <2> QED  BY <2>2, <2>3, <2>5, <2>6 DEF TrieInv
<1> QED  BY <1>3, <1>4

\* The empty trie.
LEMMA TrieInit ==
    ASSUME GeoInit
    PROVE  TrieInv
<1>1. /\ pc = "sort" /\ nextfree = 1 /\ calls = {} /\ todo = {}
      /\ trie = [q \in {} |-> 0] /\ args = [q \in {} |-> 0]
  BY DEF GeoInit
<1>2. DOMAIN trie = {} /\ DOMAIN args = {}
  BY <1>1
<1>3. TrieType
  BY <1>1, <1>2 DEF TrieType, Built
<1>4. Calls /\ Nodes /\ Blocks /\ Loop
  BY <1>1, <1>2 DEF Calls, Nodes, Blocks, Loop
<1> QED  BY <1>3, <1>4 DEF TrieInv

\* The first call covers the whole of base.
LEMMA SplitDoneStep ==
    ASSUME SplitInv, Filled, TrieInv, SplitDone
    PROVE  TrieInv'
<1>1. /\ pc = "split" /\ pc' = "build" /\ trie' = trie /\ nextfree' = nextfree /\ todo' = todo
      /\ calls' = {Root} /\ base' = base /\ args' = Put(args, {Root}, Args(0, 1, Len(base)))
  BY DEF SplitDone, tableVars
<1>2. /\ TrieType /\ DOMAIN trie = {} /\ todo = {} /\ DOMAIN args = {} /\ nextfree \in Nat \ {0}
      /\ trie \in [{} -> [branch : Nat, skip : Nat, adr : Nat]]
  BY <1>1 DEF TrieInv, TrieType
<1>3. i = Size + 1 /\ Size \in Nat /\ Size > 0
  BY <1>1 DEF SplitInv, TableType, Filled, SplitDone, Size
<1>4. Table
  BY <1>1, <1>3, SplitTable
<1>5. Len(base) \in Nat \ {0}
  <2>1. entries[1] \in Nets
    BY <1>3 DEF Nets
  <2>2. PICK x \in 1..Len(base) : TRUE
    BY <1>4, <2>1 DEF Table
  <2>3. Len(base) \in Nat
    BY <1>4 DEF Table
  <2> QED  BY <2>2, <2>3
<1> DEFINE v == Args(0, 1, Len(base))
<1>6. /\ v.prefix = 0 /\ v.first = 1 /\ v.n = Len(base) /\ End(v) = Len(base)
      /\ v \in [prefix : Nat, first : 1..Len(base), n : 1..Len(base)]
      /\ v \in [prefix : Nat, first : Nat, n : Nat]
  BY <1>5 DEF Args, End
<1>7. DOMAIN args' = {Root} /\ args'[Root] = v /\ args' = [q \in {Root} |-> v]
  BY <1>1, <1>2 DEF Put
<1> HIDE DEF v
<1>8. TrieType'
  <2>1. args' \in [{Root} -> [prefix : Nat, first : Nat, n : Nat]]
    BY <1>6, <1>7
  <2>2. args'[Root] = Args(0, 1, Len(base'))
    BY <1>1, <1>7 DEF v
  <2> QED  BY <1>1, <1>2, <1>7, <2>1, <2>2 DEF TrieType, Built, Root
<1>9. CallOK(Root)'
  <2>1. Root[1] = 0 /\ 0 \in 0..nextfree - 1
    BY <1>2 DEF Root
  <2>2. Common(0, 1, Len(base))'
    BY <1>5 DEF Common
  <2>3. Len(base) <= Len(base)
    BY <1>5
  <2> QED  BY <1>1, <1>6, <1>7, <2>1, <2>2, <2>3 DEF CallOK, Root
<1>10. Calls' /\ Nodes' /\ Blocks' /\ Loop'
  BY <1>1, <1>2, <1>7, <1>9 DEF Calls, Nodes, Blocks, Loop
<1> QED  BY <1>8, <1>10 DEF TrieInv

-----------------------------------------------------------------------------
(* Find *)

\* The most specific network, once all that contain the host are prefixes of one.
LEMMA LongestIs ==
    ASSUME Table, TableType, NEW g \in Nets, Contains(g),
           \A f \in Nets : Contains(f) => isprefix(f, g)
    PROVE  LongestMatch(host) = {g}
<1>1. Covering(host) = {f \in Nets : Contains(f)}
  BY DEF Covering, Contains, Nets, Range, TableType, Size
<1>2. g \in Covering(host)
  BY <1>1
<1>3. ASSUME NEW f \in Covering(host) PROVE f \in Net /\ isprefix(f, g) /\ f.len <= g.len
  BY <1>1 DEF Table, isprefix
<1>4. ASSUME NEW e \in LongestMatch(host) PROVE e = g
  <2>1. e \in Covering(host) /\ g.len <= e.len
    BY <1>2 DEF LongestMatch
  <2> QED  BY <1>2, <1>3, <2>1, PrefixSame
<1>5. g \in LongestMatch(host)
  BY <1>2, <1>3 DEF LongestMatch
<1> QED  BY <1>4, <1>5

\* No network contains the host.
LEMMA LongestNone ==
    ASSUME TableType, \A f \in Nets : ~Contains(f)
    PROVE  LongestMatch(host) = {}
BY DEF LongestMatch, Covering, Contains, Nets, Range, TableType, Size

\* There is no lookup at first.
LEMMA FindInit ==
    ASSUME GeoInit
    PROVE  FindInv
<1>1. /\ pc = "sort" /\ host = NoAddr /\ at = Root /\ pos = 0 /\ preadr = NOPRE /\ deny = {}
      /\ pre = <<>>
  BY DEF GeoInit
<1>2. Len(pre) = 0 /\ preadr \in 0..Len(pre)
  BY <1>1 DEF NOPRE
<1>3. FindType
  BY <1>1, <1>2 DEF FindType
<1>4. Reached /\ Followed /\ FilterExact
  BY <1>1 DEF Reached, Followed, FilterExact
<1> QED  BY <1>3, <1>4 DEF FindInv

\* As long as the trie is not there, no lookup begins.
LEMMA FindBuild ==
    ASSUME FindInv, UNCHANGED findVars, TrieInv', SplitInv',
           pc \in {"sort", "split", "build"}, pc' \in {"sort", "split", "build", "ready"}
    PROVE  FindInv'
<1>1. /\ host' = host /\ at' = at /\ pos' = pos /\ preadr' = preadr /\ deny' = deny
      /\ FindType /\ preadr = NOPRE /\ deny = {} /\ at = Root
  BY DEF findVars, FindInv, FindType
<1>2. preadr' \in 0..Len(pre')
  <2>1. Len(pre') \in Nat
    BY DEF SplitInv, TableType
  <2> QED  BY <1>1, <2>1 DEF NOPRE
<1>3. pc' \notin {"sort", "split", "build"} => at' \in DOMAIN trie'
  <2> SUFFICES ASSUME pc' = "ready" PROVE Root \in DOMAIN trie'
    BY <1>1
  <2>1. Root' \in DOMAIN args' /\ DOMAIN args' = DOMAIN trie' \cup calls' /\ calls' = {}
    BY DEF TrieInv, TrieType, Built
  <2> QED  BY <2>1 DEF Root
<1>4. FindType'
  BY <1>1, <1>2, <1>3 DEF FindType, Root
<1>5. (Reached /\ Followed /\ FilterExact)'
  BY DEF Reached, Followed, FilterExact
<1> QED  BY <1>4, <1>5 DEF FindInv

\* A lookup changes neither the table nor the trie.
LEMMA FindDefs ==
    ASSUME UNCHANGED <<tableVars, trieVars>>
    PROVE  /\ Nets' = Nets /\ base' = base /\ pre' = pre /\ entries' = entries /\ trie' = trie
           /\ args' = args /\ calls' = calls /\ todo' = todo /\ \A q : np(q)' = np(q)
BY DEF tableVars, trieVars, Nets, Size, np

\* What the invariant says of a node when the trie is there.
LEMMA NodeFacts ==
    ASSUME TrieInv, Table, pc \in Built, NEW q \in DOMAIN trie
    PROVE  /\ DOMAIN args = DOMAIN trie /\ CallOK(q) /\ NodeOK(q) /\ todo = {}
           /\ args[q].n = 1 => /\ trie[q].branch = 0 /\ trie[q].adr = args[q].first
                               /\ args[q].first \in 1..Len(base) /\ End(args[q]) = args[q].first
           /\ args[q].n /= 1 => InnerOK(q) /\ trie[q].branch /= 0 /\ args[q].n > 1
<1>1. DOMAIN args = DOMAIN trie /\ todo = {}
  BY DEF TrieInv, TrieType
<1>2. CallOK(q) /\ NodeOK(q)
  BY <1>1 DEF TrieInv, Calls, Nodes
<1>3. args[q].first \in 1..Len(base) /\ args[q].n \in 1..Len(base) /\ Len(base) \in Nat
  BY <1>2 DEF CallOK, Table
<1>4. ASSUME args[q].n = 1
      PROVE  trie[q].branch = 0 /\ trie[q].adr = args[q].first /\ End(args[q]) = args[q].first
  BY <1>2, <1>3, <1>4 DEF NodeOK, Node, End
<1>5. ASSUME args[q].n /= 1
      PROVE  InnerOK(q) /\ trie[q].branch /= 0 /\ args[q].n > 1
  BY <1>2, <1>3, <1>5 DEF NodeOK, InnerOK
<1> QED  BY <1>1, <1>2, <1>3, <1>4, <1>5

\* A lookup begins at the root, whose range is the whole of base.
LEMMA AskStep ==
    ASSUME FindInv, TrieInv, Table, NEW h \in Addr \cup {NoAddr}, Ask(h)
    PROVE  FindInv'
<1>1. /\ pc = "ready" /\ host' = h /\ at' = Root /\ pos' = trie[Root].skip /\ preadr' = NOPRE
      /\ deny' = {} /\ pc' = IF h = NoAddr THEN "done" ELSE "find"
  BY DEF Ask
<1>2. /\ Nets' = Nets /\ base' = base /\ pre' = pre /\ entries' = entries /\ trie' = trie
      /\ args' = args /\ \A q : np(q)' = np(q)
  BY FindDefs DEF Ask
<1>3. /\ Root \in DOMAIN trie /\ args[Root] = Args(0, 1, Len(base)) /\ Len(base) \in Nat
      /\ trie[Root].skip \in Nat /\ Len(pre) \in Nat
  BY <1>1 DEF TrieInv, TrieType, Built, Table
<1>4. /\ args[Root].prefix = 0 /\ args[Root].first = 1 /\ End(args[Root]) = Len(base)
      /\ np(Root) = trie[Root].skip
  BY <1>3 DEF Args, End, np
<1>5. FindType'
  <2>1. NOPRE \in 0..Len(pre)
    BY <1>3 DEF NOPRE
  <2> QED  BY <1>1, <1>2, <1>3, <2>1 DEF FindType, NoAddr, Addr, Bits
<1>6. Reached'
  <2>1. \A f \in Nets : \E x \in 1..Len(base) : isprefix(f, base[x].net)
    BY DEF Table
  <2>2. /\ args'[at'].n > 1 => pos' = np(at)'
        /\ \A f \in Nets' : \E x \in args'[at'].first..End(args[at])' : isprefix(f, base'[x].net)
    BY <1>1, <1>2, <1>3, <1>4, <2>1 DEF np, End, Root
  <2> QED  BY <2>2 DEF Reached
<1>7. Followed'
  BY <1>1 DEF Followed
<1>8. FilterExact'
  BY <1>1 DEF FilterExact
<1> QED  BY <1>5, <1>6, <1>7, <1>8 DEF FindInv

\* The child for the host's bits covers every entry that contains the host.
LEMMA TraverseStep ==
    ASSUME FindInv, TrieInv, Table, Traverse
    PROVE  FindInv'
<1> DEFINE b == EXTRACT(pos, trie[at].branch, host)
           c == <<trie[at].adr, b>>
<1>1. /\ pc = "find" /\ pc' = "find" /\ trie[at].branch /= 0 /\ at' = c
      /\ pos' = pos + trie[at].branch + trie[at'].skip
      /\ host' = host /\ preadr' = preadr /\ deny' = deny
  BY DEF Traverse
<1>2. /\ Nets' = Nets /\ base' = base /\ pre' = pre /\ entries' = entries /\ trie' = trie
      /\ args' = args /\ \A q : np(q)' = np(q)
  BY FindDefs DEF Traverse
<1>3. FindType /\ Reached /\ at \in DOMAIN trie /\ host \in Bits(W) /\ W \in Nat
  BY <1>1, GeoAssumption DEF FindInv, FindType, Addr
<1>4. /\ DOMAIN args = DOMAIN trie /\ InnerOK(at) /\ args[at].n > 1 /\ todo = {} /\ CallOK(at)
  BY <1>1, <1>3, NodeFacts DEF Built
<1>5. pos = np(at) /\ \A f \in Nets : Contains(f) =>
           \E x \in args[at].first..End(args[at]) : isprefix(f, base[x].net)
  BY <1>1, <1>3, <1>4 DEF Reached
<1>6. /\ np(at) \in Nat /\ trie[at].branch \in Nat \ {0} /\ 0 \in 0..trie[at].branch - 1
  BY <1>4, SMTT(30) DEF InnerOK, CallOK, np
<1>7. b \in Bits(trie[at].branch)
        /\ \A j \in 0..trie[at].branch - 1 :
             b[j] = IF np(at) + j < W THEN host[np(at) + j] ELSE 0
  BY <1>3, <1>5, <1>6, ExtractBit
<1>8. ChildOK(at, b)
  BY <1>4, <1>7 DEF InnerOK
<1>9. c = Kid(at, b)
  BY DEF Kid
<1> HIDE DEF b, c
<1>10. /\ c \in DOMAIN trie /\ args[c].prefix = np(at) + trie[at].branch
       /\ Covers(np(at), trie[at].branch, b, args[at].first, End(args[at]),
                 args[c].first, End(args[c]))
  BY <1>4, <1>8, <1>9 DEF ChildOK
<1>11. trie[c].skip \in Nat /\ args[c].prefix \in Nat
  BY <1>4, <1>10 DEF TrieInv, TrieType
<1>12. pos' = np(c) /\ pos' \in Nat
  BY <1>1, <1>5, <1>6, <1>10, <1>11 DEF np
<1>13. ASSUME NEW f \in Nets, Contains(f)
       PROVE  \E y \in args[c].first..End(args[c]) : isprefix(f, base[y].net)
  <2>1. PICK x \in args[at].first..End(args[at]) : isprefix(f, base[x].net)
    BY <1>5, <1>13
  <2>2. f \in Net /\ f.data \in Bits(W) /\ f.len \in 0..W
    BY NetBits DEF Table
  <2>3. Agree(f.len, f.data, host)
    BY <1>3, <1>13, <2>2, SameBits DEF Contains
  <2>4. ASSUME NEW j \in 0..trie[at].branch - 1, np(at) + j < f.len
        PROVE  f.data[np(at) + j] = b[j]
    <3>1. np(at) + j \in 0..f.len - 1 /\ np(at) + j < W
      BY <1>3, <1>6, <2>2, <2>4
    <3> QED  BY <1>7, <2>3, <3>1 DEF Agree
  <2>5. Fits(f, np(at), trie[at].branch, b)
    BY <2>4 DEF Fits
  <2> QED  BY <1>10, <2>1, <2>5 DEF Covers
<1>14. FindType'
  BY <1>1, <1>2, <1>3, <1>10, <1>12 DEF FindType
<1>15. Reached'
  <2>1. \A f : Contains(f)' <=> Contains(f)
    BY <1>1 DEF Contains
  <2>2. pos' = np(at)'
    BY <1>1, <1>2, <1>12 DEF np
  <2> QED  BY <1>1, <1>2, <1>13, <2>1, <2>2 DEF Reached, End
<1>16. Followed' /\ FilterExact'
  BY <1>1 DEF Followed, FilterExact
<1> QED  BY <1>14, <1>15, <1>16 DEF FindInv

\* A string that contains the host is the most specific network, as every other
\* entry that does is a prefix of it; else it is one of the proper prefixes.
LEMMA HitStep ==
    ASSUME FindInv, TrieInv, TableType, Table, Hit
    PROVE  FindInv'
<1> DEFINE k == args[at].first
           r == base[k]
<1>1. /\ pc = "find" /\ trie[at].branch = 0 /\ host' = host /\ at' = at /\ pos' = pos
  BY DEF Hit
<1>2. /\ Nets' = Nets /\ base' = base /\ pre' = pre /\ entries' = entries /\ trie' = trie
      /\ args' = args
  BY FindDefs DEF Hit
<1>3. FindType /\ Reached /\ at \in DOMAIN trie /\ host \in Addr /\ host /= NoAddr /\ deny = {}
  BY <1>1 DEF FindInv, FindType
<1>4. /\ args[at].n = 1 /\ trie[at].adr = k /\ k \in 1..Len(base) /\ End(args[at]) = k
  BY <1>1, <1>3, NodeFacts DEF Built
<1>5. /\ r.net \in Nets /\ r.net \in Net /\ Leads(r) /\ Len(base) \in Nat
  BY <1>4, BaseString DEF Table
<1>6. \A f \in Nets : Contains(f) => isprefix(f, r.net)
  <2>1. \A f \in Nets : Contains(f) => \E x \in k..k : isprefix(f, base[x].net)
    BY <1>1, <1>3, <1>4 DEF Reached
  <2>2. \A x \in k..k : x = k
    BY <1>4, <1>5
  <2> QED  BY <2>1, <2>2
<1>7. /\ LongestMatch(host)' = LongestMatch(host)
      /\ \A f : Contains(f)' <=> Contains(f)
  BY <1>1, <1>2 DEF LongestMatch, Covering, Contains
<1> HIDE DEF k
<1>8. CASE Contains(r.net)
  <2>1. pc' = "done" /\ deny' = {r.net} /\ preadr' = preadr
    BY <1>4, <1>8 DEF Hit, Found, Contains
  <2>2. LongestMatch(host) = {r.net}
    BY <1>5, <1>6, <1>8, LongestIs
  <2>3. FindType'
    BY <1>1, <1>2, <1>3, <1>5, <2>1 DEF FindType
  <2>4. FilterExact'
    BY <1>1, <1>3, <1>7, <2>1, <2>2 DEF FilterExact
  <2>5. Reached' /\ Followed'
    BY <2>1 DEF Reached, Followed
  <2> QED  BY <2>3, <2>4, <2>5 DEF FindInv
<1>9. CASE ~Contains(r.net)
  <2>1. pc' = "prefix" /\ deny' = deny /\ preadr' = r.pre
    BY <1>4, <1>9 DEF Hit, Contains
  <2>2. FindType'
    BY <1>1, <1>2, <1>3, <1>5, <2>1 DEF FindType, Leads
  <2>3. Followed'
    <3>1. r.pre /= NOPRE => isprefix(pre[r.pre].net, r.net)
      BY <1>5 DEF Leads
    <3>2. ASSUME NEW f \in Nets, Contains(f) PROVE r.pre /= NOPRE /\ isprefix(f, pre[r.pre].net)
      <4>1. isprefix(f, r.net) /\ f /= r.net
        BY <1>6, <1>9, <3>2
      <4> QED  BY <1>5, <4>1 DEF Leads
    <3> QED  BY <1>1, <1>2, <1>4, <1>7, <2>1, <3>1, <3>2 DEF Followed, k
  <2>4. Reached' /\ FilterExact'
    BY <2>1 DEF Reached, FilterExact
  <2> QED  BY <2>2, <2>3, <2>4 DEF FindInv
<1> QED  BY <1>8, <1>9

\* The first prefix that contains the host is the most specific network.
LEMMA LookStep ==
    ASSUME FindInv, TrieInv, TableType, Table, LookInPrefixes
    PROVE  FindInv'
<1> DEFINE k == args[at].first
           g == pre[preadr].net
<1>1. /\ pc = "prefix" /\ host' = host /\ at' = at /\ pos' = pos
  BY DEF LookInPrefixes
<1>2. /\ Nets' = Nets /\ base' = base /\ pre' = pre /\ entries' = entries /\ trie' = trie
      /\ args' = args
  BY FindDefs DEF LookInPrefixes
<1>3. FindType /\ Followed /\ at \in DOMAIN trie /\ host \in Addr /\ host /= NoAddr /\ deny = {}
  BY <1>1 DEF FindInv, FindType
<1>4. /\ args[at].n = 1
      /\ preadr /= NOPRE => isprefix(g, base[k].net)
      /\ \A f \in Nets : Contains(f) => preadr /= NOPRE /\ isprefix(f, g)
  BY <1>1, <1>3 DEF Followed
<1>5. trie[at].adr = k /\ k \in 1..Len(base)
  BY <1>1, <1>3, <1>4, NodeFacts DEF Built
<1>6. /\ LongestMatch(host)' = LongestMatch(host)
      /\ \A f : Contains(f)' <=> Contains(f)
  BY <1>1, <1>2 DEF LongestMatch, Covering, Contains
<1> HIDE DEF k
<1>7. CASE preadr = NOPRE
  <2>1. pc' = "done" /\ deny' = deny /\ preadr' = preadr
    BY <1>7 DEF LookInPrefixes
  <2>2. LongestMatch(host) = {}
    BY <1>4, <1>7, LongestNone
  <2>3. FindType'
    BY <1>1, <1>2, <1>3, <2>1 DEF FindType
  <2>4. FilterExact'
    BY <1>1, <1>3, <1>6, <2>1, <2>2 DEF FilterExact
  <2>5. Reached' /\ Followed'
    BY <2>1 DEF Reached, Followed
  <2> QED  BY <2>3, <2>4, <2>5 DEF FindInv
<1>8. CASE preadr /= NOPRE
  <2>0. preadr \in 1..Len(pre) /\ Len(pre) \in Nat
    BY <1>3, <1>8 DEF FindType, Table, NOPRE
  <2>1. Leads(pre[preadr]) /\ g \in Nets /\ g \in Net
    BY <2>0 DEF Table, Leads
  <2>2. Same(g.len, Str(trie[at].adr), host) <=> Contains(g)
    BY <1>4, <1>5, <1>8 DEF isprefix, Same, Contains, Str
  <2>3. CASE Contains(g)
    <3>1. pc' = "done" /\ deny' = {g} /\ preadr' = preadr
      BY <1>8, <2>2, <2>3 DEF LookInPrefixes, Found
    <3>2. LongestMatch(host) = {g}
      BY <1>4, <2>1, <2>3, LongestIs
    <3>3. FindType'
      BY <1>1, <1>2, <1>3, <2>1, <3>1 DEF FindType
    <3>4. FilterExact'
      BY <1>1, <1>3, <1>6, <3>1, <3>2 DEF FilterExact
    <3>5. Reached' /\ Followed'
      BY <3>1 DEF Reached, Followed
    <3> QED  BY <3>3, <3>4, <3>5 DEF FindInv
  <2>4. CASE ~Contains(g)
    <3>1. pc' = pc /\ deny' = deny /\ preadr' = pre[preadr].pre
      BY <1>8, <2>2, <2>4 DEF LookInPrefixes
    <3> DEFINE y == pre[preadr].pre
    <3>2. y \in 0..Len(pre)
      BY <2>1 DEF Leads
    <3>3. FindType'
      BY <1>1, <1>2, <1>3, <3>1, <3>2 DEF FindType
    <3>4. ASSUME y /= NOPRE PROVE isprefix(pre[y].net, base[k].net)
      <4>1. y \in 1..Len(pre)
        BY <2>0, <3>2, <3>4 DEF NOPRE
      <4>2. pre[y].net \in Net /\ base[k].net \in Net
        BY <1>5, <4>1, BaseString DEF Table, Leads
      <4>3. isprefix(pre[y].net, g)
        BY <2>1, <3>4 DEF Leads
      <4> QED  BY <1>4, <1>8, <2>1, <4>2, <4>3, PrefixTrans
    <3>5. ASSUME NEW f \in Nets, Contains(f) PROVE y /= NOPRE /\ isprefix(f, pre[y].net)
      <4>1. isprefix(f, g) /\ f /= g
        BY <1>4, <2>4, <3>5
      <4> QED  BY <2>1, <4>1 DEF Leads
    <3> HIDE DEF y
    <3>6. Followed'
      BY <1>1, <1>2, <1>4, <1>6, <3>1, <3>4, <3>5 DEF Followed, k, y
    <3>7. Reached' /\ FilterExact'
      BY <1>1, <3>1 DEF Reached, FilterExact
    <3> QED  BY <3>3, <3>6, <3>7 DEF FindInv
  <2> QED  BY <2>3, <2>4
<1> QED  BY <1>7, <1>8

\* The lookup is over.
LEMMA ReturnStep ==
    ASSUME FindInv, TrieInv, Table, Return
    PROVE  FindInv'
<1>1. /\ pc = "done" /\ pc' = "ready" /\ host' = NoAddr /\ at' = Root /\ pos' = 0 /\ preadr' = NOPRE
      /\ deny' = {}
  BY DEF Return
<1>2. pre' = pre /\ trie' = trie
  BY FindDefs DEF Return
<1>3. Root \in DOMAIN trie /\ NOPRE \in 0..Len(pre)
  BY <1>1 DEF TrieInv, TrieType, Built, Table, NOPRE
<1>4. FindType'
  BY <1>1, <1>2, <1>3 DEF FindType
<1>5. Reached' /\ Followed' /\ FilterExact'
  BY <1>1 DEF Reached, Followed, FilterExact
<1> QED  BY <1>4, <1>5 DEF FindInv

-----------------------------------------------------------------------------
(* The theorems *)

\* The invariant holds initially.
LEMMA GeoInvInit ==
    ASSUME GeoInit
    PROVE  GeoInv
BY SplitInit, TrieInit, FindInit DEF GeoInv

\* Every step keeps the invariant.
LEMMA GeoInvNext ==
    ASSUME GeoInv, [GeoNext]_geoVars
    PROVE  GeoInv'
<1>0. SplitInv /\ Filled /\ TrieInv /\ FindInv /\ TableType
  BY DEF GeoInv, SplitInv
<1>1. pc \in {"sort", "split", "build"} \cup Built /\ (pc \notin {"sort", "split"} => Table)
  <2>1. /\ pc \in {"sort", "split", "build"} \cup Built
        /\ pc \notin {"sort", "split"} => i = Size + 1
    BY <1>0 DEF TableType
  <2> QED  BY <1>0, <2>1, SplitTable
<1>2. ASSUME NEW e \in Net, Sort(e) PROVE GeoInv'
  <2>1. pc = "sort" /\ pc' = "sort" /\ UNCHANGED trieVars /\ UNCHANGED findVars
    BY <1>2 DEF Sort
  <2>2. SplitInv' /\ Filled'
    BY <1>0, <1>2, SortStep
  <2>3. TrieInv'
    BY <1>0, <2>1, TrieSame
  <2>4. FindInv'
    BY <1>0, <2>1, <2>2, <2>3, FindBuild
  <2> QED  BY <2>2, <2>3, <2>4 DEF GeoInv
<1>3. ASSUME Sorted PROVE GeoInv'
  <2>1. pc = "sort" /\ pc' = "split" /\ UNCHANGED trieVars /\ UNCHANGED findVars
    BY <1>3 DEF Sorted
  <2>2. SplitInv' /\ Filled'
    BY <1>0, <1>3, SortedStep
  <2>3. TrieInv'
    BY <1>0, <2>1, TrieSame
  <2>4. FindInv'
    BY <1>0, <2>1, <2>2, <2>3, FindBuild
  <2> QED  BY <2>2, <2>3, <2>4 DEF GeoInv
<1>4. ASSUME Split PROVE GeoInv'
  <2>1. pc = "split" /\ pc' = "split" /\ UNCHANGED trieVars /\ UNCHANGED findVars
    BY <1>4 DEF Split
  <2>2. SplitInv' /\ Filled'
    BY <1>0, <1>4, SplitStep, SplitFilled
  <2>3. TrieInv'
    BY <1>0, <2>1, TrieSame
  <2>4. FindInv'
    BY <1>0, <2>1, <2>2, <2>3, FindBuild
  <2> QED  BY <2>2, <2>3, <2>4 DEF GeoInv
<1>5. ASSUME SplitDone PROVE GeoInv'
  <2>1. pc = "split" /\ i > Size /\ pc' = "build" /\ UNCHANGED tableVars /\ UNCHANGED findVars
    BY <1>5 DEF SplitDone
  <2>2. SplitInv' /\ Filled'
    BY <1>0, <2>1, TableSame
  <2>3. TrieInv'
    BY <1>0, <1>5, SplitDoneStep
  <2>4. FindInv'
    BY <1>0, <2>1, <2>2, <2>3, FindBuild
  <2> QED  BY <2>2, <2>3, <2>4 DEF GeoInv
<1>6. ASSUME pc = "build", pc' = "build", UNCHANGED tableVars, UNCHANGED findVars, TrieInv'
      PROVE  GeoInv'
  <2>1. SplitInv' /\ Filled'
    BY <1>0, <1>6, TableSame
  <2>2. FindInv'
    BY <1>0, <1>6, <2>1, FindBuild
  <2> QED  BY <1>6, <2>1, <2>2 DEF GeoInv
<1>7. ASSUME NEW q \in calls, Call(q) PROVE GeoInv'
  <2>1. pc = "build" /\ pc' = "build" /\ UNCHANGED tableVars /\ UNCHANGED findVars
    BY <1>7 DEF Call
  <2>2. TrieInv'
    BY <1>0, <1>1, <1>7, <2>1, CallStep
  <2> QED  BY <1>6, <2>1, <2>2
<1>8. ASSUME NEW b \in todo, Gap(b) PROVE GeoInv'
  <2>1. pc = "build" /\ pc' = "build" /\ UNCHANGED tableVars /\ UNCHANGED findVars
    BY <1>8 DEF Gap, Iteration
  <2>2. TrieInv'
    BY <1>0, <1>1, <1>8, <2>1, GapStep
  <2> QED  BY <1>6, <2>1, <2>2
<1>9. ASSUME NEW b \in todo, Widen(b) PROVE GeoInv'
  <2>1. pc = "build" /\ pc' = "build" /\ UNCHANGED tableVars /\ UNCHANGED findVars
    BY <1>9 DEF Widen, Iteration
  <2>2. TrieInv'
    BY <1>0, <1>1, <1>9, <2>1, WidenStep
  <2> QED  BY <1>6, <2>1, <2>2
<1>10. ASSUME NEW b \in todo, NEW k \in 1..last - p, Subtree(b, k) PROVE GeoInv'
  <2>1. pc = "build" /\ pc' = "build" /\ UNCHANGED tableVars /\ UNCHANGED findVars
    BY <1>10 DEF Subtree, Iteration
  <2>2. last \in Int /\ p \in Int
    BY <1>0, <1>1, <2>1, LoopFacts
  <2>3. k \in Nat
    BY <2>2
  <2>4. TrieInv'
    BY <1>0, <1>1, <1>10, <2>1, <2>3, SubtreeStep
  <2> QED  BY <1>6, <2>1, <2>4
<1>11. ASSUME BuildDone PROVE GeoInv'
  <2>1. /\ pc = "build" /\ pc' = "ready" /\ todo = {} /\ calls = {}
        /\ UNCHANGED tableVars /\ UNCHANGED trieVars /\ UNCHANGED findVars
    BY <1>11 DEF BuildDone
  <2>2. SplitInv' /\ Filled'
    BY <1>0, <2>1, TableSame DEF Built
  <2>3. TrieInv'
    BY <1>0, <2>1, TrieSame
  <2>4. FindInv'
    BY <1>0, <2>1, <2>2, <2>3, FindBuild
  <2> QED  BY <2>2, <2>3, <2>4 DEF GeoInv
<1>12. ASSUME pc \in Built, pc' \in Built, UNCHANGED tableVars, UNCHANGED trieVars, FindInv'
       PROVE  GeoInv'
  <2>1. pc \notin {"sort", "split"} /\ pc' \notin {"sort", "split"} /\ pc' \in {"build"} \cup Built
    BY <1>12 DEF Built
  <2>2. SplitInv' /\ Filled'
    BY <1>0, <1>12, <2>1, TableSame
  <2>3. calls = {} /\ todo = {}
    BY <1>0, <1>12 DEF TrieInv, TrieType
  <2>4. TrieInv'
    BY <1>0, <1>12, <2>1, <2>3, TrieSame
  <2> QED  BY <1>12, <2>2, <2>4 DEF GeoInv
<1>13. ASSUME NEW h \in Addr \cup {NoAddr}, Ask(h) PROVE GeoInv'
  <2>1. pc \in Built /\ pc' \in Built /\ UNCHANGED tableVars /\ UNCHANGED trieVars
    BY <1>13 DEF Ask, Built
  <2>2. FindInv'
    BY <1>0, <1>1, <1>13, <2>1, AskStep DEF Built
  <2> QED  BY <1>12, <2>1, <2>2
<1>14. ASSUME Traverse PROVE GeoInv'
  <2>1. pc \in Built /\ pc' \in Built /\ UNCHANGED tableVars /\ UNCHANGED trieVars
    BY <1>14 DEF Traverse, Built
  <2>2. FindInv'
    BY <1>0, <1>1, <1>14, <2>1, TraverseStep DEF Built
  <2> QED  BY <1>12, <2>1, <2>2
<1>15. ASSUME Hit PROVE GeoInv'
  <2>1. pc \in Built /\ pc' \in Built /\ UNCHANGED tableVars /\ UNCHANGED trieVars
    BY <1>15 DEF Hit, Found, Built
  <2>2. FindInv'
    BY <1>0, <1>1, <1>15, <2>1, HitStep DEF Built
  <2> QED  BY <1>12, <2>1, <2>2
<1>16. ASSUME LookInPrefixes PROVE GeoInv'
  <2>1. pc \in Built /\ pc' \in Built /\ UNCHANGED tableVars /\ UNCHANGED trieVars
    BY <1>16 DEF LookInPrefixes, Found, Built
  <2>2. FindInv'
    BY <1>0, <1>1, <1>16, <2>1, LookStep DEF Built
  <2> QED  BY <1>12, <2>1, <2>2
<1>17. ASSUME Return PROVE GeoInv'
  <2>1. pc \in Built /\ pc' \in Built /\ UNCHANGED tableVars /\ UNCHANGED trieVars
    BY <1>17 DEF Return, Built
  <2>2. FindInv'
    BY <1>0, <1>1, <1>17, <2>1, ReturnStep DEF Built
  <2> QED  BY <1>12, <2>1, <2>2
<1>18. CASE UNCHANGED geoVars
  <2>1. /\ UNCHANGED tableVars /\ UNCHANGED trieVars /\ UNCHANGED findVars /\ pc' = pc
    BY <1>18 DEF geoVars
  <2>2. SplitInv' /\ Filled'
    BY <1>0, <2>1, TableSame
  <2>3. pc \in Built => calls = {} /\ todo = {}
    BY <1>0 DEF TrieInv, TrieType
  <2>4. TrieInv'
    BY <1>0, <2>1, <2>3, TrieSame
  <2>5. /\ Nets' = Nets /\ base' = base /\ pre' = pre /\ entries' = entries /\ trie' = trie
        /\ args' = args
    BY <2>1, FindDefs
  <2>6. host' = host /\ at' = at /\ pos' = pos /\ preadr' = preadr /\ deny' = deny
    BY <2>1 DEF findVars
  <2>7. FindType' /\ Reached' /\ Followed'
    BY <1>0, <2>1, <2>5, <2>6
       DEF FindInv, FindType, Reached, Followed, Contains, np, End, Root
  <2>8. FilterExact'
    BY <1>0, <2>1, <2>5, <2>6 DEF FindInv, FilterExact, LongestMatch, Covering
  <2> QED  BY <2>2, <2>4, <2>7, <2>8 DEF GeoInv, FindInv
<1> QED
  BY <1>2, <1>3, <1>4, <1>5, <1>7, <1>8, <1>9, <1>10, <1>11, <1>13, <1>14, <1>15, <1>16, <1>17,
     <1>18 DEF GeoNext, Build, Find

\* A sequence whose elements are in S.
LEMMA SeqIn ==
    ASSUME NEW T, NEW s \in Seq(T), NEW S, \A x \in 1..Len(s) : s[x] \in S
    PROVE  s \in Seq(S)
OBVIOUS

\* The indices and positions that buildRoutingTable and Find store always lie in
\* the arrays they are used with.
LEMMA GeoTyped ==
    ASSUME GeoInv
    PROVE  GeoTypeOK
<1>0. /\ SplitInv /\ Filled /\ TrieInv /\ FindInv /\ TableType /\ Pointers /\ BaseFrom /\ PreFrom
      /\ TrieType /\ Calls /\ FindType
  BY DEF GeoInv, SplitInv, Placed, TrieInv, FindInv
<1>1. /\ entries \in Seq(Net) /\ i \in 1..Size + 1 /\ base \in Seq(Entry) /\ pre \in Seq(Entry)
      /\ Len(pre) \in Nat /\ Size \in Nat
  BY <1>0 DEF TableType, Size
<1>2. ASSUME pc /= "sort", NEW j \in 1..Size PROVE ptr[j] \in 0..Len(pre)
  BY <1>0, <1>2 DEF Pointers, PtrTo
<1>3. ptr \in Seq(0..Len(pre))
  <2>1. CASE pc = "sort"
    BY <1>0, <2>1 DEF Filled
  <2>2. CASE pc /= "sort"
    <3>1. ptr \in [1..Size -> 0..Len(pre)]
      BY <1>0, <1>2, <2>2 DEF Filled
    <3> QED  BY <1>1, <3>1
  <2> QED  BY <2>1, <2>2
<1>4. ASSUME NEW x \in 1..Len(base) PROVE base[x] \in [net : Net, pre : 0..Len(pre)]
  <2>1. PICK j \in 1..i - 1 : From(base[x], j)
    BY <1>0 DEF BaseFrom
  <2>2. j \in 1..Size /\ pc /= "sort"
    BY <1>0, <1>1 DEF TableType
  <2>3. entries[j] \in Net /\ ptr[j] \in 0..Len(pre)
    BY <1>1, <1>2, <2>2 DEF Size
  <2> QED  BY <2>1, <2>3 DEF From
<1>5. ASSUME NEW x \in 1..Len(pre) PROVE pre[x] \in [net : Net, pre : 0..Len(pre)]
  <2>1. PICK j \in 1..i - 1 : From(pre[x], j)
    BY <1>0 DEF PreFrom
  <2>2. j \in 1..Size /\ pc /= "sort"
    BY <1>0, <1>1 DEF TableType
  <2>3. entries[j] \in Net /\ ptr[j] \in 0..Len(pre)
    BY <1>1, <1>2, <2>2 DEF Size
  <2> QED  BY <2>1, <2>3 DEF From
<1>6. /\ base \in Seq([net : Net, pre : 0..Len(pre)])
      /\ pre \in Seq([net : Net, pre : 0..Len(pre)])
  BY <1>1, <1>4, <1>5, SeqIn
<1>7. args \in [DOMAIN args -> [prefix : Nat, first : 1..Len(base), n : 1..Len(base)]]
  BY <1>0 DEF TrieType, Calls, CallOK
<1> QED  BY <1>0, <1>1, <1>3, <1>6, <1>7 DEF GeoTypeOK, TrieType, FindType, TableType, Built

\* The inductive invariant: buildRoutingTable keeps its arrays and every node of the
\* trie sound at each iteration, and Find never loses a network that contains the host.
THEOREM GeoInvHolds == GeoSpec => []GeoInv
<1>1. GeoInit => GeoInv
  BY GeoInvInit
<1>2. GeoInv /\ [GeoNext]_geoVars => GeoInv'
  BY GeoInvNext
<1> QED  BY <1>1, <1>2, PTL DEF GeoSpec
=============================================================================
