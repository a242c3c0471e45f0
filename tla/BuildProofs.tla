----------------------------- MODULE BuildProofs -----------------------------
(***************************************************************************)
(* What build/ adds around SQLite.                                         *)
(*                                                                         *)
(* The time collation (time.c) is a total order on the keys over any set   *)
(* of bytes, of any length.  Each comparison decides anew which key drops  *)
(* its Z, so transitivity does not follow from that of memcmp.  The proof  *)
(* shows that all of them agree with one lexicographic order, Less, in     *)
(* which a Z that ends its key stands for a byte before all others.        *)
(*                                                                         *)
(* The bisection (bisect.sh) tests the commit that it judges and keeps the *)
(* culprit between its bounds, for any number of commits, whatever fails   *)
(* on each of them and however often the run is killed.                    *)
(*                                                                         *)
(* The VFS wrappers (vfs.c): for any names, addresses and files, the list  *)
(* of wrappers is what is allocated, and a file keeps its wrapper while Go *)
(* keeps its VFS.                                                          *)
(***************************************************************************)
EXTENDS TimeCollation, Bisect, VfsRegistry, SequenceTheorems, WellFoundedInduction, TLAPS

Keys == Seq(Bytes)

At(k, i) == IF i = Len(k) /\ k[i] = Z THEN -1 ELSE k[i]

Less(a, b) ==
  \E i \in 1 .. Len(b) :
    /\ i <= Len(a) + 1
    /\ \A j \in 1 .. i - 1 : At(a, j) = At(b, j)
    /\ i = Len(a) + 1 \/ At(a, i) < At(b, i)
-----------------------------------------------------------------------------
(* Sets of numbers. *)

(* A set of numbers has a least element, and Min is it.                    *)
LEMMA MinIsLeast ==
  ASSUME NEW S \in SUBSET Nat, S # {}
  PROVE  Min(S) \in S /\ \A x \in S : Min(S) <= x
<1>1. \E x \in S : \A y \in S : ~ (<< y, x >> \in OpToRel(<, Nat))
  BY NatLessThanWellFounded, WFMin
<1>2. PICK x \in S : \A y \in S : ~ (<< y, x >> \in OpToRel(<, Nat))
  BY <1>1
<1>3. \A y \in S : x <= y
  <2> SUFFICES ASSUME NEW y \in S PROVE x <= y
    OBVIOUS
  <2>1. ~ (y < x)
    BY <1>2 DEF OpToRel
  <2> QED
    BY <2>1
<1> QED
  BY <1>3 DEF Min

(* Of two numbers.                                                         *)
LEMMA MinOfTwo ==
  ASSUME NEW m \in Nat, NEW n \in Nat
  PROVE  Min({m, n}) = IF m <= n THEN m ELSE n
<1>1. Min({m, n}) \in {m, n} /\ Min({m, n}) <= m /\ Min({m, n}) <= n
  BY MinIsLeast, {m, n} \in SUBSET Nat
<1> QED
  BY <1>1
-----------------------------------------------------------------------------
(* One comparison. *)

(* A key has a length, and bytes that are numbers.                         *)
LEMMA KeyBytes ==
  ASSUME NEW a \in Keys
  PROVE  Len(a) \in Nat /\ \A i \in 1 .. Len(a) : a[i] \in Bytes /\ a[i] \in Nat
<1>1. Len(a) \in Nat
  BY LenProperties DEF Keys
<1>2. \A i \in 1 .. Len(a) : a[i] \in Bytes
  BY ElementOfSeq DEF Keys
<1> QED
  BY <1>1, <1>2, BytesAssumption

(* What is compared of a key is the key, or all of it but its last byte.   *)
LEMMA ComparedIsPrefix ==
  ASSUME NEW a \in Keys, NEW b \in Keys
  PROVE  /\ Compared(a, b) \in Keys
         /\ Len(Compared(a, b)) = IF DropsZ(a, b) THEN Len(a) - 1 ELSE Len(a)
         /\ \A i \in 1 .. Len(Compared(a, b)) : Compared(a, b)[i] = a[i]
<1>1. CASE DropsZ(a, b)
  <2>1. Len(a) >= 1
    BY <1>1, EmptySeq DEF DropsZ, Keys
  <2> DEFINE n == Len(a) - 1
  <2>2. n \in Nat /\ \A i \in 1 .. n : a[i] \in Bytes
    BY <2>1, KeyBytes
  <2> HIDE DEF n
  <2>3. /\ SubSeq(a, 1, n) \in Seq(Bytes)
        /\ Len(SubSeq(a, 1, n)) = n
        /\ \A i \in 1 .. n : SubSeq(a, 1, n)[i] = a[i]
    BY <2>2, SubSeqProperties
  <2>4. Compared(a, b) = SubSeq(a, 1, n)
    BY <1>1 DEF Compared, Front, n
  <2> QED
    BY <1>1, <2>3, <2>4 DEF n, Keys
<1>2. CASE ~ DropsZ(a, b)
  BY <1>2 DEF Compared, Keys
<1> QED
  BY <1>1, <1>2

(* The result is a number, and its sign is decided by the first difference *)
(* within the shorter of the compared parts, or else by their lengths.     *)
LEMMA Comparison ==
  ASSUME NEW a \in Keys, NEW b \in Keys,
         NEW p, p = Compared(a, b), NEW q, q = Compared(b, a)
  PROVE  \/ \E m \in 1 .. Len(p) :
              /\ m <= Len(q)
              /\ \A j \in 1 .. m - 1 : a[j] = b[j]
              /\ a[m] # b[m]
              /\ time_collation(a, b) = a[m] - b[m]
         \/ /\ \A j \in 1 .. Len(p) : j <= Len(q) => a[j] = b[j]
            /\ time_collation(a, b) = Len(p) - Len(q)
<1> DEFINE n == Min({Len(p), Len(q)})
           differ == {i \in 1 .. n : p[i] # q[i]}
<1>1. /\ p \in Keys /\ q \in Keys
      /\ \A i \in 1 .. Len(p) : p[i] = a[i]
      /\ \A i \in 1 .. Len(q) : q[i] = b[i]
  BY ComparedIsPrefix
<1>2. Len(p) \in Nat /\ Len(q) \in Nat
  BY <1>1 DEF Keys
<1>3. n = IF Len(p) <= Len(q) THEN Len(p) ELSE Len(q)
  BY <1>2, MinOfTwo
<1>4. time_collation(a, b) =
        LET rc == IF differ = {} THEN 0 ELSE p[Min(differ)] - q[Min(differ)]
        IN  IF rc = 0 THEN Len(p) - Len(q) ELSE rc
  BY DEF time_collation, Memcmp
<1>5. CASE differ = {}
  <2>1. time_collation(a, b) = Len(p) - Len(q)
    BY <1>4, <1>5
  <2>2. \A j \in 1 .. Len(p) : j <= Len(q) => a[j] = b[j]
    <3> SUFFICES ASSUME NEW j \in 1 .. Len(p), j <= Len(q) PROVE a[j] = b[j]
      OBVIOUS
    <3>1. j \in 1 .. n /\ j \in 1 .. Len(q)
      BY <1>2, <1>3
    <3> QED
      BY <1>1, <1>5, <3>1
  <2> QED
    BY <2>1, <2>2
<1>6. CASE differ # {}
  <2> DEFINE m == Min(differ)
  <2>1. differ \in SUBSET Nat
    BY <1>2, <1>3
  <2>2. m \in differ /\ \A x \in differ : m <= x
    BY <1>6, <2>1, MinIsLeast
  <2> HIDE DEF m
  <2>3. m \in 1 .. Len(p) /\ m \in 1 .. Len(q) /\ p[m] # q[m]
    BY <1>2, <1>3, <2>2
  <2>4. p[m] = a[m] /\ q[m] = b[m] /\ p[m] \in Nat /\ q[m] \in Nat
    BY <1>1, <2>3, ElementOfSeq, BytesAssumption DEF Keys
  <2>5. time_collation(a, b) = a[m] - b[m]
    <3>1. p[m] - q[m] # 0
      BY <2>3, <2>4
    <3>2. time_collation(a, b) = p[m] - q[m]
      BY <1>4, <1>6, <3>1 DEF m
    <3> QED
      BY <2>4, <3>2
  <2>6. \A j \in 1 .. m - 1 : a[j] = b[j]
    <3> SUFFICES ASSUME NEW j \in 1 .. m - 1 PROVE a[j] = b[j]
      OBVIOUS
    <3>1. j \in 1 .. n /\ j \in 1 .. Len(p) /\ j \in 1 .. Len(q) /\ ~ (m <= j)
      BY <1>2, <1>3, <2>3
    <3>2. p[j] = q[j]
      BY <2>2, <3>1
    <3> QED
      BY <1>1, <3>1, <3>2
  <2> QED
    BY <2>3, <2>4, <2>5, <2>6
<1> QED
  BY <1>5, <1>6
-----------------------------------------------------------------------------
(* The order that all comparisons agree with. *)

(* Which keys drop their Z.                                                *)
LEMMA Drops ==
  ASSUME NEW a \in Keys, NEW b \in Keys
  PROVE  DropsZ(a, b) <=> Len(a) # 0 /\ Len(a) <= Len(b) /\ a[Len(a)] = Z
BY EmptySeq DEF DropsZ, Last, Keys

(* A key before another in a comparison is before it in that order.        *)
LEMMA NegativeIsLess ==
  ASSUME NEW a \in Keys, NEW b \in Keys, time_collation(a, b) < 0
  PROVE  Less(a, b)
<1> DEFINE p == Compared(a, b)
           q == Compared(b, a)
<1>1. /\ Len(a) \in Nat /\ Len(b) \in Nat
      /\ \A i \in 1 .. Len(a) : a[i] \in Nat
      /\ \A i \in 1 .. Len(b) : b[i] \in Nat
  BY KeyBytes
<1>2. /\ Len(p) = IF DropsZ(a, b) THEN Len(a) - 1 ELSE Len(a)
      /\ Len(q) = IF DropsZ(b, a) THEN Len(b) - 1 ELSE Len(b)
  BY ComparedIsPrefix
<1>3. /\ DropsZ(a, b) <=> Len(a) # 0 /\ Len(a) <= Len(b) /\ a[Len(a)] = Z
      /\ DropsZ(b, a) <=> Len(b) # 0 /\ Len(b) <= Len(a) /\ b[Len(b)] = Z
  BY Drops
<1>4. \/ \E m \in 1 .. Len(p) :
            /\ m <= Len(q)
            /\ \A j \in 1 .. m - 1 : a[j] = b[j]
            /\ a[m] # b[m]
            /\ time_collation(a, b) = a[m] - b[m]
      \/ /\ \A j \in 1 .. Len(p) : j <= Len(q) => a[j] = b[j]
         /\ time_collation(a, b) = Len(p) - Len(q)
  BY Comparison
<1> HIDE DEF p, q
<1>5. CASE \E m \in 1 .. Len(p) :
             /\ m <= Len(q)
             /\ \A j \in 1 .. m - 1 : a[j] = b[j]
             /\ a[m] # b[m]
             /\ time_collation(a, b) = a[m] - b[m]
  <2>1. PICK m \in 1 .. Len(p) :
          /\ m <= Len(q)
          /\ \A j \in 1 .. m - 1 : a[j] = b[j]
          /\ a[m] < b[m]
    BY <1>1, <1>2, <1>5
  <2>2. m \in 1 .. Len(a) /\ m \in 1 .. Len(b)
    BY <1>1, <1>2, <2>1
  <2>3. \A j \in 1 .. m - 1 : At(a, j) = At(b, j)
    BY <1>1, <2>1, <2>2 DEF At
  <2>4. At(a, m) = a[m] \/ At(a, m) = -1
    BY DEF At
  <2>5. At(b, m) = b[m]
    BY <1>1, <1>2, <1>3, <2>1, <2>2 DEF At
  <2>6. At(a, m) < At(b, m)
    BY <1>1, <2>1, <2>2, <2>4, <2>5
  <2> QED
    BY <1>1, <2>2, <2>3, <2>6 DEF Less
<1>6. CASE /\ \A j \in 1 .. Len(p) : j <= Len(q) => a[j] = b[j]
           /\ time_collation(a, b) = Len(p) - Len(q)
  <2> DEFINE i == Len(p) + 1
  <2>1. i \in 1 .. Len(q) /\ i \in 1 .. Len(b) /\ i <= Len(a) + 1
    <3>1. Len(p) \in Nat /\ Len(q) \in Nat
      BY <1>1, <1>2, <1>3
    <3>2. Len(p) - Len(q) < 0
      BY <1>6
    <3>3. Len(p) <= Len(a) /\ Len(q) <= Len(b)
      BY <1>1, <1>2
    <3> QED
      BY <1>1, <3>1, <3>2, <3>3
  <2>2. \A j \in 1 .. i - 1 : At(a, j) = At(b, j)
    BY <1>1, <1>2, <1>3, <1>6, <2>1 DEF At
  <2>3. i = Len(a) + 1 \/ At(a, i) < At(b, i)
    <3>1. CASE DropsZ(a, b)
      <4>1. i = Len(a) /\ At(a, i) = -1
        BY <1>1, <1>2, <1>3, <3>1 DEF At
      <4>2. At(b, i) = b[i]
        BY <1>1, <1>2, <1>3, <2>1, <4>1 DEF At
      <4> QED
        BY <1>1, <2>1, <4>1, <4>2
    <3>2. CASE ~ DropsZ(a, b)
      BY <1>2, <3>2
    <3> QED
      BY <3>1, <3>2
  <2> QED
    BY <2>1, <2>2, <2>3 DEF Less
<1> QED
  BY <1>4, <1>5, <1>6

(* Keys that compare equal are identical: if one alone dropped its Z, the  *)
(* other would have to be shorter.                                         *)
LEMMA ZeroIsIdentical ==
  ASSUME NEW a \in Keys, NEW b \in Keys, time_collation(a, b) = 0
  PROVE  a = b
<1> DEFINE p == Compared(a, b)
           q == Compared(b, a)
<1>1. /\ Len(a) \in Nat /\ Len(b) \in Nat
      /\ \A i \in 1 .. Len(a) : a[i] \in Nat
      /\ \A i \in 1 .. Len(b) : b[i] \in Nat
  BY KeyBytes
<1>2. /\ Len(p) = IF DropsZ(a, b) THEN Len(a) - 1 ELSE Len(a)
      /\ Len(q) = IF DropsZ(b, a) THEN Len(b) - 1 ELSE Len(b)
  BY ComparedIsPrefix
<1>3. /\ DropsZ(a, b) <=> Len(a) # 0 /\ Len(a) <= Len(b) /\ a[Len(a)] = Z
      /\ DropsZ(b, a) <=> Len(b) # 0 /\ Len(b) <= Len(a) /\ b[Len(b)] = Z
  BY Drops
<1>4. \/ \E m \in 1 .. Len(p) :
            /\ m <= Len(q)
            /\ \A j \in 1 .. m - 1 : a[j] = b[j]
            /\ a[m] # b[m]
            /\ time_collation(a, b) = a[m] - b[m]
      \/ /\ \A j \in 1 .. Len(p) : j <= Len(q) => a[j] = b[j]
         /\ time_collation(a, b) = Len(p) - Len(q)
  BY Comparison
<1> HIDE DEF p, q
<1>5. /\ \A j \in 1 .. Len(p) : j <= Len(q) => a[j] = b[j]
      /\ Len(p) = Len(q)
  BY <1>1, <1>2, <1>4
<1>6. Len(a) = Len(b) /\ (DropsZ(a, b) <=> DropsZ(b, a))
  BY <1>1, <1>2, <1>3, <1>5
<1>7. \A j \in 1 .. Len(a) : a[j] = b[j]
  BY <1>1, <1>2, <1>3, <1>5, <1>6
<1> QED
  BY <1>6, <1>7, SeqEqual DEF Keys

(* Swapping the keys swaps the sign.                                       *)
LEMMA Swap ==
  ASSUME NEW a \in Keys, NEW b \in Keys
  PROVE  time_collation(a, b) \in Int /\ time_collation(b, a) = -time_collation(a, b)
<1> DEFINE p == Compared(a, b)
           q == Compared(b, a)
<1>1. p \in Keys /\ q \in Keys
  BY ComparedIsPrefix
<1>2. Len(p) \in Nat /\ Len(q) \in Nat
  BY <1>1, KeyBytes
<1>3. {Len(p), Len(q)} = {Len(q), Len(p)}
  OBVIOUS
<1> DEFINE n == Min({Len(p), Len(q)})
<1>4. n \in Nat /\ n <= Len(p) /\ n <= Len(q)
  BY <1>2, MinOfTwo
<1> DEFINE differ == {i \in 1 .. n : p[i] # q[i]}
<1>5. {i \in 1 .. n : q[i] # p[i]} = differ
  OBVIOUS
<1>6. time_collation(a, b) =
        LET rc == IF differ = {} THEN 0 ELSE p[Min(differ)] - q[Min(differ)]
        IN  IF rc = 0 THEN Len(p) - Len(q) ELSE rc
  BY DEF time_collation, Memcmp
<1>7. time_collation(b, a) =
        LET rc == IF differ = {} THEN 0 ELSE q[Min(differ)] - p[Min(differ)]
        IN  IF rc = 0 THEN Len(q) - Len(p) ELSE rc
  <2>1. Memcmp(q, p, n) = IF differ = {} THEN 0 ELSE q[Min(differ)] - p[Min(differ)]
    BY <1>5 DEF Memcmp
  <2>2. time_collation(b, a) =
          LET rc == Memcmp(q, p, n) IN IF rc = 0 THEN Len(q) - Len(p) ELSE rc
    BY <1>3 DEF time_collation
  <2> QED
    BY <2>1, <2>2
<1>8. differ # {} => p[Min(differ)] \in Nat /\ q[Min(differ)] \in Nat
  <2> SUFFICES ASSUME differ # {}
               PROVE  p[Min(differ)] \in Nat /\ q[Min(differ)] \in Nat
    OBVIOUS
  <2>1. differ \in SUBSET Nat
    BY <1>4
  <2>2. Min(differ) \in 1 .. n
    BY <2>1, MinIsLeast
  <2>3. Min(differ) \in 1 .. Len(p) /\ Min(differ) \in 1 .. Len(q)
    BY <1>2, <1>4, <2>2
  <2> QED
    BY <1>1, <2>3, KeyBytes
<1> HIDE DEF p, q, differ
<1> QED
  BY <1>2, <1>6, <1>7, <1>8

(* The order is transitive, and irreflexive.                               *)
LEMMA LessTransitive ==
  ASSUME NEW a \in Keys, NEW b \in Keys, NEW c \in Keys, Less(a, b), Less(b, c)
  PROVE  Less(a, c)
<1>1. /\ Len(a) \in Nat /\ Len(b) \in Nat /\ Len(c) \in Nat
      /\ \A i \in 1 .. Len(a) : At(a, i) \in Int
      /\ \A i \in 1 .. Len(b) : At(b, i) \in Int
      /\ \A i \in 1 .. Len(c) : At(c, i) \in Int
  BY KeyBytes DEF At
<1>2. PICK i \in 1 .. Len(b) :
        /\ i <= Len(a) + 1
        /\ \A j \in 1 .. i - 1 : At(a, j) = At(b, j)
        /\ i = Len(a) + 1 \/ At(a, i) < At(b, i)
  BY DEF Less
<1>3. PICK l \in 1 .. Len(c) :
        /\ l <= Len(b) + 1
        /\ \A j \in 1 .. l - 1 : At(b, j) = At(c, j)
        /\ l = Len(b) + 1 \/ At(b, l) < At(c, l)
  BY DEF Less
<1> DEFINE m == IF i <= l THEN i ELSE l
<1>4. m \in 1 .. Len(c) /\ m <= Len(a) + 1
  BY <1>1, <1>2, <1>3
<1>5. \A j \in 1 .. m - 1 : At(a, j) = At(c, j)
  BY <1>1, <1>2, <1>3
<1>6. m = Len(a) + 1 \/ At(a, m) < At(c, m)
  <2>1. CASE i < l
    <3>1. At(b, i) = At(c, i)
      BY <1>3, <2>1
    <3> QED
      BY <1>2, <2>1, <3>1
  <2>2. CASE i = l
    <3>1. i = Len(a) + 1 \/ (i \in 1 .. Len(a) /\ At(a, i) < At(b, i))
      BY <1>1, <1>2
    <3>2. At(b, i) < At(c, i)
      BY <1>1, <1>2, <1>3, <2>2
    <3>3. At(b, i) \in Int /\ At(c, i) \in Int
      BY <1>1, <1>3, <2>2
    <3>4. i \in 1 .. Len(a) => At(a, i) \in Int
      BY <1>1
    <3> HIDE DEF m
    <3>5. m = i
      BY <2>2 DEF m
    <3> QED
      BY <3>1, <3>2, <3>3, <3>4, <3>5
  <2>3. CASE l < i
    <3>1. At(a, l) = At(b, l)
      BY <1>1, <1>2, <1>3, <2>3
    <3>2. At(b, l) < At(c, l)
      BY <1>1, <1>2, <1>3, <2>3
    <3> QED
      BY <1>1, <1>2, <1>3, <2>3, <3>1, <3>2
  <2> QED
    BY <1>1, <1>2, <1>3, <2>1, <2>2, <2>3
<1> HIDE DEF m
<1> QED
  BY <1>4, <1>5, <1>6 DEF Less

LEMMA LessIrreflexive ==
  ASSUME NEW a \in Keys
  PROVE  ~ Less(a, a)
<1>1. Len(a) \in Nat /\ \A i \in 1 .. Len(a) : At(a, i) \in Int
  BY KeyBytes DEF At
<1> QED
  BY <1>1 DEF Less
-----------------------------------------------------------------------------
(* A key compared with itself is equal: otherwise it would be less, or     *)
(* greater, than itself.                                                   *)
LEMMA SelfIsZero ==
  ASSUME NEW a \in Keys
  PROVE  time_collation(a, a) = 0
<1>1. time_collation(a, a) \in Int /\ time_collation(a, a) = -time_collation(a, a)
  BY Swap
<1> QED
  BY <1>1

(* Before is the order Less, whichever key drops its Z.                    *)
LEMMA BeforeIsLess ==
  ASSUME NEW a \in Keys, NEW b \in Keys
  PROVE  Before(a, b) <=> Less(a, b)
<1>1. time_collation(a, b) \in Int /\ time_collation(b, a) = -time_collation(a, b)
  BY Swap
<1>2. CASE time_collation(a, b) < 0
  BY <1>2, NegativeIsLess DEF Before
<1>3. CASE time_collation(a, b) = 0
  BY <1>3, ZeroIsIdentical, LessIrreflexive DEF Before
<1>4. CASE time_collation(a, b) > 0
  <2>1. Less(b, a)
    BY <1>1, <1>4, NegativeIsLess
  <2>2. ~ Less(a, b)
    BY <2>1, LessTransitive, LessIrreflexive
  <2> QED
    BY <1>1, <1>4, <2>2 DEF Before
<1> QED
  BY <1>1, <1>2, <1>3, <1>4

(* For all keys: only identical ones are equal, swapping them swaps the    *)
(* sign, and the order is transitive (time_collation, build/time.c).       *)
THEOREM CollationIsTotalOrder ==
  \A a, b, c \in Keys :
    /\ time_collation(a, b) = 0 <=> a = b
    /\ Before(a, b) <=> time_collation(b, a) > 0
    /\ Before(a, b) /\ Before(b, c) => Before(a, c)
<1> SUFFICES ASSUME NEW a \in Keys, NEW b \in Keys, NEW c \in Keys
             PROVE  /\ time_collation(a, b) = 0 <=> a = b
                    /\ Before(a, b) <=> time_collation(b, a) > 0
                    /\ Before(a, b) /\ Before(b, c) => Before(a, c)
  OBVIOUS
<1>1. time_collation(a, b) = 0 <=> a = b
  BY ZeroIsIdentical, SelfIsZero
<1>2. Before(a, b) <=> time_collation(b, a) > 0
  BY Swap DEF Before
<1>3. Before(a, b) /\ Before(b, c) => Before(a, c)
  BY BeforeIsLess, LessTransitive
<1> QED
  BY <1>1, <1>2, <1>3

(* Keys stay sequences of bytes, of bounded length.                        *)
LEMMA KeysTyped == Spec => []TypeOK
<1>1. Init => TypeOK
  BY MaxLenAssumption, EmptySeq DEF Init, TypeOK
<1>2. TypeOK /\ [Next]_keys => TypeOK'
  <2> SUFFICES ASSUME TypeOK, [Next]_keys PROVE TypeOK'
    OBVIOUS
  <2>1. CASE UNCHANGED keys
    BY <2>1 DEF TypeOK
  <2>2. ASSUME NEW k \in KeyNames, NEW b \in Bytes, Extend(k, b) PROVE TypeOK'
    <3>1. Append(keys[k], b) \in Seq(Bytes) /\ Len(Append(keys[k], b)) <= MaxLen
      BY <2>2, AppendProperties, LenProperties, MaxLenAssumption DEF TypeOK, Extend
    <3> QED
      BY <2>2, <3>1 DEF TypeOK, Extend
  <2> QED
    BY <2>1, <2>2 DEF Next
<1> QED
  BY <1>1, <1>2, PTL DEF Spec

(* Whatever keys the engine meets, no two different ones are equal, and    *)
(* they are in one total order.                                            *)
THEOREM KeysIdentified == Spec => []OnlyIdenticalKeysAreEqual
<1>1. TypeOK => OnlyIdenticalKeysAreEqual
  BY CollationIsTotalOrder DEF TypeOK, OnlyIdenticalKeysAreEqual, Keys
<1> QED
  BY <1>1, KeysTyped, PTL

THEOREM KeysOrdered == Spec => []TotalOrder
<1>1. TypeOK => TotalOrder
  BY CollationIsTotalOrder DEF TypeOK, TotalOrder, Keys
<1> QED
  BY <1>1, KeysTyped, PTL

(* For any key and any continuation of it but Z: a Z suffix is placed after *)
(* the key it is a suffix of, and before that continuation.  The two may   *)
(* be equally long, when both may drop a Z, or the continuation longer.    *)
Continues(more) == more \notin {<< >>, << Z >>}

LEMMA SuffixPlaced ==
  ASSUME NEW stem \in Keys, NEW more \in Keys, Continues(more)
  PROVE  /\ Before(stem, Append(stem, Z))
         /\ Before(Append(stem, Z), stem \o more)
<1> DEFINE n == Len(stem)  withZ == Append(stem, Z)  longer == stem \o more
<1>1. /\ n \in Nat /\ Len(more) \in Nat /\ Len(more) >= 1 /\ more[1] \in Nat
      /\ \A i \in 1 .. n : stem[i] \in Nat
  <2>1. more \in Seq(Bytes) /\ more # << >>
    BY DEF Keys, Continues
  <2>2. Len(more) \in Nat /\ Len(more) # 0
    BY <2>1, LenProperties, EmptySeq
  <2> QED
    BY <2>2, KeyBytes
<1>2. /\ withZ \in Keys /\ Len(withZ) = n + 1 /\ withZ[n + 1] = Z
      /\ \A i \in 1 .. n : withZ[i] = stem[i]
  BY <1>1, AppendProperties, BytesAssumption DEF Keys
<1>3. /\ longer \in Keys /\ Len(longer) = n + Len(more)
      /\ \A i \in 1 .. n : longer[i] = stem[i]
      /\ longer[n + 1] = more[1]
  BY <1>1, ConcatProperties DEF Keys
<1>4. Len(more) = 1 => more[1] # Z
  <2> SUFFICES ASSUME Len(more) = 1, more[1] = Z PROVE more = << Z >>
    BY DEF Continues
  <2>1. more \in Seq(Bytes) /\ << Z >> \in Seq(Bytes) /\ Len(<< Z >>) = 1 /\ << Z >>[1] = Z
    BY BytesAssumption DEF Keys
  <2>2. \A i \in 1 .. Len(more) : more[i] = << Z >>[i]
    BY <2>1
  <2> QED
    BY <2>1, <2>2, SeqEqual
<1> DEFINE x == more[1]
<1>5. Len(more) \in Nat /\ x \in Nat /\ Z \in Nat
  BY <1>1, BytesAssumption
<1> HIDE DEF n, withZ, longer, x
<1>6. Less(stem, withZ)
  <2>1. CASE n # 0 /\ stem[n] = Z
    <3>1. At(stem, n) = -1 /\ At(withZ, n) = Z
      BY <1>1, <1>2, <2>1 DEF At, n
    <3>2. \A j \in 1 .. n - 1 : At(stem, j) = At(withZ, j)
      BY <1>1, <1>2 DEF At, n
    <3>3. n \in 1 .. Len(withZ) /\ n <= n + 1 /\ At(stem, n) < At(withZ, n)
      BY <1>1, <1>2, <1>5, <2>1, <3>1
    <3> QED
      BY <3>2, <3>3 DEF Less, n
  <2>2. CASE ~ (n # 0 /\ stem[n] = Z)
    <3>1. \A j \in 1 .. n : At(stem, j) = At(withZ, j)
      BY <1>1, <1>2, <2>2 DEF At, n
    <3>2. n + 1 \in 1 .. Len(withZ) /\ (n + 1) - 1 = n
      BY <1>1, <1>2
    <3> QED
      BY <3>1, <3>2 DEF Less, n
  <2> QED
    BY <2>1, <2>2
<1>7. Less(withZ, longer)
  <2>1. At(withZ, n + 1) = -1
    BY <1>1, <1>2 DEF At
  <2>2. At(longer, n + 1) = x
    <3>1. longer[n + 1] = x
      BY <1>3 DEF x
    <3>2. Len(longer) = n + 1 => Len(more) = 1
      <4>1. \A k, m \in Nat : k + m = k + 1 => m = 1
        OBVIOUS
      <4>2. Len(longer) = n + Len(more) /\ n \in Nat /\ Len(more) \in Nat
        BY <1>1, <1>3
      <4> QED
        BY <4>1, <4>2, Zenon
    <3>3. Len(longer) = n + 1 => x # Z
      BY <1>4, <3>2, Zenon DEF x
    <3> QED
      BY <3>1, <3>3 DEF At
  <2>3. \A j \in 1 .. n : At(withZ, j) = At(longer, j)
    BY <1>1, <1>2, <1>3, <1>5 DEF At
  <2>4. n + 1 \in 1 .. Len(longer) /\ n + 1 <= Len(withZ) + 1 /\ (n + 1) - 1 = n
    BY <1>1, <1>2, <1>3, <1>5
  <2>5. At(withZ, n + 1) < At(longer, n + 1)
    BY <1>5, <2>1, <2>2
  <2> QED
    BY <2>3, <2>4, <2>5 DEF Less
<1> QED
  BY <1>2, <1>3, <1>6, <1>7, BeforeIsLess DEF withZ, longer

(* A Z suffix collates before any character, whether more follow it or     *)
(* not, but after nothing (build/time.c:11), for any bytes and keys.       *)
THEOREM ZPlaced == Spec => []ZSuffixPlacement
<1>1. TypeOK => ZSuffixPlacement
  <2> SUFFICES ASSUME TypeOK, NEW i \in KeyNames, NEW j \in KeyNames
               PROVE  /\ Before(keys[i], Append(keys[i], Z))
                      /\ keys[j] \notin {<< >>, << Z >>}
                           => Before(Append(keys[i], Z), keys[i] \o keys[j])
    BY DEF ZSuffixPlacement
  <2>1. keys[i] \in Keys /\ keys[j] \in Keys
    BY DEF TypeOK, Keys
  <2>2. << Z, Z >> \in Keys /\ Continues(<< Z, Z >>)
    BY BytesAssumption DEF Keys, Continues
  <2>3. Before(keys[i], Append(keys[i], Z))
    BY <2>1, <2>2, SuffixPlaced
  <2> QED
    BY <2>1, <2>3, SuffixPlaced DEF Continues
<1> QED
  BY <1>1, KeysTyped, PTL
-----------------------------------------------------------------------------
(***************************************************************************)
(* The bisection of upstream regressions.                                  *)
(***************************************************************************)
BisectTypes ==
  /\ LastCommit \in Nat \ {0}
  /\ firstBad \in 1 .. LastCommit /\ obstacle \in [0 .. LastCommit -> Obstacles]
  /\ good \in 0 .. LastCommit /\ bad \in 0 .. LastCommit /\ skipped \subseteq 0 .. LastCommit

(* What a step works on is the commit that is checked out, from the place  *)
(* where it is made on: an earlier step or a killed run may have left      *)
(* anything.                                                               *)
ThisCommit ==
  /\ stage \in {"idle", "pick", "empty", "configure", "copy", "patch", "build", "compile",
               "test", "judge", "done"}
  /\ stage \notin {"idle", "pick", "done"} => head \in 0 .. LastCommit
  /\ stage = "configure" => out = Nothing
  /\ stage \in {"copy", "patch", "build", "compile", "test"} => out = head
  /\ stage \in {"patch", "build", "compile", "test"} => sources = head
  /\ stage = "patch" => patched = 0
  /\ stage \in {"build", "compile", "test"} => patched = 1
  /\ stage \in {"compile", "test"} => translated = head

Compiles == \A c \in 0 .. LastCommit : obstacle[c] # "compile"

(* If every commit compiles, the status of a step says on which side of    *)
(* the culprit its commit is, unless it says nothing.                      *)
Bracket ==
  Compiles =>
    /\ good < firstBad /\ firstBad <= bad
    /\ stage = "judge" => /\ status = 0 => head < firstBad
                          /\ status \notin {0, 125} => firstBad <= head
    /\ stage = "done" => \A c \in 0 .. LastCommit : good < c /\ c < bad => c \in skipped

BisectInv == BisectTypes /\ ThisCommit /\ Bracket

LEMMA BisectStep ==
  ASSUME BisectInv, [BisectNext]_bisectVars
  PROVE  BisectInv'
<1> USE DEF BisectInv, BisectTypes, ThisCommit, Bracket, Compiles, history,
            session, workFiles, Exit, Proceed,
            Following, Nothing, Commits
<1>1. CASE UNCHANGED bisectVars
  BY <1>1 DEF bisectVars
<1>2. CASE Start
  BY <1>2 DEF Start
<1>3. CASE Pick
  BY <1>3 DEF Pick, Candidates
<1>4. CASE EmptyOut
  BY <1>4 DEF EmptyOut
<1>5. CASE ConfigureAndMake
  BY <1>5 DEF ConfigureAndMake, Made
<1>6. CASE Copy
  BY <1>6 DEF Copy
<1>7. CASE Patch
  BY <1>7 DEF Patch
<1>8. CASE Build
  BY <1>8 DEF Build
<1>9. CASE Compile
  BY <1>9 DEF Compile
<1>10. CASE Test
  BY <1>10 DEF Test
<1>11. CASE Judge
  <2>1. /\ stage = "judge" /\ stage' = "pick" /\ head \in 0 .. LastCommit
        /\ good' = IF status = 0 THEN head ELSE good
        /\ skipped' = IF status = 125 THEN skipped \cup {head} ELSE skipped
        /\ bad' = IF status \notin {0, 125} THEN head ELSE bad
        /\ UNCHANGED << firstBad, obstacle >>
    BY <1>11 DEF Judge
  <2>2. BisectTypes'
    BY <2>1
  <2>3. ThisCommit'
    BY <2>1
  <2>4. Bracket'
    BY <2>1
  <2> QED
    BY <2>2, <2>3, <2>4
<1>12. CASE Kill
  BY <1>12 DEF Kill
<1> QED
  BY <1>1, <1>2, <1>3, <1>4, <1>5, <1>6, <1>7, <1>8, <1>9, <1>10, <1>11, <1>12
     DEF BisectNext, Run

LEMMA BisectInvariant == BisectSpec => []BisectInv
<1>1. BisectInit => BisectInv
  BY LastCommitAssumption DEF BisectInit, BisectInv, BisectTypes, ThisCommit, Bracket, Commits
<1>2. BisectInv /\ [BisectNext]_bisectVars => BisectInv'
  BY BisectStep
<1> QED
  BY <1>1, <1>2, PTL DEF BisectSpec

(* The tests of a step run on what its commit was built from, with the     *)
(* patches applied once, whatever an earlier step or a killed run left     *)
(* behind (build/bisect.sh).                                               *)
THEOREM StepTestsItsCommit == BisectSpec => []TestsJudgeThisCommit
<1>1. BisectInv => TestsJudgeThisCommit
  BY DEF BisectInv, ThisCommit, TestsJudgeThisCommit
<1> QED
  BY <1>1, BisectInvariant, PTL

(* As long as every commit compiles, no judgement passes the culprit by,   *)
(* and a session without skipped commits ends at it.                       *)
THEOREM CulpritKept == BisectSpec => []CulpritBracketed
<1>1. BisectInv => CulpritBracketed
  BY DEF BisectInv, BisectTypes, Bracket, Compiles, CulpritBracketed,
         Commits
<1> QED
  BY <1>1, BisectInvariant, PTL
-----------------------------------------------------------------------------
(* The VFS wrappers. *)

(* A call that sweeps the list will add a wrapper: its name has none, and  *)
(* its file is not open.                                                   *)
FindingIsNew ==
  finding # Idle => /\ finding.file \in Files /\ open[finding.file] = Closed
                    /\ finding.at >= 1
                    /\ finding.name \in Names /\ finding.name \notin Wrapped

(* A VFS that a file was kept by is still registered.                      *)
KeptRegistered == \A f \in kept : open[f].name \in registered

RegistryInv == RegistryTypeOK /\ ListMatchesMemory /\ FindingIsNew /\ KeptRegistered /\ UsersKeepWrapper
-----------------------------------------------------------------------------
(* Sequences without one element, or with one more in front.               *)

LEMMA Removed ==
  ASSUME NEW S, NEW s \in Seq(S), NEW k \in 1 .. Len(s)
  PROVE  /\ RemoveAt(s, k) \in Seq(S)
         /\ Len(RemoveAt(s, k)) = Len(s) - 1
         /\ \A i \in 1 .. Len(s) - 1 :
              RemoveAt(s, k)[i] = s[IF i < k THEN i ELSE i + 1]
<1> DEFINE before == SubSeq(s, 1, k - 1)  after == SubSeq(s, k + 1, Len(s))
<1>1. /\ before \in Seq(S) /\ Len(before) = k - 1
      /\ \A i \in 1 .. k - 1 : before[i] = s[i]
  OBVIOUS
<1>2. /\ after \in Seq(S) /\ Len(after) = Len(s) - k
      /\ \A i \in 1 .. Len(s) - k : after[i] = s[i + k]
  OBVIOUS
<1>3. RemoveAt(s, k) = before \o after
  BY DEF RemoveAt
<1> HIDE DEF before, after
<1>4. (before \o after) \in Seq(S) /\ Len(before \o after) = Len(s) - 1
  BY <1>1, <1>2
<1>5. \A i \in 1 .. Len(s) - 1 : (before \o after)[i] = IF i < k THEN before[i]
                                                      ELSE after[i - (k - 1)]
  BY <1>1, <1>2
<1>6. \A i \in 1 .. Len(s) - 1 : i >= k => after[i - (k - 1)] = s[i + 1]
  <2> SUFFICES ASSUME NEW i \in 1 .. Len(s) - 1, i >= k PROVE after[i - (k - 1)] = s[i + 1]
    OBVIOUS
  <2>1. i - (k - 1) \in 1 .. Len(s) - k /\ (i - (k - 1)) + k = i + 1
    OBVIOUS
  <2> QED
    BY <1>2, <2>1
<1> QED
  BY <1>1, <1>3, <1>4, <1>5, <1>6

LEMMA Prepended ==
  ASSUME NEW S, NEW s \in Seq(S), NEW x \in S
  PROVE  /\ << x >> \o s \in Seq(S)
         /\ Len(<< x >> \o s) = Len(s) + 1
         /\ \A i \in 1 .. Len(s) + 1 : (<< x >> \o s)[i] = IF i = 1 THEN x ELSE s[i - 1]
OBVIOUS

(* What a call of vfs_find returns is a wrapper that is allocated.         *)
LEMMA ListedAllocated ==
  ASSUME RegistryInv, NEW i \in DOMAIN list
  PROVE  list[i] \in Addrs /\ memory[list[i]] \in Names
BY DEF RegistryInv, RegistryTypeOK, ListMatchesMemory
-----------------------------------------------------------------------------
LEMMA RegistryInitInv == RegistryInit => RegistryInv
<1> SUFFICES ASSUME RegistryInit PROVE RegistryInv
  OBVIOUS
<1> USE NamesAssumption, AddrsAssumption, FilesAssumption DEF RegistryInit
<1>1. RegistryTypeOK
  BY DEF RegistryTypeOK, Idle, Closed
<1>2. ListMatchesMemory
  BY DEF ListMatchesMemory
<1>3. FindingIsNew /\ KeptRegistered /\ UsersKeepWrapper
  BY DEF FindingIsNew, KeptRegistered, UsersKeepWrapper
<1> QED
  BY <1>1, <1>2, <1>3 DEF RegistryInv

(* A file is opened with a wrapper that has the name it asked for, or with *)
(* the default VFS.                                                        *)
LEMMA OpenedInv ==
  ASSUME RegistryInv, UNCHANGED << registered, list, memory >>, finding = Idle, finding' = Idle,
         NEW f \in Files, open[f] = Closed,
         NEW a, NEW n, Opened(f, a, n),
         \/ a = Os /\ n = Os
         \/ a \in Addrs /\ n \in Names /\ memory[a] = n
  PROVE  RegistryInv'
<1> USE NamesAssumption, AddrsAssumption, FilesAssumption
<1>1. RegistryTypeOK'
  BY DEF RegistryInv, RegistryTypeOK, Opened, Idle
<1>2. ListMatchesMemory' /\ FindingIsNew'
  BY DEF RegistryInv, ListMatchesMemory, FindingIsNew
<1>3. KeptRegistered' /\ UsersKeepWrapper'
  <2>1. f \notin kept
    BY DEF RegistryInv, UsersKeepWrapper, Closed
  <2>2. open'[f] = [vfs |-> a, name |-> n] /\ \A g \in kept : open'[g] = open[g]
    BY <2>1 DEF RegistryInv, RegistryTypeOK, Opened
  <2>3. kept' = IF n \in registered THEN kept \cup {f} ELSE kept
    BY DEF Opened
  <2>4. n \in registered => a \in Addrs /\ memory[a] = n
    BY DEF RegistryInv, RegistryTypeOK
  <2> QED
    BY <2>2, <2>3, <2>4 DEF RegistryInv, KeptRegistered, UsersKeepWrapper
<1> QED
  BY <1>1, <1>2, <1>3 DEF RegistryInv

LEMMA SweepInv ==
  ASSUME RegistryInv, Sweep
  PROVE  RegistryInv'
<1> DEFINE k == finding.at  a == list[k]
<1> USE NamesAssumption, AddrsAssumption, FilesAssumption
<1>1. /\ k \in DOMAIN list /\ finding # Idle
      /\ a \in Addrs /\ memory[a] \in Names
      /\ list \in Seq(Addrs) /\ k \in 1 .. Len(list)
  <2>1. finding # Idle /\ k \in Nat /\ k <= Len(list) /\ list \in Seq(Addrs)
    BY DEF Sweep, RegistryInv, RegistryTypeOK
  <2>2. k \in 1 .. Len(list) /\ DOMAIN list = 1 .. Len(list)
    BY <2>1 DEF RegistryInv, FindingIsNew
  <2> QED
    BY <2>1, <2>2, ListedAllocated
<1>2. CASE memory[a] \in registered
  <2>1. RegistryTypeOK'
    BY <1>1, <1>2 DEF RegistryInv, RegistryTypeOK, Sweep, Advance
  <2>2. FindingIsNew'
    BY <1>1, <1>2 DEF RegistryInv, RegistryTypeOK, FindingIsNew, Sweep, Advance, Wrapped
  <2> QED
    BY <1>2, <2>1, <2>2 DEF RegistryInv, Sweep, ListMatchesMemory, KeptRegistered, UsersKeepWrapper
<1>3. CASE memory[a] \notin registered
  <2>1. /\ list' = RemoveAt(list, k) /\ memory' = [memory EXCEPT ![a] = None]
        /\ UNCHANGED << finding, registered, open, kept >>
    BY <1>3 DEF Sweep
  <2>2. /\ list' \in Seq(Addrs) /\ Len(list') = Len(list) - 1
        /\ \A i \in 1 .. Len(list) - 1 : list'[i] = list[IF i < k THEN i ELSE i + 1]
    BY <1>1, <2>1, Removed
  <2>3. memory' \in [Addrs -> Names \cup {None}]
        /\ \A b \in Addrs : memory'[b] = IF b = a THEN None ELSE memory[b]
    BY <1>1, <2>1 DEF RegistryInv, RegistryTypeOK
  <2>4. \A i \in DOMAIN list : list[i] = a => i = k
    BY <1>1 DEF RegistryInv, ListMatchesMemory
  (* What is left is what was there, but for the wrapper that is freed.    *)
  <2>5. \A i \in DOMAIN list' :
          LET j == IF i < k THEN i ELSE i + 1
          IN  /\ j \in DOMAIN list /\ j # k
              /\ list'[i] = list[j] /\ memory'[list'[i]] = memory[list[j]]
    <3> SUFFICES ASSUME NEW i \in DOMAIN list'
                 PROVE  LET j == IF i < k THEN i ELSE i + 1
                        IN  /\ j \in DOMAIN list /\ j # k
                            /\ list'[i] = list[j] /\ memory'[list'[i]] = memory[list[j]]
      OBVIOUS
    <3> DEFINE j == IF i < k THEN i ELSE i + 1
    <3>1. i \in 1 .. Len(list) - 1 /\ j \in DOMAIN list /\ j # k
      BY <1>1, <2>2
    <3>2. list'[i] = list[j] /\ list[j] \in Addrs /\ list[j] # a
      BY <1>1, <2>2, <2>4, <3>1
    <3> QED
      BY <2>3, <3>1, <3>2
  <2>6. \A j \in DOMAIN list \ {k} : \E i \in DOMAIN list' : list'[i] = list[j]
    <3> SUFFICES ASSUME NEW j \in DOMAIN list \ {k} PROVE \E i \in DOMAIN list' : list'[i] = list[j]
      OBVIOUS
    <3> DEFINE i == IF j < k THEN j ELSE j - 1
    <3>1. i \in 1 .. Len(list) - 1 /\ (IF i < k THEN i ELSE i + 1) = j
      BY <1>1
    <3>2. list'[i] = list[j] /\ i \in DOMAIN list'
      BY <2>2, <3>1
    <3> QED
      BY <3>2
  <2>7. RegistryTypeOK'
    BY <1>1, <2>1, <2>2, <2>3 DEF RegistryInv, RegistryTypeOK
  <2>8. ListMatchesMemory'
    <3>1. ASSUME NEW i \in DOMAIN list', NEW j \in DOMAIN list', memory'[list'[i]] = memory'[list'[j]]
          PROVE  i = j
      <4>1. (IF i < k THEN i ELSE i + 1) = (IF j < k THEN j ELSE j + 1)
        BY <2>5, <3>1 DEF RegistryInv, ListMatchesMemory
      <4>2. i \in Nat /\ j \in Nat
        BY <2>2
      <4> QED
        BY <1>1, <4>1, <4>2
    <3>2. {list'[i] : i \in DOMAIN list'} = {b \in Addrs : memory'[b] # None}
      <4>1. ASSUME NEW i \in DOMAIN list' PROVE list'[i] \in Addrs /\ memory'[list'[i]] # None
        BY <2>5, <4>1, ListedAllocated
      <4>2. ASSUME NEW b \in Addrs, memory'[b] # None PROVE \E i \in DOMAIN list' : list'[i] = b
        <5>1. b # a /\ memory[b] # None
          BY <2>3, <4>2
        <5>2. PICK j \in DOMAIN list : list[j] = b
          BY <5>1 DEF RegistryInv, ListMatchesMemory
        <5> QED
          BY <2>6, <5>1, <5>2
      <4> QED
        BY <4>1, <4>2
    <3> QED
      BY <3>1, <3>2 DEF ListMatchesMemory
  <2>9. FindingIsNew'
    <3>1. Wrapped' \subseteq Wrapped
      BY <2>5 DEF Wrapped
    <3> QED
      BY <2>1, <3>1 DEF RegistryInv, FindingIsNew
  <2>10. KeptRegistered' /\ UsersKeepWrapper'
    BY <1>1, <1>3, <2>1, <2>3 DEF RegistryInv, KeptRegistered, UsersKeepWrapper
  <2> QED
    BY <2>7, <2>8, <2>9, <2>10 DEF RegistryInv
<1> QED
  BY <1>2, <1>3

LEMMA CreateInv ==
  ASSUME RegistryInv, Create
  PROVE  RegistryInv'
<1> USE NamesAssumption, AddrsAssumption, FilesAssumption
<1> DEFINE f == finding.file  n == finding.name
<1>1. PICK a \in Addrs : /\ memory[a] = None
                         /\ memory' = [memory EXCEPT ![a] = n]
                         /\ list' = << a >> \o list
                         /\ Opened(f, a, n)
  BY DEF Create
<1>2. finding # Idle /\ finding' = Idle /\ UNCHANGED registered
  BY DEF Create
<1>3. f \in Files /\ open[f] = Closed /\ n \in Names /\ n \notin Wrapped
  BY <1>2 DEF RegistryInv, FindingIsNew
<1>4. memory' \in [Addrs -> Names \cup {None}]
      /\ \A b \in Addrs : memory'[b] = IF b = a THEN n ELSE memory[b]
  BY <1>1, <1>3 DEF RegistryInv, RegistryTypeOK
<1>5. /\ list' \in Seq(Addrs) /\ Len(list') = Len(list) + 1 /\ list \in Seq(Addrs)
      /\ \A i \in 1 .. Len(list) + 1 : list'[i] = IF i = 1 THEN a ELSE list[i - 1]
  BY <1>1, Prepended DEF RegistryInv, RegistryTypeOK
<1>6. \A i \in DOMAIN list' :
        \/ i = 1 /\ list'[i] = a /\ memory'[list'[i]] = n
        \/ /\ i # 1 /\ i - 1 \in DOMAIN list /\ list'[i] = list[i - 1]
           /\ memory'[list'[i]] = memory[list[i - 1]] /\ memory[list[i - 1]] # n
  <2> SUFFICES ASSUME NEW i \in DOMAIN list', i # 1
               PROVE  /\ i - 1 \in DOMAIN list /\ list'[i] = list[i - 1]
                      /\ memory'[list'[i]] = memory[list[i - 1]] /\ memory[list[i - 1]] # n
    BY <1>4, <1>5
  <2>1. i - 1 \in DOMAIN list /\ list'[i] = list[i - 1]
    BY <1>5
  <2>2. list[i - 1] \in Addrs /\ memory[list[i - 1]] \in Names
    BY <2>1, ListedAllocated
  <2> QED
    BY <1>1, <1>3, <1>4, <2>1, <2>2 DEF Wrapped
<1>7. RegistryTypeOK'
  BY <1>1, <1>2, <1>3, <1>4, <1>5 DEF RegistryInv, RegistryTypeOK, Opened, Idle
<1>8. ListMatchesMemory'
  <2>1. ASSUME NEW i \in DOMAIN list', NEW j \in DOMAIN list', memory'[list'[i]] = memory'[list'[j]]
        PROVE  i = j
    <3>1. CASE i = 1 \/ j = 1
      BY <1>6, <2>1, <3>1
    <3>2. CASE i # 1 /\ j # 1
      <4>1. i - 1 = j - 1
        BY <1>6, <2>1, <3>2 DEF RegistryInv, ListMatchesMemory
      <4>2. i \in Nat /\ j \in Nat
        BY <1>5
      <4> QED
        BY <4>1, <4>2
    <3> QED
      BY <3>1, <3>2
  <2>2. ASSUME NEW i \in DOMAIN list' PROVE list'[i] \in Addrs /\ memory'[list'[i]] # None
    BY <1>3, <1>6, <2>2, ListedAllocated
  <2>3. ASSUME NEW b \in Addrs, memory'[b] # None PROVE \E i \in DOMAIN list' : list'[i] = b
    <3>1. CASE b = a
      <4>1. 1 \in DOMAIN list' /\ list'[1] = a
        BY <1>5
      <4> QED
        BY <3>1, <4>1
    <3>2. CASE b # a
      <4>1. PICK j \in DOMAIN list : list[j] = b
        BY <1>4, <2>3, <3>2 DEF RegistryInv, ListMatchesMemory
      <4>2. j + 1 \in DOMAIN list' /\ list'[j + 1] = b
        BY <1>5, <4>1
      <4> QED
        BY <4>2
    <3> QED
      BY <3>1, <3>2
  <2>4. {list'[i] : i \in DOMAIN list'} = {b \in Addrs : memory'[b] # None}
    BY <2>2, <2>3
  <2> QED
    BY <2>1, <2>4 DEF ListMatchesMemory
<1>9. FindingIsNew'
  BY <1>2 DEF FindingIsNew, Idle
<1>10. KeptRegistered' /\ UsersKeepWrapper'
  <2>1. f \notin kept
    BY <1>3 DEF RegistryInv, UsersKeepWrapper, Closed
  <2>2. open'[f] = [vfs |-> a, name |-> n] /\ \A g \in kept : open'[g] = open[g]
    BY <1>1, <1>3, <2>1 DEF RegistryInv, RegistryTypeOK, Opened
  <2>3. kept' = IF n \in registered THEN kept \cup {f} ELSE kept
    BY <1>1 DEF Opened
  <2>4. \A g \in kept : /\ open[g].name \in registered /\ open[g].name # None
                        /\ open[g].vfs \in Addrs /\ memory[open[g].vfs] = open[g].name
    BY DEF RegistryInv, RegistryTypeOK, KeptRegistered, UsersKeepWrapper
  <2>5. \A g \in kept : open[g].vfs # a
    BY <1>1, <2>4
  <2> QED
    BY <1>2, <1>4, <2>2, <2>3, <2>4, <2>5 DEF KeptRegistered, UsersKeepWrapper
<1> QED
  BY <1>7, <1>8, <1>9, <1>10 DEF RegistryInv

LEMMA NextInv ==
  ASSUME RegistryInv, [RegistryNext]_registryVars
  PROVE  RegistryInv'
<1> USE NamesAssumption, AddrsAssumption, FilesAssumption
<1>1. CASE UNCHANGED registryVars
  BY <1>1 DEF registryVars, RegistryInv, RegistryTypeOK, ListMatchesMemory, FindingIsNew, Wrapped, KeptRegistered,
              UsersKeepWrapper
<1>2. CASE Find
  BY <1>2, SweepInv, CreateInv DEF Find
<1>3. ASSUME NEW f \in Files, FindOs(f) PROVE RegistryInv'
  BY <1>3, OpenedInv DEF FindOs
<1>4. ASSUME NEW f \in Files, NEW n \in Names, FindWrapper(f, n) PROVE RegistryInv'
  <2>1. PICK i \in DOMAIN list : memory[list[i]] = n /\ Opened(f, list[i], n)
    BY <1>4 DEF FindWrapper
  <2>2. list[i] \in Addrs
    BY ListedAllocated
  <2> QED
    BY <1>4, <2>1, <2>2, OpenedInv DEF FindWrapper
<1>5. ASSUME NEW f \in Files, NEW n \in Names, FindNothing(f, n) PROVE RegistryInv'
  <2>1. RegistryTypeOK'
    BY <1>5 DEF RegistryInv, RegistryTypeOK, FindNothing
  <2>2. FindingIsNew'
    BY <1>5 DEF FindNothing, FindingIsNew, Wrapped
  <2> QED
    BY <1>5, <2>1, <2>2 DEF RegistryInv, FindNothing, ListMatchesMemory, KeptRegistered, UsersKeepWrapper
<1>6. ASSUME NEW f \in Files, Close(f) PROVE RegistryInv'
  <2>1. RegistryTypeOK'
    BY <1>6 DEF RegistryInv, RegistryTypeOK, Close, Closed
  <2>2. FindingIsNew'
    BY <1>6 DEF Close, FindingIsNew
  <2>3. kept' = kept \ {f} /\ \A g \in kept \ {f} : open'[g] = open[g]
    BY <1>6 DEF RegistryInv, RegistryTypeOK, Close
  <2> QED
    BY <1>6, <2>1, <2>2, <2>3
       DEF RegistryInv, Close, ListMatchesMemory, KeptRegistered, UsersKeepWrapper
<1>7. ASSUME NEW n \in Names, Register(n) \/ Unregister(n) PROVE RegistryInv'
  <2>1. RegistryTypeOK'
    BY <1>7 DEF RegistryInv, RegistryTypeOK, Register, Unregister
  <2>2. ListMatchesMemory' /\ FindingIsNew'
    BY <1>7 DEF RegistryInv, Register, Unregister, ListMatchesMemory, FindingIsNew, Wrapped
  <2>3. KeptRegistered' /\ UsersKeepWrapper'
    BY <1>7 DEF RegistryInv, Register, Unregister, KeptRegistered, UsersKeepWrapper
  <2> QED
    BY <2>1, <2>2, <2>3 DEF RegistryInv
<1> QED
  BY <1>1, <1>2, <1>3, <1>4, <1>5, <1>6, <1>7 DEF RegistryNext

LEMMA Induction == RegistrySpec => []RegistryInv
<1>1. RegistryInit => RegistryInv
  BY RegistryInitInv
<1>2. ASSUME RegistryInv, [RegistryNext]_registryVars PROVE RegistryInv'
  BY <1>2, NextInv
<1> QED
  BY <1>1, <1>2, PTL DEF RegistrySpec
-----------------------------------------------------------------------------
(* A call that looks for a wrapper stands at a place of the list or at its *)
(* end, and the list, Go's registry and the open files keep their types.   *)
THEOREM RegistryTyped == RegistrySpec => []RegistryTypeOK
<1>1. RegistryInv => RegistryTypeOK
  BY DEF RegistryInv
<1> QED
  BY <1>1, Induction, PTL

(* sqlite3_vfs_find never leaves a freed wrapper in its list, loses one,   *)
(* or makes a second for a name, although Go's registry may change at each *)
(* turn of the sweep.                                                      *)
THEOREM ListIsMemory == RegistrySpec => []ListMatchesMemory
<1>1. RegistryInv => ListMatchesMemory
  BY DEF RegistryInv
<1> QED
  BY <1>1, Induction, PTL

(* The wrapper of an open file is not freed, nor made one for another VFS, *)
(* while Go keeps the VFS the file was opened with.                        *)
THEOREM WrapperKept == RegistrySpec => []UsersKeepWrapper
<1>1. RegistryInv => UsersKeepWrapper
  BY DEF RegistryInv
<1> QED
  BY <1>1, Induction, PTL
=============================================================================
