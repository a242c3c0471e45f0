------------------------- MODULE RollbackJournalLemmas -------------------------
(***************************************************************************)
(* The inductive invariant of RollbackJournal, what playing back and       *)
(* writing a journal do, and that each step keeps the locks, the types,    *)
(* and the journals and drafts of transactions.                            *)
(***************************************************************************)
EXTENDS RollbackJournal, FiniteSetTheorems, WellFoundedInduction, TLAPS

-----------------------------------------------------------------------------
(* Numbers and sequences. *)

(* A set of numbers has a least element, and Min is it.                    *)
LEMMA MinIs ==
  ASSUME NEW S \in SUBSET Nat, S # {}
  PROVE  Min(S) \in S /\ \A x \in S : Min(S) <= x
<1>1. \E x \in S : \A y \in S : ~ (<< y, x >> \in OpToRel(<, Nat))
  BY NatLessThanWellFounded, WFMin
<1>2. PICK x \in S : \A y \in S : ~ (<< y, x >> \in OpToRel(<, Nat))
  BY <1>1
<1>3. \A y \in S : x <= y
  <2> SUFFICES ASSUME NEW y \in S PROVE x <= y
    OBVIOUS
  <2>1. ~ (y < x)
    BY <1>2 DEF OpToRel
  <2> QED
    BY <2>1
<1> QED
  BY <1>3 DEF Min

(* The least of the numbers above all others is the greatest of them.      *)
LEMMA MaxIs ==
  ASSUME NEW S \in SUBSET Nat, S # {}, NEW n \in Nat, \A x \in S : x <= n
  PROVE  Max(S) \in S /\ \A x \in S : x <= Max(S)
<1> DEFINE above == {m \in Nat : \A x \in S : x <= m}
<1>1. above \in SUBSET Nat /\ above # {}
  OBVIOUS
<1>2. PICK m : m = Min(above)
  OBVIOUS
<1>3. m \in above /\ \A x \in above : m <= x
  BY <1>1, <1>2, MinIs
<1>4. m \in S
  <2> SUFFICES ASSUME m \notin S PROVE FALSE
    OBVIOUS
  <2>1. \A x \in S : x <= m - 1 /\ x \in Nat
    BY <1>3
  <2>2. PICK x : x \in S
    OBVIOUS
  <2>3. x \in Nat /\ x <= m - 1 /\ m \in Nat
    BY <1>3, <2>1, <2>2
  <2>4. m - 1 \in above
    BY <2>1, <2>3
  <2> QED
    BY <1>3, <2>3, <2>4
<1>5. \A x \in S : x <= m
  BY <1>3
<1> QED
  BY <1>4, <1>5 DEF Max

LEMMA MaxOfTwo ==
  ASSUME NEW a \in Nat, NEW b \in Nat
  PROVE  Max({a, b}) = IF a <= b THEN b ELSE a
<1> DEFINE S == {a, b}
<1>1. S \in SUBSET Nat /\ S # {} /\ \A x \in S : x <= a + b
  OBVIOUS
<1>2. PICK n \in Nat : \A x \in S : x <= n
  BY <1>1
<1>3. Max(S) \in S /\ \A x \in S : x <= Max(S)
  <2> HIDE DEF S
  <2> QED
    BY <1>1, <1>2, MaxIs
<1> QED
  BY <1>3

LEMMA PutIs ==
  ASSUME NEW s, Len(s) \in Nat, NEW i \in Nat \ {0}, NEW x, NEW gap
  PROVE  Put(s, i, x, gap) = [k \in 1 .. (IF Len(s) <= i THEN i ELSE Len(s)) |->
                                IF k = i THEN x ELSE IF k <= Len(s) THEN s[k] ELSE gap]
<1>1. Max({Len(s), i}) = IF Len(s) <= i THEN i ELSE Len(s)
  BY MaxOfTwo
<1> QED
  BY <1>1 DEF Put

LEMMA CutIs ==
  \A S, s, n : s \in Seq(S) /\ n \in Nat /\ n <= Len(s) =>
    /\ Cut(s, n) \in Seq(S) /\ Len(Cut(s, n)) = n
    /\ \A k \in 1 .. n : Cut(s, n)[k] = s[k]
BY DEF Cut

(* Two sequences of the same length and with the same elements.            *)
LEMMA SameSeq ==
  \A S, s, u : /\ s \in Seq(S) /\ u \in Seq(S) /\ Len(s) = Len(u)
               /\ \A k \in 1 .. Len(s) : s[k] = u[k]
               => s = u
OBVIOUS
-----------------------------------------------------------------------------
(* The cells of a journal. *)

LEMMA CellTypes ==
  ASSUME NEW x \in JournalCell
  PROVE  /\ x.k = "hdr" => x.by \in Nat \X Nat /\ x.n \in Nat /\ x.orig \in Nat /\ x.magic \in BOOLEAN
         /\ x.k = "rec" => x.by \in Nat \X Nat /\ x.page \in Nat \ {0} /\ x.old \in Page
         /\ x.k = "super" => x.name \in Nat \ {0}
BY DEF JournalCell, Zero

LEMMA ZeroIs == Zero \in JournalCell /\ Zero.k = "zero"
BY DEF JournalCell, Zero

LEMMA HdrIs ==
  \A t, i, n : t \in Nat /\ i \in Nat /\ n \in Nat =>
    /\ Hdr(t, i, n) \in JournalCell /\ Hdr(t, i, n).k = "hdr" /\ Hdr(t, i, n).n = 0
    /\ Hdr(t, i, n).orig = n /\ Hdr(t, i, n).magic = FALSE
BY DEF JournalCell, Hdr

LEMMA RecIs ==
  \A by, p, old : by \in Nat \X Nat /\ p \in Nat \ {0} /\ old \in Page =>
    /\ Rec(by, p, old) \in JournalCell /\ Rec(by, p, old).k = "rec" /\ Rec(by, p, old).by = by
    /\ Rec(by, p, old).page = p /\ Rec(by, p, old).old = old
BY DEF JournalCell, Rec

LEMMA SuperIs ==
  ASSUME NEW t \in Nat \ {0}
  PROVE  Super(t) \in JournalCell /\ Super(t).k = "super" /\ Super(t).name = t
BY DEF JournalCell, Super

LEMMA PutCell ==
  \A j, i, x : j \in Seq(JournalCell) /\ i \in Nat \ {0} /\ x \in JournalCell =>
    /\ Put(j, i, x, Zero) \in Seq(JournalCell)
    /\ (Len(j) <= i => Len(Put(j, i, x, Zero)) = i) /\ (i <= Len(j) => Len(Put(j, i, x, Zero)) = Len(j))
    /\ Put(j, i, x, Zero)[i] = x
    /\ \A k \in 1 .. Len(j) : k # i => Put(j, i, x, Zero)[k] = j[k]
<1> SUFFICES ASSUME NEW j \in Seq(JournalCell), NEW i \in Nat \ {0}, NEW x \in JournalCell
             PROVE  /\ Put(j, i, x, Zero) \in Seq(JournalCell)
                    /\ (Len(j) <= i => Len(Put(j, i, x, Zero)) = i) /\ (i <= Len(j) => Len(Put(j, i, x, Zero)) = Len(j))
                    /\ Put(j, i, x, Zero)[i] = x
                    /\ \A k \in 1 .. Len(j) : k # i => Put(j, i, x, Zero)[k] = j[k]
  OBVIOUS
<1> DEFINE n == IF Len(j) <= i THEN i ELSE Len(j)
<1>1. n \in Nat /\ i \in 1 .. n /\ Len(j) <= n
  OBVIOUS
<1>2. Put(j, i, x, Zero) = [k \in 1 .. n |-> IF k = i THEN x ELSE IF k <= Len(j) THEN j[k] ELSE Zero]
  BY PutIs
<1>3. Zero \in JournalCell
  BY ZeroIs
<1>4. \A k \in 1 .. n : (IF k = i THEN x ELSE IF k <= Len(j) THEN j[k] ELSE Zero) \in JournalCell
  BY <1>3
<1> HIDE DEF n
<1>5. Put(j, i, x, Zero) \in [1 .. n -> JournalCell]
  BY <1>2, <1>4
<1>6. Put(j, i, x, Zero) \in Seq(JournalCell) /\ Len(Put(j, i, x, Zero)) = n
  BY <1>1, <1>5
<1>7. Put(j, i, x, Zero)[i] = x
  BY <1>1, <1>2
<1>8. \A k \in 1 .. Len(j) : k # i => Put(j, i, x, Zero)[k] = j[k]
  BY <1>1, <1>2
<1> QED
  BY <1>6, <1>7, <1>8 DEF n

LEMMA PutPage ==
  \A f, i, x : f \in Seq(Page) /\ i \in Nat \ {0} /\ x \in Page =>
    /\ Put(f, i, x, None) \in Seq(Page)
    /\ (Len(f) <= i => Len(Put(f, i, x, None)) = i) /\ (i <= Len(f) => Len(Put(f, i, x, None)) = Len(f))
    /\ Put(f, i, x, None)[i] = x
    /\ \A k \in 1 .. Len(f) : k # i => Put(f, i, x, None)[k] = f[k]
<1> SUFFICES ASSUME NEW f \in Seq(Page), NEW i \in Nat \ {0}, NEW x \in Page
             PROVE  /\ Put(f, i, x, None) \in Seq(Page)
                    /\ (Len(f) <= i => Len(Put(f, i, x, None)) = i) /\ (i <= Len(f) => Len(Put(f, i, x, None)) = Len(f))
                    /\ Put(f, i, x, None)[i] = x
                    /\ \A k \in 1 .. Len(f) : k # i => Put(f, i, x, None)[k] = f[k]
  OBVIOUS
<1> DEFINE n == IF Len(f) <= i THEN i ELSE Len(f)
<1>1. n \in Nat /\ i \in 1 .. n /\ Len(f) <= n
  OBVIOUS
<1>2. Put(f, i, x, None) = [k \in 1 .. n |-> IF k = i THEN x ELSE IF k <= Len(f) THEN f[k] ELSE None]
  BY PutIs
<1>3. None \in Page
  BY DEF Page
<1>4. \A k \in 1 .. n : (IF k = i THEN x ELSE IF k <= Len(f) THEN f[k] ELSE None) \in Page
  BY <1>3
<1> HIDE DEF n
<1>5. Put(f, i, x, None) \in [1 .. n -> Page]
  BY <1>2, <1>4
<1>6. Put(f, i, x, None) \in Seq(Page) /\ Len(Put(f, i, x, None)) = n
  BY <1>1, <1>5
<1>7. Put(f, i, x, None)[i] = x
  BY <1>1, <1>2
<1>8. \A k \in 1 .. Len(f) : k # i => Put(f, i, x, None)[k] = f[k]
  BY <1>1, <1>2
<1> QED
  BY <1>6, <1>7, <1>8 DEF n

LEMMA CellIs ==
  \A j, i : j \in Seq(JournalCell) /\ i \in Nat =>
    /\ i \in 1 .. Len(j) => Cell(j, i) = j[i] /\ (IsHdr(j, i) <=> j[i].k = "hdr" /\ j[i].magic)
    /\ i \notin 1 .. Len(j) => Cell(j, i) = Zero /\ ~IsHdr(j, i)
<1> SUFFICES ASSUME NEW j \in Seq(JournalCell), NEW i \in Nat
             PROVE  /\ i \in 1 .. Len(j) => Cell(j, i) = j[i] /\ (IsHdr(j, i) <=> j[i].k = "hdr" /\ j[i].magic)
                    /\ i \notin 1 .. Len(j) => Cell(j, i) = Zero /\ ~IsHdr(j, i)
  OBVIOUS
<1>1. j # None
  BY JournalAssumption
<1> QED
  BY <1>1, ZeroIs DEF Cell, IsHdr

LEMMA NoCell ==
  ASSUME NEW i PROVE Cell(None, i) = Zero /\ ~IsHdr(None, i) /\ SuperName(None) = 0
BY ZeroIs DEF Cell, IsHdr, SuperName
-----------------------------------------------------------------------------
(* The records that are played back.  From[i] of Records: what is read     *)
(* from a header at i on.                                                  *)
Follow(j, upto, i, F) ==
  IF ~IsHdr(j, i) THEN {}
  ELSE LET next == i + j[i].n + 1 IN
       {i + k : k \in Valid(j, i)}
       \cup IF Cardinality(Valid(j, i)) = j[i].n /\ next \in i + 1 .. upto THEN F[next] ELSE {}

(* The recursion is well-founded: each header is read before the next.     *)
LEMMA RecordsIs ==
  ASSUME NEW j, NEW upto \in Nat
  PROVE  \E F : /\ F = [i \in 1 .. upto |-> Follow(j, upto, i, F)]
                /\ Records(j, upto) = IF upto = 0 THEN {} ELSE F[1]
<1> DEFINE On(F, l) == F = [i \in l .. upto |-> Follow(j, upto, i, F)]
           Bad == {m \in Nat : m <= upto /\ ~ \E F : On(F, upto - m + 1)}
<1>1. Bad = {}
  <2> SUFFICES ASSUME Bad # {} PROVE FALSE
    OBVIOUS
  <2>1. PICK m \in Bad : \A x \in Bad : m <= x
    <3>1. Bad \in SUBSET Nat
      OBVIOUS
    <3> HIDE DEF Bad
    <3> QED
      BY <3>1, MinIs
  <2>2. m # 0
    <3> SUFFICES ASSUME m = 0 PROVE FALSE
      OBVIOUS
    <3>1. upto - m + 1 .. upto = {}
      OBVIOUS
    <3>2. \E F : F = [i \in {} |-> Follow(j, upto, i, F)]
      <4>1. [i \in {} |-> {}] = [i \in {} |-> Follow(j, upto, i, [i_1 \in {} |-> {}])]
        OBVIOUS
      <4> QED
        BY <4>1
    <3>3. \E F : On(F, upto - m + 1)
      BY <3>1, <3>2
    <3> QED
      BY <2>1, <3>3
  <2>3. m - 1 \in Nat /\ m - 1 <= upto /\ m - 1 \notin Bad
    <3>1. m \in Nat /\ m <= upto
      BY <2>1
    <3> HIDE DEF Bad
    <3> QED
      BY <2>1, <2>2, <3>1
  <2>4. PICK F : On(F, upto - m + 2)
    BY <2>3
  <2> DEFINE l == upto - m + 1
             G == [i \in l .. upto |-> IF i = l THEN Follow(j, upto, l, F) ELSE F[i]]
  <2>5. l \in 1 .. upto
    BY <2>2
  <2>6. \A i \in l .. upto : G[i] = Follow(j, upto, i, G)
    <3> SUFFICES ASSUME NEW i \in l .. upto PROVE G[i] = Follow(j, upto, i, G)
      OBVIOUS
    <3>1. \A n \in i + 1 .. upto : F[n] = G[n]
      BY <2>5
    <3>2. Follow(j, upto, i, F) = Follow(j, upto, i, G)
      BY <3>1 DEF Follow
    <3>3. CASE i = l
      BY <3>2, <3>3
    <3>4. CASE i # l
      <4>1. i \in upto - m + 2 .. upto
        BY <2>5, <3>4
      <4>2. F[i] = Follow(j, upto, i, F)
        BY <2>4, <4>1
      <4> QED
        BY <3>2, <3>4, <4>2
    <3> QED
      BY <3>3, <3>4
  <2>7. On(G, upto - m + 1)
    BY <2>6
  <2> QED
    BY <2>1, <2>7
<1>2. \E F : On(F, 1)
  <2>1. upto \notin Bad
    BY <1>1
  <2>2. \E F : On(F, upto - upto + 1)
    BY <2>1
  <2> QED
    BY <2>2
<1>3. PICK F : F = CHOOSE f : On(f, 1)
  OBVIOUS
<1>4. F = [i \in 1 .. upto |-> Follow(j, upto, i, F)]
  BY <1>2, <1>3
<1>5. Records(j, upto) = IF upto = 0 THEN {} ELSE F[1]
  BY <1>3 DEF Records, Follow
<1> QED
  BY <1>4, <1>5
-----------------------------------------------------------------------------
(* Locks, and where a connection is. *)

Excluded ==
  \A c, o \in Conns : \A d \in Files :
    c # o => /\ lock[c][d] >= RESERVED => lock[o][d] <= SHARED
             /\ lock[c][d] = EXCLUSIVE => lock[o][d] = NONE

(* It has opened a file and looks for a hot journal, or plays it back.     *)
Recovering(c) ==
  \/ pc[c] \in {"exists", "reserved", "empty", "byte", "excl", "open", "check"}
  \/ op[c] = "hot" /\ pc[c] \in {"play", "fin", "finsync", "unlock", "delsuper"}
Alone(c) == pc[c] \in {"open", "play", "fin", "finsync", "unlock"}

InTxn(c, d) == d \in reads[c] /\ lock[c][d] >= RESERVED

LocksHeld(c) ==
  \A d \in Files :
    /\ d \in reads[c] => lock[c][d] >= SHARED
    /\ Recovering(c) /\ cur[c] = d =>
         d \notin reads[c] /\ lock[c][d] = IF Alone(c) THEN EXCLUSIVE ELSE SHARED
    /\ lock[c][d] # NONE => d \in reads[c] \/ (Recovering(c) /\ cur[c] = d)
    /\ lock[c][d] # NONE => c \in setting.conns /\ d \in setting.files

Control(c) ==
  /\ pc[c] \in {"exists", "reserved", "empty", "byte", "excl", "open"} => op[c] = "read"
  /\ pc[c] = "check" => op[c] \in {"read", "hot"}
  /\ pc[c] \in {"lock", "super", "prepare", "commit"} => op[c] = "commit"
  /\ pc[c] \in {"sync", "count", "sync2", "page"} => op[c] \in {"write", "commit"}
  /\ pc[c] = "next" => op[c] \in {"commit", "rollback"}
  /\ pc[c] \in {"play", "delsuper"} => op[c] \in {"hot", "rollback"}
  /\ pc[c] \in {"fin", "finsync", "unlock"} => op[c] \in {"hot", "commit", "rollback"}
  /\ op[c] = "rollback" => pc[c] \in {"next", "play", "fin", "finsync", "unlock", "delsuper"}
  /\ \/ pc[c] \in {"super", "prepare", "sync", "count", "sync2", "page", "commit"}
     \/ op[c] \in {"commit", "rollback"} /\ pc[c] \in {"play", "fin", "finsync", "unlock"}
     => InTxn(c, cur[c])
  /\ pc[c] \in {"next", "lock"} => \E d \in Files : InTxn(c, d)
  /\ Recovering(c) \/ pc[c] = "delsuper" => cur[c] \in Files
  /\ sup[c] # 0 => op[c] \in {"hot", "rollback"} /\ pc[c] \in {"fin", "finsync", "unlock", "delsuper"}
  /\ pc[c] = "delsuper" => sup[c] # 0

NothingDone(c, d) == jw[c][d] = NoJw /\ mine[c][d] = None
Unused(c) == \A d \in Files : ~InTxn(c, d) => NothingDone(c, d)

TxnKept(c) ==
  /\ txn[c] # 0 <=> \E d \in Files : InTxn(c, d)
  /\ txn[c] <= txns
  /\ \A o \in Conns : txn[c] # 0 /\ txn[o] = txn[c] => o = c
-----------------------------------------------------------------------------
(* The journal of a transaction: j, with what its writer knows of it, w,   *)
(* and the file f, that held a when the transaction began.                 *)

(* The cells up to L are segments whose headers have been counted.         *)
Tiled(j, L) ==
  /\ L <= Len(j)
  /\ L >= 1 => IsHdr(j, 1)
  /\ \A k \in 1 .. L :
       \/ /\ j[k].k = "hdr" /\ j[k].magic
          /\ k + j[k].n <= L
          /\ \A m \in 1 .. j[k].n : j[k + m].k = "rec" /\ j[k + m].by = j[k].by
          /\ k + j[k].n < L => IsHdr(j, k + j[k].n + 1) \/ j[k + j[k].n + 1].k = "super"
       \/ j[k].k = "rec"
       \/ j[k].k = "super" /\ k = L

Recorded(j, L, p) == \E k \in 1 .. L : j[k].k = "rec" /\ j[k].page = p

Placed(j, w) ==
  /\ 1 <= w.off /\ w.off <= Len(j)
  /\ 1 <= w.hdr /\ w.hdr <= w.off + 1
  /\ w.mod <=> w.hdr > 1
  /\ 1 < w.hdr /\ w.hdr <= w.off => j[w.hdr - 1].k # "super"

(* The segment that is not synced, or none.                                *)
Segment(j, w) ==
  /\ w.hdr <= w.off =>
       /\ j[w.hdr].k = "hdr" /\ j[w.hdr].orig = w.orig
       /\ \A m \in 1 .. w.n : j[w.hdr + m].k = "rec" /\ j[w.hdr + m].by = j[w.hdr].by
       /\ \/ w.off = w.hdr + w.n
          \/ w.off = w.hdr + w.n + 1 /\ j[w.off].k = "super"
       /\ j[w.hdr].magic => j[w.hdr].n = w.n /\ ~IsHdr(j, w.off + 1)
  /\ w.hdr > w.off => ~IsHdr(j, w.hdr) /\ w.need = {}

(* Every page that changes is in the journal, as it was.                   *)
Copied(j, w, a) ==
  /\ w.orig = Len(a)
  /\ \A k \in 1 .. w.off : j[k].k = "rec" => j[k].page \in w.inJournal /\ j[k].old = a[j[k].page]
  /\ w.inJournal \subseteq 1 .. w.orig
  /\ \A p \in w.inJournal : Recorded(j, IF p \in w.need THEN w.off ELSE w.hdr - 1, p)

Restorable(j, w, a, f) ==
  /\ Len(f) >= w.orig
  /\ \A p \in 1 .. w.orig : f[p] = a[p] \/ Recorded(j, w.hdr - 1, p)
  /\ ~w.mod => f = a

Journal(j, w, a, f) ==
  /\ Placed(j, w)
  /\ Tiled(j, w.hdr - 1) /\ (w.hdr > 1 => j[1].orig = w.orig)
  /\ Segment(j, w) /\ Copied(j, w, a) /\ Restorable(j, w, a, f)

(* What is to be the file, m: the file has it but for what is dirty.       *)
Drawn(m, w, f) ==
  /\ Len(m) >= w.orig /\ Len(m) >= Len(f)
  /\ \A p \in 1 .. Len(m) : p \in w.dirty \/ (p <= Len(f) /\ f[p] = m[p])
  /\ w.dirty \subseteq 1 .. Len(m)
  /\ \A p \in w.dirty : p > w.orig \/ p \in w.inJournal
Draft(m, w, f) == Len(m) >= 1 /\ Drawn(m, w, f)

(* There is no journal yet. *)
Unopened(w, a) == w = [NoJw EXCEPT !.orig = Len(a)]

(* The segment can grow.                                                   *)
Growing(j, w) == w.hdr <= w.off /\ w.off = w.hdr + w.n /\ ~j[w.hdr].magic
-----------------------------------------------------------------------------
Preparing(c) ==
  op[c] = "commit" /\ pc[c] \in {"super", "prepare", "sync", "count", "sync2", "page", "commit"}
Committed(c) ==
  op[c] = "commit" /\ pc[c] \in {"next", "fin", "finsync", "unlock"} /\ mine[c][cur[c]] = None
Undone(c, d) == op[c] = "rollback" /\ pc[c] \in {"finsync", "unlock"} /\ cur[c] = d

(* The transaction has still to change the file, or to leave it as it was. *)
Live(c, d) == InTxn(c, d) /\ ~Committed(c) /\ ~Undone(c, d)

Several(c) == Cardinality(Reserved(c)) > 1
Prepared(c, d) ==
  op[c] = "commit" /\ (jw[c][d].done \/ (cur[c] = d /\ pc[c] \in {"sync", "count", "sync2", "page"}))
Sealed(c, d) == op[c] = "commit" /\ (jw[c][d].done \/ (cur[c] = d /\ pc[c] = "page"))

JournalKept(c, d) ==
  LET w == jw[c][d]  a == cache[c][d]  j == jnl[d] IN
  /\ a # None /\ w.orig = Len(a)
  /\ w.off = 0 => Unopened(w, a) /\ mine[c][d] = None
  /\ w.off # 0 => j # None /\ Journal(j, w, a, db[d]) /\ SuperName(j) \in supers \cup {0}
  /\ w.mod => lock[c][d] = EXCLUSIVE

DraftKept(c, d) ==
  LET w == jw[c][d]  a == cache[c][d]  j == jnl[d]  m == mine[c][d] IN
  w.off # 0 /\ op[c] # "rollback" =>
    /\ m # None /\ Draft(m, w, db[d])
    /\ Counter(m) = IF Prepared(c, d) THEN Counter(a) + 1 ELSE Counter(a)
    /\ Sealed(c, d) <=> w.hdr > w.off
    /\ w.hdr <= w.off => (j[w.hdr].magic <=> cur[c] = d /\ pc[c] = "sync2")
    /\ w.hdr <= w.off /\ ~(Prepared(c, d) /\ Several(c)) => w.off = w.hdr + w.n
    /\ Prepared(c, d) /\ Several(c) => Len(j) = w.off /\ j[w.off] = Super(txn[c])
    /\ w.done => /\ Preparing(c) \/ (op[c] = "commit" /\ pc[c] = "fin")
                 /\ w.dirty = {} /\ w.mod /\ ddb[d] = db[d] /\ djnl[d] = jnl[d]

(* What a connection may rely on at each place.                            *)
Writing(c) == pc[c] \in {"sync", "count", "sync2", "page"}

Stage(c) ==
  LET d == cur[c]  w == jw[c][d] IN
  /\ Writing(c) => w.off # 0 /\ ~w.done
  /\ pc[c] \in {"count", "sync2", "page"} => lock[c][d] = EXCLUSIVE
  /\ pc[c] = "count" => ~IsHdr(jnl[d], w.off + 1)
  /\ pc[c] = "page" => w.mod
  /\ pc[c] = "page" /\ op[c] = "commit" => djnl[d] = jnl[d]
  /\ Writing(c) /\ op[c] = "write" => spill[c] \in w.dirty
  /\ pc[c] = "page" /\ op[c] = "write" => spill[c] \notin w.need
  /\ pc[c] \in {"super", "prepare"} => ~w.done
  /\ pc[c] = "lock" \/ Preparing(c) => \A e \in Files : InTxn(c, e) => jw[c][e].off # 0
  /\ Preparing(c) => \A e \in Files : InTxn(c, e) => lock[c][e] = EXCLUSIVE
  /\ Preparing(c) /\ pc[c] # "super" /\ Several(c) => txn[c] \in supers /\ children[txn[c]] = Reserved(c)
  /\ op[c] = "commit" /\ pc[c] \in {"fin", "commit"} /\ ~Committed(c) =>
       \A e \in Files : InTxn(c, e) => jw[c][e].done
  /\ op[c] = "commit" /\ pc[c] = "fin" /\ ~Committed(c) => Reserved(c) = {cur[c]} /\ lock[c][cur[c]] = EXCLUSIVE
  /\ pc[c] \in {"commit", "super"} => Several(c)
  /\ op[c] = "commit" /\ pc[c] \in {"next", "finsync", "unlock"} => Committed(c)
  /\ Committed(c) => \A e \in Files : InTxn(c, e) => lock[c][e] = EXCLUSIVE /\ mine[c][e] = None
  /\ op[c] = "rollback" /\ pc[c] \in {"play", "fin"} => w.off # 0
-----------------------------------------------------------------------------
(* Caches and files *)

SeenIsStore == \A c \in Conns : \A d \in reads[c] : cache[c][d] = Store(d)

Fits(a, b) == a = b \/ Counter(a) < Counter(b)
CachesFit == \A c \in Conns : \A d \in Files : cache[c][d] # None => Fits(cache[c][d], Store(d))

HotFits ==
  \A d \in Files : \A j \in {jnl[d], djnl[d]} : IsHdr(j, 1) =>
     /\ j[1].orig <= Len(db[d]) /\ j[1].orig <= Len(ddb[d])
     /\ \A c \in Conns : InTxn(c, d) => j[1].orig <= jw[c][d].orig
OrigKept == \A c \in Conns, d \in Files :
              InTxn(c, d) => jw[c][d].orig <= Len(db[d]) /\ jw[c][d].orig <= Len(ddb[d])
Settled ==
  \A d \in Files : Len(db[d]) <= Len(ddb[d]) \/ (IsHdr(jnl[d], 1) /\ Counts(jnl[d], supers))

(* Nobody who reads meets a hot journal but its writer.                    *)
Passed(c, d) ==
  \/ d \in reads[c]
  \/ cur[c] = d /\ (pc[c] = "check" \/ (op[c] = "hot" /\ pc[c] \in {"finsync", "unlock", "delsuper"}))
Quiet ==
  \A c \in Conns, d \in Files : IsHdr(jnl[d], 1) /\ Passed(c, d) =>
         \/ Live(c, d) /\ jw[c][d].off # 0 /\ lock[c][d] = EXCLUSIVE
         \/ Committed(c) /\ InTxn(c, d) /\ ~Counts(jnl[d], supers)

Played(c) ==
  LET d == cur[c] IN
  op[c] \in {"hot", "rollback"} /\ pc[c] = "fin" =>
     /\ db[d] = Store(d) /\ Len(db[d]) <= Len(ddb[d])
     /\ op[c] = "rollback" => db[d] = cache[c][d]
Finished(c) ==
  pc[c] \in {"finsync", "unlock"} =>
     ~IsHdr(jnl[cur[c]], 1) /\ (txn[c] # 0 => SuperName(jnl[cur[c]]) # txn[c])
-----------------------------------------------------------------------------
(* Super-journals *)

Names(d) ==
  LET t == SuperName(jnl[d]) IN
  t # 0 => /\ t \in 1 .. txns /\ d \in children[t]
           /\ t \in supers \/ IsHdr(jnl[d], 1)
           /\ t \in supers <=> t \in dsupers
NamesOwned(c, d) ==
  txn[c] # 0 =>
     /\ SuperName(jnl[d]) = txn[c] => InTxn(c, d) /\ jw[c][d].off # 0
     /\ txn[c] \in {SuperName(jnl[d]), SuperName(djnl[d])} =>
          op[c] \in {"commit", "rollback"} /\ pc[c] \notin {"lock", "super", "run"}
     /\ SuperName(djnl[d]) = txn[c] /\ Preparing(c) => InTxn(c, d)
SupersKept(c) ==
  sup[c] # 0 =>
     /\ sup[c] \in 1 .. txns
     /\ \A o \in Conns : txn[o] = sup[c] => o = c /\ op[c] = "rollback"
     /\ pc[c] \in {"finsync", "unlock", "delsuper"} => SuperName(jnl[cur[c]]) # sup[c]
DiskNames ==
  /\ supers \subseteq dsupers /\ dsupers \subseteq 1 .. txns
  /\ \A d \in Files : SuperName(djnl[d]) \in 0 .. txns

(* With one file there are none. *)
Plain(j) == j = None \/ \A i \in DOMAIN j : j[i].k # "super"
OneFile == Cardinality(setting.files) = 1
OneFileNoSupers ==
  OneFile => supers = {} /\ dsupers = {} /\ \A d \in Files : Plain(jnl[d]) /\ Plain(djnl[d])
-----------------------------------------------------------------------------
(* What is on disk *)
Back(d) == Restored(db[d], djnl[d], dsupers)
SyncedKept(c, d) ==
  Live(c, d) /\ jw[c][d].mod =>
    LET h == jw[c][d].hdr IN
    /\ djnl[d] # None /\ Len(djnl[d]) >= h - 1 /\ \A k \in 1 .. h - 1 : djnl[d][k] = jnl[d][k]
    /\ ~IsHdr(djnl[d], h)
    /\ SuperName(djnl[d]) \in dsupers \cup {0}
DiskSynced(c) ==
  /\ op[c] = "hot" /\ pc[c] \in {"play", "fin"} => djnl[cur[c]] = jnl[cur[c]]
  /\ Durable /\ op[c] = "commit" /\ pc[c] = "unlock" => djnl[cur[c]] = jnl[cur[c]]
(* A file that was empty when the journal was looked at is still empty.    *)
Emptied(c) == pc[c] = "empty" => db[cur[c]] = << >>

(* The journal that is finalised has not gone.                             *)
Present(c) ==
  /\ op[c] = "hot" /\ pc[c] \in {"play", "fin"} => jnl[cur[c]] # None
  /\ Committed(c) => \A e \in Files :
       InTxn(c, e) => jnl[e] # None \/ (cur[c] = e /\ pc[c] \in {"finsync", "unlock"})

Base ==
  TypeOK /\ Excluded /\ \A c \in Conns : LocksHeld(c) /\ Control(c) /\ TxnKept(c) /\ Unused(c)
Lives == \A c \in Conns, d \in Files : Live(c, d) => JournalKept(c, d) /\ DraftKept(c, d)
Phases == \A c \in Conns : Stage(c) /\ Played(c) /\ Finished(c) /\ Emptied(c) /\ Present(c)
Stores == SeenIsStore /\ CachesFit /\ HotFits /\ OrigKept /\ Settled /\ Quiet
Supered ==
  /\ \A d \in Files : Names(d) /\ \A c \in Conns : NamesOwned(c, d)
  /\ \A c \in Conns : SupersKept(c)
  /\ DiskNames /\ OneFileNoSupers
Synced == \A c \in Conns : DiskSynced(c) /\ \A d \in Files : SyncedKept(c, d)

Inv == Base /\ Lives /\ Phases /\ Stores /\ Supered /\ Synced /\ NothingLost
(* Only records are played back.                                           *)
RecPlaces(j) == {k \in Nat : Cell(j, k).k = "rec"}

LEMMA RecordsAreRecords ==
  ASSUME NEW j \in Seq(JournalCell) \cup {None}, NEW upto \in Nat
  PROVE  Records(j, upto) \subseteq RecPlaces(j)
<1> DEFINE recs == {k \in Nat : Cell(j, k).k = "rec"}
<1>1. PICK F : /\ F = [i \in 1 .. upto |-> Follow(j, upto, i, F)]
               /\ Records(j, upto) = IF upto = 0 THEN {} ELSE F[1]
  BY RecordsIs
<1>2. \A i \in 1 .. upto : F[i] = Follow(j, upto, i, F)
  BY <1>1
<1> DEFINE Bad == {m \in Nat : m < upto /\ ~(F[upto - m] \subseteq recs)}
<1>3. Bad = {}
  <2> SUFFICES ASSUME Bad # {} PROVE FALSE
    OBVIOUS
  <2>1. PICK m \in Bad : \A x \in Bad : m <= x
    <3>1. Bad \in SUBSET Nat
      OBVIOUS
    <3> HIDE DEF Bad
    <3> QED
      BY <3>1, MinIs
  <2>2. m \in Nat /\ m < upto /\ ~(F[upto - m] \subseteq recs)
    BY <2>1
  <2> DEFINE i == upto - m
             next == i + j[i].n + 1
  <2>3. i \in 1 .. upto /\ F[i] = Follow(j, upto, i, F)
    BY <1>2, <2>2
  <2>4. next \in i + 1 .. upto => F[next] \subseteq recs
    <3> SUFFICES ASSUME next \in i + 1 .. upto PROVE F[next] \subseteq recs
      OBVIOUS
    <3>1. PICK n \in i + 1 .. upto : n = next
      OBVIOUS
    <3>2. upto - n \in Nat /\ upto - n < upto /\ upto - n < m /\ upto - (upto - n) = n
      BY <2>2, <2>3
    <3>3. upto - n \notin Bad
      <4> HIDE DEF Bad
      <4> QED
        BY <2>1, <2>2, <3>2
    <3> QED
      BY <3>1, <3>2, <3>3
  <2>5. {i + k : k \in Valid(j, i)} \subseteq recs
    <3> SUFFICES ASSUME NEW k \in Valid(j, i) PROVE i + k \in recs
      OBVIOUS
    <3>1. k \in 1 .. j[i].n /\ \A x \in 1 .. k : Cell(j, i + x).k = "rec"
      BY DEF Valid
    <3>2. k \in 1 .. k /\ i + k \in Nat
      BY <2>3, <3>1
    <3> QED
      BY <3>1, <3>2
  <2>6. F[i] \subseteq recs
    <3> HIDE DEF recs
    <3> QED
      BY <2>3, <2>4, <2>5 DEF Follow
  <2> QED
    BY <2>2, <2>6
<1>4. upto # 0 => F[1] \subseteq recs
  <2> SUFFICES ASSUME upto # 0 PROVE F[1] \subseteq recs
    OBVIOUS
  <2>1. upto - 1 \in Nat /\ upto - 1 < upto /\ upto - (upto - 1) = 1
    OBVIOUS
  <2>2. upto - 1 \notin Bad
    <3> HIDE DEF Bad
    <3> QED
      BY <1>3
  <2> QED
    BY <2>1, <2>2
<1> QED
  BY <1>1, <1>4 DEF RecPlaces

(* Of segments that have been counted, all of them.                        *)
LEMMA RecordsTiled ==
  ASSUME NEW j \in Seq(JournalCell), NEW upto \in Nat, NEW L \in Nat,
         1 <= L, L <= upto, Tiled(j, L), L = upto \/ ~IsHdr(j, L + 1)
  PROVE  Records(j, upto) = {k \in 1 .. L : j[k].k = "rec"}
<1> DEFINE recs(l) == {k \in l .. L : j[k].k = "rec"}
<1>1. PICK F : /\ F = [i \in 1 .. upto |-> Follow(j, upto, i, F)]
               /\ Records(j, upto) = IF upto = 0 THEN {} ELSE F[1]
  BY RecordsIs
<1>2. \A i \in 1 .. upto : F[i] = Follow(j, upto, i, F)
  BY <1>1
<1>3. L <= Len(j) /\ \A k \in 1 .. L : k \in 1 .. Len(j) /\ Cell(j, k) = j[k] /\ j[k] \in JournalCell
                                       /\ (IsHdr(j, k) <=> j[k].k = "hdr" /\ j[k].magic)
  BY CellIs DEF Tiled
<1> DEFINE Bad == {m \in Nat : m < L /\ IsHdr(j, L - m) /\ F[L - m] # recs(L - m)}
<1>4. Bad = {}
  <2> SUFFICES ASSUME Bad # {} PROVE FALSE
    OBVIOUS
  <2>1. PICK m \in Bad : \A x \in Bad : m <= x
    <3>1. Bad \in SUBSET Nat
      OBVIOUS
    <3> HIDE DEF Bad
    <3> QED
      BY <3>1, MinIs
  <2>2. m \in Nat /\ m < L /\ IsHdr(j, L - m) /\ F[L - m] # recs(L - m)
    BY <2>1
  <2>3. PICK i \in 1 .. L : i = L - m
    BY <2>2
  <2>4. IsHdr(j, i) /\ F[i] # recs(i) /\ F[i] = Follow(j, upto, i, F)
    BY <1>2, <2>2, <2>3
  <2>5. j[i].k = "hdr" /\ j[i].n \in Nat
    BY <1>3, <2>4, CellTypes
  <2>6. PICK n \in Nat : n = j[i].n
    BY <2>5
  <2>7. /\ i + n <= L /\ \A x \in 1 .. n : j[i + x].k = "rec" /\ j[i + x].by = j[i].by
        /\ i + n < L => IsHdr(j, i + n + 1) \/ j[i + n + 1].k = "super"
    BY <2>5, <2>6 DEF Tiled
  <2>8. Valid(j, i) = 1 .. n
    <3>1. \A x \in 1 .. n : i + x \in 1 .. L /\ Cell(j, i + x).k = "rec" /\ j[i + x].by = j[i].by
      <4> SUFFICES ASSUME NEW x \in 1 .. n
                   PROVE  i + x \in 1 .. L /\ Cell(j, i + x).k = "rec" /\ j[i + x].by = j[i].by
        OBVIOUS
      <4>1. j[i + x].k = "rec" /\ j[i + x].by = j[i].by /\ i + n <= L
        BY <2>7
      <4>2. i + x \in 1 .. L
        <5>1. i \in Nat /\ 1 <= i /\ x \in Nat /\ x <= n /\ i + n <= L
          BY <2>3, <2>6, <4>1
        <5> QED
          BY <2>6, <5>1
      <4>3. Cell(j, i + x) = j[i + x]
        BY <1>3, <4>2
      <4> QED
        BY <4>1, <4>2, <4>3
    <3> QED
      BY <2>6, <3>1 DEF Valid
  <2>9. Cardinality(Valid(j, i)) = n
    BY <2>8, FS_Interval
  <2> DEFINE rest == IF i + n + 1 \in i + 1 .. upto THEN F[i + n + 1] ELSE {}
  <2>10. F[i] = {i + k : k \in 1 .. n} \cup rest
    BY <2>4, <2>6, <2>8, <2>9 DEF Follow
  <2>11. {i + k : k \in 1 .. n} = {k \in i .. i + n : j[k].k = "rec"}
    <3>1. \A k \in 1 .. n : i + k \in i .. i + n /\ j[i + k].k = "rec"
      BY <2>3, <2>6, <2>7
    <3>2. \A k \in i .. i + n : j[k].k = "rec" => k - i \in 1 .. n /\ k = i + (k - i)
      <4> SUFFICES ASSUME NEW k \in i .. i + n, j[k].k = "rec" PROVE k - i \in 1 .. n /\ k = i + (k - i)
        OBVIOUS
      <4>1. k # i
        BY <2>5
      <4>2. i \in Nat /\ n \in Nat /\ k \in Nat /\ i <= k /\ k <= i + n
        BY <2>3, <2>6
      <4> QED
        BY <4>1, <4>2
    <3>3. {i + k : k \in 1 .. n} \subseteq {k \in i .. i + n : j[k].k = "rec"}
      BY <3>1
    <3>4. \A k \in {x \in i .. i + n : j[x].k = "rec"} : k \in {i + y : y \in 1 .. n}
      BY <3>2
    <3> QED
      BY <3>3, <3>4
  <2>12. rest = recs(i + n + 1)
    <3>1. CASE i + n = L
      <4>1. recs(i + n + 1) = {}
        BY <3>1
      <4>2. i + n + 1 \in i + 1 .. upto => F[i + n + 1] = {}
        <5> SUFFICES ASSUME i + n + 1 \in i + 1 .. upto PROVE F[i + n + 1] = {}
          OBVIOUS
        <5>1. ~IsHdr(j, i + n + 1) /\ i + n + 1 \in 1 .. upto
          BY <3>1
        <5> QED
          BY <1>2, <5>1 DEF Follow
      <4> QED
        BY <4>1, <4>2
    <3>2. CASE i + n < L /\ IsHdr(j, i + n + 1)
      <4>1. L - (i + n + 1) \in Nat /\ L - (i + n + 1) < L /\ L - (i + n + 1) < m
            /\ L - (L - (i + n + 1)) = i + n + 1
        BY <2>2, <2>3, <3>2
      <4>2. L - (i + n + 1) \notin Bad
        <5> HIDE DEF Bad
        <5> QED
          BY <2>1, <2>2, <4>1
      <4>3. F[i + n + 1] = recs(i + n + 1)
        BY <3>2, <4>1, <4>2
      <4> QED
        BY <3>2, <4>3
    <3>3. CASE i + n < L /\ j[i + n + 1].k = "super"
      <4>1. i + n + 1 = L
        BY <3>3 DEF Tiled
      <4>2. recs(i + n + 1) = {}
        BY <3>3, <4>1
      <4>3. ~IsHdr(j, i + n + 1) /\ i + n + 1 \in 1 .. upto
        BY <1>3, <3>3, <4>1
      <4>4. F[i + n + 1] = {}
        BY <1>2, <4>3 DEF Follow
      <4> QED
        BY <4>2, <4>4
    <3> QED
      BY <2>7, <3>1, <3>2, <3>3
  <2>13. {k \in i .. i + n : j[k].k = "rec"} \cup recs(i + n + 1) = recs(i)
    <3>1. /\ i \in Nat /\ n \in Nat /\ i + n <= L
      BY <2>3, <2>6, <2>7
    <3>2. \A k \in i .. L : k \in i .. i + n \/ k \in i + n + 1 .. L
      BY <3>1
    <3>3. \A k \in i .. i + n : k \in i .. L
      BY <3>1
    <3>4. \A k \in i + n + 1 .. L : k \in i .. L
      BY <3>1
    <3> QED
      BY <3>2, <3>3, <3>4
  <2> QED
    BY <2>4, <2>10, <2>11, <2>12, <2>13
<1>5. F[1] = recs(1)
  <2>1. L - 1 \in Nat /\ L - 1 < L /\ L - (L - 1) = 1
    OBVIOUS
  <2>2. L - 1 \notin Bad
    <3> HIDE DEF Bad
    <3> QED
      BY <1>4
  <2>3. IsHdr(j, 1)
    BY DEF Tiled
  <2> QED
    BY <2>1, <2>2, <2>3
<1>6. Records(j, upto) = F[1]
  BY <1>1
<1> QED
  BY <1>5, <1>6
(* The last record of a page is what is played back.                       *)
LEMMA OldPageIs ==
  ASSUME NEW j \in Seq(JournalCell), NEW R, R \subseteq RecPlaces(j),
         NEW p \in OldPages(j, R)
  PROVE  \E i \in R : /\ i \in 1 .. Len(j) /\ j[i].k = "rec" /\ j[i].page = p
                      /\ OldPage(j, R, p) = j[i].old
<1>1. \A i \in R : i \in 1 .. Len(j) /\ j[i].k = "rec"
  <2> SUFFICES ASSUME NEW i \in R PROVE i \in 1 .. Len(j) /\ j[i].k = "rec"
    OBVIOUS
  <2>1. i \in Nat /\ Cell(j, i).k = "rec"
    BY DEF RecPlaces
  <2>2. i \in 1 .. Len(j)
    BY <2>1, CellIs, ZeroIs
  <2> QED
    BY <2>1, <2>2, CellIs
<1>2. \E i \in R : j[i].page = p
  BY DEF OldPages
<1>3. PICK T : T = {i \in R : j[i].page = p}
  OBVIOUS
<1>4. T \in SUBSET Nat /\ T # {} /\ \A x \in T : x <= Len(j)
  <2>1. \A x \in T : x \in R
    BY <1>3
  <2>2. \A x \in T : x \in 1 .. Len(j)
    BY <1>1, <2>1
  <2>3. T # {}
    BY <1>2, <1>3
  <2>4. Len(j) \in Nat
    OBVIOUS
  <2> QED
    BY <2>2, <2>3, <2>4
<1>5. Max(T) \in T
  <2>1. Len(j) \in Nat
    OBVIOUS
  <2> QED
    BY <1>4, <2>1, MaxIs
<1>6. OldPage(j, R, p) = j[Max(T)].old
  BY <1>3 DEF OldPage
<1> QED
  BY <1>1, <1>3, <1>5, <1>6

(* What a file becomes has the size it had, and pages that it had.         *)
LEMMA RestoredIs ==
  ASSUME NEW j \in Seq(JournalCell), NEW f \in Seq(Page), NEW S, IsHdr(j, 1), Counts(j, S)
  PROVE  /\ j[1].orig \in Nat
         /\ Restored(f, j, S) \in Seq(Page) /\ Len(Restored(f, j, S)) = j[1].orig
         /\ \A p \in 1 .. j[1].orig :
              Restored(f, j, S)[p] = IF p \in OldPages(j, Records(j, Len(j)))
                                     THEN OldPage(j, Records(j, Len(j)), p)
                                     ELSE IF p \in DOMAIN f THEN f[p] ELSE None
<1> DEFINE R == Records(j, Len(j))
           page(p) == IF p \in OldPages(j, R) THEN OldPage(j, R, p)
                      ELSE IF p \in DOMAIN f THEN f[p] ELSE None
<1>1. 1 \in 1 .. Len(j) /\ j[1].k = "hdr"
  BY CellIs
<1>2. j[1].orig \in Nat
  BY <1>1, CellTypes
<1>3. All(j) = Len(j)
  BY JournalAssumption DEF All
<1>4. Restored(f, j, S) = [p \in 1 .. j[1].orig |-> page(p)]
  BY <1>3 DEF Restored
<1>5. R \subseteq RecPlaces(j)
  BY RecordsAreRecords
<1>6. \A p \in 1 .. j[1].orig : page(p) \in Page
  <2> SUFFICES ASSUME NEW p \in 1 .. j[1].orig PROVE page(p) \in Page
    OBVIOUS
  <2>1. CASE p \in OldPages(j, R)
    <3>1. PICK i \in R : i \in 1 .. Len(j) /\ j[i].k = "rec" /\ OldPage(j, R, p) = j[i].old
      BY <1>5, <2>1, OldPageIs
    <3>2. j[i].old \in Page
      BY <3>1, CellTypes
    <3> QED
      BY <2>1, <3>1, <3>2
  <2>2. CASE p \notin OldPages(j, R)
    <3>1. None \in Page
      BY DEF Page
    <3> QED
      BY <2>2, <3>1
  <2> QED
    BY <2>1, <2>2
<1> HIDE DEF page
<1>7. [p \in 1 .. j[1].orig |-> page(p)] \in [1 .. j[1].orig -> Page]
  BY <1>6
<1>8. Restored(f, j, S) \in Seq(Page) /\ Len(Restored(f, j, S)) = j[1].orig
  <2>1. PICK n \in Nat : n = j[1].orig
    BY <1>2
  <2>2. Restored(f, j, S) \in [1 .. n -> Page]
    BY <1>4, <1>7, <2>1
  <2> QED
    BY <2>1, <2>2
<1>9. \A p \in 1 .. j[1].orig : Restored(f, j, S)[p] = page(p)
  BY <1>4
<1> QED
  BY <1>2, <1>8, <1>9 DEF page

LEMMA RestoredType ==
  ASSUME NEW j \in Seq(JournalCell) \cup {None}, NEW f \in Seq(Page), NEW S
  PROVE  /\ Restored(f, j, S) \in Seq(Page)
         /\ ~IsHdr(j, 1) \/ ~Counts(j, S) => Restored(f, j, S) = f
<1>1. ~IsHdr(j, 1) \/ ~Counts(j, S) => Restored(f, j, S) = f
  BY DEF Restored
<1>2. j = None => ~IsHdr(j, 1)
  BY NoCell
<1> QED
  BY <1>1, <1>2, RestoredIs

(* Playing back changes nothing of what a file is to become,               *)
LEMMA CutRestored ==
  ASSUME NEW j \in Seq(JournalCell), NEW f \in Seq(Page), NEW S, IsHdr(j, 1), Counts(j, S),
         j[1].orig <= Len(f)
  PROVE  Restored(Cut(f, j[1].orig), j, S) = Restored(f, j, S)
<1> DEFINE g == Cut(f, j[1].orig)
<1>1. j[1].orig \in Nat
  BY RestoredIs
<1>2. g \in Seq(Page) /\ Len(g) = j[1].orig /\ \A p \in 1 .. j[1].orig : g[p] = f[p]
  BY <1>1, CutIs
<1> HIDE DEF g
<1>3. /\ Restored(g, j, S) \in Seq(Page) /\ Len(Restored(g, j, S)) = j[1].orig
      /\ Restored(f, j, S) \in Seq(Page) /\ Len(Restored(f, j, S)) = j[1].orig
  BY <1>2, RestoredIs
<1>4. \A p \in 1 .. j[1].orig : Restored(g, j, S)[p] = Restored(f, j, S)[p]
  <2> SUFFICES ASSUME NEW p \in 1 .. j[1].orig PROVE Restored(g, j, S)[p] = Restored(f, j, S)[p]
    OBVIOUS
  <2>1. p \in DOMAIN f /\ p \in DOMAIN g
    BY <1>1, <1>2
  <2> QED
    BY <1>2, <2>1, RestoredIs
<1> QED
  BY <1>3, <1>4, SameSeq DEF g

LEMMA PageRestored ==
  ASSUME NEW j \in Seq(JournalCell), NEW f \in Seq(Page), NEW S, IsHdr(j, 1), Counts(j, S),
         j[1].orig <= Len(f), NEW p \in OldPages(j, Records(j, Len(j))),
         NEW g \in Seq(Page), Len(g) = Len(f), \A q \in 1 .. Len(f) : q # p => g[q] = f[q]
  PROVE  Restored(g, j, S) = Restored(f, j, S)
<1>1. j[1].orig \in Nat
  BY RestoredIs
<1>2. /\ Restored(g, j, S) \in Seq(Page) /\ Len(Restored(g, j, S)) = j[1].orig
      /\ Restored(f, j, S) \in Seq(Page) /\ Len(Restored(f, j, S)) = j[1].orig
  BY RestoredIs
<1>3. \A q \in 1 .. j[1].orig : Restored(g, j, S)[q] = Restored(f, j, S)[q]
  <2> SUFFICES ASSUME NEW q \in 1 .. j[1].orig PROVE Restored(g, j, S)[q] = Restored(f, j, S)[q]
    OBVIOUS
  <2>1. q \in DOMAIN f /\ q \in DOMAIN g /\ q \in 1 .. Len(f)
    BY <1>1
  <2>2. CASE q = p
    BY <2>2, RestoredIs
  <2>3. CASE q # p
    <3>1. g[q] = f[q]
      BY <2>1, <2>3
    <3> DEFINE R == Records(j, Len(j))
    <3>2. Restored(g, j, S)[q] = IF q \in OldPages(j, R) THEN OldPage(j, R, q) ELSE g[q]
      BY <2>1, RestoredIs
    <3>3. Restored(f, j, S)[q] = IF q \in OldPages(j, R) THEN OldPage(j, R, q) ELSE f[q]
      BY <2>1, RestoredIs
    <3> HIDE DEF R
    <3> QED
      BY <3>1, <3>2, <3>3
  <2> QED
    BY <2>2, <2>3
<1> QED
  BY <1>2, <1>3, SameSeq

(* and in the end the file is that.                                        *)
LEMMA AllRestored ==
  ASSUME NEW j \in Seq(JournalCell), NEW f \in Seq(Page), NEW S, IsHdr(j, 1), Counts(j, S),
         Len(f) = j[1].orig,
         \A p \in OldPages(j, Records(j, Len(j))) :
           p \in DOMAIN f => f[p] = OldPage(j, Records(j, Len(j)), p)
  PROVE  Restored(f, j, S) = f
<1>1. Restored(f, j, S) \in Seq(Page) /\ Len(Restored(f, j, S)) = Len(f)
  BY RestoredIs
<1>2. \A p \in 1 .. Len(f) : Restored(f, j, S)[p] = f[p]
  BY RestoredIs
<1> QED
  BY <1>1, <1>2, SameSeq

(* The journal of a transaction leaves nothing of it.                      *)
LEMMA RestoredTiled ==
  ASSUME NEW j \in Seq(JournalCell), NEW L \in Nat, 1 <= L, Tiled(j, L), ~IsHdr(j, L + 1),
         NEW a \in Seq(Page), NEW f \in Seq(Page), NEW S, Counts(j, S),
         j[1].orig = Len(a), Len(a) <= Len(f),
         \A k \in 1 .. L : j[k].k = "rec" => j[k].page \in 1 .. Len(a) /\ j[k].old = a[j[k].page],
         \A p \in 1 .. Len(a) : f[p] = a[p] \/ Recorded(j, L, p)
  PROVE  Restored(f, j, S) = a
<1>1. IsHdr(j, 1) /\ L <= Len(j)
  BY DEF Tiled
<1>2. PICK R : R = Records(j, Len(j))
  OBVIOUS
<1>3. R = {k \in 1 .. L : j[k].k = "rec"}
  BY <1>1, <1>2, RecordsTiled
<1>4. R \subseteq RecPlaces(j)
  BY <1>2, RecordsAreRecords
<1>5. Restored(f, j, S) \in Seq(Page) /\ Len(Restored(f, j, S)) = Len(a)
  BY <1>1, RestoredIs
<1>6. \A p \in 1 .. Len(a) : Restored(f, j, S)[p] = a[p]
  <2> SUFFICES ASSUME NEW p \in 1 .. Len(a) PROVE Restored(f, j, S)[p] = a[p]
    OBVIOUS
  <2>1. Restored(f, j, S)[p] = IF p \in OldPages(j, R) THEN OldPage(j, R, p)
                               ELSE IF p \in DOMAIN f THEN f[p] ELSE None
    BY <1>1, <1>2, RestoredIs
  <2>2. CASE p \in OldPages(j, R)
    <3>1. PICK i \in R : j[i].k = "rec" /\ j[i].page = p /\ OldPage(j, R, p) = j[i].old
      <4>1. \E i \in R : i \in 1 .. Len(j) /\ j[i].k = "rec" /\ j[i].page = p
                          /\ OldPage(j, R, p) = j[i].old
        BY <1>4, <2>2, OldPageIs
      <4> QED
        BY <4>1
    <3>2. j[i].old = a[p]
      BY <1>3, <3>1
    <3> QED
      BY <2>1, <2>2, <3>1, <3>2
  <2>3. CASE p \notin OldPages(j, R)
    <3>1. ~Recorded(j, L, p)
      BY <1>3, <2>3 DEF Recorded, OldPages
    <3>2. p \in DOMAIN f /\ f[p] = a[p]
      BY <3>1
    <3> QED
      BY <2>1, <2>3, <3>2
  <2> QED
    BY <2>2, <2>3
<1> QED
  BY <1>5, <1>6, SameSeq
-----------------------------------------------------------------------------
(* What is done to a journal keeps it one. *)

LEMMA TiledPrefix ==
  ASSUME NEW j \in Seq(JournalCell), NEW g \in Seq(JournalCell), NEW L \in Nat,
         Tiled(j, L), L <= Len(g), \A k \in 1 .. L : g[k] = j[k]
  PROVE  /\ Tiled(g, L)
         /\ \A p : Recorded(g, L, p) <=> Recorded(j, L, p)
<1>1. L <= Len(j)
  BY DEF Tiled
<1>2. \A k \in 1 .. L : IsHdr(g, k) <=> IsHdr(j, k)
  BY <1>1, CellIs
<1>3. \A p : Recorded(g, L, p) <=> Recorded(j, L, p)
  BY DEF Recorded
<1>4. L >= 1 => IsHdr(g, 1)
  BY <1>2 DEF Tiled
<1>5. ASSUME NEW k \in 1 .. L, j[k].k = "hdr" /\ j[k].magic, k + j[k].n <= L,
             \A m \in 1 .. j[k].n : j[k + m].k = "rec" /\ j[k + m].by = j[k].by,
             k + j[k].n < L => IsHdr(j, k + j[k].n + 1) \/ j[k + j[k].n + 1].k = "super"
      PROVE  /\ g[k].k = "hdr" /\ g[k].magic
             /\ k + g[k].n <= L
             /\ \A m \in 1 .. g[k].n : g[k + m].k = "rec" /\ g[k + m].by = g[k].by
             /\ k + g[k].n < L => IsHdr(g, k + g[k].n + 1) \/ g[k + g[k].n + 1].k = "super"
  <2>1. g[k] = j[k] /\ k \in 1 .. Len(j)
    BY <1>1
  <2>2. PICK n \in Nat : n = j[k].n
    BY <1>5, <2>1, CellTypes
  <2>3. \A m \in 1 .. n : g[k + m] = j[k + m]
    BY <1>5, <2>2
  <2>4. k + n < L => k + n + 1 \in 1 .. L
    BY <2>2
  <2> QED
    BY <1>2, <1>5, <2>1, <2>2, <2>3, <2>4
<1>6. ASSUME NEW k \in 1 .. L
      PROVE  \/ /\ g[k].k = "hdr" /\ g[k].magic
                /\ k + g[k].n <= L
                /\ \A m \in 1 .. g[k].n : g[k + m].k = "rec" /\ g[k + m].by = g[k].by
                /\ k + g[k].n < L => IsHdr(g, k + g[k].n + 1) \/ g[k + g[k].n + 1].k = "super"
             \/ g[k].k = "rec"
             \/ g[k].k = "super" /\ k = L
  <2>1. CASE j[k].k = "rec" \/ (j[k].k = "super" /\ k = L)
    BY <2>1
  <2>2. CASE ~(j[k].k = "rec" \/ (j[k].k = "super" /\ k = L))
    <3>1. /\ j[k].k = "hdr" /\ j[k].magic /\ k + j[k].n <= L
          /\ \A m \in 1 .. j[k].n : j[k + m].k = "rec" /\ j[k + m].by = j[k].by
          /\ k + j[k].n < L => IsHdr(j, k + j[k].n + 1) \/ j[k + j[k].n + 1].k = "super"
      BY <2>2 DEF Tiled
    <3> QED
      BY <1>5, <3>1
  <2> QED
    BY <2>1, <2>2
<1> QED
  BY <1>3, <1>4, <1>6 DEF Tiled

(* What comes after the end matters only where a header is looked for.     *)
LEMMA JournalSame ==
  ASSUME NEW j \in Seq(JournalCell), NEW g \in Seq(JournalCell), NEW w \in JournalWriter,
         NEW a \in Seq(Page), NEW f \in Seq(Page), Journal(j, w, a, f),
         w.off <= Len(g), \A k \in 1 .. w.off : g[k] = j[k],
         IsHdr(g, w.off + 1) => IsHdr(j, w.off + 1)
  PROVE  Journal(g, w, a, f)
<1>1. w.off \in Nat /\ w.hdr \in Nat /\ w.n \in Nat
  BY DEF JournalWriter
<1>2. /\ Placed(j, w) /\ Tiled(j, w.hdr - 1) /\ (w.hdr > 1 => j[1].orig = w.orig)
      /\ Segment(j, w) /\ Copied(j, w, a) /\ Restorable(j, w, a, f)
  BY DEF Journal
<1>3. 1 <= w.off /\ w.off <= Len(j) /\ 1 <= w.hdr /\ w.hdr <= w.off + 1 /\ (w.mod <=> w.hdr > 1)
  BY <1>2 DEF Placed
<1>4. Placed(g, w)
  <2>1. 1 < w.hdr /\ w.hdr <= w.off => g[w.hdr - 1] = j[w.hdr - 1]
    <3>1. PICK o \in Nat, h \in Nat : o = w.off /\ h = w.hdr
      BY <1>1
    <3>2. 1 < h /\ h <= o => h - 1 \in 1 .. o
      OBVIOUS
    <3>3. \A k \in 1 .. o : g[k] = j[k]
      BY <3>1
    <3> QED
      BY <3>1, <3>2, <3>3
  <2> QED
    BY <1>2, <1>3, <2>1 DEF Placed
<1>5. Tiled(g, w.hdr - 1) /\ \A p : Recorded(g, w.hdr - 1, p) <=> Recorded(j, w.hdr - 1, p)
  <2>1. w.hdr - 1 \in Nat /\ w.hdr - 1 <= Len(g) /\ \A k \in 1 .. w.hdr - 1 : g[k] = j[k]
    BY <1>1, <1>3
  <2> QED
    BY <1>2, <2>1, TiledPrefix
<1>6. \A p : Recorded(g, w.off, p) <=> Recorded(j, w.off, p)
  BY DEF Recorded
<1>7. g[1] = j[1]
  BY <1>1, <1>3
<1>8. Segment(g, w)
  <2>1. CASE w.hdr <= w.off
    <3>1. g[w.hdr] = j[w.hdr] /\ g[w.off] = j[w.off]
      BY <1>1, <1>3, <2>1
    <3>2. \A m \in 1 .. w.n : g[w.hdr + m] = j[w.hdr + m]
      <4>1. w.hdr + w.n <= w.off
        BY <1>1, <1>2, <2>1 DEF Segment
      <4> SUFFICES ASSUME NEW m \in 1 .. w.n PROVE g[w.hdr + m] = j[w.hdr + m]
        OBVIOUS
      <4>2. w.hdr + m \in 1 .. w.off
        <5>1. PICK h \in Nat, n \in Nat, o \in Nat : h = w.hdr /\ n = w.n /\ o = w.off
          BY <1>1
        <5>2. 1 <= h /\ h + n <= o /\ m \in 1 .. n
          BY <1>3, <4>1, <5>1
        <5>3. h + m \in 1 .. o
          BY <5>2
        <5> QED
          BY <5>1, <5>3
      <4> QED
        BY <4>2
    <3>3. /\ j[w.hdr].k = "hdr" /\ j[w.hdr].orig = w.orig
          /\ \A m \in 1 .. w.n : j[w.hdr + m].k = "rec" /\ j[w.hdr + m].by = j[w.hdr].by
          /\ \/ w.off = w.hdr + w.n
             \/ w.off = w.hdr + w.n + 1 /\ j[w.off].k = "super"
          /\ j[w.hdr].magic => j[w.hdr].n = w.n /\ ~IsHdr(j, w.off + 1)
      BY <1>2, <2>1 DEF Segment
    <3>4. \A m \in 1 .. w.n : g[w.hdr + m].k = "rec" /\ g[w.hdr + m].by = g[w.hdr].by
      BY <3>1, <3>2, <3>3
    <3>5. w.off = w.hdr + w.n \/ (w.off = w.hdr + w.n + 1 /\ g[w.off].k = "super")
      BY <3>1, <3>3
    <3>6. g[w.hdr].k = "hdr" /\ g[w.hdr].orig = w.orig
          /\ (g[w.hdr].magic => g[w.hdr].n = w.n /\ ~IsHdr(g, w.off + 1))
      BY <3>1, <3>3
    <3> QED
      BY <1>1, <2>1, <3>4, <3>5, <3>6 DEF Segment
  <2>2. CASE w.hdr > w.off
    <3>1. w.hdr = w.off + 1
      BY <1>1, <1>3, <2>2
    <3> QED
      BY <1>1, <1>2, <2>2, <3>1 DEF Segment
  <2> QED
    BY <1>1, <2>1, <2>2
<1>9. Copied(g, w, a)
  BY <1>2, <1>5, <1>6 DEF Copied
<1>10. Restorable(g, w, a, f)
  BY <1>2, <1>5 DEF Restorable
<1> QED
  BY <1>2, <1>4, <1>5, <1>7, <1>8, <1>9, <1>10 DEF Journal

(* pager_open_journal                                                      *)
LEMMA JournalOpened ==
  ASSUME NEW j \in Seq(JournalCell), NEW w \in JournalWriter, NEW a \in Seq(Page), NEW t \in Nat,
         Unopened(w, a)
  PROVE  LET g == Put(j, 1, Hdr(t, 1, w.orig), Zero)
             v == [w EXCEPT !.off = 1, !.hdr = 1] IN
         /\ g \in Seq(JournalCell) /\ v \in JournalWriter
         /\ Journal(g, v, a, a) /\ Growing(g, v)
         /\ SuperName(g) \in {0, SuperName(j)}
<1> DEFINE g == Put(j, 1, Hdr(t, 1, w.orig), Zero)
           v == [w EXCEPT !.off = 1, !.hdr = 1]
<1>1. Len(a) \in Nat /\ w.orig = Len(a)
  BY DEF NoJw, Unopened
<1>2. PICK x \in JournalCell : /\ x = Hdr(t, 1, w.orig)
                                /\ x.k = "hdr" /\ x.magic = FALSE /\ x.orig = w.orig
  <2>1. PICK n \in Nat : n = w.orig
    BY <1>1
  <2>2. /\ Hdr(t, 1, n) \in JournalCell /\ Hdr(t, 1, n).k = "hdr"
        /\ Hdr(t, 1, n).orig = n /\ Hdr(t, 1, n).magic = FALSE
    BY HdrIs
  <2> QED
    BY <2>1, <2>2
<1>3. /\ g \in Seq(JournalCell) /\ g[1] = x
      /\ Len(g) >= 1 /\ Len(g) >= Len(j) /\ (Len(j) <= 1 => Len(g) <= 1) /\ (Len(j) >= 1 => Len(g) <= Len(j))
      /\ \A k \in 1 .. Len(j) : k # 1 => g[k] = j[k]
  <2>1. PICK i \in Nat \ {0} : i = 1
    OBVIOUS
  <2>2. /\ Put(j, i, x, Zero) \in Seq(JournalCell) /\ Put(j, i, x, Zero)[i] = x
        /\ (Len(j) <= i => Len(Put(j, i, x, Zero)) = i) /\ (i <= Len(j) => Len(Put(j, i, x, Zero)) = Len(j))
        /\ \A k \in 1 .. Len(j) : k # i => Put(j, i, x, Zero)[k] = j[k]
    BY PutCell
  <2>3. g = Put(j, i, x, Zero)
    BY <1>2, <2>1
  <2> HIDE DEF g
  <2>4. g \in Seq(JournalCell) /\ g[1] = x /\ \A k \in 1 .. Len(j) : k # 1 => g[k] = j[k]
    BY <2>1, <2>2, <2>3
  <2>5. PICK m \in Nat : m = Len(j)
    OBVIOUS
  <2>6. PICK n \in Nat : n = Len(g)
    BY <2>4
  <2>7. n >= i /\ n >= m /\ (m <= i => n <= i) /\ (m >= i => n <= m)
    <3>1. (m <= i => n = i) /\ (i <= m => n = m)
      BY <2>2, <2>3, <2>5, <2>6
    <3> QED
      BY <3>1
  <2> QED
    BY <2>1, <2>4, <2>5, <2>6, <2>7
<1>4. /\ v \in JournalWriter /\ v.off = 1 /\ v.hdr = 1 /\ v.n = 0 /\ v.mod = FALSE /\ v.inJournal = {}
      /\ v.orig = Len(a)
  BY <1>1 DEF Unopened, NoJw, JournalWriter
<1> HIDE DEF g, v
<1>5. Placed(g, v)
  BY <1>3, <1>4 DEF Placed
<1>6. Tiled(g, v.hdr - 1)
  BY <1>4 DEF Tiled
<1>7. Segment(g, v)
  <2>1. g[v.hdr].k = "hdr" /\ g[v.hdr].orig = v.orig /\ ~g[v.hdr].magic
    BY <1>1, <1>2, <1>3, <1>4
  <2> QED
    BY <1>4, <2>1 DEF Segment
<1>8. Copied(g, v, a)
  BY <1>2, <1>3, <1>4 DEF Copied
<1>9. Restorable(g, v, a, a)
  BY <1>4 DEF Restorable
<1>10. Growing(g, v)
  BY <1>2, <1>3, <1>4 DEF Growing
<1>11. SuperName(g) \in {0, SuperName(j)}
  <2>1. g # None /\ g # << >> /\ j # None
    BY <1>3, JournalAssumption
  <2>2. CASE Len(j) <= 1
    BY <1>2, <1>3, <2>2 DEF SuperName
  <2>3. CASE Len(j) > 1
    <3>1. Len(g) = Len(j) /\ Len(j) \in 1 .. Len(j) /\ Len(j) # 1
      BY <1>3, <2>3
    <3>2. g[Len(g)] = j[Len(j)] /\ j # << >>
      BY <1>3, <3>1
    <3> QED
      BY <2>1, <3>2 DEF SuperName
  <2> QED
    BY <2>2, <2>3
<1> QED
  BY <1>3, <1>4, <1>5, <1>6, <1>7, <1>8, <1>9, <1>10, <1>11 DEF Journal, g, v
(* Nothing that has been synced changes.                                   *)
LEMMA JournalGrown ==
  ASSUME NEW j \in Seq(JournalCell), NEW g \in Seq(JournalCell),
         NEW w \in JournalWriter, NEW v \in JournalWriter,
         NEW a \in Seq(Page), NEW f \in Seq(Page), Journal(j, w, a, f),
         v.hdr = w.hdr, v.orig = w.orig, v.mod = w.mod,
         \A k \in 1 .. w.hdr - 1 : g[k] = j[k],
         Placed(g, v), Segment(g, v), Copied(g, v, a)
  PROVE  Journal(g, v, a, f)
<1>1. w.off \in Nat /\ w.hdr \in Nat /\ v.off \in Nat /\ v.hdr \in Nat
  BY DEF JournalWriter
<1>2. Tiled(j, w.hdr - 1) /\ (w.hdr > 1 => j[1].orig = w.orig) /\ Restorable(j, w, a, f)
  BY DEF Journal
<1>3. 1 <= w.hdr /\ v.hdr <= v.off + 1 /\ v.off <= Len(g)
  BY DEF Journal, Placed
<1>4. Tiled(g, w.hdr - 1) /\ \A p : Recorded(g, w.hdr - 1, p) <=> Recorded(j, w.hdr - 1, p)
  <2>1. w.hdr - 1 \in Nat /\ w.hdr - 1 <= Len(g)
    BY <1>1, <1>3
  <2> QED
    BY <1>2, <2>1, TiledPrefix
<1>5. w.hdr > 1 => g[1] = j[1]
  BY <1>1
<1>6. Restorable(g, v, a, f)
  BY <1>2, <1>4 DEF Restorable
<1> QED
  BY <1>2, <1>4, <1>5, <1>6 DEF Journal

(* A page gets into the journal as it was.                                 *)
LEMMA JournalRecorded ==
  ASSUME NEW j \in Seq(JournalCell), NEW w \in JournalWriter,
         NEW a \in Seq(Page), NEW f \in Seq(Page), Journal(j, w, a, f), Growing(j, w),
         NEW p \in 1 .. w.orig, p \notin w.inJournal
  PROVE  LET g == Put(j, w.off + 1, Rec(j[w.hdr].by, p, a[p]), Zero)
             v == [w EXCEPT !.off = @ + 1, !.n = @ + 1, !.inJournal = @ \cup {p},
                            !.dirty = @ \cup {p}, !.need = @ \cup {p}] IN
         /\ g \in Seq(JournalCell) /\ v \in JournalWriter
         /\ Journal(g, v, a, f) /\ Growing(g, v)
         /\ SuperName(g) \in {0, SuperName(j)}
<1> DEFINE g == Put(j, w.off + 1, Rec(j[w.hdr].by, p, a[p]), Zero)
           v == [w EXCEPT !.off = @ + 1, !.n = @ + 1, !.inJournal = @ \cup {p},
                          !.dirty = @ \cup {p}, !.need = @ \cup {p}]
<1>1. /\ w.off \in Nat /\ w.hdr \in Nat /\ w.n \in Nat /\ w.orig \in Nat
      /\ w.inJournal \in SUBSET Nat /\ w.need \in SUBSET Nat
  BY DEF JournalWriter
<1>2. Placed(j, w) /\ Segment(j, w) /\ Copied(j, w, a)
  BY DEF Journal
<1>0. PICK o \in Nat, h \in Nat, n \in Nat : o = w.off /\ h = w.hdr /\ n = w.n
  BY <1>1
<1>3. 1 <= h /\ h <= o /\ o = h + n /\ o <= Len(j) /\ ~j[h].magic
  BY <1>0, <1>2 DEF Placed, Growing
<1>4. PICK by \in Nat \X Nat :
        /\ j[h].k = "hdr" /\ j[h].orig = w.orig /\ j[h].by = by
        /\ \A m \in 1 .. n : j[h + m].k = "rec" /\ j[h + m].by = by
  <2>1. j[h].k = "hdr" /\ j[h].orig = w.orig
        /\ \A m \in 1 .. n : j[h + m].k = "rec" /\ j[h + m].by = j[h].by
    BY <1>0, <1>2, <1>3 DEF Segment
  <2>2. j[h] \in JournalCell
    BY <1>3
  <2> QED
    BY <2>1, <2>2, CellTypes
<1>5. w.orig = Len(a) /\ a[p] \in Page
  BY <1>2 DEF Copied
<1>6. PICK x \in JournalCell : /\ x = Rec(by, p, a[p])
                               /\ x.k = "rec" /\ x.by = by /\ x.page = p /\ x.old = a[p]
  <2>1. p \in Nat \ {0}
    BY <1>1
  <2>2. PICK old \in Page : old = a[p]
    BY <1>5
  <2>3. /\ Rec(by, p, old) \in JournalCell /\ Rec(by, p, old).k = "rec" /\ Rec(by, p, old).by = by
        /\ Rec(by, p, old).page = p /\ Rec(by, p, old).old = old
    BY <1>4, <2>1, <2>2 DEF Rec, JournalCell
  <2> QED
    BY <2>2, <2>3
<1>7. PICK i \in Nat \ {0} : i = o + 1
  OBVIOUS
<1>8. /\ g \in Seq(JournalCell) /\ g[i] = x
      /\ (Len(j) <= i => Len(g) = i) /\ (i <= Len(j) => Len(g) = Len(j))
      /\ \A k \in 1 .. Len(j) : k # i => g[k] = j[k]
  <2>1. g = Put(j, i, x, Zero)
    BY <1>0, <1>4, <1>6, <1>7
  <2>2. /\ Put(j, i, x, Zero) \in Seq(JournalCell) /\ Put(j, i, x, Zero)[i] = x
        /\ (Len(j) <= i => Len(Put(j, i, x, Zero)) = i) /\ (i <= Len(j) => Len(Put(j, i, x, Zero)) = Len(j))
        /\ \A k \in 1 .. Len(j) : k # i => Put(j, i, x, Zero)[k] = j[k]
    BY PutCell
  <2> HIDE DEF g
  <2> QED
    BY <2>1, <2>2
<1>9. /\ v \in JournalWriter /\ v.off = i /\ v.hdr = h /\ v.n = n + 1 /\ v.mod = w.mod
      /\ v.inJournal = w.inJournal \cup {p} /\ v.need = w.need \cup {p} /\ v.orig = w.orig
  <2>1. p \in Nat /\ i \in Nat /\ n + 1 \in Nat
    BY <1>1
  <2>2. v = [w EXCEPT !.off = i, !.n = n + 1, !.inJournal = w.inJournal \cup {p},
                      !.dirty = w.dirty \cup {p}, !.need = w.need \cup {p}]
    BY <1>0, <1>7
  <2> HIDE DEF v
  <2> QED
    BY <1>0, <2>1, <2>2 DEF JournalWriter
<1> HIDE DEF g, v
<1>10. \A k \in 1 .. o : g[k] = j[k]
  BY <1>1, <1>3, <1>7, <1>8
<1>11. Len(g) \in Nat /\ i <= Len(g)
  BY <1>8
<1>12. Placed(g, v)
  <2>1. w.mod <=> h > 1
    BY <1>0, <1>2 DEF Placed
  <2>2. 1 <= i /\ i <= Len(g) /\ 1 <= h /\ h <= i + 1
    BY <1>3, <1>7, <1>11
  <2>3. 1 < h => g[h - 1].k # "super"
    <3>1. 1 < h => g[h - 1] = j[h - 1]
      BY <1>3, <1>10
    <3>2. 1 < h => j[h - 1].k # "super"
      BY <1>0, <1>2, <1>3 DEF Placed
    <3> QED
      BY <3>1, <3>2
  <2> QED
    BY <1>9, <2>1, <2>2, <2>3 DEF Placed
<1>13. g[h] = j[h]
  BY <1>1, <1>3, <1>10
<1>14. Segment(g, v)
  <2>1. \A m \in 1 .. n + 1 : g[h + m].k = "rec" /\ g[h + m].by = g[h].by
    <3> SUFFICES ASSUME NEW m \in 1 .. n + 1
                 PROVE  g[h + m].k = "rec" /\ g[h + m].by = g[h].by
      OBVIOUS
    <3>1. CASE m = n + 1
      <4>1. h + m = i
        BY <1>3, <1>7, <3>1
      <4> QED
        BY <1>4, <1>6, <1>8, <1>13, <4>1
    <3>2. CASE m # n + 1
      <4>1. m \in 1 .. n /\ h + m \in 1 .. o
        BY <1>1, <1>3, <3>2
      <4> QED
        BY <1>4, <1>10, <1>13, <4>1
    <3> QED
      BY <3>1, <3>2
  <2>2. v.off = v.hdr + v.n /\ v.hdr <= v.off
    BY <1>1, <1>3, <1>7, <1>9
  <2> QED
    BY <1>3, <1>4, <1>9, <1>13, <2>1, <2>2 DEF Segment
<1>15. Copied(g, v, a)
  <2>1. \A k \in 1 .. v.off : g[k].k = "rec" => g[k].page \in v.inJournal /\ g[k].old = a[g[k].page]
    <3> SUFFICES ASSUME NEW k \in 1 .. v.off, g[k].k = "rec"
                 PROVE  g[k].page \in v.inJournal /\ g[k].old = a[g[k].page]
      OBVIOUS
    <3>1. CASE k = i
      BY <1>6, <1>8, <1>9, <3>1
    <3>2. CASE k # i
      <4>1. k \in 1 .. o
        BY <1>1, <1>7, <1>9, <3>2
      <4> QED
        BY <1>0, <1>2, <1>9, <1>10, <4>1 DEF Copied
    <3> QED
      BY <3>1, <3>2
  <2>2. v.inJournal \subseteq 1 .. v.orig
    BY <1>2, <1>9 DEF Copied
  <2>3. \A q \in v.inJournal : Recorded(g, IF q \in v.need THEN v.off ELSE v.hdr - 1, q)
    <3> SUFFICES ASSUME NEW q \in v.inJournal
                 PROVE  Recorded(g, IF q \in v.need THEN v.off ELSE v.hdr - 1, q)
      OBVIOUS
    <3>1. CASE q = p
      <4>1. Recorded(g, v.off, p)
        BY <1>1, <1>6, <1>7, <1>8, <1>9 DEF Recorded
      <4> QED
        BY <1>9, <3>1, <4>1
    <3>2. CASE q # p
      <4>1. q \in w.inJournal /\ (q \in v.need <=> q \in w.need)
        BY <1>9, <3>2
      <4>2. Recorded(j, IF q \in w.need THEN o ELSE h - 1, q)
        BY <1>0, <1>2, <4>1 DEF Copied
      <4>3. CASE q \in w.need
        <5>1. PICK k \in 1 .. o : j[k].k = "rec" /\ j[k].page = q
          BY <4>2, <4>3 DEF Recorded
        <5>2. k \in 1 .. v.off /\ g[k] = j[k]
          BY <1>1, <1>7, <1>9, <1>10
        <5> QED
          BY <4>1, <4>3, <5>1, <5>2 DEF Recorded
      <4>4. CASE q \notin w.need
        <5>1. PICK k \in 1 .. h - 1 : j[k].k = "rec" /\ j[k].page = q
          BY <4>2, <4>4 DEF Recorded
        <5>2. k \in 1 .. v.hdr - 1 /\ g[k] = j[k]
          BY <1>1, <1>3, <1>9, <1>10
        <5> QED
          BY <4>1, <4>4, <5>1, <5>2 DEF Recorded
      <4> QED
        BY <4>3, <4>4
    <3> QED
      BY <3>1, <3>2
  <2> QED
    BY <1>5, <1>9, <2>1, <2>2, <2>3 DEF Copied
<1>16. Journal(g, v, a, f)
  <2>1. \A k \in 1 .. w.hdr - 1 : g[k] = j[k]
    BY <1>0, <1>3, <1>10
  <2> QED
    BY <1>0, <1>8, <1>9, <1>12, <1>14, <1>15, <2>1, JournalGrown
<1>17. Growing(g, v)
  BY <1>1, <1>3, <1>7, <1>9, <1>13 DEF Growing
<1>18. SuperName(g) \in {0, SuperName(j)}
  <2>1. g # None /\ j # None /\ g # << >> /\ j # << >>
    BY <1>1, <1>3, <1>8, <1>11, JournalAssumption
  <2>2. CASE Len(j) <= i
    <3>1. Len(g) = i
      BY <1>8, <2>2
    <3>2. g[Len(g)].k = "rec"
      BY <1>6, <1>8, <3>1
    <3> QED
      BY <2>1, <3>2 DEF SuperName
  <2>3. CASE Len(j) > i
    <3>1. Len(g) = Len(j) /\ Len(j) \in 1 .. Len(j) /\ Len(j) # i
      BY <1>8, <2>3
    <3>2. g[Len(g)] = j[Len(j)]
      BY <1>8, <3>1
    <3> QED
      BY <2>1, <3>2 DEF SuperName
  <2> QED
    BY <2>2, <2>3
<1> QED
  BY <1>8, <1>9, <1>16, <1>17, <1>18 DEF g, v

(* A page that need not get there.                                         *)
LEMMA JournalDirtied ==
  ASSUME NEW j \in Seq(JournalCell), NEW w \in JournalWriter,
         NEW a \in Seq(Page), NEW f \in Seq(Page), Journal(j, w, a, f), Growing(j, w),
         NEW p \in Nat \ {0}, p > w.orig \/ p \in w.inJournal
  PROVE  LET v == [w EXCEPT !.dirty = @ \cup {p},
                            !.need = IF p > w.orig /\ ~w.mod THEN @ \cup {p} ELSE @] IN
         v \in JournalWriter /\ Journal(j, v, a, f) /\ Growing(j, v)
<1> DEFINE v == [w EXCEPT !.dirty = @ \cup {p},
                          !.need = IF p > w.orig /\ ~w.mod THEN @ \cup {p} ELSE @]
<1>1. /\ v \in JournalWriter /\ v.off = w.off /\ v.hdr = w.hdr /\ v.n = w.n /\ v.mod = w.mod
      /\ v.inJournal = w.inJournal /\ v.orig = w.orig
      /\ v.need = IF p > w.orig /\ ~w.mod THEN w.need \cup {p} ELSE w.need
      /\ w.orig \in Nat
  BY DEF JournalWriter
<1> HIDE DEF v
<1>2. Placed(j, w) /\ Segment(j, w) /\ Copied(j, w, a) /\ w.hdr <= w.off
  BY DEF Journal, Growing
<1>3. Placed(j, v)
  BY <1>1, <1>2 DEF Placed
<1>4. Segment(j, v)
  BY <1>1, <1>2 DEF Segment, JournalWriter
<1>5. Copied(j, v, a)
  <2>1. \A q \in v.inJournal : q \in v.need <=> q \in w.need
    BY <1>1, <1>2 DEF Copied
  <2> QED
    BY <1>1, <1>2, <2>1 DEF Copied
<1>6. Journal(j, v, a, f)
  BY <1>1, <1>3, <1>4, <1>5, JournalGrown
<1>7. Growing(j, v)
  BY <1>1 DEF Growing
<1> QED
  BY <1>1, <1>6, <1>7 DEF v
(* The name of a super-journal comes last.                                 *)
LEMMA JournalNamed ==
  ASSUME NEW j \in Seq(JournalCell), NEW w \in JournalWriter,
         NEW a \in Seq(Page), NEW f \in Seq(Page), Journal(j, w, a, f), Growing(j, w),
         NEW t \in Nat \ {0}
  PROVE  LET g == Put(Cut(j, w.off), w.off + 1, Super(t), Zero)
             v == [w EXCEPT !.off = @ + 1] IN
         /\ g \in Seq(JournalCell) /\ v \in JournalWriter
         /\ Journal(g, v, a, f)
         /\ v.off # 0 /\ Len(g) = v.off /\ g[v.off] = Super(t) /\ v.hdr <= v.off /\ ~g[v.hdr].magic
         /\ SuperName(g) = t
<1> DEFINE g == Put(Cut(j, w.off), w.off + 1, Super(t), Zero)
           v == [w EXCEPT !.off = @ + 1]
<1>0. PICK o \in Nat, h \in Nat, n \in Nat : o = w.off /\ h = w.hdr /\ n = w.n
  BY DEF JournalWriter
<1>2. Placed(j, w) /\ Segment(j, w) /\ Copied(j, w, a)
  BY DEF Journal
<1>3. 1 <= h /\ h <= o /\ o = h + n /\ o <= Len(j) /\ ~j[h].magic
  BY <1>0, <1>2 DEF Placed, Growing
<1>4. /\ j[h].k = "hdr" /\ j[h].orig = w.orig
      /\ \A m \in 1 .. n : j[h + m].k = "rec" /\ j[h + m].by = j[h].by
  BY <1>0, <1>2, <1>3 DEF Segment
<1>5. PICK x \in JournalCell : x = Super(t) /\ x.k = "super" /\ x.name = t
  BY SuperIs
<1>6. PICK b \in Seq(JournalCell) : b = Cut(j, o) /\ Len(b) = o /\ \A k \in 1 .. o : b[k] = j[k]
  <2>1. o <= Len(j)
    BY <1>3
  <2>2. /\ Cut(j, o) \in Seq(JournalCell) /\ Len(Cut(j, o)) = o
        /\ \A k \in 1 .. o : Cut(j, o)[k] = j[k]
    BY <2>1, CutIs
  <2> QED
    BY <2>2
<1>7. PICK i \in Nat \ {0} : i = o + 1
  OBVIOUS
<1>8. g \in Seq(JournalCell) /\ g[i] = x /\ Len(g) = i /\ \A k \in 1 .. o : g[k] = j[k]
  <2>1. g = Put(b, i, x, Zero)
    BY <1>0, <1>5, <1>6, <1>7
  <2>2. /\ Put(b, i, x, Zero) \in Seq(JournalCell) /\ Put(b, i, x, Zero)[i] = x
        /\ (Len(b) <= i => Len(Put(b, i, x, Zero)) = i) /\ (i <= Len(b) => Len(Put(b, i, x, Zero)) = Len(b))
        /\ \A k \in 1 .. Len(b) : k # i => Put(b, i, x, Zero)[k] = b[k]
    <3>1. b \in Seq(JournalCell) /\ i \in Nat \ {0} /\ x \in JournalCell
      BY <1>5, <1>6, <1>7
    <3>2. /\ Put(b, i, x, Zero) \in Seq(JournalCell)
          /\ (Len(b) <= i => Len(Put(b, i, x, Zero)) = i)
          /\ (i <= Len(b) => Len(Put(b, i, x, Zero)) = Len(b))
      BY <3>1, PutCell
    <3>3. Put(b, i, x, Zero)[i] = x
      BY <3>1, PutCell
    <3>4. ASSUME NEW k \in 1 .. Len(b), k # i
          PROVE  Put(b, i, x, Zero)[k] = b[k]
      BY <3>1, <3>4, PutCell
    <3> QED
      BY <3>2, <3>3, <3>4
  <2> HIDE DEF g
  <2>3. \A k \in 1 .. o : k # i /\ k \in 1 .. Len(b)
    BY <1>6, <1>7
  <2>4. Len(b) <= i
    BY <1>6, <1>7
  <2>5. g \in Seq(JournalCell) /\ g[i] = x /\ Len(g) = i
    BY <2>1, <2>2, <2>4
  <2>6. \A k \in 1 .. o : g[k] = j[k]
    BY <1>6, <2>1, <2>2, <2>3
  <2> QED
    BY <2>5, <2>6
<1>9. /\ v \in JournalWriter /\ v.off = i /\ v.hdr = h /\ v.n = n /\ v.mod = w.mod
      /\ v.inJournal = w.inJournal /\ v.need = w.need /\ v.orig = w.orig
  <2>1. v = [w EXCEPT !.off = i] /\ i \in Nat
    BY <1>0, <1>7
  <2> HIDE DEF v
  <2> QED
    BY <1>0, <2>1 DEF JournalWriter
<1> HIDE DEF g, v
<1>10. g[h] = j[h]
  BY <1>3, <1>8
<1>11. Placed(g, v)
  <2>1. w.mod <=> h > 1
    BY <1>0, <1>2 DEF Placed
  <2>2. 1 <= i /\ i <= Len(g) /\ 1 <= h /\ h <= i + 1
    BY <1>3, <1>7, <1>8
  <2>3. 1 < h => g[h - 1].k # "super"
    <3>1. 1 < h => g[h - 1] = j[h - 1]
      BY <1>3, <1>8
    <3>2. 1 < h => j[h - 1].k # "super"
      BY <1>0, <1>2, <1>3 DEF Placed
    <3> QED
      BY <3>1, <3>2
  <2> QED
    BY <1>9, <2>1, <2>2, <2>3 DEF Placed
<1>12. Segment(g, v)
  <2>1. \A m \in 1 .. n : g[h + m].k = "rec" /\ g[h + m].by = g[h].by
    <3> SUFFICES ASSUME NEW m \in 1 .. n PROVE g[h + m].k = "rec" /\ g[h + m].by = g[h].by
      OBVIOUS
    <3>1. h + m \in 1 .. o
      BY <1>3
    <3> QED
      BY <1>4, <1>8, <1>10, <3>1
  <2>2. i = h + n + 1 /\ h <= i
    BY <1>3, <1>7
  <2> QED
    BY <1>3, <1>4, <1>5, <1>8, <1>9, <1>10, <2>1, <2>2 DEF Segment
<1>13. Copied(g, v, a)
  <2>1. \A k \in 1 .. i : g[k].k = "rec" => g[k].page \in v.inJournal /\ g[k].old = a[g[k].page]
    <3> SUFFICES ASSUME NEW k \in 1 .. i, g[k].k = "rec"
                 PROVE  g[k].page \in v.inJournal /\ g[k].old = a[g[k].page]
      OBVIOUS
    <3>1. k # i
      BY <1>5, <1>8
    <3>2. k \in 1 .. o
      BY <1>7, <3>1
    <3> QED
      BY <1>0, <1>2, <1>8, <1>9, <3>2 DEF Copied
  <2>2. \A q \in v.inJournal : Recorded(g, IF q \in v.need THEN v.off ELSE v.hdr - 1, q)
    <3> SUFFICES ASSUME NEW q \in v.inJournal
                 PROVE  Recorded(g, IF q \in v.need THEN v.off ELSE v.hdr - 1, q)
      OBVIOUS
    <3>1. Recorded(j, IF q \in w.need THEN o ELSE h - 1, q)
      BY <1>0, <1>2, <1>9 DEF Copied
    <3>2. CASE q \in w.need
      <4>1. PICK k \in 1 .. o : j[k].k = "rec" /\ j[k].page = q
        BY <3>1, <3>2 DEF Recorded
      <4>2. k \in 1 .. i /\ g[k] = j[k]
        BY <1>7, <1>8
      <4> QED
        BY <1>9, <3>2, <4>1, <4>2 DEF Recorded
    <3>3. CASE q \notin w.need
      <4>1. PICK k \in 1 .. h - 1 : j[k].k = "rec" /\ j[k].page = q
        BY <3>1, <3>3 DEF Recorded
      <4>2. g[k] = j[k]
        BY <1>3, <1>8
      <4> QED
        BY <1>9, <3>3, <4>1, <4>2 DEF Recorded
    <3> QED
      BY <3>2, <3>3
  <2> QED
    BY <1>2, <1>9, <2>1, <2>2 DEF Copied
<1>14. Journal(g, v, a, f)
  <2>1. \A k \in 1 .. w.hdr - 1 : g[k] = j[k]
    BY <1>0, <1>3, <1>8
  <2> QED
    BY <1>0, <1>8, <1>9, <1>11, <1>12, <1>13, <2>1, JournalGrown
<1>15. SuperName(g) = t
  <2>1. g # None /\ g # << >>
    BY <1>8, JournalAssumption
  <2> QED
    BY <1>5, <1>8, <2>1 DEF SuperName
<1>16. v.off # 0 /\ Len(g) = v.off /\ g[v.off] = Super(t) /\ v.hdr <= v.off /\ ~g[v.hdr].magic
  <2>1. h <= i
    BY <1>3, <1>7
  <2> QED
    BY <1>3, <1>5, <1>8, <1>9, <1>10, <2>1
<1> QED
  BY <1>8, <1>9, <1>14, <1>15, <1>16 DEF g, v

(* syncJournal spoils an old header after the journal.                     *)
LEMMA JournalSpoilt ==
  ASSUME NEW j \in Seq(JournalCell), NEW w \in JournalWriter,
         NEW a \in Seq(Page), NEW f \in Seq(Page), Journal(j, w, a, f)
  PROVE  LET g == SpoilNext(j, w.off + 1) IN
         /\ g \in Seq(JournalCell) /\ Journal(g, w, a, f)
         /\ ~IsHdr(g, w.off + 1) /\ Len(g) = Len(j) /\ \A k \in 1 .. w.off : g[k] = j[k]
         /\ SuperName(g) \in {0, SuperName(j)}
<1> DEFINE g == SpoilNext(j, w.off + 1)
<1>0. PICK o \in Nat : o = w.off
  BY DEF JournalWriter
<1>1. PICK i \in Nat \ {0} : i = o + 1
  OBVIOUS
<1>2. 1 <= o /\ o <= Len(j)
  BY <1>0 DEF Journal, Placed
<1>3. CASE ~IsHdr(j, i)
  <2>1. g = j
    BY <1>0, <1>1, <1>3 DEF SpoilNext
  <2> QED
    BY <1>0, <1>1, <1>3, <2>1
<1>4. CASE IsHdr(j, i)
  <2>1. i \in 1 .. Len(j)
    BY <1>4, CellIs
  <2>2. g = Put(j, i, Zero, Zero)
    BY <1>0, <1>1, <1>4 DEF SpoilNext
  <2>3. /\ Put(j, i, Zero, Zero) \in Seq(JournalCell) /\ Put(j, i, Zero, Zero)[i] = Zero
        /\ (Len(j) <= i => Len(Put(j, i, Zero, Zero)) = i) /\ (i <= Len(j) => Len(Put(j, i, Zero, Zero)) = Len(j))
        /\ \A k \in 1 .. Len(j) : k # i => Put(j, i, Zero, Zero)[k] = j[k]
    <3>1. Zero \in JournalCell
      BY ZeroIs
    <3> QED
      BY <3>1, PutCell
  <2> HIDE DEF g
  <2>4. /\ g \in Seq(JournalCell) /\ g[i] = Zero /\ Len(g) = Len(j)
        /\ \A k \in 1 .. Len(j) : k # i => g[k] = j[k]
    <3>1. i <= Len(j)
      BY <2>1
    <3> QED
      BY <2>2, <2>3, <3>1
  <2>5. ~IsHdr(g, i)
    <3>1. IsHdr(g, i) <=> g[i].k = "hdr" /\ g[i].magic
      BY <2>1, <2>4, CellIs
    <3> QED
      BY <2>4, <3>1, ZeroIs
  <2>6. \A k \in 1 .. o : g[k] = j[k]
    BY <1>1, <1>2, <2>4
  <2>7. Journal(g, w, a, f)
    <3>1. w.off <= Len(g) /\ (\A k \in 1 .. w.off : g[k] = j[k]) /\ ~IsHdr(g, w.off + 1)
      BY <1>0, <1>1, <1>2, <2>4, <2>5, <2>6
    <3> QED
      BY <2>4, <3>1, JournalSame
  <2>8. SuperName(g) \in {0, SuperName(j)}
    <3>1. g # None /\ j # None /\ g # << >> /\ j # << >>
      BY <2>1, <2>4, JournalAssumption
    <3>2. CASE Len(j) = i
      BY <2>4, <3>1, <3>2, ZeroIs DEF SuperName
    <3>3. CASE Len(j) # i
      <4>1. g[Len(g)] = j[Len(j)]
        BY <2>1, <2>4, <3>3
      <4> QED
        BY <3>1, <4>1 DEF SuperName
    <3> QED
      BY <3>2, <3>3
  <2> QED
    BY <1>0, <1>1, <2>4, <2>5, <2>6, <2>7, <2>8 DEF g
<1> QED
  BY <1>3, <1>4
(* The number of records goes to their header.                             *)
LEMMA JournalCounted ==
  ASSUME NEW j \in Seq(JournalCell), NEW w \in JournalWriter,
         NEW a \in Seq(Page), NEW f \in Seq(Page), Journal(j, w, a, f),
         w.hdr <= w.off, ~IsHdr(j, w.off + 1)
  PROVE  LET g == [j EXCEPT ![w.hdr] = [@ EXCEPT !.n = w.n, !.magic = TRUE]] IN
         /\ g \in Seq(JournalCell) /\ Journal(g, w, a, f)
         /\ g[w.hdr].magic /\ Len(g) = Len(j) /\ ~IsHdr(g, w.off + 1)
         /\ \A k \in 1 .. Len(j) : k # w.hdr => g[k] = j[k]
         /\ g[1].k = "hdr" /\ g[1].orig = w.orig
         /\ SuperName(g) = SuperName(j) \/ SuperName(g) = 0
<1> DEFINE g == [j EXCEPT ![w.hdr] = [@ EXCEPT !.n = w.n, !.magic = TRUE]]
<1>0. PICK o \in Nat, h \in Nat, n \in Nat : o = w.off /\ h = w.hdr /\ n = w.n
  BY DEF JournalWriter
<1>2. Placed(j, w) /\ Segment(j, w) /\ Copied(j, w, a) /\ (h > 1 => j[1].orig = w.orig)
      /\ Tiled(j, h - 1)
  BY <1>0 DEF Journal
<1>3. 1 <= h /\ h <= o /\ o <= Len(j)
  BY <1>0, <1>2 DEF Placed
<1>4. /\ j[h].k = "hdr" /\ j[h].orig = w.orig
      /\ \A m \in 1 .. n : j[h + m].k = "rec" /\ j[h + m].by = j[h].by
      /\ o = h + n \/ (o = h + n + 1 /\ j[o].k = "super")
  BY <1>0, <1>2, <1>3 DEF Segment
<1>5. PICK x : x = [j[h] EXCEPT !.n = n, !.magic = TRUE]
  OBVIOUS
<1>6. /\ x \in JournalCell /\ x.k = "hdr" /\ x.n = n /\ x.magic = TRUE
      /\ x.orig = j[h].orig /\ x.by = j[h].by
  <2>1. j[h] \in JournalCell
    BY <1>3
  <2>2. j[h] \in [k : {"hdr"}, by : Nat \X Nat, n : Nat, orig : Nat, magic : BOOLEAN]
    BY <1>4, <2>1 DEF JournalCell, Zero
  <2>3. /\ x \in [k : {"hdr"}, by : Nat \X Nat, n : Nat, orig : Nat, magic : BOOLEAN]
        /\ x.k = "hdr" /\ x.n = n /\ x.magic = TRUE /\ x.orig = j[h].orig /\ x.by = j[h].by
    BY <1>5, <2>2
  <2> QED
    BY <2>3 DEF JournalCell
<1>7. /\ g \in Seq(JournalCell) /\ g[h] = x /\ Len(g) = Len(j)
      /\ \A k \in 1 .. Len(j) : k # h => g[k] = j[k]
  <2>1. g = [j EXCEPT ![h] = x]
    BY <1>0, <1>5
  <2> HIDE DEF g
  <2> QED
    BY <1>3, <1>6, <2>1
<1> HIDE DEF g
<1>8. \A k \in 1 .. o : k # h => g[k] = j[k]
  BY <1>3, <1>7
<1>9. IsHdr(g, o + 1) <=> IsHdr(j, o + 1)
  <2>1. CASE o + 1 \in 1 .. Len(j)
    <3>1. o + 1 # h /\ o + 1 \in Nat /\ g[o + 1] = j[o + 1] /\ o + 1 \in 1 .. Len(g)
      BY <1>3, <1>7, <2>1
    <3> QED
      BY <1>7, <2>1, <3>1, CellIs
  <2>2. CASE o + 1 \notin 1 .. Len(j)
    BY <1>7, <2>2, CellIs
  <2> QED
    BY <2>1, <2>2
<1>10. Segment(g, w)
  <2>1. \A m \in 1 .. n : g[h + m].k = "rec" /\ g[h + m].by = g[h].by
    <3> SUFFICES ASSUME NEW m \in 1 .. n PROVE g[h + m].k = "rec" /\ g[h + m].by = g[h].by
      OBVIOUS
    <3>1. h + m \in 1 .. o /\ h + m # h
      BY <1>3, <1>4
    <3> QED
      BY <1>4, <1>6, <1>7, <1>8, <3>1
  <2>2. o = h + n + 1 /\ j[o].k = "super" => g[o].k = "super"
    <3> SUFFICES ASSUME o = h + n + 1, j[o].k = "super" PROVE g[o].k = "super"
      OBVIOUS
    <3>1. o # h /\ o \in 1 .. o
      BY <1>3
    <3> QED
      BY <1>8, <3>1
  <2> QED
    BY <1>0, <1>3, <1>4, <1>6, <1>7, <1>9, <2>1, <2>2 DEF Segment
<1>11. Copied(g, w, a)
  <2>1. \A k \in 1 .. o : g[k].k = "rec" => k # h
    BY <1>6, <1>7
  <2>2. \A k \in 1 .. o : j[k].k = "rec" => k # h
    BY <1>4
  <2>3. \A k \in 1 .. o : g[k].k = "rec" => g[k].page \in w.inJournal /\ g[k].old = a[g[k].page]
    BY <1>0, <1>2, <1>8, <2>1 DEF Copied
  <2>4. \A q : Recorded(j, o, q) => Recorded(g, o, q)
    BY <1>8, <2>2 DEF Recorded
  <2>5. \A q : Recorded(j, h - 1, q) => Recorded(g, h - 1, q)
    <3>1. \A k \in 1 .. h - 1 : k \in 1 .. o /\ k # h
      BY <1>3
    <3> QED
      BY <1>8, <3>1 DEF Recorded
  <2> QED
    BY <1>0, <1>2, <2>3, <2>4, <2>5 DEF Copied
<1>12. Journal(g, w, a, f)
  <2>1. \A k \in 1 .. w.hdr - 1 : g[k] = j[k]
    BY <1>0, <1>3, <1>8
  <2>2. Placed(g, w)
    <3>1. 1 < h => g[h - 1] = j[h - 1]
      BY <1>3, <1>8
    <3> QED
      BY <1>0, <1>2, <1>3, <1>7, <3>1 DEF Placed
  <2> QED
    BY <1>7, <1>10, <1>11, <2>1, <2>2, JournalGrown
<1>13. g[1].k = "hdr" /\ g[1].orig = w.orig
  <2>1. CASE h = 1
    BY <1>4, <1>6, <1>7, <2>1
  <2>2. CASE h # 1
    <3>1. h > 1 /\ 1 \in 1 .. o /\ h - 1 >= 1
      BY <1>3, <2>2
    <3>2. g[1] = j[1] /\ j[1].orig = w.orig
      BY <1>2, <1>8, <2>2, <3>1
    <3>3. IsHdr(j, 1)
      BY <1>2, <3>1 DEF Tiled
    <3> QED
      BY <3>2, <3>3, CellIs
  <2> QED
    BY <2>1, <2>2
<1>14. SuperName(g) = SuperName(j) \/ SuperName(g) = 0
  <2>1. g # None /\ j # None /\ g # << >> /\ j # << >>
    BY <1>3, <1>7, JournalAssumption
  <2>2. CASE Len(j) = h
    BY <1>6, <1>7, <2>1, <2>2 DEF SuperName
  <2>3. CASE Len(j) # h
    <3>1. g[Len(g)] = j[Len(j)]
      BY <1>3, <1>7, <2>3
    <3> QED
      BY <2>1, <3>1 DEF SuperName
  <2> QED
    BY <2>2, <2>3
<1> QED
  BY <1>0, <1>6, <1>7, <1>9, <1>12, <1>13, <1>14 DEF g

(* Once it is counted, a segment is one of those that are played back.     *)
LEMMA JournalTiled ==
  ASSUME NEW j \in Seq(JournalCell), NEW w \in JournalWriter,
         NEW a \in Seq(Page), NEW f \in Seq(Page), Journal(j, w, a, f),
         w.hdr <= w.off, j[w.hdr].magic
  PROVE  Tiled(j, w.off) /\ j[1].orig = w.orig /\ ~IsHdr(j, w.off + 1)
<1>0. PICK o \in Nat, h \in Nat, n \in Nat : o = w.off /\ h = w.hdr /\ n = w.n
  BY DEF JournalWriter
<1>2. Placed(j, w) /\ Segment(j, w) /\ Copied(j, w, a) /\ (h > 1 => j[1].orig = w.orig)
      /\ Tiled(j, h - 1)
  BY <1>0 DEF Journal
<1>3. 1 <= h /\ h <= o /\ o <= Len(j)
  BY <1>0, <1>2 DEF Placed
<1>4. /\ j[h].k = "hdr" /\ j[h].orig = w.orig /\ j[h].magic /\ j[h].n = n
      /\ \A m \in 1 .. n : j[h + m].k = "rec" /\ j[h + m].by = j[h].by
      /\ o = h + n \/ (o = h + n + 1 /\ j[o].k = "super")
      /\ ~IsHdr(j, o + 1)
  BY <1>0, <1>2, <1>3 DEF Segment
<1>5. j[1].orig = w.orig
  <2>1. h = 1 \/ h > 1
    BY <1>3
  <2> QED
    BY <1>2, <1>4, <2>1
<1>6. IsHdr(j, h)
  BY <1>3, <1>4, CellIs
<1>7. IsHdr(j, 1)
  <2>1. CASE h = 1
    BY <1>6, <2>1
  <2>2. CASE h > 1
    BY <1>2, <2>2 DEF Tiled
  <2> QED
    BY <1>3, <2>1, <2>2
<1>8. ASSUME NEW k \in 1 .. o
      PROVE  \/ /\ j[k].k = "hdr" /\ j[k].magic
                /\ k + j[k].n <= o
                /\ \A m \in 1 .. j[k].n : j[k + m].k = "rec" /\ j[k + m].by = j[k].by
                /\ k + j[k].n < o => IsHdr(j, k + j[k].n + 1) \/ j[k + j[k].n + 1].k = "super"
             \/ j[k].k = "rec"
             \/ j[k].k = "super" /\ k = o
  <2>1. CASE k > h
    <3>1. CASE k <= h + n
      <4>1. k - h \in 1 .. n /\ h + (k - h) = k
        BY <2>1, <3>1
      <4> QED
        BY <1>4, <4>1
    <3>2. CASE k > h + n
      <4>1. k = o /\ o = h + n + 1
        BY <1>4, <3>2
      <4>2. j[k].k = "super"
        BY <1>4, <4>1
      <4> QED
        BY <4>1, <4>2
    <3> QED
      BY <3>1, <3>2
  <2>2. CASE k = h
    <3>1. h + n <= o /\ (h + n < o => h + n + 1 = o /\ j[o].k = "super")
      BY <1>4
    <3> QED
      BY <1>4, <2>2, <3>1
  <2>3. CASE k < h
    <3>1. k \in 1 .. h - 1
      BY <2>3
    <3>2. CASE j[k].k = "rec"
      BY <3>2
    <3>3. CASE j[k].k = "super"
      <4>1. k = h - 1
        BY <1>2, <3>1, <3>3 DEF Tiled
      <4>2. j[h - 1].k # "super"
        BY <1>0, <1>2, <1>3, <3>1 DEF Placed
      <4> QED
        BY <3>3, <4>1, <4>2
    <3>4. CASE j[k].k # "rec" /\ j[k].k # "super"
      <4>1. /\ j[k].k = "hdr" /\ j[k].magic /\ k + j[k].n <= h - 1
            /\ \A m \in 1 .. j[k].n : j[k + m].k = "rec" /\ j[k + m].by = j[k].by
            /\ k + j[k].n < h - 1 => IsHdr(j, k + j[k].n + 1) \/ j[k + j[k].n + 1].k = "super"
        BY <1>2, <3>1, <3>4 DEF Tiled
      <4>2. PICK x \in Nat : x = j[k].n
        <5>1. j[k] \in JournalCell
          BY <1>3
        <5> QED
          BY <4>1, <5>1, CellTypes
      <4>3. k + x <= o
        BY <1>3, <4>1, <4>2
      <4>4. k + x = h - 1 => k + x + 1 = h
        BY <1>3
      <4>5. IsHdr(j, k + x + 1) \/ j[k + x + 1].k = "super"
        <5>1. CASE k + x = h - 1
          BY <1>6, <4>4, <5>1
        <5>2. CASE k + x < h - 1
          BY <4>1, <4>2, <5>2
        <5>3. k + x <= h - 1
          BY <4>1, <4>2
        <5> QED
          BY <5>1, <5>2, <5>3
      <4> QED
        BY <4>1, <4>2, <4>3, <4>5
    <3> QED
      BY <3>2, <3>3, <3>4
  <2> QED
    BY <1>3, <2>1, <2>2, <2>3
<1>9. Tiled(j, o)
  BY <1>3, <1>7, <1>8 DEF Tiled
<1> QED
  BY <1>0, <1>4, <1>5, <1>9
(* The records are synced: a commit adds no more,                          *)
LEMMA JournalSealed ==
  ASSUME NEW j \in Seq(JournalCell), NEW w \in JournalWriter,
         NEW a \in Seq(Page), NEW f \in Seq(Page), Journal(j, w, a, f),
         w.hdr <= w.off, j[w.hdr].magic
  PROVE  LET v == [[w EXCEPT !.need = {}, !.mod = TRUE] EXCEPT !.hdr = w.off + 1] IN
         v \in JournalWriter /\ Journal(j, v, a, f)
<1> DEFINE v == [[w EXCEPT !.need = {}, !.mod = TRUE] EXCEPT !.hdr = w.off + 1]
<1>0. PICK o \in Nat, h \in Nat : o = w.off /\ h = w.hdr
  BY DEF JournalWriter
<1>1. Tiled(j, o) /\ j[1].orig = w.orig /\ ~IsHdr(j, o + 1)
  BY <1>0, JournalTiled
<1>2. Placed(j, w) /\ Copied(j, w, a) /\ Restorable(j, w, a, f)
  BY DEF Journal
<1>3. 1 <= h /\ h <= o /\ o <= Len(j)
  BY <1>0, <1>2 DEF Placed
<1>4. PICK i \in Nat : i = o + 1
  OBVIOUS
<1>5. /\ v \in JournalWriter /\ v.off = o /\ v.hdr = i /\ v.mod = TRUE /\ v.need = {}
      /\ v.inJournal = w.inJournal /\ v.orig = w.orig /\ v.n = w.n
  <2>1. v = [w EXCEPT !.need = {}, !.mod = TRUE, !.hdr = i]
    BY <1>0, <1>4 DEF JournalWriter
  <2> HIDE DEF v
  <2> QED
    BY <1>0, <2>1 DEF JournalWriter
<1> HIDE DEF v
<1>6. \A q : Recorded(j, h - 1, q) => Recorded(j, o, q)
  <2>1. \A k \in 1 .. h - 1 : k \in 1 .. o
    BY <1>3
  <2> QED
    BY <2>1 DEF Recorded
<1>7. Placed(j, v)
  <2>1. 1 <= o /\ 1 <= i /\ i <= o + 1 /\ i > 1 /\ ~(i <= o)
    BY <1>3, <1>4
  <2> QED
    BY <1>3, <1>5, <2>1 DEF Placed
<1>8. Segment(j, v)
  <2>1. i > o /\ ~(i <= o)
    BY <1>4
  <2> QED
    BY <1>1, <1>4, <1>5, <2>1 DEF Segment
<1>9. i - 1 = o /\ i > 1
  BY <1>3, <1>4
<1>10. Copied(j, v, a)
  <2>1. \A q \in v.inJournal : Recorded(j, o, q)
    BY <1>0, <1>2, <1>5, <1>6 DEF Copied
  <2>2. \A k \in 1 .. o : j[k].k = "rec" => j[k].page \in v.inJournal /\ j[k].old = a[j[k].page]
    BY <1>0, <1>2, <1>5 DEF Copied
  <2> QED
    BY <1>2, <1>5, <1>9, <2>1, <2>2 DEF Copied
<1>11. Restorable(j, v, a, f)
  <2>1. \A p \in 1 .. v.orig : f[p] = a[p] \/ Recorded(j, o, p)
    BY <1>0, <1>2, <1>5, <1>6 DEF Restorable
  <2> QED
    BY <1>2, <1>5, <1>9, <2>1 DEF Restorable
<1> QED
  BY <1>1, <1>5, <1>7, <1>8, <1>9, <1>10, <1>11 DEF Journal, v

(* and a transaction that goes on begins another segment.                  *)
LEMMA JournalHeaded ==
  ASSUME NEW j \in Seq(JournalCell), NEW w \in JournalWriter,
         NEW a \in Seq(Page), NEW f \in Seq(Page), Journal(j, w, a, f),
         w.hdr <= w.off, j[w.hdr].magic, w.off = w.hdr + w.n, NEW t \in Nat
  PROVE  LET g == Put(j, w.off + 1, Hdr(t, w.off + 1, w.orig), Zero)
             v == [[w EXCEPT !.need = {}, !.mod = TRUE]
                     EXCEPT !.off = w.off + 1, !.hdr = w.off + 1, !.n = 0] IN
         /\ g \in Seq(JournalCell) /\ v \in JournalWriter
         /\ Journal(g, v, a, f) /\ Growing(g, v)
         /\ \A k \in 1 .. w.off : g[k] = j[k]
         /\ SuperName(g) \in {0, SuperName(j)}
<1> DEFINE g == Put(j, w.off + 1, Hdr(t, w.off + 1, w.orig), Zero)
           v == [[w EXCEPT !.need = {}, !.mod = TRUE]
                   EXCEPT !.off = w.off + 1, !.hdr = w.off + 1, !.n = 0]
<1>0. PICK o \in Nat, h \in Nat, n \in Nat, r \in Nat : o = w.off /\ h = w.hdr /\ n = w.n /\ r = w.orig
  BY DEF JournalWriter
<1>1. Tiled(j, o) /\ j[1].orig = w.orig
  BY <1>0, JournalTiled
<1>2. Placed(j, w) /\ Copied(j, w, a) /\ Restorable(j, w, a, f) /\ Segment(j, w)
  BY DEF Journal
<1>3. 1 <= h /\ h <= o /\ o <= Len(j) /\ o = h + n
  BY <1>0, <1>2 DEF Placed
<1>4. PICK i \in Nat \ {0} : i = o + 1
  OBVIOUS
<1>5. /\ v \in JournalWriter /\ v.off = i /\ v.hdr = i /\ v.n = 0 /\ v.mod = TRUE /\ v.need = {}
      /\ v.inJournal = w.inJournal /\ v.orig = w.orig
  <2>1. v = [w EXCEPT !.need = {}, !.mod = TRUE, !.off = i, !.hdr = i, !.n = 0] /\ i \in Nat
    BY <1>0, <1>4 DEF JournalWriter
  <2> HIDE DEF v
  <2> QED
    BY <1>0, <2>1 DEF JournalWriter
<1>6. PICK x \in JournalCell : /\ x = Hdr(t, i, r)
                               /\ x.k = "hdr" /\ x.orig = r /\ x.magic = FALSE
  <2>1. /\ Hdr(t, i, r) \in JournalCell /\ Hdr(t, i, r).k = "hdr"
        /\ Hdr(t, i, r).orig = r /\ Hdr(t, i, r).magic = FALSE
    <3>1. i \in Nat
      BY <1>4
    <3> QED
      BY <1>0, <3>1 DEF Hdr, JournalCell
  <2> QED
    BY <2>1
<1>7. /\ g \in Seq(JournalCell) /\ g[i] = x
      /\ (Len(j) <= i => Len(g) = i) /\ (i <= Len(j) => Len(g) = Len(j))
      /\ \A k \in 1 .. Len(j) : k # i => g[k] = j[k]
  <2>1. g = Put(j, i, x, Zero)
    BY <1>0, <1>4, <1>6
  <2>2. /\ Put(j, i, x, Zero) \in Seq(JournalCell) /\ Put(j, i, x, Zero)[i] = x
        /\ (Len(j) <= i => Len(Put(j, i, x, Zero)) = i) /\ (i <= Len(j) => Len(Put(j, i, x, Zero)) = Len(j))
        /\ \A k \in 1 .. Len(j) : k # i => Put(j, i, x, Zero)[k] = j[k]
    <3>1. j \in Seq(JournalCell) /\ i \in Nat \ {0} /\ x \in JournalCell
      BY <1>4, <1>6
    <3> QED
      BY <3>1, PutCell
  <2> HIDE DEF g
  <2> QED
    BY <2>1, <2>2
<1> HIDE DEF g, v
<1>8. \A k \in 1 .. o : g[k] = j[k]
  <2>1. \A k \in 1 .. o : k \in 1 .. Len(j) /\ k # i
    BY <1>3, <1>4
  <2> QED
    BY <1>7, <2>1
<1>9. Len(g) \in Nat /\ i <= Len(g)
  BY <1>7
<1>10. Tiled(g, o) /\ \A q : Recorded(g, o, q) <=> Recorded(j, o, q)
  <2>1. o <= Len(g)
    BY <1>4, <1>9
  <2> QED
    BY <1>1, <1>7, <1>8, <2>1, TiledPrefix
<1>11. \A q : Recorded(j, h - 1, q) => Recorded(j, o, q)
  <2>1. \A k \in 1 .. h - 1 : k \in 1 .. o
    BY <1>3
  <2> QED
    BY <2>1 DEF Recorded
<1>12. Placed(g, v)
  <2>1. 1 <= i /\ i <= i + 1 /\ i > 1 /\ i - 1 = o
    BY <1>3, <1>4
  <2>2. g[o].k # "super"
    <3>1. j[o].k # "super"
      <4>1. CASE n = 0
        BY <1>0, <1>2, <1>3, <4>1 DEF Segment
      <4>2. CASE n # 0
        <5>1. n \in 1 .. n
          BY <4>2
        <5> QED
          BY <1>0, <1>2, <1>3, <5>1 DEF Segment
      <4> QED
        BY <4>1, <4>2
    <3>2. o \in 1 .. o
      BY <1>3
    <3> QED
      BY <1>8, <3>1, <3>2
  <2> QED
    BY <1>5, <1>9, <2>1, <2>2 DEF Placed
<1>13. Segment(g, v)
  <2>1. i = i + 0 /\ i <= i /\ ~(i > i) /\ 1 .. 0 = {}
    BY <1>4
  <2> QED
    BY <1>0, <1>5, <1>6, <1>7, <2>1 DEF Segment
<1>14. i - 1 = o /\ i > 1
  BY <1>3, <1>4
<1>15. Copied(g, v, a)
  <2>1. \A q \in v.inJournal : Recorded(g, o, q)
    BY <1>0, <1>2, <1>5, <1>10, <1>11 DEF Copied
  <2>2. \A k \in 1 .. i : g[k].k = "rec" => g[k].page \in v.inJournal /\ g[k].old = a[g[k].page]
    <3> SUFFICES ASSUME NEW k \in 1 .. i, g[k].k = "rec"
                 PROVE  g[k].page \in v.inJournal /\ g[k].old = a[g[k].page]
      OBVIOUS
    <3>1. k # i
      BY <1>6, <1>7
    <3>2. k \in 1 .. o
      BY <1>4, <3>1
    <3> QED
      BY <1>0, <1>2, <1>5, <1>8, <3>2 DEF Copied
  <2> QED
    BY <1>2, <1>5, <1>14, <2>1, <2>2 DEF Copied
<1>16. Restorable(g, v, a, f)
  <2>1. \A p \in 1 .. v.orig : f[p] = a[p] \/ Recorded(g, o, p)
    BY <1>0, <1>2, <1>5, <1>10, <1>11 DEF Restorable
  <2> QED
    BY <1>2, <1>5, <1>14, <2>1 DEF Restorable
<1>17. g[1] = j[1]
  BY <1>3, <1>8
<1>18. Journal(g, v, a, f)
  BY <1>1, <1>5, <1>10, <1>12, <1>13, <1>14, <1>15, <1>16, <1>17 DEF Journal
<1>19. Growing(g, v)
  <2>1. i = i + 0 /\ i <= i
    BY <1>4
  <2> QED
    BY <1>5, <1>6, <1>7, <2>1 DEF Growing
<1>20. SuperName(g) \in {0, SuperName(j)}
  <2>1. g # None /\ j # None /\ g # << >> /\ j # << >>
    BY <1>3, <1>7, <1>9, JournalAssumption
  <2>2. CASE Len(j) <= i
    <3>1. Len(g) = i
      BY <1>7, <2>2
    <3>2. g[Len(g)].k = "hdr"
      BY <1>6, <1>7, <3>1
    <3> QED
      BY <2>1, <3>2 DEF SuperName
  <2>3. CASE Len(j) > i
    <3>1. Len(g) = Len(j) /\ Len(j) \in 1 .. Len(j) /\ Len(j) # i
      BY <1>7, <2>3
    <3>2. g[Len(g)] = j[Len(j)]
      BY <1>7, <3>1
    <3> QED
      BY <2>1, <3>2 DEF SuperName
  <2> QED
    BY <2>2, <2>3
<1> QED
  BY <1>0, <1>5, <1>7, <1>8, <1>18, <1>19, <1>20 DEF g, v
(* The file changes only where the journal has been synced.                *)
LEMMA JournalFile ==
  ASSUME NEW j \in Seq(JournalCell), NEW w \in JournalWriter, NEW v \in JournalWriter,
         NEW a \in Seq(Page), NEW f \in Seq(Page), NEW g \in Seq(Page), Journal(j, w, a, f),
         v.off = w.off, v.hdr = w.hdr, v.n = w.n, v.mod = w.mod,
         v.inJournal = w.inJournal, v.need = w.need, v.orig = w.orig,
         w.mod \/ g = f, Len(g) >= w.orig,
         \A p \in 1 .. w.orig : g[p] = f[p] \/ g[p] = a[p] \/ Recorded(j, w.hdr - 1, p)
  PROVE  Journal(j, v, a, g)
<1>1. /\ Placed(j, w) /\ Tiled(j, w.hdr - 1) /\ (w.hdr > 1 => j[1].orig = w.orig)
      /\ Segment(j, w) /\ Copied(j, w, a) /\ Restorable(j, w, a, f)
  BY DEF Journal
<1>2. Placed(j, v) /\ Tiled(j, v.hdr - 1) /\ (v.hdr > 1 => j[1].orig = v.orig)
  BY <1>1 DEF Placed
<1>3. Segment(j, v)
  BY <1>1 DEF Segment
<1>4. Copied(j, v, a)
  BY <1>1 DEF Copied
<1>5. Restorable(j, v, a, g)
  BY <1>1 DEF Restorable
<1> QED
  BY <1>2, <1>3, <1>4, <1>5 DEF Journal

(* What a rollback plays back are the pages as they were,                  *)
LEMMA JournalPlayed ==
  ASSUME NEW j \in Seq(JournalCell), NEW w \in JournalWriter,
         NEW a \in Seq(Page), NEW f \in Seq(Page), Journal(j, w, a, f), w.mod
  PROVE  LET R == Records(j, w.hdr - 1) IN
         /\ \A p \in OldPages(j, R) : p \in 1 .. w.orig /\ OldPage(j, R, p) = a[p]
         /\ \A p \in 1 .. w.orig : Recorded(j, w.hdr - 1, p) => p \in OldPages(j, R)
<1> DEFINE R == Records(j, w.hdr - 1)
<1>0. PICK o \in Nat, h \in Nat : o = w.off /\ h = w.hdr
  BY DEF JournalWriter
<1>1. /\ Placed(j, w) /\ Tiled(j, h - 1) /\ (h > 1 => j[1].orig = w.orig) /\ Copied(j, w, a)
  BY <1>0 DEF Journal
<1>2. 1 < h /\ h <= o + 1 /\ o <= Len(j)
  BY <1>0, <1>1 DEF Placed
<1>3. PICK L \in Nat : L = h - 1
  BY <1>2
<1>4. R = {k \in 1 .. L : j[k].k = "rec"}
  <2>1. 1 <= L
    BY <1>2, <1>3
  <2> QED
    BY <1>0, <1>1, <1>3, <2>1, RecordsTiled
<1>5. \A k \in 1 .. L : k \in 1 .. o
  BY <1>2, <1>3
<1>6. R \subseteq RecPlaces(j)
  BY <1>0, <1>3, RecordsAreRecords
<1>7. \A p \in OldPages(j, R) : p \in 1 .. w.orig /\ OldPage(j, R, p) = a[p]
  <2> SUFFICES ASSUME NEW p \in OldPages(j, R) PROVE p \in 1 .. w.orig /\ OldPage(j, R, p) = a[p]
    OBVIOUS
  <2>1. PICK i \in R : j[i].k = "rec" /\ j[i].page = p /\ OldPage(j, R, p) = j[i].old
    <3>1. \E i \in R : i \in 1 .. Len(j) /\ j[i].k = "rec" /\ j[i].page = p
                        /\ OldPage(j, R, p) = j[i].old
      BY <1>6, OldPageIs
    <3> QED
      BY <3>1
  <2>2. i \in 1 .. o
    BY <1>4, <1>5, <2>1
  <2> QED
    BY <1>0, <1>1, <2>1, <2>2 DEF Copied
<1>8. \A p \in 1 .. w.orig : Recorded(j, w.hdr - 1, p) => p \in OldPages(j, R)
  <2>1. j[1].orig = w.orig
    BY <1>1, <1>2
  <2> HIDE DEF R
  <2> QED
    BY <1>0, <1>3, <1>4, <2>1 DEF Recorded, OldPages
<1> QED
  BY <1>7, <1>8

(* and in the end the file is as it was.                                   *)
LEMMA JournalUndone ==
  ASSUME NEW j \in Seq(JournalCell), NEW w \in JournalWriter,
         NEW a \in Seq(Page), NEW f \in Seq(Page), Journal(j, w, a, f),
         w.mod => /\ Len(f) <= w.orig
                  /\ \A p \in OldPages(j, Records(j, w.hdr - 1)) :
                       p \in DOMAIN f => f[p] = OldPage(j, Records(j, w.hdr - 1), p)
  PROVE  f = a
<1>1. CASE ~w.mod
  BY <1>1 DEF Journal, Restorable
<1>2. CASE w.mod
  <2>1. PICK R : R = Records(j, w.hdr - 1)
    OBVIOUS
  <2>2. /\ \A p \in OldPages(j, R) : p \in 1 .. w.orig /\ OldPage(j, R, p) = a[p]
        /\ \A p \in 1 .. w.orig : Recorded(j, w.hdr - 1, p) => p \in OldPages(j, R)
    BY <1>2, <2>1, JournalPlayed
  <2>3. w.orig = Len(a) /\ w.orig \in Nat
    BY DEF Journal, Copied
  <2>4. Len(f) = Len(a)
    BY <1>2, <2>3 DEF Journal, Restorable
  <2>5. \A p \in 1 .. Len(f) : f[p] = a[p]
    <3> SUFFICES ASSUME NEW p \in 1 .. Len(f) PROVE f[p] = a[p]
      OBVIOUS
    <3>1. f[p] = a[p] \/ Recorded(j, w.hdr - 1, p)
      BY <2>3, <2>4 DEF Journal, Restorable
    <3>2. p \in OldPages(j, R) => f[p] = a[p]
      BY <1>2, <2>1, <2>2
    <3> QED
      BY <2>2, <2>3, <2>4, <3>1, <3>2
  <2> QED
    BY <2>4, <2>5, SameSeq
<1> QED
  BY <1>1, <1>2

(* A journal that counts restores the file of its transaction.             *)
LEMMA JournalRestores ==
  ASSUME NEW j \in Seq(JournalCell), NEW w \in JournalWriter,
         NEW a \in Seq(Page), NEW f \in Seq(Page), Journal(j, w, a, f),
         NEW S, Counts(j, S)
  PROVE  Restored(f, j, S) = a
<1>0. PICK o \in Nat, h \in Nat : o = w.off /\ h = w.hdr
  BY DEF JournalWriter
<1>1. /\ Placed(j, w) /\ Tiled(j, h - 1) /\ (h > 1 => j[1].orig = w.orig) /\ Copied(j, w, a)
      /\ Restorable(j, w, a, f) /\ Segment(j, w)
  BY <1>0 DEF Journal
<1>2. 1 <= h /\ h <= o + 1 /\ o <= Len(j) /\ 1 <= o /\ (w.mod <=> h > 1)
  BY <1>0, <1>1 DEF Placed
<1>3. ASSUME NEW L \in Nat, 1 <= L, L <= o, h - 1 <= L, Tiled(j, L), ~IsHdr(j, L + 1), j[1].orig = w.orig
      PROVE  Restored(f, j, S) = a
  <2>1. w.orig = Len(a) /\ Len(a) <= Len(f)
    BY <1>1 DEF Copied, Restorable
  <2>2. \A k \in 1 .. L : j[k].k = "rec" => j[k].page \in 1 .. Len(a) /\ j[k].old = a[j[k].page]
    <3>1. \A k \in 1 .. L : k \in 1 .. o
      BY <1>3
    <3> QED
      BY <1>0, <1>1, <2>1, <3>1 DEF Copied
  <2>3. \A p \in 1 .. Len(a) : f[p] = a[p] \/ Recorded(j, L, p)
    <3>1. \A k \in 1 .. h - 1 : k \in 1 .. L
      BY <1>2, <1>3
    <3>2. \A p : Recorded(j, h - 1, p) => Recorded(j, L, p)
      BY <3>1 DEF Recorded
    <3> QED
      BY <1>0, <1>1, <2>1, <3>2 DEF Restorable
  <2> QED
    BY <1>3, <2>1, <2>2, <2>3, RestoredTiled
<1>4. CASE h > o
  <2>1. h = o + 1 /\ h - 1 = o /\ h > 1
    BY <1>2, <1>4
  <2>2. ~IsHdr(j, o + 1)
    BY <1>0, <1>1, <1>4, <2>1 DEF Segment
  <2> QED
    BY <1>1, <1>2, <1>3, <2>1, <2>2
<1>5. CASE h <= o /\ j[h].magic
  <2>1. Tiled(j, o) /\ j[1].orig = w.orig /\ ~IsHdr(j, o + 1)
    BY <1>0, <1>5, JournalTiled
  <2> QED
    BY <1>2, <1>3, <2>1
<1>6. CASE h <= o /\ ~j[h].magic
  <2>1. ~IsHdr(j, h)
    BY <1>2, <1>6, CellIs
  <2>2. CASE h = 1
    <3>1. f = a
      BY <1>1, <1>2, <2>2 DEF Restorable
    <3> QED
      BY <2>1, <2>2, <3>1 DEF Restored
  <2>3. CASE h > 1
    <3>1. PICK L \in Nat : L = h - 1
      BY <2>3
    <3>2. 1 <= L /\ L <= o /\ L + 1 = h
      BY <1>6, <2>3, <3>1
    <3> QED
      BY <1>1, <1>3, <2>1, <2>3, <3>1, <3>2
  <2> QED
    BY <1>2, <2>2, <2>3
<1> QED
  BY <1>2, <1>4, <1>5, <1>6

(* What of it has been synced does too, once the file may have changed.    *)
LEMMA SyncedRestores ==
  ASSUME NEW j \in Seq(JournalCell), NEW w \in JournalWriter,
         NEW a \in Seq(Page), NEW f \in Seq(Page), Journal(j, w, a, f), w.mod,
         NEW g \in Seq(JournalCell), NEW S, Counts(g, S),
         Len(g) >= w.hdr - 1, \A k \in 1 .. w.hdr - 1 : g[k] = j[k], ~IsHdr(g, w.hdr)
  PROVE  Restored(f, g, S) = a
<1>0. PICK o \in Nat, h \in Nat : o = w.off /\ h = w.hdr
  BY DEF JournalWriter
<1>1. /\ Placed(j, w) /\ Tiled(j, h - 1) /\ (h > 1 => j[1].orig = w.orig) /\ Copied(j, w, a)
      /\ Restorable(j, w, a, f)
  BY <1>0 DEF Journal
<1>2. 1 < h /\ h <= o + 1
  BY <1>0, <1>1 DEF Placed
<1>3. PICK L \in Nat : L = h - 1
  BY <1>2
<1>4. 1 <= L /\ L + 1 = h /\ L <= Len(g) /\ \A k \in 1 .. L : k \in 1 .. o /\ g[k] = j[k]
  BY <1>0, <1>2, <1>3
<1>5. Tiled(g, L) /\ \A p : Recorded(g, L, p) <=> Recorded(j, L, p)
  BY <1>1, <1>3, <1>4, TiledPrefix
<1>6. w.orig = Len(a) /\ Len(a) <= Len(f)
  BY <1>1 DEF Copied, Restorable
<1>7. g[1].orig = w.orig
  BY <1>1, <1>2, <1>4
<1>8. \A k \in 1 .. L : g[k].k = "rec" => g[k].page \in 1 .. Len(a) /\ g[k].old = a[g[k].page]
  BY <1>0, <1>1, <1>4, <1>6 DEF Copied
<1>9. \A p \in 1 .. Len(a) : f[p] = a[p] \/ Recorded(g, L, p)
  BY <1>0, <1>1, <1>3, <1>5, <1>6 DEF Restorable
<1> QED
  BY <1>0, <1>4, <1>5, <1>6, <1>7, <1>8, <1>9, RestoredTiled
-----------------------------------------------------------------------------
(* What is to be the file. *)

LEMMA PageIsSome == \A t, n : t \in Nat /\ n \in Nat => << t, n >> \in Page /\ << t, n >> # None
BY JournalAssumption DEF Page

LEMMA PageOneIs ==
  \A f : f \in Seq(Page) =>
    /\ Counter(f) \in Nat /\ (f = << >> => Counter(f) = 0)
    /\ Headed(f) => f[1] \in Nat \X Nat
<1> SUFFICES ASSUME NEW f \in Seq(Page)
             PROVE  /\ Counter(f) \in Nat /\ (f = << >> => Counter(f) = 0)
                    /\ Headed(f) => f[1] \in Nat \X Nat
  OBVIOUS
<1>1. Headed(f) => f[1] \in Nat \X Nat
  <2> SUFFICES ASSUME Headed(f) PROVE f[1] \in Nat \X Nat
    OBVIOUS
  <2>1. f # << >> /\ f[1] # None
    BY DEF Headed
  <2>2. 1 \in 1 .. Len(f)
    BY <2>1
  <2>3. f[1] \in Page
    BY <2>2
  <2> QED
    BY <2>1, <2>3 DEF Page
<1>2. f = << >> => ~Headed(f)
  BY DEF Headed
<1> QED
  BY <1>1, <1>2 DEF Counter

(* Files that have the same version have the same counter.                 *)
LEMMA VersionCounts ==
  \A f, g : f \in Seq(Page) /\ g \in Seq(Page) /\ Version(f) = Version(g) => Counter(f) = Counter(g)
BY DEF Version, Counter

LEMMA CounterSame ==
  \A f, g : f \in Seq(Page) /\ g \in Seq(Page) /\ Len(f) >= 1 /\ Len(g) >= 1 /\ f[1] = g[1]
            => Counter(f) = Counter(g)
<1> SUFFICES ASSUME NEW f \in Seq(Page), NEW g \in Seq(Page), Len(f) >= 1, Len(g) >= 1, f[1] = g[1]
             PROVE  Counter(f) = Counter(g)
  OBVIOUS
<1>1. f # << >> /\ g # << >>
  OBVIOUS
<1> QED
  BY <1>1 DEF Counter, Headed

LEMMA CounterIs ==
  \A f, t, n : f \in Seq(Page) /\ Len(f) >= 1 /\ t \in Nat /\ n \in Nat /\ f[1] = << t, n >>
               => Counter(f) = n
<1> SUFFICES ASSUME NEW f \in Seq(Page), Len(f) >= 1, NEW t \in Nat, NEW n \in Nat, f[1] = << t, n >>
             PROVE  Counter(f) = n
  OBVIOUS
<1>1. f # << >> /\ << t, n >> # None
  BY PageIsSome
<1> QED
  BY <1>1 DEF Counter, Headed

(* pager_write changes a page of it,                                       *)
LEMMA DraftWritten ==
  ASSUME NEW m \in Seq(Page), NEW w \in JournalWriter, NEW v \in JournalWriter, NEW f \in Seq(Page),
         Drawn(m, w, f), NEW p \in Nat \ {0}, p <= Len(m) + 1, NEW x \in Page,
         v.dirty = w.dirty \cup {p}, v.orig = w.orig, w.inJournal \subseteq v.inJournal,
         p > v.orig \/ p \in v.inJournal
  PROVE  LET n == Put(m, p, x, None) IN
         /\ n \in Seq(Page) /\ Draft(n, v, f) /\ n[p] = x /\ Len(n) >= Len(m)
         /\ \A q \in 1 .. Len(m) : q # p => n[q] = m[q]
<1> DEFINE n == Put(m, p, x, None)
<1>1. /\ n \in Seq(Page) /\ n[p] = x
      /\ (Len(m) <= p => Len(n) = p) /\ (p <= Len(m) => Len(n) = Len(m))
      /\ \A q \in 1 .. Len(m) : q # p => n[q] = m[q]
  BY PutPage
<1> HIDE DEF n
<1>2. /\ Len(m) >= w.orig /\ Len(m) >= Len(f)
      /\ \A q \in 1 .. Len(m) : q \in w.dirty \/ (q <= Len(f) /\ f[q] = m[q])
      /\ w.dirty \subseteq 1 .. Len(m)
      /\ \A q \in w.dirty : q > w.orig \/ q \in w.inJournal
  BY DEF Drawn
<1>3. Len(n) \in Nat /\ Len(n) >= Len(m) /\ Len(n) >= p /\ Len(m) \in Nat /\ Len(f) \in Nat /\ w.orig \in Nat
  BY <1>1 DEF JournalWriter
<1>4. \A q \in 1 .. Len(n) : q = p \/ q \in 1 .. Len(m)
  BY <1>1, <1>3
<1>5. \A q \in 1 .. Len(n) : q \in v.dirty \/ (q <= Len(f) /\ f[q] = n[q])
  BY <1>1, <1>2, <1>4
<1>6. v.dirty \subseteq 1 .. Len(n)
  <2>1. 1 .. Len(m) \subseteq 1 .. Len(n) /\ p \in 1 .. Len(n)
    BY <1>3
  <2> QED
    BY <1>2, <2>1
<1>7. \A q \in v.dirty : q > v.orig \/ q \in v.inJournal
  BY <1>2
<1>8. Len(n) >= v.orig /\ Len(n) >= Len(f) /\ Len(n) >= 1
  <2>1. PICK r \in Nat : r = w.orig
    BY <1>3
  <2>2. PICK ln \in Nat, lm \in Nat, lf \in Nat : ln = Len(n) /\ lm = Len(m) /\ lf = Len(f)
    BY <1>3
  <2>3. ln >= lm /\ ln >= p /\ lm >= r /\ lm >= lf
    BY <1>2, <1>3, <2>1, <2>2
  <2>4. ln >= r /\ ln >= lf /\ ln >= 1
    BY <2>3
  <2> QED
    BY <2>1, <2>2, <2>4
<1> QED
  BY <1>1, <1>3, <1>5, <1>6, <1>7, <1>8 DEF Draft, Drawn, n

(* and pager_write_pagelist brings the file to it.                         *)
LEMMA DraftPaged ==
  ASSUME NEW m \in Seq(Page), NEW w \in JournalWriter, NEW v \in JournalWriter, NEW f \in Seq(Page),
         Draft(m, w, f), NEW p \in w.dirty,
         v.dirty = w.dirty \ {p}, v.orig = w.orig, v.inJournal = w.inJournal
  PROVE  LET g == Put(f, p, m[p], None) IN
         /\ g \in Seq(Page) /\ Draft(m, v, g) /\ g[p] = m[p] /\ Len(g) >= Len(f)
         /\ \A q \in 1 .. Len(f) : q # p => g[q] = f[q]
<1> DEFINE g == Put(f, p, m[p], None)
<1>1. /\ Len(m) >= w.orig /\ Len(m) >= Len(f) /\ Len(m) >= 1
      /\ \A q \in 1 .. Len(m) : q \in w.dirty \/ (q <= Len(f) /\ f[q] = m[q])
      /\ w.dirty \subseteq 1 .. Len(m)
      /\ \A q \in w.dirty : q > w.orig \/ q \in w.inJournal
  BY DEF Draft, Drawn
<1>2. p \in 1 .. Len(m) /\ p \in Nat \ {0}
  BY <1>1
<1>3. PICK x \in Page : x = m[p]
  BY <1>2
<1>4. /\ g \in Seq(Page) /\ g[p] = x
      /\ (Len(f) <= p => Len(g) = p) /\ (p <= Len(f) => Len(g) = Len(f))
      /\ \A q \in 1 .. Len(f) : q # p => g[q] = f[q]
  <2>1. /\ Put(f, p, x, None) \in Seq(Page) /\ Put(f, p, x, None)[p] = x
        /\ (Len(f) <= p => Len(Put(f, p, x, None)) = p) /\ (p <= Len(f) => Len(Put(f, p, x, None)) = Len(f))
        /\ \A q \in 1 .. Len(f) : q # p => Put(f, p, x, None)[q] = f[q]
    BY <1>2, PutPage
  <2>2. g = Put(f, p, x, None)
    BY <1>3
  <2> HIDE DEF g
  <2> QED
    BY <2>1, <2>2
<1> HIDE DEF g
<1>5. Len(g) \in Nat /\ Len(g) >= Len(f) /\ Len(g) >= p /\ Len(m) >= Len(g)
  BY <1>1, <1>2, <1>4
<1>6. \A q \in 1 .. Len(m) : q \in v.dirty \/ (q <= Len(g) /\ g[q] = m[q])
  <2> SUFFICES ASSUME NEW q \in 1 .. Len(m), q \notin v.dirty PROVE q <= Len(g) /\ g[q] = m[q]
    OBVIOUS
  <2>1. CASE q = p
    BY <1>3, <1>4, <1>5, <2>1
  <2>2. CASE q # p
    <3>1. q <= Len(f) /\ f[q] = m[q]
      BY <1>1, <2>2
    <3> QED
      BY <1>4, <1>5, <2>2, <3>1
  <2> QED
    BY <2>1, <2>2
<1> QED
  BY <1>1, <1>3, <1>4, <1>5, <1>6 DEF Draft, Drawn, g
LEMMA DraftDone ==
  ASSUME NEW m \in Seq(Page), NEW w, NEW f \in Seq(Page), Draft(m, w, f), w.dirty = {}
  PROVE  f = m
<1>1. Len(m) >= Len(f) /\ \A p \in 1 .. Len(m) : p <= Len(f) /\ f[p] = m[p]
  BY DEF Draft, Drawn
<1>2. Len(f) = Len(m)
  BY <1>1
<1> QED
  BY <1>1, <1>2, SameSeq

LEMMA GrowingHot ==
  ASSUME NEW j \in Seq(JournalCell), NEW w \in JournalWriter,
         NEW a \in Seq(Page), NEW f \in Seq(Page), Journal(j, w, a, f)
  PROVE  /\ w.mod => IsHdr(j, 1) /\ j[1].orig = w.orig
         /\ Growing(j, w) /\ ~w.mod => ~IsHdr(j, 1)
<1>0. PICK o \in Nat, h \in Nat : o = w.off /\ h = w.hdr
  BY DEF JournalWriter
<1>1. /\ Placed(j, w) /\ Tiled(j, h - 1) /\ (h > 1 => j[1].orig = w.orig)
  BY <1>0 DEF Journal
<1>2. 1 <= h /\ (w.mod <=> h > 1) /\ 1 <= o /\ o <= Len(j)
  BY <1>0, <1>1 DEF Placed
<1>3. w.mod => IsHdr(j, 1) /\ j[1].orig = w.orig
  BY <1>1, <1>2 DEF Tiled
<1>4. ASSUME Growing(j, w), ~w.mod PROVE ~IsHdr(j, 1)
  <2>1. h = 1 /\ ~j[h].magic
    BY <1>0, <1>2, <1>4 DEF Growing
  <2>2. 1 \in 1 .. Len(j)
    BY <1>2
  <2> QED
    BY <2>1, <2>2, CellIs
<1> QED
  BY <1>3, <1>4

LEMMA JournaledKept ==
  ASSUME TypeOK, NEW c \in Conns, NEW d \in Files, NEW p \in Nat \ {0},
         cache[c][d] # None, jw[c][d].orig = Len(cache[c][d]),
         jw[c][d].off = 0 => Unopened(jw[c][d], cache[c][d]) /\ db[d] = cache[c][d],
         jw[c][d].off # 0 => /\ jnl[d] # None /\ Growing(jnl[d], jw[c][d])
                             /\ Journal(jnl[d], jw[c][d], cache[c][d], db[d])
  PROVE  LET g == Journaled(c, d, p)[1]  v == Journaled(c, d, p)[2]  w == jw[c][d] IN
         /\ g \in Seq(JournalCell) /\ v \in JournalWriter
         /\ Journal(g, v, cache[c][d], db[d]) /\ Growing(g, v)
         /\ v.off # 0 /\ v.orig = w.orig /\ v.mod = w.mod /\ v.done = w.done
         /\ v.dirty = w.dirty \cup {p} /\ w.inJournal \subseteq v.inJournal
         /\ p > v.orig \/ p \in v.inJournal
         /\ SuperName(g) \in {0, SuperName(jnl[d])}
         /\ w.off # 0 => v.hdr = w.hdr /\ w.off <= Len(g) /\ w.off <= v.off
                         /\ \A k \in 1 .. w.off : g[k] = jnl[d][k]
<1>1. PICK w : w = jw[c][d]
  OBVIOUS
<1>2. PICK a : a = cache[c][d]
  OBVIOUS
<1>3. PICK j : j = IF jnl[d] = None THEN << >> ELSE jnl[d]
  OBVIOUS
<1>4. w \in JournalWriter /\ a \in Seq(Page) /\ j \in Seq(JournalCell) /\ db[d] \in Seq(Page)
      /\ txn[c] \in Nat
  <2>1. << >> \in Seq(JournalCell)
    OBVIOUS
  <2>2. jnl[d] \in Seq(JournalCell) \cup {None} /\ cache[c][d] \in Seq(Page) \cup {None}
        /\ jw[c][d] \in JournalWriter /\ db[d] \in Seq(Page) /\ txn[c] \in 0 .. MaxTxn
    BY DEF TypeOK
  <2> QED
    BY <1>1, <1>2, <1>3, <2>1, <2>2
<1>5. SuperName(j) = SuperName(jnl[d])
  BY <1>3 DEF SuperName
<1>6. PICK h, u : h = Opened(c, d)[1] /\ u = Opened(c, d)[2]
  OBVIOUS
<1>7. /\ h \in Seq(JournalCell) /\ u \in JournalWriter
      /\ Journal(h, u, a, db[d]) /\ Growing(h, u)
      /\ u.off # 0 /\ u.orig = w.orig /\ u.mod = w.mod /\ u.done = w.done
      /\ u.dirty = w.dirty /\ u.inJournal = w.inJournal
      /\ SuperName(h) \in {0, SuperName(j)}
      /\ w.off # 0 => h = jnl[d] /\ u = w
  <2>1. CASE w.off # 0
    <3>1. h = j /\ u = w /\ h = jnl[d]
      BY <1>1, <1>3, <1>6, <2>1 DEF Opened
    <3> QED
      BY <1>1, <1>2, <1>4, <2>1, <3>1
  <2>2. CASE w.off = 0
    <3>1. h = Put(j, 1, Hdr(txn[c], 1, w.orig), Zero) /\ u = [w EXCEPT !.off = 1, !.hdr = 1]
      BY <1>1, <1>3, <1>6, <2>2 DEF Opened
    <3>2. Unopened(w, a) /\ db[d] = a
      BY <1>1, <1>2, <2>2
    <3>3. PICK t \in Nat : t = txn[c]
      BY <1>4
    <3>4. h = Put(j, 1, Hdr(t, 1, w.orig), Zero)
      BY <3>1, <3>3
    <3>5. /\ h \in Seq(JournalCell) /\ u \in JournalWriter /\ Journal(h, u, a, a) /\ Growing(h, u)
          /\ SuperName(h) \in {0, SuperName(j)}
      <4>1. LET z == Put(j, 1, Hdr(t, 1, w.orig), Zero)
                y == [w EXCEPT !.off = 1, !.hdr = 1] IN
            /\ z \in Seq(JournalCell) /\ y \in JournalWriter
            /\ Journal(z, y, a, a) /\ Growing(z, y) /\ SuperName(z) \in {0, SuperName(j)}
        BY <1>4, <3>2, JournalOpened, Zenon
      <4> QED
        BY <3>1, <3>4, <4>1
    <3>6. /\ u.off # 0 /\ u.orig = w.orig /\ u.mod = w.mod /\ u.done = w.done
          /\ u.dirty = w.dirty /\ u.inJournal = w.inJournal
      BY <1>4, <3>1 DEF JournalWriter
    <3> QED
      BY <2>2, <3>2, <3>5, <3>6
  <2> QED
    BY <2>1, <2>2
<1>8. PICK g, v : g = Journaled(c, d, p)[1] /\ v = Journaled(c, d, p)[2]
  OBVIOUS
<1>9. /\ g \in Seq(JournalCell) /\ v \in JournalWriter
      /\ Journal(g, v, a, db[d]) /\ Growing(g, v)
      /\ v.off # 0 /\ v.orig = u.orig /\ v.mod = u.mod /\ v.done = u.done
      /\ v.dirty = u.dirty \cup {p} /\ u.inJournal \subseteq v.inJournal
      /\ p > v.orig \/ p \in v.inJournal
      /\ SuperName(g) \in {0, SuperName(h)}
      /\ v.hdr = u.hdr /\ u.off <= Len(g) /\ u.off <= v.off /\ \A k \in 1 .. u.off : g[k] = h[k]
  <2>1. CASE p > u.orig \/ p \in u.inJournal
    <3>1. /\ g = h
          /\ v = [u EXCEPT !.dirty = @ \cup {p},
                           !.need = IF p > u.orig /\ ~u.mod THEN @ \cup {p} ELSE @]
      BY <1>6, <1>8, <2>1 DEF Journaled
    <3>2. v \in JournalWriter /\ Journal(h, v, a, db[d]) /\ Growing(h, v)
      BY <1>4, <1>7, <2>1, <3>1, JournalDirtied
    <3>3. /\ v.off = u.off /\ v.orig = u.orig /\ v.mod = u.mod /\ v.done = u.done /\ v.hdr = u.hdr
          /\ v.dirty = u.dirty \cup {p} /\ u.inJournal = v.inJournal /\ u.off \in Nat
      BY <1>7, <3>1 DEF JournalWriter
    <3>4. u.off <= Len(h)
      BY <1>7 DEF Journal, Placed
    <3> QED
      BY <1>7, <2>1, <3>1, <3>2, <3>3, <3>4
  <2>2. CASE ~(p > u.orig \/ p \in u.inJournal)
    <3>1. u.orig \in Nat /\ u.off \in Nat /\ a[p] = cache[c][d][p]
      BY <1>2, <1>7 DEF JournalWriter
    <3>2. p \in 1 .. u.orig /\ p \notin u.inJournal
      BY <2>2, <3>1
    <3>3. /\ g = Put(h, u.off + 1, Rec(h[u.hdr].by, p, a[p]), Zero)
          /\ v = [u EXCEPT !.off = @ + 1, !.n = @ + 1, !.inJournal = @ \cup {p},
                           !.dirty = @ \cup {p}, !.need = @ \cup {p}]
      BY <1>6, <1>8, <2>2, <3>1 DEF Journaled
    <3>4. /\ g \in Seq(JournalCell) /\ v \in JournalWriter /\ Journal(g, v, a, db[d]) /\ Growing(g, v)
          /\ SuperName(g) \in {0, SuperName(h)}
      BY <1>4, <1>7, <3>2, <3>3, JournalRecorded
    <3>5. /\ v.off = u.off + 1 /\ v.orig = u.orig /\ v.mod = u.mod /\ v.done = u.done /\ v.hdr = u.hdr
          /\ v.dirty = u.dirty \cup {p} /\ v.inJournal = u.inJournal \cup {p}
      BY <1>7, <3>3 DEF JournalWriter
    <3>6. u.off <= Len(g) /\ \A k \in 1 .. u.off : g[k] = h[k]
      <4>1. PICK o \in Nat : o = u.off
        BY <3>1
      <4>2. PICK i \in Nat \ {0} : i = o + 1
        OBVIOUS
      <4>3. o <= Len(h)
        BY <1>7, <4>1 DEF Journal, Placed
      <4>4. \E x \in JournalCell : g = Put(h, i, x, Zero)
        <5>1. PICK by : by = h[u.hdr].by
          OBVIOUS
        <5>2. by \in Nat \X Nat
          <6>1. u.hdr \in Nat /\ 1 <= u.hdr /\ u.hdr <= u.off /\ u.off <= Len(h) /\ h[u.hdr].k = "hdr"
            BY <1>7 DEF Journal, Placed, Segment, Growing, JournalWriter
          <6>2. h[u.hdr] \in JournalCell
            <7>1. PICK q \in Nat : q = u.hdr
              BY <6>1
            <7>2. 1 <= q /\ q <= o /\ o <= Len(h)
              BY <4>1, <6>1, <7>1
            <7>3. q \in 1 .. Len(h)
              BY <7>2
            <7> QED
              BY <1>7, <7>1, <7>3
          <6> QED
            BY <5>1, <6>1, <6>2, CellTypes
        <5>3. a[p] \in Page
          <6>1. u.orig = Len(a)
            BY <1>7 DEF Journal, Copied
          <6> QED
            BY <1>4, <3>2, <6>1
        <5>4. Rec(by, p, a[p]) \in JournalCell
          <6>1. PICK old \in Page : old = a[p]
            BY <5>3
          <6>2. Rec(by, p, old) \in JournalCell
            BY <5>2 DEF Rec, JournalCell
          <6> QED
            BY <6>1, <6>2
        <5> QED
          BY <3>3, <4>1, <4>2, <5>1, <5>4
      <4>5. PICK x \in JournalCell : g = Put(h, i, x, Zero)
        BY <4>4
      <4>6. /\ (Len(h) <= i => Len(g) = i) /\ (i <= Len(h) => Len(g) = Len(h))
            /\ \A k \in 1 .. Len(h) : k # i => g[k] = h[k]
        <5>1. h \in Seq(JournalCell)
          BY <1>7
        <5> QED
          BY <4>5, <5>1, PutCell
      <4>7. \A k \in 1 .. o : k \in 1 .. Len(h) /\ k # i
        BY <1>7, <4>2, <4>3
      <4>8. Len(h) \in Nat
        BY <1>7
      <4>9. o <= Len(g)
        BY <4>2, <4>3, <4>6, <4>8
      <4> QED
        BY <4>1, <4>6, <4>7, <4>9
    <3> QED
      BY <2>2, <3>1, <3>2, <3>4, <3>5, <3>6
  <2> QED
    BY <2>1, <2>2
<1> QED
  BY <1>1, <1>2, <1>5, <1>7, <1>8, <1>9
-----------------------------------------------------------------------------
(* The steps of one connection, and what it leaves to the others. *)

Acts(c) ==
  \/ Step(c) \/ End(c) \/ Commit(c) \/ Rollback(c) \/ Crash(c)
  \/ \E d \in Files : Open(c, d) \/ Reserve(c, d)
  \/ \E d \in Files, p \in Pages : Write(c, d, p) \/ Spill(c, d, p)

Alike(o) ==
  /\ lock'[o] = lock[o] /\ pc'[o] = pc[o] /\ op'[o] = op[o] /\ cur'[o] = cur[o]
  /\ reads'[o] = reads[o] /\ cache'[o] = cache[o] /\ mine'[o] = mine[o] /\ jw'[o] = jw[o]
  /\ txn'[o] = txn[o] /\ sup'[o] = sup[o] /\ spill'[o] = spill[o]

Shapes ==
  /\ DOMAIN lock = Conns /\ DOMAIN pc = Conns /\ DOMAIN op = Conns /\ DOMAIN cur = Conns
  /\ DOMAIN reads = Conns /\ DOMAIN cache = Conns /\ DOMAIN mine = Conns /\ DOMAIN jw = Conns
  /\ DOMAIN txn = Conns /\ DOMAIN sup = Conns /\ DOMAIN spill = Conns
  /\ lock = [c \in Conns |-> lock[c]] /\ pc = [c \in Conns |-> pc[c]]
  /\ op = [c \in Conns |-> op[c]] /\ cur = [c \in Conns |-> cur[c]]
  /\ reads = [c \in Conns |-> reads[c]] /\ cache = [c \in Conns |-> cache[c]]
  /\ mine = [c \in Conns |-> mine[c]] /\ jw = [c \in Conns |-> jw[c]]
  /\ txn = [c \in Conns |-> txn[c]] /\ sup = [c \in Conns |-> sup[c]]
  /\ spill = [c \in Conns |-> spill[c]]

LEMMA ShapesOK == ASSUME TypeOK PROVE Shapes
BY DEF TypeOK, Shapes

LEMMA NextCases ==
  ASSUME Next
  PROVE  setting' = setting /\ (PowerLoss \/ \E c \in Conns : Acts(c))
BY DEF Next, Acts

LEMMA Others ==
  ASSUME TypeOK, NEW c \in Conns, Acts(c), NEW o \in Conns, o # c
  PROVE  Alike(o)
<1> USE DEF Alike, Go, Locked, disk, local, ghosts, bounds
<1>1. Shapes
  BY ShapesOK
<1>2. CASE HotExists(c)
  BY <1>1, <1>2 DEF HotExists, Shapes
<1>3. CASE HotReserved(c)
  BY <1>1, <1>3 DEF HotReserved, Shapes
<1>4. CASE HotEmpty(c)
  BY <1>1, <1>4 DEF HotEmpty, Shapes
<1>5. CASE HotByte(c)
  BY <1>1, <1>5 DEF HotByte, Shapes
<1>6. CASE HotLock(c)
  BY <1>1, <1>6 DEF HotLock, Shapes
<1>7. CASE HotOpen(c)
  BY <1>1, <1>7 DEF HotOpen, Shapes
<1>8. CASE PlayTruncate(c)
  BY <1>1, <1>8 DEF PlayTruncate, Shapes
<1>9. CASE PlayPage(c)
  BY <1>1, <1>9 DEF PlayPage, Shapes
<1>10. CASE PlaySync(c)
  BY <1>1, <1>10 DEF PlaySync, Shapes
<1>11. CASE Fin(c)
  BY <1>1, <1>11 DEF Fin, Shapes
<1>12. CASE FinSync(c)
  BY <1>1, <1>12 DEF FinSync, Shapes
<1>13. CASE Unlock(c)
  BY <1>1, <1>13 DEF Unlock, Shapes
<1>14. CASE DelSuper(c)
  BY <1>1, <1>14 DEF DelSuper, Shapes
<1>15. CASE NextFile(c)
  BY <1>1, <1>15 DEF NextFile, Shapes
<1>16. CASE Check(c)
  BY <1>1, <1>16 DEF Check, Shapes
<1>17. CASE CommitLock(c)
  BY <1>1, <1>17 DEF CommitLock, Shapes
<1>18. CASE WriteSuper(c)
  BY <1>1, <1>18 DEF WriteSuper, Shapes
<1>19. CASE Prepare(c)
  BY <1>1, <1>19 DEF Prepare, Shapes
<1>20. CASE SyncRecords(c)
  BY <1>1, <1>20 DEF SyncRecords, Shapes
<1>21. CASE Count(c)
  BY <1>1, <1>21 DEF Count, Shapes
<1>22. CASE SyncCount(c)
  BY <1>1, <1>22 DEF SyncCount, Shapes
<1>23. CASE WritePage(c)
  BY <1>1, <1>23 DEF WritePage, Shapes
<1>24. CASE SyncDb(c)
  BY <1>1, <1>24 DEF SyncDb, Shapes
<1>25. CASE DeleteSuper(c)
  BY <1>1, <1>25 DEF DeleteSuper, Shapes
<1>26. CASE End(c)
  BY <1>1, <1>26 DEF End, Shapes
<1>27. CASE Commit(c)
  BY <1>1, <1>27 DEF Commit, Shapes
<1>28. CASE Rollback(c)
  BY <1>1, <1>28 DEF Rollback, Shapes
<1>29. CASE Crash(c)
  BY <1>29 DEF Crash, Gone
<1>30. ASSUME NEW d \in Files, Open(c, d) PROVE Alike(o)
  BY <1>1, <1>30 DEF Open, Shapes
<1>31. ASSUME NEW d \in Files, Reserve(c, d) PROVE Alike(o)
  BY <1>1, <1>31 DEF Reserve, Shapes
<1>32. ASSUME NEW d \in Files, NEW p \in Pages, Write(c, d, p) PROVE Alike(o)
  BY <1>1, <1>32 DEF Write, Shapes
<1>33. ASSUME NEW d \in Files, NEW p \in Pages, Spill(c, d, p) PROVE Alike(o)
  BY <1>1, <1>33 DEF Spill, Shapes
<1> QED
  BY <1>2, <1>3, <1>4, <1>5, <1>6, <1>7, <1>8, <1>9, <1>10, <1>11, <1>12, <1>13, <1>14, <1>15,
     <1>16, <1>17, <1>18, <1>19, <1>20, <1>21, <1>22, <1>23, <1>24, <1>25, <1>26, <1>27, <1>28,
     <1>29, <1>30, <1>31, <1>32, <1>33 DEF Acts, Step
-----------------------------------------------------------------------------
(* The locks. *)

LEMMA MinReserved ==
  ASSUME NEW c \in Conns, Reserved(c) # {}
  PROVE  Min(Reserved(c)) \in Reserved(c) /\ Min(Reserved(c)) \in Files
<1>1. Reserved(c) \in SUBSET Nat
  BY JournalAssumption DEF Reserved
<1>2. Min(Reserved(c)) \in Reserved(c)
  BY <1>1, MinIs
<1> QED
  BY <1>2 DEF Reserved

(* How a lock may change.                                                  *)
Moved(c, d) ==
  \/ lock'[c][d] <= lock[c][d]
  \/ lock'[c][d] = SHARED /\ NoneAbove(c, d, PENDING)
  \/ lock'[c][d] = RESERVED /\ NoneAbove(c, d, RESERVED)
  \/ lock'[c][d] = PENDING /\ lock[c][d] >= RESERVED
  \/ lock'[c][d] = EXCLUSIVE /\ NoneAbove(c, d, SHARED)

LockTypes == lock \in [Conns -> [Files -> NONE .. EXCLUSIVE]]

(* A connection that reads or writes is not about to open a file.          *)
LEMMA ReservedInTxn ==
  ASSUME Base, NEW c \in Conns, NEW d \in Files, lock[c][d] >= RESERVED, ~Recovering(c) \/ cur[c] # d
  PROVE  InTxn(c, d)
BY DEF Base, LocksHeld, InTxn, TypeOK, NONE, RESERVED, EXCLUSIVE

LEMMA LockTyped ==
  ASSUME LockTypes, NEW c \in Conns, NEW d, NEW l \in NONE .. EXCLUSIVE,
         Locked(c, d, l)
  PROVE  LockTypes'
<1>1. PICK g : g = [lock[c] EXCEPT ![d] = l]
  OBVIOUS
<1>2. g \in [Files -> NONE .. EXCLUSIVE]
  BY <1>1 DEF LockTypes
<1>3. lock' = [lock EXCEPT ![c] = g]
  BY <1>1 DEF Locked
<1> QED
  BY <1>2, <1>3 DEF LockTypes

LEMMA LockMoves ==
  ASSUME Base, NEW c \in Conns, Acts(c)
  PROVE  LockTypes' /\ \A e \in Files : Moved(c, e)
<1> USE DEF Go, disk, local, ghosts, bounds, Moved, NONE, SHARED,
            RESERVED, PENDING, EXCLUSIVE
<1>1. LockTypes /\ lock \in [Conns -> [Files -> 0 .. 4]] /\ cur \in [Conns -> Files \cup {0}]
  BY DEF Base, TypeOK, LockTypes
<1>2. CASE HotExists(c)
  BY <1>1, <1>2 DEF HotExists, Locked, LockTypes
<1>3. CASE HotReserved(c)
  BY <1>1, <1>3 DEF HotReserved, Locked, LockTypes
<1>4. CASE HotEmpty(c)
  BY <1>1, <1>4 DEF HotEmpty, Locked, LockTypes
<1>5. CASE HotByte(c)
  BY <1>1, <1>5 DEF HotByte, Locked, LockTypes
<1>6. CASE HotLock(c)
  <2>1. (Locked(c, cur[c], EXCLUSIVE) /\ NoneAbove(c, cur[c], SHARED))
        \/ Locked(c, cur[c], NONE)
    BY <1>6 DEF HotLock
  <2>2. CASE Locked(c, cur[c], NONE)
    <3>1. \A e \in Files : lock'[c][e] = lock[c][e] \/ lock'[c][e] = 0
      BY <1>1, <2>2 DEF Locked
    <3>2. LockTypes'
      BY <1>1, <2>2, 0 \in 0 .. 4, LockTyped, Zenon
    <3> QED
      BY <1>1, <3>1, <3>2
  <2>3. CASE Locked(c, cur[c], EXCLUSIVE) /\ NoneAbove(c, cur[c], SHARED)
    <3>1. \A e \in Files : lock'[c][e] = lock[c][e] \/ (e = cur[c] /\ lock'[c][e] = 4)
      BY <1>1, <2>3 DEF Locked
    <3>2. LockTypes'
      BY <1>1, <2>3, 4 \in 0 .. 4, LockTyped, Zenon
    <3> QED
      BY <1>1, <2>3, <3>1, <3>2
  <2> QED
    BY <2>1, <2>2, <2>3
<1>7. CASE HotOpen(c)
  <2>1. cur[c] \in Files /\ lock[c][cur[c]] = EXCLUSIVE
    BY <1>1, <1>7 DEF HotOpen, Base, Control, LocksHeld, Recovering, Alone, At
  <2> QED
    BY <1>1, <1>7, <2>1 DEF HotOpen, Locked, LockTypes
<1>8. CASE PlayTruncate(c)
  BY <1>1, <1>8 DEF PlayTruncate, Locked, LockTypes
<1>9. CASE PlayPage(c)
  BY <1>1, <1>9 DEF PlayPage, Locked, LockTypes
<1>10. CASE PlaySync(c)
  BY <1>1, <1>10 DEF PlaySync, Locked, LockTypes
<1>11. CASE Fin(c)
  BY <1>1, <1>11 DEF Fin, Locked, LockTypes
<1>12. CASE FinSync(c)
  BY <1>1, <1>12 DEF FinSync, Locked, LockTypes
<1>13. CASE Unlock(c)
  <2>1. cur[c] \in Files /\ lock[c][cur[c]] >= SHARED
    <3>1. op[c] = "hot" => Recovering(c) /\ Alone(c)
      BY <1>13 DEF Unlock, At, Recovering, Alone
    <3>2. op[c] # "hot" => InTxn(c, cur[c])
      BY <1>13 DEF Unlock, At, Base, Control
    <3>3. cur[c] \in Files
      BY <3>1, <3>2 DEF Base, Control, InTxn, TypeOK
    <3>4. op[c] = "hot" => lock[c][cur[c]] = EXCLUSIVE
      BY <3>1, <3>3 DEF Base, LocksHeld
    <3> QED
      BY <1>1, <3>2, <3>3, <3>4 DEF InTxn
  <2>2. Locked(c, cur[c], SHARED)
    BY <1>13 DEF Unlock
  <2> QED
    BY <1>1, <2>1, <2>2 DEF Locked, LockTypes
<1>14. CASE DelSuper(c)
  BY <1>1, <1>14 DEF DelSuper, Locked, LockTypes
<1>15. CASE NextFile(c)
  BY <1>1, <1>15 DEF NextFile, Locked, LockTypes
<1>16. CASE Check(c)
  BY <1>1, <1>16 DEF Check, Locked, LockTypes
<1>17. CASE CommitLock(c)
  <2> DEFINE todo == {d \in Reserved(c) : lock[c][d] < EXCLUSIVE}
  <2>1. CASE UNCHANGED lock
    BY <1>1, <2>1 DEF LockTypes
  <2>2. CASE todo # {}
    <3>1. PICK d : d = Min(todo)
      OBVIOUS
    <3>2. d \in todo
      <4>1. todo \in SUBSET Nat
        BY JournalAssumption DEF Reserved
      <4> HIDE DEF todo
      <4> QED
        BY <2>2, <3>1, <4>1, MinIs
    <3>3. d \in Files /\ lock[c][d] >= RESERVED
      BY <3>2 DEF Reserved
    <3>4. (Locked(c, d, EXCLUSIVE) /\ NoneAbove(c, d, SHARED))
          \/ Locked(c, d, PENDING)
      BY <1>17, <2>2, <3>1 DEF CommitLock, Exclusive
    <3>5. CASE Locked(c, d, PENDING)
      <4>1. \A e \in Files : lock'[c][e] = lock[c][e] \/ (e = d /\ lock'[c][e] = 3)
        BY <1>1, <3>5 DEF Locked
      <4>2. LockTypes'
        BY <1>1, <3>5, 3 \in 0 .. 4, LockTyped, Zenon
      <4> QED
        BY <1>1, <3>3, <4>1, <4>2
    <3>6. CASE Locked(c, d, EXCLUSIVE) /\ NoneAbove(c, d, SHARED)
      <4>1. \A e \in Files : lock'[c][e] = lock[c][e] \/ (e = d /\ lock'[c][e] = 4)
        BY <1>1, <3>6 DEF Locked
      <4>2. LockTypes'
        BY <1>1, <3>6, 4 \in 0 .. 4, LockTyped, Zenon
      <4> QED
        BY <1>1, <3>6, <4>1, <4>2
    <3> QED
      BY <3>4, <3>5, <3>6
  <2> QED
    BY <1>17, <2>1, <2>2 DEF CommitLock
<1>18. CASE WriteSuper(c)
  BY <1>1, <1>18 DEF WriteSuper, Locked, LockTypes
<1>19. CASE Prepare(c)
  BY <1>1, <1>19 DEF Prepare, Locked, LockTypes
<1>20. CASE SyncRecords(c)
  <2>1. cur[c] \in Files /\ lock[c][cur[c]] >= RESERVED
    BY <1>1, <1>20 DEF SyncRecords, Base, Control, InTxn, At, TypeOK
  <2>2. (Locked(c, cur[c], EXCLUSIVE) /\ NoneAbove(c, cur[c], SHARED))
        \/ Locked(c, cur[c], PENDING)
    BY <1>20 DEF SyncRecords, Exclusive
  <2> QED
    BY <1>1, <2>1, <2>2 DEF Locked, LockTypes
<1>21. CASE Count(c)
  BY <1>1, <1>21 DEF Count, Locked, LockTypes
<1>22. CASE SyncCount(c)
  BY <1>1, <1>22 DEF SyncCount, Locked, LockTypes
<1>23. CASE WritePage(c)
  BY <1>1, <1>23 DEF WritePage, Locked, LockTypes
<1>24. CASE SyncDb(c)
  BY <1>1, <1>24 DEF SyncDb, Locked, LockTypes
<1>25. CASE DeleteSuper(c)
  BY <1>1, <1>25 DEF DeleteSuper, Locked, LockTypes
<1>26. CASE End(c)
  BY <1>1, <1>26 DEF End, Locked, LockTypes
<1>27. CASE Commit(c)
  BY <1>1, <1>27 DEF Commit, Locked, LockTypes
<1>28. CASE Rollback(c)
  BY <1>1, <1>28 DEF Rollback, Locked, LockTypes
<1>29. CASE Crash(c)
  <2>1. lock' = [o \in Conns |-> IF o = c THEN [d \in Files |-> NONE] ELSE lock[o]]
    BY <1>29 DEF Crash, Gone
  <2>2. \A e \in Files : lock'[c][e] = 0 /\ lock[c][e] \in 0 .. 4
    BY <1>1, <2>1 DEF LockTypes
  <2>3. LockTypes'
    BY <1>1, <2>1 DEF LockTypes
  <2> QED
    BY <2>2, <2>3
<1>30. ASSUME NEW d \in Files, Open(c, d) PROVE LockTypes' /\ \A e \in Files : Moved(c, e)
  BY <1>1, <1>30 DEF Open, Locked, LockTypes
<1>31. ASSUME NEW d \in Files, Reserve(c, d) PROVE LockTypes' /\ \A e \in Files : Moved(c, e)
  BY <1>1, <1>31 DEF Reserve, Locked, LockTypes
<1>32. ASSUME NEW d \in Files, NEW p \in Pages, Write(c, d, p) PROVE LockTypes' /\ \A e \in Files : Moved(c, e)
  BY <1>1, <1>32 DEF Write, Locked, LockTypes
<1>33. ASSUME NEW d \in Files, NEW p \in Pages, Spill(c, d, p) PROVE LockTypes' /\ \A e \in Files : Moved(c, e)
  BY <1>1, <1>33 DEF Spill, Locked, LockTypes
<1> QED
  BY <1>2, <1>3, <1>4, <1>5, <1>6, <1>7, <1>8, <1>9, <1>10, <1>11, <1>12, <1>13, <1>14, <1>15,
     <1>16, <1>17, <1>18, <1>19, <1>20, <1>21, <1>22, <1>23, <1>24, <1>25, <1>26, <1>27, <1>28,
     <1>29, <1>30, <1>31, <1>32, <1>33 DEF Acts, Step
LEMMA ExcludedKept ==
  ASSUME Base, NEW c \in Conns, Acts(c)
  PROVE  Excluded'
<1> USE DEF NONE, SHARED, RESERVED, PENDING, EXCLUSIVE
<1>1. lock \in [Conns -> [Files -> 0 .. 4]] /\ lock' \in [Conns -> [Files -> 0 .. 4]]
  BY LockMoves DEF Base, TypeOK, LockTypes
<1>2. ASSUME NEW o \in Conns, o # c, NEW d \in Files
      PROVE  /\ lock'[c][d] >= RESERVED => lock'[o][d] <= SHARED
             /\ lock'[o][d] >= RESERVED => lock'[c][d] <= SHARED
             /\ lock'[c][d] = EXCLUSIVE => lock'[o][d] = NONE
             /\ lock'[o][d] = EXCLUSIVE => lock'[c][d] = NONE
  <2>1. lock'[o][d] = lock[o][d]
    BY <1>2, Others DEF Base, Alike
  <2>2. Moved(c, d)
    BY LockMoves
  <2>3. NoneAbove(c, d, 3) => lock[o][d] < 3
    BY <1>2 DEF NoneAbove
  <2>4. NoneAbove(c, d, 2) => lock[o][d] < 2
    BY <1>2 DEF NoneAbove
  <2>5. NoneAbove(c, d, 1) => lock[o][d] < 1
    BY <1>2 DEF NoneAbove
  <2>6. /\ lock[c][d] >= RESERVED => lock[o][d] <= SHARED
        /\ lock[o][d] >= RESERVED => lock[c][d] <= SHARED
        /\ lock[c][d] = EXCLUSIVE => lock[o][d] = NONE
        /\ lock[o][d] = EXCLUSIVE => lock[c][d] = NONE
    BY <1>2 DEF Base, Excluded
  <2>7. lock[c][d] \in 0 .. 4 /\ lock[o][d] \in 0 .. 4 /\ lock'[c][d] \in 0 .. 4
    BY <1>1
  <2> QED
    BY <2>1, <2>2, <2>3, <2>4, <2>5, <2>6, <2>7 DEF Moved
<1>3. ASSUME NEW x \in Conns, NEW y \in Conns, x # y, x # c, y # c, NEW d \in Files
      PROVE  /\ lock'[x][d] >= RESERVED => lock'[y][d] <= SHARED
             /\ lock'[x][d] = EXCLUSIVE => lock'[y][d] = NONE
  <2>1. lock'[x][d] = lock[x][d] /\ lock'[y][d] = lock[y][d]
    BY <1>3, Others DEF Base, Alike
  <2> QED
    BY <1>3, <2>1 DEF Base, Excluded
<1> QED
  BY <1>2, <1>3 DEF Excluded
-----------------------------------------------------------------------------
(* Where a connection is. *)

LEMMA ControlOthers ==
  ASSUME NEW o, Alike(o), setting' = setting
  PROVE  (LocksHeld(o) => LocksHeld(o)') /\ (Control(o) => Control(o)')
BY DEF Alike, LocksHeld, Control, Recovering, Alone, InTxn

(* What it knows of itself. *)
ControlTypes(c) ==
  /\ lock[c] \in [Files -> NONE .. EXCLUSIVE] /\ pc[c] \in Places
  /\ op[c] \in {"read", "hot", "write", "commit", "rollback"}
  /\ cur[c] \in Files \cup {0} /\ reads[c] \in SUBSET Files /\ 0 \notin Files

LEMMA ControlTyped == ASSUME Base, NEW c \in Conns PROVE ControlTypes(c) /\ Shapes
<1>1. 0 \notin Files
  BY JournalAssumption
<1>2. Shapes
  BY ShapesOK DEF Base
<1> QED
  BY <1>1, <1>2 DEF Base, TypeOK, ControlTypes

LEMMA ControlActs ==
  ASSUME Base, NEW c \in Conns, Stage(c), Acts(c), setting' = setting
  PROVE  LocksHeld(c)' /\ Control(c)'
<1> USE DEF Go, Locked, disk, local, ghosts, bounds, NONE, SHARED, RESERVED, PENDING, EXCLUSIVE,
            LocksHeld, Control, Recovering, Alone, InTxn, At
<1>1. ControlTypes(c) /\ LocksHeld(c) /\ Control(c) /\ Shapes
  BY ControlTyped DEF Base
<1>2. CASE HotExists(c)
  BY <1>1, <1>2 DEF HotExists, ControlTypes, Shapes
<1>3. CASE HotReserved(c)
  BY <1>1, <1>3 DEF HotReserved, ControlTypes, Shapes
<1>4. CASE HotEmpty(c)
  BY <1>1, <1>4 DEF HotEmpty, ControlTypes, Shapes
<1>5. CASE HotByte(c)
  BY <1>1, <1>5 DEF HotByte, ControlTypes, Shapes
<1>6. CASE HotLock(c)
  BY <1>1, <1>6 DEF HotLock, ControlTypes, Shapes
<1>7. CASE HotOpen(c)
  BY <1>1, <1>7 DEF HotOpen, ControlTypes, Shapes
<1>8. CASE PlayTruncate(c)
  BY <1>1, <1>8 DEF PlayTruncate, ControlTypes, Shapes
<1>9. CASE PlayPage(c)
  BY <1>1, <1>9 DEF PlayPage, ControlTypes, Shapes
<1>10. CASE PlaySync(c)
  BY <1>1, <1>10 DEF PlaySync, ControlTypes, Shapes
<1>11. CASE Fin(c)
  BY <1>1, <1>11 DEF Fin, ControlTypes, Shapes
<1>12. CASE FinSync(c)
  BY <1>1, <1>12 DEF FinSync, ControlTypes, Shapes
<1>13. CASE Unlock(c)
  <2>1. op[c] = "hot" \/ InTxn(c, cur[c])
    BY <1>1, <1>13 DEF Unlock
  <2>2. cur[c] \in Files
    BY <1>1, <1>13, <2>1 DEF Unlock, ControlTypes
  <2>3. CASE op[c] = "hot"
    BY <1>1, <1>13, <2>2, <2>3 DEF Unlock, ControlTypes, Shapes
  <2>4. CASE op[c] # "hot"
    <3>1. Last(c) \/ \E e \in Files : e # cur[c] /\ InTxn(c, e)
      <4> SUFFICES ASSUME ~Last(c) PROVE \E e \in Files : e # cur[c] /\ InTxn(c, e)
        OBVIOUS
      <4>1. cur[c] \in Reserved(c)
        BY <2>1, <2>2, <2>4 DEF Reserved
      <4>2. PICK e \in Reserved(c) : e # cur[c]
        BY <4>1 DEF Last
      <4>3. e \in Files /\ lock[c][e] >= RESERVED
        BY <4>2 DEF Reserved
      <4> QED
        BY <4>2, <4>3, ReservedInTxn
    <3>2. CASE Last(c)
      BY <1>1, <1>13, <2>1, <2>2, <2>4, <3>2 DEF Unlock, ControlTypes, Shapes
    <3>3. CASE ~Last(c)
      BY <1>1, <1>13, <2>1, <2>2, <2>4, <3>1, <3>3 DEF Unlock, ControlTypes, Shapes
    <3> QED
      BY <3>2, <3>3
  <2> QED
    BY <2>3, <2>4
<1>14. CASE DelSuper(c)
  <2>1. Reserved(c) # {} /\ ~Recovering(c) => \E e \in Files : InTxn(c, e)
    BY ReservedInTxn DEF Reserved
  <2>2. Reserved(c) # {} /\ ~Recovering(c) => Min(Reserved(c)) \in Files /\ InTxn(c, Min(Reserved(c)))
    BY MinReserved, ReservedInTxn DEF Reserved
  <2>3. (\E e \in Files : InTxn(c, e)) => Reserved(c) # {}
    BY DEF Reserved
  <2> QED
    BY <1>1, <1>14, <2>1, <2>2, <2>3 DEF DelSuper, ControlTypes, Shapes
<1>15. CASE NextFile(c)
  <2>1. (\E e \in Files : InTxn(c, e)) /\ Reserved(c) # {} /\ ~Recovering(c)
        /\ op[c] \in {"commit", "rollback"}
    BY <1>1, <1>15 DEF NextFile, Reserved
  <2>2. PICK e \in Files : e = Min(Reserved(c)) /\ InTxn(c, e)
    BY <2>1, MinReserved, ReservedInTxn DEF Reserved
  <2>3. /\ cur' = [cur EXCEPT ![c] = e]
        /\ \/ Go(c, "fin") /\ op[c] = "commit"
           \/ Go(c, "unlock") /\ op[c] = "rollback"
           \/ Go(c, "play") /\ op[c] = "rollback"
        /\ UNCHANGED << lock, op, reads, sup >> /\ sup[c] = 0
    BY <1>1, <1>15, <2>1, <2>2 DEF NextFile, Committing
  <2> QED
    BY <1>1, <2>1, <2>2, <2>3 DEF ControlTypes, Shapes
<1>16. CASE Check(c)
  BY <1>1, <1>16 DEF Check, ControlTypes, Shapes
<1>17. CASE CommitLock(c)
  <2>1. (\E e \in Files : InTxn(c, e)) /\ Reserved(c) # {} /\ ~Recovering(c) /\ op[c] = "commit"
    BY <1>1, <1>17 DEF CommitLock, Reserved
  <2>2. Min(Reserved(c)) \in Files /\ InTxn(c, Min(Reserved(c)))
    BY <2>1, MinReserved, ReservedInTxn DEF Reserved
  <2> DEFINE todo == {d \in Reserved(c) : lock[c][d] < EXCLUSIVE}
  <2>3. CASE todo = {}
    BY <1>1, <1>17, <2>1, <2>2, <2>3 DEF CommitLock, ControlTypes, Shapes
  <2>4. CASE todo # {}
    <3>1. PICK d : d = Min(todo)
      OBVIOUS
    <3>2. d \in todo
      <4>1. todo \in SUBSET Nat
        BY JournalAssumption DEF Reserved
      <4> HIDE DEF todo
      <4> QED
        BY <2>4, <3>1, <4>1, MinIs
    <3>3. d \in Files /\ lock[c][d] >= RESERVED /\ InTxn(c, d)
      <4>1. d \in Files /\ lock[c][d] >= RESERVED
        BY <3>2 DEF Reserved
      <4> QED
        BY <2>1, <4>1, ReservedInTxn
    <3> HIDE DEF todo
    <3>4. CASE Locked(c, d, EXCLUSIVE) /\ UNCHANGED << pc, cur >>
      BY <1>1, <1>17, <2>1, <3>3, <3>4 DEF CommitLock, ControlTypes, Shapes
    <3>5. CASE Locked(c, d, PENDING) /\ Go(c, "run") /\ UNCHANGED cur
      BY <1>1, <1>17, <2>1, <3>3, <3>5 DEF CommitLock, ControlTypes, Shapes
    <3> QED
      BY <1>17, <2>4, <3>1, <3>4, <3>5 DEF CommitLock, todo
  <2> QED
    BY <2>3, <2>4
<1>18. CASE WriteSuper(c)
  BY <1>1, <1>18 DEF WriteSuper, ControlTypes, Shapes
<1>19. CASE Prepare(c)
  BY <1>1, <1>19 DEF Prepare, ControlTypes, Shapes
<1>20. CASE SyncRecords(c)
  BY <1>1, <1>20 DEF SyncRecords, ControlTypes, Shapes
<1>21. CASE Count(c)
  BY <1>1, <1>21 DEF Count, ControlTypes, Shapes
<1>22. CASE SyncCount(c)
  BY <1>1, <1>22 DEF SyncCount, ControlTypes, Shapes
<1>23. CASE WritePage(c)
  BY <1>1, <1>23 DEF WritePage, ControlTypes, Shapes
<1>24. CASE SyncDb(c)
  <2>1. InTxn(c, cur[c]) /\ ~Recovering(c) /\ cur[c] \in Files /\ op[c] = "commit"
    BY <1>1, <1>24 DEF SyncDb, ControlTypes, Stage, Writing
  <2>2. Reserved(c) # {}
    BY <2>1 DEF Reserved
  <2>3. Min(Reserved(c)) \in Files /\ InTxn(c, Min(Reserved(c)))
    BY <2>1, <2>2, MinReserved, ReservedInTxn DEF Reserved
  <2> DEFINE todo == {e \in Reserved(c) : e # cur[c] /\ ~jw[c][e].done}
  <2>4. CASE todo = {}
    BY <1>1, <1>24, <2>1, <2>3, <2>4 DEF SyncDb, ControlTypes, Shapes
  <2>5. CASE todo # {}
    <3>1. PICK d : d = Min(todo)
      OBVIOUS
    <3>2. d \in todo
      <4>1. todo \in SUBSET Nat
        BY JournalAssumption DEF Reserved
      <4> HIDE DEF todo
      <4> QED
        BY <2>5, <3>1, <4>1, MinIs
    <3>3. d \in Files /\ InTxn(c, d)
      <4>1. d \in Files /\ lock[c][d] >= RESERVED
        BY <3>2 DEF Reserved
      <4> QED
        BY <2>1, <4>1, ReservedInTxn
    <3>4. cur' = [cur EXCEPT ![c] = d] /\ Go(c, "prepare") /\ UNCHANGED << lock, op, reads, sup >>
      BY <1>24, <2>5, <3>1 DEF SyncDb
    <3> QED
      BY <1>1, <2>1, <3>3, <3>4 DEF ControlTypes, Shapes
  <2> QED
    BY <2>4, <2>5
<1>25. CASE DeleteSuper(c)
  BY <1>1, <1>25 DEF DeleteSuper, ControlTypes, Shapes
<1>26. CASE End(c)
  BY <1>1, <1>26 DEF End, ControlTypes, Shapes
<1>27. CASE Commit(c)
  <2>1. Reserved(c) # {} /\ ~Recovering(c) => \E e \in Files : InTxn(c, e)
    BY ReservedInTxn DEF Reserved
  <2>2. Reserved(c) # {} /\ ~Recovering(c) => Min(Reserved(c)) \in Files /\ InTxn(c, Min(Reserved(c)))
    BY MinReserved, ReservedInTxn DEF Reserved
  <2>3. (\E e \in Files : InTxn(c, e)) => Reserved(c) # {}
    BY DEF Reserved
  <2> QED
    BY <1>1, <1>27, <2>1, <2>2, <2>3 DEF Commit, ControlTypes, Shapes
<1>28. CASE Rollback(c)
  <2>1. Reserved(c) # {} /\ ~Recovering(c) => \E e \in Files : InTxn(c, e)
    BY ReservedInTxn DEF Reserved
  <2>2. Reserved(c) # {} /\ ~Recovering(c) => Min(Reserved(c)) \in Files /\ InTxn(c, Min(Reserved(c)))
    BY MinReserved, ReservedInTxn DEF Reserved
  <2>3. (\E e \in Files : InTxn(c, e)) => Reserved(c) # {}
    BY DEF Reserved
  <2> QED
    BY <1>1, <1>28, <2>1, <2>2, <2>3 DEF Rollback, ControlTypes, Shapes
<1>29. CASE Crash(c)
  BY <1>1, <1>29 DEF Crash, Gone, ControlTypes, Shapes
<1>30. ASSUME NEW d \in Files, Open(c, d) PROVE LocksHeld(c)' /\ Control(c)'
  BY <1>1, <1>30 DEF Open, ControlTypes, Shapes
<1>31. ASSUME NEW d \in Files, Reserve(c, d) PROVE LocksHeld(c)' /\ Control(c)'
  BY <1>1, <1>31 DEF Reserve, ControlTypes, Shapes
<1>32. ASSUME NEW d \in Files, NEW p \in Pages, Write(c, d, p) PROVE LocksHeld(c)' /\ Control(c)'
  BY <1>1, <1>32 DEF Write, ControlTypes, Shapes
<1>33. ASSUME NEW d \in Files, NEW p \in Pages, Spill(c, d, p) PROVE LocksHeld(c)' /\ Control(c)'
  <2>1. InTxn(c, d)
    BY <1>33 DEF Spill, Base, Unused, NothingDone, NoJw
  <2> QED
    BY <1>1, <1>33, <2>1 DEF Spill, ControlTypes, Shapes
<1> QED
  BY <1>2, <1>3, <1>4, <1>5, <1>6, <1>7, <1>8, <1>9, <1>10, <1>11, <1>12, <1>13, <1>14, <1>15,
     <1>16, <1>17, <1>18, <1>19, <1>20, <1>21, <1>22, <1>23, <1>24, <1>25, <1>26, <1>27, <1>28,
     <1>29, <1>30, <1>31, <1>32, <1>33 DEF Acts, Step
-----------------------------------------------------------------------------
(* Its transaction. *)

TxnMoves(c) ==
  /\ txn'[c] # 0 <=> \E d \in Files : InTxn(c, d)'
  /\ txns' = txns \/ (txns' = txns + 1 /\ txns < MaxTxn)
  /\ txn'[c] = txn[c] \/ txn'[c] = 0 \/ (txn'[c] = txns + 1 /\ txns' = txns + 1)
  /\ txn' = [txn EXCEPT ![c] = txn'[c]]

TxnTypes(c) ==
  /\ txn \in [Conns -> 0 .. MaxTxn] /\ txns \in 0 .. MaxTxn /\ MaxTxn \in Nat
  /\ txn[c] # 0 <=> \E d \in Files : InTxn(c, d)
  /\ txn[c] <= txns

LEMMA TxnTyped == ASSUME Base, NEW c \in Conns PROVE TxnTypes(c)
<1>1. MaxTxn \in Nat
  BY JournalAssumption DEF Base, TypeOK, MaxTxn, Setting
<1> QED
  BY <1>1 DEF Base, TypeOK, TxnKept, TxnTypes

LEMMA TxnActs ==
  ASSUME Base, NEW c \in Conns, Stage(c), Acts(c), setting' = setting
  PROVE  TxnMoves(c) /\ Unused(c)'
<1> USE DEF Go, Locked, disk, local, ghosts, bounds, NONE, SHARED, RESERVED, PENDING, EXCLUSIVE,
            InTxn, At, TxnMoves, Unused, NothingDone
<1>1. ControlTypes(c) /\ LocksHeld(c) /\ Control(c) /\ Shapes /\ TxnTypes(c) /\ Unused(c)
      /\ DOMAIN jw[c] = Files /\ DOMAIN mine[c] = Files
  BY ControlTyped, TxnTyped DEF Base, TypeOK
<1>2. CASE HotExists(c)
  BY <1>1, <1>2 DEF HotExists, ControlTypes, Shapes, TxnTypes, LocksHeld, Control, Recovering, Alone
<1>3. CASE HotReserved(c)
  BY <1>1, <1>3 DEF HotReserved, ControlTypes, Shapes, TxnTypes, LocksHeld, Control, Recovering, Alone
<1>4. CASE HotEmpty(c)
  BY <1>1, <1>4 DEF HotEmpty, ControlTypes, Shapes, TxnTypes, LocksHeld, Control, Recovering, Alone
<1>5. CASE HotByte(c)
  BY <1>1, <1>5 DEF HotByte, ControlTypes, Shapes, TxnTypes, LocksHeld, Control, Recovering, Alone
<1>6. CASE HotLock(c)
  BY <1>1, <1>6 DEF HotLock, ControlTypes, Shapes, TxnTypes, LocksHeld, Control, Recovering, Alone
<1>7. CASE HotOpen(c)
  BY <1>1, <1>7 DEF HotOpen, ControlTypes, Shapes, TxnTypes, LocksHeld, Control, Recovering, Alone
<1>8. CASE PlayTruncate(c)
  BY <1>1, <1>8 DEF PlayTruncate, ControlTypes, Shapes, TxnTypes, LocksHeld, Control, Recovering, Alone
<1>9. CASE PlayPage(c)
  BY <1>1, <1>9 DEF PlayPage, ControlTypes, Shapes, TxnTypes, LocksHeld, Control, Recovering, Alone
<1>10. CASE PlaySync(c)
  BY <1>1, <1>10 DEF PlaySync, ControlTypes, Shapes, TxnTypes, LocksHeld, Control, Recovering, Alone
<1>11. CASE Fin(c)
  BY <1>1, <1>11 DEF Fin, ControlTypes, Shapes, TxnTypes, LocksHeld, Control, Recovering, Alone
<1>12. CASE FinSync(c)
  BY <1>1, <1>12 DEF FinSync, ControlTypes, Shapes, TxnTypes, LocksHeld, Control, Recovering, Alone
<1>13. CASE Unlock(c)
  <2>1. (op[c] = "hot" \/ InTxn(c, cur[c])) /\ cur[c] \in Files
    BY <1>1, <1>13 DEF Unlock, ControlTypes, Control, Recovering
  <2>2. lock' = [lock EXCEPT ![c][cur[c]] = 1] /\ reads' = reads /\ txns' = txns /\ cur' = cur
    BY <1>13 DEF Unlock
  <2>3. \A e \in Files : e # cur[c] => (InTxn(c, e)' <=> InTxn(c, e))
    BY <1>1, <2>1, <2>2 DEF ControlTypes, Shapes
  <2>4. \A e \in Files : e = cur[c] => ~InTxn(c, e)'
    BY <1>1, <2>1, <2>2 DEF ControlTypes, Shapes
  <2>5. CASE op[c] = "hot"
    <3>1. ~InTxn(c, cur[c]) /\ UNCHANGED << jw, mine, txn >>
      BY <1>1, <1>13, <2>1, <2>5 DEF Unlock, LocksHeld, Recovering
    <3>2. \A e \in Files : InTxn(c, e)' <=> InTxn(c, e)
      BY <2>3, <2>4, <3>1
    <3> QED
      BY <1>1, <2>2, <3>1, <3>2 DEF TxnTypes, Shapes
  <2>6. CASE op[c] # "hot"
    <3>1. /\ jw' = [jw EXCEPT ![c][cur[c]] = NoJw] /\ mine' = [mine EXCEPT ![c][cur[c]] = None]
          /\ txn' = IF Last(c) THEN [txn EXCEPT ![c] = 0] ELSE txn
      BY <1>13, <2>6 DEF Unlock
    <3>2. Unused(c)'
      BY <1>1, <2>1, <2>3, <3>1 DEF Shapes
    <3>3. CASE Last(c)
      <4>1. \A e \in Files : ~InTxn(c, e)'
        BY <1>1, <2>3, <2>4, <3>3 DEF ControlTypes, Last, Reserved
      <4> QED
        BY <1>1, <2>2, <3>1, <3>2, <3>3, <4>1 DEF TxnTypes, Shapes
    <3>4. CASE ~Last(c)
      <4>1. cur[c] \in Reserved(c) /\ (~Recovering(c) \/ cur[c] \notin reads[c])
        BY <1>1, <1>13, <2>1, <2>6 DEF Reserved, LocksHeld
      <4>2. PICK e \in Reserved(c) : e # cur[c]
        BY <3>4, <4>1 DEF Last
      <4>3. e \in Files /\ lock[c][e] >= RESERVED
        BY <4>2 DEF Reserved
      <4>4. InTxn(c, e)
        BY <4>2, <4>3, ReservedInTxn
      <4>5. \E x \in Files : InTxn(c, x)'
        BY <2>3, <4>2, <4>3, <4>4
      <4>6. txn' = txn /\ txn[c] # 0
        BY <1>1, <3>1, <3>4, <4>3, <4>4 DEF TxnTypes
      <4> QED
        BY <1>1, <2>2, <3>2, <4>5, <4>6 DEF Shapes
    <3> QED
      BY <3>3, <3>4
  <2> QED
    BY <2>5, <2>6
<1>14. CASE DelSuper(c)
  BY <1>1, <1>14 DEF DelSuper, ControlTypes, Shapes, TxnTypes, LocksHeld, Control, Recovering, Alone
<1>15. CASE NextFile(c)
  BY <1>1, <1>15 DEF NextFile, ControlTypes, Shapes, TxnTypes, LocksHeld, Control, Recovering, Alone
<1>16. CASE Check(c)
  BY <1>1, <1>16 DEF Check, ControlTypes, Shapes, TxnTypes, LocksHeld, Control, Recovering, Alone
<1>17. CASE CommitLock(c)
  BY <1>1, <1>17 DEF CommitLock, ControlTypes, Shapes, TxnTypes, LocksHeld, Control, Recovering, Alone
<1>18. CASE WriteSuper(c)
  BY <1>1, <1>18 DEF WriteSuper, ControlTypes, Shapes, TxnTypes, LocksHeld, Control, Recovering, Alone
<1>19. CASE Prepare(c)
  BY <1>1, <1>19 DEF Prepare, ControlTypes, Shapes, TxnTypes, LocksHeld, Control, Recovering, Alone
<1>20. CASE SyncRecords(c)
  BY <1>1, <1>20 DEF SyncRecords, ControlTypes, Shapes, TxnTypes, LocksHeld, Control, Recovering, Alone
<1>21. CASE Count(c)
  BY <1>1, <1>21 DEF Count, ControlTypes, Shapes, TxnTypes, LocksHeld, Control, Recovering, Alone
<1>22. CASE SyncCount(c)
  BY <1>1, <1>22 DEF SyncCount, ControlTypes, Shapes, TxnTypes, LocksHeld, Control, Recovering, Alone
<1>23. CASE WritePage(c)
  BY <1>1, <1>23 DEF WritePage, ControlTypes, Shapes, TxnTypes, LocksHeld, Control, Recovering, Alone
<1>24. CASE SyncDb(c)
  BY <1>1, <1>24 DEF SyncDb, ControlTypes, Shapes, TxnTypes, LocksHeld, Control, Recovering, Alone
<1>25. CASE DeleteSuper(c)
  BY <1>1, <1>25 DEF DeleteSuper, ControlTypes, Shapes, TxnTypes, LocksHeld, Control, Recovering, Alone
<1>26. CASE End(c)
  <2>1. \A e \in Files : ~InTxn(c, e)
    BY <1>26 DEF End, Reserved
  <2>2. \A e \in Files : ~InTxn(c, e)'
    BY <1>1, <1>26 DEF End, Shapes
  <2> QED
    BY <1>1, <1>26, <2>1, <2>2 DEF End, TxnTypes, Shapes
<1>27. CASE Commit(c)
  BY <1>1, <1>27 DEF Commit, ControlTypes, Shapes, TxnTypes, LocksHeld, Control, Recovering, Alone
<1>28. CASE Rollback(c)
  BY <1>1, <1>28 DEF Rollback, ControlTypes, Shapes, TxnTypes, LocksHeld, Control, Recovering, Alone
<1>29. CASE Crash(c)
  BY <1>1, <1>29 DEF Crash, Gone, ControlTypes, Shapes, TxnTypes, LocksHeld, Control, Recovering, Alone
<1>30. ASSUME NEW d \in Files, Open(c, d) PROVE TxnMoves(c) /\ Unused(c)'
  BY <1>1, <1>30 DEF Open, ControlTypes, Shapes, TxnTypes, LocksHeld, Control, Recovering, Alone
<1>31. ASSUME NEW d \in Files, Reserve(c, d) PROVE TxnMoves(c) /\ Unused(c)'
  BY <1>1, <1>31 DEF Reserve, ControlTypes, Shapes, TxnTypes, LocksHeld, Control, Recovering, Alone
<1>32. ASSUME NEW d \in Files, NEW p \in Pages, Write(c, d, p) PROVE TxnMoves(c) /\ Unused(c)'
  BY <1>1, <1>32 DEF Write, ControlTypes, Shapes, TxnTypes, LocksHeld, Control, Recovering, Alone
<1>33. ASSUME NEW d \in Files, NEW p \in Pages, Spill(c, d, p) PROVE TxnMoves(c) /\ Unused(c)'
  BY <1>1, <1>33 DEF Spill, ControlTypes, Shapes, TxnTypes, LocksHeld, Control, Recovering, Alone
<1> QED
  BY <1>2, <1>3, <1>4, <1>5, <1>6, <1>7, <1>8, <1>9, <1>10, <1>11, <1>12, <1>13, <1>14, <1>15,
     <1>16, <1>17, <1>18, <1>19, <1>20, <1>21, <1>22, <1>23, <1>24, <1>25, <1>26, <1>27, <1>28,
     <1>29, <1>30, <1>31, <1>32, <1>33 DEF Acts, Step
LEMMA TxnStep ==
  ASSUME Base, NEW c \in Conns, Stage(c), Acts(c), setting' = setting
  PROVE  \A o \in Conns : TxnKept(o)'
<1>1. TxnMoves(c) /\ TxnTypes(c)
  BY TxnActs, TxnTyped
<1>2. \A o \in Conns : o # c => txn'[o] = txn[o] /\ \A d \in Files : InTxn(o, d)' <=> InTxn(o, d)
  BY Others DEF Base, Alike, InTxn
<1>3. \A o \in Conns : txn[o] \in Nat /\ txn[o] <= txns /\ (txn[o] # 0 <=> \E d \in Files : InTxn(o, d))
                      /\ \A x \in Conns : txn[o] # 0 /\ txn[x] = txn[o] => x = o
  BY <1>1 DEF Base, TxnKept, TxnTypes
<1>4. txns \in Nat /\ txns' \in Nat /\ txns <= txns'
  BY <1>1 DEF TxnMoves, TxnTypes
<1>5. \A o \in Conns : txn'[o] # 0 <=> \E d \in Files : InTxn(o, d)'
  BY <1>1, <1>2, <1>3 DEF TxnMoves
<1>6. txn'[c] = txn[c] \/ txn'[c] = 0 \/ (txn'[c] = txns + 1 /\ txns' = txns + 1)
  BY <1>1 DEF TxnMoves
<1>7. \A o \in Conns : txn'[o] <= txns'
  <2> SUFFICES ASSUME NEW o \in Conns PROVE txn'[o] <= txns'
    OBVIOUS
  <2>1. txn'[o] = txn[o] \/ txn'[o] = 0 \/ (txn'[o] = txns + 1 /\ txns' = txns + 1)
    BY <1>2, <1>6
  <2> QED
    BY <1>3, <1>4, <2>1
<1>8. \A o, x \in Conns : txn'[o] # 0 /\ txn'[x] = txn'[o] => x = o
  <2> SUFFICES ASSUME NEW o \in Conns, NEW x \in Conns, o # x, txn'[o] # 0, txn'[x] = txn'[o]
               PROVE  FALSE
    OBVIOUS
  <2>1. CASE o # c /\ x # c
    BY <1>2, <1>3, <2>1
  <2>2. CASE o = c
    BY <1>2, <1>3, <1>4, <1>6, <2>2
  <2>3. CASE x = c
    BY <1>2, <1>3, <1>4, <1>6, <2>3
  <2> QED
    BY <2>1, <2>2, <2>3
<1> QED
  BY <1>5, <1>7, <1>8 DEF TxnKept

(* What holds of the locks and of where the connections are, kept.         *)
Controls ==
  Excluded /\ \A c \in Conns : LocksHeld(c) /\ Control(c) /\ TxnKept(c) /\ Unused(c)

LEMMA ControlsKept ==
  ASSUME Base, NEW c \in Conns, Stage(c), Acts(c), setting' = setting
  PROVE  Controls'
<1>1. Excluded' /\ \A o \in Conns : TxnKept(o)'
  BY ExcludedKept, TxnStep
<1>2. LocksHeld(c)' /\ Control(c)' /\ Unused(c)'
  BY ControlActs, TxnActs
<1>3. ASSUME NEW o \in Conns, o # c PROVE LocksHeld(o)' /\ Control(o)' /\ Unused(o)'
  <2>1. Alike(o)
    BY <1>3, Others DEF Base
  <2>2. LocksHeld(o)' /\ Control(o)'
    BY <2>1, ControlOthers DEF Base
  <2>3. Unused(o)'
    BY <2>1 DEF Base, Alike, Unused, NothingDone, InTxn
  <2> QED
    BY <2>2, <2>3
<1> QED
  BY <1>1, <1>2, <1>3 DEF Controls
-----------------------------------------------------------------------------
(* Types. *)

PlaceTypes ==
  /\ pc \in [Conns -> Places]
  /\ op \in [Conns -> {"read", "hot", "write", "commit", "rollback"}]
  /\ cur \in [Conns -> Files \cup {0}] /\ reads \in [Conns -> SUBSET Files]

LEMMA TodoIs ==
  ASSUME NEW S \in SUBSET Files, S # {}
  PROVE  Min(S) \in S /\ Min(S) \in Files
<1>1. S \in SUBSET Nat
  BY JournalAssumption
<1> QED
  BY <1>1, MinIs

LEMMA PlacesTyped ==
  ASSUME TypeOK, NEW c \in Conns, Acts(c), Control(c)
  PROVE  PlaceTypes'
<1> USE DEF Go, Locked, disk, local, ghosts, bounds, PlaceTypes, Places
<1>1. PlaceTypes
  BY DEF TypeOK
<1>2. CASE HotExists(c)
  BY <1>1, <1>2 DEF HotExists
<1>3. CASE HotReserved(c)
  BY <1>1, <1>3 DEF HotReserved
<1>4. CASE HotEmpty(c)
  BY <1>1, <1>4 DEF HotEmpty
<1>5. CASE HotByte(c)
  BY <1>1, <1>5 DEF HotByte
<1>6. CASE HotLock(c)
  BY <1>1, <1>6 DEF HotLock
<1>7. CASE HotOpen(c)
  BY <1>1, <1>7 DEF HotOpen
<1>8. CASE PlayTruncate(c)
  BY <1>1, <1>8 DEF PlayTruncate
<1>9. CASE PlayPage(c)
  BY <1>1, <1>9 DEF PlayPage
<1>10. CASE PlaySync(c)
  BY <1>1, <1>10 DEF PlaySync
<1>11. CASE Fin(c)
  BY <1>1, <1>11 DEF Fin
<1>12. CASE FinSync(c)
  BY <1>1, <1>12 DEF FinSync
<1>13. CASE Unlock(c)
  BY <1>1, <1>13 DEF Unlock
<1>14. CASE DelSuper(c)
  BY <1>1, <1>14 DEF DelSuper
<1>15. CASE NextFile(c)
  <2>1. Reserved(c) # {}
    BY <1>15 DEF NextFile, Control, At, InTxn, Reserved
  <2>2. Min(Reserved(c)) \in Files
    BY <2>1, TodoIs DEF Reserved
  <2>3. cur' = [cur EXCEPT ![c] = Min(Reserved(c))] /\ UNCHANGED << op, reads >>
        /\ \E x \in {"fin", "unlock", "play"} : pc' = [pc EXCEPT ![c] = x]
    BY <1>15 DEF NextFile
  <2> QED
    BY <1>1, <2>2, <2>3
<1>16. CASE Check(c)
  BY <1>1, <1>16 DEF Check, Control, Recovering, At
<1>17. CASE CommitLock(c)
  <2>1. Reserved(c) # {}
    BY <1>17 DEF CommitLock, Control, At, InTxn, Reserved
  <2>2. Min(Reserved(c)) \in Files
    BY <2>1, TodoIs DEF Reserved
  <2>3. (cur' = cur \/ cur' = [cur EXCEPT ![c] = Min(Reserved(c))]) /\ UNCHANGED << op, reads >>
        /\ \E x \in {"super", "prepare", "run", pc[c]} : pc' = [pc EXCEPT ![c] = x]
    BY <1>1, <1>17 DEF CommitLock
  <2> QED
    BY <1>1, <2>2, <2>3
<1>18. CASE WriteSuper(c)
  BY <1>1, <1>18 DEF WriteSuper
<1>19. CASE Prepare(c)
  BY <1>1, <1>19 DEF Prepare
<1>20. CASE SyncRecords(c)
  BY <1>1, <1>20 DEF SyncRecords
<1>21. CASE Count(c)
  BY <1>1, <1>21 DEF Count
<1>22. CASE SyncCount(c)
  BY <1>1, <1>22 DEF SyncCount
<1>23. CASE WritePage(c)
  BY <1>1, <1>23 DEF WritePage
<1>24. CASE SyncDb(c)
  <2> DEFINE todo == {e \in Reserved(c) : e # cur[c] /\ ~jw[c][e].done}
  <2>1. Reserved(c) # {}
    BY <1>1, <1>24 DEF SyncDb, Control, At, InTxn, Reserved
  <2>2. Min(Reserved(c)) \in Files /\ (todo # {} => Min(todo) \in Files)
    BY <2>1, TodoIs DEF Reserved
  <2>3. (cur' = [cur EXCEPT ![c] = IF todo # {} THEN Min(todo) ELSE Min(Reserved(c))])
        /\ UNCHANGED << op, reads >>
        /\ \E x \in {"commit", "prepare", "fin"} : pc' = [pc EXCEPT ![c] = x]
    BY <1>24 DEF SyncDb
  <2> QED
    BY <1>1, <2>2, <2>3
<1>25. CASE DeleteSuper(c)
  BY <1>1, <1>25 DEF DeleteSuper
<1>26. CASE End(c)
  BY <1>1, <1>26 DEF End
<1>27. CASE Commit(c)
  BY <1>1, <1>27 DEF Commit
<1>28. CASE Rollback(c)
  BY <1>1, <1>28 DEF Rollback
<1>29. CASE Crash(c)
  BY <1>1, <1>29 DEF Crash, Gone
<1>30. ASSUME NEW d \in Files, Open(c, d) PROVE PlaceTypes'
  BY <1>1, <1>30 DEF Open
<1>31. ASSUME NEW d \in Files, Reserve(c, d) PROVE PlaceTypes'
  BY <1>1, <1>31 DEF Reserve
<1>32. ASSUME NEW d \in Files, NEW p \in Pages, Write(c, d, p) PROVE PlaceTypes'
  BY <1>1, <1>32 DEF Write
<1>33. ASSUME NEW d \in Files, NEW p \in Pages, Spill(c, d, p) PROVE PlaceTypes'
  BY <1>1, <1>33 DEF Spill
<1> QED
  BY <1>2, <1>3, <1>4, <1>5, <1>6, <1>7, <1>8, <1>9, <1>10, <1>11, <1>12, <1>13, <1>14, <1>15,
     <1>16, <1>17, <1>18, <1>19, <1>20, <1>21, <1>22, <1>23, <1>24, <1>25, <1>26, <1>27, <1>28,
     <1>29, <1>30, <1>31, <1>32, <1>33 DEF Acts, Step
LEMMA SettingIs ==
  ASSUME TypeOK
  PROVE  MaxTxn \in Nat /\ setting \in Setting
BY JournalAssumption DEF TypeOK, MaxTxn, Setting

SmallTypes ==
  /\ supers \subseteq Txns /\ dsupers \subseteq Txns /\ fresh \subseteq Files
  /\ sup \in [Conns -> 0 .. MaxTxn] /\ spill \in [Conns -> Nat]
  /\ children \in [Txns -> SUBSET Files] /\ promised \subseteq Files
  /\ faults \in Nat /\ spills \in Nat

LEMMA SmallTyped ==
  ASSUME TypeOK, NEW c \in Conns, Acts(c), Control(c), setting' = setting,
         \A o \in Conns : TxnKept(o)
  PROVE  SmallTypes'
<1> USE DEF Go, Locked, disk, local, ghosts, bounds, SmallTypes
<1>1. SmallTypes /\ Txns' = Txns /\ MaxTxn' = MaxTxn /\ Shapes /\ MaxTxn \in Nat
  BY ShapesOK, SettingIs DEF TypeOK, Txns, MaxTxn
<1>2. CASE HotExists(c)
  BY <1>1, <1>2 DEF HotExists
<1>3. CASE HotReserved(c)
  BY <1>1, <1>3 DEF HotReserved
<1>4. CASE HotEmpty(c)
  <2>1. cur[c] \in Files
    BY <1>4 DEF HotEmpty, TypeOK, Control, Recovering, InTxn, At
  <2> QED
    BY <1>1, <1>4, <2>1 DEF HotEmpty
<1>5. CASE HotByte(c)
  BY <1>1, <1>5 DEF HotByte
<1>6. CASE HotLock(c)
  BY <1>1, <1>6 DEF HotLock
<1>7. CASE HotOpen(c)
  BY <1>1, <1>7 DEF HotOpen
<1>8. CASE PlayTruncate(c)
  BY <1>1, <1>8 DEF PlayTruncate
<1>9. CASE PlayPage(c)
  BY <1>1, <1>9 DEF PlayPage
<1>10. CASE PlaySync(c)
  <2>1. (IF Named(c, cur[c]) \in supers THEN Named(c, cur[c]) ELSE 0) \in 0 .. MaxTxn
    <3>1. supers \subseteq 1 .. MaxTxn /\ MaxTxn \in Nat
      BY <1>1 DEF Txns
    <3>2. \A n \in 1 .. MaxTxn : n \in 0 .. MaxTxn
      BY <3>1
    <3>3. 0 \in 0 .. MaxTxn
      BY <3>1
    <3> HIDE DEF SmallTypes
    <3> QED
      BY <3>1, <3>2, <3>3
  <2> QED
    BY <1>1, <1>10, <2>1 DEF PlaySync
<1>11. CASE Fin(c)
  <2>1. cur[c] \in Files
    BY <1>11 DEF Fin, TypeOK, Control, Recovering, InTxn, At
  <2> QED
    BY <1>1, <1>11, <2>1 DEF Fin
<1>12. CASE FinSync(c)
  <2>1. cur[c] \in Files
    BY <1>12 DEF FinSync, TypeOK, Control, Recovering, InTxn, At
  <2> QED
    BY <1>1, <1>12, <2>1 DEF FinSync
<1>13. CASE Unlock(c)
  <2>1. cur[c] \in Files \/ ~At(c, "unlock")
    BY <1>13 DEF TypeOK, Control, Recovering, InTxn, At
  <2> QED
    BY <1>1, <1>13, <2>1 DEF Unlock
<1>14. CASE DelSuper(c)
  BY <1>1, <1>14 DEF DelSuper
<1>15. CASE NextFile(c)
  BY <1>1, <1>15 DEF NextFile
<1>16. CASE Check(c)
  BY <1>1, <1>16 DEF Check
<1>17. CASE CommitLock(c)
  BY <1>1, <1>17 DEF CommitLock
<1>18. CASE WriteSuper(c)
  <2>1. txn[c] \in Txns
    BY <1>1, <1>18 DEF WriteSuper, TypeOK, Control, InTxn, At, TxnKept, Txns
  <2>2. Reserved(c) \in SUBSET Files
    BY DEF Reserved
  <2> QED
    BY <1>1, <1>18, <2>1, <2>2 DEF WriteSuper
<1>19. CASE Prepare(c)
  BY <1>1, <1>19 DEF Prepare
<1>20. CASE SyncRecords(c)
  BY <1>1, <1>20 DEF SyncRecords
<1>21. CASE Count(c)
  BY <1>1, <1>21 DEF Count
<1>22. CASE SyncCount(c)
  BY <1>1, <1>22 DEF SyncCount
<1>23. CASE WritePage(c)
  BY <1>1, <1>23 DEF WritePage
<1>24. CASE SyncDb(c)
  BY <1>1, <1>24 DEF SyncDb
<1>25. CASE DeleteSuper(c)
  BY <1>1, <1>25 DEF DeleteSuper
<1>26. CASE End(c)
  BY <1>1, <1>26 DEF End
<1>27. CASE Commit(c)
  BY <1>1, <1>27 DEF Commit
<1>28. CASE Rollback(c)
  BY <1>1, <1>28 DEF Rollback
<1>29. CASE Crash(c)
  BY <1>1, <1>29 DEF Crash, Gone, Fault
<1>30. ASSUME NEW d \in Files, Open(c, d) PROVE SmallTypes'
  BY <1>1, <1>30 DEF Open
<1>31. ASSUME NEW d \in Files, Reserve(c, d) PROVE SmallTypes'
  BY <1>1, <1>31 DEF Reserve
<1>32. ASSUME NEW d \in Files, NEW p \in Pages, Write(c, d, p) PROVE SmallTypes'
  BY <1>1, <1>32 DEF Write
<1>33. ASSUME NEW d \in Files, NEW p \in Pages, Spill(c, d, p) PROVE SmallTypes'
  <2>1. p \in Nat
    BY JournalAssumption DEF Pages
  <2> QED
    BY <1>1, <1>33, <2>1 DEF Spill
<1> QED
  BY <1>2, <1>3, <1>4, <1>5, <1>6, <1>7, <1>8, <1>9, <1>10, <1>11, <1>12, <1>13, <1>14, <1>15,
     <1>16, <1>17, <1>18, <1>19, <1>20, <1>21, <1>22, <1>23, <1>24, <1>25, <1>26, <1>27, <1>28,
     <1>29, <1>30, <1>31, <1>32, <1>33 DEF Acts, Step

LEMMA TxnTypesKept ==
  ASSUME Base, NEW c \in Conns, Stage(c), Acts(c), setting' = setting
  PROVE  txn' \in [Conns -> 0 .. MaxTxn] /\ txns' \in 0 .. MaxTxn
<1>1. TxnMoves(c) /\ TxnTypes(c)
  BY TxnActs, TxnTyped
<1>2. txns \in Nat /\ txns' \in 0 .. MaxTxn
  BY <1>1 DEF TxnMoves, TxnTypes
<1>3. txn'[c] \in 0 .. MaxTxn
  BY <1>1, <1>2 DEF TxnMoves, TxnTypes
<1> QED
  BY <1>1, <1>2, <1>3 DEF TxnMoves, TxnTypes
-----------------------------------------------------------------------------
(* A transaction that is under way in a file. *)

LEMMA DataTypes ==
  ASSUME TypeOK, NEW c \in Conns, NEW d \in Files
  PROVE  /\ db[d] \in Seq(Page) /\ ddb[d] \in Seq(Page)
         /\ jnl[d] \in Seq(JournalCell) \cup {None} /\ djnl[d] \in Seq(JournalCell) \cup {None}
         /\ jw[c][d] \in JournalWriter /\ txn[c] \in Nat
         /\ cache[c][d] # None => cache[c][d] \in Seq(Page)
         /\ mine[c][d] # None => mine[c][d] \in Seq(Page)
         /\ lock[c][d] \in 0 .. 4
BY DEF TypeOK, NONE, EXCLUSIVE

LEMMA Storeless ==
  ASSUME TypeOK, NEW d \in Files, ~IsHdr(jnl[d], 1)
  PROVE  Store(d) = db[d]
BY RestoredType DEF TypeOK, Store

(* Before there is a journal, the file is what was read.                   *)
LEMMA LiveIs ==
  ASSUME Inv, NEW c \in Conns, NEW d \in Files, Live(c, d)
  PROVE  /\ JournalKept(c, d) /\ DraftKept(c, d)
         /\ cache[c][d] \in Seq(Page) /\ jw[c][d] \in JournalWriter /\ db[d] \in Seq(Page)
         /\ jw[c][d].off # 0 => jnl[d] \in Seq(JournalCell)
         /\ jw[c][d].off = 0 => db[d] = cache[c][d] /\ ~IsHdr(jnl[d], 1)
         /\ cache[c][d] = Store(d)
         /\ txn[c] # 0 /\ txn[c] \in Nat /\ txn[c] \in Txns
<1>1. JournalKept(c, d) /\ DraftKept(c, d) /\ TypeOK
  BY DEF Inv, Lives, Base
<1>2. cache[c][d] \in Seq(Page) /\ jw[c][d] \in JournalWriter /\ db[d] \in Seq(Page)
  BY <1>1, DataTypes DEF JournalKept
<1>3. jw[c][d].off # 0 => jnl[d] \in Seq(JournalCell)
  BY <1>1, DataTypes DEF JournalKept
<1>4. d \in reads[c]
  BY DEF Live, InTxn
<1>5. cache[c][d] = Store(d)
  BY <1>4 DEF Inv, Stores, SeenIsStore
<1>6. jw[c][d].off = 0 => ~IsHdr(jnl[d], 1)
  BY <1>4 DEF Inv, Stores, Quiet, Passed, Live
<1>7. jw[c][d].off = 0 => db[d] = cache[c][d]
  BY <1>1, <1>5, <1>6, Storeless
<1>8. txn[c] # 0 /\ txn[c] \in Nat /\ txn[c] \in Txns
  <2>1. InTxn(c, d) /\ TxnKept(c) /\ txn[c] \in 0 .. MaxTxn
    BY <1>1 DEF Live, Inv, Base, TypeOK
  <2>2. MaxTxn \in Nat
    BY <1>1, SettingIs
  <2> QED
    BY <2>1, <2>2 DEF TxnKept, Txns
<1> QED
  BY <1>1, <1>2, <1>3, <1>5, <1>6, <1>7, <1>8

FileShapes ==
  /\ DOMAIN db = Files /\ DOMAIN ddb = Files /\ DOMAIN jnl = Files /\ DOMAIN djnl = Files
  /\ db = [d \in Files |-> db[d]] /\ ddb = [d \in Files |-> ddb[d]]
  /\ jnl = [d \in Files |-> jnl[d]] /\ djnl = [d \in Files |-> djnl[d]]
  /\ \A c \in Conns : /\ DOMAIN jw[c] = Files /\ DOMAIN mine[c] = Files /\ DOMAIN cache[c] = Files
                      /\ DOMAIN lock[c] = Files

LEMMA FileShapesOK == ASSUME TypeOK PROVE FileShapes
BY DEF TypeOK, FileShapes
-----------------------------------------------------------------------------
(* pager_write *)

(* While a connection changes pages, the journals it has are growing.      *)
LEMMA RunIs ==
  ASSUME Inv, NEW c \in Conns, NEW d \in Files, pc[c] \in {"run", "prepare"}, lock[c][d] >= RESERVED,
         pc[c] = "prepare" => cur[c] = d
  PROVE  /\ Live(c, d) /\ ~jw[c][d].done /\ op[c] # "rollback" /\ ~Prepared(c, d)
         /\ jw[c][d].off # 0 => Growing(jnl[d], jw[c][d]) /\ mine[c][d] # None
                                /\ Draft(mine[c][d], jw[c][d], db[d])
                                /\ Counter(mine[c][d]) = Counter(cache[c][d])
<1>1. Base /\ Control(c) /\ Stage(c) /\ LocksHeld(c)
  BY DEF Inv, Base, Phases
<1>2. ~Recovering(c) /\ op[c] # "rollback" /\ (pc[c] = "prepare" => op[c] = "commit")
  BY <1>1 DEF Control, Recovering
<1>3. Live(c, d)
  BY <1>1, <1>2, ReservedInTxn DEF Live, Committed, Undone
<1>4. JournalKept(c, d) /\ DraftKept(c, d)
  BY <1>3, LiveIs
<1>5. ~jw[c][d].done
  <2>1. CASE pc[c] = "prepare"
    BY <1>1, <2>1 DEF Stage
  <2>2. CASE pc[c] = "run" /\ jw[c][d].off # 0
    BY <1>2, <1>4, <2>2 DEF DraftKept, Preparing
  <2>3. CASE jw[c][d].off = 0
    BY <1>4, <2>3 DEF JournalKept, Unopened, NoJw
  <2> QED
    BY <2>1, <2>2, <2>3
<1>6. ~Prepared(c, d) /\ ~Sealed(c, d)
  BY <1>5 DEF Prepared, Sealed
<1>7. ASSUME jw[c][d].off # 0
      PROVE  Growing(jnl[d], jw[c][d]) /\ mine[c][d] # None /\ Draft(mine[c][d], jw[c][d], db[d])
             /\ Counter(mine[c][d]) = Counter(cache[c][d])
  <2>1. /\ mine[c][d] # None /\ Draft(mine[c][d], jw[c][d], db[d])
        /\ Counter(mine[c][d]) = Counter(cache[c][d])
        /\ ~(jw[c][d].hdr > jw[c][d].off)
        /\ jw[c][d].hdr <= jw[c][d].off => ~jnl[d][jw[c][d].hdr].magic
        /\ jw[c][d].hdr <= jw[c][d].off => jw[c][d].off = jw[c][d].hdr + jw[c][d].n
    BY <1>2, <1>4, <1>6, <1>7 DEF DraftKept
  <2>2. jw[c][d].hdr \in Nat /\ jw[c][d].off \in Nat
    BY <1>1 DEF Base, TypeOK, JournalWriter
  <2>3. jw[c][d].hdr <= jw[c][d].off
    <3>1. PICK h, o \in Nat : h = jw[c][d].hdr /\ o = jw[c][d].off
      BY <2>2
    <3>2. ~(h > o) => h <= o
      OBVIOUS
    <3> QED
      BY <2>1, <3>1, <3>2
  <2> QED
    BY <2>1, <2>3 DEF Growing
<1> QED
  BY <1>2, <1>3, <1>5, <1>6, <1>7

(* The journal with one more page.                                         *)
LEMMA JournaledIs ==
  ASSUME Inv, NEW c \in Conns, NEW d \in Files, NEW p \in Nat \ {0},
         pc[c] \in {"run", "prepare"}, lock[c][d] >= RESERVED, pc[c] = "prepare" => cur[c] = d,
         NEW g, NEW v, g = Journaled(c, d, p)[1], v = Journaled(c, d, p)[2]
  PROVE  LET w == jw[c][d] IN
         /\ g \in Seq(JournalCell) /\ v \in JournalWriter
         /\ Journal(g, v, cache[c][d], db[d]) /\ Growing(g, v)
         /\ v.off # 0 /\ v.orig = w.orig /\ v.mod = w.mod /\ v.done = w.done
         /\ v.dirty = w.dirty \cup {p} /\ w.inJournal \subseteq v.inJournal
         /\ p > v.orig \/ p \in v.inJournal
         /\ SuperName(g) \in {0, SuperName(jnl[d])} /\ SuperName(g) \in supers \cup {0}
         /\ w.off # 0 => v.hdr = w.hdr /\ w.off <= Len(g) /\ w.off <= v.off
                         /\ \A k \in 1 .. w.off : g[k] = jnl[d][k]
<1>1. /\ Live(c, d)
      /\ jw[c][d].off # 0 => Growing(jnl[d], jw[c][d])
  BY RunIs
<1>2. /\ JournalKept(c, d) /\ cache[c][d] \in Seq(Page)
      /\ jw[c][d].off = 0 => db[d] = cache[c][d] /\ ~IsHdr(jnl[d], 1)
  BY <1>1, LiveIs
<1>3. /\ cache[c][d] # None /\ jw[c][d].orig = Len(cache[c][d])
      /\ jw[c][d].off = 0 => Unopened(jw[c][d], cache[c][d]) /\ db[d] = cache[c][d]
      /\ jw[c][d].off # 0 => /\ jnl[d] # None /\ Growing(jnl[d], jw[c][d])
                             /\ Journal(jnl[d], jw[c][d], cache[c][d], db[d])
  BY <1>1, <1>2 DEF JournalKept
<1>4. TypeOK
  BY DEF Inv, Base
<1>5. SuperName(jnl[d]) \in supers \cup {0}
  <2>1. CASE jw[c][d].off = 0
    BY <1>2, <2>1 DEF Inv, Supered, Names
  <2>2. CASE jw[c][d].off # 0
    BY <1>2, <2>2 DEF JournalKept
  <2> QED
    BY <2>1, <2>2
<1>6. LET h == Journaled(c, d, p)[1]  u == Journaled(c, d, p)[2]  w == jw[c][d] IN
      /\ h \in Seq(JournalCell) /\ u \in JournalWriter
      /\ Journal(h, u, cache[c][d], db[d]) /\ Growing(h, u)
      /\ u.off # 0 /\ u.orig = w.orig /\ u.mod = w.mod /\ u.done = w.done
      /\ u.dirty = w.dirty \cup {p} /\ w.inJournal \subseteq u.inJournal
      /\ p > u.orig \/ p \in u.inJournal
      /\ SuperName(h) \in {0, SuperName(jnl[d])}
      /\ w.off # 0 => u.hdr = w.hdr /\ w.off <= Len(h) /\ w.off <= u.off
                      /\ \A k \in 1 .. w.off : h[k] = jnl[d][k]
  BY <1>3, <1>4, JournaledKept, Zenon
<1> QED
  BY <1>5, <1>6

LEMMA MineIs ==
  ASSUME Inv, NEW c \in Conns, NEW d \in Files, pc[c] \in {"run", "prepare"}, lock[c][d] >= RESERVED,
         pc[c] = "prepare" => cur[c] = d
  PROVE  /\ Mine(c, d) \in Seq(Page) /\ Drawn(Mine(c, d), jw[c][d], db[d])
         /\ Counter(Mine(c, d)) = Counter(cache[c][d])
<1>1. /\ Live(c, d)
      /\ jw[c][d].off # 0 => /\ mine[c][d] # None /\ Draft(mine[c][d], jw[c][d], db[d])
                             /\ Counter(mine[c][d]) = Counter(cache[c][d])
  BY RunIs
<1>2. /\ JournalKept(c, d) /\ cache[c][d] \in Seq(Page)
      /\ jw[c][d].off = 0 => db[d] = cache[c][d] /\ ~IsHdr(jnl[d], 1)
  BY <1>1, LiveIs
<1>3. CASE jw[c][d].off # 0
  BY <1>1, <1>3, DataTypes DEF Inv, Base, Draft, Mine
<1>4. CASE jw[c][d].off = 0
  <2>1. Mine(c, d) = cache[c][d] /\ Unopened(jw[c][d], cache[c][d])
    BY <1>2, <1>4 DEF JournalKept, Mine
  <2>2. Drawn(cache[c][d], jw[c][d], db[d])
    BY <1>2, <1>4, <2>1 DEF Unopened, NoJw, Drawn
  <2> QED
    BY <1>2, <2>1, <2>2
<1> QED
  BY <1>3, <1>4

LEMMA WriteDoes ==
  ASSUME Inv, NEW c \in Conns, NEW d \in Files, NEW p \in Pages, Write(c, d, p)
  PROVE  /\ Live(c, d)
         /\ jnl' = [jnl EXCEPT ![d] = jnl'[d]] /\ jnl'[d] \in Seq(JournalCell)
         /\ jw' = [jw EXCEPT ![c][d] = jw'[c][d]] /\ jw'[c][d] \in JournalWriter
         /\ mine' = [mine EXCEPT ![c][d] = mine'[c][d]] /\ mine'[c][d] \in Seq(Page)
         /\ jw'[c][d].off # 0 /\ jw'[c][d].mod = jw[c][d].mod /\ ~jw'[c][d].done
         /\ jw'[c][d].orig = jw[c][d].orig
         /\ SuperName(jnl'[d]) \in {0, SuperName(jnl[d])}
         /\ jw[c][d].off # 0 =>
              /\ jw'[c][d].hdr = jw[c][d].hdr /\ jw[c][d].off <= Len(jnl'[d])
              /\ \A k \in 1 .. jw[c][d].off : jnl'[d][k] = jnl[d][k]
         /\ JournalKept(c, d)' /\ DraftKept(c, d)'
<1> DEFINE w == jw[c][d]  a == cache[c][d]
<1>1. PICK g, v : g = Journaled(c, d, p)[1] /\ v = Journaled(c, d, p)[2]
  OBVIOUS
<1>2. /\ At(c, "run") /\ lock[c][d] >= RESERVED
      /\ p <= Len(Mine(c, d)) + IF setting.grow THEN 1 ELSE 0
      /\ jnl' = [jnl EXCEPT ![d] = g] /\ jw' = [jw EXCEPT ![c][d] = v]
      /\ mine' = [mine EXCEPT ![c][d] = Put(Mine(c, d), p, << txn[c], IF p = 1 THEN Counter(a) ELSE 0 >>, None)]
      /\ db' = db /\ supers' = supers /\ lock' = lock /\ pc' = pc /\ op' = op /\ cur' = cur
      /\ cache' = cache /\ reads' = reads /\ ddb' = ddb /\ djnl' = djnl /\ txn' = txn
  BY <1>1 DEF Write
<1>3. p \in Nat \ {0} /\ pc[c] = "run"
  BY <1>2, JournalAssumption DEF Pages, At
<1>4. /\ Live(c, d) /\ ~w.done /\ op[c] # "rollback"
  BY <1>2, <1>3, RunIs
<1>5. /\ g \in Seq(JournalCell) /\ v \in JournalWriter /\ Journal(g, v, a, db[d]) /\ Growing(g, v)
      /\ v.off # 0 /\ v.orig = w.orig /\ v.mod = w.mod /\ v.done = w.done
      /\ v.dirty = w.dirty \cup {p} /\ w.inJournal \subseteq v.inJournal
      /\ p > v.orig \/ p \in v.inJournal
      /\ SuperName(g) \in {0, SuperName(jnl[d])} /\ SuperName(g) \in supers \cup {0}
      /\ w.off # 0 => v.hdr = w.hdr /\ w.off <= Len(g) /\ w.off <= v.off
                      /\ \A k \in 1 .. w.off : g[k] = jnl[d][k]
  <2>1. pc[c] \in {"run", "prepare"} /\ (pc[c] = "prepare" => cur[c] = d)
    BY <1>3
  <2> QED
    BY <1>1, <1>2, <1>3, <2>1, JournaledIs
<1>6. JournalKept(c, d) /\ a \in Seq(Page) /\ w \in JournalWriter /\ db[d] \in Seq(Page) /\ txn[c] \in Nat
  BY <1>4, LiveIs
<1>7. PICK m \in Seq(Page) : m = Mine(c, d) /\ Drawn(m, w, db[d]) /\ Counter(m) = Counter(a)
  BY <1>2, <1>3, MineIs
<1>8. PICK x \in Page : /\ x = << txn[c], IF p = 1 THEN Counter(a) ELSE 0 >>
                        /\ p = 1 => x = << txn[c], Counter(a) >>
  <2>1. Counter(a) \in Nat
    BY <1>6, PageOneIs
  <2> QED
    BY <1>6, <2>1, PageIsSome
<1>9. PICK n : n = Put(m, p, x, None)
  OBVIOUS
<1>10. n \in Seq(Page) /\ Draft(n, v, db[d]) /\ n[p] = x /\ Len(n) >= Len(m)
       /\ \A q \in 1 .. Len(m) : q # p => n[q] = m[q]
  <2>1. p <= Len(m) + 1
    <3>1. PICK l \in Nat : l = Len(m)
      BY <1>7
    <3>2. p <= l + 1
      BY <1>2, <1>3, <1>7, <3>1
    <3> QED
      BY <3>1, <3>2
  <2>2. /\ m \in Seq(Page) /\ w \in JournalWriter /\ v \in JournalWriter /\ db[d] \in Seq(Page)
        /\ Drawn(m, w, db[d]) /\ p \in Nat \ {0} /\ x \in Page
        /\ v.dirty = w.dirty \cup {p} /\ v.orig = w.orig /\ w.inJournal \subseteq v.inJournal
        /\ p > v.orig \/ p \in v.inJournal
    BY <1>3, <1>5, <1>6, <1>7, <1>8
  <2> QED
    BY <1>9, <2>1, <2>2, DraftWritten
<1>11. Counter(n) = Counter(a)
  <2>1. Len(n) >= 1
    BY <1>10 DEF Draft
  <2>2. CASE p = 1
    <3>1. n[1] = << txn[c], Counter(a) >> /\ Counter(a) \in Nat
      BY <1>6, <1>8, <1>10, <2>2, PageOneIs
    <3> QED
      BY <1>6, <1>10, <2>1, <3>1, CounterIs
  <2>3. CASE p # 1
    <3>1. PICK l \in Nat : l = Len(m)
      BY <1>7
    <3>2. l >= 1
      BY <1>2, <1>3, <1>7, <2>3, <3>1
    <3>3. n[1] = m[1]
      BY <1>10, <2>3, <3>1, <3>2
    <3> QED
      BY <1>7, <1>10, <2>1, <3>1, <3>2, <3>3, CounterSame
  <2> QED
    BY <2>2, <2>3
<1>12. Shapes /\ DOMAIN jnl = Files /\ DOMAIN jw[c] = Files /\ DOMAIN mine[c] = Files
  BY ShapesOK DEF Inv, Base, TypeOK
<1>13. jnl'[d] = g /\ jw'[c][d] = v /\ mine'[c][d] = n
  BY <1>2, <1>7, <1>8, <1>9, <1>12 DEF Shapes
<1>14. n # None /\ g # None
  BY <1>5, <1>10, JournalAssumption
<1>15. JournalKept(c, d)'
  <2>1. cache'[c][d] = a /\ db'[d] = db[d] /\ supers' = supers /\ lock'[c][d] = lock[c][d]
    BY <1>2
  <2>2. a # None /\ w.orig = Len(a) /\ (w.mod => lock[c][d] = EXCLUSIVE)
    BY <1>6 DEF JournalKept
  <2> QED
    BY <1>5, <1>13, <1>14, <2>1, <2>2 DEF JournalKept
<1>16. DraftKept(c, d)'
  <2>1. ~Prepared(c, d)' /\ ~Sealed(c, d)' /\ pc'[c] # "sync2"
    BY <1>2, <1>3, <1>4, <1>5, <1>13 DEF Prepared, Sealed
  <2>2. v.hdr <= v.off /\ ~(v.hdr > v.off) /\ v.off = v.hdr + v.n /\ ~g[v.hdr].magic
    <3>1. PICK h, o \in Nat : h = v.hdr /\ o = v.off
      BY <1>5 DEF JournalWriter
    <3>2. h <= o => ~(h > o)
      OBVIOUS
    <3> QED
      BY <1>5, <3>1, <3>2 DEF Growing
  <2>3. ~v.done
    BY <1>4, <1>5
  <2>4. cache'[c][d] = a /\ db'[d] = db[d]
    BY <1>2
  <2> QED
    BY <1>10, <1>11, <1>13, <1>14, <2>1, <2>2, <2>3, <2>4 DEF DraftKept
<1> QED
  BY <1>2, <1>4, <1>5, <1>10, <1>13, <1>15, <1>16
LEMMA JournalHot ==
  ASSUME NEW j \in Seq(JournalCell), NEW w \in JournalWriter,
         NEW a \in Seq(Page), NEW f \in Seq(Page), Journal(j, w, a, f)
  PROVE  /\ w.mod => IsHdr(j, 1)
         /\ IsHdr(j, 1) => j[1].orig = w.orig
         /\ w.mod => j[1].orig = w.orig
         /\ w.orig = Len(a) /\ w.orig <= Len(f)
<1>0. PICK o \in Nat, h \in Nat, u \in Nat, l \in Nat, x \in Nat :
         o = w.off /\ h = w.hdr /\ u = w.orig /\ l = Len(f) /\ x = Len(a)
  BY DEF JournalWriter
<1>1. /\ 1 <= o /\ 1 <= h /\ (w.mod <=> h > 1) /\ Tiled(j, h - 1) /\ (h > 1 => j[1].orig = u)
      /\ h <= o => j[h].orig = u
      /\ l >= u /\ u = x
  BY <1>0 DEF Journal, Placed, Segment, Copied, Restorable
<1>2. CASE h > 1
  <2>1. h - 1 >= 1
    BY <1>2
  <2>2. IsHdr(j, 1)
    BY <1>1, <2>1 DEF Tiled
  <2> QED
    BY <1>0, <1>1, <1>2, <2>2
<1>3. CASE ~(h > 1)
  <2>1. h = 1
    BY <1>1, <1>3
  <2> QED
    BY <1>0, <1>1, <1>3, <2>1
<1> QED
  BY <1>2, <1>3

LEMMA CutPut ==
  ASSUME NEW j \in Seq(JournalCell), NEW o \in Nat, o <= Len(j), NEW x \in JournalCell
  PROVE  \A k \in 1 .. o : Put(Cut(j, o), o + 1, x, Zero)[k] = j[k]
<1>1. PICK i \in Nat \ {0} : i = o + 1
  OBVIOUS
<1>2. PICK g \in Seq(JournalCell) : g = Cut(j, o)
  BY CutIs
<1>3. Len(g) = o /\ \A k \in 1 .. o : g[k] = j[k]
  BY <1>2, CutIs
<1>4. \A k \in 1 .. Len(g) : k # i => Put(g, i, x, Zero)[k] = g[k]
  BY <1>1, PutCell
<1>5. \A k \in 1 .. o : k # i
  BY <1>1
<1> QED
  BY <1>1, <1>2, <1>3, <1>4, <1>5

LEMMA PrepareIs ==
  ASSUME Inv, NEW c \in Conns, pc[c] = "prepare"
  PROVE  LET d == cur[c] IN
         /\ d \in Files /\ InTxn(c, d) /\ lock[c][d] = EXCLUSIVE /\ jw[c][d].off # 0
         /\ op[c] = "commit" /\ Preparing(c) /\ ~jw[c][d].done
<1>1. Control(c) /\ Stage(c) /\ TypeOK
  BY DEF Inv, Base, Phases
<1>2. op[c] = "commit" /\ InTxn(c, cur[c])
  BY <1>1 DEF Control
<1>3. cur[c] \in Files
  BY <1>1, <1>2 DEF InTxn, TypeOK
<1> QED
  BY <1>1, <1>2, <1>3 DEF Stage, Preparing

LEMMA PrepareDoes ==
  ASSUME Inv, NEW c \in Conns, Prepare(c), NEW d, d = cur[c]
  PROVE  /\ d \in Files /\ Live(c, d) /\ lock[c][d] = EXCLUSIVE /\ jw[c][d].off # 0
         /\ jnl' = [jnl EXCEPT ![d] = jnl'[d]] /\ jnl'[d] \in Seq(JournalCell)
         /\ jw' = [jw EXCEPT ![c][d] = jw'[c][d]] /\ jw'[c][d] \in JournalWriter
         /\ mine' = [mine EXCEPT ![c][d] = mine'[c][d]] /\ mine'[c][d] \in Seq(Page)
         /\ jw'[c][d].off # 0 /\ jw'[c][d].mod = jw[c][d].mod /\ ~jw'[c][d].done
         /\ jw'[c][d].orig = jw[c][d].orig
         /\ SuperName(jnl'[d]) \in {0, SuperName(jnl[d])} \/ (Several(c) /\ SuperName(jnl'[d]) = txn[c])
         /\ jw'[c][d].hdr = jw[c][d].hdr /\ jw[c][d].off <= Len(jnl'[d])
         /\ \A k \in 1 .. jw[c][d].off : jnl'[d][k] = jnl[d][k]
         /\ JournalKept(c, d)' /\ DraftKept(c, d)'
<1> DEFINE w == jw[c][d]  a == cache[c][d]  m == mine[c][d]
<1>1. PICK g, v : g = Journaled(c, d, 1)[1] /\ v = Journaled(c, d, 1)[2]
  OBVIOUS
<1>2. /\ pc[c] = "prepare" /\ cur[c] = d
      /\ IF Several(c)
         THEN jnl' = [jnl EXCEPT ![d] = Put(Cut(g, v.off), v.off + 1, Super(txn[c]), Zero)]
              /\ jw' = [jw EXCEPT ![c][d] = [v EXCEPT !.off = @ + 1]]
         ELSE jnl' = [jnl EXCEPT ![d] = g] /\ jw' = [jw EXCEPT ![c][d] = v]
      /\ mine' = [mine EXCEPT ![c][d][1] = << txn[c], Counter(a) + 1 >>]
      /\ pc' = [pc EXCEPT ![c] = "sync"]
      /\ db' = db /\ supers' = supers /\ lock' = lock /\ op' = op /\ cur' = cur
      /\ cache' = cache /\ reads' = reads /\ ddb' = ddb /\ djnl' = djnl /\ txn' = txn
  BY <1>1 DEF Prepare, Several, At, Go, Incremented
<1>3. /\ d \in Files /\ InTxn(c, d) /\ lock[c][d] = EXCLUSIVE /\ w.off # 0
      /\ op[c] = "commit" /\ Preparing(c) /\ ~w.done
  BY <1>2, PrepareIs
<1>4. lock[c][d] >= RESERVED
  BY <1>3 DEF RESERVED, EXCLUSIVE
<1>5. /\ Live(c, d) /\ m # None /\ Draft(m, w, db[d])
  BY <1>2, <1>3, <1>4, RunIs
<1>6. /\ g \in Seq(JournalCell) /\ v \in JournalWriter /\ Journal(g, v, a, db[d]) /\ Growing(g, v)
      /\ v.off # 0 /\ v.orig = w.orig /\ v.mod = w.mod /\ v.done = w.done
      /\ v.dirty = w.dirty \cup {1} /\ w.inJournal \subseteq v.inJournal
      /\ 1 > v.orig \/ 1 \in v.inJournal
      /\ SuperName(g) \in {0, SuperName(jnl[d])} /\ SuperName(g) \in supers \cup {0}
      /\ v.hdr = w.hdr /\ w.off <= Len(g) /\ w.off <= v.off
      /\ \A k \in 1 .. w.off : g[k] = jnl[d][k]
  <2>1. PICK p \in Nat \ {0} : p = 1
    OBVIOUS
  <2>2. pc[c] \in {"run", "prepare"} /\ (pc[c] = "prepare" => cur[c] = d)
    BY <1>2
  <2>3. g = Journaled(c, d, p)[1] /\ v = Journaled(c, d, p)[2]
    BY <1>1, <2>1
  <2>4. /\ g \in Seq(JournalCell) /\ v \in JournalWriter /\ Journal(g, v, a, db[d]) /\ Growing(g, v)
        /\ v.off # 0 /\ v.orig = w.orig /\ v.mod = w.mod /\ v.done = w.done
        /\ v.dirty = w.dirty \cup {p} /\ w.inJournal \subseteq v.inJournal
        /\ p > v.orig \/ p \in v.inJournal
        /\ SuperName(g) \in {0, SuperName(jnl[d])} /\ SuperName(g) \in supers \cup {0}
        /\ w.off # 0 => v.hdr = w.hdr /\ w.off <= Len(g) /\ w.off <= v.off
                        /\ \A k \in 1 .. w.off : g[k] = jnl[d][k]
    BY <1>3, <1>4, <2>2, <2>3, JournaledIs
  <2> QED
    BY <1>3, <2>1, <2>4
<1>7. JournalKept(c, d) /\ a \in Seq(Page) /\ w \in JournalWriter /\ db[d] \in Seq(Page)
      /\ txn[c] \in Nat \ {0} /\ jnl[d] \in Seq(JournalCell)
  BY <1>3, <1>5, LiveIs
<1>8. m \in Seq(Page)
  BY <1>3, <1>5, DataTypes DEF Inv, Base
<1>9. PICK x \in Page : x = << txn[c], Counter(a) + 1 >>
  <2>1. PICK t \in Nat, i \in Nat : t = txn[c] /\ i = Counter(a) + 1
    <3>1. Counter(a) \in Nat
      BY <1>7, PageOneIs
    <3> QED
      BY <1>7, <3>1
  <2>2. << t, i >> \in Page
    BY PageIsSome
  <2> QED
    BY <2>1, <2>2
<1>10. PICK n : n = [m EXCEPT ![1] = x]
  OBVIOUS
<1>11. n \in Seq(Page) /\ Draft(n, v, db[d]) /\ n[1] = x /\ Len(n) >= Len(m)
  <2>1. PICK p \in Nat \ {0} : p = 1
    OBVIOUS
  <2>2. Len(m) >= 1 /\ Drawn(m, w, db[d])
    BY <1>5 DEF Draft
  <2>3. /\ m \in Seq(Page) /\ w \in JournalWriter /\ v \in JournalWriter /\ db[d] \in Seq(Page)
        /\ Drawn(m, w, db[d]) /\ x \in Page /\ p <= Len(m) + 1
        /\ v.dirty = w.dirty \cup {p} /\ v.orig = w.orig /\ w.inJournal \subseteq v.inJournal
        /\ p > v.orig \/ p \in v.inJournal
    BY <1>6, <1>7, <1>8, <1>9, <2>1, <2>2
  <2>4. PICK z : z = Put(m, p, x, None)
    OBVIOUS
  <2>5. /\ z \in Seq(Page) /\ Draft(z, v, db[d]) /\ z[p] = x /\ Len(z) >= Len(m)
        /\ \A q \in 1 .. Len(m) : q # p => z[q] = m[q]
    <3>1. PICK b \in Seq(Page), f \in Seq(Page), y \in JournalWriter, u \in JournalWriter :
            b = m /\ f = db[d] /\ y = w /\ u = v
      BY <2>3
    <3>2. /\ b \in Seq(Page) /\ f \in Seq(Page) /\ y \in JournalWriter /\ p \in Nat \ {0}
          /\ Drawn(b, y, f) /\ x \in Page /\ p <= Len(b) + 1
          /\ u.dirty = y.dirty \cup {p} /\ u.orig = y.orig /\ y.inJournal \subseteq u.inJournal
          /\ p > u.orig \/ p \in u.inJournal
          /\ u \in JournalWriter
      BY <2>1, <2>3, <3>1
    <3>3. z = Put(b, p, x, None)
      BY <2>4, <3>1
    <3>4. LET e == Put(b, p, x, None) IN
          /\ e \in Seq(Page) /\ Draft(e, u, f) /\ e[p] = x /\ Len(e) >= Len(b)
          /\ \A q \in 1 .. Len(b) : q # p => e[q] = b[q]
      <4>1. p <= Len(b) + 1 /\ u.dirty = y.dirty \cup {p} /\ u.orig = y.orig
            /\ y.inJournal \subseteq u.inJournal
        BY <3>2
      <4>2. p > u.orig \/ p \in u.inJournal
        BY <3>2
      <4>3. Drawn(b, y, f)
        BY <3>2
      <4> QED
        BY <4>1, <4>2, <4>3, DraftWritten
    <3> QED
      BY <3>1, <3>3, <3>4
  <2>6. Len(z) = Len(m)
    <3>1. p <= Len(m)
      BY <1>8, <2>1, <2>2
    <3> QED
      BY <2>3, <2>4, <3>1, PutPage
  <2>7. n \in Seq(Page) /\ Len(n) = Len(m) /\ n[1] = x /\ \A q \in 1 .. Len(m) : q # 1 => n[q] = m[q]
    BY <1>8, <1>9, <1>10, <2>2
  <2>8. n = z
    <3>1. \A q \in 1 .. Len(m) : n[q] = z[q]
      BY <2>1, <2>5, <2>7
    <3> QED
      BY <2>5, <2>6, <2>7, <3>1, SameSeq
  <2> QED
    BY <2>1, <2>5, <2>8
<1>12. Counter(n) = Counter(a) + 1
  <2>1. Len(n) >= 1
    BY <1>11 DEF Draft
  <2>2. Counter(a) + 1 \in Nat
    BY <1>7, PageOneIs
  <2>3. n[1] = << txn[c], Counter(a) + 1 >>
    BY <1>9, <1>11
  <2> QED
    BY <1>7, <1>11, <2>1, <2>2, <2>3, CounterIs
<1>13. Shapes /\ DOMAIN jnl = Files /\ DOMAIN jw[c] = Files /\ DOMAIN mine[c] = Files
  BY ShapesOK DEF Inv, Base, TypeOK
<1>14. mine' = [mine EXCEPT ![c][d] = n] /\ mine'[c][d] = n
  BY <1>2, <1>3, <1>9, <1>10, <1>13 DEF Shapes
<1>15. n # None /\ g # None
  BY <1>6, <1>11, JournalAssumption
<1>16. \E h, u : /\ jnl' = [jnl EXCEPT ![d] = h] /\ jw' = [jw EXCEPT ![c][d] = u]
                 /\ h \in Seq(JournalCell) /\ u \in JournalWriter /\ Journal(h, u, a, db[d])
                 /\ u.off # 0 /\ u.hdr = v.hdr /\ u.orig = v.orig /\ u.mod = v.mod /\ u.done = v.done
                 /\ u.dirty = v.dirty /\ u.inJournal = v.inJournal
                 /\ u.hdr <= u.off /\ ~h[u.hdr].magic
                 /\ ~Several(c) => u.off = u.hdr + u.n /\ h = g
                 /\ Several(c) => Len(h) = u.off /\ h[u.off] = Super(txn[c]) /\ SuperName(h) = txn[c]
                 /\ w.off <= Len(h) /\ \A k \in 1 .. w.off : h[k] = g[k]
  <2>1. CASE ~Several(c)
    <3>1. jnl' = [jnl EXCEPT ![d] = g] /\ jw' = [jw EXCEPT ![c][d] = v]
      BY <1>2, <2>1
    <3>2. v.hdr <= v.off /\ ~g[v.hdr].magic /\ v.off = v.hdr + v.n
      BY <1>6 DEF Growing
    <3> QED
      BY <1>6, <2>1, <3>1, <3>2
  <2>2. CASE Several(c)
    <3>1. PICK h, u : h = Put(Cut(g, v.off), v.off + 1, Super(txn[c]), Zero) /\ u = [v EXCEPT !.off = @ + 1]
      OBVIOUS
    <3>2. /\ h \in Seq(JournalCell) /\ u \in JournalWriter /\ Journal(h, u, a, db[d])
          /\ u.off # 0 /\ Len(h) = u.off /\ h[u.off] = Super(txn[c]) /\ u.hdr <= u.off /\ ~h[u.hdr].magic
          /\ SuperName(h) = txn[c]
      BY <1>6, <1>7, <3>1, JournalNamed
    <3>3. /\ u.hdr = v.hdr /\ u.orig = v.orig /\ u.mod = v.mod /\ u.done = v.done
          /\ u.dirty = v.dirty /\ u.inJournal = v.inJournal /\ u.off = v.off + 1
      BY <1>6, <3>1 DEF JournalWriter
    <3>4. PICK o \in Nat, q \in Nat : o = w.off /\ q = v.off
      BY <1>6, <1>7 DEF JournalWriter
    <3>5. o <= q /\ q <= Len(g) /\ o <= Len(h)
      <4>1. q <= Len(g)
        BY <1>6, <3>4 DEF Journal, Placed
      <4>2. o <= q
        BY <1>6, <3>4
      <4>3. Len(h) = q + 1
        BY <3>2, <3>3, <3>4
      <4> QED
        BY <4>1, <4>2, <4>3
    <3>6. \A k \in 1 .. q : h[k] = g[k]
      <4>1. Super(txn[c]) \in JournalCell
        BY <1>7, SuperIs
      <4> QED
        BY <1>6, <3>1, <3>4, <3>5, <4>1, CutPut
    <3>7. w.off <= Len(h) /\ \A k \in 1 .. w.off : h[k] = g[k]
      BY <3>4, <3>5, <3>6
    <3>8. jnl' = [jnl EXCEPT ![d] = h] /\ jw' = [jw EXCEPT ![c][d] = u]
      BY <1>2, <2>2, <3>1
    <3> QED
      BY <2>2, <3>2, <3>3, <3>7, <3>8
  <2> QED
    BY <2>1, <2>2
<1>17. PICK h, u : /\ jnl' = [jnl EXCEPT ![d] = h] /\ jw' = [jw EXCEPT ![c][d] = u]
                   /\ h \in Seq(JournalCell) /\ u \in JournalWriter /\ Journal(h, u, a, db[d])
                   /\ u.off # 0 /\ u.hdr = v.hdr /\ u.orig = v.orig /\ u.mod = v.mod /\ u.done = v.done
                   /\ u.dirty = v.dirty /\ u.inJournal = v.inJournal
                   /\ u.hdr <= u.off /\ ~h[u.hdr].magic
                   /\ ~Several(c) => u.off = u.hdr + u.n /\ h = g
                   /\ Several(c) => Len(h) = u.off /\ h[u.off] = Super(txn[c]) /\ SuperName(h) = txn[c]
                   /\ w.off <= Len(h) /\ \A k \in 1 .. w.off : h[k] = g[k]
  BY <1>16
<1>18. jnl'[d] = h /\ jw'[c][d] = u /\ h # None
  <2>1. h # None
    BY <1>17, JournalAssumption
  <2> QED
    BY <1>3, <1>13, <1>17, <2>1 DEF Shapes
<1>19. SuperName(h) \in supers \cup {0}
       /\ (SuperName(h) \in {0, SuperName(jnl[d])} \/ (Several(c) /\ SuperName(h) = txn[c]))
  <2>1. CASE Several(c)
    <3>1. txn[c] \in supers
      BY <1>2, <1>3, <2>1 DEF Inv, Phases, Stage
    <3> QED
      BY <1>17, <2>1, <3>1
  <2>2. CASE ~Several(c)
    BY <1>6, <1>17, <2>2
  <2> QED
    BY <2>1, <2>2
<1>20. JournalKept(c, d)'
  <2>1. cache'[c][d] = a /\ db'[d] = db[d] /\ supers' = supers /\ lock'[c][d] = EXCLUSIVE
    BY <1>2, <1>3
  <2>2. a # None /\ w.orig = Len(a)
    BY <1>7 DEF JournalKept
  <2> QED
    BY <1>6, <1>17, <1>18, <1>19, <2>1, <2>2 DEF JournalKept
<1>21. DraftKept(c, d)'
  <2>1. pc'[c] = "sync" /\ Prepared(c, d)'
    BY <1>2, <1>3, <1>13 DEF Prepared, Shapes
  <2>2. ~u.done /\ ~Sealed(c, d)'
    BY <1>2, <1>3, <1>6, <1>13, <1>17, <1>18, <2>1 DEF Sealed, Shapes
  <2>3. ~(u.hdr > u.off)
    <3>1. PICK p, o \in Nat : p = u.hdr /\ o = u.off
      BY <1>17 DEF JournalWriter
    <3> QED
      BY <1>17, <3>1
  <2>4. cache'[c][d] = a /\ db'[d] = db[d] /\ txn' = txn /\ (Several(c)' <=> Several(c))
    BY <1>2 DEF Several, Reserved
  <2>5. Draft(n, u, db[d])
    BY <1>11, <1>17 DEF Draft, Drawn
  <2> QED
    BY <1>11, <1>12, <1>14, <1>15, <1>17, <1>18, <2>1, <2>2, <2>3, <2>4, <2>5 DEF DraftKept
<1> QED
  BY <1>2, <1>3, <1>5, <1>6, <1>11, <1>14, <1>17, <1>18, <1>19, <1>20, <1>21
-----------------------------------------------------------------------------
(* syncJournal *)

LEMMA WritingIs ==
  ASSUME Inv, NEW c \in Conns, Writing(c), NEW d, d = cur[c]
  PROVE  LET w == jw[c][d]  j == jnl[d]  m == mine[c][d] IN
         /\ d \in Files /\ InTxn(c, d) /\ Live(c, d) /\ w.off # 0 /\ ~w.done
         /\ op[c] \in {"write", "commit"} /\ (op[c] = "commit" => Preparing(c) /\ lock[c][d] = EXCLUSIVE)
         /\ j \in Seq(JournalCell) /\ w \in JournalWriter /\ cache[c][d] \in Seq(Page)
         /\ db[d] \in Seq(Page) /\ m \in Seq(Page)
         /\ JournalKept(c, d) /\ DraftKept(c, d)
         /\ Journal(j, w, cache[c][d], db[d]) /\ Draft(m, w, db[d]) /\ SuperName(j) \in supers \cup {0}
         /\ (Prepared(c, d) <=> op[c] = "commit")
         /\ pc[c] # "page" \/ op[c] = "write" =>
              /\ w.hdr <= w.off /\ ~(w.hdr > w.off) /\ (j[w.hdr].magic <=> pc[c] = "sync2")
              /\ ~(op[c] = "commit" /\ Several(c)) => w.off = w.hdr + w.n
         /\ pc[c] = "page" /\ op[c] = "commit" => w.hdr > w.off
         /\ op[c] = "commit" /\ Several(c) => Len(j) = w.off /\ j[w.off] = Super(txn[c])
<1> DEFINE w == jw[c][d]  j == jnl[d]  m == mine[c][d]
<1>1. Control(c) /\ Stage(c) /\ TypeOK
  BY DEF Inv, Base, Phases
<1>2. pc[c] \in {"sync", "count", "sync2", "page"} /\ op[c] \in {"write", "commit"} /\ InTxn(c, d)
  BY <1>1 DEF Control, Writing
<1>3. d \in Files
  BY <1>1, <1>2 DEF InTxn, TypeOK
<1>4. w.off # 0 /\ ~w.done
  BY <1>1 DEF Stage
<1>5. op[c] = "commit" => Preparing(c) /\ lock[c][d] = EXCLUSIVE
  BY <1>1, <1>2, <1>3 DEF Stage, Preparing
<1>6. Live(c, d)
  BY <1>2 DEF Live, Committed, Undone
<1>7. /\ JournalKept(c, d) /\ DraftKept(c, d)
      /\ j \in Seq(JournalCell) /\ w \in JournalWriter /\ cache[c][d] \in Seq(Page) /\ db[d] \in Seq(Page)
  BY <1>3, <1>4, <1>6, LiveIs
<1>8. Journal(j, w, cache[c][d], db[d]) /\ SuperName(j) \in supers \cup {0}
  BY <1>4, <1>7 DEF JournalKept
<1>9. (Prepared(c, d) <=> op[c] = "commit") /\ (Sealed(c, d) <=> op[c] = "commit" /\ pc[c] = "page")
  BY <1>2, <1>4 DEF Prepared, Sealed
<1>10. /\ m # None /\ Draft(m, w, db[d])
       /\ (op[c] = "commit" /\ pc[c] = "page") <=> w.hdr > w.off
       /\ w.hdr <= w.off => (j[w.hdr].magic <=> pc[c] = "sync2")
       /\ w.hdr <= w.off /\ ~(op[c] = "commit" /\ Several(c)) => w.off = w.hdr + w.n
       /\ op[c] = "commit" /\ Several(c) => Len(j) = w.off /\ j[w.off] = Super(txn[c])
  BY <1>2, <1>4, <1>7, <1>9 DEF DraftKept
<1>11. m \in Seq(Page)
  BY <1>1, <1>3, <1>10, DataTypes
<1>12. ~(w.hdr > w.off) => w.hdr <= w.off
  <2>1. PICK h, o \in Nat : h = w.hdr /\ o = w.off
    BY <1>7 DEF JournalWriter
  <2>2. ~(h > o) => h <= o
    OBVIOUS
  <2> QED
    BY <2>1, <2>2
<1> QED
  BY <1>2, <1>3, <1>4, <1>5, <1>6, <1>7, <1>8, <1>9, <1>10, <1>11, <1>12

LEMMA ExclusiveIs ==
  ASSUME Inv, NEW c \in Conns, NEW d \in Files, lock[c][d] = EXCLUSIVE
  PROVE  Exclusive(c, d)
BY DEF Inv, Base, Excluded, Exclusive, NoneAbove, NONE, SHARED

LEMMA SyncRecordsDoes ==
  ASSUME Inv, NEW c \in Conns, SyncRecords(c), NEW d, d = cur[c]
  PROVE  /\ d \in Files /\ Live(c, d) /\ jw[c][d].off # 0
         /\ jnl' = [jnl EXCEPT ![d] = jnl'[d]] /\ jnl'[d] \in Seq(JournalCell)
         /\ djnl' = [djnl EXCEPT ![d] = djnl'[d]] /\ djnl'[d] \in {djnl[d], jnl'[d]}
         /\ SuperName(jnl'[d]) \in {0, SuperName(jnl[d])}
         /\ jw[c][d].off <= Len(jnl'[d]) /\ \A k \in 1 .. jw[c][d].off : jnl'[d][k] = jnl[d][k]
         /\ \/ pc'[c] = "count" /\ ~IsHdr(jnl'[d], jw[c][d].off + 1) /\ lock'[c][d] = EXCLUSIVE
               /\ Len(jnl'[d]) = Len(jnl[d])
            \/ /\ pc'[c] = "run" /\ op[c] = "write" /\ ~jw[c][d].mod
               /\ jnl' = jnl /\ djnl' = djnl
         /\ JournalKept(c, d)' /\ DraftKept(c, d)'
<1> DEFINE w == jw[c][d]  a == cache[c][d]  m == mine[c][d]  j == jnl[d]
<1>1. pc[c] = "sync" /\ Writing(c)
  BY DEF SyncRecords, At, Writing
<1>2. /\ d \in Files /\ InTxn(c, d) /\ Live(c, d) /\ w.off # 0 /\ ~w.done
      /\ op[c] \in {"write", "commit"} /\ (op[c] = "commit" => Preparing(c) /\ lock[c][d] = EXCLUSIVE)
      /\ j \in Seq(JournalCell) /\ w \in JournalWriter /\ a \in Seq(Page)
      /\ db[d] \in Seq(Page) /\ m \in Seq(Page)
      /\ JournalKept(c, d) /\ DraftKept(c, d)
      /\ Journal(j, w, a, db[d]) /\ Draft(m, w, db[d]) /\ SuperName(j) \in supers \cup {0}
      /\ (Prepared(c, d) <=> op[c] = "commit")
      /\ w.hdr <= w.off /\ ~(w.hdr > w.off) /\ ~j[w.hdr].magic
      /\ ~(op[c] = "commit" /\ Several(c)) => w.off = w.hdr + w.n
      /\ op[c] = "commit" /\ Several(c) => Len(j) = w.off /\ j[w.off] = Super(txn[c])
  BY <1>1, WritingIs
<1>3. Shapes /\ FileShapes
  BY ShapesOK, FileShapesOK DEF Inv, Base
<1>4. /\ db' = db /\ supers' = supers /\ op' = op /\ cur' = cur /\ ddb' = ddb
      /\ cache' = cache /\ reads' = reads /\ mine' = mine /\ jw' = jw /\ txn' = txn
  BY DEF SyncRecords
<1>5. a # None /\ w.orig = Len(a) /\ (w.mod => lock[c][d] = EXCLUSIVE)
  BY <1>2 DEF JournalKept
<1>6. w.off \in Nat /\ w.hdr \in Nat /\ w.off <= Len(j) /\ 1 <= w.hdr
  BY <1>2 DEF Journal, Placed, JournalWriter
<1>7. Counter(m) = IF op[c] = "commit" THEN Counter(a) + 1 ELSE Counter(a)
  BY <1>2 DEF DraftKept
<1>8. m # None
  BY <1>2, JournalAssumption
<1>9. CASE ~Exclusive(c, d)
  <2>1. lock[c][d] # EXCLUSIVE
    BY <1>2, <1>9, ExclusiveIs
  <2>2. op[c] = "write" /\ ~w.mod
    BY <1>2, <1>5, <2>1
  <2>3. jnl' = jnl /\ djnl' = djnl /\ pc'[c] = "run"
    BY <1>3, <1>9 DEF SyncRecords, Go, Shapes
  <2>4. ~Prepared(c, d)' /\ ~Sealed(c, d)'
    BY <1>4, <2>2 DEF Prepared, Sealed
  <2>5. JournalKept(c, d)'
    BY <1>2, <1>4, <1>5, <2>2, <2>3 DEF JournalKept
  <2>6. DraftKept(c, d)'
    BY <1>2, <1>4, <1>7, <1>8, <2>2, <2>3, <2>4 DEF DraftKept
  <2> QED
    BY <1>2, <1>3, <1>6, <2>2, <2>3, <2>5, <2>6 DEF FileShapes
<1>10. CASE Exclusive(c, d)
  <2>1. PICK g : g = SpoilNext(j, w.off + 1)
    OBVIOUS
  <2>2. /\ g \in Seq(JournalCell) /\ Journal(g, w, a, db[d])
        /\ ~IsHdr(g, w.off + 1) /\ Len(g) = Len(j) /\ \A k \in 1 .. w.off : g[k] = j[k]
        /\ SuperName(g) \in {0, SuperName(j)}
    BY <1>2, <2>1, JournalSpoilt
  <2>3. /\ jnl' = [jnl EXCEPT ![d] = g] /\ pc' = [pc EXCEPT ![c] = "count"]
        /\ djnl' = [djnl EXCEPT ![d] = g] \/ djnl' = djnl
        /\ lock' = [lock EXCEPT ![c][d] = EXCLUSIVE]
    BY <1>10, <2>1 DEF SyncRecords, Go, Locked
  <2>4. jnl'[d] = g /\ pc'[c] = "count" /\ lock'[c][d] = EXCLUSIVE
        /\ djnl' = [djnl EXCEPT ![d] = djnl'[d]] /\ djnl'[d] \in {djnl[d], g}
    BY <1>2, <1>3, <2>3 DEF Shapes, FileShapes
  <2>5. (Prepared(c, d)' <=> op[c] = "commit") /\ ~Sealed(c, d)' /\ (Several(c)' => Several(c))
    <3>1. Reserved(c)' = Reserved(c)
      <4>1. lock[c][d] >= RESERVED
        BY <1>2 DEF InTxn
      <4>2. \A e \in Files : lock'[c][e] >= RESERVED <=> lock[c][e] >= RESERVED
        BY <1>2, <1>3, <2>3, <4>1 DEF Shapes, FileShapes, EXCLUSIVE, RESERVED
      <4> QED
        BY <4>2 DEF Reserved
    <3> QED
      BY <1>2, <1>4, <2>4, <3>1 DEF Prepared, Sealed, Several
  <2>6. JournalKept(c, d)'
    <3>1. g # None
      BY <2>2, JournalAssumption
    <3> QED
      BY <1>2, <1>4, <1>5, <2>2, <2>4, <3>1 DEF JournalKept
  <2>7. /\ g[w.hdr] = j[w.hdr]
        /\ op[c] = "commit" /\ Several(c) => Len(g) = w.off /\ g[w.off] = Super(txn[c])
    <3>1. PICK o, h \in Nat : o = w.off /\ h = w.hdr
      BY <1>6
    <3>2. h \in 1 .. o /\ o \in 1 .. o
      BY <1>2, <1>6, <3>1
    <3>3. g[h] = j[h] /\ g[o] = j[o]
      BY <2>2, <3>1, <3>2
    <3> QED
      BY <1>2, <2>2, <3>1, <3>3
  <2>8. ~Several(c) => ~Several(c)'
    BY <2>5
  <2>9. DraftKept(c, d)'
    <3>1. Several(c) => Several(c)'
      <4>1. lock[c][d] >= RESERVED
        BY <1>2 DEF InTxn
      <4>2. \A e \in Files : lock'[c][e] >= RESERVED <=> lock[c][e] >= RESERVED
        BY <1>2, <1>3, <2>3, <4>1 DEF Shapes, FileShapes, EXCLUSIVE, RESERVED
      <4>3. Reserved(c)' = Reserved(c)
        BY <4>2 DEF Reserved
      <4> QED
        BY <4>3 DEF Several
    <3> QED
      BY <1>2, <1>4, <1>7, <1>8, <2>4, <2>5, <2>7, <3>1 DEF DraftKept
  <2>10. jnl' = [jnl EXCEPT ![d] = jnl'[d]]
    BY <2>3, <2>4
  <2>11. w.off <= Len(g)
    BY <1>6, <2>2
  <2> QED
    BY <1>2, <2>2, <2>4, <2>6, <2>9, <2>10, <2>11
<1> QED
  BY <1>9, <1>10
LEMMA CountDoes ==
  ASSUME Inv, NEW c \in Conns, Count(c), NEW d, d = cur[c]
  PROVE  /\ d \in Files /\ Live(c, d) /\ jw[c][d].off # 0 /\ lock[c][d] = EXCLUSIVE
         /\ jnl' = [jnl EXCEPT ![d] = jnl'[d]] /\ jnl'[d] \in Seq(JournalCell)
         /\ Len(jnl'[d]) = Len(jnl[d])
         /\ \A k \in 1 .. Len(jnl[d]) : k # jw[c][d].hdr => jnl'[d][k] = jnl[d][k]
         /\ SuperName(jnl'[d]) \in {0, SuperName(jnl[d])}
         /\ ~IsHdr(jnl'[d], jw[c][d].off + 1)
         /\ JournalKept(c, d)' /\ DraftKept(c, d)'
<1> DEFINE w == jw[c][d]  a == cache[c][d]  m == mine[c][d]  j == jnl[d]
<1>1. pc[c] = "count" /\ Writing(c)
  BY DEF Count, At, Writing
<1>2. /\ d \in Files /\ InTxn(c, d) /\ Live(c, d) /\ w.off # 0 /\ ~w.done
      /\ op[c] \in {"write", "commit"}
      /\ j \in Seq(JournalCell) /\ w \in JournalWriter /\ a \in Seq(Page)
      /\ db[d] \in Seq(Page) /\ m \in Seq(Page)
      /\ JournalKept(c, d) /\ DraftKept(c, d)
      /\ Journal(j, w, a, db[d]) /\ Draft(m, w, db[d]) /\ SuperName(j) \in supers \cup {0}
      /\ (Prepared(c, d) <=> op[c] = "commit")
      /\ w.hdr <= w.off /\ ~(w.hdr > w.off) /\ ~j[w.hdr].magic
      /\ ~(op[c] = "commit" /\ Several(c)) => w.off = w.hdr + w.n
      /\ op[c] = "commit" /\ Several(c) => Len(j) = w.off /\ j[w.off] = Super(txn[c])
  BY <1>1, WritingIs
<1>3. Shapes /\ FileShapes
  BY ShapesOK, FileShapesOK DEF Inv, Base
<1>4. lock[c][d] = EXCLUSIVE /\ ~IsHdr(j, w.off + 1)
  BY <1>1 DEF Inv, Phases, Stage
<1>5. a # None /\ w.orig = Len(a)
  BY <1>2 DEF JournalKept
<1>6. w.off \in Nat /\ w.hdr \in Nat /\ w.off <= Len(j) /\ 1 <= w.hdr
  BY <1>2 DEF Journal, Placed, JournalWriter
<1>7. Counter(m) = IF op[c] = "commit" THEN Counter(a) + 1 ELSE Counter(a)
  BY <1>2 DEF DraftKept
<1>8. m # None
  BY <1>2, JournalAssumption
<1>9. PICK g : g = [j EXCEPT ![w.hdr] = [@ EXCEPT !.n = w.n, !.magic = TRUE]]
  OBVIOUS
<1>10. /\ g \in Seq(JournalCell) /\ Journal(g, w, a, db[d])
       /\ g[w.hdr].magic /\ Len(g) = Len(j) /\ ~IsHdr(g, w.off + 1)
       /\ \A k \in 1 .. Len(j) : k # w.hdr => g[k] = j[k]
       /\ SuperName(g) = SuperName(j) \/ SuperName(g) = 0
  <2>1. /\ j \in Seq(JournalCell) /\ w \in JournalWriter /\ a \in Seq(Page) /\ db[d] \in Seq(Page)
        /\ Journal(j, w, a, db[d]) /\ w.hdr <= w.off /\ ~IsHdr(j, w.off + 1)
    BY <1>2, <1>4
  <2>2. LET h == [j EXCEPT ![w.hdr] = [@ EXCEPT !.n = w.n, !.magic = TRUE]] IN
         /\ h \in Seq(JournalCell) /\ Journal(h, w, a, db[d])
         /\ h[w.hdr].magic /\ Len(h) = Len(j) /\ ~IsHdr(h, w.off + 1)
         /\ \A k \in 1 .. Len(j) : k # w.hdr => h[k] = j[k]
         /\ h[1].k = "hdr" /\ h[1].orig = w.orig
         /\ SuperName(h) = SuperName(j) \/ SuperName(h) = 0
    BY <2>1, JournalCounted, Zenon
  <2> QED
    BY <1>9, <2>2
<1>11. /\ jnl' = [jnl EXCEPT ![d] = g] /\ pc' = [pc EXCEPT ![c] = "sync2"]
       /\ db' = db /\ supers' = supers /\ op' = op /\ cur' = cur /\ ddb' = ddb /\ lock' = lock
       /\ cache' = cache /\ reads' = reads /\ mine' = mine /\ jw' = jw /\ txn' = txn /\ djnl' = djnl
  <2>1. jnl' = [jnl EXCEPT ![d][w.hdr] = [@ EXCEPT !.n = w.n, !.magic = TRUE]]
    BY DEF Count
  <2>2. jnl' = [jnl EXCEPT ![d] = g]
    BY <1>9, <2>1
  <2> QED
    BY <2>2 DEF Count, Go, local
<1>12. jnl'[d] = g /\ pc'[c] = "sync2" /\ jnl' = [jnl EXCEPT ![d] = jnl'[d]] /\ g # None
  <2>1. g # None
    BY <1>10, JournalAssumption
  <2> QED
    BY <1>2, <1>3, <1>11, <2>1 DEF Shapes, FileShapes
<1>13. JournalKept(c, d)'
  BY <1>2, <1>4, <1>5, <1>10, <1>11, <1>12 DEF JournalKept
<1>14. (Prepared(c, d)' <=> op[c] = "commit") /\ ~Sealed(c, d)' /\ (Several(c)' <=> Several(c))
  BY <1>2, <1>11, <1>12 DEF Prepared, Sealed, Several, Reserved
<1>15. op[c] = "commit" /\ Several(c) => Len(g) = w.off /\ g[w.off] = Super(txn[c])
  <2> SUFFICES ASSUME op[c] = "commit", Several(c) PROVE Len(g) = w.off /\ g[w.off] = Super(txn[c])
    OBVIOUS
  <2>1. PICK o, h \in Nat : o = w.off /\ h = w.hdr
    BY <1>6
  <2>2. j[h].k = "hdr"
    BY <1>2, <2>1 DEF Journal, Segment
  <2>3. j[o].k = "super"
    BY <1>2, <2>1 DEF Super
  <2>4. o # h /\ o \in 1 .. Len(j)
    BY <1>2, <1>6, <2>1, <2>2, <2>3
  <2>5. g[o] = j[o]
    BY <1>10, <2>1, <2>4
  <2> QED
    BY <1>2, <1>10, <2>1, <2>5
<1>16. DraftKept(c, d)'
  BY <1>2, <1>7, <1>8, <1>10, <1>11, <1>12, <1>14, <1>15 DEF DraftKept
<1> QED
  BY <1>2, <1>4, <1>10, <1>12, <1>13, <1>16

LEMMA SyncCountDoes ==
  ASSUME Inv, NEW c \in Conns, SyncCount(c), NEW d, d = cur[c]
  PROVE  /\ d \in Files /\ Live(c, d) /\ jw[c][d].off # 0 /\ lock[c][d] = EXCLUSIVE
         /\ jnl' = [jnl EXCEPT ![d] = jnl'[d]] /\ jnl'[d] \in Seq(JournalCell)
         /\ jw' = [jw EXCEPT ![c][d] = jw'[c][d]] /\ jw'[c][d] \in JournalWriter
         /\ djnl' = [djnl EXCEPT ![d] = jnl[d]] /\ jnl[d] \in Seq(JournalCell)
         /\ jw'[c][d].off # 0 /\ jw'[c][d].mod /\ jw'[c][d].hdr = jw[c][d].off + 1
         /\ jw'[c][d].orig = jw[c][d].orig /\ ~jw'[c][d].done
         /\ jw'[c][d].dirty = jw[c][d].dirty /\ jw'[c][d].need = {}
         /\ jw[c][d].off \in Nat /\ jw[c][d].off <= Len(jnl[d])
         /\ jw[c][d].off <= Len(jnl'[d]) /\ \A k \in 1 .. jw[c][d].off : jnl'[d][k] = jnl[d][k]
         /\ SuperName(jnl'[d]) \in {0, SuperName(jnl[d])} /\ SuperName(jnl[d]) \in supers \cup {0}
         /\ ~IsHdr(jnl[d], jw[c][d].off + 1)
         /\ op[c] = "commit" => jnl' = jnl
         /\ JournalKept(c, d)' /\ DraftKept(c, d)'
<1> DEFINE w == jw[c][d]  a == cache[c][d]  m == mine[c][d]  j == jnl[d]
<1>1. pc[c] = "sync2" /\ Writing(c)
  BY DEF SyncCount, At, Writing
<1>2. /\ d \in Files /\ InTxn(c, d) /\ Live(c, d) /\ w.off # 0 /\ ~w.done
      /\ op[c] \in {"write", "commit"}
      /\ j \in Seq(JournalCell) /\ w \in JournalWriter /\ a \in Seq(Page)
      /\ db[d] \in Seq(Page) /\ m \in Seq(Page)
      /\ JournalKept(c, d) /\ DraftKept(c, d)
      /\ Journal(j, w, a, db[d]) /\ Draft(m, w, db[d]) /\ SuperName(j) \in supers \cup {0}
      /\ (Prepared(c, d) <=> op[c] = "commit")
      /\ w.hdr <= w.off /\ ~(w.hdr > w.off) /\ j[w.hdr].magic
      /\ ~(op[c] = "commit" /\ Several(c)) => w.off = w.hdr + w.n
      /\ op[c] = "commit" /\ Several(c) => Len(j) = w.off /\ j[w.off] = Super(txn[c])
      /\ txn[c] \in Nat
  BY <1>1, WritingIs, LiveIs
<1>3. Shapes /\ FileShapes
  BY ShapesOK, FileShapesOK DEF Inv, Base
<1>4. lock[c][d] = EXCLUSIVE
  BY <1>1 DEF Inv, Phases, Stage
<1>5. a # None /\ w.orig = Len(a)
  BY <1>2 DEF JournalKept
<1>6. w.off \in Nat /\ w.off <= Len(j)
  BY <1>2 DEF Journal, Placed, JournalWriter
<1>7. Counter(m) = IF op[c] = "commit" THEN Counter(a) + 1 ELSE Counter(a)
  BY <1>2 DEF DraftKept
<1>8. m # None
  BY <1>2, JournalAssumption
<1>9. ~IsHdr(j, w.off + 1)
  BY <1>2, JournalTiled
<1>10. /\ djnl' = [djnl EXCEPT ![d] = j] /\ pc' = [pc EXCEPT ![c] = "page"]
       /\ db' = db /\ supers' = supers /\ op' = op /\ cur' = cur /\ ddb' = ddb /\ lock' = lock
       /\ cache' = cache /\ reads' = reads /\ mine' = mine /\ txn' = txn
  BY DEF SyncCount, Go
<1>11. pc'[c] = "page"
  BY <1>3, <1>10 DEF Shapes
<1>12. Several(c)' <=> Several(c)
  BY <1>10 DEF Several, Reserved
<1>13. CASE op[c] = "commit"
  <2>1. PICK v : v = [[w EXCEPT !.need = {}, !.mod = TRUE] EXCEPT !.hdr = w.off + 1]
    OBVIOUS
  <2>2. v \in JournalWriter /\ Journal(j, v, a, db[d])
    BY <1>2, <2>1, JournalSealed
  <2>3. /\ v.off = w.off /\ v.hdr = w.off + 1 /\ v.mod /\ v.orig = w.orig /\ v.done = w.done
        /\ v.dirty = w.dirty /\ v.inJournal = w.inJournal /\ v.need = {}
    BY <1>2, <2>1 DEF JournalWriter
  <2>4. jw' = [jw EXCEPT ![c][d] = v] /\ jnl' = jnl
    BY <1>13, <2>1 DEF SyncCount, Committing
  <2>5. jw'[c][d] = v /\ jnl'[d] = j /\ jnl' = [jnl EXCEPT ![d] = jnl'[d]]
    BY <1>2, <1>3, <2>4 DEF Shapes, FileShapes
  <2>6. v.hdr > v.off
    <3>1. PICK o \in Nat : o = w.off
      BY <1>6
    <3>2. o + 1 > o
      OBVIOUS
    <3> QED
      BY <2>3, <3>1, <3>2
  <2>7. Prepared(c, d)' /\ Sealed(c, d)'
    BY <1>10, <1>11, <1>13 DEF Prepared, Sealed
  <2>8. JournalKept(c, d)'
    BY <1>2, <1>4, <1>5, <1>10, <2>2, <2>3, <2>5, JournalAssumption DEF JournalKept
  <2>9. ~(v.hdr <= v.off)
    <3>1. PICK o \in Nat : o = w.off
      BY <1>6
    <3>2. ~(o + 1 <= o)
      OBVIOUS
    <3> QED
      BY <2>3, <3>1, <3>2
  <2>10. Draft(m, v, db[d])
    BY <1>2, <2>3 DEF Draft, Drawn
  <2>11. DraftKept(c, d)'
    BY <1>2, <1>7, <1>8, <1>10, <1>12, <1>13, <2>3, <2>5, <2>6, <2>7, <2>9, <2>10 DEF DraftKept
  <2> QED
    BY <1>2, <1>4, <1>6, <1>9, <1>10, <1>13, <2>2, <2>3, <2>4, <2>5, <2>8, <2>11
<1>14. CASE op[c] # "commit"
  <2>1. PICK v : v = [[w EXCEPT !.need = {}, !.mod = TRUE]
                        EXCEPT !.off = w.off + 1, !.hdr = w.off + 1, !.n = 0]
    OBVIOUS
  <2>2. PICK g : g = Put(j, w.off + 1, Hdr(txn[c], w.off + 1, w.orig), Zero)
    OBVIOUS
  <2>3. /\ g \in Seq(JournalCell) /\ v \in JournalWriter
        /\ Journal(g, v, a, db[d]) /\ Growing(g, v)
        /\ \A k \in 1 .. w.off : g[k] = j[k]
        /\ SuperName(g) \in {0, SuperName(j)}
    <3>1. w.off = w.hdr + w.n
      BY <1>2, <1>14
    <3>2. /\ j \in Seq(JournalCell) /\ w \in JournalWriter /\ a \in Seq(Page) /\ db[d] \in Seq(Page)
          /\ Journal(j, w, a, db[d]) /\ w.hdr <= w.off /\ j[w.hdr].magic /\ txn[c] \in Nat
      BY <1>2
    <3>3. LET h == Put(j, w.off + 1, Hdr(txn[c], w.off + 1, w.orig), Zero)
              u == [[w EXCEPT !.need = {}, !.mod = TRUE]
                     EXCEPT !.off = w.off + 1, !.hdr = w.off + 1, !.n = 0] IN
          /\ h \in Seq(JournalCell) /\ u \in JournalWriter
          /\ Journal(h, u, a, db[d]) /\ Growing(h, u)
          /\ \A k \in 1 .. w.off : h[k] = j[k]
          /\ SuperName(h) \in {0, SuperName(j)}
      BY <3>1, <3>2, JournalHeaded, Zenon
    <3> QED
      BY <2>1, <2>2, <3>3
  <2>4. /\ v.off = w.off + 1 /\ v.hdr = w.off + 1 /\ v.mod /\ v.orig = w.orig /\ v.done = w.done
        /\ v.dirty = w.dirty /\ v.inJournal = w.inJournal /\ v.need = {}
    BY <1>2, <2>1 DEF JournalWriter
  <2>5. jw' = [jw EXCEPT ![c][d] = v] /\ jnl' = [jnl EXCEPT ![d] = g]
    BY <1>14, <2>1, <2>2 DEF SyncCount, Committing
  <2>6. jw'[c][d] = v /\ jnl'[d] = g /\ jnl' = [jnl EXCEPT ![d] = jnl'[d]] /\ g # None
    <3>1. g # None
      BY <2>3, JournalAssumption
    <3> QED
      BY <1>2, <1>3, <2>5, <3>1 DEF Shapes, FileShapes
  <2>7. v.off # 0 /\ w.off <= Len(g)
    <3>1. PICK o \in Nat : o = w.off
      BY <1>6
    <3>2. o + 1 # 0 /\ o <= o + 1
      OBVIOUS
    <3>3. o + 1 <= Len(g)
      BY <2>3, <2>4, <3>1 DEF Journal, Placed
    <3>4. Len(g) \in Nat
      BY <2>3
    <3> QED
      BY <2>4, <3>1, <3>2, <3>3, <3>4
  <2>8. ~Prepared(c, d)' /\ ~Sealed(c, d)'
    BY <1>10, <1>14 DEF Prepared, Sealed
  <2>9. JournalKept(c, d)'
    BY <1>2, <1>4, <1>5, <1>10, <2>3, <2>4, <2>6, <2>7 DEF JournalKept
  <2>10. ~(v.hdr > v.off)
    <3>1. PICK o \in Nat : o = w.off
      BY <1>6
    <3>2. ~(o + 1 > o + 1)
      OBVIOUS
    <3> QED
      BY <2>4, <3>1, <3>2
  <2>11. Draft(m, v, db[d])
    BY <1>2, <2>4 DEF Draft, Drawn
  <2>12. DraftKept(c, d)'
    BY <1>2, <1>7, <1>8, <1>10, <1>11, <1>14, <2>3, <2>4, <2>6, <2>8, <2>10, <2>11 DEF DraftKept, Growing
  <2> QED
    BY <1>2, <1>4, <1>6, <1>9, <1>10, <1>14, <2>3, <2>4, <2>5, <2>6, <2>7, <2>9, <2>12
<1> QED
  BY <1>13, <1>14
-----------------------------------------------------------------------------
(* pager_write_pagelist, and the end of phase one in a file. *)

LEMMA WritePageDoes ==
  ASSUME Inv, NEW c \in Conns, WritePage(c), NEW d, d = cur[c]
  PROVE  /\ d \in Files /\ Live(c, d) /\ jw[c][d].off # 0 /\ lock[c][d] = EXCLUSIVE /\ jw[c][d].mod
         /\ db' = [db EXCEPT ![d] = db'[d]] /\ db'[d] \in Seq(Page) /\ Len(db'[d]) >= Len(db[d])
         /\ jw' = [jw EXCEPT ![c][d] = jw'[c][d]] /\ jw'[c][d] \in JournalWriter
         /\ jw'[c][d].off = jw[c][d].off /\ jw'[c][d].hdr = jw[c][d].hdr
         /\ jw'[c][d].mod = jw[c][d].mod /\ jw'[c][d].orig = jw[c][d].orig /\ ~jw'[c][d].done
         /\ jw'[c][d].need = jw[c][d].need
         /\ JournalKept(c, d)' /\ DraftKept(c, d)'
<1> DEFINE w == jw[c][d]  a == cache[c][d]  m == mine[c][d]  j == jnl[d]  f == db[d]
<1>1. pc[c] = "page" /\ Writing(c) /\ w.dirty # {}
  BY DEF WritePage, At, Writing
<1>2. /\ d \in Files /\ InTxn(c, d) /\ Live(c, d) /\ w.off # 0 /\ ~w.done
      /\ op[c] \in {"write", "commit"}
      /\ j \in Seq(JournalCell) /\ w \in JournalWriter /\ a \in Seq(Page)
      /\ f \in Seq(Page) /\ m \in Seq(Page)
      /\ JournalKept(c, d) /\ DraftKept(c, d)
      /\ Journal(j, w, a, f) /\ Draft(m, w, f) /\ SuperName(j) \in supers \cup {0}
      /\ (Prepared(c, d) <=> op[c] = "commit")
      /\ op[c] = "write" => w.hdr <= w.off /\ ~(w.hdr > w.off) /\ ~j[w.hdr].magic /\ w.off = w.hdr + w.n
      /\ op[c] = "commit" => w.hdr > w.off
      /\ op[c] = "commit" /\ Several(c) => Len(j) = w.off /\ j[w.off] = Super(txn[c])
  BY <1>1, WritingIs
<1>3. Shapes /\ FileShapes
  BY ShapesOK, FileShapesOK DEF Inv, Base
<1>4. lock[c][d] = EXCLUSIVE /\ w.mod
      /\ (op[c] = "write" => spill[c] \in w.dirty /\ spill[c] \notin w.need)
  BY <1>1 DEF Inv, Phases, Stage
<1>5. a # None /\ w.orig = Len(a)
  BY <1>2 DEF JournalKept
<1>6. PICK p : p = IF Committing(c) THEN Min(w.dirty) ELSE spill[c]
  OBVIOUS
<1>7. p \in w.dirty /\ p \notin w.need
  <2>1. CASE op[c] = "commit"
    <3>1. w.dirty \in SUBSET Nat
      BY <1>2 DEF JournalWriter
    <3>2. p \in w.dirty
      BY <1>1, <1>6, <2>1, <3>1, MinIs DEF Committing
    <3>3. w.need = {}
      BY <1>2, <2>1 DEF Journal, Segment
    <3> QED
      BY <3>2, <3>3
  <2>2. CASE op[c] # "commit"
    BY <1>2, <1>4, <1>6, <2>2 DEF Committing
  <2> QED
    BY <2>1, <2>2
<1>8. PICK v : v = [w EXCEPT !.dirty = @ \ {p}]
  OBVIOUS
<1>9. /\ v \in JournalWriter /\ v.dirty = w.dirty \ {p}
      /\ v.off = w.off /\ v.hdr = w.hdr /\ v.n = w.n /\ v.mod = w.mod
      /\ v.inJournal = w.inJournal /\ v.need = w.need /\ v.orig = w.orig /\ v.done = w.done
  BY <1>2, <1>8 DEF JournalWriter
<1>10. PICK g : g = Put(f, p, m[p], None)
  OBVIOUS
<1>11. g \in Seq(Page) /\ Draft(m, v, g) /\ Len(g) >= Len(f)
       /\ \A q \in 1 .. Len(f) : q # p => g[q] = f[q]
  <2>1. /\ m \in Seq(Page) /\ w \in JournalWriter /\ v \in JournalWriter /\ f \in Seq(Page)
        /\ Draft(m, w, f) /\ p \in w.dirty
        /\ v.dirty = w.dirty \ {p} /\ v.orig = w.orig /\ v.inJournal = w.inJournal
    BY <1>2, <1>7, <1>9
  <2> QED
    BY <1>10, <2>1, DraftPaged, SMTT(60)
<1>12. Journal(j, v, a, g)
  <2>1. Len(f) >= w.orig /\ w.orig \in Nat /\ Len(g) \in Nat /\ Len(f) \in Nat
    BY <1>2, <1>11 DEF Journal, Restorable, JournalWriter
  <2>2. Len(g) >= w.orig
    <3>1. PICK x, y, z \in Nat : x = Len(g) /\ y = Len(f) /\ z = w.orig
      BY <2>1
    <3> QED
      BY <1>11, <2>1, <3>1
  <2>3. ASSUME NEW q \in 1 .. w.orig
        PROVE  g[q] = f[q] \/ g[q] = a[q] \/ Recorded(j, w.hdr - 1, q)
    <3>1. CASE q # p
      <4>1. q \in 1 .. Len(f)
        <5>1. PICK y, z \in Nat : y = Len(f) /\ z = w.orig
          BY <2>1
        <5> QED
          BY <2>1, <2>3, <5>1
      <4> QED
        BY <1>11, <3>1, <4>1
    <3>2. CASE q = p
      <4>1. p > w.orig \/ p \in w.inJournal
        BY <1>2, <1>7 DEF Draft, Drawn
      <4>2. p \in w.inJournal
        <5>1. PICK z \in Nat : z = w.orig
          BY <2>1
        <5>2. ~(q > z)
          BY <2>3, <5>1
        <5> QED
          BY <3>2, <4>1, <5>1, <5>2
      <4> QED
        BY <1>2, <1>7, <3>2, <4>2 DEF Journal, Copied
    <3> QED
      BY <3>1, <3>2
  <2>4. /\ j \in Seq(JournalCell) /\ w \in JournalWriter /\ v \in JournalWriter
        /\ a \in Seq(Page) /\ f \in Seq(Page) /\ g \in Seq(Page) /\ Journal(j, w, a, f)
        /\ v.off = w.off /\ v.hdr = w.hdr /\ v.n = w.n /\ v.mod = w.mod
        /\ v.inJournal = w.inJournal /\ v.need = w.need /\ v.orig = w.orig /\ w.mod
    BY <1>2, <1>4, <1>9, <1>11
  <2>5. PICK x \in JournalWriter, y \in Seq(Page), z \in Seq(Page), b \in Seq(JournalCell) :
          x = w /\ y = a /\ z = f /\ b = j
    BY <2>4
  <2>6. \A q \in 1 .. x.orig : g[q] = z[q] \/ g[q] = y[q] \/ Recorded(b, x.hdr - 1, q)
    BY <2>3, <2>5
  <2>7. /\ g \in Seq(Page) /\ Journal(b, x, y, z) /\ v \in JournalWriter
        /\ v.off = x.off /\ v.hdr = x.hdr /\ v.n = x.n /\ v.mod = x.mod
        /\ v.inJournal = x.inJournal /\ v.need = x.need /\ v.orig = x.orig
        /\ (x.mod \/ g = z) /\ Len(g) >= x.orig
    BY <2>2, <2>4, <2>5
  <2>8. Journal(b, v, y, g)
    BY <2>5, <2>6, <2>7, JournalFile
  <2> QED
    BY <2>5, <2>8
<1>13. /\ db' = [db EXCEPT ![d] = g] /\ jw' = [jw EXCEPT ![c][d] = v]
       /\ IF op[c] = "commit" THEN pc' = pc ELSE pc' = [pc EXCEPT ![c] = "run"]
       /\ supers' = supers /\ op' = op /\ cur' = cur /\ ddb' = ddb /\ lock' = lock /\ jnl' = jnl
       /\ cache' = cache /\ reads' = reads /\ mine' = mine /\ txn' = txn /\ djnl' = djnl
  BY <1>6, <1>8, <1>10 DEF WritePage, Go, Committing
<1>14. /\ db'[d] = g /\ jw'[c][d] = v /\ db' = [db EXCEPT ![d] = db'[d]]
       /\ (op[c] = "commit" => pc'[c] = "page") /\ (op[c] # "commit" => pc'[c] = "run")
  BY <1>1, <1>2, <1>3, <1>13 DEF Shapes, FileShapes
<1>15. JournalKept(c, d)'
  BY <1>2, <1>4, <1>5, <1>9, <1>12, <1>13, <1>14, JournalAssumption DEF JournalKept
<1>16. (Prepared(c, d)' <=> op[c] = "commit") /\ (Sealed(c, d)' <=> op[c] = "commit")
       /\ (Several(c)' <=> Several(c))
  BY <1>2, <1>9, <1>13, <1>14 DEF Prepared, Sealed, Several, Reserved
<1>17. Counter(m) = (IF op[c] = "commit" THEN Counter(a) + 1 ELSE Counter(a)) /\ m # None
  BY <1>2, JournalAssumption DEF DraftKept
<1>18. op[c] = "commit" => ~(w.hdr <= w.off)
  <2>1. PICK h, o \in Nat : h = w.hdr /\ o = w.off
    BY <1>2 DEF JournalWriter
  <2> QED
    BY <1>2, <2>1
<1>19. DraftKept(c, d)'
  <2>0. /\ m # None /\ Draft(m, v, g) /\ ~v.done /\ jnl'[d] = j /\ jw'[c][d] = v /\ db'[d] = g
        /\ cache'[c][d] = a /\ mine'[c][d] = m /\ txn' = txn /\ cur' = cur /\ op' = op
    BY <1>2, <1>9, <1>11, <1>13, <1>14, <1>17
  <2>1. CASE op[c] = "commit"
    <3>1. v.hdr > v.off /\ ~(v.hdr <= v.off) /\ Prepared(c, d)' /\ Sealed(c, d)'
          /\ Counter(m) = Counter(a) + 1
      BY <1>2, <1>9, <1>16, <1>17, <1>18, <2>1
    <3>2. Several(c)' => Len(j) = v.off /\ j[v.off] = Super(txn[c])
      BY <1>2, <1>9, <1>16, <2>1
    <3> QED
      BY <2>0, <2>1, <3>1, <3>2 DEF DraftKept
  <2>2. CASE op[c] # "commit"
    <3>1. v.hdr <= v.off /\ ~(v.hdr > v.off) /\ ~j[v.hdr].magic /\ v.off = v.hdr + v.n
      BY <1>2, <1>9, <2>2
    <3>2. ~Prepared(c, d)' /\ ~Sealed(c, d)' /\ pc'[c] = "run" /\ Counter(m) = Counter(a)
      BY <1>14, <1>16, <1>17, <2>2
    <3> QED
      BY <2>0, <3>1, <3>2 DEF DraftKept
  <2> QED
    BY <2>1, <2>2
<1> QED
  BY <1>2, <1>4, <1>9, <1>11, <1>13, <1>14, <1>15, <1>19

LEMMA SyncDbDoes ==
  ASSUME Inv, NEW c \in Conns, SyncDb(c), NEW d, d = cur[c]
  PROVE  /\ d \in Files /\ Live(c, d) /\ jw[c][d].off # 0 /\ lock[c][d] = EXCLUSIVE /\ jw[c][d].mod
         /\ op[c] = "commit" /\ jw[c][d].dirty = {} /\ ddb' = [ddb EXCEPT ![d] = db[d]]
         /\ jw' = [jw EXCEPT ![c][d] = jw'[c][d]] /\ jw'[c][d] \in JournalWriter
         /\ jw'[c][d] = [jw[c][d] EXCEPT !.done = TRUE]
         /\ jw'[c][d].off = jw[c][d].off /\ jw'[c][d].hdr = jw[c][d].hdr
         /\ jw'[c][d].mod = jw[c][d].mod /\ jw'[c][d].orig = jw[c][d].orig /\ jw'[c][d].done
         /\ pc'[c] \in {"prepare", "commit", "fin"} /\ op' = op
         /\ JournalKept(c, d)' /\ DraftKept(c, d)'
<1> DEFINE w == jw[c][d]  a == cache[c][d]  m == mine[c][d]  j == jnl[d]  f == db[d]
<1>1. pc[c] = "page" /\ Writing(c) /\ w.dirty = {}
  BY DEF SyncDb, At, Writing
<1>2. /\ lock[c][d] = EXCLUSIVE /\ w.mod /\ op[c] # "write"
      /\ (op[c] = "commit" => djnl[d] = jnl[d])
  BY <1>1 DEF Inv, Phases, Stage
<1>3. /\ d \in Files /\ InTxn(c, d) /\ Live(c, d) /\ w.off # 0 /\ ~w.done
      /\ op[c] = "commit" /\ Preparing(c)
      /\ j \in Seq(JournalCell) /\ w \in JournalWriter /\ a \in Seq(Page)
      /\ f \in Seq(Page) /\ m \in Seq(Page)
      /\ JournalKept(c, d) /\ DraftKept(c, d)
      /\ Journal(j, w, a, f) /\ Draft(m, w, f) /\ SuperName(j) \in supers \cup {0}
      /\ Prepared(c, d)
      /\ w.hdr > w.off
      /\ Several(c) => Len(j) = w.off /\ j[w.off] = Super(txn[c])
  BY <1>1, <1>2, WritingIs
<1>4. Shapes /\ FileShapes
  BY ShapesOK, FileShapesOK DEF Inv, Base
<1>5. a # None /\ w.orig = Len(a)
  BY <1>3 DEF JournalKept
<1>6. PICK v : v = [w EXCEPT !.done = TRUE]
  OBVIOUS
<1>7. /\ v \in JournalWriter /\ v.dirty = w.dirty /\ v.done
      /\ v.off = w.off /\ v.hdr = w.hdr /\ v.n = w.n /\ v.mod = w.mod
      /\ v.inJournal = w.inJournal /\ v.need = w.need /\ v.orig = w.orig
  BY <1>3, <1>6 DEF JournalWriter
<1>8. /\ jw' = [jw EXCEPT ![c][d].done = TRUE] /\ ddb' = [ddb EXCEPT ![d] = f]
      /\ \E x \in {"prepare", "commit", "fin"} : pc' = [pc EXCEPT ![c] = x]
      /\ supers' = supers /\ op' = op /\ db' = db /\ lock' = lock /\ jnl' = jnl
      /\ cache' = cache /\ reads' = reads /\ mine' = mine /\ txn' = txn /\ djnl' = djnl
  BY DEF SyncDb, Go
<1>9. jw' = [jw EXCEPT ![c][d] = v] /\ jw'[c][d] = v /\ ddb'[d] = f /\ pc'[c] \in {"prepare", "commit", "fin"}
  BY <1>3, <1>4, <1>6, <1>8 DEF Shapes, FileShapes
<1>10. Journal(j, v, a, f)
  <2>1. f \in Seq(Page) /\ Len(f) >= w.orig
    BY <1>3 DEF Journal, Restorable
  <2> QED
    BY <1>2, <1>3, <1>7, <2>1, JournalFile
<1>11. JournalKept(c, d)'
  BY <1>2, <1>3, <1>5, <1>7, <1>8, <1>9, <1>10, JournalAssumption DEF JournalKept
<1>12. Prepared(c, d)' /\ Sealed(c, d)' /\ (Several(c)' <=> Several(c))
       /\ (Preparing(c)' \/ (op'[c] = "commit" /\ pc'[c] = "fin"))
  BY <1>3, <1>7, <1>8, <1>9 DEF Prepared, Sealed, Several, Reserved, Preparing
<1>13. Counter(m) = Counter(a) + 1 /\ m # None
  BY <1>3, JournalAssumption DEF DraftKept
<1>14. ~(w.hdr <= w.off)
  <2>1. PICK h, o \in Nat : h = w.hdr /\ o = w.off
    BY <1>3 DEF JournalWriter
  <2> QED
    BY <1>3, <2>1
<1>15. Draft(m, v, f)
  BY <1>3, <1>7 DEF Draft, Drawn
<1>16. DraftKept(c, d)'
  BY <1>1, <1>2, <1>3, <1>7, <1>8, <1>9, <1>12, <1>13, <1>14, <1>15 DEF DraftKept
<1> QED
  BY <1>1, <1>2, <1>3, <1>6, <1>7, <1>8, <1>9, <1>11, <1>16
-----------------------------------------------------------------------------
(* The playback of a transaction's own journal. *)

LEMMA UndoIs ==
  ASSUME Inv, NEW c \in Conns, pc[c] \in {"play", "fin"}, op[c] = "rollback", NEW d, d = cur[c]
  PROVE  /\ d \in Files /\ InTxn(c, d) /\ Live(c, d) /\ jw[c][d].off # 0
         /\ jnl[d] \in Seq(JournalCell) /\ jw[c][d] \in JournalWriter /\ cache[c][d] \in Seq(Page)
         /\ db[d] \in Seq(Page) /\ JournalKept(c, d)
         /\ Journal(jnl[d], jw[c][d], cache[c][d], db[d])
         /\ SuperName(jnl[d]) \in supers \cup {0} /\ Counts(jnl[d], supers)
         /\ (jw[c][d].mod => lock[c][d] = EXCLUSIVE)
<1>1. Control(c) /\ Stage(c) /\ TypeOK
  BY DEF Inv, Base, Phases
<1>2. InTxn(c, d) /\ jw[c][d].off # 0
  BY <1>1 DEF Control, Stage
<1>3. d \in Files /\ Live(c, d)
  BY <1>1, <1>2 DEF InTxn, TypeOK, Live, Committed, Undone
<1>4. /\ JournalKept(c, d) /\ jnl[d] \in Seq(JournalCell) /\ jw[c][d] \in JournalWriter
      /\ cache[c][d] \in Seq(Page) /\ db[d] \in Seq(Page)
  BY <1>2, <1>3, LiveIs
<1> QED
  BY <1>2, <1>3, <1>4 DEF JournalKept, Counts

LEMMA PlayDoes ==
  ASSUME Inv, NEW c \in Conns, op[c] = "rollback", PlayTruncate(c) \/ PlayPage(c), NEW d, d = cur[c]
  PROVE  /\ d \in Files /\ Live(c, d) /\ jw[c][d].off # 0 /\ lock[c][d] = EXCLUSIVE /\ jw[c][d].mod
         /\ db' = [db EXCEPT ![d] = db'[d]] /\ db'[d] \in Seq(Page) /\ Len(db'[d]) >= jw[c][d].orig
         /\ JournalKept(c, d)' /\ DraftKept(c, d)'
<1> DEFINE w == jw[c][d]  a == cache[c][d]  j == jnl[d]  f == db[d]
<1>1. pc[c] = "play"
  BY DEF PlayTruncate, PlayPage, At
<1>2. /\ d \in Files /\ InTxn(c, d) /\ Live(c, d) /\ w.off # 0
      /\ j \in Seq(JournalCell) /\ w \in JournalWriter /\ a \in Seq(Page)
      /\ f \in Seq(Page) /\ JournalKept(c, d) /\ Journal(j, w, a, f)
      /\ SuperName(j) \in supers \cup {0} /\ Counts(j, supers)
      /\ (w.mod => lock[c][d] = EXCLUSIVE)
  BY <1>1, UndoIs
<1>3. Shapes /\ FileShapes
  BY ShapesOK, FileShapesOK DEF Inv, Base
<1>4. PICK o \in Nat, l \in Nat : o = w.orig /\ l = Len(f) /\ o <= l
  BY <1>2 DEF Journal, Restorable, JournalWriter
<1>5. w.mod
  <2>1. CASE PlayTruncate(c)
    <3>1. Len(f) > PlayOrig(c, d)
      BY <2>1 DEF PlayTruncate
    <3>2. ~w.mod => ~(Len(f) > PlayOrig(c, d))
      BY <1>4 DEF PlayOrig
    <3> QED
      BY <3>1, <3>2
  <2>2. CASE PlayPage(c)
    BY <1>2, <2>2 DEF PlayPage, ToPlay, PlayRecords
  <2> QED
    BY <2>1, <2>2
<1>6. PlayOrig(c, d) = o /\ PlayRecords(c, d) = Records(j, w.hdr - 1)
  BY <1>2, <1>4, <1>5 DEF PlayOrig, PlayRecords
<1>7. \E g \in Seq(Page) : /\ db' = [db EXCEPT ![d] = g] /\ Len(g) >= o
                           /\ \A q \in 1 .. o : g[q] = f[q] \/ g[q] = a[q]
  <2>1. CASE PlayTruncate(c)
    <3>1. PICK g : g = Cut(f, o)
      OBVIOUS
    <3>2. g \in Seq(Page) /\ Len(g) = o /\ \A q \in 1 .. o : g[q] = f[q]
      BY <1>2, <1>4, <3>1, CutIs
    <3>3. db' = [db EXCEPT ![d] = g]
      BY <1>6, <2>1, <3>1 DEF PlayTruncate
    <3>4. Len(g) >= o
      BY <1>4, <3>2
    <3> QED
      BY <3>2, <3>3, <3>4
  <2>2. CASE PlayPage(c)
    <3>1. PICK R : R = Records(j, w.hdr - 1)
      OBVIOUS
    <3>2. PICK p : p = Min(ToPlay(c, d))
      OBVIOUS
    <3>3. \A q \in OldPages(j, R) : q \in 1 .. o /\ OldPage(j, R, q) = a[q]
      <4>1. /\ \A q \in OldPages(j, Records(j, w.hdr - 1)) :
                 q \in 1 .. w.orig /\ OldPage(j, Records(j, w.hdr - 1), q) = a[q]
            /\ \A q \in 1 .. w.orig : Recorded(j, w.hdr - 1, q) => q \in OldPages(j, Records(j, w.hdr - 1))
        BY <1>2, <1>5, JournalPlayed, Zenon
      <4> QED
        BY <1>4, <3>1, <4>1
    <3>4. ToPlay(c, d) \subseteq OldPages(j, R) /\ ToPlay(c, d) # {}
      BY <1>6, <2>2, <3>1 DEF ToPlay, PlayPage
    <3>5. ToPlay(c, d) \in SUBSET Nat
      BY <3>3, <3>4
    <3>6. p \in OldPages(j, R)
      BY <3>2, <3>4, <3>5, MinIs
    <3>7. p \in 1 .. o /\ OldPage(j, R, p) = a[p]
      BY <3>3, <3>6
    <3>8. a[p] \in Page
      <4>1. o = Len(a)
        BY <1>2, <1>4 DEF JournalKept
      <4> QED
        BY <1>2, <3>7, <4>1
    <3>9. db' = [db EXCEPT ![d] = Put(f, p, a[p], None)]
      BY <1>6, <2>2, <3>1, <3>2, <3>7 DEF PlayPage
    <3>10. PICK i \in Nat \ {0}, x \in Page : i = p /\ x = a[p]
      BY <1>4, <3>7, <3>8
    <3>11. PICK g : g = Put(f, i, x, None)
      OBVIOUS
    <3>12. /\ g \in Seq(Page)
           /\ (l <= i => Len(g) = i) /\ (i <= l => Len(g) = l)
           /\ g[i] = x
           /\ \A k \in 1 .. l : k # i => g[k] = f[k]
      BY <1>2, <1>4, <3>10, <3>11, PutPage
    <3>13. Len(g) >= o /\ \A q \in 1 .. o : g[q] = f[q] \/ g[q] = a[q]
      <4>1. i \in 1 .. o
        BY <3>7, <3>10
      <4>2. o <= l
        BY <1>4
      <4>3. Len(g) >= o
        BY <3>12, <4>1, <4>2
      <4>4. \A q \in 1 .. o : q # i => g[q] = f[q]
        BY <3>12, <4>2
      <4>5. g[i] = a[i]
        BY <3>10, <3>12
      <4> QED
        BY <4>3, <4>4, <4>5
    <3> QED
      BY <3>9, <3>10, <3>11, <3>12, <3>13
  <2> QED
    BY <2>1, <2>2
<1>8. PICK g \in Seq(Page) : /\ db' = [db EXCEPT ![d] = g] /\ Len(g) >= o
                             /\ \A q \in 1 .. o : g[q] = f[q] \/ g[q] = a[q]
  BY <1>7
<1>9. db'[d] = g
  BY <1>2, <1>3, <1>8 DEF FileShapes
<1>10. Journal(j, w, a, g)
  <2>1. Len(g) >= w.orig /\ \A q \in 1 .. w.orig : g[q] = f[q] \/ g[q] = a[q] \/ Recorded(j, w.hdr - 1, q)
    BY <1>4, <1>8
  <2>2. g \in Seq(Page)
    BY <1>8
  <2> QED
    BY <1>2, <1>5, <2>1, <2>2, JournalFile
<1>11. supers' = supers /\ op' = op /\ lock' = lock /\ jnl' = jnl
       /\ cache' = cache /\ mine' = mine /\ jw' = jw
  BY DEF PlayTruncate, PlayPage, local
<1>12. JournalKept(c, d)'
  BY <1>2, <1>9, <1>10, <1>11 DEF JournalKept
<1>13. DraftKept(c, d)'
  BY <1>11 DEF DraftKept
<1> QED
  BY <1>2, <1>4, <1>5, <1>8, <1>9, <1>12, <1>13
-----------------------------------------------------------------------------
(* What a step leaves of the files. *)

Same(e) == db'[e] = db[e] /\ jnl'[e] = jnl[e] /\ ddb'[e] = ddb[e] /\ djnl'[e] = djnl[e]
Touches(c, e) == lock[c][e] >= RESERVED \/ NoneAbove(c, e, RESERVED)

LEMMA WhoTouches ==
  ASSUME Inv, NEW c \in Conns, Acts(c), NEW e \in Files
  PROVE  (Same(e) \/ Touches(c, e)) /\ (db'[e] = db[e] \/ lock[c][e] = EXCLUSIVE)
<1> USE DEF disk, Same, At, InTxn, LocksHeld, Control, Recovering, Alone, NONE, SHARED, RESERVED,
            PENDING, EXCLUSIVE, Touches
<1>1. FileShapes /\ ControlTypes(c) /\ LocksHeld(c) /\ Control(c)
  BY ControlTyped, FileShapesOK DEF Inv, Base
<1>2. CASE HotExists(c)
  BY <1>2 DEF HotExists
<1>3. CASE HotReserved(c)
  BY <1>3 DEF HotReserved
<1>4. CASE HotEmpty(c)
  BY <1>1, <1>4 DEF HotEmpty, ControlTypes, FileShapes
<1>5. CASE HotByte(c)
  BY <1>5 DEF HotByte
<1>6. CASE HotLock(c)
  BY <1>6 DEF HotLock
<1>7. CASE HotOpen(c)
  BY <1>1, <1>7 DEF HotOpen, ControlTypes, FileShapes
<1>8. CASE PlayTruncate(c)
  <2>1. e # cur[c] \/ lock[c][e] = EXCLUSIVE
    <3>1. CASE op[c] = "hot"
      BY <1>1, <1>8, <3>1 DEF PlayTruncate, ControlTypes
    <3>2. CASE op[c] = "rollback"
      BY <1>8, <3>2, PlayDoes
    <3> QED
      BY <1>1, <1>8, <3>1, <3>2 DEF PlayTruncate
  <2> QED
    BY <1>1, <1>8, <2>1 DEF PlayTruncate, FileShapes
<1>9. CASE PlayPage(c)
  <2>1. e # cur[c] \/ lock[c][e] = EXCLUSIVE
    <3>1. CASE op[c] = "hot"
      BY <1>1, <1>9, <3>1 DEF PlayPage, ControlTypes
    <3>2. CASE op[c] = "rollback"
      BY <1>9, <3>2, PlayDoes
    <3> QED
      BY <1>1, <1>9, <3>1, <3>2 DEF PlayPage
  <2> QED
    BY <1>1, <1>9, <2>1 DEF PlayPage, FileShapes
<1>10. CASE PlaySync(c)
  BY <1>1, <1>10 DEF PlaySync, ControlTypes, FileShapes
<1>11. CASE Fin(c)
  BY <1>1, <1>11 DEF Fin, ControlTypes, FileShapes
<1>12. CASE FinSync(c)
  BY <1>1, <1>12 DEF FinSync, ControlTypes, FileShapes
<1>13. CASE Unlock(c)
  BY <1>13 DEF Unlock
<1>14. CASE DelSuper(c)
  BY <1>14 DEF DelSuper
<1>15. CASE NextFile(c)
  BY <1>15 DEF NextFile
<1>16. CASE Check(c)
  BY <1>16 DEF Check
<1>17. CASE CommitLock(c)
  BY <1>17 DEF CommitLock
<1>18. CASE WriteSuper(c)
  BY <1>18 DEF WriteSuper
<1>19. CASE Prepare(c)
  BY <1>1, <1>19 DEF Prepare, ControlTypes, FileShapes
<1>20. CASE SyncRecords(c)
  BY <1>1, <1>20 DEF SyncRecords, ControlTypes, FileShapes
<1>21. CASE Count(c)
  BY <1>1, <1>21 DEF Count, ControlTypes, FileShapes
<1>22. CASE SyncCount(c)
  BY <1>1, <1>22 DEF SyncCount, ControlTypes, FileShapes
<1>23. CASE WritePage(c)
  <2>1. e # cur[c] \/ lock[c][e] = EXCLUSIVE
    BY <1>23, WritePageDoes
  <2> QED
    BY <1>1, <1>23, <2>1 DEF WritePage, FileShapes
<1>24. CASE SyncDb(c)
  BY <1>1, <1>24 DEF SyncDb, ControlTypes, FileShapes
<1>25. CASE DeleteSuper(c)
  BY <1>25 DEF DeleteSuper
<1>26. CASE End(c)
  BY <1>26 DEF End
<1>27. CASE Commit(c)
  BY <1>27 DEF Commit
<1>28. CASE Rollback(c)
  BY <1>28 DEF Rollback
<1>29. CASE Crash(c)
  BY <1>29 DEF Crash
<1>30. ASSUME NEW d \in Files, Open(c, d) PROVE (Same(e) \/ Touches(c, e)) /\ (db'[e] = db[e] \/ lock[c][e] = EXCLUSIVE)
  BY <1>30 DEF Open
<1>31. ASSUME NEW d \in Files, Reserve(c, d) PROVE (Same(e) \/ Touches(c, e)) /\ (db'[e] = db[e] \/ lock[c][e] = EXCLUSIVE)
  BY <1>31 DEF Reserve
<1>32. ASSUME NEW d \in Files, NEW p \in Pages, Write(c, d, p) PROVE (Same(e) \/ Touches(c, e)) /\ (db'[e] = db[e] \/ lock[c][e] = EXCLUSIVE)
  BY <1>1, <1>32 DEF Write, ControlTypes, FileShapes
<1>33. ASSUME NEW d \in Files, NEW p \in Pages, Spill(c, d, p) PROVE (Same(e) \/ Touches(c, e)) /\ (db'[e] = db[e] \/ lock[c][e] = EXCLUSIVE)
  BY <1>33 DEF Spill
<1> QED
  BY <1>2, <1>3, <1>4, <1>5, <1>6, <1>7, <1>8, <1>9, <1>10, <1>11, <1>12, <1>13, <1>14, <1>15,
     <1>16, <1>17, <1>18, <1>19, <1>20, <1>21, <1>22, <1>23, <1>24, <1>25, <1>26, <1>27, <1>28,
     <1>29, <1>30, <1>31, <1>32, <1>33 DEF Acts, Step

LEMMA OthersSafe ==
  ASSUME Inv, NEW c \in Conns, Acts(c), NEW o \in Conns, o # c, NEW e \in Files
  PROVE  /\ lock[o][e] >= RESERVED => Same(e)
         /\ lock[o][e] # NONE => db'[e] = db[e]
<1>1. (Same(e) \/ Touches(c, e)) /\ (db'[e] = db[e] \/ lock[c][e] = EXCLUSIVE)
  BY WhoTouches
<1>2. /\ lock[c][e] >= RESERVED => lock[o][e] <= SHARED
      /\ lock[c][e] = EXCLUSIVE => lock[o][e] = NONE
      /\ NoneAbove(c, e, RESERVED) => lock[o][e] < RESERVED
      /\ lock[o][e] \in 0 .. 4
  BY DataTypes DEF Inv, Base, Excluded, NoneAbove
<1> QED
  BY <1>1, <1>2 DEF Touches, InTxn, NONE, SHARED, RESERVED
-----------------------------------------------------------------------------
(* What a step does to the super-journals that are named. *)

LEMMA WhoMovesSupers ==
  ASSUME NEW c \in Conns, Acts(c)
  PROVE  \/ UNCHANGED << supers, dsupers, children >>
         \/ WriteSuper(c) \/ DelSuper(c) \/ DeleteSuper(c)
<1> USE DEF disk, ghosts
<1>2. CASE HotExists(c)
  BY <1>2 DEF HotExists
<1>3. CASE HotReserved(c)
  BY <1>3 DEF HotReserved
<1>4. CASE HotEmpty(c)
  BY <1>4 DEF HotEmpty
<1>5. CASE HotByte(c)
  BY <1>5 DEF HotByte
<1>6. CASE HotLock(c)
  BY <1>6 DEF HotLock
<1>7. CASE HotOpen(c)
  BY <1>7 DEF HotOpen
<1>8. CASE PlayTruncate(c)
  BY <1>8 DEF PlayTruncate
<1>9. CASE PlayPage(c)
  BY <1>9 DEF PlayPage
<1>10. CASE PlaySync(c)
  BY <1>10 DEF PlaySync
<1>11. CASE Fin(c)
  BY <1>11 DEF Fin
<1>12. CASE FinSync(c)
  BY <1>12 DEF FinSync
<1>13. CASE Unlock(c)
  BY <1>13 DEF Unlock
<1>14. CASE DelSuper(c)
  BY <1>14
<1>15. CASE NextFile(c)
  BY <1>15 DEF NextFile
<1>16. CASE Check(c)
  BY <1>16 DEF Check
<1>17. CASE CommitLock(c)
  BY <1>17 DEF CommitLock
<1>18. CASE WriteSuper(c)
  BY <1>18
<1>19. CASE Prepare(c)
  BY <1>19 DEF Prepare
<1>20. CASE SyncRecords(c)
  BY <1>20 DEF SyncRecords
<1>21. CASE Count(c)
  BY <1>21 DEF Count
<1>22. CASE SyncCount(c)
  BY <1>22 DEF SyncCount
<1>23. CASE WritePage(c)
  BY <1>23 DEF WritePage
<1>24. CASE SyncDb(c)
  BY <1>24 DEF SyncDb
<1>25. CASE DeleteSuper(c)
  BY <1>25
<1>26. CASE End(c)
  BY <1>26 DEF End
<1>27. CASE Commit(c)
  BY <1>27 DEF Commit
<1>28. CASE Rollback(c)
  BY <1>28 DEF Rollback
<1>29. CASE Crash(c)
  BY <1>29 DEF Crash
<1>30. ASSUME NEW d \in Files, Open(c, d) PROVE UNCHANGED << supers, dsupers, children >> \/ WriteSuper(c) \/ DelSuper(c) \/ DeleteSuper(c)
  BY <1>30 DEF Open
<1>31. ASSUME NEW d \in Files, Reserve(c, d) PROVE UNCHANGED << supers, dsupers, children >> \/ WriteSuper(c) \/ DelSuper(c) \/ DeleteSuper(c)
  BY <1>31 DEF Reserve
<1>32. ASSUME NEW d \in Files, NEW p \in Pages, Write(c, d, p) PROVE UNCHANGED << supers, dsupers, children >> \/ WriteSuper(c) \/ DelSuper(c) \/ DeleteSuper(c)
  BY <1>32 DEF Write
<1>33. ASSUME NEW d \in Files, NEW p \in Pages, Spill(c, d, p) PROVE UNCHANGED << supers, dsupers, children >> \/ WriteSuper(c) \/ DelSuper(c) \/ DeleteSuper(c)
  BY <1>33 DEF Spill
<1> QED
  BY <1>2, <1>3, <1>4, <1>5, <1>6, <1>7, <1>8, <1>9, <1>10, <1>11, <1>12, <1>13, <1>14, <1>15,
     <1>16, <1>17, <1>18, <1>19, <1>20, <1>21, <1>22, <1>23, <1>24, <1>25, <1>26, <1>27, <1>28,
     <1>29, <1>30, <1>31, <1>32, <1>33 DEF Acts, Step

LEMMA DelSuperDoes ==
  ASSUME Inv, NEW c \in Conns, DelSuper(c)
  PROVE  /\ supers' \subseteq supers /\ dsupers' = dsupers
         /\ \A e \in Files : SuperName(jnl[e]) # 0 /\ SuperName(jnl[e]) \in supers => SuperName(jnl[e]) \in supers'
<1>1. /\ supers' = IF OthersName(c) THEN supers ELSE supers \ {sup[c]}
      /\ dsupers' = dsupers /\ pc[c] = "delsuper"
  BY DEF DelSuper, At
<1>2. sup[c] # 0 /\ SuperName(jnl[cur[c]]) # sup[c]
  BY <1>1 DEF Inv, Base, Control, Supered, SupersKept
<1>3. ASSUME NEW e \in Files, SuperName(jnl[e]) # 0, SuperName(jnl[e]) \in supers,
             SuperName(jnl[e]) \notin supers'
      PROVE  FALSE
  <2>1. ~OthersName(c) /\ SuperName(jnl[e]) = sup[c]
    BY <1>1, <1>3
  <2>2. e \in children[sup[c]]
    BY <1>3, <2>1 DEF Inv, Supered, Names
  <2>3. e # cur[c]
    BY <1>2, <2>1
  <2> QED
    BY <2>1, <2>2, <2>3 DEF OthersName
<1>4. supers' \subseteq supers
  BY <1>1
<1> QED
  BY <1>1, <1>3, <1>4

LEMMA SupersMove ==
  ASSUME Inv, NEW c \in Conns, Acts(c), NEW e \in Files
  PROVE  /\ (DeleteSuper(c) => SuperName(jnl[e]) # txn[c])
            => /\ Counts(jnl[e], supers') <=> Counts(jnl[e], supers)
               /\ (SuperName(jnl[e]) \in supers' \cup {0}) <=> (SuperName(jnl[e]) \in supers \cup {0})
         /\ (DeleteSuper(c) => SuperName(djnl[e]) # txn[c])
            => (Counts(djnl[e], dsupers') <=> Counts(djnl[e], dsupers))
<1>1. CASE UNCHANGED << supers, dsupers, children >>
  BY <1>1
<1>2. CASE WriteSuper(c)
  <2>1. supers' = supers \cup {txn[c]} /\ dsupers' = dsupers \cup {txn[c]} /\ pc[c] = "super"
    BY <1>2 DEF WriteSuper, At
  <2>2. txn[c] # 0
    BY <2>1 DEF Inv, Base, Control, TypeOK, InTxn, TxnKept
  <2>3. txn[c] \notin {SuperName(jnl[e]), SuperName(djnl[e])}
    BY <2>1, <2>2 DEF Inv, Supered, NamesOwned
  <2> QED
    BY <2>1, <2>3 DEF Counts
<1>3. CASE DelSuper(c)
  BY <1>3, DelSuperDoes DEF Counts
<1>4. CASE DeleteSuper(c)
  <2>1. supers' = supers \ {txn[c]} /\ dsupers' = dsupers \ {txn[c]}
    BY <1>4 DEF DeleteSuper
  <2> QED
    BY <1>4, <2>1 DEF Counts
<1> QED
  BY <1>1, <1>2, <1>3, <1>4, WhoMovesSupers

(* Nobody else's journal names it. *)
LEMMA OthersNamed ==
  ASSUME Inv, NEW c \in Conns, Acts(c), NEW o \in Conns, o # c, NEW e \in Files, lock[o][e] >= RESERVED
  PROVE  /\ Counts(jnl[e], supers') <=> Counts(jnl[e], supers)
         /\ (SuperName(jnl[e]) \in supers' \cup {0}) <=> (SuperName(jnl[e]) \in supers \cup {0})
<1>1. ~InTxn(c, e)
  <2>1. lock[c][e] \in 0 .. 4 /\ lock[o][e] \in 0 .. 4
    BY DataTypes DEF Inv, Base
  <2> QED
    BY <2>1 DEF Inv, Base, Excluded, InTxn, NONE, SHARED, RESERVED
<1>2. DeleteSuper(c) => SuperName(jnl[e]) # txn[c]
  <2>1. DeleteSuper(c) => txn[c] # 0
    BY DEF DeleteSuper, At, Inv, Base, Control, TypeOK, InTxn, TxnKept
  <2> QED
    BY <1>1, <2>1 DEF Inv, Supered, NamesOwned
<1> QED
  BY <1>2, SupersMove
-----------------------------------------------------------------------------
(* A transaction's journal and draft, kept. *)

DraftDoes(c, e) ==
  /\ op[c] # "rollback" /\ op'[c] # "rollback"
  /\ Prepared(c, e)' <=> Prepared(c, e)
  /\ Sealed(c, e)' <=> Sealed(c, e)
  /\ (cur[c] = e /\ pc[c] = "sync2")' <=> (cur[c] = e /\ pc[c] = "sync2")
  /\ Prepared(c, e) => (Several(c)' <=> Several(c))
  /\ jw[c][e].done => Preparing(c)' \/ (op'[c] = "commit" /\ pc'[c] = "fin")
  /\ ddb'[e] = ddb[e] /\ djnl'[e] = djnl[e]

Frame(c, e) ==
  /\ Live(c, e)
  /\ db'[e] = db[e] /\ jnl'[e] = jnl[e]
  /\ jw'[c][e] = jw[c][e] /\ mine'[c][e] = mine[c][e] /\ cache'[c][e] = cache[c][e]
  /\ txn'[c] = txn[c]
  /\ lock[c][e] = EXCLUSIVE => lock'[c][e] = EXCLUSIVE
  /\ op'[c] = "rollback" \/ DraftDoes(c, e)

LEMMA FrameKept ==
  ASSUME Inv, NEW c \in Conns, Acts(c), ~DeleteSuper(c), NEW e \in Files, Frame(c, e)
  PROVE  JournalKept(c, e)' /\ DraftKept(c, e)'
<1>1. JournalKept(c, e) /\ DraftKept(c, e)
  BY LiveIs DEF Frame
<1>2. (SuperName(jnl[e]) \in supers' \cup {0}) <=> (SuperName(jnl[e]) \in supers \cup {0})
  BY SupersMove DEF Frame
<1>3. JournalKept(c, e)'
  BY <1>1, <1>2 DEF JournalKept, Frame
<1>4. DraftKept(c, e)'
  <2>1. CASE op'[c] = "rollback"
    BY <2>1 DEF DraftKept
  <2>2. CASE DraftDoes(c, e)
    BY <1>1, <2>2 DEF DraftKept, Frame, DraftDoes
  <2> QED
    BY <2>1, <2>2 DEF Frame
<1> QED
  BY <1>3, <1>4

(* Of another connection. *)
LEMMA OthersLive ==
  ASSUME Inv, NEW c \in Conns, Acts(c), NEW o \in Conns, o # c, NEW e \in Files, Live(o, e)'
  PROVE  Live(o, e) /\ Same(e) /\ JournalKept(o, e)' /\ DraftKept(o, e)'
<1>1. Alike(o)
  BY Others DEF Inv, Base
<1>2. Live(o, e) /\ InTxn(o, e)
  BY <1>1 DEF Alike, Live, InTxn, Committed, Undone
<1>3. Same(e) /\ ((SuperName(jnl[e]) \in supers' \cup {0}) <=> (SuperName(jnl[e]) \in supers \cup {0}))
  BY <1>2, OthersSafe, OthersNamed DEF InTxn
<1>4. JournalKept(o, e) /\ DraftKept(o, e)
  BY <1>2, LiveIs
<1>5. JournalKept(o, e)'
  BY <1>1, <1>3, <1>4 DEF JournalKept, Alike, Same
<1>6. DraftKept(o, e)'
  BY <1>1, <1>3, <1>4 DEF DraftKept, Alike, Same, Prepared, Sealed, Several, Reserved, Preparing
<1> QED
  BY <1>2, <1>3, <1>5, <1>6

(* Of one that reserves a file. *)
LEMMA ReserveDoes ==
  ASSUME Inv, NEW c \in Conns, NEW d \in Files, Reserve(c, d)
  PROVE  /\ jw' = [jw EXCEPT ![c][d] = jw'[c][d]] /\ jw'[c][d] \in JournalWriter
         /\ jw'[c][d] = [NoJw EXCEPT !.orig = Len(db[d])] /\ mine[c][d] = None
         /\ db[d] = cache[c][d] /\ ~IsHdr(jnl[d], 1) /\ Store(d) = db[d]
         /\ JournalKept(c, d)' /\ DraftKept(c, d)'
<1> USE DEF NONE, SHARED, RESERVED, EXCLUSIVE
<1>1. /\ pc[c] = "run" /\ d \in reads[c] /\ lock[c][d] = SHARED
      /\ jw' = [jw EXCEPT ![c][d].orig = Len(db[d])]
      /\ UNCHANGED << db, jnl, cache, mine >>
  BY DEF Reserve, At, disk
<1>2. ~InTxn(c, d)
  BY <1>1 DEF InTxn
<1>3. jw[c][d] = NoJw /\ mine[c][d] = None
  BY <1>2 DEF Inv, Base, Unused, NothingDone
<1>4. ~Live(c, d)
  BY <1>2 DEF Live
<1>5. ~IsHdr(jnl[d], 1)
  BY <1>1, <1>2, <1>4 DEF Inv, Stores, Quiet, Passed
<1>6. Store(d) = db[d]
  BY <1>5, Storeless DEF Inv, Base
<1>7. cache[c][d] = db[d] /\ db[d] \in Seq(Page) /\ db[d] # None
  BY <1>1, <1>6, JournalAssumption DEF Inv, Base, Stores, SeenIsStore, TypeOK
<1>8. jw'[c][d] = [NoJw EXCEPT !.orig = Len(db[d])] /\ jw' = [jw EXCEPT ![c][d] = jw'[c][d]]
  BY <1>1, <1>3, FileShapesOK, ShapesOK DEF Inv, Base, FileShapes, Shapes
<1>9. PICK n \in Nat : n = Len(db[d])
  BY <1>7
<1>10. [NoJw EXCEPT !.orig = n] \in JournalWriter /\ [NoJw EXCEPT !.orig = n].off = 0
       /\ [NoJw EXCEPT !.orig = n].orig = n /\ [NoJw EXCEPT !.orig = n].mod = FALSE
  BY <1>9 DEF NoJw, JournalWriter
<1>11. JournalKept(c, d)'
  BY <1>1, <1>3, <1>7, <1>8, <1>9, <1>10 DEF JournalKept, Unopened
<1>12. DraftKept(c, d)'
  BY <1>8, <1>9, <1>10 DEF DraftKept
<1> QED
  BY <1>1, <1>3, <1>5, <1>6, <1>7, <1>8, <1>9, <1>10, <1>11, <1>12

-----------------------------------------------------------------------------
(* Of the connection itself. *)

LEMMA DoneIs ==
  ASSUME Inv, NEW c \in Conns, NEW e \in Files, Live(c, e), jw[c][e].done
  PROVE  op[c] = "rollback" \/ Preparing(c) \/ (op[c] = "commit" /\ pc[c] = "fin")
<1>1. JournalKept(c, e) /\ DraftKept(c, e)
  BY LiveIs
<1>2. jw[c][e].off # 0
  BY <1>1 DEF JournalKept, Unopened, NoJw
<1> QED
  BY <1>1, <1>2 DEF DraftKept

LEMMA LiveActs ==
  ASSUME Inv, NEW c \in Conns, Acts(c), NEW e \in Files, Live(c, e)'
  PROVE  Frame(c, e) \/ (JournalKept(c, e)' /\ DraftKept(c, e)')
<1> USE DEF At, Go, Locked, disk, local, ghosts, bounds, NONE, SHARED, RESERVED, PENDING, EXCLUSIVE,
            InTxn, Live, Committed, Undone, Frame, DraftDoes, Prepared, Sealed, Preparing
<1>1. /\ ControlTypes(c) /\ LocksHeld(c) /\ Control(c) /\ Shapes /\ FileShapes /\ Live(c, e)'
      /\ Live(c, e) /\ jw[c][e].done => op[c] = "rollback" \/ Preparing(c) \/ (op[c] = "commit" /\ pc[c] = "fin")
  BY ControlTyped, FileShapesOK, DoneIs DEF Inv, Base
<1>2. CASE HotExists(c)
  BY <1>1, <1>2 DEF HotExists, ControlTypes, Shapes, FileShapes, LocksHeld, Control, Recovering, Several, Reserved
<1>3. CASE HotReserved(c)
  BY <1>1, <1>3 DEF HotReserved, ControlTypes, Shapes, FileShapes, LocksHeld, Control, Recovering, Several, Reserved
<1>4. CASE HotEmpty(c)
  BY <1>1, <1>4 DEF HotEmpty, ControlTypes, Shapes, FileShapes, LocksHeld, Control, Recovering, Several, Reserved
<1>5. CASE HotByte(c)
  BY <1>1, <1>5 DEF HotByte, ControlTypes, Shapes, FileShapes, LocksHeld, Control, Recovering, Several, Reserved
<1>6. CASE HotLock(c)
  BY <1>1, <1>6 DEF HotLock, ControlTypes, Shapes, FileShapes, LocksHeld, Control, Recovering, Several, Reserved
<1>7. CASE HotOpen(c)
  BY <1>1, <1>7 DEF HotOpen, ControlTypes, Shapes, FileShapes, LocksHeld, Control, Recovering, Several, Reserved
<1>8. CASE PlayTruncate(c)
  <2>1. CASE e = cur[c] /\ op[c] = "rollback"
    BY <1>8, <2>1, PlayDoes
  <2>2. CASE e = cur[c] /\ op[c] # "rollback"
    BY <1>1, <1>8, <2>2 DEF PlayTruncate, ControlTypes, Shapes, FileShapes, LocksHeld, Control, Recovering
  <2>3. CASE e # cur[c]
    BY <1>1, <1>8, <2>3 DEF PlayTruncate, ControlTypes, Shapes, FileShapes, LocksHeld, Control
  <2> QED
    BY <2>1, <2>2, <2>3
<1>9. CASE PlayPage(c)
  <2>1. CASE e = cur[c] /\ op[c] = "rollback"
    BY <1>9, <2>1, PlayDoes
  <2>2. CASE e = cur[c] /\ op[c] # "rollback"
    BY <1>1, <1>9, <2>2 DEF PlayPage, ControlTypes, Shapes, FileShapes, LocksHeld, Control, Recovering
  <2>3. CASE e # cur[c]
    BY <1>1, <1>9, <2>3 DEF PlayPage, ControlTypes, Shapes, FileShapes, LocksHeld, Control
  <2> QED
    BY <2>1, <2>2, <2>3
<1>10. CASE PlaySync(c)
  BY <1>1, <1>10 DEF PlaySync, ControlTypes, Shapes, FileShapes, LocksHeld, Control, Recovering
<1>11. CASE Fin(c)
  BY <1>1, <1>11 DEF Fin, ControlTypes, Shapes, FileShapes, LocksHeld, Control, Recovering, Inv, Phases, Stage, Committing, Last, Reserved
<1>12. CASE FinSync(c)
  BY <1>1, <1>12 DEF FinSync, ControlTypes, Shapes, FileShapes, LocksHeld, Control, Recovering, Inv, Phases, Stage, Committing, Last, Reserved
<1>13. CASE Unlock(c)
  BY <1>1, <1>13 DEF Unlock, ControlTypes, Shapes, FileShapes, LocksHeld, Control, Recovering, Inv, Phases, Stage, Committing, Last, Reserved
<1>14. CASE DelSuper(c)
  BY <1>1, <1>14 DEF DelSuper, ControlTypes, Shapes, FileShapes, LocksHeld, Control, Recovering, Inv, Phases, Stage, Committing, Reserved
<1>15. CASE NextFile(c)
  <2>1. /\ pc[c] = "next" /\ UNCHANGED << disk, lock, op, local, ghosts, bounds >>
        /\ pc'[c] \in {"fin", "unlock", "play"} /\ cur'[c] = Min(Reserved(c))
    BY <1>1, <1>15 DEF NextFile, ControlTypes, Shapes
  <2>2. CASE op[c] = "commit"
    <3>1. Reserved(c) # {} /\ ~Recovering(c)
      BY <1>1, <2>1, <2>2 DEF Reserved, Control, Recovering
    <3>2. cur'[c] \in Files /\ InTxn(c, cur'[c])
      BY <2>1, <3>1, MinReserved, ReservedInTxn DEF Inv, Base, Reserved
    <3>3. Committed(c) /\ pc'[c] \in {"fin", "unlock"}
      BY <1>1, <2>1, <2>2, <1>15 DEF Inv, Phases, Stage, NextFile, ControlTypes, Shapes, Committing
    <3>4. mine[c][cur'[c]] = None
      BY <3>2, <3>3 DEF Inv, Phases, Stage
    <3> QED
      BY <1>1, <2>1, <2>2, <3>3, <3>4
  <2>3. CASE op[c] # "commit"
    BY <1>1, <2>1, <2>3 DEF Control
  <2> QED
    BY <2>2, <2>3
<1>16. CASE Check(c)
  <2>1. /\ op[c] \in {"read", "hot"} /\ op'[c] = op[c] /\ pc[c] = "check" /\ pc'[c] = "run" /\ cur' = cur
        /\ lock' = lock /\ mine' = mine /\ jw' = jw /\ txn' = txn
    BY <1>1, <1>16 DEF Check, ControlTypes, Shapes, Control
  <2>2. lock[c][cur[c]] = SHARED
    BY <1>1, <2>1 DEF LocksHeld, Control, Recovering, Alone, ControlTypes
  <2>3. e # cur[c]
    BY <1>1, <2>1, <2>2
  <2>4. /\ db' = db /\ jnl' = jnl /\ ddb' = ddb /\ djnl' = djnl /\ cache'[c][e] = cache[c][e]
        /\ (e \in reads'[c] <=> e \in reads[c])
    BY <1>1, <2>3, <1>16 DEF Check, ControlTypes, Shapes, FileShapes
  <2> QED
    BY <1>1, <2>1, <2>4
<1>17. CASE CommitLock(c)
  <2>1. /\ op[c] = "commit" /\ pc[c] = "lock" /\ pc'[c] \in {"lock", "run", "super", "prepare"}
        /\ UNCHANGED << disk, op, local, ghosts, bounds >>
        /\ ~jw[c][e].done \/ ~Live(c, e)
    BY <1>1, <1>17 DEF CommitLock, ControlTypes, Shapes, Control
  <2> DEFINE todo == {x \in Reserved(c) : lock[c][x] < EXCLUSIVE}
  <2>2. /\ lock[c][e] = EXCLUSIVE => lock'[c][e] = EXCLUSIVE
        /\ lock'[c][e] >= RESERVED => lock[c][e] >= RESERVED
    <3>1. PICK d : d = Min(todo)
      OBVIOUS
    <3>2. \/ lock' = lock
          \/ todo # {} /\ \E l \in {3, 4} : lock' = [lock EXCEPT ![c][d] = l]
      BY <1>17, <3>1 DEF CommitLock
    <3>3. todo # {} => d \in Reserved(c) /\ lock[c][d] < EXCLUSIVE
      <4>1. todo \in SUBSET Files
        BY DEF Reserved
      <4> HIDE DEF todo
      <4>2. todo # {} => d \in todo
        BY <3>1, <4>1, TodoIs
      <4> QED
        BY <4>2 DEF todo
    <3> HIDE DEF todo
    <3> QED
      BY <1>1, <3>2, <3>3 DEF Reserved, Shapes, FileShapes
  <2> QED
    BY <1>1, <2>1, <2>2
<1>18. CASE WriteSuper(c)
  BY <1>1, <1>18 DEF WriteSuper, ControlTypes, Shapes, FileShapes, LocksHeld, Control, Recovering, Several, Reserved
<1>19. CASE Prepare(c)
  <2>1. CASE e = cur[c]
    BY <1>19, <2>1, PrepareDoes
  <2>2. CASE e # cur[c]
    BY <1>1, <1>19, <2>2 DEF Prepare, ControlTypes, Shapes, FileShapes, LocksHeld, Control, Several, Reserved, Committing
  <2> QED
    BY <2>1, <2>2
<1>20. CASE SyncRecords(c)
  <2>1. CASE e = cur[c]
    BY <1>20, <2>1, SyncRecordsDoes
  <2>2. CASE e # cur[c]
    <3>1. /\ pc[c] = "sync" /\ UNCHANGED << db, ddb, op, cur, reads, cache, mine, jw, txn >>
          /\ jnl'[e] = jnl[e] /\ djnl'[e] = djnl[e] /\ lock'[c][e] = lock[c][e]
      BY <1>1, <2>2, <1>20 DEF SyncRecords, Shapes, FileShapes
    <3>2. pc'[c] = "count" \/ (pc'[c] = "run" /\ op[c] = "write")
      BY <1>1, <1>20, SyncRecordsDoes DEF ControlTypes
    <3>3. op[c] = "commit" => lock' = lock
      <4>1. Writing(c)
        BY <3>1 DEF Writing
      <4>2. op[c] = "commit" => lock[c][cur[c]] = EXCLUSIVE /\ Exclusive(c, cur[c])
        BY <4>1, WritingIs, ExclusiveIs
      <4>3. lock \in [Conns -> [Files -> NONE .. EXCLUSIVE]] /\ cur[c] \in Files
        BY <4>1, WritingIs DEF Inv, Base, TypeOK
      <4>4. op[c] = "commit" => lock' = [lock EXCEPT ![c][cur[c]] = EXCLUSIVE]
        BY <4>2, <1>20 DEF SyncRecords
      <4> QED
        BY <4>2, <4>3, <4>4
    <3>4. op[c] = "commit" => (Several(c)' <=> Several(c))
      BY <3>3 DEF Several, Reserved
    <3> QED
      BY <1>1, <2>2, <3>1, <3>2, <3>4 DEF Control
  <2> QED
    BY <2>1, <2>2
<1>21. CASE Count(c)
  <2>1. CASE e = cur[c]
    BY <1>21, <2>1, CountDoes
  <2>2. CASE e # cur[c]
    BY <1>1, <1>21, <2>2 DEF Count, ControlTypes, Shapes, FileShapes, LocksHeld, Control, Several, Reserved, Committing
  <2> QED
    BY <2>1, <2>2
<1>22. CASE SyncCount(c)
  <2>1. CASE e = cur[c]
    BY <1>22, <2>1, SyncCountDoes
  <2>2. CASE e # cur[c]
    BY <1>1, <1>22, <2>2 DEF SyncCount, ControlTypes, Shapes, FileShapes, LocksHeld, Control, Several, Reserved, Committing
  <2> QED
    BY <2>1, <2>2
<1>23. CASE WritePage(c)
  <2>1. CASE e = cur[c]
    BY <1>23, <2>1, WritePageDoes
  <2>2. CASE e # cur[c]
    BY <1>1, <1>23, <2>2 DEF WritePage, ControlTypes, Shapes, FileShapes, LocksHeld, Control, Several, Reserved, Committing
  <2> QED
    BY <2>1, <2>2
<1>24. CASE SyncDb(c)
  <2>1. CASE e = cur[c]
    BY <1>24, <2>1, SyncDbDoes
  <2>2. CASE e # cur[c]
    <3>1. /\ pc[c] = "page" /\ UNCHANGED << db, jnl, djnl, op, lock, reads, cache, mine, txn >>
          /\ ddb'[e] = ddb[e] /\ jw'[c][e] = jw[c][e]
      BY <1>1, <2>2, <1>24 DEF SyncDb, Shapes, FileShapes
    <3>2. pc'[c] \in {"prepare", "commit", "fin"} /\ op[c] = "commit"
      BY <1>1, <1>24, SyncDbDoes
    <3>3. Several(c)' <=> Several(c)
      BY <3>1 DEF Several, Reserved
    <3> QED
      BY <1>1, <2>2, <3>1, <3>2, <3>3
  <2> QED
    BY <2>1, <2>2
<1>25. CASE DeleteSuper(c)
  BY <1>1, <1>25 DEF DeleteSuper, ControlTypes, Shapes, FileShapes, LocksHeld, Control, Recovering, Several, Reserved
<1>26. CASE End(c)
  BY <1>1, <1>26 DEF End, ControlTypes, Shapes, FileShapes, LocksHeld, Control, Recovering, Inv, Phases, Stage, Committing, Reserved
<1>27. CASE Commit(c)
  BY <1>1, <1>27 DEF Commit, ControlTypes, Shapes, FileShapes, LocksHeld, Control, Recovering, Several, Reserved
<1>28. CASE Rollback(c)
  BY <1>1, <1>28 DEF Rollback, ControlTypes, Shapes, FileShapes, LocksHeld, Control, Recovering, Several, Reserved
<1>29. CASE Crash(c)
  BY <1>1, <1>29 DEF Crash, Gone, ControlTypes, Shapes
<1>30. ASSUME NEW d \in Files, Open(c, d) PROVE Frame(c, e) \/ (JournalKept(c, e)' /\ DraftKept(c, e)')
  BY <1>1, <1>30 DEF Open, ControlTypes, Shapes, FileShapes, LocksHeld, Control, Recovering, Several, Reserved
<1>31. ASSUME NEW d \in Files, Reserve(c, d) PROVE Frame(c, e) \/ (JournalKept(c, e)' /\ DraftKept(c, e)')
  <2>1. CASE e = d
    BY <1>31, <2>1, ReserveDoes
  <2>2. CASE e # d
    BY <1>1, <1>31, <2>2 DEF Reserve, ControlTypes, Shapes, FileShapes, LocksHeld, Control, Inv, Base, TxnKept
  <2> QED
    BY <2>1, <2>2
<1>32. ASSUME NEW d \in Files, NEW p \in Pages, Write(c, d, p) PROVE Frame(c, e) \/ (JournalKept(c, e)' /\ DraftKept(c, e)')
  <2>1. CASE e = d
    BY <1>32, <2>1, WriteDoes
  <2>2. CASE e # d
    BY <1>1, <1>32, <2>2 DEF Write, ControlTypes, Shapes, FileShapes, LocksHeld, Control
  <2> QED
    BY <2>1, <2>2
<1>33. ASSUME NEW d \in Files, NEW p \in Pages, Spill(c, d, p) PROVE Frame(c, e) \/ (JournalKept(c, e)' /\ DraftKept(c, e)')
  BY <1>1, <1>33 DEF Spill, ControlTypes, Shapes, FileShapes, LocksHeld, Control, Recovering, Several, Reserved
<1> QED
  BY <1>2, <1>3, <1>4, <1>5, <1>6, <1>7, <1>8, <1>9, <1>10, <1>11, <1>12, <1>13, <1>14, <1>15,
     <1>16, <1>17, <1>18, <1>19, <1>20, <1>21, <1>22, <1>23, <1>24, <1>25, <1>26, <1>27, <1>28,
     <1>29, <1>30, <1>31, <1>32, <1>33 DEF Acts, Step

LEMMA LivesKept ==
  ASSUME Inv, NEW c \in Conns, Acts(c)
  PROVE  Lives'
<1>1. ASSUME NEW e \in Files, Live(c, e)' PROVE JournalKept(c, e)' /\ DraftKept(c, e)'
  <2>1. CASE DeleteSuper(c)
    <3>1. pc'[c] = "next" /\ op'[c] = op[c] /\ op[c] = "commit" /\ mine'[c] = [d \in Files |-> None]
          /\ cur' = cur /\ cur[c] \in Files
      BY <2>1, ControlTyped DEF DeleteSuper, At, Go, Inv, Base, Control, TypeOK, InTxn, disk, Shapes,
         ControlTypes
    <3> QED
      BY <1>1, <3>1 DEF Live, Committed
  <2>2. CASE ~DeleteSuper(c)
    BY <1>1, <2>2, LiveActs, FrameKept
  <2> QED
    BY <2>1, <2>2
<1> QED
  BY <1>1, OthersLive DEF Lives
-----------------------------------------------------------------------------
(* The playback of a hot journal. *)

LEMMA RecordsNone ==
  ASSUME NEW j \in Seq(JournalCell), ~IsHdr(j, 1)
  PROVE  Records(j, Len(j)) = {}
<1>1. PICK upto \in Nat : upto = Len(j)
  OBVIOUS
<1>2. PICK F : /\ F = [i \in 1 .. upto |-> Follow(j, upto, i, F)]
               /\ Records(j, upto) = IF upto = 0 THEN {} ELSE F[1]
  BY RecordsIs
<1>3. upto # 0 => F[1] = Follow(j, upto, 1, F)
  <2>1. upto # 0 => 1 \in 1 .. upto
    OBVIOUS
  <2> QED
    BY <1>2, <2>1
<1> QED
  BY <1>1, <1>2, <1>3 DEF Follow

LEMMA HotIs ==
  ASSUME Inv, NEW c \in Conns, op[c] = "hot", pc[c] \in {"play", "fin"}, NEW d, d = cur[c]
  PROVE  /\ d \in Files /\ lock[c][d] = EXCLUSIVE /\ d \notin reads[c]
         /\ \A o \in Conns : o # c => lock[o][d] = NONE
         /\ jnl[d] \in Seq(JournalCell) /\ djnl[d] = jnl[d] /\ db[d] \in Seq(Page)
         /\ IsHdr(jnl[d], 1) => /\ jnl[d][1].orig \in Nat /\ jnl[d][1].orig <= Len(db[d])
                                /\ jnl[d][1].orig <= Len(ddb[d])
<1>1. Recovering(c) /\ Alone(c) /\ cur[c] \in Files
  BY DEF Inv, Base, Control, Recovering, Alone
<1>2. lock[c][d] = EXCLUSIVE /\ d \notin reads[c]
  BY <1>1 DEF Inv, Base, LocksHeld
<1>3. \A o \in Conns : o # c => lock[o][d] = NONE
  BY <1>1, <1>2 DEF Inv, Base, Excluded
<1>4. jnl[d] # None /\ djnl[d] = jnl[d]
  BY DEF Inv, Phases, Present, Synced, DiskSynced
<1>5. jnl[d] \in Seq(JournalCell) /\ db[d] \in Seq(Page)
  BY <1>1, <1>4 DEF Inv, Base, TypeOK
<1>6. IsHdr(jnl[d], 1) => /\ jnl[d][1].orig \in Nat /\ jnl[d][1].orig <= Len(db[d])
                          /\ jnl[d][1].orig <= Len(ddb[d])
  <2>1. IsHdr(jnl[d], 1) => jnl[d][1] \in JournalCell /\ jnl[d][1].k = "hdr"
    BY <1>5 DEF IsHdr, Cell, Zero
  <2>2. IsHdr(jnl[d], 1) => jnl[d][1].orig \in Nat
    BY <2>1, CellTypes
  <2> QED
    BY <1>1, <2>2 DEF Inv, Stores, HotFits
<1> QED
  BY <1>1, <1>2, <1>3, <1>4, <1>5, <1>6

(* What it plays back.                                                     *)
LEMMA HotPlays ==
  ASSUME Inv, NEW c \in Conns, op[c] = "hot", pc[c] = "play", NEW d, d = cur[c]
  PROVE  /\ IsHdr(jnl[d], 1) /\ Counts(jnl[d], supers)
            => /\ PlayRecords(c, d) = Records(jnl[d], Len(jnl[d]))
               /\ PlayOrig(c, d) = jnl[d][1].orig
         /\ ~(IsHdr(jnl[d], 1) /\ Counts(jnl[d], supers))
            => PlayRecords(c, d) = {} /\ PlayOrig(c, d) = Len(db[d]) /\ ToPlay(c, d) = {}
<1>1. jnl[d] \in Seq(JournalCell)
  BY HotIs
<1>2. jnl[d] # None /\ All(jnl[d]) = Len(jnl[d])
  BY <1>1, JournalAssumption DEF All
<1> QED
  BY <1>1, <1>2, RecordsNone DEF PlayRecords, PlayOrig, ToPlay

LEMMA HotPlayDoes ==
  ASSUME Inv, NEW c \in Conns, op[c] = "hot", PlayTruncate(c) \/ PlayPage(c), NEW d, d = cur[c]
  PROVE  /\ d \in Files /\ IsHdr(jnl[d], 1) /\ Counts(jnl[d], supers)
         /\ db' = [db EXCEPT ![d] = db'[d]] /\ db'[d] \in Seq(Page)
         /\ jnl[d][1].orig <= Len(db'[d])
         /\ Restored(db'[d], jnl[d], supers) = Restored(db[d], jnl[d], supers)
<1> DEFINE j == jnl[d]  f == db[d]  R == Records(j, Len(j))
<1>1. pc[c] = "play"
  BY DEF PlayTruncate, PlayPage, At
<1>2. d \in Files /\ j \in Seq(JournalCell) /\ f \in Seq(Page)
      /\ (IsHdr(j, 1) => j[1].orig \in Nat /\ j[1].orig <= Len(f))
  BY <1>1, HotIs
<1>3. IsHdr(j, 1) /\ Counts(j, supers)
  <2>1. ~(IsHdr(j, 1) /\ Counts(j, supers)) => PlayOrig(c, d) = Len(f) /\ ToPlay(c, d) = {}
    BY <1>1, HotPlays
  <2>2. PlayTruncate(c) => Len(f) > PlayOrig(c, d)
    BY DEF PlayTruncate
  <2>3. PlayPage(c) => ToPlay(c, d) # {}
    BY DEF PlayPage
  <2>4. ~(Len(f) > Len(f))
    BY <1>2
  <2> QED
    BY <2>1, <2>2, <2>3, <2>4
<1>4. PlayRecords(c, d) = R /\ PlayOrig(c, d) = j[1].orig
  BY <1>1, <1>3, HotPlays
<1>5. DOMAIN db = Files
  BY DEF Inv, Base, TypeOK
<1>6. CASE PlayTruncate(c)
  <2>1. PICK g : g = Cut(f, j[1].orig)
    OBVIOUS
  <2>2. db' = [db EXCEPT ![d] = g]
    BY <1>4, <1>6, <2>1 DEF PlayTruncate
  <2>3. g \in Seq(Page) /\ Len(g) = j[1].orig
    BY <1>2, <1>3, <2>1, CutIs
  <2>4. Restored(g, j, supers) = Restored(f, j, supers)
    BY <1>2, <1>3, <2>1, CutRestored
  <2>5. db'[d] = g
    BY <1>2, <1>5, <2>2
  <2>6. j[1].orig <= Len(g)
    <3>1. PICK o \in Nat : o = j[1].orig
      BY <1>2, <1>3
    <3> QED
      BY <2>3, <3>1
  <2> QED
    BY <1>2, <1>3, <2>2, <2>3, <2>4, <2>5, <2>6
<1>7. CASE PlayPage(c)
  <2>1. PICK p : p = Min(ToPlay(c, d))
    OBVIOUS
  <2>2. PICK o \in Nat : o = j[1].orig
    BY <1>2, <1>3
  <2>3. ToPlay(c, d) \subseteq OldPages(j, R) /\ ToPlay(c, d) # {}
    BY <1>4, <1>7 DEF ToPlay, PlayPage
  <2>4. OldPages(j, R) \subseteq 1 .. o
    BY <2>2 DEF OldPages
  <2>5. p \in OldPages(j, R) /\ p \in 1 .. o
    <3>1. ToPlay(c, d) \in SUBSET Nat
      BY <2>3, <2>4
    <3>2. p \in ToPlay(c, d)
      BY <2>1, <2>3, <3>1, MinIs
    <3> QED
      BY <2>3, <2>4, <3>2
  <2>6. OldPage(j, R, p) \in Page
    <3>1. R \subseteq RecPlaces(j)
      BY <1>2, RecordsAreRecords
    <3>2. PICK i \in R : i \in 1 .. Len(j) /\ j[i].k = "rec" /\ OldPage(j, R, p) = j[i].old
      BY <1>2, <2>5, <3>1, OldPageIs
    <3>3. j[i].old \in Page
      BY <1>2, <3>2, CellTypes
    <3> QED
      BY <3>2, <3>3
  <2>7. PICK i \in Nat \ {0}, x \in Page, l \in Nat : i = p /\ x = OldPage(j, R, p) /\ l = Len(f) /\ i <= l
    BY <1>2, <1>3, <2>2, <2>5, <2>6
  <2>8. PICK g : g = Put(f, i, x, None)
    OBVIOUS
  <2>9. /\ g \in Seq(Page) /\ Len(g) = l /\ \A k \in 1 .. l : k # i => g[k] = f[k]
    BY <1>2, <2>7, <2>8, PutPage
  <2>10. db' = [db EXCEPT ![d] = g]
    BY <1>4, <1>7, <2>1, <2>7, <2>8 DEF PlayPage
  <2>11. db'[d] = g
    BY <1>2, <1>5, <2>10
  <2>12. Restored(g, j, supers) = Restored(f, j, supers)
    <3>1. /\ i \in OldPages(j, Records(j, Len(j))) /\ Len(g) = Len(f) /\ j[1].orig <= Len(f)
          /\ \A q \in 1 .. Len(f) : q # i => g[q] = f[q]
      BY <1>2, <1>3, <2>5, <2>7, <2>9
    <3>2. j \in Seq(JournalCell) /\ f \in Seq(Page) /\ g \in Seq(Page)
          /\ IsHdr(j, 1) /\ Counts(j, supers)
      BY <1>2, <1>3, <2>9
    <3> QED
      BY <3>1, <3>2, PageRestored
  <2> QED
    BY <1>2, <1>3, <2>7, <2>9, <2>10, <2>11, <2>12
<1> QED
  BY <1>6, <1>7

(* What it has played back to the end.                                     *)
LEMMA HotPlayed ==
  ASSUME Inv, NEW c \in Conns, op[c] = "hot", PlaySync(c), NEW d, d = cur[c]
  PROVE  Store(d) = db[d]
<1> DEFINE j == jnl[d]  f == db[d]  R == Records(j, Len(j))
<1>1. pc[c] = "play" /\ Len(f) <= PlayOrig(c, d) /\ ToPlay(c, d) = {}
  BY DEF PlaySync, At
<1>2. d \in Files /\ j \in Seq(JournalCell) /\ f \in Seq(Page)
      /\ (IsHdr(j, 1) => j[1].orig \in Nat /\ j[1].orig <= Len(f))
  BY <1>1, HotIs
<1>3. CASE IsHdr(j, 1) /\ Counts(j, supers)
  <2>1. PlayRecords(c, d) = R /\ PlayOrig(c, d) = j[1].orig
    BY <1>1, <1>3, HotPlays
  <2>2. Len(f) = j[1].orig
    BY <1>1, <1>2, <1>3, <2>1
  <2>3. \A p \in OldPages(j, R) : p \in DOMAIN f => f[p] = OldPage(j, R, p)
    <3>1. R = {} => OldPages(j, R) = {}
      BY DEF OldPages
    <3> QED
      BY <1>1, <2>1, <3>1 DEF ToPlay
  <2>4. Restored(f, j, supers) = f
    BY <1>2, <1>3, <2>2, <2>3, AllRestored
  <2> QED
    BY <2>4 DEF Store
<1>4. CASE ~(IsHdr(j, 1) /\ Counts(j, supers))
  BY <1>2, <1>4, RestoredType DEF Store
<1> QED
  BY <1>3, <1>4
-----------------------------------------------------------------------------
(* The end of a journal. *)

LEMMA FinalisedIs ==
  ASSUME NEW c, NEW d, jnl[d] \in Seq(JournalCell)
  PROVE  /\ Finalised(c, d) \in Seq(JournalCell) \cup {None}
         /\ ~IsHdr(Finalised(c, d), 1) /\ SuperName(Finalised(c, d)) = 0
<1> DEFINE j == jnl[d]
<1>1. CASE Finalised(c, d) = None
  BY <1>1, NoCell DEF SuperName
<1>2. CASE Finalised(c, d) = << >>
  BY <1>2, JournalAssumption DEF SuperName, IsHdr, Cell, Zero
<1>3. CASE /\ Finalised(c, d) # None /\ Finalised(c, d) # << >>
           /\ Finalised(c, d) = Put(j, 1, Zero, Zero) /\ SuperName(j) = 0
  <2>1. PICK g : g = Put(j, 1, Zero, Zero)
    OBVIOUS
  <2>2. PICK l \in Nat : l = Len(j)
    OBVIOUS
  <2>3. /\ g \in Seq(JournalCell)
        /\ (l <= 1 => Len(g) = 1) /\ (1 <= l => Len(g) = l) /\ g[1] = Zero
        /\ \A k \in 1 .. l : k # 1 => g[k] = j[k]
    <3>1. PICK i \in Nat \ {0}, x \in JournalCell : i = 1 /\ x = Zero
      BY DEF JournalCell
    <3>2. g = Put(j, i, x, Zero)
      BY <2>1, <3>1
    <3>3. /\ g \in Seq(JournalCell) /\ (Len(j) <= i => Len(g) = i) /\ (i <= Len(j) => Len(g) = Len(j))
          /\ g[i] = x /\ \A k \in 1 .. Len(j) : k # i => g[k] = j[k]
      <4>1. PICK s \in Seq(JournalCell) : s = j
        OBVIOUS
      <4>2. /\ Put(s, i, x, Zero) \in Seq(JournalCell) /\ Put(s, i, x, Zero)[i] = x
            /\ (Len(s) <= i => Len(Put(s, i, x, Zero)) = i)
            /\ (i <= Len(s) => Len(Put(s, i, x, Zero)) = Len(s))
            /\ \A k \in 1 .. Len(s) : k # i => Put(s, i, x, Zero)[k] = s[k]
        BY PutCell
      <4>3. g = Put(s, i, x, Zero)
        BY <3>2, <4>1
      <4> QED
        BY <4>1, <4>2, <4>3
    <3> QED
      BY <2>2, <3>1, <3>3
  <2>4. ~IsHdr(g, 1)
    BY <2>3 DEF IsHdr, Cell, Zero
  <2>5. SuperName(g) = 0
    <3>1. CASE l <= 1
      BY <1>3, <2>1, <2>3, <3>1 DEF SuperName, Zero
    <3>2. CASE l > 1
      <4>1. Len(g) = l /\ g[l] = j[l] /\ j # << >> /\ j # None
        BY <2>2, <2>3, <3>2, JournalAssumption
      <4> QED
        BY <1>3, <2>1, <2>2, <4>1 DEF SuperName
    <3> QED
      BY <2>2, <3>1, <3>2
  <2> QED
    BY <1>3, <2>1, <2>3, <2>4, <2>5
<1> QED
  BY <1>1, <1>2, <1>3 DEF Finalised, CutOff, Named

(* The commit, in one file.                                                *)
FinCommits(c) == pc[c] = "fin" /\ op[c] = "commit" /\ mine[c][cur[c]] # None

LEMMA CommitsIs ==
  ASSUME Inv, NEW c \in Conns, FinCommits(c), NEW d, d = cur[c]
  PROVE  /\ d \in Files /\ Live(c, d) /\ Reserved(c) = {d} /\ jw[c][d].off # 0
         /\ mine[c][d] \in Seq(Page) /\ cache[c][d] \in Seq(Page) /\ jnl[d] \in Seq(JournalCell)
         /\ db[d] = mine[c][d] /\ ddb[d] = db[d] /\ cache[c][d] = Store(d)
         /\ Counter(mine[c][d]) = Counter(cache[c][d]) + 1
         /\ lock[c][d] = EXCLUSIVE /\ d \in reads[c]
<1>1. Control(c) /\ Stage(c) /\ TypeOK
  BY DEF Inv, Base, Phases
<1>2. InTxn(c, d) /\ d \in Files /\ d \in reads[c]
  BY <1>1 DEF Control, FinCommits, InTxn, TypeOK
<1>3. ~Committed(c) /\ Live(c, d)
  BY <1>2 DEF FinCommits, Committed, Live, Undone
<1>4. jw[c][d].done /\ Reserved(c) = {d} /\ lock[c][d] = EXCLUSIVE
  BY <1>1, <1>2, <1>3 DEF FinCommits, Stage
<1>5. /\ JournalKept(c, d) /\ DraftKept(c, d)
      /\ cache[c][d] \in Seq(Page) /\ jw[c][d] \in JournalWriter /\ db[d] \in Seq(Page)
      /\ cache[c][d] = Store(d)
      /\ jw[c][d].off # 0 => jnl[d] \in Seq(JournalCell)
  BY <1>2, <1>3, LiveIs
<1>6. jw[c][d].off # 0
  BY <1>4, <1>5 DEF JournalKept, Unopened, NoJw
<1>7. mine[c][d] \in Seq(Page)
  BY <1>1, <1>2, DataTypes DEF FinCommits
<1>8. Prepared(c, d)
  BY <1>4 DEF Prepared, FinCommits
<1>9. /\ Draft(mine[c][d], jw[c][d], db[d]) /\ jw[c][d].dirty = {} /\ ddb[d] = db[d]
      /\ Counter(mine[c][d]) = Counter(cache[c][d]) + 1
  BY <1>4, <1>5, <1>6, <1>8 DEF DraftKept, FinCommits
<1>10. db[d] = mine[c][d]
  BY <1>5, <1>7, <1>9, DraftDone
<1> QED
  BY <1>2, <1>3, <1>4, <1>5, <1>6, <1>7, <1>9, <1>10

(* The files of a commit, once it is done.                                 *)
LEMMA CommittedIs ==
  ASSUME Inv, NEW c \in Conns, Committed(c), NEW d \in Files, InTxn(c, d)
  PROVE  /\ Store(d) = db[d] /\ Len(db[d]) <= Len(ddb[d])
         /\ jnl[d] # None \/ (cur[c] = d /\ pc[c] \in {"finsync", "unlock"})
         /\ lock[c][d] = EXCLUSIVE /\ mine[c][d] = None
         /\ ~(IsHdr(jnl[d], 1) /\ Counts(jnl[d], supers))
<1>1. ~(IsHdr(jnl[d], 1) /\ Counts(jnl[d], supers))
  BY DEF Inv, Stores, Quiet, Passed, InTxn, Live
<1>2. Store(d) = db[d]
  BY <1>1, RestoredType DEF Inv, Base, TypeOK, Store
<1>3. Len(db[d]) <= Len(ddb[d])
  BY <1>1 DEF Inv, Stores, Settled
<1>4. /\ jnl[d] # None \/ (cur[c] = d /\ pc[c] \in {"finsync", "unlock"})
      /\ lock[c][d] = EXCLUSIVE /\ mine[c][d] = None
  BY DEF Inv, Phases, Present, Stage
<1> QED
  BY <1>1, <1>2, <1>3, <1>4

LEMMA FinDoes ==
  ASSUME Inv, NEW c \in Conns, Fin(c), NEW d, d = cur[c]
  PROVE  /\ d \in Files /\ lock[c][d] >= RESERVED /\ jnl[d] \in Seq(JournalCell)
         /\ jnl' = [jnl EXCEPT ![d] = jnl'[d]] /\ jnl'[d] \in Seq(JournalCell) \cup {None}
         /\ ~IsHdr(jnl'[d], 1) /\ SuperName(jnl'[d]) = 0
         /\ djnl' = [djnl EXCEPT ![d] = djnl'[d]] /\ djnl'[d] \in {djnl[d], None}
         /\ db' = db /\ ddb' = ddb /\ Len(db[d]) <= Len(ddb[d])
         /\ FinCommits(c) => /\ cache' = [cache EXCEPT ![c][d] = mine[c][d]]
                             /\ mine' = [mine EXCEPT ![c][d] = None]
                             /\ promised' = promised \ {d}
         /\ ~FinCommits(c) => Store(d) = db[d] /\ UNCHANGED << cache, mine, promised >>
<1> USE DEF NONE, SHARED, RESERVED, PENDING, EXCLUSIVE
<1>1. Control(c) /\ Stage(c) /\ TypeOK /\ pc[c] = "fin"
  BY DEF Inv, Base, Phases, Fin, At
<1>2. op[c] \in {"hot", "commit", "rollback"}
  BY <1>1 DEF Control
<1>3. /\ d \in Files /\ lock[c][d] >= RESERVED /\ jnl[d] \in Seq(JournalCell)
      /\ Len(db[d]) <= Len(ddb[d]) /\ (~FinCommits(c) => Store(d) = db[d])
  <2>1. CASE op[c] = "hot"
    <3>1. d \in Files /\ lock[c][d] >= RESERVED /\ jnl[d] \in Seq(JournalCell)
      BY <1>1, <2>1, HotIs
    <3>2. db[d] = Store(d) /\ Len(db[d]) <= Len(ddb[d])
      BY <1>1, <2>1 DEF Inv, Phases, Played
    <3> QED
      BY <3>1, <3>2
  <2>2. CASE op[c] = "rollback"
    <3>1. d \in Files /\ InTxn(c, d) /\ jnl[d] \in Seq(JournalCell)
      BY <1>1, <2>2, UndoIs
    <3>2. db[d] = Store(d) /\ Len(db[d]) <= Len(ddb[d])
      BY <1>1, <2>2 DEF Inv, Phases, Played
    <3> QED
      BY <3>1, <3>2 DEF InTxn
  <2>3. CASE FinCommits(c)
    <3>1. /\ d \in Files /\ lock[c][d] = EXCLUSIVE /\ jnl[d] \in Seq(JournalCell)
          /\ ddb[d] = db[d] /\ db[d] = mine[c][d] /\ mine[c][d] \in Seq(Page)
      BY <2>3, CommitsIs
    <3>2. PICK l \in Nat : l = Len(db[d]) /\ l = Len(ddb[d])
      BY <3>1
    <3> QED
      BY <2>3, <3>1, <3>2
  <2>4. CASE op[c] = "commit" /\ ~FinCommits(c)
    <3>1. InTxn(c, d) /\ d \in Files
      BY <1>1, <2>4 DEF Control, InTxn, TypeOK
    <3>2. Committed(c)
      BY <1>1, <2>4 DEF Committed, FinCommits
    <3>3. Store(d) = db[d] /\ Len(db[d]) <= Len(ddb[d]) /\ jnl[d] # None
      BY <1>1, <3>1, <3>2, CommittedIs
    <3>4. jnl[d] \in Seq(JournalCell)
      BY <1>1, <3>1, <3>3 DEF TypeOK
    <3> QED
      BY <3>1, <3>3, <3>4 DEF InTxn
  <2> QED
    BY <1>2, <2>1, <2>2, <2>3, <2>4
<1>4. DOMAIN jnl = Files /\ DOMAIN djnl = Files /\ djnl = [e \in Files |-> djnl[e]]
  BY <1>1 DEF TypeOK
<1>5. jnl' = [jnl EXCEPT ![d] = Finalised(c, d)] /\ jnl'[d] = Finalised(c, d)
  BY <1>3, <1>4 DEF Fin
<1>6. djnl' = [djnl EXCEPT ![d] = djnl'[d]] /\ djnl'[d] \in {djnl[d], None}
  BY <1>3, <1>4 DEF Fin
<1>7. db' = db /\ ddb' = ddb
  BY DEF Fin
<1>8. /\ FinCommits(c) => /\ cache' = [cache EXCEPT ![c][d] = mine[c][d]]
                          /\ mine' = [mine EXCEPT ![c][d] = None]
                          /\ promised' = promised \ {d}
      /\ ~FinCommits(c) => UNCHANGED << cache, mine, promised >>
  BY <1>1 DEF Fin, FinCommits, Committing
<1>9. /\ Finalised(c, d) \in Seq(JournalCell) \cup {None}
      /\ ~IsHdr(Finalised(c, d), 1) /\ SuperName(Finalised(c, d)) = 0
  BY <1>3, FinalisedIs
<1> QED
  BY <1>3, <1>5, <1>6, <1>7, <1>8, <1>9
-----------------------------------------------------------------------------
(* The types of the files, the journals and the caches. *)

FileTypes ==
  /\ db \in [Files -> Seq(Page)] /\ ddb \in [Files -> Seq(Page)]
  /\ jnl \in [Files -> Seq(JournalCell) \cup {None}]
  /\ djnl \in [Files -> Seq(JournalCell) \cup {None}]
  /\ cache \in [Conns -> [Files -> Seq(Page) \cup {None}]]
  /\ mine \in [Conns -> [Files -> Seq(Page) \cup {None}]]
  /\ jw \in [Conns -> [Files -> JournalWriter]]

LEMMA NestTyped ==
  ASSUME NEW T, NEW F \in [Conns -> [Files -> T]], NEW c \in Conns, NEW d \in Files, NEW x \in T
  PROVE  [F EXCEPT ![c][d] = x] \in [Conns -> [Files -> T]]
<1>1. [F[c] EXCEPT ![d] = x] \in [Files -> T]
  OBVIOUS
<1>2. PICK g \in [Files -> T] : g = [F[c] EXCEPT ![d] = x]
  BY <1>1
<1>3. [F EXCEPT ![c] = g] \in [Conns -> [Files -> T]]
  OBVIOUS
<1> QED
  BY <1>2, <1>3

LEMMA FileTyped ==
  ASSUME Inv, NEW c \in Conns, Acts(c)
  PROVE  FileTypes'
<1> USE DEF Go, Locked, disk, local, ghosts, bounds, FileTypes, At
<1>1. /\ FileTypes /\ Control(c) /\ TypeOK
      /\ None \in Seq(Page) \cup {None} /\ None \in Seq(JournalCell) \cup {None}
  BY DEF Inv, Base, TypeOK
<1>2. CASE HotExists(c)
  BY <1>1, <1>2 DEF HotExists
<1>3. CASE HotReserved(c)
  BY <1>1, <1>3 DEF HotReserved
<1>4. CASE HotEmpty(c)
  BY <1>1, <1>4 DEF HotEmpty
<1>5. CASE HotByte(c)
  BY <1>1, <1>5 DEF HotByte
<1>6. CASE HotLock(c)
  BY <1>1, <1>6 DEF HotLock
<1>7. CASE HotOpen(c)
  <2>1. cur[c] \in Files
    BY <1>1, <1>7 DEF HotOpen, Control, Recovering
  <2> QED
    BY <1>1, <1>7, <2>1 DEF HotOpen
<1>8. CASE PlayTruncate(c)
  <2>1. PICK d : d = cur[c]
    OBVIOUS
  <2>2. op[c] \in {"hot", "rollback"}
    BY <1>1, <1>8 DEF PlayTruncate, Control
  <2>3. db' = [db EXCEPT ![d] = db'[d]] /\ db'[d] \in Seq(Page)
    BY <1>8, <2>1, <2>2, HotPlayDoes, PlayDoes
  <2>4. UNCHANGED << ddb, jnl, djnl, cache, mine, jw >>
    BY <1>8 DEF PlayTruncate
  <2> QED
    BY <1>1, <2>3, <2>4
<1>9. CASE PlayPage(c)
  <2>1. PICK d : d = cur[c]
    OBVIOUS
  <2>2. op[c] \in {"hot", "rollback"}
    BY <1>1, <1>9 DEF PlayPage, Control
  <2>3. db' = [db EXCEPT ![d] = db'[d]] /\ db'[d] \in Seq(Page)
    BY <1>9, <2>1, <2>2, HotPlayDoes, PlayDoes
  <2>4. UNCHANGED << ddb, jnl, djnl, cache, mine, jw >>
    BY <1>9 DEF PlayPage
  <2> QED
    BY <1>1, <2>3, <2>4
<1>10. CASE PlaySync(c)
  <2>1. cur[c] \in Files
    BY <1>1, <1>10 DEF PlaySync, Control, Recovering, InTxn, TypeOK
  <2>2. ddb' = ddb \/ ddb' = [ddb EXCEPT ![cur[c]] = db[cur[c]]]
    BY <1>10 DEF PlaySync
  <2>3. UNCHANGED << db, jnl, djnl, cache, mine, jw >>
    BY <1>10 DEF PlaySync
  <2> QED
    BY <1>1, <2>1, <2>2, <2>3
<1>11. CASE Fin(c)
  <2>1. PICK d : d = cur[c]
    OBVIOUS
  <2>2. /\ d \in Files
        /\ jnl' = [jnl EXCEPT ![d] = jnl'[d]] /\ jnl'[d] \in Seq(JournalCell) \cup {None}
        /\ djnl' = [djnl EXCEPT ![d] = djnl'[d]] /\ djnl'[d] \in {djnl[d], None}
        /\ db' = db /\ ddb' = ddb
        /\ FinCommits(c) => /\ cache' = [cache EXCEPT ![c][d] = mine[c][d]]
                            /\ mine' = [mine EXCEPT ![c][d] = None]
        /\ ~FinCommits(c) => UNCHANGED << cache, mine >>
    BY <1>11, <2>1, FinDoes
  <2>3. jw' = jw
    BY <1>11 DEF Fin
  <2>4. jnl' \in [Files -> Seq(JournalCell) \cup {None}] /\ djnl' \in [Files -> Seq(JournalCell) \cup {None}]
    BY <1>1, <2>2
  <2>5. FinCommits(c) => /\ cache' \in [Conns -> [Files -> Seq(Page) \cup {None}]]
                         /\ mine' \in [Conns -> [Files -> Seq(Page) \cup {None}]]
    <3>1. mine[c][d] \in Seq(Page) \cup {None}
      BY <1>1, <2>2
    <3>2. /\ [cache EXCEPT ![c][d] = mine[c][d]] \in [Conns -> [Files -> Seq(Page) \cup {None}]]
          /\ [mine EXCEPT ![c][d] = None] \in [Conns -> [Files -> Seq(Page) \cup {None}]]
      BY <1>1, <2>2, <3>1, NestTyped
    <3> QED
      BY <2>2, <3>2
  <2> QED
    BY <1>1, <2>2, <2>3, <2>4, <2>5
<1>12. CASE FinSync(c)
  <2>1. djnl' = [djnl EXCEPT ![cur[c]] = jnl[cur[c]]] /\ cur[c] \in Files
    BY <1>1, <1>12 DEF FinSync, Control, Recovering, InTxn, TypeOK
  <2> QED
    BY <1>1, <1>12, <2>1 DEF FinSync
<1>13. CASE Unlock(c)
  <2>1. cur[c] \in Files /\ NoJw \in JournalWriter
    BY <1>1, <1>13 DEF Unlock, Control, Recovering, InTxn, TypeOK, NoJw, JournalWriter
  <2>2. /\ [jw EXCEPT ![c][cur[c]] = NoJw] \in [Conns -> [Files -> JournalWriter]]
        /\ [mine EXCEPT ![c][cur[c]] = None] \in [Conns -> [Files -> Seq(Page) \cup {None}]]
    BY <1>1, <2>1, NestTyped
  <2> QED
    BY <1>1, <1>13, <2>2 DEF Unlock
<1>14. CASE DelSuper(c)
  BY <1>1, <1>14 DEF DelSuper
<1>15. CASE NextFile(c)
  BY <1>1, <1>15 DEF NextFile
<1>16. CASE Check(c)
  <2>1. cur[c] \in Files
    BY <1>1, <1>16 DEF Check, Control, Recovering
  <2>2. db[cur[c]] \in Seq(Page) \cup {None}
    BY <1>1, <2>1
  <2>3. [cache EXCEPT ![c][cur[c]] = db[cur[c]]] \in [Conns -> [Files -> Seq(Page) \cup {None}]]
    BY <1>1, <2>1, <2>2, NestTyped
  <2> QED
    BY <1>1, <1>16, <2>3 DEF Check
<1>17. CASE CommitLock(c)
  BY <1>1, <1>17 DEF CommitLock
<1>18. CASE WriteSuper(c)
  BY <1>1, <1>18 DEF WriteSuper
<1>19. CASE Prepare(c)
  <2>1. PICK d : d = cur[c]
    OBVIOUS
  <2>2. /\ d \in Files
        /\ jnl' = [jnl EXCEPT ![d] = jnl'[d]] /\ jnl'[d] \in Seq(JournalCell)
        /\ jw' = [jw EXCEPT ![c][d] = jw'[c][d]] /\ jw'[c][d] \in JournalWriter
        /\ mine' = [mine EXCEPT ![c][d] = mine'[c][d]] /\ mine'[c][d] \in Seq(Page)
    BY <1>19, <2>1, PrepareDoes
  <2>3. UNCHANGED << db, ddb, djnl, cache >>
    BY <1>19 DEF Prepare
  <2>4. jw' \in [Conns -> [Files -> JournalWriter]]
    <3>1. PICK x \in JournalWriter : jw' = [jw EXCEPT ![c][d] = x]
      BY <2>2
    <3> QED
      BY <1>1, <2>2, <3>1, NestTyped
  <2>5. mine' \in [Conns -> [Files -> Seq(Page) \cup {None}]]
    <3>1. PICK x \in Seq(Page) \cup {None} : mine' = [mine EXCEPT ![c][d] = x]
      BY <2>2
    <3> QED
      BY <1>1, <2>2, <3>1, NestTyped
  <2> QED
    BY <1>1, <2>2, <2>3, <2>4, <2>5
<1>20. CASE SyncRecords(c)
  <2>1. PICK d : d = cur[c]
    OBVIOUS
  <2>2. /\ d \in Files
        /\ jnl' = [jnl EXCEPT ![d] = jnl'[d]] /\ jnl'[d] \in Seq(JournalCell)
        /\ djnl' = [djnl EXCEPT ![d] = djnl'[d]] /\ djnl'[d] \in {djnl[d], jnl'[d]}
    BY <1>20, <2>1, SyncRecordsDoes
  <2>3. UNCHANGED << db, ddb, cache, mine, jw >>
    BY <1>20 DEF SyncRecords
  <2> QED
    BY <1>1, <2>2, <2>3
<1>21. CASE Count(c)
  <2>1. PICK d : d = cur[c]
    OBVIOUS
  <2>2. /\ d \in Files
        /\ jnl' = [jnl EXCEPT ![d] = jnl'[d]] /\ jnl'[d] \in Seq(JournalCell)
    BY <1>21, <2>1, CountDoes
  <2>3. UNCHANGED << db, ddb, djnl, cache, mine, jw >>
    BY <1>21 DEF Count
  <2> QED
    BY <1>1, <2>2, <2>3
<1>22. CASE SyncCount(c)
  <2>1. PICK d : d = cur[c]
    OBVIOUS
  <2>2. /\ d \in Files
        /\ jnl' = [jnl EXCEPT ![d] = jnl'[d]] /\ jnl'[d] \in Seq(JournalCell)
        /\ djnl' = [djnl EXCEPT ![d] = jnl[d]] /\ jnl[d] \in Seq(JournalCell)
        /\ jw' = [jw EXCEPT ![c][d] = jw'[c][d]] /\ jw'[c][d] \in JournalWriter
    BY <1>22, <2>1, SyncCountDoes
  <2>3. UNCHANGED << db, ddb, cache, mine >>
    BY <1>22 DEF SyncCount
  <2>4. jw' \in [Conns -> [Files -> JournalWriter]]
    <3>1. PICK x \in JournalWriter : jw' = [jw EXCEPT ![c][d] = x]
      BY <2>2
    <3> QED
      BY <1>1, <2>2, <3>1, NestTyped
  <2> QED
    BY <1>1, <2>2, <2>3, <2>4
<1>23. CASE WritePage(c)
  <2>1. PICK d : d = cur[c]
    OBVIOUS
  <2>2. /\ d \in Files
        /\ db' = [db EXCEPT ![d] = db'[d]] /\ db'[d] \in Seq(Page)
        /\ jw' = [jw EXCEPT ![c][d] = jw'[c][d]] /\ jw'[c][d] \in JournalWriter
    BY <1>23, <2>1, WritePageDoes
  <2>3. UNCHANGED << ddb, jnl, djnl, cache, mine >>
    BY <1>23 DEF WritePage
  <2>4. jw' \in [Conns -> [Files -> JournalWriter]]
    <3>1. PICK x \in JournalWriter : jw' = [jw EXCEPT ![c][d] = x]
      BY <2>2
    <3> QED
      BY <1>1, <2>2, <3>1, NestTyped
  <2> QED
    BY <1>1, <2>2, <2>3, <2>4
<1>24. CASE SyncDb(c)
  <2>1. PICK d : d = cur[c]
    OBVIOUS
  <2>2. /\ d \in Files
        /\ ddb' = [ddb EXCEPT ![d] = db[d]]
        /\ jw' = [jw EXCEPT ![c][d] = jw'[c][d]] /\ jw'[c][d] \in JournalWriter
    BY <1>24, <2>1, SyncDbDoes
  <2>3. UNCHANGED << db, jnl, djnl, cache, mine >>
    BY <1>24 DEF SyncDb
  <2>4. jw' \in [Conns -> [Files -> JournalWriter]]
    <3>1. PICK x \in JournalWriter : jw' = [jw EXCEPT ![c][d] = x]
      BY <2>2
    <3> QED
      BY <1>1, <2>2, <3>1, NestTyped
  <2> QED
    BY <1>1, <2>2, <2>3, <2>4
<1>25. CASE DeleteSuper(c)
  <2>1. /\ cache' = [cache EXCEPT ![c] = [d \in Files |-> IF d \in Reserved(c) THEN mine[c][d] ELSE @[d]]]
        /\ mine' = [mine EXCEPT ![c] = [d \in Files |-> None]]
        /\ UNCHANGED << db, ddb, jnl, djnl, jw >>
    BY <1>25 DEF DeleteSuper
  <2>2. PICK g : g = [d \in Files |-> IF d \in Reserved(c) THEN mine[c][d] ELSE cache[c][d]]
    OBVIOUS
  <2>3. g \in [Files -> Seq(Page) \cup {None}] /\ cache' = [cache EXCEPT ![c] = g]
    BY <1>1, <2>1, <2>2
  <2>4. PICK h : h = [d \in Files |-> None]
    OBVIOUS
  <2>5. h \in [Files -> Seq(Page) \cup {None}] /\ mine' = [mine EXCEPT ![c] = h]
    BY <1>1, <2>1, <2>4
  <2> QED
    BY <1>1, <2>1, <2>3, <2>5
<1>26. CASE End(c)
  BY <1>1, <1>26 DEF End
<1>27. CASE Commit(c)
  BY <1>1, <1>27 DEF Commit
<1>28. CASE Rollback(c)
  BY <1>1, <1>28 DEF Rollback
<1>29. CASE Crash(c)
  <2>1. NoJw \in JournalWriter
    BY DEF NoJw, JournalWriter
  <2> QED
    BY <1>1, <1>29, <2>1 DEF Crash, Gone
<1>30. ASSUME NEW d \in Files, Open(c, d) PROVE FileTypes'
  BY <1>1, <1>30 DEF Open
<1>31. ASSUME NEW d \in Files, Reserve(c, d) PROVE FileTypes'
  <2>0. jw' = [jw EXCEPT ![c][d] = jw'[c][d]] /\ jw'[c][d] \in JournalWriter
    BY <1>31, ReserveDoes
  <2>1. PICK x \in JournalWriter : jw' = [jw EXCEPT ![c][d] = x]
    BY <2>0
  <2>2. jw' \in [Conns -> [Files -> JournalWriter]]
    BY <1>1, <2>1, NestTyped
  <2> QED
    BY <1>1, <1>31, <2>2 DEF Reserve
<1>32. ASSUME NEW d \in Files, NEW p \in Pages, Write(c, d, p) PROVE FileTypes'
  <2>1. /\ jnl' = [jnl EXCEPT ![d] = jnl'[d]] /\ jnl'[d] \in Seq(JournalCell)
        /\ jw' = [jw EXCEPT ![c][d] = jw'[c][d]] /\ jw'[c][d] \in JournalWriter
        /\ mine' = [mine EXCEPT ![c][d] = mine'[c][d]] /\ mine'[c][d] \in Seq(Page)
    BY <1>32, WriteDoes
  <2>2. PICK x \in JournalWriter, y \in Seq(Page) \cup {None} :
          jw' = [jw EXCEPT ![c][d] = x] /\ mine' = [mine EXCEPT ![c][d] = y]
    BY <2>1
  <2>3. jw' \in [Conns -> [Files -> JournalWriter]]
    BY <1>1, <2>2, NestTyped
  <2>4. mine' \in [Conns -> [Files -> Seq(Page) \cup {None}]]
    BY <1>1, <2>2, NestTyped
  <2> QED
    BY <1>1, <1>32, <2>1, <2>3, <2>4 DEF Write
<1>33. ASSUME NEW d \in Files, NEW p \in Pages, Spill(c, d, p) PROVE FileTypes'
  BY <1>1, <1>33 DEF Spill
<1> QED
  BY <1>2, <1>3, <1>4, <1>5, <1>6, <1>7, <1>8, <1>9, <1>10, <1>11, <1>12, <1>13, <1>14, <1>15,
     <1>16, <1>17, <1>18, <1>19, <1>20, <1>21, <1>22, <1>23, <1>24, <1>25, <1>26, <1>27, <1>28,
     <1>29, <1>30, <1>31, <1>32, <1>33 DEF Acts, Step

LEMMA BaseKept ==
  ASSUME Inv, NEW c \in Conns, Acts(c), setting' = setting
  PROVE  Base'
<1>1. Base /\ Stage(c) /\ Control(c) /\ TypeOK /\ \A o \in Conns : TxnKept(o)
  BY DEF Inv, Base, Phases
<1>2. Controls' /\ LockTypes'
  BY <1>1, ControlsKept, LockMoves
<1>3. PlaceTypes' /\ SmallTypes' /\ txn' \in [Conns -> 0 .. MaxTxn] /\ txns' \in 0 .. MaxTxn
  BY <1>1, PlacesTyped, SmallTyped, TxnTypesKept
<1>4. FileTypes'
  BY FileTyped
<1>5. MaxTxn' = MaxTxn /\ setting' \in Settings
  BY <1>1 DEF MaxTxn, TypeOK
<1>6. TypeOK'
  BY <1>2, <1>3, <1>4, <1>5 DEF TypeOK, LockTypes, PlaceTypes, SmallTypes, FileTypes
<1> QED
  BY <1>2, <1>6 DEF Base, Controls
=============================================================================
