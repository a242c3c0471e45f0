---------------------------- MODULE TimeCollation ----------------------------
(***************************************************************************)
(* The "time" collation registered on every connection (build/time.c).     *)
(* SQLite orders rows, looks keys up and enforces UNIQUE through it, so it *)
(* must be a total order in which only identical keys are equal, although  *)
(* it lets a key drop its Z suffix.  A key is a sequence of bytes; the     *)
(* bytes are integers, so that memcmp compares them.                       *)
(***************************************************************************)
EXTENDS Integers, SequencesExt

CONSTANTS Bytes,    \* the bytes keys are made of
          Z,        \* the byte 'Z'
          MaxLen    \* bound: the longest key considered

ASSUME BytesAssumption == Bytes \subseteq Nat /\ Z \in Bytes
ASSUME MaxLenAssumption == MaxLen \in Nat

VARIABLE keys       \* three keys, as the engine meets them: they only grow

KeyNames == 1 .. 3

Memcmp(p, q, n) ==
  LET differ == {i \in 1 .. n : p[i] # q[i]}
  IN  IF differ = {} THEN 0 ELSE p[Min(differ)] - q[Min(differ)]

\* Mutants: the length test forgotten; turned around; not for equal lengths.
DropsAnyZ(k, other) == k # << >> /\ Last(k) = Z
DropsZIfLonger(k, other) == k # << >> /\ Len(k) >= Len(other) /\ Last(k) = Z
DropsZIfShorter(k, other) == k # << >> /\ Len(k) < Len(other) /\ Last(k) = Z

(* A key drops its Z only if it is no longer than the other one.           *)
DropsZ(k, other) ==
  /\ k # << >>
  /\ Len(k) <= Len(other)
  /\ Last(k) = Z

Compared(k, other) == IF DropsZ(k, other) THEN Front(k) ELSE k

time_collation(k1, k2) ==
  LET p  == Compared(k1, k2)
      q  == Compared(k2, k1)
      rc == Memcmp(p, q, Min({Len(p), Len(q)}))
  IN  IF rc = 0 THEN Len(p) - Len(q) ELSE rc

Init == keys = [k \in KeyNames |-> << >>]

Extend(k, b) ==
  /\ Len(keys[k]) < MaxLen
  /\ keys' = [keys EXCEPT ![k] = Append(@, b)]

Next == \E k \in KeyNames, b \in Bytes : Extend(k, b)

Spec == Init /\ [][Next]_keys
-----------------------------------------------------------------------------
Before(a, b) == time_collation(a, b) < 0

TypeOK ==
  /\ keys \in [KeyNames -> Seq(Bytes)]
  /\ \A k \in KeyNames : Len(keys[k]) <= MaxLen

(* build/time.c:10-12: dropping a Z never makes two different keys equal;  *)
(* a UNIQUE index under this collation refuses identical keys only.        *)
OnlyIdenticalKeysAreEqual ==
  \A i, j \in KeyNames :
    (time_collation(keys[i], keys[j]) = 0) <=> (keys[i] = keys[j])

(* The b-tree's binary search needs an order: swapping the arguments swaps *)
(* the sign, and the order is transitive although each comparison decides  *)
(* anew which of the two keys drops its Z.                                 *)
TotalOrder ==
  \A i, j, l \in KeyNames :
    /\ Before(keys[i], keys[j]) <=> time_collation(keys[j], keys[i]) > 0
    /\ Before(keys[i], keys[j]) /\ Before(keys[j], keys[l])
         => Before(keys[i], keys[l])

(* build/time.c:11: a Z suffix collates before any character but after the *)
(* empty string, whether more characters follow that one or not.           *)
ZSuffixPlacement ==
  \A i, j \in KeyNames :
    LET stem == keys[i]
        withZ == Append(stem, Z)
    IN  /\ Before(stem, withZ)
        /\ keys[j] \notin {<< >>, << Z >>} => Before(withZ, stem \o keys[j])
=============================================================================
