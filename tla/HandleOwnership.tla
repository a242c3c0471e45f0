--------------------------- MODULE HandleOwnership ---------------------------
(***************************************************************************)
(* What the glue promises the Go program about its handles.  A handle      *)
(* stands for a Go value.  Go passes it to C with a registration or a      *)
(* binding; from then on C keeps it in one place, and gives it back by     *)
(* calling go_destroy once, after which Go may reuse the number.           *)
(* A handle never moves from one place to another, and no place holds two. *)
(***************************************************************************)
CONSTANTS Handles,    \* the handles Go can allocate
          Places,     \* where C can keep one
          Go,         \* the owner of a handle that Go may allocate
          Lost        \* the owner of one passed to C and never given back

VARIABLE owner        \* who holds each handle

Owners == Places \cup {Go, Lost}

Init == owner = [h \in Handles |-> Go]

HandedOver(h) == owner[h] = Go /\ owner'[h] \in Places \cup {Lost}
GivenBack(h)  == owner[h] \in Places /\ owner'[h] = Go

(* One call hands at most one handle over; it may give several back: those *)
(* of a statement that halts, or of a connection that closes.              *)
Next ==
  /\ owner' \in [Handles -> Owners]
  /\ \A h \in Handles :
       owner'[h] # owner[h] => HandedOver(h) \/ GivenBack(h)
  /\ \A g, h \in Handles : HandedOver(g) /\ HandedOver(h) => g = h
  /\ \A g, h \in Handles : owner'[g] = owner'[h] /\ owner'[g] \in Places => g = h

Spec == Init /\ [][Next]_owner
=============================================================================
