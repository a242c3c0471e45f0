--------------------------- MODULE MCWindowFrames ----------------------------
(***************************************************************************)
(* Every frame with small offsets over every short input.                  *)
(***************************************************************************)
EXTENDS WindowFrames

MCNull == -100

Bounds == {"preceding", "following"}
\* The frames that the parser accepts.
Accepted(f) ==
  /\ f.start \notin Bounds => f.x = 0
  /\ f.end \notin Bounds => f.y = 0
  /\ ~(f.start = "current" /\ f.end = "preceding")
  /\ ~(f.start = "following" /\ f.end \in {"preceding", "current"})

\* Offsets up to most.
Every(units, exclude, orders, most) ==
  {f \in [unit : units, start : {"unbounded", "preceding", "current", "following"},
          x : 0 .. most, end : {"preceding", "current", "following", "unbounded"},
          y : 0 .. most, exclude : exclude, desc : BOOLEAN, big : BOOLEAN] :
     Accepted(f) /\ <<f.desc, f.big>> \in orders}

Ascending == {<<FALSE, FALSE>>}
Orders == BOOLEAN \X BOOLEAN

\* Inputs of so many rows, keys and partitions, which follow each other.
Lists(rows, keys, parts) ==
  {list \in UNION {[1 .. k -> [part : 1 .. parts, key : {MCNull} \cup 0 .. keys - 1]] :
                     k \in 0 .. rows} :
     \A i \in DOMAIN list : i > 1 => list[i].part - list[i - 1].part \in {0, 1}}

Try(frames, inputs, fail) == [frames |-> frames, inputs |-> inputs, faults |-> fail]

MCSettings ==
  {Try(Every({"rows", "groups"}, {"no"}, Ascending, 3), Lists(5, 2, 1), FALSE),
   Try(Every({"range"}, {"no"}, Orders, 2), Lists(4, 3, 1), FALSE),
   Try(Every({"rows", "groups", "range"}, {"current", "group", "ties"}, Ascending, 1),
       Lists(4, 2, 1), FALSE),
   Try(Every({"rows", "groups", "range"}, {"no", "ties"}, Ascending, 1), Lists(3, 1, 2), TRUE)}
==============================================================================
