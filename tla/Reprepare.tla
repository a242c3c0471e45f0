------------------------------- MODULE Reprepare -------------------------------
(***************************************************************************)
(* A plan may depend on the values that were bound when it was made: on    *)
(* the value itself, or only on whether it is a small integer.  Two masks  *)
(* of the statement, one bit for each parameter and one for all from       *)
(* LastBit on, tell which bindings make it prepare itself again.           *)
(***************************************************************************)
EXTENDS Integers

CONSTANTS Params,    \* the parameters of a statement, from 1
          LastBit,   \* 32 in the code: the last bit of a mask
          Values,    \* what is bound: Null, numbers, other values
          Schemas    \* how a plan depends on each parameter, for each schema

Null == -1
Others == {-2}       \* text, blobs, floating point
Depends == {"no", "small", "value"}

ASSUME ReprepareAssumption ==
  /\ Params \subseteq Nat \ {0} /\ LastBit \in Nat \ {0}
  /\ Null \in Values /\ Values \subseteq Nat \cup {Null} \cup Others
  /\ Schemas \subseteq [Params -> Depends]

VARIABLES
  value,         \* of each parameter
  exp, sm,       \* the masks
  expired,       \* the statement must be prepared before it runs
  running,
  schema,        \* of the database,
  dep, planned,  \* and of the plan, with the values it was made for
  plans          \* history: what the plans so far depended on

vars == << value, exp, sm, expired, running, schema, dep, planned, plans >>

Integer(x) == x \in Nat
Small(x) == x \in {0, 1}

Bit(p) == IF p < LastBit THEN p ELSE LastBit

(* sqlite3VdbeReprepareOnBind for every parameter that the planner looks   *)
(* at: a bit is of the small ones if the planner looked no closer.         *)
BitsOf(d, how) == {Bit(p) : p \in {q \in Params : d[q] \in how}}
Looked(d) == BitsOf(d, {"small", "value"})
SmallOnlyFirst(d) == BitsOf(d, {"small"})   \* mutant
SmallOnly(d) == BitsOf(d, {"small"}) \ BitsOf(d, {"value"})

Init ==
  /\ schema \in Schemas /\ dep = schema
  /\ value = [p \in Params |-> Null] /\ planned = value
  /\ exp = Looked(dep) /\ sm = SmallOnly(dep)
  /\ expired = FALSE /\ running = FALSE /\ plans = {dep}
-----------------------------------------------------------------------------
(* sqlite3_bind_int64 compares the old value and the new.                  *)
BindInteger(p, x) ==
  IF Bit(p) \in sm THEN Small(value[p]) # Small(x) ELSE value[p] # x

(* Any other binding: it is not looked at, so it differs.                  *)
BindOther(p) == Bit(p) \in sm => Small(value[p])

BindsDifferent(p, x) == Bit(p) \in exp /\ IF Integer(x) THEN BindInteger(p, x) ELSE BindOther(p)

(* Refused while the statement runs.                                       *)
Bind(p, x) ==
  /\ ~running
  /\ expired' = (expired \/ BindsDifferent(p, x))
  /\ value' = [value EXCEPT ![p] = x]
  /\ UNCHANGED << exp, sm, running, schema, dep, planned, plans >>

ClearedSmall == {Bit(p) : p \in {q \in Params : Small(value[q])}}
Clears == exp \ sm # {} \/ sm \cap ClearedSmall # {}

(* sqlite3_clear_bindings is not refused.                                  *)
ClearBindings ==
  /\ expired' = (expired \/ Clears)
  /\ value' = [p \in Params |-> Null]
  /\ UNCHANGED << exp, sm, running, schema, dep, planned, plans >>

(* The first step prepares an expired statement again, and keeps the bits  *)
(* of the old masks.                                                       *)
Prepare ==
  /\ dep' = schema /\ planned' = value
  /\ exp' = exp \cup Looked(schema) /\ sm' = sm \cup SmallOnly(schema)
  /\ expired' = FALSE /\ plans' = plans \cup {schema}

Step ==
  /\ ~running /\ running' = TRUE
  /\ IF expired THEN Prepare
     ELSE UNCHANGED << exp, sm, expired, dep, planned, plans >>
  /\ UNCHANGED << value, schema >>

Reset ==
  /\ running /\ running' = FALSE
  /\ UNCHANGED << value, exp, sm, expired, schema, dep, planned, plans >>

(* A statement compiled for another schema has expired; if another         *)
(* connection made the change, the first instruction finds out.            *)
ChangeSchema(s) ==
  /\ s # schema /\ schema' = s /\ expired' = TRUE
  /\ UNCHANGED << value, exp, sm, running, dep, planned, plans >>

Next ==
  \/ \E p \in Params, x \in Values : Bind(p, x)
  \/ ClearBindings \/ Step \/ Reset
  \/ \E s \in Schemas : ChangeSchema(s)

Spec == Init /\ [][Next]_vars
-----------------------------------------------------------------------------
TypeOK ==
  /\ value \in [Params -> Values] /\ planned \in [Params -> Values]
  /\ exp \subseteq Nat /\ sm \subseteq exp
  /\ expired \in BOOLEAN /\ running \in BOOLEAN
  /\ schema \in Schemas /\ dep \in Schemas /\ plans \subseteq Schemas

(* An earlier plan looked at p, or at another parameter of its bit, only   *)
(* for its being small; its mask is never taken back.                      *)
Loosened(p) ==
  \E d \in plans : LET sharing == {d[q] : q \in {r \in Params : Bit(r) = Bit(p)}} IN
                    "small" \in sharing /\ "value" \notin sharing

Fits(p) ==
  /\ dep[p] # "no" => (Small(value[p]) <=> Small(planned[p]))
  /\ dep[p] = "value" /\ ~Loosened(p) => value[p] = planned[p]

(* A run starts with a plan that was made for what is bound, as far as the *)
(* plan depends on it, whatever has become of the schema.  Only where the  *)
(* plan depends on a value at which an earlier one did not look closely,   *)
(* no more is promised than what that one looked at.                       *)
PlanFits == [][~running /\ running' => (\A p \in Params : Fits(p))']_vars
=============================================================================
