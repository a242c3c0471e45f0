--------------------------- MODULE StatementsProofs ---------------------------
(***************************************************************************)
(* The two reasons for which a step of a statement starts over.  A run     *)
(* starts with a plan that fits what is bound, for any parameters, values, *)
(* schemas and width of the masks.  And connections that wait for locks of *)
(* a file never wait for each other alone, for any connections, files and  *)
(* transactions.                                                           *)
(*                                                                         *)
(* What a statement does with window functions: for every frame and every  *)
(* input, the Go aggregates behind handles are the registers', wherever a  *)
(* statement ends, and nothing is taken out of an aggregate that has not   *)
(* been made.                                                              *)
(***************************************************************************)
EXTENDS Reprepare, BusyHandler, WindowFrames, SequenceTheorems, TLAPS

(* The masks cover what the plan depends on, and only a parameter at which *)
(* some plan looked no closer has a bit of the small ones.                 *)
Masks ==
  /\ Looked(dep) \subseteq exp
  /\ \A p \in Params : Bit(p) \in sm => Loosened(p)

AllFit == ~expired => \A p \in Params : Fits(p)

Inv == TypeOK /\ Masks /\ AllFit

LEMMA BitIsNat == \A p \in Params : Bit(p) \in Nat
BY ReprepareAssumption DEF Bit

LEMMA MasksAreBits ==
  ASSUME NEW d \in Schemas
  PROVE  Looked(d) \subseteq Nat /\ SmallOnly(d) \subseteq Looked(d)
BY BitIsNat DEF Looked, SmallOnly, BitsOf

(* The definition of Loosened, by the bits.                                *)
LEMMA LoosenedIs ==
  ASSUME NEW p \in Params
  PROVE  Loosened(p) <=> \E d \in plans : Bit(p) \in SmallOnly(d)
<1>1. ASSUME NEW d
      PROVE  /\ "small" \in {d[q] : q \in {r \in Params : Bit(r) = Bit(p)}}
                  <=> Bit(p) \in BitsOf(d, {"small"})
             /\ "value" \in {d[q] : q \in {r \in Params : Bit(r) = Bit(p)}}
                  <=> Bit(p) \in BitsOf(d, {"value"})
  BY DEF BitsOf
<1> QED
  BY <1>1 DEF Loosened, SmallOnly

LEMMA LoosenedNext ==
  \A p \in Params : Loosened(p)' <=> \E d \in plans' : Bit(p) \in SmallOnly(d)
<1>1. ASSUME NEW p \in Params
      PROVE  (Loosened(p) <=> \E d \in plans : Bit(p) \in SmallOnly(d))'
  BY LoosenedIs, PTL
<1> QED
  BY <1>1

LEMMA InitInv == Init => Inv
<1> SUFFICES ASSUME Init PROVE Inv
  OBVIOUS
<1>1. TypeOK
  BY MasksAreBits, ReprepareAssumption DEF Init, TypeOK
<1>2. Masks
  BY LoosenedIs DEF Init, Masks
<1>3. AllFit
  BY DEF Init, AllFit, Fits
<1> QED
  BY <1>1, <1>2, <1>3 DEF Inv

LEMMA PrepareInv ==
  ASSUME Inv, Prepare, UNCHANGED << value, schema >>
  PROVE  Masks' /\ (\A p \in Params : Fits(p))'
<1>1. Looked(dep)' \subseteq exp'
  BY DEF Prepare, Looked, BitsOf
<1>2. ASSUME NEW p \in Params, Bit(p) \in sm'
      PROVE  Loosened(p)'
  <2>1. sm' = sm \cup SmallOnly(schema) /\ plans' = plans \cup {schema}
    BY DEF Prepare
  <2>2. CASE Bit(p) \in sm
    <3>1. \E d \in plans : Bit(p) \in SmallOnly(d)
      BY <2>2, LoosenedIs DEF Inv, Masks
    <3> QED
      BY <2>1, <3>1, LoosenedNext
  <2>3. CASE Bit(p) \in SmallOnly(schema)
    BY <2>1, <2>3, LoosenedNext
  <2> QED
    BY <1>2, <2>1, <2>2, <2>3
<1>3. (\A p \in Params : Fits(p))'
  BY DEF Prepare, Fits
<1>4. (\A p \in Params : Bit(p) \in sm => Loosened(p))'
  BY <1>2
<1> QED
  BY <1>1, <1>3, <1>4 DEF Masks

(* A binding that does not make the statement expire leaves the plan fit.  *)
LEMMA BindFits ==
  ASSUME Inv, NEW p \in Params, NEW x \in Values, Bind(p, x), ~expired', NEW q \in Params
  PROVE  Fits(q)'
<1>1. TypeOK /\ Masks /\ AllFit /\ dep \in Schemas
  BY DEF Inv, TypeOK
<1>2. ~expired /\ ~BindsDifferent(p, x) /\ Fits(q)
  BY <1>1 DEF Bind, AllFit
<1>3. /\ value' = [value EXCEPT ![p] = x] /\ dep' = dep /\ planned' = planned
      /\ (Loosened(q)' <=> Loosened(q))
  BY DEF Bind, Loosened
<1>4. CASE q # p
  BY <1>1, <1>2, <1>3, <1>4 DEF Fits, TypeOK
<1>5. CASE q = p
  <2>1. value'[q] = x
    BY <1>1, <1>3, <1>5 DEF TypeOK
  <2>2. CASE dep[q] # "no"
    <3>1. Bit(q) \in exp
      BY <1>1, <2>2, ReprepareAssumption DEF Masks, Looked, BitsOf, Depends
    <3>2. Small(value[q]) <=> Small(x)
      <4>1. CASE Integer(x)
        BY <1>2, <1>5, <3>1, <4>1 DEF BindsDifferent, BindInteger
      <4>2. CASE ~Integer(x)
        BY <1>2, <1>5, <3>1, <4>2 DEF BindsDifferent, BindOther, Integer, Small
      <4> QED
        BY <4>1, <4>2
    <3>3. ~Loosened(q) => value[q] = x
      <4> SUFFICES ASSUME ~Loosened(q) PROVE value[q] = x
        OBVIOUS
      <4>1. Bit(q) \notin sm
        BY <1>1 DEF Masks
      <4> QED
        BY <1>2, <1>5, <3>1, <4>1 DEF BindsDifferent, BindInteger, BindOther
    <3> QED
      BY <1>2, <1>3, <2>1, <2>2, <3>2, <3>3 DEF Fits
  <2>3. CASE dep[q] = "no"
    BY <1>3, <2>3 DEF Fits
  <2> QED
    BY <2>2, <2>3
<1> QED
  BY <1>4, <1>5

LEMMA ClearFits ==
  ASSUME Inv, ClearBindings, ~expired', NEW q \in Params
  PROVE  Fits(q)'
<1>1. TypeOK /\ Masks /\ AllFit /\ dep \in Schemas
  BY DEF Inv, TypeOK
<1>2. ~expired /\ ~Clears /\ Fits(q)
  BY <1>1 DEF ClearBindings, AllFit
<1>3. value'[q] = Null /\ dep' = dep /\ planned' = planned /\ (Loosened(q)' <=> Loosened(q))
  BY DEF ClearBindings, Loosened
<1>4. dep[q] # "no" => ~Small(value[q]) /\ Loosened(q)
  <2> SUFFICES ASSUME dep[q] # "no" PROVE ~Small(value[q]) /\ Loosened(q)
    OBVIOUS
  <2>1. Bit(q) \in exp
    BY <1>1, ReprepareAssumption DEF Masks, Looked, BitsOf, Depends
  <2>2. Bit(q) \in sm
    BY <1>2, <2>1 DEF Clears
  <2>3. Bit(q) \notin ClearedSmall
    BY <1>2, <2>2 DEF Clears
  <2> QED
    BY <1>1, <2>2, <2>3 DEF Masks, ClearedSmall
<1> QED
  BY <1>2, <1>3, <1>4 DEF Fits, Small, Null

LEMMA NextInv ==
  ASSUME Inv, [Next]_vars
  PROVE  Inv'
<1>1. TypeOK /\ Masks /\ AllFit
  BY DEF Inv
<1>2. CASE UNCHANGED vars
  BY <1>1, <1>2 DEF Inv, TypeOK, Masks, AllFit, Fits, Loosened, vars
<1>3. ASSUME NEW p \in Params, NEW x \in Values, Bind(p, x) PROVE Inv'
  <2>1. value' \in [Params -> Values] /\ UNCHANGED << exp, sm, running, schema, dep, planned, plans >>
    BY <1>1, <1>3 DEF TypeOK, Bind
  <2>2. expired' \in BOOLEAN
    BY <1>1, <1>3 DEF TypeOK, Bind
  <2>3. AllFit'
    BY <1>3, BindFits DEF AllFit
  <2> QED
    BY <1>1, <2>1, <2>2, <2>3 DEF Inv, TypeOK, Masks, Loosened
<1>4. CASE ClearBindings
  <2>1. value' \in [Params -> Values] /\ UNCHANGED << exp, sm, running, schema, dep, planned, plans >>
    BY <1>4, ReprepareAssumption DEF ClearBindings
  <2>2. expired' \in BOOLEAN
    BY <1>1, <1>4 DEF TypeOK, ClearBindings
  <2>3. AllFit'
    BY <1>4, ClearFits DEF AllFit
  <2> QED
    BY <1>1, <2>1, <2>2, <2>3 DEF Inv, TypeOK, Masks, Loosened
<1>5. CASE Step
  <2>1. CASE Prepare
    <3>1. Masks' /\ AllFit'
      BY <1>5, <2>1, PrepareInv DEF Step, AllFit
    <3>2. TypeOK'
      BY <1>1, <1>5, <2>1, MasksAreBits DEF TypeOK, Step, Prepare
    <3> QED
      BY <3>1, <3>2 DEF Inv
  <2>2. CASE UNCHANGED << exp, sm, expired, dep, planned, plans >>
    BY <1>1, <1>5, <2>2 DEF Inv, TypeOK, Masks, AllFit, Fits, Loosened, Step
  <2> QED
    BY <1>5, <2>1, <2>2 DEF Step
<1>6. CASE Reset
  BY <1>1, <1>6 DEF Inv, TypeOK, Masks, AllFit, Fits, Loosened, Reset
<1>7. ASSUME NEW s \in Schemas, ChangeSchema(s) PROVE Inv'
  BY <1>1, <1>7 DEF Inv, TypeOK, Masks, AllFit, Fits, Loosened, ChangeSchema
<1> QED
  BY <1>2, <1>3, <1>4, <1>5, <1>6, <1>7 DEF Next

LEMMA Induction == Spec => []Inv
<1>1. Init => Inv
  BY InitInv
<1>2. ASSUME Inv, [Next]_vars PROVE Inv'
  BY <1>2, NextInv
<1> QED
  BY <1>1, <1>2, PTL DEF Spec
-----------------------------------------------------------------------------
(* The small mask never has a bit the other lacks.                         *)
THEOREM MasksTyped == Spec => []TypeOK
<1>1. Inv => TypeOK
  BY DEF Inv
<1> QED
  BY <1>1, Induction, PTL

(* Every run starts with a plan that was made for what is bound, as far as *)
(* it depends on it, whatever the schemas; but for a value at which an     *)
(* earlier plan looked less closely, of which only its being small is      *)
(* known to agree.                                                         *)
THEOREM PlansFit == Spec => PlanFits
<1>1. ASSUME Inv, [Next]_vars
      PROVE  [~running /\ running' => (\A p \in Params : Fits(p))']_vars
  <2> SUFFICES ASSUME ~running, running', Next PROVE (\A p \in Params : Fits(p))'
    BY <1>1 DEF vars
  <2>1. Step
    BY DEF Next, Bind, ClearBindings, Reset, ChangeSchema
  <2>2. CASE Prepare
    BY <1>1, <2>1, <2>2, PrepareInv DEF Step
  <2>3. CASE ~Prepare
    <3>1. ~expired /\ UNCHANGED << value, dep, planned, plans >>
      BY <2>1, <2>3 DEF Step
    <3> QED
      BY <1>1, <3>1 DEF Inv, AllFit, Fits, Loosened
  <2> QED
    BY <2>2, <2>3
<1> QED
  BY <1>1, Induction, PTL DEF Spec, PlanFits
-----------------------------------------------------------------------------
(***************************************************************************)
(* Locks.                                                                  *)
(***************************************************************************)
Strong == {"reserved", "pending", "exclusive"}

LockTypes ==
  /\ setting \in Setting
  /\ lock \in [Connections -> [Files -> Locks]]
  /\ trans \in [Connections -> [Files -> 0 .. 2]]
  /\ todo \in [Connections -> Seq(Ops)]
  /\ explicit \in [Connections -> BOOLEAN]
  /\ waiting \in [Connections -> BOOLEAN]

(* A file has one connection at most that may come to write.               *)
OneWriter ==
  \A f \in Files : \A c, d \in Connections :
    lock[c][f] \in Strong /\ lock[d][f] \in Strong => c = d

(* A transaction has a lock, and one that writes keeps others from it.     *)
TransLocked ==
  \A c \in Connections : \A f \in Files :
    /\ trans[c][f] # 0 => lock[c][f] # "none"
    /\ trans[c][f] = 2 => lock[c][f] \in Strong

(* Who waits has not all it wants, and only who waits to write alone has   *)
(* something of the file.                                                  *)
WaitsRight(c) ==
  waiting[c] =>
    /\ todo[c] # << >> /\ ~Complete(c)
    /\ LET w == Wanted(c)
       IN lock[c][w.file] = IF w.lock = "exclusive" THEN "pending" ELSE "none"

LockInv == LockTypes /\ OneWriter /\ TransLocked /\ \A c \in Connections : WaitsRight(c)

LEMMA FirstOp ==
  ASSUME LockTypes, NEW c \in Connections, todo[c] # << >>
  PROVE  /\ Current(c) \in Ops
         /\ Tail(todo[c]) \in Seq(Ops)
<1>1. todo[c] \in Seq(Ops)
  BY DEF LockTypes
<1> QED
  BY <1>1 DEF Current

(* The next lock of a file is the one after that which it has.             *)
NextLock(c) ==
  LET w == Wanted(c)
  IN /\ w.file \in Files
     /\ \/ w.lock = "shared" /\ lock[c][w.file] = "none"
        \/ w.lock = "reserved" /\ lock[c][w.file] = "shared"
        \/ w.lock = "exclusive" /\ lock[c][w.file] \in {"reserved", "pending"}

LEMMA WantsNext ==
  LockTypes /\ TransLocked =>
    \A c \in Connections : todo[c] # << >> /\ ~Complete(c) => NextLock(c)
<1> SUFFICES ASSUME LockTypes, TransLocked, NEW c \in Connections, todo[c] # << >>,
                    ~Complete(c)
             PROVE  NextLock(c)
  OBVIOUS
<1>1. Current(c) \in Ops
  BY FirstOp
<1>2. CASE Current(c).op = "commit"
  <2> DEFINE f == CHOOSE x \in ToCommit(c) : TRUE
  <2>1. ToCommit(c) # {}
    BY <1>2 DEF Complete
  <2>2. f \in ToCommit(c)
    BY <2>1
  <2>3. Wanted(c) = [file |-> f, lock |-> "exclusive"]
    BY <1>2 DEF Wanted
  <2> HIDE DEF f
  <2>4. f \in Files /\ lock[c][f] \in Strong /\ lock[c][f] # "exclusive"
    BY <2>2 DEF ToCommit, TransLocked
  <2> QED
    BY <2>3, <2>4 DEF NextLock, Strong
<1>3. CASE Current(c).op # "commit"
  <2> DEFINE f == Current(c).file
             mode == Current(c).mode
             steps == CASE mode = 1 -> <<"shared">>
                        [] mode = 2 -> <<"shared", "reserved">>
                        [] mode = 3 -> <<"shared", "reserved", "exclusive">>
             P(k) == ~Holds(c, f, steps[k]) /\ \A j \in 1 .. k - 1 : Holds(c, f, steps[j])
             i == CHOOSE k \in DOMAIN steps : P(k)
  <2>1. f \in Files /\ mode \in 1 .. 3
    BY <1>1, <1>3 DEF Ops
  <2>2. Wanted(c) = [file |-> f, lock |-> steps[i]]
    BY <1>3 DEF Wanted
  <2>3. ~Holds(c, f, Target(mode))
    BY <1>3 DEF Complete
  <2>4. lock[c][f] \in Locks
    BY <2>1 DEF LockTypes
  <2> HIDE DEF f, mode
  <2>5. /\ DOMAIN steps = 1 .. mode /\ steps[1] = "shared"
        /\ mode >= 2 => steps[2] = "reserved"
        /\ mode = 3 => steps[3] = "exclusive"
    <3>1. CASE mode = 1
      BY <3>1
    <3>2. CASE mode = 2
      <4>1. steps = <<"shared", "reserved">>
        BY <3>2
      <4> QED
        BY <3>2, <4>1
    <3>3. CASE mode = 3
      <4>1. steps = <<"shared", "reserved", "exclusive">>
        BY <3>3
      <4> QED
        BY <3>3, <4>1
    <3> QED
      BY <2>1, <3>1, <3>2, <3>3
  <2>6. /\ Holds(c, f, "shared") <=> lock[c][f] # "none"
        /\ Holds(c, f, "reserved") <=> lock[c][f] \notin {"none", "shared"}
        /\ Holds(c, f, "exclusive") <=> lock[c][f] = "exclusive"
    BY DEF Holds
  <2>7. ~Holds(c, f, steps[mode])
    BY <2>1, <2>3, <2>5 DEF Target
  <2> HIDE DEF steps
  <2>8. \E k \in DOMAIN steps : P(k)
    <3>1. CASE ~Holds(c, f, steps[1])
      <4>1. 1 \in DOMAIN steps /\ P(1)
        BY <2>1, <2>5, <3>1
      <4> QED
        BY <4>1
    <3>2. CASE Holds(c, f, steps[1]) /\ mode >= 2 /\ ~Holds(c, f, steps[2])
      <4>1. 2 \in DOMAIN steps /\ P(2)
        BY <2>1, <2>5, <3>2
      <4> QED
        BY <4>1
    <3>3. CASE mode = 3 /\ Holds(c, f, steps[1]) /\ Holds(c, f, steps[2])
      <4>1. 3 \in DOMAIN steps /\ P(3)
        BY <2>1, <2>5, <2>7, <3>3
      <4> QED
        BY <4>1
    <3> QED
      BY <2>1, <2>7, <3>1, <3>2, <3>3
  <2>9. i \in DOMAIN steps /\ P(i)
    BY <2>8
  <2> HIDE DEF i
  <2>10. \/ steps[i] = "shared" /\ lock[c][f] = "none"
         \/ steps[i] = "reserved" /\ lock[c][f] = "shared"
         \/ steps[i] = "exclusive" /\ lock[c][f] \in {"reserved", "pending"}
    <3>1. i = 1 \/ i = 2 \/ i = 3
      BY <2>1, <2>9, <2>5
    <3>2. CASE i = 1
      <4>1. steps[i] = "shared" /\ ~Holds(c, f, "shared")
        BY <2>9, <2>5, <3>2
      <4> QED
        BY <2>6, <4>1
    <3>3. CASE i = 2
      <4>1. steps[i] = "reserved" /\ ~Holds(c, f, "reserved")
        BY <2>1, <2>9, <2>5, <3>3
      <4>2. Holds(c, f, "shared")
        BY <2>9, <2>5, <3>3
      <4> QED
        BY <2>4, <2>6, <4>1, <4>2 DEF Locks
    <3>4. CASE i = 3
      <4>1. steps[i] = "exclusive" /\ ~Holds(c, f, "exclusive")
        BY <2>1, <2>9, <2>5, <3>4
      <4>2. Holds(c, f, "reserved")
        BY <2>1, <2>9, <2>5, <3>4
      <4> QED
        BY <2>4, <2>6, <4>1, <4>2 DEF Locks
    <3> QED
      BY <3>1, <3>2, <3>3, <3>4
  <2> QED
    BY <2>1, <2>2, <2>10 DEF NextLock
<1> QED
  BY <1>2, <1>3

(* What a connection waits for depends on what is its own.                 *)
Same(d) == /\ lock'[d] = lock[d] /\ trans'[d] = trans[d]
           /\ todo'[d] = todo[d] /\ waiting'[d] = waiting[d]

LEMMA WaitsOn ==
  ASSUME NEW d \in Connections, Same(d), WaitsRight(d)
  PROVE  WaitsRight(d)'
<1>1. Current(d)' = Current(d) /\ ToCommit(d)' = ToCommit(d)
  BY DEF Same, Current, ToCommit
<1>2. \A f, w : Holds(d, f, w)' = Holds(d, f, w)
  BY DEF Same, Holds
<1>3. Complete(d)' = Complete(d)
  <2> DEFINE op == Current(d)
  <2>1. op' = op
    BY <1>1
  <2>2. Complete(d) = IF op.op = "commit" THEN ToCommit(d) = {}
                           ELSE Holds(d, op.file, Target(op.mode))
    BY DEF Complete
  <2>3. Complete(d)' = IF op'.op = "commit" THEN ToCommit(d)' = {}
                            ELSE Holds(d, op.file, Target(op.mode))'
    BY DEF Complete
  <2> QED
    BY <1>1, <1>2, <2>1, <2>2, <2>3
<1>4. Wanted(d)' = Wanted(d)
  BY <1>1, <1>2 DEF Wanted
<1> QED
  BY <1>3, <1>4 DEF Same, WaitsRight

(* A step of one connection keeps the invariant if it makes no second      *)
(* writer and leaves its own locks and transactions in order.              *)
LEMMA OneMoves ==
  ASSUME LockInv, LockTypes', NEW c \in Connections, \A d \in Connections \ {c} : Same(d),
         \A f \in Files : lock'[c][f] \in Strong =>
           lock[c][f] \in Strong \/ \A d \in Connections \ {c} : lock[d][f] \notin Strong,
         \A f \in Files : /\ trans'[c][f] # 0 => lock'[c][f] # "none"
                          /\ trans'[c][f] = 2 => lock'[c][f] \in Strong,
         WaitsRight(c)'
  PROVE  LockInv'
<1>1. OneWriter'
  BY DEF LockInv, OneWriter, Same
<1>2. TransLocked'
  BY DEF LockInv, TransLocked, Same
<1>3. \A d \in Connections : WaitsRight(d)'
  BY WaitsOn DEF LockInv
<1> QED
  BY <1>1, <1>2, <1>3 DEF LockInv

LEMMA CallKeeps ==
  ASSUME LockInv, NEW c \in Connections, setting' = setting, Call(c)
  PROVE  LockInv'
<1>1. PICK ops \in setting.calls : todo' = [todo EXCEPT ![c] = ops]
  BY DEF Call
<1>2. ops \in Seq(Ops)
  BY DEF LockInv, LockTypes, Setting
<1>3. UNCHANGED << lock, trans, explicit, waiting >> /\ todo[c] = << >>
  BY DEF Call
<1>4. LockTypes'
  BY <1>1, <1>2, <1>3 DEF LockInv, LockTypes
<1>5. WaitsRight(c)'
  BY <1>3 DEF LockInv, LockTypes, WaitsRight
<1>6. \A d \in Connections \ {c} : Same(d)
  BY <1>1, <1>3 DEF LockInv, LockTypes, Same
<1> QED
  BY <1>3, <1>4, <1>5, <1>6, OneMoves DEF LockInv, TransLocked

LEMMA ProceedKeeps ==
  ASSUME LockInv, NEW c \in Connections, setting' = setting, Proceed(c)
  PROVE  LockInv'
<1> DEFINE op == Current(c)
<1>1. /\ LockTypes /\ TransLocked /\ todo[c] # << >> /\ Complete(c)
      /\ todo' = [todo EXCEPT ![c] = Tail(@)] /\ waiting' = waiting
  BY DEF LockInv, Proceed
<1>2. op \in Ops /\ Tail(todo[c]) \in Seq(Ops)
  BY <1>1, FirstOp
<1>3. ~waiting[c]
  BY <1>1 DEF LockInv, WaitsRight
<1>4. WaitsRight(c)'
  BY <1>1, <1>3 DEF WaitsRight
<1>5. CASE op.op = "commit"
  <2>1. /\ lock' = [lock EXCEPT ![c] = [f \in Files |-> "none"]]
        /\ trans' = [trans EXCEPT ![c] = [f \in Files |-> 0]]
        /\ explicit' = [explicit EXCEPT ![c] = FALSE]
    BY <1>5 DEF Proceed, Released
  <2>2. LockTypes'
    BY <1>1, <1>2, <2>1 DEF LockTypes, Locks
  <2>3. \A d \in Connections \ {c} : Same(d)
    BY <1>1, <2>1 DEF LockTypes, Same
  <2>4. \A f \in Files : lock'[c][f] = "none" /\ trans'[c][f] = 0
    BY <1>1, <2>1 DEF LockTypes
  <2> QED
    BY <1>4, <2>2, <2>3, <2>4, OneMoves DEF Strong
<1>6. CASE op.op # "commit"
  <2> DEFINE t == IF op.mode = 1 THEN 1 ELSE 2
             f == op.file
  <2>1. f \in Files /\ op.mode \in 1 .. 3 /\ t \in 1 .. 2
    BY <1>2, <1>6 DEF Ops
  <2>2. /\ trans' = [trans EXCEPT ![c][f] = IF @ > t THEN @ ELSE t]
        /\ lock' = lock
        /\ explicit' = explicit \/ explicit' = [explicit EXCEPT ![c] = TRUE]
    BY <1>6 DEF Proceed
  <2>3. Holds(c, f, Target(op.mode))
    BY <1>1, <1>6 DEF Complete
  <2>4. lock[c][f] \in Locks /\ trans[c][f] \in 0 .. 2
    BY <1>1, <2>1 DEF LockTypes
  <2>5. lock[c][f] # "none" /\ (t = 2 => lock[c][f] \in Strong)
    <3>1. CASE op.mode = 1
      BY <2>3, <3>1 DEF Holds, Target
    <3>2. CASE op.mode = 2
      BY <2>3, <2>4, <3>2 DEF Holds, Target, Strong, Locks
    <3>3. CASE op.mode = 3
      BY <2>3, <3>3 DEF Holds, Target, Strong
    <3> QED
      BY <2>1, <3>1, <3>2, <3>3
  <2> HIDE DEF t, f
  <2>6. /\ trans'[c][f] = IF trans[c][f] > t THEN trans[c][f] ELSE t
        /\ \A g \in Files \ {f} : trans'[c][g] = trans[c][g]
        /\ \A d \in Connections \ {c} : trans'[d] = trans[d]
    BY <1>1, <2>1, <2>2 DEF LockTypes
  <2>7. LockTypes'
    <3>1. trans' \in [Connections -> [Files -> 0 .. 2]]
      BY <1>1, <2>1, <2>2, <2>4 DEF LockTypes
    <3> QED
      BY <1>1, <1>2, <2>2, <3>1 DEF LockTypes
  <2>8. \A d \in Connections \ {c} : Same(d)
    BY <1>1, <2>2, <2>6 DEF LockTypes, Same
  <2>9. \A g \in Files : /\ trans'[c][g] # 0 => lock'[c][g] # "none"
                         /\ trans'[c][g] = 2 => lock'[c][g] \in Strong
    BY <1>1, <2>1, <2>2, <2>4, <2>5, <2>6 DEF TransLocked
  <2> QED
    BY <1>4, <2>2, <2>7, <2>8, <2>9, OneMoves
<1> QED
  BY <1>5, <1>6

LEMMA RollbackKeeps ==
  ASSUME LockInv, NEW c \in Connections, setting' = setting, Rollback(c)
  PROVE  LockInv'
<1>1. /\ lock' = [lock EXCEPT ![c] = [f \in Files |-> "none"]]
      /\ trans' = [trans EXCEPT ![c] = [f \in Files |-> 0]]
      /\ explicit' = [explicit EXCEPT ![c] = FALSE]
      /\ UNCHANGED << todo, waiting >> /\ todo[c] = << >> /\ LockTypes
  BY DEF Rollback, Released, LockInv
<1>2. LockTypes'
  BY <1>1 DEF LockTypes, Locks
<1>3. \A d \in Connections \ {c} : Same(d)
  BY <1>1 DEF LockTypes, Same
<1>4. \A f \in Files : lock'[c][f] = "none" /\ trans'[c][f] = 0
  BY <1>1 DEF LockTypes
<1>5. WaitsRight(c)'
  BY <1>1 DEF LockInv, WaitsRight
<1> QED
  BY <1>2, <1>3, <1>4, <1>5, OneMoves DEF Strong

(* The lock that is taken comes after the one there was.                   *)
LEMMA TakeKeeps ==
  ASSUME LockInv, NEW c \in Connections, setting' = setting, Take(c)
  PROVE  LockInv'
<1> DEFINE w == Wanted(c)
           f == w.file
           l == w.lock
<1>1. /\ LockTypes /\ TransLocked /\ todo[c] # << >> /\ ~Complete(c)
      /\ Barring(c, f, l) = {}
      /\ lock' = [lock EXCEPT ![c][f] = l]
      /\ waiting' = [waiting EXCEPT ![c] = FALSE]
      /\ UNCHANGED << trans, explicit, todo >>
  BY DEF Take, LockInv
<1>2. /\ f \in Files
      /\ \/ l = "shared" /\ lock[c][f] = "none"
         \/ l = "reserved" /\ lock[c][f] = "shared"
         \/ l = "exclusive" /\ lock[c][f] \in {"reserved", "pending"}
  BY <1>1, WantsNext DEF NextLock
<1> HIDE DEF w, f, l
<1>3. /\ lock'[c][f] = l /\ \A g \in Files \ {f} : lock'[c][g] = lock[c][g]
      /\ \A d \in Connections \ {c} : lock'[d] = lock[d]
  BY <1>1, <1>2 DEF LockTypes
<1>4. LockTypes'
  <2>1. l \in Locks
    BY <1>2 DEF Locks
  <2>2. lock' \in [Connections -> [Files -> Locks]]
    BY <1>1, <1>2, <2>1 DEF LockTypes
  <2> QED
    BY <1>1, <2>2 DEF LockTypes
<1>5. \A d \in Connections \ {c} : Same(d)
  BY <1>1, <1>3 DEF LockTypes, Same
<1>6. ~waiting'[c]
  BY <1>1 DEF LockTypes
<1>7. \A g \in Files : lock'[c][g] \in Strong =>
        lock[c][g] \in Strong \/ \A d \in Connections \ {c} : lock[d][g] \notin Strong
  <2>1. l = "reserved" => \A d \in Connections \ {c} : lock[d][f] \notin Strong
    BY <1>1 DEF Barring, Bars, Strong
  <2> QED
    BY <1>2, <1>3, <2>1 DEF Strong
<1>8. \A g \in Files : /\ trans'[c][g] # 0 => lock'[c][g] # "none"
                       /\ trans'[c][g] = 2 => lock'[c][g] \in Strong
  BY <1>1, <1>2, <1>3 DEF TransLocked, Strong
<1>9. WaitsRight(c)'
  BY <1>6 DEF WaitsRight
<1> QED
  BY <1>4, <1>5, <1>7, <1>8, <1>9, OneMoves

(* When a transaction has its locks.                                       *)
LEMMA CompleteIs ==
  LockTypes =>
    \A c \in Connections :
      LET op == Current(c)
      IN  op \in Ops /\ op.op # "commit" =>
            /\ op.mode = 1 => (Complete(c) <=> lock[c][op.file] # "none")
            /\ op.mode = 2 => (Complete(c) <=> lock[c][op.file] \in Strong)
            /\ op.mode = 3 => (Complete(c) <=> lock[c][op.file] = "exclusive")
<1> SUFFICES ASSUME LockTypes, NEW c \in Connections, NEW op, op = Current(c),
                    op \in Ops, op.op # "commit"
             PROVE  /\ op.mode = 1 => (Complete(c) <=> lock[c][op.file] # "none")
                    /\ op.mode = 2 => (Complete(c) <=> lock[c][op.file] \in Strong)
                    /\ op.mode = 3 => (Complete(c) <=> lock[c][op.file] = "exclusive")
  OBVIOUS
<1>1. op.file \in Files /\ lock[c][op.file] \in Locks
  BY DEF Ops, LockTypes
<1>2. Complete(c) <=> Holds(c, op.file, Target(op.mode))
  BY DEF Complete
<1>3. CASE op.mode = 1
  BY <1>2, <1>3 DEF Holds, Target
<1>4. CASE op.mode = 2
  BY <1>1, <1>2, <1>4 DEF Holds, Target, Strong, Locks
<1>5. CASE op.mode = 3
  BY <1>2, <1>5 DEF Holds, Target
<1> QED
  BY <1>3, <1>4, <1>5

LEMMA CompleteIsThen ==
  LockTypes' =>
    (\A c \in Connections :
      LET op == Current(c)
      IN  op \in Ops /\ op.op # "commit" =>
            /\ op.mode = 1 => (Complete(c) <=> lock[c][op.file] # "none")
            /\ op.mode = 2 => (Complete(c) <=> lock[c][op.file] \in Strong)
            /\ op.mode = 3 => (Complete(c) <=> lock[c][op.file] = "exclusive"))'
BY CompleteIs, PTL

LEMMA WantsNextThen ==
  (LockTypes /\ TransLocked)' =>
    (\A c \in Connections : todo[c] # << >> /\ ~Complete(c) => NextLock(c))'
BY WantsNext, PTL

(* What is left by who could not have a lock.                              *)
LEMMA Left ==
  ASSUME LockTypes, TransLocked, NEW c \in Connections, todo[c] # << >>, ~Complete(c),
         NEW w, w = Wanted(c)
  PROVE  /\ w.file \in Files
         /\ w.lock = "exclusive" => /\ LeftWith(c, w) = "pending"
                                    /\ lock[c][w.file] \in {"reserved", "pending"}
         /\ w.lock # "exclusive" =>
              \/ LeftWith(c, w) = "none" /\ trans[c][w.file] = 0
              \/ LeftWith(c, w) = lock[c][w.file] /\ ~MayWait(c, w)
         /\ LeftWith(c, w) \in Locks
<1>1. /\ w.file \in Files
      /\ \/ w.lock = "shared" /\ lock[c][w.file] = "none"
         \/ w.lock = "reserved" /\ lock[c][w.file] = "shared"
         \/ w.lock = "exclusive" /\ lock[c][w.file] \in {"reserved", "pending"}
  BY WantsNext DEF NextLock
<1>2. trans[c][w.file] # 0 => lock[c][w.file] # "none"
  BY <1>1 DEF TransLocked
<1> QED
  BY <1>1, <1>2 DEF LeftWith, MayWait, Locks

LEMMA WaitKeeps ==
  ASSUME LockInv, NEW c \in Connections, setting' = setting, Wait(c)
  PROVE  LockInv'
<1> DEFINE w == Wanted(c)
           f == w.file
           op == Current(c)
           left == IF w.lock = "exclusive" THEN "pending" ELSE "none"
<1>1. /\ LockTypes /\ TransLocked /\ todo[c] # << >> /\ ~Complete(c)
      /\ MayWait(c, w)
      /\ lock' = [lock EXCEPT ![c][f] = LeftWith(c, w)]
      /\ waiting' = [waiting EXCEPT ![c] = TRUE]
      /\ UNCHANGED << trans, explicit, todo >>
  BY DEF Wait, LockInv
<1>2. /\ f \in Files /\ LeftWith(c, w) = left
      /\ w.lock = "exclusive" => lock[c][f] \in {"reserved", "pending"}
      /\ w.lock # "exclusive" => trans[c][f] = 0
  BY <1>1, Left
<1> HIDE DEF w, f
<1>3. /\ lock'[c][f] = left /\ \A g \in Files \ {f} : lock'[c][g] = lock[c][g]
      /\ \A d \in Connections \ {c} : lock'[d] = lock[d]
  BY <1>1, <1>2 DEF LockTypes
<1>4. LockTypes'
  <2>1. left \in Locks
    BY DEF Locks
  <2>2. lock' \in [Connections -> [Files -> Locks]]
    BY <1>1, <1>2, <2>1 DEF LockTypes
  <2> QED
    BY <1>1, <2>2 DEF LockTypes
<1>5. \A d \in Connections \ {c} : Same(d)
  BY <1>1, <1>3 DEF LockTypes, Same
<1>6. \A g \in Files : lock'[c][g] \in Strong =>
        lock[c][g] \in Strong \/ \A d \in Connections \ {c} : lock[d][g] \notin Strong
  BY <1>2, <1>3 DEF Strong
<1>7. \A g \in Files : /\ trans'[c][g] # 0 => lock'[c][g] # "none"
                       /\ trans'[c][g] = 2 => lock'[c][g] \in Strong
  BY <1>1, <1>2, <1>3 DEF TransLocked, Strong
<1>8. TransLocked'
  BY <1>1, <1>5, <1>7 DEF TransLocked, Same
<1>9. Current(c)' = op
  BY <1>1 DEF Current
<1>10. WaitsRight(c)'
  <2>1. CASE op.op = "commit"
    <3>1. w = [file |-> CHOOSE g \in ToCommit(c) : TRUE, lock |-> "exclusive"]
      BY <2>1 DEF Wanted, w
    <3>2. lock[c][f] # "exclusive" /\ lock'[c][f] = "pending"
      BY <1>2, <1>3, <3>1
    <3>3. ToCommit(c)' = ToCommit(c)
      BY <1>1, <1>2, <1>3, <3>2 DEF ToCommit
    <3>4. Wanted(c)' = w
      BY <1>9, <2>1, <3>1, <3>3 DEF Wanted
    <3>5. ~Complete(c)'
      BY <1>1, <1>9, <2>1, <3>3 DEF Complete
    <3> QED
      BY <1>1, <3>1, <3>2, <3>4, <3>5 DEF WaitsRight, f
  <2>2. CASE op.op # "commit"
    <3>1. Wanted(c)'.file = op.file /\ f = op.file
      BY <1>9, <2>2 DEF Wanted, w, f
    <3>2. op.mode \in 1 .. 3
      BY <1>1, <2>2, FirstOp DEF Ops
    <3>3. ~Complete(c)'
      <4>0. op \in Ops
        BY <1>1, FirstOp
      <4>1. /\ op.mode = 1 => lock[c][f] = "none"
            /\ op.mode = 2 => lock[c][f] \notin Strong
        BY <1>1, <2>2, <3>1, <4>0, CompleteIs
      <4>2. /\ op.mode = 1 => lock'[c][f] = "none"
            /\ op.mode = 2 => lock'[c][f] \notin Strong
            /\ op.mode = 3 => lock'[c][f] # "exclusive"
        BY <1>2, <1>3, <4>1 DEF Strong
      <4> QED
        BY <1>4, <1>9, <2>2, <3>1, <3>2, <4>0, <4>2, CompleteIsThen
    <3>4. NextLock(c)'
      BY <1>1, <1>4, <1>8, <3>3, WantsNextThen
    <3>5. lock'[c][f] = IF Wanted(c)'.lock = "exclusive" THEN "pending" ELSE "none"
      BY <1>3, <3>1, <3>4 DEF NextLock
    <3> QED
      BY <1>1, <3>1, <3>3, <3>5 DEF WaitsRight
  <2> QED
    BY <2>1, <2>2
<1> QED
  BY <1>4, <1>5, <1>6, <1>7, <1>10, OneMoves

LEMMA GiveUpKeeps ==
  ASSUME LockInv, NEW c \in Connections, setting' = setting, GiveUp(c)
  PROVE  LockInv'
<1> DEFINE w == Wanted(c)
           f == w.file
           left == LeftWith(c, w)
<1>1. /\ LockTypes /\ TransLocked /\ todo[c] # << >> /\ ~Complete(c)
      /\ lock' = [lock EXCEPT ![c] = IF explicit[c] THEN [@ EXCEPT ![f] = left]
                                     ELSE [g \in Files |-> "none"]]
      /\ trans' = [trans EXCEPT ![c] = IF explicit[c] THEN @ ELSE [g \in Files |-> 0]]
      /\ todo' = [todo EXCEPT ![c] = << >>]
      /\ waiting' = [waiting EXCEPT ![c] = FALSE]
      /\ UNCHANGED explicit
  BY DEF GiveUp, Released, LockInv
<1>2. /\ f \in Files /\ left \in Locks
      /\ w.lock = "exclusive" => left = "pending" /\ lock[c][f] \in Strong
      /\ w.lock # "exclusive" => (left = "none" /\ trans[c][f] = 0) \/ left = lock[c][f]
  BY <1>1, Left DEF Strong
<1> HIDE DEF w, f, left
<1>3. /\ explicit[c] => /\ lock'[c][f] = left /\ trans'[c] = trans[c]
                        /\ \A g \in Files \ {f} : lock'[c][g] = lock[c][g]
      /\ ~explicit[c] => \A g \in Files : lock'[c][g] = "none" /\ trans'[c][g] = 0
      /\ \A d \in Connections \ {c} : lock'[d] = lock[d] /\ trans'[d] = trans[d]
  BY <1>1, <1>2 DEF LockTypes
<1>4. LockTypes'
  <2>1. lock' \in [Connections -> [Files -> Locks]]
    BY <1>1, <1>2 DEF LockTypes, Locks
  <2>2. trans' \in [Connections -> [Files -> 0 .. 2]]
    BY <1>1 DEF LockTypes
  <2> QED
    BY <1>1, <2>1, <2>2 DEF LockTypes
<1>5. \A d \in Connections \ {c} : Same(d)
  BY <1>1, <1>3 DEF LockTypes, Same
<1>6. \A g \in Files : lock'[c][g] \in Strong =>
        lock[c][g] \in Strong \/ \A d \in Connections \ {c} : lock[d][g] \notin Strong
  BY <1>2, <1>3 DEF Strong
<1>7. \A g \in Files : /\ trans'[c][g] # 0 => lock'[c][g] # "none"
                       /\ trans'[c][g] = 2 => lock'[c][g] \in Strong
  BY <1>1, <1>2, <1>3 DEF TransLocked, Strong
<1>8. WaitsRight(c)'
  BY <1>1 DEF WaitsRight, LockTypes
<1> QED
  BY <1>4, <1>5, <1>6, <1>7, <1>8, OneMoves

(* Of those that wait for locks of a file, one at most has something of    *)
(* it, and bars the others: it waits for none of them.                     *)
LEMMA NobodyInACircle == LockInv => NoWaitCycle
<1> SUFFICES ASSUME LockInv, NEW f \in Files, NEW group, group # {},
                    group \subseteq {c \in Connections : Waits(c) /\ Wanted(c).file = f}
             PROVE  \E c \in group : WaitsFor(c) \cap group = {}
  BY DEF NoWaitCycle
<1>1. \A c \in group : /\ c \in Connections /\ Waits(c) /\ Wanted(c).file = f
                       /\ waiting[c]
                       /\ lock[c][f] \in {"pending", "none"}
  BY DEF LockInv, WaitsRight, Waits
<1>2. \A c \in group : WaitsFor(c) = Barring(c, f, Wanted(c).lock)
  BY <1>1 DEF WaitsFor
<1>3. \A c \in group : Wanted(c).lock \in {"shared", "reserved", "exclusive"}
  <2> SUFFICES ASSUME NEW c \in group
               PROVE  Wanted(c).lock \in {"shared", "reserved", "exclusive"}
    OBVIOUS
  <2>1. NextLock(c)
    BY <1>1, WantsNext DEF LockInv, WaitsRight
  <2> QED
    BY <2>1 DEF NextLock
<1>4. \A c \in group : \A d \in WaitsFor(c) :
        d \in Connections /\ d # c /\ lock[d][f] # "none"
  <2> SUFFICES ASSUME NEW c \in group, NEW d \in WaitsFor(c)
               PROVE  d \in Connections /\ d # c /\ lock[d][f] # "none"
    OBVIOUS
  <2> DEFINE l == Wanted(c).lock
  <2>1. l \in {"shared", "reserved", "exclusive"}
    BY <1>3
  <2>2. d \in Barring(c, f, l)
    BY <1>2
  <2> HIDE DEF l
  <2> QED
    BY <2>1, <2>2 DEF Barring, Bars
<1>5. CASE \E c \in group : lock[c][f] = "pending"
  <2>1. PICK c \in group : lock[c][f] = "pending"
    BY <1>5
  <2>2. \A d \in group \ {c} : lock[d][f] = "none"
    BY <1>1, <2>1 DEF LockInv, OneWriter, Strong
  <2> QED
    BY <1>4, <2>2
<1>6. CASE \A c \in group : lock[c][f] = "none"
  BY <1>4, <1>6
<1> QED
  BY <1>1, <1>5, <1>6

(* No connections wait in their busy handlers for locks that only they     *)
(* keep from each other (sqlite3BtreeBeginTrans, which does not ask the    *)
(* handler of who reads already), for any transactions of any connections. *)
THEOREM NobodyWaitsInACircle == BusySpec => []NoWaitCycle
<1>1. BusyInit => LockInv
  <2> SUFFICES ASSUME BusyInit PROVE LockInv
    OBVIOUS
  <2>1. LockTypes
    BY BusyAssumption DEF BusyInit, Idle, LockTypes, Locks
  <2> QED
    BY <2>1 DEF BusyInit, Idle, LockInv, OneWriter, TransLocked, WaitsRight, Strong
<1>2. LockInv /\ [BusyNext]_busyVars => LockInv'
  <2> SUFFICES ASSUME LockInv, [BusyNext]_busyVars PROVE LockInv'
    OBVIOUS
  <2>1. CASE UNCHANGED busyVars
    <3>1. /\ UNCHANGED << lock, trans, todo, waiting, explicit, setting >>
          /\ \A d \in Connections : Same(d)
      BY <2>1 DEF busyVars, state, Same
    <3>2. \A d \in Connections : WaitsRight(d)'
      BY <3>1, WaitsOn DEF LockInv
    <3>3. LockTypes'
      BY <3>1 DEF LockInv, LockTypes
    <3>4. OneWriter' /\ TransLocked'
      BY <3>1 DEF LockInv, OneWriter, TransLocked
    <3> QED
      BY <3>2, <3>3, <3>4 DEF LockInv
  <2>2. ASSUME NEW c \in Connections, setting' = setting,
               Call(c) \/ BusyStep(c) \/ Rollback(c)
        PROVE  LockInv'
    BY <2>2, CallKeeps, ProceedKeeps, TakeKeeps, WaitKeeps, GiveUpKeeps, RollbackKeeps
       DEF BusyStep
  <2> QED
    BY <2>1, <2>2 DEF BusyNext
<1> QED
  BY <1>1, <1>2, NobodyInACircle, PTL DEF BusySpec
------------------------------------------------------------------------------
(* Window functions. *)

\* The register and what Go knows, together.
Good(g) ==
  /\ g = [agg |-> g.agg, go |-> g.go]
  /\ g.agg \in [mem : BOOLEAN, ctx : BOOLEAN, id : Nat]
  /\ g.agg.id # 0 => g.agg.mem
  /\ g.go = [live |-> g.go.live, made |-> g.go.made, acc |-> g.go.acc]
  /\ g.go.made \in Nat /\ g.agg.id <= g.go.made
  /\ g.go.live = {g.agg.id} \ {0}

AggregatesGood == Good(Aggregate) /\ (at.block = "done" => agg.id = 0)

LEMMA UsedGood == ASSUME NEW g, Good(g) PROVE Good(Used(g))
<1>1. CASE g.agg.id # 0 \/ (g.agg.mem /\ ~g.agg.ctx)
  BY <1>1 DEF Used
<1>2. CASE ~(g.agg.id # 0 \/ (g.agg.mem /\ ~g.agg.ctx))
  <2> DEFINE u == Used(g)
  <2>1. u = [agg |-> [mem |-> TRUE, ctx |-> TRUE, id |-> g.go.made + 1],
             go |-> [live |-> g.go.live \cup {g.go.made + 1}, made |-> g.go.made + 1,
                     acc |-> Nothing]]
    BY <1>2 DEF Used
  <2>2. g.go.live = {} /\ g.go.made \in Nat
    BY <1>2 DEF Good
  <2>3. u.agg = [mem |-> TRUE, ctx |-> TRUE, id |-> g.go.made + 1]
    BY <2>1
  <2>4. u.go = [live |-> {g.go.made + 1}, made |-> g.go.made + 1, acc |-> Nothing]
    BY <2>1, <2>2
  <2>5. g.go.made + 1 \in Nat /\ g.go.made + 1 # 0
    BY <2>2
  <2> HIDE DEF u
  <2>6. u.agg \in [mem : BOOLEAN, ctx : BOOLEAN, id : Nat]
    BY <2>3, <2>5
  <2>7. u = [agg |-> u.agg, go |-> u.go]
    BY <2>1
  <2>8. u.go.live = {u.agg.id} \ {0}
    BY <2>3, <2>4, <2>5
  <2>9. Good(u)
    BY <2>3, <2>4, <2>5, <2>6, <2>7, <2>8 DEF Good
  <2> QED BY <2>9 DEF u
<1> QED BY <1>1, <1>2

LEMMA GivenGood == ASSUME NEW g, Good(g), NEW row, NEW by PROVE Good(Given(g, row, by))
<1>1. CASE g.agg.id = 0
  BY <1>1 DEF Given, Unregistered
<1>2. CASE g.agg.id # 0
  <2> DEFINE u == Given(g, row, by)
  <2>1. u = [g EXCEPT !.go.acc[row] = @ + by]
    BY <1>2 DEF Given, Unregistered
  <2>2. u.agg = g.agg /\ u = [agg |-> u.agg, go |-> u.go]
    BY <2>1 DEF Good
  <2>3. /\ u.go = [live |-> u.go.live, made |-> u.go.made, acc |-> u.go.acc]
        /\ u.go.live = g.go.live /\ u.go.made = g.go.made
    BY <2>1 DEF Good
  <2> QED BY <2>2, <2>3 DEF Good
<1> QED BY <1>1, <1>2

LEMMA FinalizedGood ==
  ASSUME NEW g, Good(g) PROVE Good(Finalized(g)) /\ Finalized(g).agg.id = 0
<1> DEFINE u == Finalized(g)
<1>1. u.agg = NoAgg /\ u.go = [g.go EXCEPT !.live = @ \ {g.agg.id}]
  BY DEF Finalized
<1>2. u = [agg |-> u.agg, go |-> u.go]
  BY DEF Finalized
<1>3. u.go.live = {} /\ u.go.made = g.go.made
      /\ u.go = [live |-> u.go.live, made |-> u.go.made, acc |-> u.go.acc]
  BY <1>1 DEF Good
<1>4. u.agg.id = 0 /\ u.agg \in [mem : BOOLEAN, ctx : BOOLEAN, id : Nat]
  BY <1>1 DEF NoAgg
<1> QED BY <1>2, <1>3, <1>4 DEF Good

LEMMA AggregateGood ==
  ASSUME NEW g, Good(g), SetAggregate(g)
  PROVE  Good(Aggregate)'
<1>1. Aggregate' = [agg |-> g.agg, go |-> g.go]
  BY DEF SetAggregate, Aggregate
<1>2. Aggregate' = g
  BY <1>1 DEF Good
<1> QED BY <1>2 DEF Good

LEMMA AggregatesInit == WindowInit => AggregatesGood
<1> SUFFICES ASSUME WindowInit PROVE AggregatesGood
  OBVIOUS
<1>1. agg = NoAgg /\ go = [live |-> {}, made |-> 0, acc |-> Nothing]
  BY DEF WindowInit
<1>2. Good(Aggregate)
  BY <1>1 DEF Good, Aggregate, NoAgg
<1>3. at.block # "done"
  BY DEF WindowInit, Reading, Place
<1> QED BY <1>2, <1>3 DEF AggregatesGood

LEMMA FirstRowGood == AggregatesGood /\ FirstRow => Good(Aggregate)'
<1> SUFFICES ASSUME AggregatesGood, FirstRow PROVE Good(Aggregate)'
  OBVIOUS
<1> DEFINE fresh == Finalized(Aggregate)
           g == Used(fresh)
           s == IF Scanned THEN Finalized(g) ELSE g
<1>1. Good(fresh) /\ Good(g) /\ Good(s)
  BY FinalizedGood, UsedGood DEF AggregatesGood
<1>2. CASE EmptyFrame
  <2>1. SetAggregate(s)
    BY <1>2 DEF FirstRow
  <2> QED BY <1>1, <2>1, AggregateGood
<1>3. CASE ~EmptyFrame
  <2>1. SetAggregate(fresh)
    BY <1>3 DEF FirstRow
  <2> QED BY <1>1, <2>1, AggregateGood
<1> QED BY <1>2, <1>3

LEMMA UnchangedGood == AggregatesGood /\ UNCHANGED <<agg, go>> => Good(Aggregate)'
BY DEF AggregatesGood, Aggregate, Good

LEMMA PassGood == AggregatesGood /\ Pass => Good(Aggregate)'
<1> SUFFICES ASSUME AggregatesGood, Pass PROVE Good(Aggregate)'
  OBVIOUS
<1>0. Good(Aggregate)
  BY DEF AggregatesGood
<1>1. CASE StepRow
  <2>1. CASE SetAggregate(Given(Used(Aggregate), Given0, 1))
    <3>1. Good(Given(Used(Aggregate), Given0, 1))
      BY <1>0, UsedGood, GivenGood
    <3> QED BY <2>1, <3>1, AggregateGood
  <2>2. CASE agg' = [NoAgg EXCEPT !.mem = TRUE] /\ go' = go /\ ~agg.mem
    \* A register without a context has no handle either.
    <3>1. agg.id = 0 /\ go.live = {} /\ go.made \in Nat
          /\ go = [live |-> go.live, made |-> go.made, acc |-> go.acc]
      BY <1>0, <2>2 DEF Good, Aggregate
    <3>2. agg' = [mem |-> TRUE, ctx |-> FALSE, id |-> 0]
      BY <2>2 DEF NoAgg
    <3>3. Aggregate' = [agg |-> agg', go |-> go]
      BY <2>2 DEF Aggregate
    <3>4. agg' \in [mem : BOOLEAN, ctx : BOOLEAN, id : Nat] /\ agg'.id = 0
      BY <3>2
    <3>5. Aggregate'.agg = agg' /\ Aggregate'.go = go
      BY <3>3
    <3> QED BY <3>1, <3>3, <3>4, <3>5 DEF Good
  <2>3. CASE UNCHANGED <<agg, go>>
    BY <2>3, UnchangedGood
  <2> QED BY <1>1, <2>1, <2>2, <2>3 DEF StepRow
<1>2. CASE InverseRow
  <2>1. CASE SetAggregate(Given(Aggregate, Given0, -1))
    <3>1. Good(Given(Aggregate, Given0, -1))
      BY <1>0, GivenGood
    <3> QED BY <2>1, <3>1, AggregateGood
  <2>2. CASE UNCHANGED <<agg, go>>
    BY <2>2, UnchangedGood
  <2> QED BY <1>2, <2>1, <2>2 DEF InverseRow
<1>3. CASE ReturnRow
  <2> DEFINE f == Finalized(Aggregate)
             m == IF Scan = {} THEN f.go.made ELSE f.go.made + 1
             g == [f EXCEPT !.go.made = m]
  <2>1. CASE Scanned
    <3>1. Good(f) /\ f.agg.id = 0
      BY <1>0, FinalizedGood
    <3>2. f.go.made \in Nat /\ f.go.live = {} /\ m \in Nat
      BY <3>1 DEF Good
    <3>3. SetAggregate(g)
      BY <1>3, <2>1 DEF ReturnRow
    <3> HIDE DEF m
    <3>4. g.agg = f.agg /\ g = [agg |-> g.agg, go |-> g.go]
      BY <3>1 DEF Good
    <3>5. g.go = [live |-> {}, made |-> m, acc |-> f.go.acc]
      BY <3>1, <3>2 DEF Good
    <3>6. Good(g)
      BY <3>1, <3>2, <3>4, <3>5 DEF Good
    <3> QED BY <3>3, <3>6, AggregateGood
  <2>2. CASE ~Scanned
    <3>1. SetAggregate(WithValue(Aggregate)) /\ Good(WithValue(Aggregate))
      BY <1>0, <1>3, <2>2, UsedGood DEF ReturnRow, WithValue
    <3> QED BY <3>1, AggregateGood
  <2> QED BY <2>1, <2>2
<1> QED BY <1>1, <1>2, <1>3 DEF Pass

LEMMA AggregatesKept == AggregatesGood /\ [WindowNext]_windowVars => AggregatesGood'
<1> SUFFICES ASSUME AggregatesGood, [WindowNext]_windowVars PROVE AggregatesGood'
  OBVIOUS
<1>1. CASE UNCHANGED <<agg, go>> /\ (at'.block # "done" \/ at' = at)
  BY <1>1, UnchangedGood DEF AggregatesGood
<1>2. CASE FirstRow
  BY <1>2, FirstRowGood DEF AggregatesGood, FirstRow, Reading, Place
<1>3. CASE Stop
  <2>1. SetAggregate(WithValue(Aggregate)) /\ Good(WithValue(Aggregate))
    BY <1>3, UsedGood DEF AggregatesGood, Stop, WithValue
  <2>2. at'.block # "done"
    BY <1>3 DEF Stop, To, Place, Reading, Operation, Running
  <2> QED BY <2>1, <2>2, AggregateGood DEF AggregatesGood
<1>4. CASE Pass
  <2>1. at'.block # "done"
    BY <1>4 DEF Pass, Advance, To, Place, Reading, Operation, Running
  <2> QED BY <1>4, <2>1, PassGood DEF AggregatesGood
<1>5. CASE Halt
  <2>1. SetAggregate(Finalized(Aggregate)) /\ Good(Finalized(Aggregate))
        /\ Finalized(Aggregate).agg.id = 0
    BY <1>5, FinalizedGood DEF Halt, AggregatesGood
  <2> QED BY <2>1, AggregateGood DEF AggregatesGood, SetAggregate
<1>6. CASE EndPartition \/ LaterRow \/ HoldBack \/ Jump \/ ResetPartition \/ Abort
  <2>1. UNCHANGED <<agg, go>>
    BY <1>6 DEF EndPartition, LaterRow, HoldBack, Jump, ResetPartition, Abort
  <2>2. at'.block # "done"
    BY <1>6 DEF EndPartition, LaterRow, HoldBack, Jump, ResetPartition, Abort, To, Place,
                Reading, Operation, Running
  <2> QED BY <1>1, <2>1, <2>2
<1> QED BY <1>1, <1>2, <1>3, <1>4, <1>5, <1>6 DEF WindowNext, windowVars

(* Every handle of an aggregate is its register's, and none outlives the   *)
(* statement, whatever ends it: a row after the last, an error or an       *)
(* interrupt (the destructions of build/func.c, go_value with final).      *)
THEOREM NoAggregateLeaks == WindowSpec => []HandlesOwned
<1>1. AggregatesGood => HandlesOwned
  BY DEF AggregatesGood, Good, Aggregate, HandlesOwned
<1> QED BY AggregatesInit, AggregatesKept, <1>1, PTL DEF WindowSpec
-----------------------------------------------------------------------------
(***************************************************************************)
(* A program steps before it takes out: while no aggregate has been made,  *)
(* the two cursors have not moved, and the place is before the first       *)
(* operation that makes one.                                               *)
(***************************************************************************)
InPartition == Running \/ (at.block = "read" /\ n > 0)

\* The step of this block may be held back.
StepMayWait == Code[1].reg # None

StepFirst ==
  /\ frame \in Frame /\ n \in Nat
  /\ agg.mem /\ agg.id = 0 => at.block \in {"abort", "done"}
  /\ ~Scanned /\ agg.id = 0 /\ InPartition =>
       /\ ~at.again
       /\ csr.end = 1 /\ (frame.start # "unbounded" => csr.start = 1)
       /\ Running => \/ at.i = 1
                     \/ StepMayWait /\ (at.i = 2 \/ (at.i = 3 /\ Code[2].op = "inverse"))

RowOps == {Op("step", None), Op("step", EndReg), Op("inverse", StartReg), Op("return", None),
        Op("return", EndReg), Op("inverse", "start"), Test(6), IfPos(5), Goto(2)}

LEMMA Joined ==
  ASSUME NEW a \in RowOps, NEW s \in Seq(RowOps)
  PROVE  /\ << a >> \o s \in Seq(RowOps) /\ Len(<< a >> \o s) = Len(s) + 1
         /\ (<< a >> \o s)[1] = a
         /\ \A i \in 1 .. Len(s) : (<< a >> \o s)[i + 1] = s[i]
<1>1. << a >> \in Seq(RowOps) /\ Len(<< a >>) = 1 /\ << a >>[1] = a
  OBVIOUS
<1> QED BY <1>1, ConcatProperties

LEMMA OpsAre ==
  /\ {Op("step", None), Op("step", EndReg), Op("inverse", StartReg), Op("return", None),
      Op("return", EndReg), Op("inverse", "start"), Test(6), IfPos(5), Goto(2)} \subseteq RowOps
  /\ << >> \in Seq(RowOps)
  /\ \A a, b \in RowOps : << a, b >> \in Seq(RowOps)
  /\ \A a, b, c \in RowOps : << a, b, c >> \in Seq(RowOps)
  /\ \A a, b, c, d \in RowOps : << a, b, c, d >> \in Seq(RowOps)
<1>1. {Op("step", None), Op("step", EndReg), Op("inverse", StartReg), Op("return", None),
       Op("return", EndReg), Op("inverse", "start"), Test(6), IfPos(5), Goto(2)} \subseteq RowOps
  BY DEF RowOps
<1> QED BY <1>1

(* A block begins with a step.  If that may be held back, what follows is  *)
(* a return, which makes an aggregate as well, or, for a range of preceding*)
(* rows, taking out, which is then held back by the step's cursor.         *)
LEMMA CodeShape ==
  ASSUME frame \in Frame, Running
  PROVE  /\ Code[1].op = "step" /\ (Code[1].reg # None => Len(Code) >= 2)
         /\ Code[1].reg # None =>
              \/ Code[2] = Op("return", None)
              \/ /\ BothPreceding /\ frame.end = "preceding" /\ Len(Code) >= 3
                 /\ Code[2] = Op("inverse", "start") /\ Code[3] = Op("return", None)
<1>1. ASSUME frame.start = "following" PROVE MainCode[1] = Op("step", None)
  <2> DEFINE rest == IF frame.end = "unbounded" THEN << >>
                     ELSE IF frame.unit = "range"
                       THEN <<Test(6), Op("inverse", StartReg), Op("return", None), Goto(2)>>
                       ELSE <<Op("return", EndReg), Op("inverse", StartReg)>>
  <2>1. rest \in Seq(RowOps)
    BY OpsAre
  <2>2. MainCode = <<Op("step", None)>> \o rest
    BY <1>1 DEF MainCode, FollowingCode
  <2> HIDE DEF rest
  <2> QED BY <2>1, <2>2, Joined DEF RowOps
<1>2. ASSUME frame.start # "following", frame.end # "preceding"
      PROVE  MainCode[1] = Op("step", None)
  <2> DEFINE rest == IF frame.end = "unbounded" THEN << >>
                     ELSE IF ~HasEnd THEN <<Op("return", None), Op("inverse", StartReg)>>
                     ELSE IF frame.unit = "range"
                       THEN <<Test(6), Op("return", None), Op("inverse", StartReg), Goto(2)>>
                       ELSE <<IfPos(5), Op("return", None), Op("inverse", StartReg)>>
  <2>1. rest \in Seq(RowOps)
    BY OpsAre
  <2>2. MainCode = <<Op("step", None)>> \o rest
    BY <1>2 DEF MainCode, OtherCode
  <2> HIDE DEF rest
  <2> QED BY <2>1, <2>2, Joined DEF RowOps
<1>3. ASSUME frame.start # "following", frame.end = "preceding"
      PROVE  /\ MainCode[1] = Op("step", EndReg) /\ Len(MainCode) = 3
             /\ IF BothPreceding THEN /\ MainCode[2] = Op("inverse", "start")
                                      /\ MainCode[3] = Op("return", None)
                ELSE MainCode[2] = Op("return", None)
  <2> DEFINE rest == IF BothPreceding THEN <<Op("inverse", StartReg), Op("return", None)>>
                     ELSE <<Op("return", None), Op("inverse", StartReg)>>
  <2>1. /\ rest \in Seq(RowOps) /\ Len(rest) = 2
        /\ rest[1] = IF BothPreceding THEN Op("inverse", StartReg) ELSE Op("return", None)
        /\ BothPreceding => rest[2] = Op("return", None)
    <3>1. CASE BothPreceding
      BY <3>1, OpsAre
    <3>2. CASE ~BothPreceding
      <4>1. rest = <<Op("return", None), Op("inverse", StartReg)>>
        BY <3>2
      <4> HIDE DEF rest
      <4> QED BY <3>2, <4>1, OpsAre
    <3> QED BY <3>1, <3>2
  <2>2. MainCode = <<Op("step", EndReg)>> \o rest
    BY <1>3 DEF MainCode, PrecedingCode
  <2>3. BothPreceding => StartReg = "start"
    BY DEF BothPreceding, StartReg, HasStart
  <2> HIDE DEF rest
  <2>4. MainCode[2] = rest[1] /\ MainCode[3] = rest[2]
    <3>1. 1 \in 1 .. Len(rest) /\ 2 \in 1 .. Len(rest) /\ 1 + 1 = 2 /\ 2 + 1 = 3
      BY <2>1
    <3> QED BY <2>1, <2>2, <3>1, Joined, OpsAre
  <2>5. MainCode[1] = Op("step", EndReg) /\ Len(MainCode) = 3
    <3>1. Op("step", EndReg) \in RowOps
      BY OpsAre
    <3> QED BY <2>1, <2>2, <3>1, Joined
  <2>6. Len(MainCode) = 3 /\ MainCode[1] = Op("step", EndReg)
    BY <2>5
  <2> HIDE DEF MainCode
  <2>7. CASE BothPreceding
    BY <2>1, <2>3, <2>4, <2>6, <2>7
  <2>8. CASE ~BothPreceding
    BY <2>1, <2>4, <2>6, <2>8
  <2> QED BY <2>7, <2>8
<1>4. ASSUME frame.end # "preceding" PROVE FlushCode[1] = Op("step", None)
  BY <1>4 DEF FlushCode, FollowingFlush
<1>5. ASSUME frame.end = "preceding"
      PROVE  /\ FlushCode[1] = Op("step", EndReg) /\ Len(FlushCode) >= 2
             /\ IF BothPreceding THEN /\ FlushCode[2] = Op("inverse", "start")
                                      /\ FlushCode[3] = Op("return", None)
                                      /\ Len(FlushCode) = 3
                ELSE FlushCode[2] = Op("return", None)
  <2> DEFINE last == <<Op("return", None)>>
             inverse == <<Op("inverse", "start")>> \o last
  <2>1. last \in Seq(RowOps) /\ Len(last) = 1 /\ last[1] = Op("return", None)
    BY DEF RowOps
  <2>2. /\ inverse \in Seq(RowOps) /\ Len(inverse) = 2 /\ inverse[1] = Op("inverse", "start")
        /\ inverse[2] = Op("return", None)
    <3> HIDE DEF last
    <3>1. 1 \in 1 .. Len(last) /\ 1 + 1 = 2 /\ Op("inverse", "start") \in RowOps
      BY <2>1 DEF RowOps
    <3> QED BY <2>1, <3>1, Joined
  <2>3. FlushCode = <<Op("step", EndReg)>> \o IF BothPreceding THEN inverse ELSE last
    <3>1. \A a \in RowOps : << a >> \o << >> = << a >>
      <4> TAKE a \in RowOps
      <4>1. << a >> \in Seq(RowOps)
        OBVIOUS
      <4> QED BY <4>1, ConcatEmptySeq
    <3>2. BothPreceding => StartReg = "start"
      BY DEF BothPreceding, StartReg, HasStart
    <3>3. \A a, b \in RowOps : (<< a >> \o << b >>) \o last = << a >> \o (<< b >> \o last)
      <4> TAKE a, b \in RowOps
      <4>1. << a >> \in Seq(RowOps) /\ << b >> \in Seq(RowOps)
        OBVIOUS
      <4> QED BY <2>1, <4>1, ConcatAssociative
    <3>4. FlushCode = (<<Op("step", EndReg)>>
                        \o (IF BothPreceding THEN <<Op("inverse", StartReg)>> ELSE << >>))
                        \o last
      BY <1>5 DEF FlushCode
    <3> HIDE DEF last
    <3>5. Op("step", EndReg) \in RowOps /\ Op("inverse", StartReg) \in RowOps
      BY DEF RowOps
    <3>6. CASE BothPreceding
      BY <3>2, <3>3, <3>4, <3>5, <3>6
    <3>7. CASE ~BothPreceding
      BY <3>1, <3>4, <3>5, <3>7
    <3> QED BY <3>6, <3>7
  <2> HIDE DEF last, inverse
  <2>4. 1 \in 1 .. Len(last) /\ 1 \in 1 .. Len(inverse) /\ 2 \in 1 .. Len(inverse)
        /\ 1 + 1 = 2 /\ 2 + 1 = 3 /\ Op("step", EndReg) \in RowOps
    BY <2>1, <2>2 DEF RowOps
  <2>5. CASE BothPreceding
    <3>1. FlushCode = << Op("step", EndReg) >> \o inverse
      BY <2>3, <2>5
    <3>2. /\ Len(FlushCode) = 2 + 1 /\ FlushCode[1] = Op("step", EndReg)
          /\ FlushCode[1 + 1] = inverse[1] /\ FlushCode[2 + 1] = inverse[2]
      BY <2>2, <2>4, <3>1, Joined
    <3> QED
      BY <2>2, <2>4, <2>5, <3>2
  <2>6. CASE ~BothPreceding
    BY <2>1, <2>3, <2>4, <2>6, Joined
  <2> QED BY <2>5, <2>6
<1>6. Op("step", None).op = "step" /\ Op("step", None).reg = None
      /\ Op("step", EndReg).op = "step"
  BY DEF Op
<1>7. Code = MainCode \/ Code = FlushCode
  BY DEF Code
<1> HIDE DEF MainCode, FlushCode
<1> QED BY <1>1, <1>2, <1>3, <1>4, <1>5, <1>6, <1>7

LEMMA CodeUnchanged ==
  ASSUME frame' = frame, at'.block = at.block
  PROVE  Code' = Code /\ (StepMayWait' <=> StepMayWait)
BY DEF Code, MainCode, FlushCode, FollowingCode, PrecedingCode, OtherCode, FollowingFlush,
       BothPreceding, HasStart, HasEnd, StartReg, EndReg, Test, IfPos, StepMayWait

(* A new partition starts with cursors at its first row, and a block with  *)
(* its step.                                                               *)
LEMMA BlockStarts ==
  ASSUME StepFirst, EndPartition \/ LaterRow
  PROVE  StepFirst'
<1>1. CASE agg.id # 0
  BY <1>1 DEF StepFirst, EndPartition, LaterRow, data, cursors
<1>2. CASE agg.id = 0
  <2>1. at.block = "read" /\ ~agg.mem
    BY <1>2 DEF StepFirst, EndPartition, LaterRow, Reading, Place
  <2>2. CASE EndPartition
    BY <1>2, <2>1, <2>2 DEF StepFirst, EndPartition, data, cursors, InPartition, Running,
                            Place, Scanned
  <2>3. CASE LaterRow
    BY <1>2, <2>1, <2>3 DEF StepFirst, LaterRow, data, InPartition, Running, Reading, Place,
                            Scanned
  <2> QED BY <2>2, <2>3
<1> QED BY <1>1, <1>2

LEMMA FirstRowStarts ==
  ASSUME AggregatesGood, StepFirst, FirstRow
  PROVE  StepFirst'
<1> DEFINE fresh == Finalized(Aggregate)
           g == Used(fresh)
<1>1. /\ at' = at /\ at = [block |-> "read", i |-> 0, again |-> FALSE]
      /\ frame' = frame /\ n = 0
  BY DEF FirstRow, Reading, Place, data
<1>2. Good(fresh) /\ fresh.agg = [mem |-> FALSE, ctx |-> FALSE, id |-> 0]
  BY FinalizedGood DEF AggregatesGood, Finalized, NoAgg
<1>3. CASE EmptyFrame
  <2>1. n' = 0
    BY <1>1, <1>3 DEF FirstRow
  <2>2. ~(agg'.mem /\ agg'.id = 0)
    <3>1. agg' = (IF Scanned THEN Finalized(g) ELSE g).agg
      BY <1>3 DEF FirstRow, SetAggregate
    <3>2. Finalized(g).agg = [mem |-> FALSE, ctx |-> FALSE, id |-> 0]
      BY DEF Finalized, NoAgg
    <3>3. g.agg.id # 0
      BY <1>2 DEF Used, Good
    <3> HIDE DEF g
    <3> QED BY <3>1, <3>2, <3>3
  <2> QED BY <1>1, <2>1, <2>2 DEF StepFirst, InPartition, Running
<1>4. CASE ~EmptyFrame
  <2>1. /\ n' = 1 /\ agg' = fresh.agg
        /\ csr' = [start |-> IF frame.start = "unbounded" THEN Eof ELSE 1,
                   current |-> 1, end |-> 1]
    BY <1>4 DEF FirstRow, SetAggregate
  <2> HIDE DEF fresh
  <2>2. ~agg'.mem /\ csr'.end = 1 /\ (frame.start # "unbounded" => csr'.start = 1)
    BY <1>2, <2>1
  <2> QED BY <1>1, <2>1, <2>2 DEF StepFirst, InPartition, Running
<1> QED BY <1>3, <1>4

(* What is held back leaves the place before an operation that makes the   *)
(* aggregate: a step, or the return that follows it at once or after       *)
(* taking out.                                                             *)
LEMMA SkipKeeps ==
  ASSUME StepFirst, Operation, agg.id = 0, ~Scanned, UNCHANGED << frame, n, csr, agg >>,
         at' = To(at.i + 1), Instr.reg # None
  PROVE  StepFirst'
<1>1. /\ frame \in Frame /\ Running /\ ~agg.mem /\ ~at.again
      /\ csr.end = 1 /\ (frame.start # "unbounded" => csr.start = 1)
      /\ \/ at.i = 1
         \/ StepMayWait /\ (at.i = 2 \/ (at.i = 3 /\ Code[2].op = "inverse"))
  <2>1. Running /\ InPartition /\ at.block \notin {"abort", "done"}
    BY DEF Operation, InPartition, Running
  <2> QED BY <2>1 DEF StepFirst
<1>2. /\ StepMayWait => Len(Code) >= 2
      /\ StepMayWait => \/ Code[2] = Op("return", None)
                        \/ /\ Len(Code) >= 3
                           /\ Code[2] = Op("inverse", "start") /\ Code[3] = Op("return", None)
  BY <1>1, CodeShape DEF StepMayWait
<1>3. Op("return", None).op = "return" /\ Op("return", None).reg = None
      /\ Op("inverse", "start").op = "inverse"
  BY DEF Op
<1>4. \/ at.i = 1 /\ StepMayWait
      \/ at.i = 2 /\ StepMayWait /\ Code[2].op = "inverse"
  BY <1>1, <1>2, <1>3 DEF Instr, StepMayWait
<1>5. Len(Code) >= at.i + 1
  BY <1>2, <1>3, <1>4
<1>6. at' = [block |-> at.block, i |-> at.i + 1, again |-> FALSE]
  BY <1>5 DEF To, Place
<1>7. Code' = Code /\ (StepMayWait' <=> StepMayWait)
  BY <1>6, CodeUnchanged
<1>8. at'.i = 2 \/ (at'.i = 3 /\ Code[2].op = "inverse")
  BY <1>4, <1>6
<1> QED BY <1>1, <1>4, <1>6, <1>7, <1>8 DEF StepFirst

(* Where no aggregate is made yet, an operation is a step, a return, or    *)
(* takes out of a range of preceding rows.                                 *)
LEMMA BeforeMade ==
  ASSUME StepFirst, Running, agg.id = 0
  PROVE  /\ ~agg.mem
         /\ ~Scanned =>
              /\ ~at.again
              /\ \/ Instr.op \in {"step", "return"}
                 \/ /\ Instr.op = "inverse" /\ Instr.reg = "start"
                    /\ BothPreceding /\ frame.end = "preceding"
                    /\ csr.end = 1 /\ csr.start = 1
<1>1. ~agg.mem
  BY DEF StepFirst, Running
<1>2. ASSUME ~Scanned
      PROVE  /\ ~at.again
             /\ \/ Instr.op \in {"step", "return"}
                \/ /\ Instr.op = "inverse" /\ Instr.reg = "start"
                   /\ BothPreceding /\ frame.end = "preceding"
                   /\ csr.end = 1 /\ csr.start = 1
  <2>1. /\ frame \in Frame /\ ~at.again
        /\ csr.end = 1 /\ (frame.start # "unbounded" => csr.start = 1)
        /\ \/ at.i = 1
           \/ StepMayWait /\ (at.i = 2 \/ (at.i = 3 /\ Code[2].op = "inverse"))
    BY <1>2 DEF StepFirst, InPartition
  <2>2. /\ Code[1].op = "step"
        /\ StepMayWait => \/ Code[2] = Op("return", None)
                          \/ /\ BothPreceding /\ frame.end = "preceding"
                             /\ Code[2] = Op("inverse", "start") /\ Code[3] = Op("return", None)
    BY <2>1, CodeShape DEF StepMayWait
  <2>3. /\ Op("return", None).op = "return"
        /\ Op("inverse", "start").op = "inverse" /\ Op("inverse", "start").reg = "start"
    BY DEF Op
  <2>4. BothPreceding => csr.start = 1
    BY <2>1 DEF BothPreceding
  <2> QED BY <2>1, <2>2, <2>3, <2>4 DEF Instr
<1> QED BY <1>1, <1>2

(* Nothing is taken out of an aggregate that was not made: the cursor that *)
(* takes out has not passed the one that steps.                            *)
LEMMA MadeBeforeInverse ==
  ASSUME StepFirst
  PROVE  StepCalled
<1> SUFFICES ASSUME Operation, Instr.op = "inverse", ~Scanned, ~Overtakes, agg.id = 0
             PROVE  FALSE
  BY DEF StepCalled
<1>1. /\ Instr.reg = "start" /\ BothPreceding /\ frame.end = "preceding"
      /\ csr.end = 1 /\ csr.start = 1
  BY BeforeMade DEF Operation
<1> QED BY <1>1 DEF Overtakes, BothPreceding, Eof, None

(* A made aggregate stays made, as long as it is not scanned.              *)
LEMMA MadeKeeps ==
  ASSUME StepFirst, UNCHANGED << frame, n >>,
         agg'.id # 0 \/ (Scanned /\ ~agg'.mem) \/ at'.block \in {"abort", "done"}
  PROVE  StepFirst'
BY DEF StepFirst, Scanned, InPartition, Running

LEMMA UsedMade ==
  ASSUME AggregatesGood, StepFirst, Running
  PROVE  Used(Aggregate).agg.id # 0
BY BeforeMade DEF AggregatesGood, Good, Used, Aggregate

LEMMA GivenKeeps ==
  ASSUME NEW g, Good(g), NEW row, NEW by PROVE Given(g, row, by).agg = g.agg
BY DEF Given, Good

LEMMA PassKeeps ==
  ASSUME AggregatesGood, StepFirst, Pass
  PROVE  StepFirst'
<1>1. UNCHANGED << frame, n >> /\ Running /\ Operation /\ ~HeldBack /\ ~Overtakes
  BY DEF Pass, data, Operation
<1>2. CASE StepRow
  <2>1. CASE Scanned
    <3>1. agg' = agg
      BY <1>2, <2>1 DEF StepRow
    <3> QED BY <1>1, <2>1, <3>1, BeforeMade, MadeKeeps
  <2>2. CASE ~Scanned /\ SetAggregate(Given(Used(Aggregate), Given0, 1))
    <3>1. agg' = Used(Aggregate).agg
      BY <2>2, GivenKeeps, UsedGood DEF SetAggregate, AggregatesGood
    <3> QED BY <1>1, <3>1, UsedMade, MadeKeeps
  <2>3. CASE failed'
    <3>1. at'.block = "abort"
      BY <2>3 DEF Pass, Advance, Place
    <3> QED BY <1>1, <3>1, MadeKeeps
  <2> QED BY <1>2, <2>1, <2>2, <2>3 DEF StepRow
<1>3. CASE InverseRow
  <2>1. CASE Scanned
    <3>1. agg' = agg
      BY <1>3, <2>1 DEF InverseRow
    <3> QED BY <1>1, <2>1, <3>1, BeforeMade, MadeKeeps
  <2>2. CASE ~Scanned
    <3>1. agg' = Aggregate.agg
      BY <1>3, <2>2, GivenKeeps DEF InverseRow, SetAggregate, AggregatesGood
    <3>2. agg.id # 0
      BY <1>1, <1>3, <2>2, MadeBeforeInverse DEF StepCalled, InverseRow
    <3> QED BY <1>1, <3>1, <3>2, MadeKeeps DEF Aggregate
  <2> QED BY <2>1, <2>2
<1>4. CASE ReturnRow
  <2>1. CASE Scanned
    <3> DEFINE f == Finalized(Aggregate)
               g == [f EXCEPT !.go.made = IF Scan = {} THEN @ ELSE @ + 1]
    <3>1. f.agg = [mem |-> FALSE, ctx |-> FALSE, id |-> 0]
          /\ f = [agg |-> f.agg, go |-> f.go]
      BY DEF Finalized, NoAgg
    <3> HIDE DEF f
    <3>2. g.agg = f.agg
      BY <3>1
    <3>3. agg' = g.agg
      BY <1>4, <2>1 DEF ReturnRow, SetAggregate, f
    <3> HIDE DEF g
    <3>4. ~agg'.mem
      BY <3>1, <3>2, <3>3
    <3> QED BY <1>1, <2>1, <3>4, MadeKeeps
  <2>2. CASE ~Scanned
    <3>1. agg' = WithValue(Aggregate).agg
      BY <1>4, <2>2 DEF ReturnRow, SetAggregate
    <3>2. agg.id # 0 => WithValue(Aggregate).agg = agg
      BY DEF WithValue, Used, Aggregate
    <3>3. agg.id = 0 => WithValue(Aggregate) = Used(Aggregate)
      BY <1>1, <1>4, <2>2, BeforeMade DEF WithValue, ReturnRow
    <3>4. agg'.id # 0
      BY <1>1, <3>1, <3>2, <3>3, UsedMade
    <3> QED BY <1>1, <3>4, MadeKeeps
  <2> QED BY <2>1, <2>2
<1> QED BY <1>2, <1>3, <1>4 DEF Pass

LEMMA HoldBackKeeps ==
  ASSUME StepFirst, HoldBack
  PROVE  StepFirst'
<1>1. /\ UNCHANGED << frame, n, csr, agg >> /\ Running /\ Operation /\ HeldBack
      /\ at' = To(at.i + 1)
  BY DEF HoldBack, data, cursors, Operation
<1>2. CASE agg.id # 0 \/ Scanned
  BY <1>1, <1>2, BeforeMade, MadeKeeps
<1>3. CASE agg.id = 0 /\ ~Scanned
  <2>1. Instr.reg # None
    BY <1>1, <1>3, BeforeMade DEF HeldBack, None, BothPreceding
  <2> QED BY <1>1, <1>3, <2>1, SkipKeeps
<1> QED BY <1>2, <1>3

LEMMA StopKeeps ==
  ASSUME AggregatesGood, StepFirst, Stop
  PROVE  StepFirst'
<1>1. /\ UNCHANGED << frame, n, csr >> /\ Running /\ Operation /\ Overtakes
      /\ at' = To(at.i + 1) /\ agg' = WithValue(Aggregate).agg
  BY DEF Stop, data, cursors, Operation, SetAggregate
<1>2. agg' = agg \/ agg' = Used(Aggregate).agg
  BY <1>1 DEF WithValue, Aggregate
<1>3. CASE agg' = Used(Aggregate).agg
  BY <1>1, <1>3, UsedMade, MadeKeeps
<1>4. CASE agg' = agg /\ (agg.id # 0 \/ Scanned)
  BY <1>1, <1>4, BeforeMade, MadeKeeps
<1>5. CASE agg' = agg /\ agg.id = 0 /\ ~Scanned
  BY <1>1, <1>5, SkipKeeps DEF Overtakes
<1> QED BY <1>2, <1>3, <1>4, <1>5

LEMMA OthersKeep ==
  ASSUME StepFirst, Jump \/ ResetPartition \/ Abort \/ Halt
  PROVE  StepFirst'
<1>1. CASE Jump
  <2>1. UNCHANGED << frame, n, agg >> /\ Running /\ Instr.op \in {"test", "ifpos", "goto"}
    BY <1>1 DEF Jump, data
  <2>2. agg.id # 0 \/ (Scanned /\ ~agg.mem)
    BY <2>1, BeforeMade
  <2> QED BY <2>1, <2>2, MadeKeeps
<1>2. CASE ResetPartition
  <2>1. /\ UNCHANGED << frame, agg >> /\ at.block = "reset" /\ n' = 0
        /\ at'.block \in {"halt", "read"}
    BY <1>2 DEF ResetPartition, data, Place, Reading
  <2> QED BY <2>1 DEF StepFirst, InPartition, Running
<1>3. CASE Abort
  BY <1>3, MadeKeeps DEF Abort, data, Place
<1>4. CASE Halt
  BY <1>4, MadeKeeps DEF Halt, data, Place
<1> QED BY <1>1, <1>2, <1>3, <1>4

(* "Step must've been called" (build/func.c): whatever the frame, a row is *)
(* only taken out of an aggregate that there is.                           *)
THEOREM NothingTakenFirst == WindowSpec => []StepCalled
<1>1. WindowInit => StepFirst
  <2> SUFFICES ASSUME WindowInit PROVE StepFirst
    OBVIOUS
  <2>1. frame \in Frame
    BY WindowAssumption DEF WindowInit
  <2>2. n = 0 /\ at = [block |-> "read", i |-> 0, again |-> FALSE] /\ ~agg.mem
    BY DEF WindowInit, Reading, Place, NoAgg
  <2> QED BY <2>1, <2>2 DEF StepFirst, InPartition, Running
<1>2. AggregatesGood /\ StepFirst /\ [WindowNext]_windowVars => StepFirst'
  <2> SUFFICES ASSUME AggregatesGood, StepFirst, [WindowNext]_windowVars PROVE StepFirst'
    OBVIOUS
  <2>1. CASE UNCHANGED windowVars
    <3>1. Code' = Code /\ (StepMayWait' <=> StepMayWait)
      BY <2>1, CodeUnchanged DEF windowVars
    <3> QED BY <2>1, <3>1 DEF windowVars, StepFirst, InPartition, Running, Scanned
  <2>2. CASE WindowNext
    BY <2>2, BlockStarts, FirstRowStarts, HoldBackKeeps, StopKeeps, PassKeeps, OthersKeep
       DEF WindowNext
  <2> QED BY <2>1, <2>2
<1>3. StepFirst => StepCalled
  BY MadeBeforeInverse
<1> QED BY AggregatesInit, AggregatesKept, <1>1, <1>2, <1>3, PTL DEF WindowSpec
==============================================================================
