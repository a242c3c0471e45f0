---------------------------- MODULE WindowFrames -----------------------------
(***************************************************************************)
(* The programs that sqlite3.go generates for window functions, running:   *)
(* the rows of a partition go into a table that three cursors walk over,   *)
(* one stepping rows into the aggregate, one taking them out of it, one    *)
(* returning them, each held back by a counter or by a test of its peers.  *)
(* The aggregate is one of build/func.c: a Go object behind a handle that  *)
(* is kept in the aggregate's context.                                     *)
(***************************************************************************)
EXTENDS Integers, Sequences, FiniteSets, FiniteSetsExt

CONSTANTS WindowSettings,  \* the settings tried: sets of frames with the inputs that they
                           \* are tried on, sequences of [part, key]
          NullKey          \* the key that stands for NULL: less than every other

\* A frame: its unit, its bounds with their offsets, the rows it excludes, the
\* direction of the order and whether NULL comes where large values do.
Frame == [unit : {"rows", "groups", "range"},
          start : {"unbounded", "preceding", "current", "following"}, x : Nat,
          end : {"preceding", "current", "following", "unbounded"}, y : Nat,
          exclude : {"no", "current", "group", "ties"},
          desc : BOOLEAN, big : BOOLEAN]

ASSUME WindowAssumption ==
  /\ NullKey \in Int
  /\ \A s \in WindowSettings :
       /\ s.frames \subseteq Frame /\ s.faults \in BOOLEAN
       /\ \A rows \in s.inputs : \A i \in DOMAIN rows : rows[i].key \in Nat \cup {NullKey}

VARIABLES
  frame, input,      \* the frame and the rows of this run,
  faults,            \* whether memory may run out and the statement be interrupted,
  base, n, table,    \* rows of partitions done, rows inserted, those not deleted,
  at,                \* the place in the program,
  csr, count, peer,  \* cursors, counters and the key of each cursor's peers,
  span,              \* the rows a frame that is scanned begins and ends with,
  agg,               \* the register with the aggregate's context,
  go,                \* its handles in Go, and what the last one has been given,
  result, ret,       \* the value of the window function, the last row returned
  failed             \* memory has run out

windowVars == <<frame, input, faults, base, n, table, at, csr, count, peer, span, agg, go,
          result, ret, failed>>
cursors == <<csr, peer>>
data == <<frame, input, faults>>

None == "none"
Eof == 0
Rows == 1 .. Len(input)
Nothing == [i \in 0 .. Len(input) |-> 0]   \* 0 is a row that is not there

HasStart == frame.start \in {"preceding", "following"}
HasEnd == frame.end \in {"preceding", "following"}
Scanned == frame.exclude # "no"    \* regStartRowid: the frame is scanned for each row
Peered == frame.unit # "rows"
StartReg == IF HasStart THEN "start" ELSE None
EndReg == IF HasEnd THEN "end" ELSE None

(***************************************************************************)
(* The code generated.                                                     *)
(***************************************************************************)
Op(op, reg) == [op |-> op, reg |-> reg, to |-> 0]
OpEof(op, reg, to) == [op |-> op, reg |-> reg, to |-> to]
Test(to) == [op |-> "test", reg |-> EndReg, to |-> to]
IfPos(to) == [op |-> "ifpos", reg |-> EndReg, to |-> to]
Goto(to) == [op |-> "goto", reg |-> None, to |-> to]

BothPreceding == frame.start = "preceding" /\ frame.unit = "range"

FollowingCode ==
  <<Op("step", None)>> \o
  IF frame.end = "unbounded" THEN << >>
  ELSE IF frame.unit = "range"
       THEN <<Test(6), Op("inverse", StartReg), Op("return", None), Goto(2)>>
       ELSE <<Op("return", EndReg), Op("inverse", StartReg)>>

PrecedingCode ==
  <<Op("step", EndReg)>> \o
  IF BothPreceding THEN <<Op("inverse", StartReg), Op("return", None)>>
  ELSE <<Op("return", None), Op("inverse", StartReg)>>

OtherCode ==
  <<Op("step", None)>> \o
  IF frame.end = "unbounded" THEN << >>
  ELSE IF ~HasEnd THEN <<Op("return", None), Op("inverse", StartReg)>>
  ELSE IF frame.unit = "range"
       THEN <<Test(6), Op("return", None), Op("inverse", StartReg), Goto(2)>>
       ELSE <<IfPos(5), Op("return", None), Op("inverse", StartReg)>>

\* The block for the second and later rows of a partition.
MainCode == IF frame.start = "following" THEN FollowingCode
            ELSE IF frame.end = "preceding" THEN PrecedingCode ELSE OtherCode

\* Mutant: the break of the last loop leads into it.
FollowingFlushLoops ==
  <<Op("step", None), OpEof("inverse", StartReg, 5), OpEof("return", None, 7),
    Goto(2), OpEof("return", None, 5), Goto(5)>>

FollowingFlush ==
  IF frame.unit = "range"
  THEN <<Op("step", None), OpEof("inverse", StartReg, 5), OpEof("return", None, 7),
         Goto(2), OpEof("return", None, 7), Goto(5)>>
  ELSE IF frame.end = "unbounded"
  THEN <<Op("step", None), OpEof("return", StartReg, 7), OpEof("inverse", None, 5),
         Goto(2), OpEof("return", None, 7), Goto(5)>>
  ELSE <<Op("step", None), OpEof("return", EndReg, 7), OpEof("inverse", StartReg, 5),
         Goto(2), OpEof("return", None, 7), Goto(5)>>

\* The block for the end of a partition.
FlushCode ==
  IF frame.end = "preceding"
  THEN <<Op("step", EndReg)>>
       \o (IF BothPreceding THEN <<Op("inverse", StartReg)>> ELSE << >>)
       \o <<Op("return", None)>>
  ELSE IF frame.start = "following" THEN FollowingFlush
  ELSE <<Op("step", None), OpEof("return", None, 5), Op("inverse", StartReg), Goto(2)>>

\* The operation after which a row is deleted from the table.
Deletes ==
  CASE frame.start = "following" ->
         IF frame.unit = "range" \/ frame.x = 0 THEN None ELSE "return"
    [] frame.start = "unbounded" ->
         IF Scanned THEN None
         ELSE IF frame.end # "preceding" THEN "return"
         ELSE IF frame.unit = "range" \/ frame.y = 0 THEN None ELSE "step"
    [] OTHER -> "inverse"

(***************************************************************************)
(* The order of the rows, which are sorted already.                        *)
(***************************************************************************)
\* NULL comes first, or last if the order says so.
NullFirst == frame.desc = frame.big
Far == 1000
Order(k) == IF k = NullKey THEN IF NullFirst THEN -Far ELSE Far
            ELSE IF frame.desc THEN -k ELSE k
Sorted ==
  \A i, j \in Rows : i < j =>
    /\ input[i].part <= input[j].part
    /\ input[i].part = input[j].part => Order(input[i].key) <= Order(input[j].key)

(***************************************************************************)
(* Tests of the keys at two cursors.                                       *)
(***************************************************************************)
Rel(op, a, b) == CASE op = "ge" -> a >= b [] op = "gt" -> a > b [] op = "le" -> a <= b
                   [] op = "lt" -> a < b
Mirror(op) == CASE op = "ge" -> "le" [] op = "gt" -> "lt" [] op = "le" -> "ge"

RangeTest(op, a, by, b) ==
  LET o == IF frame.desc THEN Mirror(op) ELSE op
      moved == IF a = NullKey THEN NullKey ELSE IF frame.desc THEN a - by ELSE a + by
  IN IF frame.big /\ a = NullKey
     THEN CASE o = "ge" -> TRUE [] o = "gt" -> b # NullKey [] o = "le" -> b = NullKey
            [] o = "lt" -> FALSE
     ELSE IF frame.big /\ b = NullKey THEN o \notin {"gt", "ge"}
     ELSE \/ op = "ge" /\ a # NullKey /\ b # NullKey /\ Rel(o, a, b)
          \/ Rel(o, moved, b)

Key(c) == IF c \in table THEN input[base + c].key ELSE NullKey
After(c) == LET later == {r \in table : r > c}
            IN IF c = Eof \/ later = {} THEN Eof ELSE Min(later)
Cursor(op) == CASE op = "step" -> "end" [] op = "inverse" -> "start"
                [] op = "return" -> "current"

(***************************************************************************)
(* The aggregate, as the wrappers of build/func.c use it.                  *)
(***************************************************************************)
NoAgg == [mem |-> FALSE, ctx |-> FALSE, id |-> 0]
Unregistered(g) == g.agg.id = 0   \* Go makes an aggregate that it does not keep

\* go_step and go_value make the Go aggregate when there is no handle yet.
Used(g) ==
  IF g.agg.id # 0 \/ (g.agg.mem /\ ~g.agg.ctx) THEN g
  ELSE [agg |-> [mem |-> TRUE, ctx |-> TRUE, id |-> g.go.made + 1],
        go |-> [live |-> g.go.live \cup {g.go.made + 1}, made |-> g.go.made + 1,
                acc |-> Nothing]]
Given(g, row, by) == IF Unregistered(g) THEN g ELSE [g EXCEPT !.go.acc[row] = @ + by]
ValueOf(g) == IF Unregistered(g) THEN Nothing ELSE g.go.acc
\* xFinal, and how a register with a context is cleared.
Finalized(g) == [agg |-> NoAgg, go |-> [g.go EXCEPT !.live = @ \ {g.agg.id}]]

Aggregate == [agg |-> agg, go |-> go]
SetAggregate(g) == agg' = g.agg /\ go' = g.go

(***************************************************************************)
(* Reading the rows.                                                       *)
(***************************************************************************)
Place(block, i) == [block |-> block, i |-> i, again |-> FALSE]
Reading == Place("read", 0)

WindowInit ==
  /\ \E s \in WindowSettings : frame \in s.frames /\ input \in s.inputs /\ faults = s.faults
  /\ Sorted
  /\ base = 0 /\ n = 0 /\ table = {} /\ at = Reading
  /\ csr = [c \in {"start", "current", "end"} |-> Eof]
  /\ peer = [c \in {"start", "current", "end", "new"} |-> NullKey]
  /\ count = [start |-> 0, end |-> 0] /\ span = [first |-> 1, last |-> 0]
  /\ agg = NoAgg /\ go = [live |-> {}, made |-> 0, acc |-> Nothing]
  /\ result = Nothing /\ ret = [row |-> 0, value |-> Nothing]
  /\ failed = FALSE

NextRow == input[base + n + 1]
NewPartition == n > 0 /\ NextRow.part # input[base + 1].part

\* The last row has been read, or the first one of another partition.
EndPartition ==
  /\ at = Reading /\ IF base + n = Len(input) THEN TRUE ELSE NewPartition
  /\ at' = IF n = 0 THEN Place("reset", 0) ELSE Place("flush", 1)
  /\ count' = IF frame.start = "following" /\ HasEnd /\ frame.unit # "range"
              THEN [start |-> 0, end |-> count.end - count.start] ELSE count
  /\ UNCHANGED <<data, base, n, table, cursors, span, agg, go, result, ret, failed>>

\* What comes before a partition's first row is the last of another or of none,
\* and frames that can only be empty are done with at once.
EmptyFrame == /\ frame.unit # "range" /\ frame.start = frame.end /\ HasStart
              /\ IF frame.start = "following" THEN frame.y < frame.x
                                              ELSE frame.y > frame.x
StartCount == IF frame.start = "following" /\ HasEnd /\ frame.unit # "range"
              THEN frame.y - frame.x ELSE frame.x

FirstRow ==
  /\ at = Reading /\ base + n < Len(input) /\ n = 0
  /\ LET fresh == Finalized(Aggregate) IN
     IF EmptyFrame
     THEN /\ LET g == Used(fresh)
             IN SetAggregate(IF Scanned THEN Finalized(g) ELSE g)
          /\ result' = Nothing /\ ret' = [row |-> base + 1, value |-> Nothing]
          /\ base' = base + 1
          /\ UNCHANGED <<n, table, cursors, count>>
     ELSE /\ SetAggregate(fresh)
          /\ n' = 1 /\ table' = {1}
          /\ count' = [start |-> StartCount, end |-> frame.y]
          /\ csr' = [start |-> IF frame.start = "unbounded" THEN Eof ELSE 1,
                     current |-> 1, end |-> 1]
          /\ peer' = [c \in DOMAIN peer |-> NextRow.key]
          /\ UNCHANGED <<base, result, ret>>
  /\ UNCHANGED <<data, at, span, failed>>

LaterRow ==
  /\ at = Reading /\ base + n < Len(input) /\ n > 0 /\ ~NewPartition
  /\ n' = n + 1 /\ table' = table \cup {n + 1}
  /\ peer' = [peer EXCEPT !.new = NextRow.key]
  /\ at' = IF Peered /\ NextRow.key = peer.new THEN Reading ELSE Place("main", 1)
  /\ UNCHANGED <<data, base, csr, count, span, agg, go, result, ret, failed>>

(***************************************************************************)
(* Running a block: one pass of an operation at a time.                    *)
(***************************************************************************)
Code == IF at.block = "main" THEN MainCode ELSE FlushCode
Running == at.block \in {"main", "flush"}
Instr == Code[at.i]
To(i) == IF i <= Len(Code) THEN Place(at.block, i)
         ELSE IF at.block = "main" THEN Reading ELSE Place("reset", 0)
Operation == Running /\ Instr.op \in {"step", "inverse", "return"}
Row == csr[Cursor(Instr.op)]

\* The counter or the test of the peers holds the operation back, and nothing is
\* ever taken out of a frame without a first row.
Counted == count[Instr.reg] > 0
Tested ==
  LET by == count[Instr.reg]
      current == Key(csr.current)
  IN CASE Instr.op = "inverse" /\ frame.start = "following" ->
            RangeTest("le", current, by, Key(csr.start))
       [] Instr.op = "inverse" -> RangeTest("ge", Key(csr.start), by, current)
       [] OTHER -> RangeTest("gt", Key(csr.end), by, current)
HeldBack ==
  \/ Instr.op = "inverse" /\ frame.start = "unbounded"
  \/ /\ ~at.again /\ Instr.reg # None
     /\ IF frame.unit = "range" THEN Tested ELSE Counted

\* Mutant: the start of a frame may overtake its end.
OvertakesNot == FALSE

\* The start of a frame may not overtake its end, nor the end the last row read.
Overtakes ==
  /\ frame.unit = "range" /\ frame.start = frame.end /\ Instr.reg # None
  /\ csr.end # Eof
  /\ IF Instr.op = "inverse" THEN csr.start # Eof /\ csr.start >= csr.end
                             ELSE at.block = "main" /\ csr.end >= n

HoldBack ==
  /\ Operation /\ HeldBack
  /\ at' = To(at.i + 1)
  /\ count' = IF frame.unit = "range" \/ Instr.reg = None THEN count
              ELSE [count EXCEPT ![Instr.reg] = @ - 1]
  /\ UNCHANGED <<data, base, n, table, cursors, span, agg, go, result, ret, failed>>

\* AggValue comes before the first row of a group of peers is returned.
WithValue(g) == IF Instr.op = "return" /\ ~Scanned /\ ~at.again THEN Used(g) ELSE g
Computed == IF Instr.op = "return" /\ ~Scanned /\ ~at.again
            THEN ValueOf(Used(Aggregate)) ELSE result

Stop ==
  /\ Operation /\ ~HeldBack /\ Overtakes
  /\ SetAggregate(WithValue(Aggregate)) /\ result' = Computed
  /\ at' = To(at.i + 1)
  /\ UNCHANGED <<data, base, n, table, cursors, count, span, ret, failed>>

\* The rows a scan for the current row takes in.
Excluded(r) ==
  CASE frame.exclude = "no" -> FALSE
    [] frame.exclude = "current" -> r = csr.current
    [] frame.exclude = "group" -> Key(r) = Key(csr.current)
    [] frame.exclude = "ties" -> r # csr.current /\ Key(r) = Key(csr.current)
Scan == {base + r : r \in {s \in table : span.first <= s /\ s <= span.last /\ ~Excluded(s)}}

\* A row that is not there is row 0.
Given0 == IF Row \in table THEN base + Row ELSE 0

StepRow ==
  /\ Instr.op = "step"
  /\ IF Scanned
     THEN span' = [span EXCEPT !.last = @ + 1] /\ UNCHANGED <<agg, go, failed>>
     ELSE /\ \/ SetAggregate(Given(Used(Aggregate), Given0, 1)) /\ UNCHANGED failed
             \/ /\ faults /\ ~failed /\ ~agg.mem   \* no memory for the context
                /\ agg' = [NoAgg EXCEPT !.mem = TRUE] /\ failed' = TRUE
                /\ UNCHANGED go
          /\ UNCHANGED span
  /\ UNCHANGED <<result, ret>>

InverseRow ==
  /\ Instr.op = "inverse"
  /\ IF Scanned
     THEN span' = [span EXCEPT !.first = @ + 1] /\ UNCHANGED <<agg, go>>
     ELSE SetAggregate(Given(Aggregate, Given0, -1)) /\ UNCHANGED span
  /\ UNCHANGED <<result, ret, failed>>

ReturnRow ==
  /\ Instr.op = "return"
  /\ IF Scanned
     THEN /\ result' = [i \in DOMAIN Nothing |-> IF i \in Scan THEN 1 ELSE 0]
          /\ SetAggregate([Finalized(Aggregate) EXCEPT
                             !.go.made = IF Scan = {} THEN @ ELSE @ + 1])
     ELSE result' = Computed /\ SetAggregate(WithValue(Aggregate))
  /\ ret' = [row |-> Given0, value |-> result']
  /\ UNCHANGED <<span, failed>>

\* Mutant: an operation at the last row goes on although memory has run out.
AdvanceOn ==
  LET c == Cursor(Instr.op)
      row == After(Row)
  IN /\ table' = IF Deletes = Instr.op THEN table \ {Row} ELSE table
     /\ csr' = [csr EXCEPT ![c] = row]
     /\ peer' = peer
     /\ at' = IF failed' /\ row # Eof THEN Place("abort", 0)
              ELSE IF row = Eof /\ Instr.to # 0 THEN To(Instr.to) ELSE To(at.i + 1)

\* The cursor goes to its next row, if the statement has not been interrupted, as
\* it is when memory runs out; peers of this row are passed over at once.
Advance ==
  LET c == Cursor(Instr.op)
      left == IF Deletes = Instr.op THEN table \ {Row} ELSE table
      row == After(Row)
      same == Key(row) = peer[c]
  IN /\ table' = left
     /\ csr' = [csr EXCEPT ![c] = row]
     /\ peer' = IF Peered /\ row # Eof THEN [peer EXCEPT ![c] = Key(row)] ELSE peer
     /\ at' = IF failed' THEN Place("abort", 0)
              ELSE IF row = Eof
              THEN IF Instr.to # 0 THEN To(Instr.to) ELSE To(at.i + 1)
              ELSE IF Peered /\ same THEN [at EXCEPT !.again = TRUE]
              ELSE IF frame.unit = "range" /\ Instr.reg # None
              THEN [at EXCEPT !.again = FALSE]
              ELSE To(at.i + 1)

Pass ==
  /\ Operation /\ ~HeldBack /\ ~Overtakes
  /\ StepRow \/ InverseRow \/ ReturnRow
  /\ Advance
  /\ UNCHANGED <<data, base, n, count>>

Jump ==
  /\ Running /\ Instr.op \in {"test", "ifpos", "goto"}
  /\ LET holds == CASE Instr.op = "goto" -> TRUE
                    [] Instr.op = "ifpos" -> count.end > 0
                    [] OTHER -> RangeTest("ge", Key(csr.current), count.end, Key(csr.end))
     IN at' = To(IF holds THEN Instr.to ELSE at.i + 1)
  /\ count' = IF Instr.op = "ifpos" /\ count.end > 0
              THEN [count EXCEPT !.end = @ - 1] ELSE count
  /\ UNCHANGED <<data, base, n, table, cursors, span, agg, go, result, ret, failed>>

(***************************************************************************)
(* The ends of a partition and of the statement.                           *)
(***************************************************************************)

ResetPartition ==
  /\ at.block = "reset"
  /\ table' = {} /\ base' = base + n /\ n' = 0
  /\ span' = [first |-> 1, last |-> 0]
  /\ at' = IF base + n = Len(input) THEN Place("halt", 0) ELSE Reading
  /\ UNCHANGED <<data, cursors, count, agg, go, result, ret, failed>>

\* An error, an interrupt, or memory that ran out and is noticed.
Abort ==
  /\ faults /\ (Running \/ at = Reading)
  /\ at' = Place("abort", 0)
  /\ UNCHANGED <<data, base, n, table, cursors, count, span, agg, go, result, ret,
                 failed>>

\* Mutant: the registers are released only by a statement that has ended well.
HaltLeaks ==
  /\ at.block \in {"halt", "abort"}
  /\ IF at.block = "halt" THEN SetAggregate(Finalized(Aggregate)) ELSE UNCHANGED <<agg, go>>
  /\ at' = Place("done", 0)
  /\ UNCHANGED <<data, base, n, table, cursors, count, span, result, ret, failed>>

\* The statement releases its registers.
Halt ==
  /\ at.block \in {"halt", "abort"}
  /\ SetAggregate(Finalized(Aggregate))
  /\ at' = Place("done", 0)
  /\ UNCHANGED <<data, base, n, table, cursors, count, span, result, ret, failed>>

WindowNext ==
  \/ EndPartition \/ FirstRow \/ LaterRow \/ HoldBack \/ Stop \/ Pass \/ Jump
  \/ ResetPartition \/ Abort \/ Halt

WindowSpec == WindowInit /\ [][WindowNext]_windowVars
WindowFairSpec == WindowSpec /\ WF_windowVars(WindowNext)

(***************************************************************************)
(* What the rows of a frame are.                                           *)
(***************************************************************************)
Partition(i) == {j \in Rows : input[j].part = input[i].part}
Offset(k, by) == IF k = NullKey THEN Order(k) ELSE Order(k) + by
KeysUpTo(i) == {Order(input[j].key) : j \in {k \in Partition(i) : k <= i}}
\* The place of a row among the partition's rows, groups or keys.
Position(i) == CASE frame.unit = "rows" -> i
                 [] frame.unit = "groups" -> Cardinality(KeysUpTo(i))
                 [] frame.unit = "range" -> Order(input[i].key)
Moved(i, by) == IF frame.unit = "range" THEN Offset(input[i].key, by) ELSE Position(i) + by

InFrame(j, i) ==
  /\ CASE frame.start = "unbounded" -> TRUE
       [] frame.start = "preceding" -> Position(j) >= Moved(i, -frame.x)
       [] frame.start = "current" -> Position(j) >= Position(i)
       [] frame.start = "following" -> Position(j) >= Moved(i, frame.x)
  /\ CASE frame.end = "unbounded" -> TRUE
       [] frame.end = "preceding" -> Position(j) <= Moved(i, -frame.y)
       [] frame.end = "current" -> Position(j) <= Position(i)
       [] frame.end = "following" -> Position(j) <= Moved(i, frame.y)
  /\ CASE frame.exclude = "no" -> TRUE
       [] frame.exclude = "current" -> j # i
       [] frame.exclude = "group" -> input[j].key # input[i].key
       [] frame.exclude = "ties" -> j = i \/ input[j].key # input[i].key
FrameOf(i) == {j \in Partition(i) : InFrame(j, i)}

(***************************************************************************)
(* Properties.                                                             *)
(***************************************************************************)
\* Every row is returned, in its order and once, with an aggregate of exactly the
\* rows of its frame.
ReturnsFrame ==
  [][/\ ret' # ret =>
          /\ ret'.row = ret.row + 1
          /\ ret'.value = [i \in 0 .. Len(input) |-> IF i \in FrameOf(ret'.row) THEN 1 ELSE 0]
             \/ failed
     /\ at'.block = "halt" => ret'.row = Len(input)]_windowVars

\* A Go aggregate that is kept behind a handle is the register's, and none is left
\* when the statement has ended, as it may early.
HandlesOwned == go.live = {agg.id} \ {0} /\ (at.block = "done" => go.live = {})

\* "Step must've been called, so agg is never NULL" (build/func.c): a row is only
\* taken out of an aggregate that go_step has made.
StepCalled ==
  Operation /\ Instr.op = "inverse" /\ ~Scanned /\ ~HeldBack /\ ~Overtakes
    => agg.id # 0

\* Every program ends: a frame is never walked over for ever.
Terminates == <>(at.block = "done")
==============================================================================
