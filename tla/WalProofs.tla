------------------------------ MODULE WalProofs -------------------------------
(***************************************************************************)
(* What the log promises, for any connections, pages, read marks and       *)
(* bounds.                                                                 *)
(*                                                                         *)
(* What a connection keeps in its cache is the snapshot that it reads,     *)
(* whatever checkpoints, restarts of the log, recoveries and crashes come  *)
(* between (Inv).                                                          *)
(*                                                                         *)
(* As long as it is calm, that is the header is never taken from the log   *)
(* again: the log implements snapshot isolation, and no commit is lost     *)
(* (Order); and a reader finds its snapshot in the log and the database    *)
(* file, a writer what it has written (Content).                           *)
(***************************************************************************)
EXTENDS Wal, FiniteSetTheorems, WellFoundedInduction, TLAPS

(* The variables are functions and records of the shape that they show.    *)
IsHdr(h) == h = [mx |-> h.mx, salt |-> h.salt, last |-> h.last]
IsCkpt(k) == {"mode", "changed"} \subseteq DOMAIN k /\ k.changed \in BOOLEAN

Shaped ==
  /\ setting \in Settings
  /\ pc \in [Conns -> Wheres]
  /\ DOMAIN hdr = Conns /\ DOMAIN tmp = Conns /\ DOMAIN cached = Conns
  /\ DOMAIN ckpt = Conns /\ DOMAIN txn = Conns
  /\ {1, 2} \subseteq DOMAIN shm /\ IsHdr(shm[1])
  /\ \A c \in Conns : IsHdr(hdr[c]) /\ IsHdr(tmp[c])
  /\ \A c \in Conns : IsCkpt(ckpt[c])

(* Where a connection writes the header, or a transaction; where a writer  *)
(* takes another mark; where a checkpoint is under way.                    *)
Writing == {"write", "restart", "restarted", "restartinfo", "frames"}
Marking == {"begin", "lock", "verify"}
CkptSteps == {"chdr", "ckpt", "cmark", "czero", "csalt", "ccopy", "cdone", "ctrunc",
              "ctruncinfo", "cend"}
Headed == {"second", "dirty", "recover", "recovered"}   \* in both

(* The lock WRITE is held where shared memory is written, and nowhere else. *)
LockHeld(c) ==
  /\ pc[c] \in Writing \cup {"publish", "recover", "recovered"} => writer = c
  /\ ckpt[c].mode \notin {"none", "passive"} => writer = c
  /\ pc[c] \in {"ctrunc", "ctruncinfo"} => ckpt[c].mode = "truncate"
  /\ pc[c] \in CkptSteps => Checkpointing(c)
  /\ Checkpointing(c) => pc[c] \in CkptSteps \cup Headed
  /\ c \notin alive => pc[c] = "idle"
  /\ writer = c =>
       \/ pc[c] \in Writing \cup Marking \cup {"publish", "recover", "recovered"}
       \/ ckpt[c].mode \notin {"none", "passive"}

(* The header that a writer changes goes on from the one that is shared.   *)
HeaderShared(c) ==
  /\ pc[c] \in Writing \/ (writer = c /\ pc[c] \in Marking) => hdr[c].last = shm[1].last
  /\ pc[c] = "publish" => hdr[c].last = txn[c]

Fresh(c) == cached[c] \in {-1, hdr[c].last}

(* A cache that is not that of the header is forgotten with the header     *)
(* before the next read.                                                   *)
CacheKept(c) ==
  /\ pc[c] \in Writing \cup {"read"} => cached[c] = hdr[c].last
  /\ pc[c] \in Marking \cup {"zero"} => Fresh(c)
  /\ pc[c] \in {"idle", "chdr", "second", "dirty", "recover"} =>
       Fresh(c) \/ hdr[c] = NoHdr \/ (Checkpointing(c) /\ ckpt[c].changed)
  /\ pc[c] \in CkptSteps \ {"chdr"} => Fresh(c) \/ ckpt[c].changed

Kept(c) == LockHeld(c) /\ HeaderShared(c) /\ CacheKept(c)

Inv == Shaped /\ (writer # None => writer \in Conns) /\ \A c \in Conns : Kept(c)
-----------------------------------------------------------------------------
(* A step of one connection. *)

Same(d) ==
  /\ pc'[d] = pc[d] /\ hdr'[d] = hdr[d] /\ tmp'[d] = tmp[d]
  /\ cached'[d] = cached[d] /\ ckpt'[d] = ckpt[d] /\ txn'[d] = txn[d]

Domains ==
  /\ setting \in Settings
  /\ DOMAIN pc = Conns /\ pc = [d \in Conns |-> pc[d]]
  /\ DOMAIN hdr = Conns /\ DOMAIN tmp = Conns /\ DOMAIN cached = Conns
  /\ DOMAIN ckpt = Conns /\ DOMAIN txn = Conns
  /\ {1, 2} \subseteq DOMAIN shm /\ IsHdr(shm[1])

Only(c) ==
  /\ Domains' /\ \A d \in Conns \ {c} : Same(d)
  /\ pc'[c] \in Wheres /\ IsHdr(hdr'[c]) /\ IsHdr(tmp'[c]) /\ IsCkpt(ckpt'[c])

Steps(c) ==
  /\ Only(c) /\ setting' = setting /\ alive \ {c} \subseteq alive'
  /\ writer' = writer \/ (writer \in {None, c} /\ writer' \in {None, c})
  /\ shm'[1].last = shm[1].last \/ writer \in {None, c}

(* It changes nothing of the others, and what it does to the memory that   *)
(* is shared keeps what they hold if what it leaves itself is kept.        *)
LEMMA OneStep ==
  ASSUME Inv, NEW c \in Conns, Only(c), setting' = setting, alive \ {c} \subseteq alive',
         \/ writer' = writer
         \/ writer \in {None, c} /\ writer' \in {None, c},
         shm'[1].last = shm[1].last \/ writer \in {None, c},
         Kept(c)'
  PROVE  Inv' /\ Steps(c)
<1> USE DEF Only
<1>1. \A d \in Conns : d # None
  BY WalAssumption
<1>2. ASSUME NEW d \in Conns \ {c} PROVE Kept(d)'
  <2>1. Same(d) /\ Kept(d) /\ d # None /\ d # c
    BY <1>1 DEF Inv
  <2>2. (writer' = d) <=> (writer = d)
    BY <2>1
  <2>3. writer = d => shm'[1].last = shm[1].last
    BY <2>1
  <2>4. LockHeld(d)'
    BY <2>1, <2>2 DEF Kept, LockHeld, Same, Checkpointing
  <2>5. HeaderShared(d)'
    BY <2>1, <2>2, <2>3 DEF Kept, HeaderShared, LockHeld, Same
  <2>6. CacheKept(d)'
    BY <2>1 DEF Kept, CacheKept, Fresh, Same, Checkpointing
  <2> QED
    BY <2>4, <2>5, <2>6 DEF Kept
<1>3. Shaped'
  <2>1. \A d \in Conns \ {c} : pc[d] \in Wheres /\ IsHdr(hdr[d]) /\ IsHdr(tmp[d])
                                /\ IsCkpt(ckpt[d])
    BY DEF Inv, Shaped
  <2>2. \A d \in Conns : pc'[d] \in Wheres /\ IsHdr(hdr'[d]) /\ IsHdr(tmp'[d])
                          /\ IsCkpt(ckpt'[d])
    BY <2>1 DEF Same, IsHdr
  <2>3. pc' \in [Conns -> Wheres]
    BY <2>2 DEF Domains
  <2> QED
    BY <2>2, <2>3 DEF Domains, Shaped, IsHdr
<1>4. writer' # None => writer' \in Conns
  BY DEF Inv
<1> QED
  BY <1>2, <1>3, <1>4 DEF Inv, Steps

USE DEF files, shared, locks, reader, writing, ghosts, Go, At

LEMMA SomeConn == \A c \in Conns : c # None
BY WalAssumption

LEMMA HeaderParts ==
  ASSUME NEW h, IsHdr(h), NEW x
  PROVE  /\ IsHdr([h EXCEPT !.mx = x]) /\ [h EXCEPT !.mx = x].last = h.last
         /\ IsHdr([h EXCEPT !.salt = x]) /\ [h EXCEPT !.salt = x].last = h.last
         /\ IsHdr([h EXCEPT !.last = x]) /\ [h EXCEPT !.last = x].last = x
         /\ IsHdr(Restarted(h, x)) /\ Restarted(h, x).last = h.last
<1> SUFFICES ASSUME NEW m, NEW s, NEW l, h = [mx |-> m, salt |-> s, last |-> l]
             PROVE  /\ [h EXCEPT !.mx = x] = [mx |-> x, salt |-> s, last |-> l]
                    /\ [h EXCEPT !.salt = x] = [mx |-> m, salt |-> x, last |-> l]
                    /\ [h EXCEPT !.last = x] = [mx |-> m, salt |-> s, last |-> x]
                    /\ Restarted(h, x) = [mx |-> 0, salt |-> x, last |-> l]
  BY DEF IsHdr
<1>1. [h EXCEPT !.mx = x] = [mx |-> x, salt |-> s, last |-> l]
  OBVIOUS
<1>2. [h EXCEPT !.salt = x] = [mx |-> m, salt |-> x, last |-> l]
  OBVIOUS
<1>3. [h EXCEPT !.last = x] = [mx |-> m, salt |-> s, last |-> x]
  OBVIOUS
<1>4. Restarted(h, x) = [mx |-> 0, salt |-> x, last |-> l]
  <2>1. [h EXCEPT !.mx = 0] = [mx |-> 0, salt |-> s, last |-> l]
    OBVIOUS
  <2>2. [h EXCEPT !.mx = 0, !.salt = x] = [[h EXCEPT !.mx = 0] EXCEPT !.salt = x]
    OBVIOUS
  <2>3. [[mx |-> 0, salt |-> s, last |-> l] EXCEPT !.salt = x] = [mx |-> 0, salt |-> x, last |-> l]
    OBVIOUS
  <2> QED
    BY <2>1, <2>2, <2>3 DEF Restarted
<1> QED
  BY <1>1, <1>2, <1>3, <1>4

LEMMA TakesHeader ==
  ASSUME Shaped, NEW c \in Conns, NEW h, TakeHeader(c, h)
  PROVE  /\ \A d \in Conns \ {c} : hdr'[d] = hdr[d] /\ pc'[d] = pc[d] /\ cached'[d] = cached[d]
                                   /\ ckpt'[d] = ckpt[d]
         /\ hdr'[c] = h /\ DOMAIN hdr' = Conns /\ DOMAIN cached' = Conns /\ DOMAIN ckpt' = Conns
         /\ DOMAIN pc' = Conns /\ pc' = [d \in Conns |-> pc'[d]]
         /\ IsCkpt(ckpt'[c])
         /\ ckpt'[c].mode = ckpt[c].mode
         /\ pc'[c] = IF Checkpointing(c) THEN "ckpt" ELSE "begin"
         /\ Checkpointing(c) => /\ cached'[c] = cached[c]
                                /\ ckpt'[c].changed <=> ckpt[c].changed \/ h # hdr[c]
         /\ ~Checkpointing(c) => cached'[c] = IF h # hdr[c] THEN -1 ELSE cached[c]
<1> USE DEF Shaped, TakeHeader, Go
<1>1. CASE ~Checkpointing(c)
  BY <1>1 DEF IsCkpt
<1>2. CASE Checkpointing(c)
  <2> DEFINE ch == ckpt[c].changed \/ h # hdr[c]
  <2>1. ckpt' = [ckpt EXCEPT ![c].changed = ch, ![c].safe = h.mx]
    BY <1>2
  <2> HIDE DEF ch
  <2>2. ckpt'[c] = [ckpt[c] EXCEPT !.changed = ch, !.safe = h.mx]
    BY <2>1
  <2>3. /\ ckpt'[c].changed = ch /\ ckpt'[c].mode = ckpt[c].mode /\ DOMAIN ckpt'[c] = DOMAIN ckpt[c]
    BY <2>2 DEF IsCkpt
  <2>4. ch \in BOOLEAN /\ (ch <=> ckpt[c].changed \/ h # hdr[c])
    BY DEF ch
  <2>5. IsCkpt(ckpt'[c])
    BY <2>3, <2>4 DEF IsCkpt
  <2>6. DOMAIN ckpt' = Conns /\ \A d \in Conns \ {c} : ckpt'[d] = ckpt[d]
    BY <2>1
  <2> QED
    BY <1>2, <2>3, <2>4, <2>5, <2>6
<1> QED
  BY <1>1, <1>2

LEMMA ReadFirstKeeps ==
  ASSUME Inv, NEW c \in Conns, setting' = setting, ReadFirst(c) PROVE Inv' /\ Steps(c)
<1>1. Only(c)
  BY DEF ReadFirst, Only, Inv, Shaped, Same, Domains, Wheres, IsHdr, IsCkpt
<1>2. Kept(c)'
  BY DEF ReadFirst, Inv, IsHdr, IsCkpt, Shaped, Kept, LockHeld, HeaderShared, CacheKept, Fresh,
         Checkpointing, Writing, Marking, CkptSteps, Headed
<1> QED
  BY <1>1, <1>2, OneStep DEF ReadFirst

LEMMA ReadSecondKeeps ==
  ASSUME Inv, NEW c \in Conns, setting' = setting, ReadSecond(c) PROVE Inv' /\ Steps(c)
<1>1. /\ pc[c] = "second" /\ Kept(c) /\ IsHdr(NoHdr)
      /\ UNCHANGED << setting, shm, writer, alive, txn >>
      /\ tmp' = [tmp EXCEPT ![c] = NoHdr]
  BY DEF ReadSecond, Inv, IsHdr, NoHdr
<1>2. CASE ~(shm[2] = tmp[c] /\ tmp[c] # NoHdr)
  <2>1. pc' = [pc EXCEPT ![c] = "dirty"] /\ UNCHANGED << hdr, cached, ckpt >>
    BY <1>2 DEF ReadSecond
  <2>2. Only(c)
    BY <1>1, <2>1 DEF Only, Inv, Shaped, Same, Domains, Wheres, IsHdr, IsCkpt
  <2>3. Kept(c)'
    BY <1>1, <2>1 DEF Inv, IsHdr, IsCkpt, Shaped, Kept, LockHeld, HeaderShared, CacheKept,
           Fresh, Checkpointing, Writing, Marking, CkptSteps, Headed
  <2> QED
    BY <1>1, <2>2, <2>3, OneStep
<1>3. CASE shm[2] = tmp[c] /\ tmp[c] # NoHdr
  <2>1. TakeHeader(c, tmp[c])
    BY <1>3 DEF ReadSecond
  <2>2. IsHdr(tmp'[c]) /\ DOMAIN tmp' = Conns /\ \A d \in Conns \ {c} : tmp'[d] = tmp[d]
    BY <1>1 DEF Inv, Shaped
  <2>3. Kept(c)'
    BY <1>1, <1>3, <2>1, TakesHeader DEF Inv, IsHdr, IsCkpt, Shaped, Kept, LockHeld,
           HeaderShared, CacheKept, Fresh, Checkpointing, Writing, Marking, CkptSteps, Headed
  <2>4. Only(c)
    BY <1>1, <2>1, <2>2, TakesHeader DEF Only, Inv, Shaped, Same, Domains, Wheres, IsHdr, IsCkpt
  <2> QED
    BY <1>1, <2>3, <2>4, OneStep
<1> QED
  BY <1>2, <1>3

LEMMA RereadKeeps ==
  ASSUME Inv, NEW c \in Conns, setting' = setting, Reread(c) PROVE Inv' /\ Steps(c)
<1>1. /\ pc[c] = "dirty" /\ Kept(c) /\ c # None
      /\ UNCHANGED << setting, shm, alive, tmp, txn >>
  BY SomeConn DEF Reread, Inv
<1>2. CASE Free(writer, c) /\ (shm[1] = shm[2] /\ shm[1] # NoHdr)
  <2>1. TakeHeader(c, shm[1]) /\ writer' = writer
    BY <1>2 DEF Reread
  <2>2. Kept(c)'
    BY <1>1, <1>2, <2>1, TakesHeader DEF Inv, IsHdr, IsCkpt, Shaped, Kept, LockHeld,
           HeaderShared, CacheKept, Fresh, Checkpointing, Writing, Marking, CkptSteps, Headed
  <2>3. Only(c)
    BY <1>1, <2>1, TakesHeader DEF Only, Inv, Shaped, Same, Domains, Wheres, IsHdr, IsCkpt
  <2> QED
    BY <1>1, <2>1, <2>2, <2>3, OneStep
<1>3. CASE ~(Free(writer, c) /\ (shm[1] = shm[2] /\ shm[1] # NoHdr))
           /\ Free(writer, c) /\ Free(ckpter, c)
  <2>1. /\ writer' = c /\ writer \in {None, c} /\ pc' = [pc EXCEPT ![c] = "recover"]
        /\ UNCHANGED << hdr, cached, ckpt >>
    BY <1>3 DEF Reread, Free
  <2>2. Only(c)
    BY <1>1, <2>1 DEF Only, Inv, Shaped, Same, Domains, Wheres, IsHdr, IsCkpt
  <2>3. Kept(c)'
    BY <1>1, <2>1 DEF Inv, IsHdr, IsCkpt, Shaped, Kept, LockHeld, HeaderShared, CacheKept,
           Fresh, Checkpointing, Writing, Marking, CkptSteps, Headed
  <2> QED
    BY <1>1, <2>1, <2>2, <2>3, OneStep
<1>4. CASE ~(Free(writer, c) /\ (shm[1] = shm[2] /\ shm[1] # NoHdr))
           /\ ~(Free(writer, c) /\ Free(ckpter, c))
  <2>1. /\ writer' = (IF writer = c THEN None ELSE writer) /\ pc' = [pc EXCEPT ![c] = "idle"]
        /\ ckpt' = [ckpt EXCEPT ![c] = NoCkpt] /\ cached' = [cached EXCEPT ![c] = -1]
        /\ hdr' = hdr
    BY <1>4 DEF Reread, GiveUp, Dropped
  <2>2. IsCkpt(NoCkpt) /\ NoCkpt.mode = "none"
    BY DEF IsCkpt, NoCkpt
  <2>3. Only(c)
    BY <1>1, <2>1, <2>2 DEF Only, Inv, Shaped, Same, Domains, Wheres, IsHdr, IsCkpt
  <2>4. Kept(c)'
    BY <1>1, <2>1, <2>2 DEF Inv, IsHdr, IsCkpt, Shaped, Kept, LockHeld, HeaderShared,
           CacheKept, Fresh, Checkpointing, Writing, Marking, CkptSteps, Headed
  <2> QED
    BY <1>1, <2>1, <2>3, <2>4, OneStep
<1> QED
  BY <1>2, <1>3, <1>4

LEMMA RecoverKeeps ==
  ASSUME Inv, NEW c \in Conns, setting' = setting, Recover(c) PROVE Inv' /\ Steps(c)
<1> DEFINE h == Recovered(wal)
<1>1. IsHdr(h)
  BY DEF Recovered, IsHdr
<1>2. /\ pc[c] = "recover" /\ pc' = [pc EXCEPT ![c] = "recovered"] /\ shm' = << h, h >>
      /\ hdr' = [hdr EXCEPT ![c] = h] /\ UNCHANGED << setting, writer, alive, tmp, cached, txn,
             ckpt >>
  BY DEF Recover
<1>6. {1, 2} \subseteq DOMAIN shm' /\ shm'[1] = h
  BY <1>2
<1> HIDE DEF h
<1>3. Only(c)
  BY <1>1, <1>2, <1>6 DEF Only, Inv, Shaped, Same, Domains, Wheres, IsHdr, IsCkpt
<1>4. Kept(c)'
  BY <1>2 DEF Inv, IsHdr, IsCkpt, Shaped, Kept, LockHeld, HeaderShared, CacheKept, Fresh,
         Checkpointing, Writing, Marking, CkptSteps, Headed
<1>5. writer = c
  BY <1>2 DEF Inv, Kept, LockHeld
<1> QED
  BY <1>2, <1>3, <1>4, <1>5, OneStep

LEMMA RecoverInfoKeeps ==
  ASSUME Inv, NEW c \in Conns, setting' = setting, RecoverInfo(c) PROVE Inv' /\ Steps(c)
<1>1. /\ pc[c] = "recovered" /\ writer = c /\ c # None
      /\ UNCHANGED << setting, shm, alive, hdr, tmp, txn >>
  BY SomeConn DEF RecoverInfo, Inv, Kept, LockHeld
<1>2. CASE Checkpointing(c)
  <2>1. /\ ckpt' = [ckpt EXCEPT ![c].changed = TRUE, ![c].safe = hdr[c].mx]
        /\ cached' = cached /\ pc' = [pc EXCEPT ![c] = "ckpt"]
        /\ writer' = IF ckpt[c].mode # "passive" THEN c ELSE None
    BY <1>2 DEF RecoverInfo
  <2>2. ckpt'[c] = [ckpt[c] EXCEPT !.changed = TRUE, !.safe = hdr[c].mx]
    BY <2>1 DEF Inv, Shaped
  <2>3. ckpt'[c].mode = ckpt[c].mode /\ ckpt'[c].changed = TRUE /\ IsCkpt(ckpt'[c])
    BY <2>2 DEF Inv, Shaped, IsCkpt
  <2>4. Only(c)
    BY <1>1, <2>1, <2>3 DEF Only, Inv, Shaped, Same, Domains, Wheres, IsHdr, IsCkpt
  <2>5. Kept(c)'
    BY <1>1, <1>2, <2>1, <2>3 DEF Inv, IsHdr, Shaped, Kept, LockHeld, HeaderShared, CacheKept,
           Fresh, Checkpointing, Writing, Marking, CkptSteps, Headed
  <2> QED
    BY <1>1, <2>1, <2>4, <2>5, OneStep
<1>3. CASE ~Checkpointing(c)
  <2>1. /\ ckpt' = ckpt /\ pc' = [pc EXCEPT ![c] = "begin"] /\ writer' = None
        /\ cached' = [cached EXCEPT ![c] = -1]
    BY <1>3 DEF RecoverInfo
  <2>2. Only(c)
    BY <1>1, <2>1 DEF Only, Inv, Shaped, Same, Domains, Wheres, IsHdr, IsCkpt
  <2>3. Kept(c)'
    BY <1>1, <1>3, <2>1 DEF Inv, IsHdr, IsCkpt, Shaped, Kept, LockHeld, HeaderShared,
           CacheKept, Fresh, Checkpointing, Writing, Marking, CkptSteps, Headed
  <2> QED
    BY <1>1, <2>1, <2>2, <2>3, OneStep
<1> QED
  BY <1>2, <1>3

LEMMA BeginZeroKeeps ==
  ASSUME Inv, NEW c \in Conns, setting' = setting, BeginZero(c) PROVE Inv' /\ Steps(c)
<1>1. Only(c)
  BY DEF BeginZero, Only, Inv, Shaped, Same, Domains, Wheres, IsHdr, IsCkpt
<1>2. Kept(c)'
  BY DEF BeginZero, Inv, IsHdr, IsCkpt, Shaped, Kept, LockHeld, HeaderShared, CacheKept, Fresh,
         Checkpointing, Writing, Marking, CkptSteps, Headed
<1> QED
  BY <1>1, <1>2, OneStep DEF BeginZero

LEMMA CheckZeroKeeps ==
  ASSUME Inv, NEW c \in Conns, setting' = setting, CheckZero(c) PROVE Inv' /\ Steps(c)
<1>1. Only(c)
  BY DEF CheckZero, Retry, GiveUp, Only, Inv, Shaped, Same, Domains, Wheres, IsHdr, IsCkpt
<1>2. Kept(c)'
  BY DEF CheckZero, Retry, GiveUp, Inv, IsHdr, IsCkpt, Shaped, Kept, LockHeld, HeaderShared,
         CacheKept, Fresh, Checkpointing, Writing, Marking, CkptSteps, Headed
<1> QED
  BY <1>1, <1>2, OneStep DEF CheckZero, Retry, GiveUp

LEMMA ChooseMarkKeeps ==
  ASSUME Inv, NEW c \in Conns, setting' = setting, ChooseMark(c) PROVE Inv' /\ Steps(c)
<1>1. Only(c)
  BY DEF ChooseMark, Retry, GiveUp, Only, Inv, Shaped, Same, Domains, Wheres, IsHdr, IsCkpt
<1>2. Kept(c)'
  BY DEF ChooseMark, Retry, GiveUp, Inv, IsHdr, IsCkpt, Shaped, Kept, LockHeld, HeaderShared,
         CacheKept, Fresh, Checkpointing, Writing, Marking, CkptSteps, Headed
<1> QED
  BY <1>1, <1>2, OneStep DEF ChooseMark, Retry, GiveUp

LEMMA LockMarkKeeps ==
  ASSUME Inv, NEW c \in Conns, setting' = setting, LockMark(c) PROVE Inv' /\ Steps(c)
<1>1. Only(c)
  BY DEF LockMark, Retry, GiveUp, Only, Inv, Shaped, Same, Domains, Wheres, IsHdr, IsCkpt
<1>2. Kept(c)'
  BY DEF LockMark, Retry, GiveUp, Inv, IsHdr, IsCkpt, Shaped, Kept, LockHeld, HeaderShared,
         CacheKept, Fresh, Checkpointing, Writing, Marking, CkptSteps, Headed
<1> QED
  BY <1>1, <1>2, OneStep DEF LockMark, Retry, GiveUp

LEMMA VerifyKeeps ==
  ASSUME Inv, NEW c \in Conns, setting' = setting, Verify(c) PROVE Inv' /\ Steps(c)
<1>1. Only(c)
  BY DEF Verify, Retry, GiveUp, Admit, Only, Inv, Shaped, Same, Domains, Wheres, IsHdr, IsCkpt
<1>2. Kept(c)'
  BY DEF Verify, Retry, GiveUp, Admit, Inv, IsHdr, IsCkpt, Shaped, Kept, LockHeld, HeaderShared,
         CacheKept, Fresh, Checkpointing, Writing, Marking, CkptSteps, Headed
<1> QED
  BY <1>1, <1>2, OneStep DEF Verify, Retry, GiveUp, Admit

LEMMA EndReadKeeps ==
  ASSUME Inv, NEW c \in Conns, setting' = setting, EndRead(c) PROVE Inv' /\ Steps(c)
<1>1. Only(c)
  BY DEF EndRead, Only, Inv, Shaped, Same, Domains, Wheres, IsHdr, IsCkpt
<1>2. Kept(c)'
  BY DEF EndRead, Inv, IsHdr, IsCkpt, Shaped, Kept, LockHeld, HeaderShared, CacheKept, Fresh,
         Checkpointing, Writing, Marking, CkptSteps, Headed
<1> QED
  BY <1>1, <1>2, OneStep DEF EndRead

LEMMA BeginWriteKeeps ==
  ASSUME Inv, NEW c \in Conns, setting' = setting, BeginWrite(c) PROVE Inv' /\ Steps(c)
<1>1. Only(c)
  BY DEF BeginWrite, Only, Inv, Shaped, Same, Domains, Wheres, IsHdr, IsCkpt
<1>2. Kept(c)'
  BY DEF BeginWrite, Inv, IsHdr, IsCkpt, Shaped, Kept, LockHeld, HeaderShared, CacheKept, Fresh,
         Checkpointing, Writing, Marking, CkptSteps, Headed
<1> QED
  BY <1>1, <1>2, OneStep DEF BeginWrite

LEMMA ModifyKeeps ==
  ASSUME Inv, NEW c \in Conns, NEW p \in Pages, setting' = setting, Modify(c, p) PROVE Inv' /\ Steps(c)
<1>1. Only(c)
  BY DEF Modify, Only, Inv, Shaped, Same, Domains, Wheres, IsHdr, IsCkpt
<1>2. Kept(c)'
  BY DEF Modify, Inv, IsHdr, IsCkpt, Shaped, Kept, LockHeld, HeaderShared, CacheKept, Fresh,
         Checkpointing, Writing, Marking, CkptSteps, Headed
<1> QED
  BY <1>1, <1>2, OneStep DEF Modify

LEMMA OpenSavepointKeeps ==
  ASSUME Inv, NEW c \in Conns, setting' = setting, OpenSavepoint(c) PROVE Inv' /\ Steps(c)
<1>1. Only(c)
  BY DEF OpenSavepoint, Only, Inv, Shaped, Same, Domains, Wheres, IsHdr, IsCkpt
<1>2. Kept(c)'
  BY DEF OpenSavepoint, Inv, IsHdr, IsCkpt, Shaped, Kept, LockHeld, HeaderShared, CacheKept,
         Fresh, Checkpointing, Writing, Marking, CkptSteps, Headed
<1> QED
  BY <1>1, <1>2, OneStep DEF OpenSavepoint

LEMMA RollbackToKeeps ==
  ASSUME Inv, NEW c \in Conns, setting' = setting, RollbackTo(c) PROVE Inv' /\ Steps(c)
<1>1. Only(c)
  BY DEF RollbackTo, UndoTo, Only, Inv, Shaped, Same, Domains, Wheres, IsHdr, IsCkpt
<1>2. Kept(c)'
  BY DEF RollbackTo, UndoTo, Inv, IsHdr, IsCkpt, Shaped, Kept, LockHeld, HeaderShared,
         CacheKept, Fresh, Checkpointing, Writing, Marking, CkptSteps, Headed
<1> QED
  BY <1>1, <1>2, OneStep DEF RollbackTo, UndoTo

LEMMA RollbackKeeps ==
  ASSUME Inv, NEW c \in Conns, setting' = setting, Rollback(c) PROVE Inv' /\ Steps(c)
<1>1. /\ pc[c] \in {"write", "frames"} /\ writer = c /\ c # None /\ Kept(c)
      /\ pc' = [pc EXCEPT ![c] = "read"] /\ hdr' = [hdr EXCEPT ![c] = shm[1]]
      /\ txn' = [txn EXCEPT ![c] = 0] /\ writer' = None
      /\ UNCHANGED << setting, shm, alive, tmp, cached, ckpt >>
  BY SomeConn DEF Rollback, EndTransaction, Inv, Kept, LockHeld, Writing
<1>2. Only(c)
  BY <1>1 DEF Only, Inv, Shaped, Same, Domains, Wheres, IsHdr, IsCkpt
<1>3. pc'[c] = "read" /\ hdr'[c].last = hdr[c].last
  BY <1>1 DEF Inv, Shaped, Kept, HeaderShared, Writing
<1>4. Kept(c)'
  BY <1>1, <1>3 DEF IsHdr, IsCkpt, Kept, LockHeld, HeaderShared, CacheKept, Fresh,
         Checkpointing, Writing, Marking, CkptSteps, Headed
<1> QED
  BY <1>1, <1>2, <1>4, OneStep

LEMMA CommitKeeps ==
  ASSUME Inv, NEW c \in Conns, setting' = setting, Commit(c) PROVE Inv' /\ Steps(c)
<1>1. Only(c)
  BY DEF Commit, StartFrames, Only, Inv, Shaped, Same, Domains, Wheres, IsHdr, IsCkpt
<1>2. Kept(c)'
  BY DEF Commit, StartFrames, Inv, IsHdr, IsCkpt, Shaped, Kept, LockHeld, HeaderShared,
         CacheKept, Fresh, Checkpointing, Writing, Marking, CkptSteps, Headed
<1> QED
  BY <1>1, <1>2, OneStep DEF Commit, StartFrames

LEMMA SpillKeeps ==
  ASSUME Inv, NEW c \in Conns, NEW p \in Pages, setting' = setting, Spill(c, p) PROVE Inv' /\ Steps(c)
<1>1. Only(c)
  BY DEF Spill, StartFrames, Only, Inv, Shaped, Same, Domains, Wheres, IsHdr, IsCkpt
<1>2. Kept(c)'
  BY DEF Spill, StartFrames, Inv, IsHdr, IsCkpt, Shaped, Kept, LockHeld, HeaderShared,
         CacheKept, Fresh, Checkpointing, Writing, Marking, CkptSteps, Headed
<1> QED
  BY <1>1, <1>2, OneStep DEF Spill, StartFrames

LEMMA RestartLogKeeps ==
  ASSUME Inv, NEW c \in Conns, setting' = setting, RestartLog(c) PROVE Inv' /\ Steps(c)
<1>1. /\ pc[c] = "restart" /\ writer = c /\ IsHdr(hdr[c])
      /\ UNCHANGED << setting, writer, alive, tmp, cached, txn, ckpt >>
  BY DEF RestartLog, Inv, Kept, LockHeld, Writing, Shaped
<1>2. CASE nBackfill > 0 /\ MarksFree(c)
  <2> DEFINE h == Restarted(hdr[c], FreshSalt)
  <2>1. IsHdr(h) /\ h.last = hdr[c].last
    BY <1>1, HeaderParts
  <2>2. /\ hdr' = [hdr EXCEPT ![c] = h] /\ shm' = [shm EXCEPT ![2] = h]
        /\ pc' = [pc EXCEPT ![c] = "restarted"]
    BY <1>2 DEF RestartLog
  <2> HIDE DEF h
  <2>3. Only(c)
    BY <1>1, <2>1, <2>2 DEF Only, Inv, Shaped, Same, Domains, Wheres, IsHdr, IsCkpt
  <2>4. Kept(c)'
    BY <1>1, <2>1, <2>2 DEF Inv, IsHdr, IsCkpt, Shaped, Kept, LockHeld, HeaderShared,
           CacheKept, Fresh, Checkpointing, Writing, Marking, CkptSteps, Headed
  <2> QED
    BY <1>1, <2>2, <2>3, <2>4, OneStep
<1>3. CASE ~(nBackfill > 0 /\ MarksFree(c))
  <2>1. pc' = [pc EXCEPT ![c] = "begin"] /\ UNCHANGED << hdr, shm >>
    BY <1>3 DEF RestartLog
  <2>2. Only(c)
    BY <1>1, <2>1 DEF Only, Inv, Shaped, Same, Domains, Wheres, IsHdr, IsCkpt
  <2>3. Kept(c)'
    BY <1>1, <2>1 DEF Inv, IsHdr, IsCkpt, Shaped, Kept, LockHeld, HeaderShared, CacheKept,
           Fresh, Checkpointing, Writing, Marking, CkptSteps, Headed
  <2> QED
    BY <1>1, <2>1, <2>2, <2>3, OneStep
<1> QED
  BY <1>2, <1>3

LEMMA RestartHeaderKeeps ==
  ASSUME Inv, NEW c \in Conns, setting' = setting, RestartHeader(c) PROVE Inv' /\ Steps(c)
<1>1. Only(c)
  BY DEF RestartHeader, Only, Inv, Shaped, Same, Domains, Wheres, IsHdr, IsCkpt
<1>2. Kept(c)'
  BY DEF RestartHeader, Inv, IsHdr, IsCkpt, Shaped, Kept, LockHeld, HeaderShared, CacheKept,
         Fresh, Checkpointing, Writing, Marking, CkptSteps, Headed
<1>3. writer = c
  BY DEF RestartHeader, Inv, Kept, LockHeld, Writing
<1> QED
  BY <1>1, <1>2, <1>3, OneStep DEF RestartHeader

LEMMA RestartEndKeeps ==
  ASSUME Inv, NEW c \in Conns, setting' = setting, RestartEnd(c) PROVE Inv' /\ Steps(c)
<1>1. Only(c)
  BY DEF RestartEnd, RestartInfo, Only, Inv, Shaped, Same, Domains, Wheres, IsHdr, IsCkpt
<1>2. Kept(c)'
  BY DEF RestartEnd, RestartInfo, Inv, IsHdr, IsCkpt, Shaped, Kept, LockHeld, HeaderShared,
         CacheKept, Fresh, Checkpointing, Writing, Marking, CkptSteps, Headed
<1> QED
  BY <1>1, <1>2, OneStep DEF RestartEnd, RestartInfo

LEMMA WriteLogHeaderKeeps ==
  ASSUME Inv, NEW c \in Conns, setting' = setting, WriteLogHeader(c) PROVE Inv' /\ Steps(c)
<1>1. Only(c)
  BY DEF WriteLogHeader, Only, Inv, Shaped, Same, Domains, Wheres, IsHdr, IsCkpt
<1>2. Kept(c)'
  BY DEF WriteLogHeader, Inv, IsHdr, IsCkpt, Shaped, Kept, LockHeld, HeaderShared, CacheKept,
         Fresh, Checkpointing, Writing, Marking, CkptSteps, Headed
<1> QED
  BY <1>1, <1>2, OneStep DEF WriteLogHeader

LEMMA WriteFrameKeeps ==
  ASSUME Inv, NEW c \in Conns, setting' = setting, WriteFrame(c) PROVE Inv' /\ Steps(c)
<1>1. Only(c)
  BY DEF WriteFrame, Only, Inv, Shaped, Same, Domains, Wheres, IsHdr, IsCkpt
<1>2. Kept(c)'
  BY DEF WriteFrame, Inv, IsHdr, IsCkpt, Shaped, Kept, LockHeld, HeaderShared, CacheKept, Fresh,
         Checkpointing, Writing, Marking, CkptSteps, Headed
<1> QED
  BY <1>1, <1>2, OneStep DEF WriteFrame

LEMMA RechecksumKeeps ==
  ASSUME Inv, NEW c \in Conns, setting' = setting, Rechecksum(c) PROVE Inv' /\ Steps(c)
<1>1. Only(c)
  BY DEF Rechecksum, Only, Inv, Shaped, Same, Domains, Wheres, IsHdr, IsCkpt
<1>2. Kept(c)'
  BY DEF Rechecksum, Inv, IsHdr, IsCkpt, Shaped, Kept, LockHeld, HeaderShared, CacheKept, Fresh,
         Checkpointing, Writing, Marking, CkptSteps, Headed
<1> QED
  BY <1>1, <1>2, OneStep DEF Rechecksum

LEMMA IndexFramesKeeps ==
  ASSUME Inv, NEW c \in Conns, setting' = setting, IndexFrames(c) PROVE Inv' /\ Steps(c)
<1> DEFINE h == [hdr[c] EXCEPT !.mx = last[c]]
           new == [h EXCEPT !.last = txn[c]]
<1>1. /\ pc[c] = "frames" /\ writer = c
      /\ UNCHANGED << setting, writer, alive, tmp, cached, txn, ckpt >>
  BY DEF IndexFrames, Inv, Kept, LockHeld, Writing
<1>2. IsHdr(h) /\ h.last = hdr[c].last
  BY HeaderParts DEF Inv, Shaped
<1> HIDE DEF h
<1>3. IsHdr(new) /\ new.last = txn[c]
  BY <1>2, HeaderParts
<1> USE DEF h
<1>4. CASE batch[c].commit
  <2>1. /\ hdr' = [hdr EXCEPT ![c] = new] /\ shm' = [shm EXCEPT ![2] = new]
        /\ pc' = [pc EXCEPT ![c] = "publish"]
    BY <1>4 DEF IndexFrames
  <2> HIDE DEF h, new
  <2>2. Only(c)
    BY <1>1, <1>3, <2>1 DEF Only, Inv, Shaped, Same, Domains, Wheres, IsHdr, IsCkpt
  <2>3. Kept(c)'
    BY <1>1, <1>3, <2>1 DEF Inv, IsHdr, IsCkpt, Shaped, Kept, LockHeld, HeaderShared,
           CacheKept, Fresh, Checkpointing, Writing, Marking, CkptSteps, Headed
  <2> QED
    BY <1>1, <2>1, <2>2, <2>3, OneStep
<1>5. CASE ~batch[c].commit
  <2>1. /\ hdr' = [hdr EXCEPT ![c] = h] /\ shm' = shm /\ pc' = [pc EXCEPT ![c] = "write"]
    BY <1>5 DEF IndexFrames
  <2> HIDE DEF h, new
  <2>2. Only(c)
    BY <1>1, <1>2, <2>1 DEF Only, Inv, Shaped, Same, Domains, Wheres, IsHdr, IsCkpt
  <2>3. Kept(c)'
    BY <1>1, <1>2, <2>1 DEF Inv, IsHdr, IsCkpt, Shaped, Kept, LockHeld, HeaderShared,
           CacheKept, Fresh, Checkpointing, Writing, Marking, CkptSteps, Headed
  <2> QED
    BY <1>1, <2>1, <2>2, <2>3, OneStep
<1> QED
  BY <1>4, <1>5

LEMMA PublishKeeps ==
  ASSUME Inv, NEW c \in Conns, setting' = setting, Publish(c) PROVE Inv' /\ Steps(c)
<1>1. /\ pc[c] = "publish" /\ writer = c /\ c # None /\ hdr[c].last = txn[c]
      /\ pc' = [pc EXCEPT ![c] = "read"] /\ shm' = [shm EXCEPT ![1] = hdr[c]]
      /\ cached' = [cached EXCEPT ![c] = txn[c]] /\ txn' = [txn EXCEPT ![c] = 0]
      /\ writer' = None /\ UNCHANGED << setting, alive, hdr, tmp, ckpt >>
  BY SomeConn DEF Publish, EndTransaction, Inv, Kept, LockHeld, HeaderShared
<1>2. Only(c)
  BY <1>1 DEF Only, Inv, Shaped, Same, Domains, Wheres, IsHdr, IsCkpt
<1>3. Kept(c)'
  BY <1>1 DEF Inv, IsHdr, IsCkpt, Shaped, Kept, LockHeld, HeaderShared, CacheKept, Fresh,
         Checkpointing, Writing, Marking, CkptSteps, Headed
<1> QED
  BY <1>1, <1>2, <1>3, OneStep

LEMMA CkptBeginKeeps ==
  ASSUME Inv, NEW c \in Conns, setting' = setting, CkptBegin(c) PROVE Inv' /\ Steps(c)
<1>1. PICK m \in Modes :
        /\ writer' = IF m # "passive" /\ writer = None THEN c ELSE writer
        /\ ckpt' = [ckpt EXCEPT ![c].mode = IF writer = None THEN m ELSE "passive"]
  BY DEF CkptBegin
<1>2. /\ pc[c] = "idle" /\ pc' = [pc EXCEPT ![c] = "chdr"] /\ c # None
      /\ UNCHANGED << setting, shm, alive, hdr, tmp, cached, txn >>
  BY SomeConn DEF CkptBegin
<1>3. m # "none" /\ writer # c /\ c \in alive
  <2>1. Modes \subseteq {"passive", "full", "restart", "truncate"}
    BY WalAssumption DEF Inv, Shaped, Modes, Setting
  <2>2. writer # c /\ c \in alive
    BY <1>2 DEF CkptBegin, Inv, Kept, LockHeld, Checkpointing, CkptSteps, Headed, Writing,
           Marking
  <2> QED
    BY <2>1, <2>2
<1>4. /\ ckpt'[c].mode = IF writer = None THEN m ELSE "passive"
      /\ ckpt'[c].changed = ckpt[c].changed /\ IsCkpt(ckpt'[c])
  BY <1>1 DEF Inv, Shaped, IsCkpt
<1>5. Only(c)
  BY <1>1, <1>2, <1>4 DEF Only, Inv, Shaped, Same, Domains, Wheres, IsHdr, IsCkpt
<1>6. Kept(c)'
  BY <1>1, <1>2, <1>3, <1>4 DEF Inv, IsHdr, Shaped, Kept, LockHeld, HeaderShared, CacheKept,
         Fresh, Checkpointing, Writing, Marking, CkptSteps, Headed
<1> QED
  BY <1>1, <1>2, <1>5, <1>6, OneStep

LEMMA CkptStartKeeps ==
  ASSUME Inv, NEW c \in Conns, setting' = setting, CkptStart(c) PROVE Inv' /\ Steps(c)
<1>1. Only(c)
  BY DEF CkptStart, Only, Inv, Shaped, Same, Domains, Wheres, IsHdr, IsCkpt
<1>2. Kept(c)'
  BY DEF CkptStart, Inv, IsHdr, IsCkpt, Shaped, Kept, LockHeld, HeaderShared, CacheKept, Fresh,
         Checkpointing, Writing, Marking, CkptSteps, Headed
<1> QED
  BY <1>1, <1>2, OneStep DEF CkptStart

LEMMA CkptMarkKeeps ==
  ASSUME Inv, NEW c \in Conns, setting' = setting, CkptMark(c) PROVE Inv' /\ Steps(c)
<1>1. Only(c)
  BY DEF CkptMark, Only, Inv, Shaped, Same, Domains, Wheres, IsHdr, IsCkpt
<1>2. Kept(c)'
  BY DEF CkptMark, Inv, IsHdr, IsCkpt, Shaped, Kept, LockHeld, HeaderShared, CacheKept, Fresh,
         Checkpointing, Writing, Marking, CkptSteps, Headed
<1> QED
  BY <1>1, <1>2, OneStep DEF CkptMark

LEMMA CkptPlanKeeps ==
  ASSUME Inv, NEW c \in Conns, setting' = setting, CkptPlan(c) PROVE Inv' /\ Steps(c)
<1>1. Only(c)
  BY DEF CkptPlan, Only, Inv, Shaped, Same, Domains, Wheres, IsHdr, IsCkpt
<1>2. Kept(c)'
  BY DEF CkptPlan, Inv, IsHdr, IsCkpt, Shaped, Kept, LockHeld, HeaderShared, CacheKept, Fresh,
         Checkpointing, Writing, Marking, CkptSteps, Headed
<1> QED
  BY <1>1, <1>2, OneStep DEF CkptPlan

LEMMA CkptLockKeeps ==
  ASSUME Inv, NEW c \in Conns, setting' = setting, CkptLock(c) PROVE Inv' /\ Steps(c)
<1>1. Only(c)
  BY DEF CkptLock, Only, Inv, Shaped, Same, Domains, Wheres, IsHdr, IsCkpt
<1>2. Kept(c)'
  BY DEF CkptLock, Inv, IsHdr, IsCkpt, Shaped, Kept, LockHeld, HeaderShared, CacheKept, Fresh,
         Checkpointing, Writing, Marking, CkptSteps, Headed
<1> QED
  BY <1>1, <1>2, OneStep DEF CkptLock

LEMMA CkptSyncKeeps ==
  ASSUME Inv, NEW c \in Conns, setting' = setting, CkptSync(c) PROVE Inv' /\ Steps(c)
<1>1. Only(c)
  BY DEF CkptSync, Only, Inv, Shaped, Same, Domains, Wheres, IsHdr, IsCkpt
<1>2. Kept(c)'
  BY DEF CkptSync, Inv, IsHdr, IsCkpt, Shaped, Kept, LockHeld, HeaderShared, CacheKept, Fresh,
         Checkpointing, Writing, Marking, CkptSteps, Headed
<1> QED
  BY <1>1, <1>2, OneStep DEF CkptSync

LEMMA CkptCopyKeeps ==
  ASSUME Inv, NEW c \in Conns, setting' = setting, CkptCopy(c) PROVE Inv' /\ Steps(c)
<1>1. Only(c)
  BY DEF CkptCopy, Only, Inv, Shaped, Same, Domains, Wheres, IsHdr, IsCkpt
<1>2. Kept(c)'
  BY DEF CkptCopy, Inv, IsHdr, IsCkpt, Shaped, Kept, LockHeld, HeaderShared, CacheKept, Fresh,
         Checkpointing, Writing, Marking, CkptSteps, Headed
<1> QED
  BY <1>1, <1>2, OneStep DEF CkptCopy

LEMMA CkptFillKeeps ==
  ASSUME Inv, NEW c \in Conns, setting' = setting, CkptFill(c) PROVE Inv' /\ Steps(c)
<1>1. Only(c)
  BY DEF CkptFill, Only, Inv, Shaped, Same, Domains, Wheres, IsHdr, IsCkpt
<1>2. Kept(c)'
  BY DEF CkptFill, Inv, IsHdr, IsCkpt, Shaped, Kept, LockHeld, HeaderShared, CacheKept, Fresh,
         Checkpointing, Writing, Marking, CkptSteps, Headed
<1> QED
  BY <1>1, <1>2, OneStep DEF CkptFill

LEMMA CkptInterruptKeeps ==
  ASSUME Inv, NEW c \in Conns, setting' = setting, CkptInterrupt(c) PROVE Inv' /\ Steps(c)
<1>1. Only(c)
  BY DEF CkptInterrupt, Only, Inv, Shaped, Same, Domains, Wheres, IsHdr, IsCkpt
<1>2. Kept(c)'
  BY DEF CkptInterrupt, Inv, IsHdr, IsCkpt, Shaped, Kept, LockHeld, HeaderShared, CacheKept,
         Fresh, Checkpointing, Writing, Marking, CkptSteps, Headed
<1> QED
  BY <1>1, <1>2, OneStep DEF CkptInterrupt

LEMMA CkptResetKeeps ==
  ASSUME Inv, NEW c \in Conns, setting' = setting, CkptReset(c) PROVE Inv' /\ Steps(c)
<1>1. /\ pc[c] = "cdone" /\ IsHdr(hdr[c])
      /\ UNCHANGED << setting, writer, alive, tmp, cached, txn, ckpt >>
  BY DEF CkptReset, Inv, Shaped
<1>2. CASE ckpt[c].mode = "truncate" /\ nBackfill >= hdr[c].mx /\ MarksFree(c)
  <2> DEFINE h == Restarted(hdr[c], FreshSalt)
  <2>1. IsHdr(h) /\ h.last = hdr[c].last
    BY <1>1, HeaderParts
  <2>2. /\ hdr' = [hdr EXCEPT ![c] = h] /\ shm' = [shm EXCEPT ![2] = h]
        /\ pc' = [pc EXCEPT ![c] = "ctrunc"]
    BY <1>2 DEF CkptReset
  <2>3. writer = c
    BY <1>2 DEF Inv, Kept, LockHeld
  <2> HIDE DEF h
  <2>4. Only(c)
    BY <1>1, <2>1, <2>2 DEF Only, Inv, Shaped, Same, Domains, Wheres, IsHdr, IsCkpt
  <2>5. Kept(c)'
    BY <1>1, <1>2, <2>1, <2>2 DEF Inv, IsHdr, IsCkpt, Shaped, Kept, LockHeld, HeaderShared,
           CacheKept, Fresh, Checkpointing, Writing, Marking, CkptSteps, Headed
  <2> QED
    BY <1>1, <2>2, <2>3, <2>4, <2>5, OneStep
<1>3. CASE ~(ckpt[c].mode = "truncate" /\ nBackfill >= hdr[c].mx /\ MarksFree(c))
  <2>1. pc' = [pc EXCEPT ![c] = "cend"] /\ UNCHANGED << hdr, shm >>
    BY <1>3 DEF CkptReset
  <2>2. Only(c)
    BY <1>1, <2>1 DEF Only, Inv, Shaped, Same, Domains, Wheres, IsHdr, IsCkpt
  <2>3. Kept(c)'
    BY <1>1, <2>1 DEF Inv, IsHdr, IsCkpt, Shaped, Kept, LockHeld, HeaderShared, CacheKept,
           Fresh, Checkpointing, Writing, Marking, CkptSteps, Headed
  <2> QED
    BY <1>1, <2>1, <2>2, <2>3, OneStep
<1> QED
  BY <1>2, <1>3

LEMMA CkptResetHeaderKeeps ==
  ASSUME Inv, NEW c \in Conns, setting' = setting, CkptResetHeader(c) PROVE Inv' /\ Steps(c)
<1>1. Only(c)
  BY DEF CkptResetHeader, Only, Inv, Shaped, Same, Domains, Wheres, IsHdr, IsCkpt
<1>2. Kept(c)'
  BY DEF CkptResetHeader, Inv, IsHdr, IsCkpt, Shaped, Kept, LockHeld, HeaderShared, CacheKept,
         Fresh, Checkpointing, Writing, Marking, CkptSteps, Headed
<1>3. writer = c
  BY DEF CkptResetHeader, Inv, Kept, LockHeld, Writing
<1> QED
  BY <1>1, <1>2, <1>3, OneStep DEF CkptResetHeader

LEMMA CkptTruncateKeeps ==
  ASSUME Inv, NEW c \in Conns, setting' = setting, CkptTruncate(c) PROVE Inv' /\ Steps(c)
<1>1. Only(c)
  BY DEF CkptTruncate, RestartInfo, Only, Inv, Shaped, Same, Domains, Wheres, IsHdr, IsCkpt
<1>2. Kept(c)'
  BY DEF CkptTruncate, RestartInfo, Inv, IsHdr, IsCkpt, Shaped, Kept, LockHeld, HeaderShared,
         CacheKept, Fresh, Checkpointing, Writing, Marking, CkptSteps, Headed
<1> QED
  BY <1>1, <1>2, OneStep DEF CkptTruncate, RestartInfo

LEMMA CkptEndKeeps ==
  ASSUME Inv, NEW c \in Conns, setting' = setting, CkptEnd(c) PROVE Inv' /\ Steps(c)
<1>1. /\ pc[c] = "cend" /\ pc' = [pc EXCEPT ![c] = "idle"] /\ c # None
      /\ hdr' = [hdr EXCEPT ![c] = IF ckpt[c].changed THEN NoHdr ELSE hdr[c]]
      /\ writer' = IF writer = c THEN None ELSE writer
      /\ ckpt' = [ckpt EXCEPT ![c] = NoCkpt]
      /\ UNCHANGED << setting, shm, alive, tmp, cached, txn >>
  BY SomeConn DEF CkptEnd, ForgetHeader, Dropped, Inv, Shaped
<1>2. IsHdr(NoHdr) /\ IsCkpt(NoCkpt) /\ NoCkpt.mode = "none"
  BY DEF IsHdr, IsCkpt, NoHdr, NoCkpt
<1>3. hdr'[c] = IF ckpt[c].changed THEN NoHdr ELSE hdr[c]
  BY <1>1 DEF Inv, Shaped
<1>4. Only(c)
  BY <1>1, <1>2, <1>3 DEF Only, Inv, Shaped, Same, Domains, Wheres, IsHdr, IsCkpt
<1>5. Kept(c)'
  BY <1>1, <1>2, <1>3 DEF Inv, IsHdr, Shaped, Kept, LockHeld, HeaderShared, CacheKept, Fresh,
         Checkpointing, Writing, Marking, CkptSteps, Headed
<1> QED
  BY <1>1, <1>4, <1>5, OneStep

-----------------------------------------------------------------------------
(* Connections come and go. *)

LEMMA ForgetIs ==
  ASSUME Shaped, NEW C \in SUBSET Conns, Forget(C)
  PROVE  /\ \A d \in Conns \ C : Same(d)
         /\ \A d \in C : /\ pc'[d] = "idle" /\ hdr'[d] = NoHdr /\ tmp'[d] = NoHdr
                         /\ cached'[d] = -1 /\ ckpt'[d] = NoCkpt
         /\ DOMAIN hdr' = Conns /\ DOMAIN tmp' = Conns /\ DOMAIN cached' = Conns
         /\ DOMAIN ckpt' = Conns /\ DOMAIN txn' = Conns
         /\ DOMAIN pc' = Conns /\ pc' = [d \in Conns |-> pc'[d]]
BY DEF Forget, Shaped, Same

LEMMA Nothing ==
  /\ IsHdr(NoHdr) /\ IsCkpt(NoCkpt) /\ NoCkpt.mode = "none" /\ NoHdr.last = -1
BY DEF IsHdr, IsCkpt, NoHdr, NoCkpt

LEMMA OpenKeeps ==
  ASSUME Inv, NEW c \in Conns, setting' = setting, Open(c) PROVE Inv' /\ Steps(c)
<1>1. /\ alive \subseteq alive' /\ writer' = writer
      /\ UNCHANGED << setting, pc, hdr, tmp, cached, txn, ckpt >>
  BY DEF Open
<1>2. /\ {1, 2} \subseteq DOMAIN shm' /\ IsHdr(shm'[1])
      /\ shm' = shm \/ alive = {}
  <2>1. {1, 2} \subseteq DOMAIN << NoHdr, NoHdr >> /\ << NoHdr, NoHdr >>[1] = NoHdr
    OBVIOUS
  <2> QED
    BY <2>1, Nothing DEF Open, Inv, Shaped
<1>3. shm' # shm => writer = None
  <2>1. ASSUME alive = {}, writer # None PROVE FALSE
    <3>1. writer \in Conns /\ LockHeld(writer) /\ pc[writer] = "idle"
      BY <2>1 DEF Inv, Kept, LockHeld
    <3> QED
      BY <3>1 DEF LockHeld, Checkpointing, Writing, Marking, CkptSteps, Headed
  <2> QED
    BY <1>2, <2>1
<1>4. Only(c)
  BY <1>1, <1>2 DEF Only, Inv, Shaped, Same, Domains
<1>5. Kept(c)'
  <2>1. Kept(c) /\ c # None
    BY SomeConn DEF Inv
  <2>2. LockHeld(c)' /\ CacheKept(c)'
    BY <1>1, <2>1 DEF Kept, LockHeld, CacheKept, Fresh, Checkpointing
  <2>3. HeaderShared(c)'
    BY <1>1, <1>3, <2>1 DEF Kept, HeaderShared, LockHeld
  <2> QED
    BY <2>2, <2>3 DEF Kept
<1> QED
  BY <1>1, <1>3, <1>4, <1>5, OneStep

LEMMA GoneKeeps ==
  ASSUME Inv, NEW c \in Conns, setting' = setting, shm' = shm, Forget({c}),
         alive' = alive \ {c}, writer' = Dropped(writer, c)
  PROVE  Inv' /\ Steps(c)
<1>1. c # None
  BY SomeConn
<1>2. Only(c)
  BY ForgetIs, Nothing DEF Only, Inv, Shaped, Domains, Wheres
<1>3. Kept(c)'
  BY <1>1, ForgetIs, Nothing
     DEF Inv, Kept, LockHeld, HeaderShared, CacheKept, Fresh, Checkpointing, Dropped,
         Writing, Marking, CkptSteps, Headed
<1> QED
  BY <1>1, <1>2, <1>3, OneStep DEF Dropped

LEMMA CloseKeeps ==
  ASSUME Inv, NEW c \in Conns, setting' = setting, Close(c) PROVE Inv' /\ Steps(c)
<1>1. writer # c
  BY DEF Close, Inv, Kept, LockHeld, Checkpointing, Writing, Marking, CkptSteps, Headed
<1> QED
  BY <1>1, GoneKeeps DEF Close, Dropped

LEMMA CrashKeeps ==
  ASSUME Inv, NEW c \in Conns, setting' = setting, Crash(c) PROVE Inv' /\ Steps(c)
BY GoneKeeps DEF Crash

LEMMA PowerLossKeeps ==
  ASSUME Inv, setting' = setting, PowerLoss PROVE Inv'
<1>1. Forget(Conns) /\ writer' = None /\ shm' = shm
  BY DEF PowerLoss
<1>2. Shaped'
  BY <1>1, ForgetIs, Nothing DEF Inv, Shaped, Wheres
<1>3. ASSUME NEW c \in Conns PROVE Kept(c)'
  <2>1. c # None
    BY SomeConn
  <2> QED
    BY <1>1, <2>1, ForgetIs, Nothing
       DEF Inv, Kept, LockHeld, HeaderShared, CacheKept, Fresh, Checkpointing,
           Writing, Marking, CkptSteps, Headed
<1> QED
  BY <1>1, <1>2, <1>3 DEF Inv

LEMMA StepKeeps ==
  ASSUME Inv, NEW c \in Conns, setting' = setting, Step(c) PROVE Inv'
<1>1. ASSUME NEW p \in Pages, Modify(c, p) \/ Spill(c, p) PROVE Inv'
  BY <1>1, ModifyKeeps, SpillKeeps
<1> QED
  BY <1>1, ReadFirstKeeps, ReadSecondKeeps, RereadKeeps, RecoverKeeps, RecoverInfoKeeps,
     BeginZeroKeeps, CheckZeroKeeps, ChooseMarkKeeps, LockMarkKeeps, VerifyKeeps, EndReadKeeps,
     BeginWriteKeeps, OpenSavepointKeeps, RollbackToKeeps, RollbackKeeps, CommitKeeps,
     RestartLogKeeps, RestartHeaderKeeps, RestartEndKeeps, WriteLogHeaderKeeps,
     WriteFrameKeeps, RechecksumKeeps, IndexFramesKeeps, PublishKeeps, CkptBeginKeeps,
     CkptStartKeeps, CkptMarkKeeps, CkptPlanKeeps, CkptLockKeeps, CkptSyncKeeps, CkptCopyKeeps,
     CkptFillKeeps, CkptInterruptKeeps, CkptResetKeeps, CkptResetHeaderKeeps,
     CkptTruncateKeeps, CkptEndKeeps
     DEF Step

LEMMA Initially == Init => Inv
<1> SUFFICES ASSUME Init PROVE Inv
  OBVIOUS
<1>1. Shaped
  <2>1. {1, 2} \subseteq DOMAIN << NoHdr, NoHdr >> /\ << NoHdr, NoHdr >>[1] = NoHdr
    OBVIOUS
  <2> QED
    BY <2>1, Nothing DEF Init, Shaped, Wheres
<1>2. ASSUME NEW c \in Conns PROVE Kept(c)
  BY SomeConn, Nothing
     DEF Init, Kept, LockHeld, HeaderShared, CacheKept, Fresh, Checkpointing,
         Writing, Marking, CkptSteps, Headed
<1> QED
  BY <1>1, <1>2 DEF Init, Inv

LEMMA NextKeeps == Inv /\ [Next]_vars => Inv'
<1>1. ASSUME Inv, UNCHANGED vars PROVE Inv'
  <2>1. UNCHANGED << setting, pc, hdr, tmp, cached, ckpt, txn, shm, writer, alive >>
    BY <1>1 DEF vars
  <2> QED
    BY <1>1, <2>1
       DEF Inv, Shaped, Kept, LockHeld, HeaderShared, CacheKept, Fresh, Checkpointing, Modes
<1>2. ASSUME Inv, Next PROVE Inv'
  BY <1>2, OpenKeeps, CloseKeeps, CrashKeeps, PowerLossKeeps, StepKeeps DEF Next
<1> QED
  BY <1>1, <1>2

(* What a connection keeps in its cache is what the header that it reads   *)
(* has committed last, whatever checkpoints of its own, restarts of the    *)
(* log, recoveries and crashes came between (walIndexTryHdr tells whether  *)
(* the header has changed, sqlite3WalCheckpoint forgets it).               *)
THEOREM CacheIsCurrent == Spec => []CacheCurrent
<1>1. Inv => CacheCurrent
  BY DEF Inv, Kept, CacheKept, CacheCurrent
<1> QED
  BY <1>1, Initially, NextKeeps, PTL DEF Spec
-----------------------------------------------------------------------------
(***************************************************************************)
(* Snapshot isolation.                                                     *)
(***************************************************************************)

(* One connection stays at least, and none goes away that holds WRITE: the *)
(* memory that is shared is never made anew from the log.                  *)
Calm ==
  /\ ~PowerLoss
  /\ \A c \in Conns : Close(c) \/ Crash(c) => alive # {c} /\ writer # c

HalfWritten == {"publish", "restarted", "ctrunc"}
Owned(c) == pc[c] \in Writing \cup {"publish"} \/ (writer = c /\ pc[c] \in Marking)

(* The copies of the header differ only while one of them is written.      *)
Copies ==
  /\ \A c \in Conns : pc[c] \in HalfWritten => shm[2] = hdr[c]
  /\ (\A c \in Conns : pc[c] \notin HalfWritten) => shm[1] = shm[2]

(* Before the first connection has recovered the header, nothing has       *)
(* happened.                                                               *)
NothingYet ==
  /\ alive = {} => shm[1] = NoHdr
  /\ shm[1] = NoHdr =>
       /\ db = NoPages /\ wal.salt = 0 /\ committed = 0
       /\ hist = [t \in 0 .. MaxTxn |-> IF t = 0 THEN NoPages ELSE << >>]
       /\ \A c \in Conns : tmp[c] = NoHdr /\ pc[c] \in {"idle", "chdr", "second", "dirty", "recover"}

(* The header shows the last commit.                                       *)
LastShown ==
  /\ committed \in Nat /\ txns \in 0 .. MaxTxn /\ committed <= txns
  /\ shm[1] # NoHdr => shm[1].last = committed

(* A transaction is younger than the last commit.                          *)
Younger(c) ==
  /\ txn[c] \in Nat
  /\ txn[c] # 0 <=> Owned(c)
  /\ txn[c] # 0 => committed < txn[c] /\ txn[c] <= txns

(* Only the header that is missing is recovered, and a checkpoint that     *)
(* keeps writers out has the header that there is.                         *)
HeaderKnown(c) ==
  /\ pc[c] = "recover" => shm[1] = NoHdr
  /\ pc[c] = "recovered" => hdr[c] = shm[1]
  /\ ckpt[c].mode \notin {"none", "passive"} =>
       /\ pc[c] = "second" => tmp[c] = shm[1]
       /\ pc[c] \in CkptSteps \ {"chdr"} => hdr[c].last = shm[1].last

Order == Copies /\ NothingYet /\ LastShown /\ \A c \in Conns : Younger(c) /\ HeaderKnown(c)

(* What a step of one connection has to show.                              *)
Effect(c) ==
  /\ alive' # {}
  /\ pc'[c] \in HalfWritten => shm'[2] = hdr'[c]
  /\ pc'[c] \notin HalfWritten =>
       \/ shm'[1] = shm'[2]
       \/ pc[c] \notin HalfWritten /\ shm'[1] = shm[1] /\ shm'[2] = shm[2]
  /\ writer = c \/ (shm'[1] = shm[1] /\ shm'[2] = shm[2] /\ committed' = committed)
  /\ shm'[1] = NoHdr =>
       /\ shm[1] = NoHdr /\ UNCHANGED << db, wal, committed, hist >>
       /\ tmp'[c] = NoHdr /\ pc'[c] \in {"idle", "chdr", "second", "dirty", "recover"}
  /\ LastShown' /\ txns <= txns'

Shows(c) ==
  \/ /\ committed' = committed
     /\ Snapshot(c)' \in {Snapshot(c), -1} \/ (Snapshot(c) = -1 /\ Snapshot(c)' = committed)
  \/ /\ Snapshot(c) = committed /\ Snapshot(c)' = committed'
     /\ committed < committed' /\ committed' <= MaxTxn

Ordered(c) ==
  /\ Order'
  /\ \A d \in Conns \ {c} : Snapshot(d)' = Snapshot(d)
  /\ Shows(c)

LEMMA OneOrder ==
  ASSUME Inv, Order, NEW c \in Conns, Inv', Steps(c), Effect(c), Younger(c)', HeaderKnown(c)',
         Shows(c)
  PROVE  Ordered(c)
<1>1. \A d \in Conns : d # None
  BY SomeConn
<1>2. ASSUME NEW d \in Conns \ {c}
      PROVE  /\ Same(d) /\ (writer' = d <=> writer = d)
             /\ writer = d => shm'[1] = shm[1] /\ shm'[2] = shm[2] /\ committed' = committed
             /\ LockHeld(d) /\ LockHeld(d)' /\ Younger(d) /\ HeaderKnown(d)
  BY <1>1 DEF Steps, Only, Effect, Inv, Kept, Order
<1>3. ASSUME NEW d \in Conns \ {c} PROVE Younger(d)'
  <2>1. Owned(d) <=> Owned(d)'
    BY <1>2 DEF Same, Owned
  <2>2. Owned(d) => writer = d
    BY <1>2 DEF LockHeld, Owned
  <2>3. txns <= txns' /\ txns \in Nat /\ txns' \in Nat
    BY WalAssumption DEF Effect, LastShown, Order, Inv, Shaped, Steps, MaxTxn, Setting
  <2>4. txn'[d] = txn[d] /\ Younger(d)
    BY <1>2 DEF Same
  <2>5. txn[d] # 0 => committed' = committed
    BY <1>2, <2>2, <2>4 DEF Younger
  <2> QED
    BY <2>1, <2>3, <2>4, <2>5 DEF Younger
<1>4. ASSUME NEW d \in Conns \ {c} PROVE HeaderKnown(d)'
  BY <1>2 DEF HeaderKnown, Same, LockHeld
<1>5. Copies'
  <2>1. ASSUME NEW d \in Conns, pc'[d] \in HalfWritten PROVE shm'[2] = hdr'[d]
    <3>1. CASE d = c
      BY <2>1, <3>1 DEF Effect
    <3>2. CASE d # c
      BY <1>2, <2>1, <3>2 DEF Order, Copies, Same, LockHeld, HalfWritten, Writing
    <3> QED
      BY <3>1, <3>2
  <2>2. ASSUME \A d \in Conns : pc'[d] \notin HalfWritten PROVE shm'[1] = shm'[2]
    <3>1. \A d \in Conns \ {c} : pc[d] \notin HalfWritten
      BY <1>2, <2>2 DEF Same
    <3> QED
      BY <2>2, <3>1 DEF Effect, Order, Copies
  <2> QED
    BY <2>1, <2>2 DEF Copies
<1>6. NothingYet'
  <2>1. MaxTxn' = MaxTxn
    BY DEF Steps, MaxTxn
  <2> QED
    BY <1>2, <2>1 DEF Effect, Order, NothingYet, Same
<1>7. ASSUME NEW d \in Conns \ {c} PROVE Snapshot(d)' = Snapshot(d)
  <2>1. pc[d] = "publish" => writer = d
    BY <1>2 DEF LockHeld
  <2> QED
    BY <1>2, <2>1 DEF Snapshot, Same
<1>8. Younger(c)' /\ HeaderKnown(c)' /\ LastShown' /\ Shows(c)
  BY DEF Effect
<1> QED
  BY <1>3, <1>4, <1>5, <1>6, <1>7, <1>8 DEF Ordered, Order

LEMMA Quiet ==
  ASSUME Order, NEW c \in Conns, UNCHANGED << setting, shm, committed, txns >>, alive' # {},
         pc[c] \notin HalfWritten, pc'[c] \notin HalfWritten,
         \/ shm[1] # NoHdr
         \/ /\ UNCHANGED << db, wal, hist >> /\ tmp'[c] = NoHdr
            /\ pc'[c] \in {"idle", "chdr", "second", "dirty", "recover"}
  PROVE  Effect(c)
<1>1. LastShown'
  BY DEF Order, LastShown, MaxTxn
<1>2. txns <= txns'
  BY WalAssumption DEF Order, LastShown
<1> QED
  BY <1>1, <1>2 DEF Effect

LEMMA MaxZero == Max({0}) = 0
<1>1. Max({0}) = CHOOSE x \in {0} : \A y \in {0} : y <= x
  BY DEF Max
<1>2. \A x : (x \in {0} /\ \A y \in {0} : y <= x) <=> x = 0
  OBVIOUS
<1> QED
  BY <1>1, <1>2

(* What is recovered from an empty log is the database as it was created.  *)
LEMMA EmptyRecovered ==
  ASSUME Inv, shm[1] = NoHdr, Order
  PROVE  Recovered(wal).last = 0
<1>1. /\ wal.salt = 0 /\ db = NoPages /\ MaxTxn \in Nat
      /\ hist = [t \in 0 .. MaxTxn |-> IF t = 0 THEN NoPages ELSE << >>]
  BY WalAssumption DEF Order, NothingYet, Inv, Shaped, MaxTxn, Setting
<1>2. Whole(wal) = 0
  BY <1>1 DEF Whole
<1>3. NoPages # << >>
  <2>1. DOMAIN NoPages = 1 .. NPages
    BY DEF NoPages, Pages
  <2>2. 1 \in 1 .. NPages
    BY WalAssumption
  <2>3. DOMAIN << >> = {}
    OBVIOUS
  <2> QED
    BY <2>1, <2>2, <2>3
<1>4. {t \in 0 .. MaxTxn : hist[t] = db} = {0}
  <2>1. \A t \in 0 .. MaxTxn : hist[t] = db <=> t = 0
    BY <1>1, <1>3
  <2> QED
    BY <1>1, <2>1
<1>5. StateOf(db) = 0
  <2>1. {0} \cup {0} = {0}
    OBVIOUS
  <2> QED
    BY <1>4, <2>1, MaxZero DEF StateOf, LastOf
<1>6. Recovered(wal).last = StateOf(db)
  BY <1>2 DEF Recovered
<1> QED
  BY <1>5, <1>6

LEMMA ReadFirstOrder ==
  ASSUME Inv, Order, NEW c \in Conns, setting' = setting, ReadFirst(c) PROVE Ordered(c)
<1>1. Inv' /\ Steps(c)
  BY ReadFirstKeeps
<1>2. Effect(c)
  BY DEF ReadFirst, Effect, Inv, Shaped, Kept, LockHeld, Order, Copies, NothingYet, LastShown,
         HalfWritten, Writing, MaxTxn
<1>3. Younger(c)'
  BY DEF ReadFirst, Inv, Shaped, Kept, LockHeld, Order, Younger, Owned, Writing, Marking
<1>4. HeaderKnown(c)'
  BY DEF ReadFirst, Inv, Shaped, IsCkpt, IsHdr, Kept, LockHeld, Order, HeaderKnown, CkptSteps
<1>5. Shows(c)
  BY DEF ReadFirst, Inv, Shaped, Kept, LockHeld, HeaderShared, Order, LastShown, NothingYet,
         Younger, Owned, Shows, Snapshot, Writing, Marking
<1> QED
  BY <1>1, <1>2, <1>3, <1>4, <1>5, OneOrder

LEMMA ReadSecondOrder ==
  ASSUME Inv, Order, NEW c \in Conns, setting' = setting, ReadSecond(c) PROVE Ordered(c)
<1>1. Inv' /\ Steps(c)
  BY ReadSecondKeeps
<1>2. Effect(c)
  BY DEF ReadSecond, TakeHeader, Effect, Inv, Shaped, Kept, LockHeld, Order, Copies,
         NothingYet, LastShown, HalfWritten, Writing, MaxTxn
<1>3. Younger(c)'
  BY SomeConn DEF ReadSecond, TakeHeader, Inv, Shaped, Kept, LockHeld, Order, Younger, Owned,
         Writing, Marking, Checkpointing
<1>4. HeaderKnown(c)'
  BY DEF ReadSecond, TakeHeader, Inv, Shaped, IsCkpt, IsHdr, Kept, LockHeld, Order,
         HeaderKnown, CkptSteps
<1>5. Shows(c)
  BY DEF ReadSecond, TakeHeader, Inv, Shaped, Kept, LockHeld, HeaderShared, Order, LastShown,
         NothingYet, Younger, Owned, Shows, Snapshot, Writing, Marking
<1> QED
  BY <1>1, <1>2, <1>3, <1>4, <1>5, OneOrder

LEMMA RereadOrder ==
  ASSUME Inv, Order, NEW c \in Conns, setting' = setting, Reread(c) PROVE Ordered(c)
<1>1. Inv' /\ Steps(c)
  BY RereadKeeps
<1>6. pc[c] = "dirty" /\ c \in alive /\ c # None /\ Kept(c)
      /\ UNCHANGED << setting, alive, shm, tmp, txn, committed, txns, db, wal, hist >>
  BY SomeConn DEF Reread, Inv
<1>7. Free(writer, c) => shm[1] = shm[2]
  <2>1. ASSUME Free(writer, c), NEW d \in Conns PROVE pc[d] \notin HalfWritten
    <3>1. d # None /\ LockHeld(d)
      BY SomeConn DEF Inv, Kept
    <3> QED
      BY <1>6, <2>1, <3>1 DEF Free, LockHeld, HalfWritten, Writing
  <2> QED
    BY <2>1 DEF Order, Copies
<1>2. Effect(c)
  BY DEF Reread, TakeHeader, GiveUp, Free, Dropped, Effect, Inv, Shaped, Kept, LockHeld, Order,
         Copies, NothingYet, LastShown, HalfWritten, Writing, MaxTxn
<1>3. Younger(c)'
  BY SomeConn DEF Reread, TakeHeader, GiveUp, Free, Dropped, Inv, Shaped, Kept, LockHeld,
         Order, Younger, Owned, Writing, Marking, Checkpointing
<1>4. HeaderKnown(c)'
  <2>1. CASE Free(writer, c) /\ (shm[1] = shm[2] /\ shm[1] # NoHdr)
    <3>1. TakeHeader(c, shm[1])
      BY <2>1 DEF Reread
    <3>2. hdr'[c] = shm[1] /\ pc'[c] \in {"ckpt", "begin"}
      BY <3>1, TakesHeader DEF Inv
    <3> QED
      BY <1>6, <3>2 DEF HeaderKnown, CkptSteps
  <2>2. CASE ~(Free(writer, c) /\ (shm[1] = shm[2] /\ shm[1] # NoHdr))
             /\ Free(writer, c) /\ Free(ckpter, c)
    <3>1. pc'[c] = "recover"
      BY <2>2 DEF Reread, Inv, Shaped
    <3> QED
      BY <1>6, <1>7, <2>2, <3>1 DEF HeaderKnown, CkptSteps
  <2>3. CASE ~(Free(writer, c) /\ (shm[1] = shm[2] /\ shm[1] # NoHdr))
             /\ ~(Free(writer, c) /\ Free(ckpter, c))
    <3>1. pc'[c] = "idle"
      BY <2>3 DEF Reread, GiveUp, Inv, Shaped
    <3> QED
      BY <1>6, <3>1 DEF HeaderKnown, CkptSteps
  <2> QED
    BY <2>1, <2>2, <2>3
<1>5. Shows(c)
  BY DEF Reread, TakeHeader, GiveUp, Free, Dropped, Inv, Shaped, Kept, LockHeld, HeaderShared,
         Order, LastShown, NothingYet, Younger, Owned, Shows, Snapshot, Writing, Marking
<1> QED
  BY <1>1, <1>2, <1>3, <1>4, <1>5, OneOrder

LEMMA RecoverOrder ==
  ASSUME Inv, Order, NEW c \in Conns, setting' = setting, Recover(c) PROVE Ordered(c)
<1>1. Inv' /\ Steps(c)
  BY RecoverKeeps
<1> DEFINE h == Recovered(wal)
<1>6. IsHdr(h)
  BY DEF Recovered, IsHdr
<1>7. /\ pc[c] = "recover" /\ pc' = [pc EXCEPT ![c] = "recovered"] /\ shm' = << h, h >>
      /\ hdr' = [hdr EXCEPT ![c] = h] /\ committed' = Max({committed, h.last})
      /\ UNCHANGED << setting, writer, alive, tmp, cached, txn, ckpt, txns >> /\ c \in alive
  BY DEF Recover
<1>8. shm'[1] = h /\ shm'[2] = h
  BY <1>7
<1>9. writer = c
  BY <1>7 DEF Inv, Kept, LockHeld
<1>10. h.last = 0 /\ committed = 0 /\ shm[1] = NoHdr
  BY <1>7, EmptyRecovered DEF Order, HeaderKnown, NothingYet
<1>11. committed' = 0
  <2>1. {0, 0} = {0}
    OBVIOUS
  <2> QED
    BY <1>7, <1>10, <2>1, MaxZero
<1> HIDE DEF h
<1>12. /\ hdr'[c] = h /\ pc'[c] = "recovered" /\ h # NoHdr /\ txn'[c] = txn[c]
       /\ ckpt'[c] = ckpt[c] /\ MaxTxn' = MaxTxn
  BY <1>7, <1>10 DEF Inv, Shaped, NoHdr, MaxTxn
<1>2. Effect(c)
  BY <1>7, <1>8, <1>9, <1>10, <1>11, <1>12 DEF Effect, Order, LastShown, HalfWritten
<1>3. Younger(c)'
  BY <1>7, <1>9, <1>10, <1>11, <1>12 DEF Order, Younger, Owned, Writing, Marking
<1>4. HeaderKnown(c)'
  BY <1>7, <1>8, <1>12 DEF HeaderKnown, CkptSteps
<1>5. Shows(c)
  BY <1>7, <1>9, <1>10, <1>11, <1>12
     DEF Order, Younger, Owned, Shows, Snapshot, Writing, Marking
<1> QED
  BY <1>1, <1>2, <1>3, <1>4, <1>5, OneOrder

LEMMA RecoverInfoOrder ==
  ASSUME Inv, Order, NEW c \in Conns, setting' = setting, RecoverInfo(c) PROVE Ordered(c)
<1>1. Inv' /\ Steps(c)
  BY RecoverInfoKeeps
<1>2. Effect(c)
  <2>1. /\ UNCHANGED << setting, shm, committed, txns >> /\ alive' # {}
        /\ pc[c] \notin HalfWritten /\ pc'[c] \notin HalfWritten
    BY DEF RecoverInfo, Inv, Shaped, HalfWritten
  <2>2. shm[1] # NoHdr
    BY DEF RecoverInfo, Order, NothingYet
  <2> QED
    BY <2>1, <2>2, Quiet
<1>3. Younger(c)'
  BY SomeConn DEF RecoverInfo, Inv, Shaped, Kept, LockHeld, Order, Younger, Owned, Writing,
         Marking, Checkpointing
<1>4. HeaderKnown(c)'
  BY DEF RecoverInfo, Inv, Shaped, IsCkpt, IsHdr, Kept, LockHeld, Order, HeaderKnown, CkptSteps
<1>5. Shows(c)
  BY DEF RecoverInfo, Inv, Shaped, Kept, LockHeld, HeaderShared, Order, LastShown, NothingYet,
         Younger, Owned, Shows, Snapshot, Writing, Marking
<1> QED
  BY <1>1, <1>2, <1>3, <1>4, <1>5, OneOrder

LEMMA BeginZeroOrder ==
  ASSUME Inv, Order, NEW c \in Conns, setting' = setting, BeginZero(c) PROVE Ordered(c)
<1>1. Inv' /\ Steps(c)
  BY BeginZeroKeeps
<1>2. Effect(c)
  <2>1. /\ UNCHANGED << setting, shm, committed, txns >> /\ alive' # {}
        /\ pc[c] \notin HalfWritten /\ pc'[c] \notin HalfWritten
    BY DEF BeginZero, Inv, Shaped, HalfWritten
  <2>2. shm[1] # NoHdr
    BY DEF BeginZero, Order, NothingYet
  <2> QED
    BY <2>1, <2>2, Quiet
<1>3. Younger(c)'
  BY DEF BeginZero, Inv, Shaped, Kept, LockHeld, Order, Younger, Owned, Writing, Marking
<1>4. HeaderKnown(c)'
  BY DEF BeginZero, Inv, Shaped, IsCkpt, IsHdr, Kept, LockHeld, Order, HeaderKnown, CkptSteps
<1>5. Shows(c)
  BY DEF BeginZero, Inv, Shaped, Kept, LockHeld, HeaderShared, Order, LastShown, NothingYet,
         Younger, Owned, Shows, Snapshot, Writing, Marking
<1> QED
  BY <1>1, <1>2, <1>3, <1>4, <1>5, OneOrder

LEMMA CheckZeroOrder ==
  ASSUME Inv, Order, NEW c \in Conns, setting' = setting, CheckZero(c) PROVE Ordered(c)
<1>1. Inv' /\ Steps(c)
  BY CheckZeroKeeps
<1>2. Effect(c)
  <2>1. /\ UNCHANGED << setting, shm, committed, txns >> /\ alive' # {}
        /\ pc[c] \notin HalfWritten /\ pc'[c] \notin HalfWritten
    BY DEF CheckZero, Retry, GiveUp, Inv, Shaped, HalfWritten
  <2>2. shm[1] # NoHdr
    BY DEF CheckZero, Order, NothingYet
  <2> QED
    BY <2>1, <2>2, Quiet
<1>3. Younger(c)'
  BY SomeConn DEF CheckZero, Retry, GiveUp, Inv, Shaped, Kept, LockHeld, Order, Younger, Owned,
         Writing, Marking, Checkpointing, CkptSteps, Headed
<1>4. HeaderKnown(c)'
  BY DEF CheckZero, Retry, GiveUp, Inv, Shaped, IsCkpt, IsHdr, Kept, LockHeld, Order,
         HeaderKnown, CkptSteps
<1>5. Shows(c)
  BY DEF CheckZero, Retry, GiveUp, Inv, Shaped, Kept, LockHeld, HeaderShared, Order, LastShown,
         NothingYet, Younger, Owned, Shows, Snapshot, Writing, Marking
<1> QED
  BY <1>1, <1>2, <1>3, <1>4, <1>5, OneOrder

LEMMA ChooseMarkOrder ==
  ASSUME Inv, Order, NEW c \in Conns, setting' = setting, ChooseMark(c) PROVE Ordered(c)
<1>1. Inv' /\ Steps(c)
  BY ChooseMarkKeeps
<1>2. Effect(c)
  <2>1. /\ UNCHANGED << setting, shm, committed, txns >> /\ alive' # {}
        /\ pc[c] \notin HalfWritten /\ pc'[c] \notin HalfWritten
    BY DEF ChooseMark, Retry, GiveUp, Inv, Shaped, HalfWritten
  <2>2. shm[1] # NoHdr
    BY DEF ChooseMark, Order, NothingYet
  <2> QED
    BY <2>1, <2>2, Quiet
<1>3. Younger(c)'
  BY DEF ChooseMark, Retry, GiveUp, Inv, Shaped, Kept, LockHeld, Order, Younger, Owned,
         Writing, Marking
<1>4. HeaderKnown(c)'
  BY DEF ChooseMark, Retry, GiveUp, Inv, Shaped, IsCkpt, IsHdr, Kept, LockHeld, Order,
         HeaderKnown, CkptSteps
<1>5. Shows(c)
  BY DEF ChooseMark, Retry, GiveUp, Inv, Shaped, Kept, LockHeld, HeaderShared, Order,
         LastShown, NothingYet, Younger, Owned, Shows, Snapshot, Writing, Marking
<1> QED
  BY <1>1, <1>2, <1>3, <1>4, <1>5, OneOrder

LEMMA LockMarkOrder ==
  ASSUME Inv, Order, NEW c \in Conns, setting' = setting, LockMark(c) PROVE Ordered(c)
<1>1. Inv' /\ Steps(c)
  BY LockMarkKeeps
<1>2. Effect(c)
  <2>1. /\ UNCHANGED << setting, shm, committed, txns >> /\ alive' # {}
        /\ pc[c] \notin HalfWritten /\ pc'[c] \notin HalfWritten
    BY DEF LockMark, Retry, GiveUp, Inv, Shaped, HalfWritten
  <2>2. shm[1] # NoHdr
    BY DEF LockMark, Order, NothingYet
  <2> QED
    BY <2>1, <2>2, Quiet
<1>3. Younger(c)'
  BY DEF LockMark, Retry, GiveUp, Inv, Shaped, Kept, LockHeld, Order, Younger, Owned, Writing,
         Marking
<1>4. HeaderKnown(c)'
  BY DEF LockMark, Retry, GiveUp, Inv, Shaped, IsCkpt, IsHdr, Kept, LockHeld, Order,
         HeaderKnown, CkptSteps
<1>5. Shows(c)
  BY DEF LockMark, Retry, GiveUp, Inv, Shaped, Kept, LockHeld, HeaderShared, Order, LastShown,
         NothingYet, Younger, Owned, Shows, Snapshot, Writing, Marking
<1> QED
  BY <1>1, <1>2, <1>3, <1>4, <1>5, OneOrder

LEMMA VerifyOrder ==
  ASSUME Inv, Order, NEW c \in Conns, setting' = setting, Verify(c) PROVE Ordered(c)
<1>1. Inv' /\ Steps(c)
  BY VerifyKeeps
<1>2. Effect(c)
  <2>1. /\ UNCHANGED << setting, shm, committed, txns >> /\ alive' # {}
        /\ pc[c] \notin HalfWritten /\ pc'[c] \notin HalfWritten
    BY DEF Verify, Retry, GiveUp, Admit, Inv, Shaped, HalfWritten
  <2>2. shm[1] # NoHdr
    BY DEF Verify, Order, NothingYet
  <2> QED
    BY <2>1, <2>2, Quiet
<1>3. Younger(c)'
  BY DEF Verify, Retry, GiveUp, Admit, Inv, Shaped, Kept, LockHeld, Order, Younger, Owned,
         Writing, Marking
<1>4. HeaderKnown(c)'
  BY DEF Verify, Retry, GiveUp, Admit, Inv, Shaped, IsCkpt, IsHdr, Kept, LockHeld, Order,
         HeaderKnown, CkptSteps
<1>5. Shows(c)
  BY DEF Verify, Retry, GiveUp, Admit, Inv, Shaped, Kept, LockHeld, HeaderShared, Order,
         LastShown, NothingYet, Younger, Owned, Shows, Snapshot, Writing, Marking
<1> QED
  BY <1>1, <1>2, <1>3, <1>4, <1>5, OneOrder

LEMMA EndReadOrder ==
  ASSUME Inv, Order, NEW c \in Conns, setting' = setting, EndRead(c) PROVE Ordered(c)
<1>1. Inv' /\ Steps(c)
  BY EndReadKeeps
<1>2. Effect(c)
  <2>1. /\ UNCHANGED << setting, shm, committed, txns >> /\ alive' # {}
        /\ pc[c] \notin HalfWritten /\ pc'[c] \notin HalfWritten
    BY DEF EndRead, Inv, Shaped, HalfWritten
  <2>2. shm[1] # NoHdr
    BY DEF EndRead, Order, NothingYet
  <2> QED
    BY <2>1, <2>2, Quiet
<1>3. Younger(c)'
  BY DEF EndRead, Inv, Shaped, Kept, LockHeld, Order, Younger, Owned, Writing, Marking
<1>4. HeaderKnown(c)'
  BY DEF EndRead, Inv, Shaped, IsCkpt, IsHdr, Kept, LockHeld, Order, HeaderKnown, CkptSteps
<1>5. Shows(c)
  BY DEF EndRead, Inv, Shaped, Kept, LockHeld, HeaderShared, Order, LastShown, NothingYet,
         Younger, Owned, Shows, Snapshot, Writing, Marking
<1> QED
  BY <1>1, <1>2, <1>3, <1>4, <1>5, OneOrder

LEMMA BeginWriteOrder ==
  ASSUME Inv, Order, NEW c \in Conns, setting' = setting, BeginWrite(c) PROVE Ordered(c)
<1>1. Inv' /\ Steps(c)
  BY BeginWriteKeeps
<1>6. /\ pc[c] = "read" /\ pc' = [pc EXCEPT ![c] = "write"] /\ c \in alive /\ shm[1] = hdr[c]
      /\ txns' = txns + 1 /\ txns < MaxTxn /\ txn' = [txn EXCEPT ![c] = txns'] /\ writer' = c
      /\ UNCHANGED << setting, alive, shm, hdr, tmp, cached, ckpt, committed, hist >>
  BY DEF BeginWrite
<1>7. /\ MaxTxn' = MaxTxn /\ MaxTxn \in Nat /\ txn'[c] = txns + 1 /\ pc'[c] = "write"
      /\ ckpt'[c] = ckpt[c] /\ hdr'[c] = hdr[c]
  BY <1>6, WalAssumption DEF Inv, Shaped, MaxTxn, Setting
<1>8. shm[1] # NoHdr
  BY <1>6 DEF Order, NothingYet
<1>9. LastShown'
  BY <1>6, <1>7 DEF Order, LastShown
<1>2. Effect(c)
  BY <1>6, <1>7, <1>8, <1>9 DEF Effect, Order, LastShown, HalfWritten
<1>3. Younger(c)'
  BY <1>6, <1>7 DEF Order, LastShown, Younger, Owned, Writing, Marking
<1>4. HeaderKnown(c)'
  BY <1>1, <1>6, <1>7 DEF HeaderKnown, CkptSteps
<1>5. Shows(c)
  BY <1>6, <1>7, <1>8 DEF Order, LastShown, Shows, Snapshot
<1> QED
  BY <1>1, <1>2, <1>3, <1>4, <1>5, OneOrder

LEMMA ModifyOrder ==
  ASSUME Inv, Order, NEW c \in Conns, NEW p \in Pages, setting' = setting, Modify(c,
         p) PROVE Ordered(c)
<1>1. Inv' /\ Steps(c)
  BY ModifyKeeps
<1>2. Effect(c)
  <2>1. /\ UNCHANGED << setting, shm, committed, txns >> /\ alive' # {}
        /\ pc[c] \notin HalfWritten /\ pc'[c] \notin HalfWritten
    BY DEF Modify, Inv, Shaped, HalfWritten
  <2>2. shm[1] # NoHdr
    BY DEF Modify, Order, NothingYet
  <2> QED
    BY <2>1, <2>2, Quiet
<1>3. Younger(c)'
  BY DEF Modify, Inv, Shaped, Kept, LockHeld, Order, Younger, Owned, Writing, Marking
<1>4. HeaderKnown(c)'
  BY DEF Modify, Inv, Shaped, IsCkpt, IsHdr, Kept, LockHeld, Order, HeaderKnown, CkptSteps
<1>5. Shows(c)
  BY DEF Modify, Inv, Shaped, Kept, LockHeld, HeaderShared, Order, LastShown, NothingYet,
         Younger, Owned, Shows, Snapshot, Writing, Marking
<1> QED
  BY <1>1, <1>2, <1>3, <1>4, <1>5, OneOrder

LEMMA OpenSavepointOrder ==
  ASSUME Inv, Order, NEW c \in Conns, setting' = setting, OpenSavepoint(c) PROVE Ordered(c)
<1>1. Inv' /\ Steps(c)
  BY OpenSavepointKeeps
<1>2. Effect(c)
  <2>1. /\ UNCHANGED << setting, shm, committed, txns >> /\ alive' # {}
        /\ pc[c] \notin HalfWritten /\ pc'[c] \notin HalfWritten
    BY DEF OpenSavepoint, Inv, Shaped, HalfWritten
  <2>2. shm[1] # NoHdr
    BY DEF OpenSavepoint, Order, NothingYet
  <2> QED
    BY <2>1, <2>2, Quiet
<1>3. Younger(c)'
  BY DEF OpenSavepoint, Inv, Shaped, Kept, LockHeld, Order, Younger, Owned, Writing, Marking
<1>4. HeaderKnown(c)'
  BY DEF OpenSavepoint, Inv, Shaped, IsCkpt, IsHdr, Kept, LockHeld, Order, HeaderKnown,
         CkptSteps
<1>5. Shows(c)
  BY DEF OpenSavepoint, Inv, Shaped, Kept, LockHeld, HeaderShared, Order, LastShown,
         NothingYet, Younger, Owned, Shows, Snapshot, Writing, Marking
<1> QED
  BY <1>1, <1>2, <1>3, <1>4, <1>5, OneOrder

LEMMA RollbackToOrder ==
  ASSUME Inv, Order, NEW c \in Conns, setting' = setting, RollbackTo(c) PROVE Ordered(c)
<1>1. Inv' /\ Steps(c)
  BY RollbackToKeeps
<1>2. Effect(c)
  <2>1. /\ UNCHANGED << setting, shm, committed, txns >> /\ alive' # {}
        /\ pc[c] \notin HalfWritten /\ pc'[c] \notin HalfWritten
    BY DEF RollbackTo, UndoTo, Inv, Shaped, HalfWritten
  <2>2. shm[1] # NoHdr
    BY DEF RollbackTo, Order, NothingYet
  <2> QED
    BY <2>1, <2>2, Quiet
<1>3. Younger(c)'
  BY DEF RollbackTo, UndoTo, Inv, Shaped, Kept, LockHeld, Order, Younger, Owned, Writing,
         Marking
<1>4. HeaderKnown(c)'
  BY DEF RollbackTo, UndoTo, Inv, Shaped, IsCkpt, IsHdr, Kept, LockHeld, Order, HeaderKnown,
         CkptSteps
<1>5. Shows(c)
  BY DEF RollbackTo, UndoTo, Inv, Shaped, Kept, LockHeld, HeaderShared, Order, LastShown,
         NothingYet, Younger, Owned, Shows, Snapshot, Writing, Marking
<1> QED
  BY <1>1, <1>2, <1>3, <1>4, <1>5, OneOrder

LEMMA RollbackOrder ==
  ASSUME Inv, Order, NEW c \in Conns, setting' = setting, Rollback(c) PROVE Ordered(c)
<1>1. Inv' /\ Steps(c)
  BY RollbackKeeps
<1>2. Effect(c)
  <2>1. /\ UNCHANGED << setting, shm, committed, txns >> /\ alive' # {}
        /\ pc[c] \notin HalfWritten /\ pc'[c] \notin HalfWritten
    BY DEF Rollback, EndTransaction, Inv, Shaped, HalfWritten
  <2>2. shm[1] # NoHdr
    BY DEF Rollback, Order, NothingYet
  <2> QED
    BY <2>1, <2>2, Quiet
<1>3. Younger(c)'
  BY DEF Rollback, EndTransaction, Inv, Shaped, Kept, LockHeld, Order, Younger, Owned, Writing,
         Marking
<1>4. HeaderKnown(c)'
  BY DEF Rollback, EndTransaction, Inv, Shaped, IsCkpt, IsHdr, Kept, LockHeld, Order,
         HeaderKnown, CkptSteps
<1>5. Shows(c)
  BY DEF Rollback, EndTransaction, Inv, Shaped, Kept, LockHeld, HeaderShared, Order, LastShown,
         NothingYet, Younger, Owned, Shows, Snapshot, Writing, Marking
<1> QED
  BY <1>1, <1>2, <1>3, <1>4, <1>5, OneOrder

LEMMA CommitOrder ==
  ASSUME Inv, Order, NEW c \in Conns, setting' = setting, Commit(c) PROVE Ordered(c)
<1>1. Inv' /\ Steps(c)
  BY CommitKeeps
<1>2. Effect(c)
  <2>1. /\ UNCHANGED << setting, shm, committed, txns >> /\ alive' # {}
        /\ pc[c] \notin HalfWritten /\ pc'[c] \notin HalfWritten
    BY DEF Commit, StartFrames, Inv, Shaped, HalfWritten
  <2>2. shm[1] # NoHdr
    BY DEF Commit, Order, NothingYet
  <2> QED
    BY <2>1, <2>2, Quiet
<1>3. Younger(c)'
  BY DEF Commit, StartFrames, Inv, Shaped, Kept, LockHeld, Order, Younger, Owned, Writing,
         Marking
<1>4. HeaderKnown(c)'
  BY DEF Commit, StartFrames, Inv, Shaped, IsCkpt, IsHdr, Kept, LockHeld, Order, HeaderKnown,
         CkptSteps
<1>5. Shows(c)
  BY DEF Commit, StartFrames, Inv, Shaped, Kept, LockHeld, HeaderShared, Order, LastShown,
         NothingYet, Younger, Owned, Shows, Snapshot, Writing, Marking
<1> QED
  BY <1>1, <1>2, <1>3, <1>4, <1>5, OneOrder

LEMMA SpillOrder ==
  ASSUME Inv, Order, NEW c \in Conns, NEW p \in Pages, setting' = setting, Spill(c,
         p) PROVE Ordered(c)
<1>1. Inv' /\ Steps(c)
  BY SpillKeeps
<1>2. Effect(c)
  <2>1. /\ UNCHANGED << setting, shm, committed, txns >> /\ alive' # {}
        /\ pc[c] \notin HalfWritten /\ pc'[c] \notin HalfWritten
    BY DEF Spill, StartFrames, Inv, Shaped, HalfWritten
  <2>2. shm[1] # NoHdr
    BY DEF Spill, Order, NothingYet
  <2> QED
    BY <2>1, <2>2, Quiet
<1>3. Younger(c)'
  BY DEF Spill, StartFrames, Inv, Shaped, Kept, LockHeld, Order, Younger, Owned, Writing,
         Marking
<1>4. HeaderKnown(c)'
  BY DEF Spill, StartFrames, Inv, Shaped, IsCkpt, IsHdr, Kept, LockHeld, Order, HeaderKnown,
         CkptSteps
<1>5. Shows(c)
  BY DEF Spill, StartFrames, Inv, Shaped, Kept, LockHeld, HeaderShared, Order, LastShown,
         NothingYet, Younger, Owned, Shows, Snapshot, Writing, Marking
<1> QED
  BY <1>1, <1>2, <1>3, <1>4, <1>5, OneOrder

LEMMA RestartLogOrder ==
  ASSUME Inv, Order, NEW c \in Conns, setting' = setting, RestartLog(c) PROVE Ordered(c)
<1>1. Inv' /\ Steps(c)
  BY RestartLogKeeps
<1>6. pc[c] = "restart" /\ writer = c /\ c \in alive /\ shm[1] # NoHdr /\ IsHdr(hdr[c])
      /\ UNCHANGED << setting, writer, alive, tmp, cached, ckpt, txn, committed, txns >>
  BY DEF RestartLog, Inv, Kept, LockHeld, Writing, Shaped, Order, NothingYet
<1>7. CASE nBackfill > 0 /\ MarksFree(c)
  <2> DEFINE h == Restarted(hdr[c], FreshSalt)
  <2>1. h.last = hdr[c].last
    BY <1>6, HeaderParts
  <2>2. /\ hdr' = [hdr EXCEPT ![c] = h] /\ shm' = [shm EXCEPT ![2] = h]
        /\ pc' = [pc EXCEPT ![c] = "restarted"]
    BY <1>7 DEF RestartLog
  <2> HIDE DEF h
  <2>3. /\ hdr'[c] = h /\ pc'[c] = "restarted" /\ shm'[1] = shm[1] /\ shm'[2] = h
    BY <2>2 DEF Inv, Shaped
  <2>4. LastShown' /\ txns <= txns'
    BY <1>6, <2>3, WalAssumption DEF Order, LastShown, MaxTxn
  <2>5. Effect(c)
    BY <1>6, <2>3, <2>4 DEF Effect, HalfWritten
  <2>6. Younger(c)' /\ HeaderKnown(c)'
    BY <1>6, <2>3 DEF Order, Younger, HeaderKnown, Owned, Writing, CkptSteps
  <2>7. Shows(c)
    BY <1>6, <2>1, <2>3 DEF Order, Shows, Snapshot
  <2> QED
    BY <1>1, <2>5, <2>6, <2>7, OneOrder
<1>8. CASE ~(nBackfill > 0 /\ MarksFree(c))
  <2>1. pc' = [pc EXCEPT ![c] = "begin"] /\ UNCHANGED << hdr, shm >>
    BY <1>8 DEF RestartLog
  <2>2. pc'[c] = "begin"
    BY <2>1 DEF Inv, Shaped
  <2>3. Effect(c)
    BY <1>6, <2>1, <2>2, Quiet DEF HalfWritten
  <2>4. Younger(c)' /\ HeaderKnown(c)'
    BY <1>6, <2>1, <2>2 DEF Order, Younger, HeaderKnown, Owned, Writing, Marking, CkptSteps
  <2>5. Shows(c)
    BY <1>6, <2>1, <2>2 DEF Order, Younger, Owned, Writing, Shows, Snapshot
  <2> QED
    BY <1>1, <2>3, <2>4, <2>5, OneOrder
<1> QED
  BY <1>7, <1>8

LEMMA RestartHeaderOrder ==
  ASSUME Inv, Order, NEW c \in Conns, setting' = setting, RestartHeader(c) PROVE Ordered(c)
<1>1. Inv' /\ Steps(c)
  BY RestartHeaderKeeps
<1>6. /\ pc[c] = "restarted" /\ writer = c /\ c \in alive /\ shm' = [shm EXCEPT ![1] = hdr[c]]
      /\ pc' = [pc EXCEPT ![c] = "restartinfo"]
      /\ UNCHANGED << setting, writer, alive, hdr, tmp, cached, ckpt, txn, committed, txns >>
  BY DEF RestartHeader, Inv, Kept, LockHeld, Writing
<1>7. /\ pc'[c] = "restartinfo" /\ shm'[1] = hdr[c] /\ shm'[2] = hdr[c]
      /\ hdr[c].last = committed /\ committed \in Nat
  BY <1>6 DEF Inv, Shaped, Order, Copies, HalfWritten, Kept, HeaderShared, Writing,
                   LastShown, NothingYet
<1>8. hdr[c] # NoHdr
  BY <1>7 DEF NoHdr
<1>9. LastShown' /\ txns <= txns'
  BY <1>6, <1>7, WalAssumption DEF Order, LastShown, MaxTxn
<1>2. Effect(c)
  BY <1>6, <1>7, <1>8, <1>9 DEF Effect, HalfWritten
<1>3. Younger(c)'
  BY <1>6, <1>7 DEF Order, Younger, Owned, Writing
<1>4. HeaderKnown(c)'
  BY <1>6, <1>7 DEF HeaderKnown, CkptSteps, Order
<1>5. Shows(c)
  BY <1>6, <1>7 DEF Shows, Snapshot
<1> QED
  BY <1>1, <1>2, <1>3, <1>4, <1>5, OneOrder

LEMMA RestartEndOrder ==
  ASSUME Inv, Order, NEW c \in Conns, setting' = setting, RestartEnd(c) PROVE Ordered(c)
<1>1. Inv' /\ Steps(c)
  BY RestartEndKeeps
<1>2. Effect(c)
  <2>1. /\ UNCHANGED << setting, shm, committed, txns >> /\ alive' # {}
        /\ pc[c] \notin HalfWritten /\ pc'[c] \notin HalfWritten
    BY DEF RestartEnd, RestartInfo, Inv, Shaped, HalfWritten
  <2>2. shm[1] # NoHdr
    BY DEF RestartEnd, Order, NothingYet
  <2> QED
    BY <2>1, <2>2, Quiet
<1>3. Younger(c)'
  BY DEF RestartEnd, RestartInfo, Inv, Shaped, Kept, LockHeld, Order, Younger, Owned, Writing,
         Marking
<1>4. HeaderKnown(c)'
  BY DEF RestartEnd, RestartInfo, Inv, Shaped, IsCkpt, IsHdr, Kept, LockHeld, Order,
         HeaderKnown, CkptSteps
<1>5. Shows(c)
  BY DEF RestartEnd, RestartInfo, Inv, Shaped, Kept, LockHeld, HeaderShared, Order, LastShown,
         NothingYet, Younger, Owned, Shows, Snapshot, Writing, Marking
<1> QED
  BY <1>1, <1>2, <1>3, <1>4, <1>5, OneOrder

LEMMA WriteLogHeaderOrder ==
  ASSUME Inv, Order, NEW c \in Conns, setting' = setting, WriteLogHeader(c) PROVE Ordered(c)
<1>1. Inv' /\ Steps(c)
  BY WriteLogHeaderKeeps
<1>2. Effect(c)
  <2>1. /\ UNCHANGED << setting, shm, committed, txns >> /\ alive' # {}
        /\ pc[c] \notin HalfWritten /\ pc'[c] \notin HalfWritten
    BY DEF WriteLogHeader, Inv, Shaped, HalfWritten
  <2>2. shm[1] # NoHdr
    BY DEF WriteLogHeader, Order, NothingYet
  <2> QED
    BY <2>1, <2>2, Quiet
<1>3. Younger(c)'
  BY DEF WriteLogHeader, Inv, Shaped, Kept, LockHeld, Order, Younger, Owned, Writing, Marking
<1>4. HeaderKnown(c)'
  BY DEF WriteLogHeader, Inv, Shaped, IsCkpt, IsHdr, Kept, LockHeld, Order, HeaderKnown,
         CkptSteps
<1>5. Shows(c)
  BY DEF WriteLogHeader, Inv, Shaped, Kept, LockHeld, HeaderShared, Order, LastShown,
         NothingYet, Younger, Owned, Shows, Snapshot, Writing, Marking
<1> QED
  BY <1>1, <1>2, <1>3, <1>4, <1>5, OneOrder

LEMMA WriteFrameOrder ==
  ASSUME Inv, Order, NEW c \in Conns, setting' = setting, WriteFrame(c) PROVE Ordered(c)
<1>1. Inv' /\ Steps(c)
  BY WriteFrameKeeps
<1>2. Effect(c)
  <2>1. /\ UNCHANGED << setting, shm, committed, txns >> /\ alive' # {}
        /\ pc[c] \notin HalfWritten /\ pc'[c] \notin HalfWritten
    BY DEF WriteFrame, Inv, Shaped, HalfWritten
  <2>2. shm[1] # NoHdr
    BY DEF WriteFrame, Order, NothingYet
  <2> QED
    BY <2>1, <2>2, Quiet
<1>3. Younger(c)'
  BY DEF WriteFrame, Inv, Shaped, Kept, LockHeld, Order, Younger, Owned, Writing, Marking
<1>4. HeaderKnown(c)'
  BY DEF WriteFrame, Inv, Shaped, IsCkpt, IsHdr, Kept, LockHeld, Order, HeaderKnown, CkptSteps
<1>5. Shows(c)
  BY DEF WriteFrame, Inv, Shaped, Kept, LockHeld, HeaderShared, Order, LastShown, NothingYet,
         Younger, Owned, Shows, Snapshot, Writing, Marking
<1> QED
  BY <1>1, <1>2, <1>3, <1>4, <1>5, OneOrder

LEMMA RechecksumOrder ==
  ASSUME Inv, Order, NEW c \in Conns, setting' = setting, Rechecksum(c) PROVE Ordered(c)
<1>1. Inv' /\ Steps(c)
  BY RechecksumKeeps
<1>2. Effect(c)
  <2>1. /\ UNCHANGED << setting, shm, committed, txns >> /\ alive' # {}
        /\ pc[c] \notin HalfWritten /\ pc'[c] \notin HalfWritten
    BY DEF Rechecksum, Inv, Shaped, HalfWritten
  <2>2. shm[1] # NoHdr
    BY DEF Rechecksum, Order, NothingYet
  <2> QED
    BY <2>1, <2>2, Quiet
<1>3. Younger(c)'
  BY DEF Rechecksum, Inv, Shaped, Kept, LockHeld, Order, Younger, Owned, Writing, Marking
<1>4. HeaderKnown(c)'
  BY DEF Rechecksum, Inv, Shaped, IsCkpt, IsHdr, Kept, LockHeld, Order, HeaderKnown, CkptSteps
<1>5. Shows(c)
  BY DEF Rechecksum, Inv, Shaped, Kept, LockHeld, HeaderShared, Order, LastShown, NothingYet,
         Younger, Owned, Shows, Snapshot, Writing, Marking
<1> QED
  BY <1>1, <1>2, <1>3, <1>4, <1>5, OneOrder

LEMMA IndexFramesOrder ==
  ASSUME Inv, Order, NEW c \in Conns, setting' = setting, IndexFrames(c) PROVE Ordered(c)
<1>1. Inv' /\ Steps(c)
  BY IndexFramesKeeps
<1> DEFINE h == [hdr[c] EXCEPT !.mx = last[c]]
           new == [h EXCEPT !.last = txn[c]]
<1>6. pc[c] = "frames" /\ writer = c /\ c \in alive /\ shm[1] # NoHdr
      /\ UNCHANGED << setting, writer, alive, tmp, cached, ckpt, txn, committed, txns >>
  BY DEF IndexFrames, Inv, Kept, LockHeld, Writing, Order, NothingYet
<1>7. h.last = hdr[c].last /\ hdr[c].last = committed
  BY <1>6, HeaderParts DEF Inv, Shaped, Kept, HeaderShared, Writing, Order, LastShown
<1>8. CASE batch[c].commit
  <2>1. /\ hdr' = [hdr EXCEPT ![c] = new] /\ shm' = [shm EXCEPT ![2] = new]
        /\ pc' = [pc EXCEPT ![c] = "publish"]
    BY <1>8 DEF IndexFrames
  <2> HIDE DEF h, new
  <2>2. /\ hdr'[c] = new /\ pc'[c] = "publish" /\ shm'[1] = shm[1] /\ shm'[2] = new
    BY <2>1 DEF Inv, Shaped
  <2>3. LastShown' /\ txns <= txns'
    BY <1>6, <2>2, WalAssumption DEF Order, LastShown, MaxTxn
  <2>4. Effect(c)
    BY <1>6, <2>2, <2>3 DEF Effect, HalfWritten
  <2>5. Younger(c)' /\ HeaderKnown(c)'
    BY <1>6, <2>2 DEF Order, Younger, HeaderKnown, Owned, Writing, CkptSteps
  <2>6. Shows(c)
    BY <1>6, <1>7, <2>2 DEF Order, Younger, Owned, Writing, Shows, Snapshot
  <2> QED
    BY <1>1, <2>4, <2>5, <2>6, OneOrder
<1>9. CASE ~batch[c].commit
  <2>1. hdr' = [hdr EXCEPT ![c] = h] /\ shm' = shm /\ pc' = [pc EXCEPT ![c] = "write"]
    BY <1>9 DEF IndexFrames
  <2> HIDE DEF h, new
  <2>2. hdr'[c] = h /\ pc'[c] = "write"
    BY <2>1 DEF Inv, Shaped
  <2>3. Effect(c)
    BY <1>6, <2>1, <2>2, Quiet DEF HalfWritten
  <2>4. Younger(c)' /\ HeaderKnown(c)'
    BY <1>6, <2>1, <2>2 DEF Order, Younger, HeaderKnown, Owned, Writing, CkptSteps
  <2>5. Shows(c)
    BY <1>6, <1>7, <2>1, <2>2 DEF Order, Younger, Owned, Writing, Shows, Snapshot
  <2> QED
    BY <1>1, <2>3, <2>4, <2>5, OneOrder
<1> QED
  BY <1>8, <1>9

LEMMA PublishOrder ==
  ASSUME Inv, Order, NEW c \in Conns, setting' = setting, Publish(c) PROVE Ordered(c)
<1>1. Inv' /\ Steps(c)
  BY PublishKeeps
<1>6. /\ pc[c] = "publish" /\ writer = c /\ c \in alive /\ hdr[c].last = txn[c] /\ c # None
      /\ pc' = [pc EXCEPT ![c] = "read"] /\ shm' = [shm EXCEPT ![1] = hdr[c]]
      /\ txn' = [txn EXCEPT ![c] = 0] /\ writer' = None /\ committed' = txn[c]
      /\ UNCHANGED << setting, alive, hdr, tmp, ckpt, txns >>
  BY SomeConn DEF Publish, EndTransaction, Inv, Kept, LockHeld, HeaderShared
<1>7. /\ txn[c] # 0 /\ txn[c] \in Nat /\ committed < txn[c] /\ txn[c] <= txns /\ txns <= MaxTxn
      /\ txns \in Nat /\ MaxTxn \in Nat /\ MaxTxn' = MaxTxn /\ committed \in Nat
  BY <1>6, WalAssumption DEF Order, Younger, Owned, LastShown, Inv, Shaped, MaxTxn, Setting
<1>8. /\ pc'[c] = "read" /\ shm'[1] = hdr[c] /\ shm'[2] = hdr[c] /\ txn'[c] = 0
      /\ hdr[c] # NoHdr
  BY <1>6, <1>7 DEF Inv, Shaped, Order, Copies, HalfWritten, NoHdr
<1>9. LastShown' /\ txns <= txns'
  BY <1>6, <1>7, <1>8 DEF LastShown
<1>2. Effect(c)
  BY <1>6, <1>8, <1>9 DEF Effect, HalfWritten
<1>3. Younger(c)'
  BY <1>6, <1>7, <1>8 DEF Younger, Owned, Writing, Marking
<1>4. HeaderKnown(c)'
  BY <1>6, <1>7, <1>8 DEF HeaderKnown, CkptSteps, Order
<1>5. Shows(c)
  BY <1>6, <1>7, <1>8 DEF Shows, Snapshot
<1> QED
  BY <1>1, <1>2, <1>3, <1>4, <1>5, OneOrder

LEMMA CkptBeginOrder ==
  ASSUME Inv, Order, NEW c \in Conns, setting' = setting, CkptBegin(c) PROVE Ordered(c)
<1>1. Inv' /\ Steps(c)
  BY CkptBeginKeeps
<1>2. Effect(c)
  BY DEF CkptBegin, Effect, Inv, Shaped, Kept, LockHeld, Order, Copies, NothingYet, LastShown,
         HalfWritten, Writing, MaxTxn
<1>3. Younger(c)'
  BY DEF CkptBegin, Inv, Shaped, Kept, LockHeld, Order, Younger, Owned, Writing, Marking
<1>4. HeaderKnown(c)'
  BY DEF CkptBegin, Inv, Shaped, IsCkpt, IsHdr, Kept, LockHeld, Order, HeaderKnown, CkptSteps
<1>5. Shows(c)
  BY DEF CkptBegin, Inv, Shaped, Kept, LockHeld, HeaderShared, Order, LastShown, NothingYet,
         Younger, Owned, Shows, Snapshot, Writing, Marking
<1> QED
  BY <1>1, <1>2, <1>3, <1>4, <1>5, OneOrder

LEMMA CkptStartOrder ==
  ASSUME Inv, Order, NEW c \in Conns, setting' = setting, CkptStart(c) PROVE Ordered(c)
<1>1. Inv' /\ Steps(c)
  BY CkptStartKeeps
<1>2. Effect(c)
  <2>1. /\ UNCHANGED << setting, shm, committed, txns >> /\ alive' # {}
        /\ pc[c] \notin HalfWritten /\ pc'[c] \notin HalfWritten
    BY DEF CkptStart, Inv, Shaped, HalfWritten
  <2>2. shm[1] # NoHdr
    BY DEF CkptStart, Order, NothingYet
  <2> QED
    BY <2>1, <2>2, Quiet
<1>3. Younger(c)'
  BY DEF CkptStart, Inv, Shaped, Kept, LockHeld, Order, Younger, Owned, Writing, Marking
<1>4. HeaderKnown(c)'
  BY DEF CkptStart, Inv, Shaped, IsCkpt, IsHdr, Kept, LockHeld, Order, HeaderKnown, CkptSteps
<1>5. Shows(c)
  BY DEF CkptStart, Inv, Shaped, Kept, LockHeld, HeaderShared, Order, LastShown, NothingYet,
         Younger, Owned, Shows, Snapshot, Writing, Marking
<1> QED
  BY <1>1, <1>2, <1>3, <1>4, <1>5, OneOrder

LEMMA CkptMarkOrder ==
  ASSUME Inv, Order, NEW c \in Conns, setting' = setting, CkptMark(c) PROVE Ordered(c)
<1>1. Inv' /\ Steps(c)
  BY CkptMarkKeeps
<1>2. Effect(c)
  <2>1. /\ UNCHANGED << setting, shm, committed, txns >> /\ alive' # {}
        /\ pc[c] \notin HalfWritten /\ pc'[c] \notin HalfWritten
    BY DEF CkptMark, Inv, Shaped, HalfWritten
  <2>2. shm[1] # NoHdr
    BY DEF CkptMark, Order, NothingYet
  <2> QED
    BY <2>1, <2>2, Quiet
<1>3. Younger(c)'
  BY DEF CkptMark, Inv, Shaped, Kept, LockHeld, Order, Younger, Owned, Writing, Marking
<1>4. HeaderKnown(c)'
  BY DEF CkptMark, Inv, Shaped, IsCkpt, IsHdr, Kept, LockHeld, Order, HeaderKnown, CkptSteps
<1>5. Shows(c)
  BY DEF CkptMark, Inv, Shaped, Kept, LockHeld, HeaderShared, Order, LastShown, NothingYet,
         Younger, Owned, Shows, Snapshot, Writing, Marking
<1> QED
  BY <1>1, <1>2, <1>3, <1>4, <1>5, OneOrder

LEMMA CkptPlanOrder ==
  ASSUME Inv, Order, NEW c \in Conns, setting' = setting, CkptPlan(c) PROVE Ordered(c)
<1>1. Inv' /\ Steps(c)
  BY CkptPlanKeeps
<1>2. Effect(c)
  <2>1. /\ UNCHANGED << setting, shm, committed, txns >> /\ alive' # {}
        /\ pc[c] \notin HalfWritten /\ pc'[c] \notin HalfWritten
    BY DEF CkptPlan, Inv, Shaped, HalfWritten
  <2>2. shm[1] # NoHdr
    BY DEF CkptPlan, Order, NothingYet
  <2> QED
    BY <2>1, <2>2, Quiet
<1>3. Younger(c)'
  BY DEF CkptPlan, Inv, Shaped, Kept, LockHeld, Order, Younger, Owned, Writing, Marking
<1>4. HeaderKnown(c)'
  BY DEF CkptPlan, Inv, Shaped, IsCkpt, IsHdr, Kept, LockHeld, Order, HeaderKnown, CkptSteps
<1>5. Shows(c)
  BY DEF CkptPlan, Inv, Shaped, Kept, LockHeld, HeaderShared, Order, LastShown, NothingYet,
         Younger, Owned, Shows, Snapshot, Writing, Marking
<1> QED
  BY <1>1, <1>2, <1>3, <1>4, <1>5, OneOrder

LEMMA CkptLockOrder ==
  ASSUME Inv, Order, NEW c \in Conns, setting' = setting, CkptLock(c) PROVE Ordered(c)
<1>1. Inv' /\ Steps(c)
  BY CkptLockKeeps
<1>2. Effect(c)
  <2>1. /\ UNCHANGED << setting, shm, committed, txns >> /\ alive' # {}
        /\ pc[c] \notin HalfWritten /\ pc'[c] \notin HalfWritten
    BY DEF CkptLock, Inv, Shaped, HalfWritten
  <2>2. shm[1] # NoHdr
    BY DEF CkptLock, Order, NothingYet
  <2> QED
    BY <2>1, <2>2, Quiet
<1>3. Younger(c)'
  BY DEF CkptLock, Inv, Shaped, Kept, LockHeld, Order, Younger, Owned, Writing, Marking
<1>4. HeaderKnown(c)'
  BY DEF CkptLock, Inv, Shaped, IsCkpt, IsHdr, Kept, LockHeld, Order, HeaderKnown, CkptSteps
<1>5. Shows(c)
  BY DEF CkptLock, Inv, Shaped, Kept, LockHeld, HeaderShared, Order, LastShown, NothingYet,
         Younger, Owned, Shows, Snapshot, Writing, Marking
<1> QED
  BY <1>1, <1>2, <1>3, <1>4, <1>5, OneOrder

LEMMA CkptSyncOrder ==
  ASSUME Inv, Order, NEW c \in Conns, setting' = setting, CkptSync(c) PROVE Ordered(c)
<1>1. Inv' /\ Steps(c)
  BY CkptSyncKeeps
<1>2. Effect(c)
  <2>1. /\ UNCHANGED << setting, shm, committed, txns >> /\ alive' # {}
        /\ pc[c] \notin HalfWritten /\ pc'[c] \notin HalfWritten
    BY DEF CkptSync, Inv, Shaped, HalfWritten
  <2>2. shm[1] # NoHdr
    BY DEF CkptSync, Order, NothingYet
  <2> QED
    BY <2>1, <2>2, Quiet
<1>3. Younger(c)'
  BY DEF CkptSync, Inv, Shaped, Kept, LockHeld, Order, Younger, Owned, Writing, Marking
<1>4. HeaderKnown(c)'
  BY DEF CkptSync, Inv, Shaped, IsCkpt, IsHdr, Kept, LockHeld, Order, HeaderKnown, CkptSteps
<1>5. Shows(c)
  BY DEF CkptSync, Inv, Shaped, Kept, LockHeld, HeaderShared, Order, LastShown, NothingYet,
         Younger, Owned, Shows, Snapshot, Writing, Marking
<1> QED
  BY <1>1, <1>2, <1>3, <1>4, <1>5, OneOrder

LEMMA CkptCopyOrder ==
  ASSUME Inv, Order, NEW c \in Conns, setting' = setting, CkptCopy(c) PROVE Ordered(c)
<1>1. Inv' /\ Steps(c)
  BY CkptCopyKeeps
<1>2. Effect(c)
  <2>1. /\ UNCHANGED << setting, shm, committed, txns >> /\ alive' # {}
        /\ pc[c] \notin HalfWritten /\ pc'[c] \notin HalfWritten
    BY DEF CkptCopy, Inv, Shaped, HalfWritten
  <2>2. shm[1] # NoHdr
    BY DEF CkptCopy, Order, NothingYet
  <2> QED
    BY <2>1, <2>2, Quiet
<1>3. Younger(c)'
  BY DEF CkptCopy, Inv, Shaped, Kept, LockHeld, Order, Younger, Owned, Writing, Marking
<1>4. HeaderKnown(c)'
  BY DEF CkptCopy, Inv, Shaped, IsCkpt, IsHdr, Kept, LockHeld, Order, HeaderKnown, CkptSteps
<1>5. Shows(c)
  BY DEF CkptCopy, Inv, Shaped, Kept, LockHeld, HeaderShared, Order, LastShown, NothingYet,
         Younger, Owned, Shows, Snapshot, Writing, Marking
<1> QED
  BY <1>1, <1>2, <1>3, <1>4, <1>5, OneOrder

LEMMA CkptFillOrder ==
  ASSUME Inv, Order, NEW c \in Conns, setting' = setting, CkptFill(c) PROVE Ordered(c)
<1>1. Inv' /\ Steps(c)
  BY CkptFillKeeps
<1>2. Effect(c)
  <2>1. /\ UNCHANGED << setting, shm, committed, txns >> /\ alive' # {}
        /\ pc[c] \notin HalfWritten /\ pc'[c] \notin HalfWritten
    BY DEF CkptFill, Inv, Shaped, HalfWritten
  <2>2. shm[1] # NoHdr
    BY DEF CkptFill, Order, NothingYet
  <2> QED
    BY <2>1, <2>2, Quiet
<1>3. Younger(c)'
  BY DEF CkptFill, Inv, Shaped, Kept, LockHeld, Order, Younger, Owned, Writing, Marking
<1>4. HeaderKnown(c)'
  BY DEF CkptFill, Inv, Shaped, IsCkpt, IsHdr, Kept, LockHeld, Order, HeaderKnown, CkptSteps
<1>5. Shows(c)
  BY DEF CkptFill, Inv, Shaped, Kept, LockHeld, HeaderShared, Order, LastShown, NothingYet,
         Younger, Owned, Shows, Snapshot, Writing, Marking
<1> QED
  BY <1>1, <1>2, <1>3, <1>4, <1>5, OneOrder

LEMMA CkptInterruptOrder ==
  ASSUME Inv, Order, NEW c \in Conns, setting' = setting, CkptInterrupt(c) PROVE Ordered(c)
<1>1. Inv' /\ Steps(c)
  BY CkptInterruptKeeps
<1>2. Effect(c)
  <2>1. /\ UNCHANGED << setting, shm, committed, txns >> /\ alive' # {}
        /\ pc[c] \notin HalfWritten /\ pc'[c] \notin HalfWritten
    BY DEF CkptInterrupt, Inv, Shaped, HalfWritten
  <2>2. shm[1] # NoHdr
    BY DEF CkptInterrupt, Order, NothingYet
  <2> QED
    BY <2>1, <2>2, Quiet
<1>3. Younger(c)'
  BY DEF CkptInterrupt, Inv, Shaped, Kept, LockHeld, Order, Younger, Owned, Writing, Marking
<1>4. HeaderKnown(c)'
  BY DEF CkptInterrupt, Inv, Shaped, IsCkpt, IsHdr, Kept, LockHeld, Order, HeaderKnown,
         CkptSteps
<1>5. Shows(c)
  BY DEF CkptInterrupt, Inv, Shaped, Kept, LockHeld, HeaderShared, Order, LastShown,
         NothingYet, Younger, Owned, Shows, Snapshot, Writing, Marking
<1> QED
  BY <1>1, <1>2, <1>3, <1>4, <1>5, OneOrder

LEMMA CkptResetOrder ==
  ASSUME Inv, Order, NEW c \in Conns, setting' = setting, CkptReset(c) PROVE Ordered(c)
<1>1. Inv' /\ Steps(c)
  BY CkptResetKeeps
<1>6. pc[c] = "cdone" /\ c \in alive /\ shm[1] # NoHdr /\ IsHdr(hdr[c]) /\ txn[c] = 0
      /\ UNCHANGED << setting, writer, alive, tmp, cached, ckpt, txn, committed, txns >>
  BY DEF CkptReset, Inv, Shaped, Order, NothingYet, Younger, Owned, Writing, Marking
<1>7. CASE ckpt[c].mode = "truncate" /\ nBackfill >= hdr[c].mx /\ MarksFree(c)
  <2> DEFINE h == Restarted(hdr[c], FreshSalt)
  <2>1. h.last = hdr[c].last
    BY <1>6, HeaderParts
  <2>2. /\ hdr' = [hdr EXCEPT ![c] = h] /\ shm' = [shm EXCEPT ![2] = h]
        /\ pc' = [pc EXCEPT ![c] = "ctrunc"]
    BY <1>7 DEF CkptReset
  <2>3. writer = c
    BY <1>7 DEF Inv, Kept, LockHeld
  <2> HIDE DEF h
  <2>4. /\ hdr'[c] = h /\ pc'[c] = "ctrunc" /\ shm'[1] = shm[1] /\ shm'[2] = h
    BY <2>2 DEF Inv, Shaped
  <2>5. LastShown' /\ txns <= txns'
    BY <1>6, <2>4, WalAssumption DEF Order, LastShown, MaxTxn
  <2>6. Effect(c)
    BY <1>6, <2>3, <2>4, <2>5 DEF Effect, HalfWritten
  <2>7. Younger(c)'
    BY <1>6, <2>4 DEF Order, Younger, Owned, Writing, Marking
  <2>8. HeaderKnown(c)'
    BY <1>6, <1>7, <2>1, <2>4 DEF Order, HeaderKnown, CkptSteps
  <2>9. Shows(c)
    BY <1>6, <2>4 DEF Shows, Snapshot
  <2> QED
    BY <1>1, <2>6, <2>7, <2>8, <2>9, OneOrder
<1>8. CASE ~(ckpt[c].mode = "truncate" /\ nBackfill >= hdr[c].mx /\ MarksFree(c))
  <2>1. pc' = [pc EXCEPT ![c] = "cend"] /\ UNCHANGED << hdr, shm >>
    BY <1>8 DEF CkptReset
  <2>2. pc'[c] = "cend"
    BY <2>1 DEF Inv, Shaped
  <2>3. Effect(c)
    BY <1>6, <2>1, <2>2, Quiet DEF HalfWritten
  <2>4. Younger(c)'
    BY <1>6, <2>1, <2>2 DEF Order, Younger, Owned, Writing, Marking
  <2>5. HeaderKnown(c)'
    BY <1>6, <2>1, <2>2 DEF Order, HeaderKnown, CkptSteps
  <2>6. Shows(c)
    BY <1>6, <2>1, <2>2 DEF Shows, Snapshot
  <2> QED
    BY <1>1, <2>3, <2>4, <2>5, <2>6, OneOrder
<1> QED
  BY <1>7, <1>8

LEMMA CkptResetHeaderOrder ==
  ASSUME Inv, Order, NEW c \in Conns, setting' = setting, CkptResetHeader(c) PROVE Ordered(c)
<1>1. Inv' /\ Steps(c)
  BY CkptResetHeaderKeeps
<1>6. /\ pc[c] = "ctrunc" /\ writer = c /\ c \in alive /\ shm' = [shm EXCEPT ![1] = hdr[c]]
      /\ ckpt[c].mode = "truncate" /\ pc' = [pc EXCEPT ![c] = "ctruncinfo"]
      /\ UNCHANGED << setting, writer, alive, hdr, tmp, cached, ckpt, txn, committed, txns >>
  BY DEF CkptResetHeader, Inv, Kept, LockHeld
<1>7. /\ pc'[c] = "ctruncinfo" /\ shm'[1] = hdr[c] /\ shm'[2] = hdr[c]
      /\ hdr[c].last = committed /\ committed \in Nat
  BY <1>6 DEF Inv, Shaped, Order, Copies, HalfWritten, HeaderKnown, CkptSteps,
                   LastShown, NothingYet
<1>8. hdr[c] # NoHdr
  BY <1>7 DEF NoHdr
<1>9. LastShown' /\ txns <= txns'
  BY <1>6, <1>7, WalAssumption DEF Order, LastShown, MaxTxn
<1>2. Effect(c)
  BY <1>6, <1>7, <1>8, <1>9 DEF Effect, HalfWritten
<1>3. Younger(c)'
  BY <1>6, <1>7 DEF Order, Younger, Owned, Writing, Marking
<1>4. HeaderKnown(c)'
  BY <1>6, <1>7 DEF HeaderKnown, CkptSteps, Order
<1>5. Shows(c)
  BY <1>6, <1>7 DEF Order, Younger, Owned, Writing, Marking, Shows, Snapshot
<1> QED
  BY <1>1, <1>2, <1>3, <1>4, <1>5, OneOrder

LEMMA CkptTruncateOrder ==
  ASSUME Inv, Order, NEW c \in Conns, setting' = setting, CkptTruncate(c) PROVE Ordered(c)
<1>1. Inv' /\ Steps(c)
  BY CkptTruncateKeeps
<1>2. Effect(c)
  <2>1. /\ UNCHANGED << setting, shm, committed, txns >> /\ alive' # {}
        /\ pc[c] \notin HalfWritten /\ pc'[c] \notin HalfWritten
    BY DEF CkptTruncate, RestartInfo, Inv, Shaped, HalfWritten
  <2>2. shm[1] # NoHdr
    BY DEF CkptTruncate, Order, NothingYet
  <2> QED
    BY <2>1, <2>2, Quiet
<1>3. Younger(c)'
  BY DEF CkptTruncate, RestartInfo, Inv, Shaped, Kept, LockHeld, Order, Younger, Owned,
         Writing, Marking
<1>4. HeaderKnown(c)'
  BY DEF CkptTruncate, RestartInfo, Inv, Shaped, IsCkpt, IsHdr, Kept, LockHeld, Order,
         HeaderKnown, CkptSteps
<1>5. Shows(c)
  BY DEF CkptTruncate, RestartInfo, Inv, Shaped, Kept, LockHeld, HeaderShared, Order,
         LastShown, NothingYet, Younger, Owned, Shows, Snapshot, Writing, Marking
<1> QED
  BY <1>1, <1>2, <1>3, <1>4, <1>5, OneOrder

LEMMA CkptEndOrder ==
  ASSUME Inv, Order, NEW c \in Conns, setting' = setting, CkptEnd(c) PROVE Ordered(c)
<1>1. Inv' /\ Steps(c)
  BY CkptEndKeeps
<1>2. Effect(c)
  <2>1. /\ UNCHANGED << setting, shm, committed, txns >> /\ alive' # {}
        /\ pc[c] \notin HalfWritten /\ pc'[c] \notin HalfWritten
    BY DEF CkptEnd, ForgetHeader, Dropped, Inv, Shaped, HalfWritten
  <2>2. shm[1] # NoHdr
    BY DEF CkptEnd, Order, NothingYet
  <2> QED
    BY <2>1, <2>2, Quiet
<1>3. Younger(c)'
  BY DEF CkptEnd, ForgetHeader, Dropped, Inv, Shaped, Kept, LockHeld, Order, Younger, Owned,
         Writing, Marking
<1>4. HeaderKnown(c)'
  BY DEF CkptEnd, ForgetHeader, Dropped, Inv, Shaped, IsCkpt, IsHdr, Kept, LockHeld, Order,
         HeaderKnown, CkptSteps
<1>5. Shows(c)
  BY DEF CkptEnd, ForgetHeader, Dropped, Inv, Shaped, Kept, LockHeld, HeaderShared, Order,
         LastShown, NothingYet, Younger, Owned, Shows, Snapshot, Writing, Marking
<1> QED
  BY <1>1, <1>2, <1>3, <1>4, <1>5, OneOrder

-----------------------------------------------------------------------------
(* Connections that come and go leave all that to the others. *)

LEMMA NobodyOwns ==
  ASSUME Inv, alive = {} PROVE writer = None
<1>1. ASSUME writer # None PROVE FALSE
  <2>1. writer \in Conns /\ LockHeld(writer) /\ pc[writer] = "idle"
    BY <1>1 DEF Inv, Kept, LockHeld
  <2> QED
    BY <2>1 DEF LockHeld, Checkpointing, Writing, Marking, CkptSteps, Headed
<1> QED
  BY <1>1

LEMMA OpenOrder ==
  ASSUME Inv, Order, NEW c \in Conns, setting' = setting, Open(c) PROVE Ordered(c)
<1>1. Inv' /\ Steps(c)
  BY OpenKeeps
<1>2. /\ UNCHANGED << setting, pc, hdr, tmp, cached, ckpt, txn, writer, committed, txns >>
      /\ UNCHANGED << db, wal, hist >> /\ c \in alive' /\ c \notin alive /\ pc[c] = "idle"
  BY DEF Open, Inv, Kept, LockHeld
<1>3. shm'[1] = shm[1] /\ shm'[2] = shm[2]
  <2>1. CASE alive = {}
    <3>1. shm[1] = NoHdr
      BY <2>1 DEF Order, NothingYet
    <3>2. shm[1] = shm[2]
      <4>1. ASSUME NEW d \in Conns PROVE pc[d] \notin HalfWritten
        BY <2>1 DEF Inv, Kept, LockHeld, HalfWritten
      <4> QED
        BY <4>1 DEF Order, Copies
    <3>3. shm' = << NoHdr, NoHdr >>
      BY <2>1 DEF Open
    <3> QED
      BY <3>1, <3>2, <3>3
  <2>2. CASE alive # {}
    BY <2>2 DEF Open
  <2> QED
    BY <2>1, <2>2
<1>4. LastShown' /\ txns <= txns'
  BY <1>2, <1>3, WalAssumption DEF Order, LastShown, MaxTxn
<1>5. shm[1] = NoHdr => tmp[c] = NoHdr
  BY DEF Order, NothingYet
<1>6. Effect(c)
  BY <1>2, <1>3, <1>4, <1>5 DEF Effect, HalfWritten
<1>7. Younger(c)' /\ HeaderKnown(c)'
  BY <1>2, <1>3 DEF Order, Younger, Owned, HeaderKnown
<1>8. Shows(c)
  BY <1>2, <1>3 DEF Shows, Snapshot
<1> QED
  BY <1>1, <1>6, <1>7, <1>8, OneOrder

LEMMA GoneOrder ==
  ASSUME Inv, Order, NEW c \in Conns, setting' = setting, shm' = shm, Forget({c}),
         alive' = alive \ {c}, writer' = Dropped(writer, c), c \in alive, alive # {c}, writer # c,
         UNCHANGED << db, wal, committed, hist, txns >>
  PROVE  Ordered(c)
<1>1. Inv' /\ Steps(c)
  BY GoneKeeps
<1>2. /\ pc'[c] = "idle" /\ hdr'[c] = NoHdr /\ tmp'[c] = NoHdr /\ ckpt'[c] = NoCkpt
      /\ txn'[c] = 0
  BY ForgetIs DEF Inv, Forget, Shaped
<1>3. pc[c] \notin HalfWritten
  BY DEF Inv, Kept, LockHeld, HalfWritten, Writing
<1>4. Effect(c)
  BY <1>2, <1>3, Quiet DEF HalfWritten
<1>5. writer' # c
  BY DEF Dropped
<1>6. Younger(c)' /\ HeaderKnown(c)'
  BY <1>2, <1>5, Nothing DEF Younger, Owned, HeaderKnown, Writing, Marking, CkptSteps
<1>7. Shows(c)
  BY <1>2 DEF Shows, Snapshot
<1> QED
  BY <1>1, <1>4, <1>6, <1>7, OneOrder

LEMMA CloseOrder ==
  ASSUME Inv, Order, NEW c \in Conns, setting' = setting, Close(c), alive # {c}, writer # c
  PROVE  Ordered(c)
BY GoneOrder DEF Close, Dropped

LEMMA CrashOrder ==
  ASSUME Inv, Order, NEW c \in Conns, setting' = setting, Crash(c), alive # {c}, writer # c
  PROVE  Ordered(c)
BY GoneOrder DEF Crash

LEMMA StepOrder ==
  ASSUME Inv, Order, NEW c \in Conns, setting' = setting, Step(c) PROVE Ordered(c)
<1>1. ASSUME NEW p \in Pages, Modify(c, p) \/ Spill(c, p) PROVE Ordered(c)
  BY <1>1, ModifyOrder, SpillOrder
<1> QED
  BY <1>1, ReadFirstOrder, ReadSecondOrder, RereadOrder, RecoverOrder, RecoverInfoOrder,
     BeginZeroOrder, CheckZeroOrder, ChooseMarkOrder, LockMarkOrder, VerifyOrder, EndReadOrder,
     BeginWriteOrder, OpenSavepointOrder, RollbackToOrder, RollbackOrder, CommitOrder,
     RestartLogOrder, RestartHeaderOrder, RestartEndOrder, WriteLogHeaderOrder,
     WriteFrameOrder, RechecksumOrder, IndexFramesOrder, PublishOrder, CkptBeginOrder,
     CkptStartOrder, CkptMarkOrder, CkptPlanOrder, CkptLockOrder, CkptSyncOrder, CkptCopyOrder,
     CkptFillOrder, CkptInterruptOrder, CkptResetOrder, CkptResetHeaderOrder,
     CkptTruncateOrder, CkptEndOrder
     DEF Step

LEMMA InitialOrder == Init => Order
<1> SUFFICES ASSUME Init PROVE Order
  OBVIOUS
<1>1. Inv
  BY Initially
<1>2. MaxTxn \in Nat /\ shm[1] = NoHdr /\ shm[2] = NoHdr
  BY <1>1, WalAssumption DEF Init, Inv, Shaped, MaxTxn, Setting
<1>3. Copies
  BY <1>2 DEF Init, Copies, HalfWritten
<1>4. NothingYet
  BY <1>2 DEF Init, NothingYet, EmptyLog
<1>5. LastShown
  BY <1>2 DEF Init, LastShown
<1>6. ASSUME NEW c \in Conns PROVE Younger(c) /\ HeaderKnown(c)
  BY SomeConn, Nothing
     DEF Init, Younger, Owned, HeaderKnown, Writing, Marking, CkptSteps
<1> QED
  BY <1>3, <1>4, <1>5, <1>6 DEF Order

LEMMA SameOrder ==
  ASSUME Inv, Order, UNCHANGED vars
  PROVE  /\ Order' /\ committed' = committed
         /\ \A c \in Conns : Snapshot(c)' = Snapshot(c)
<1>1. /\ UNCHANGED << setting, pc, hdr, tmp, ckpt, txn, shm, writer, alive >>
      /\ UNCHANGED << db, wal, committed, hist, txns >>
  BY DEF vars, ghosts
<1>2. Copies' /\ NothingYet' /\ LastShown'
  BY <1>1 DEF Order, Copies, NothingYet, LastShown, MaxTxn
<1>3. ASSUME NEW c \in Conns PROVE (Younger(c) /\ HeaderKnown(c))'
  BY <1>1 DEF Order, Younger, Owned, HeaderKnown
<1> QED
  BY <1>1, <1>2, <1>3 DEF Order, Snapshot

(* A step while it is calm is one of the abstract specification.           *)
LEMMA CalmStep ==
  ASSUME Inv, Order, [Next]_vars, [Calm]_vars
  PROVE  /\ Order'
         /\ \/ committed' = committed /\ \A c \in Conns : Snapshot(c)' = Snapshot(c)
            \/ \E c \in Conns : Ordered(c)
<1>1. CASE UNCHANGED vars
  BY <1>1, SameOrder
<1>2. CASE Next /\ Calm
  <2>1. setting' = setting
    BY <1>2 DEF Next
  <2>2. PICK c \in Conns : Open(c) \/ Close(c) \/ Crash(c) \/ Step(c)
    BY <1>2 DEF Next, Calm
  <2>3. Close(c) \/ Crash(c) => alive # {c} /\ writer # c
    BY <1>2 DEF Calm
  <2>4. Ordered(c)
    BY <2>1, <2>2, <2>3, OpenOrder, CloseOrder, CrashOrder, StepOrder
  <2> QED
    BY <2>4 DEF Ordered
<1> QED
  BY <1>1, <1>2

Bounded == \E n \in Nat : \A s \in Settings : s.txns <= n

(* The largest number of transactions that a setting allows.               *)
LEMMA LargestBound ==
  ASSUME Bounded, Settings # {}
  PROVE  /\ Max({t.txns : t \in Settings}) \in Nat
         /\ \A s \in Settings : s.txns <= Max({t.txns : t \in Settings})
<1> DEFINE B == {t.txns : t \in Settings}
<1>1. B # {} /\ B \subseteq Nat
  BY WalAssumption DEF Setting
<1>2. PICK n \in Nat : \A b \in B : b <= n
  BY DEF Bounded
<1>a. \A s \in Settings : s.txns \in B
  OBVIOUS
<1> HIDE DEF B
<1>3. \E m \in B : \A b \in B : m >= b
  <2> DEFINE Left == {n - b : b \in B}
  <2>1. Left # {} /\ Left \in SUBSET Nat
    <3>1. \A b \in B : n - b \in Nat
      BY <1>1, <1>2
    <3>2. Left \subseteq Nat
      BY <3>1
    <3>3. Left # {}
      BY <1>1
    <3> QED
      BY <3>2, <3>3
  <2>2. \A b \in B : n - b \in Left
    OBVIOUS
  <2>3. \A l \in Left : \E m \in B : l = n - m
    OBVIOUS
  <2> HIDE DEF Left
  <2>4. \E l \in Left : \A i \in Left : ~ (<< i, l >> \in OpToRel(<, Nat))
    BY <2>1, NatLessThanWellFounded, WFMin
  <2>5. PICK l \in Left : \A i \in Left : ~ (<< i, l >> \in OpToRel(<, Nat))
    BY <2>4
  <2>6. \A i \in Left : l <= i
    <3> SUFFICES ASSUME NEW i \in Left PROVE l <= i
      OBVIOUS
    <3>1. ~ (i < l)
      BY <2>1, <2>5 DEF OpToRel
    <3> QED
      BY <2>1, <3>1
  <2>7. PICK m \in B : l = n - m
    BY <2>3
  <2>8. \A b \in B : m >= b
    BY <1>1, <2>2, <2>6, <2>7
  <2> QED
    BY <2>8
<1>4. Max(B) \in B /\ \A b \in B : Max(B) >= b
  BY <1>3 DEF Max
<1>5. Max(B) \in Nat /\ \A s \in Settings : s.txns <= Max(B)
  BY <1>1, <1>4, <1>a
<1> QED
  BY <1>5 DEF B

Snapshots == [c \in Conns |-> Snapshot(c)]

LEMMA StepIsolated ==
  ASSUME Inv, Order, Bounded, [Next]_vars, [Calm]_vars
  PROVE  [SI!Next]_<< committed, Snapshots >>
<1>1. CASE committed' = committed /\ \A c \in Conns : Snapshot(c)' = Snapshot(c)
  <2>1. Snapshots' = Snapshots
    BY <1>1 DEF Snapshots
  <2> QED
    BY <1>1, <2>1
<1>2. ASSUME NEW c \in Conns, Ordered(c)
      PROVE  [SI!Next]_<< committed, Snapshots >>
  <2>1. Snapshots' = [Snapshots EXCEPT ![c] = Snapshot(c)']
    BY <1>2 DEF Snapshots, Ordered
  <2>2. Snapshots[c] = Snapshot(c)
    BY DEF Snapshots
  <2>3. Shows(c)
    BY <1>2 DEF Ordered
  <2>4. /\ Max({s.txns : s \in Settings}) \in Nat
        /\ MaxTxn <= Max({s.txns : s \in Settings}) /\ MaxTxn \in Nat
    BY LargestBound, WalAssumption DEF Inv, Shaped, MaxTxn, Setting
  <2>5. CASE committed' = committed /\ Snapshot(c)' = Snapshot(c)
    <3>1. Snapshots' = Snapshots
      BY <2>1, <2>5 DEF Snapshots
    <3> QED
      BY <2>5, <3>1
  <2>6. CASE committed' = committed /\ Snapshot(c)' = -1
    <3>1. SI!End(c)
      BY <2>1, <2>6 DEF SI!End, Snapshots
    <3> QED
      BY <3>1 DEF SI!Next
  <2>7. CASE committed' = committed /\ Snapshot(c) = -1 /\ Snapshot(c)' = committed
    <3>1. SI!Begin(c)
      BY <2>1, <2>2, <2>7 DEF SI!Begin, Snapshots
    <3> QED
      BY <3>1 DEF SI!Next
  <2>8. CASE /\ Snapshot(c) = committed /\ Snapshot(c)' = committed'
             /\ committed < committed' /\ committed' <= MaxTxn
    <3>1. committed \in Nat /\ committed' \in Nat
      BY <1>2 DEF Order, LastShown, Ordered
    <3>2. committed' \in committed + 1 .. Max({s.txns : s \in Settings})
      BY <2>4, <2>8, <3>1
    <3>3. SI!Commit(c)
      BY <2>1, <2>2, <2>8, <3>2 DEF SI!Commit, Snapshots
    <3> QED
      BY <3>3 DEF SI!Next
  <2> QED
    BY <2>3, <2>5, <2>6, <2>7, <2>8 DEF Shows
<1> QED
  BY <1>1, <1>2, CalmStep

(* A transaction reads the last commit there was when it began, and        *)
(* commits only if it is still the last one: as long as no connection that *)
(* holds WRITE goes away, nor the last of them, and the power does not     *)
(* fail.                                                                   *)
THEOREM LogIsolates == Bounded => (Spec /\ [][Calm]_vars => Isolated)
<1> SUFFICES ASSUME Bounded PROVE Spec /\ [][Calm]_vars => Isolated
  OBVIOUS
<1>1. Init => SI!Init
  BY DEF Init, SI!Init, Snapshot
<1>2. Init => Inv /\ Order
  BY Initially, InitialOrder
<1>3. Inv /\ Order /\ [Next]_vars /\ [Calm]_vars => (Inv /\ Order)'
  BY NextKeeps, CalmStep
<1>4. Inv /\ Order /\ [Next]_vars /\ [Calm]_vars => [SI!Next]_<< committed, Snapshots >>
  BY StepIsolated
<1> QED
  BY <1>1, <1>2, <1>3, <1>4, PTL DEF Spec, Isolated, SI!Spec, Snapshots

(* The header shows the last commit to whoever reads it, as long as it is  *)
(* calm.                                                                   *)
THEOREM CommitsStay == Spec /\ [][Calm]_vars => []NothingLost
<1>1. Init => Inv /\ Order
  BY Initially, InitialOrder
<1>2. Inv /\ Order /\ [Next]_vars /\ [Calm]_vars => (Inv /\ Order)'
  BY NextKeeps, CalmStep
<1>3. Order => NothingLost
  BY DEF Order, LastShown, NothingLost
<1> QED
  BY <1>1, <1>2, <1>3, PTL DEF Spec
-----------------------------------------------------------------------------
(***************************************************************************)
(* What the log holds.                                                     *)
(***************************************************************************)
(* The variables of a connection, and those that are shared, as far as     *)
(* their size matters.                                                     *)
Numbered(h) == h.mx \in 0 .. MaxFrames /\ h.last \in Int

SizedReader(c) ==
  /\ Numbered(hdr[c]) /\ Numbered(tmp[c])
  /\ readLock[c] \in {-1, 0} \cup Marks /\ minFrame[c] \in 0 .. MaxFrames + 1
  /\ {"i", "at"} \subseteq DOMAIN mark[c] /\ mark[c].i \in Nat /\ mark[c].at \in Nat

SizedWriter(c) ==
  /\ DOMAIN mine[c] = Pages /\ dirty[c] \subseteq Pages /\ last[c] \in 0 .. MaxFrames
  /\ {"mx", "mine", "pages"} \subseteq DOMAIN saved[c]
  /\ saved[c].mx \in -1 .. MaxFrames /\ DOMAIN saved[c].mine = Pages /\ saved[c].pages \subseteq Pages
  /\ {"todo", "commit", "first", "headed"} \subseteq DOMAIN batch[c]
  /\ batch[c].todo \subseteq Pages /\ batch[c].first \in Nat

SizedCkpt(c) ==
  /\ {"mode", "changed", "safe", "k", "plan"} \subseteq DOMAIN ckpt[c]
  /\ ckpt[c].mode \in {"none", "passive", "full", "restart", "truncate"}
  /\ ckpt[c].safe \in 0 .. MaxFrames /\ ckpt[c].k \in Nat
  /\ DOMAIN ckpt[c].plan = Pages /\ \A p \in Pages : ckpt[c].plan[p] \in Nat

IsFrame(fr) == {"page", "val", "commit", "ck"} \subseteq DOMAIN fr

SizedLog ==
  /\ {"salt", "frames"} \subseteq DOMAIN wal /\ DOMAIN wal.frames = Slots
  /\ \A f \in Slots : IsFrame(wal.frames[f])
  /\ DOMAIN hist = 0 .. MaxTxn

SizedShared ==
  /\ Numbered(shm[1]) /\ Numbered(shm[2]) /\ nBackfill \in 0 .. MaxFrames
  /\ DOMAIN marks = Marks /\ \A i \in Marks : marks[i] \in Nat
  /\ DOMAIN db = Pages /\ DOMAIN idx = Slots
  /\ zeroExcl \in Conns \cup {None} /\ marksExcl \in Conns \cup {None}

Filled ==
  /\ DOMAIN readLock = Conns /\ DOMAIN minFrame = Conns /\ DOMAIN mark = Conns
  /\ DOMAIN mine = Conns /\ DOMAIN dirty = Conns /\ DOMAIN saved = Conns
  /\ DOMAIN batch = Conns /\ DOMAIN last = Conns

Sized ==
  /\ Filled /\ SizedShared /\ SizedLog
  /\ \A c \in Conns : SizedReader(c) /\ SizedWriter(c) /\ SizedCkpt(c)

(* The last frame of a page up to one.                                     *)
LastIn(index, to, p, f) == index[f] = p /\ \A g \in f + 1 .. to : index[g] # p

(* Who looks a page up between two frames finds this.                      *)
Finds(frames, pages, index, from, to, p, v) ==
  /\ \A f \in from .. to : LastIn(index, to, p, f) => frames[f].val = v
  /\ (\A f \in from .. to : index[f] # p) => pages[p] = v

Sees(c, p, v) ==
  IF readLock[c] = 0 THEN db[p] = v
  ELSE Finds(wal.frames, db, idx, minFrame[c], hdr[c].mx, p, v)

(* The index with the frames of a batch that are not in it yet.            *)
Joined(index, frames, mx) ==
  [f \in DOMAIN index |-> IF f <= mx THEN index[f] ELSE frames[f].page]
Entries(c) == Joined(idx, wal.frames, hdr[c].mx)

(* Frames since the savepoint, up to one, are of pages in the sub-journal. *)
Undoable(s, mx, now, index, to) ==
  s # NoSaved =>
    /\ s.mx \in 0 .. mx
    /\ \A p \in Pages \ s.pages :
         now[p] = s.mine[p] /\ \A f \in s.mx + 1 .. to : index[f] # p

Resetting == {"restarted", "restartinfo", "ctrunc", "ctruncinfo"}
Zeroed == {"zero", "restart", "restarted", "restartinfo"}
Marked == {"verify", "frames", "publish"}
Drawn(c) == Owned(c) \/ pc[c] \in {"ctrunc", "ctruncinfo"}

(* Who has which lock, where. *)
LocksKept(c) ==
  /\ pc[c] \in Zeroed => readLock[c] = 0
  /\ pc[c] \in Marked => readLock[c] \in Marks
  /\ readLock[c] # -1 <=> pc[c] \in Zeroed \cup Marked \cup {"read", "write"}
  /\ pc[c] \in {"csalt", "ccopy"} <=> zeroExcl = c
  /\ pc[c] \in Resetting <=> marksExcl = c
  /\ Checkpointing(c) \/ pc[c] \in {"recover", "recovered"} => ckpter = c
  /\ readLock[c] = 0 => zeroExcl = None
  /\ readLock[c] \in Marks => marksExcl = None

(* Headers are older than the one that is shared, or newer of the writer.  *)
Older(h) == h.last <= committed /\ (h.salt = shm[1].salt => h.mx <= shm[1].mx)

HeadersKept(c) ==
  /\ Older(tmp[c])
  /\ ~Drawn(c) => Older(hdr[c])
  /\ Drawn(c) /\ hdr[c].salt # shm[1].salt =>
       /\ hdr[c].salt # 0
       /\ \A d \in Conns \ {c} : hdr[d].salt # hdr[c].salt
       /\ \A d \in Conns : tmp[d].salt # hdr[c].salt
       /\ shm[1].mx = 0 \/ pc[c] \in {"restarted", "ctrunc"}

(* The last commit can be read from the log and the database file.         *)
Latest ==
  /\ shm[1] = NoHdr => nBackfill = 0
  /\ (\A c \in Conns : pc[c] \notin {"restartinfo", "ctruncinfo"}) => nBackfill <= shm[1].mx
  /\ shm[1] # NoHdr =>
       /\ DOMAIN hist[shm[1].last] = Pages
       /\ \A p \in Pages :
            /\ Finds(wal.frames, db, idx, 1, shm[1].mx, p, hist[shm[1].last][p])
            /\ \A f \in 1 .. shm[1].mx :
                 LastIn(idx, shm[1].mx, p, f) /\ f <= nBackfill => db[p] = hist[shm[1].last][p]
  /\ (\A c \in Conns : ~Owned(c)) /\ shm[1].mx > 0 =>
       \A f \in Slots : f > shm[1].mx => idx[f] = 0

(* A mark keeps what is behind it out of the database file, and the log.   *)
MarksKept(c) ==
  /\ pc[c] \in {"lock", "verify"} => mark[c].i \in Marks /\ mark[c].at <= hdr[c].mx
  /\ pc[c] = "verify" => readLock[c] = mark[c].i
  /\ readLock[c] \in Marks => minFrame[c] \in 1 .. nBackfill + 1
  /\ readLock[c] \in Marks /\ pc[c] # "verify" =>
       marks[readLock[c]] <= IF pc[c] = "read" THEN hdr[c].mx ELSE shm[1].mx
  /\ readLock[c] \in Marks /\ pc[c] = "read" => hdr[c].mx <= shm[1].mx

ReaderSees(c) ==
  /\ pc[c] = "read" => /\ hdr[c].last >= 0
                       /\ \A p \in Pages : Sees(c, p, hist[hdr[c].last][p])
  /\ pc[c] \in {"zero", "read"} /\ readLock[c] = 0 /\ shm[1] = hdr[c] => nBackfill = hdr[c].mx
  /\ pc[c] = "recovered" => hdr[c].mx = 0 /\ nBackfill = 0

BatchKept(c) ==
  IF batch[c].commit THEN dirty[c] \subseteq batch[c].todo
  ELSE saved[c] # NoSaved => batch[c].todo \subseteq saved[c].pages

(* A writer sees what it has written, *)
WriteKept(c) ==
  /\ ~Owned(c) => saved[c] = NoSaved
  /\ pc[c] = "write" =>
       /\ shm[1].mx <= hdr[c].mx
       /\ readLock[c] = 0 => hdr[c] = shm[1] /\ nBackfill = hdr[c].mx
       /\ \A p \in Pages \ dirty[c] : Sees(c, p, mine[c][p])
       /\ Undoable(saved[c], hdr[c].mx, mine[c], idx, hdr[c].mx)
       /\ saved[c] # NoSaved => shm[1].mx <= saved[c].mx
  /\ Owned(c) /\ hdr[c].mx > 0 => \A f \in Slots : f > hdr[c].mx => idx[f] = 0

(* has written nothing while it restarts the log, *)
RestartKept(c) ==
  pc[c] \in {"restart", "restarted", "restartinfo"} \/ (writer = c /\ Owned(c) /\ pc[c] \in Marking) =>
    /\ pc[c] # "restarted" => hdr[c] = shm[1]
    /\ pc[c] = "restarted" => hdr[c].mx = 0 /\ hdr[c].salt # shm[1].salt
    /\ pc[c] \in {"restart", "restarted"} => nBackfill = shm[1].mx
    /\ pc[c] = "restartinfo" => hdr[c].mx = 0
    /\ last[c] = hdr[c].mx /\ batch[c].first = 0 /\ batch[c].todo # {}
    /\ \A p \in Pages \ dirty[c] : mine[c][p] = hist[shm[1].last][p]
    /\ Undoable(saved[c], hdr[c].mx, mine[c], idx, hdr[c].mx)
    /\ saved[c] # NoSaved => saved[c].mx = hdr[c].mx
    /\ BatchKept(c)

(* and what it is about to write, or has committed.                        *)
FramesKept(c) ==
  /\ pc[c] = "frames" =>
       /\ shm[1].mx <= hdr[c].mx /\ hdr[c].mx <= last[c]
       /\ batch[c].first \in {0, shm[1].mx + 1}
       /\ \A p \in Pages \ dirty[c] :
            Finds(wal.frames, db, Entries(c), minFrame[c], last[c], p, mine[c][p])
       /\ \A f \in hdr[c].mx + 1 .. last[c] : wal.frames[f].page \in Pages \ batch[c].todo
       /\ saved[c] # NoSaved => shm[1].mx <= saved[c].mx
       /\ ~batch[c].commit => Undoable(saved[c], hdr[c].mx, mine[c], Entries(c), last[c])
       /\ BatchKept(c)
       /\ batch[c].commit /\ batch[c].todo = {} => hist[txn[c]] = mine[c]
  /\ pc[c] = "publish" =>
       /\ shm[1].mx <= hdr[c].mx
       /\ hist[txn[c]] = mine[c]
       /\ \A p \in Pages : Finds(wal.frames, db, idx, minFrame[c], hdr[c].mx, p, mine[c][p])

(* A checkpoint copies the last frame of each page, of the log whose       *)
(* header it has read.                                                     *)
CkptKept(c) ==
  /\ pc[c] \in {"ckpt", "cmark", "czero", "csalt", "ccopy", "cdone"} /\ ckpt[c].mode # "passive" =>
       hdr[c] = shm[1]
  /\ pc[c] = "ctrunc" => hdr[c].mx = 0 /\ hdr[c].salt # shm[1].salt /\ nBackfill = shm[1].mx
  /\ pc[c] = "ctruncinfo" => hdr[c] = shm[1] /\ hdr[c].mx = 0
  /\ pc[c] \in {"ckpt", "cmark"} => ckpt[c].safe <= hdr[c].mx
  /\ pc[c] = "cmark" => ckpt[c].k >= 1
  /\ pc[c] \in {"czero", "csalt", "ccopy"} /\ SameLog(c) =>
       nBackfill < ckpt[c].safe /\ ckpt[c].safe <= hdr[c].mx
  /\ pc[c] \in {"czero", "csalt"} /\ SameLog(c) =>
       \A p \in Pages :
         /\ ckpt[c].plan[p] # 0 => /\ ckpt[c].plan[p] \in nBackfill + 1 .. hdr[c].mx
                                   /\ idx[ckpt[c].plan[p]] = p
         /\ \A f \in nBackfill + 1 .. hdr[c].mx : idx[f] = p => f <= ckpt[c].plan[p]
  /\ pc[c] = "ccopy" =>
       /\ SameLog(c)
       /\ \A p \in Pages :
            /\ ckpt[c].plan[p] # 0 => /\ ckpt[c].plan[p] \in nBackfill + 1 .. ckpt[c].safe
                                      /\ LastIn(idx, hdr[c].mx, p, ckpt[c].plan[p])
            /\ ckpt[c].plan[p] = 0 =>
                 \A f \in nBackfill + 1 .. ckpt[c].safe :
                   LastIn(idx, hdr[c].mx, p, f) => db[p] = wal.frames[f].val

(* It stops at the marks of readers.                                       *)
MarksHeeded(c, d) ==
  readLock[c] \in Marks /\ pc[c] # "verify" /\ SameLog(d)
    /\ pc[d] \in {"cmark", "czero", "csalt", "ccopy"} =>
       \/ ckpt[d].safe <= IF pc[c] = "read" THEN hdr[c].mx ELSE shm[1].mx
       \/ pc[d] = "cmark" /\ ckpt[d].k <= readLock[c]

Held(c) ==
  /\ LocksKept(c) /\ HeadersKept(c) /\ MarksKept(c) /\ ReaderSees(c)
  /\ WriteKept(c) /\ RestartKept(c) /\ FramesKept(c) /\ CkptKept(c)

Content ==
  /\ Sized /\ Latest
  /\ \A c \in Conns : Held(c) /\ \A d \in Conns : MarksHeeded(c, d)
-----------------------------------------------------------------------------
(* Numbers. *)

LEMMA Bounds ==
  ASSUME Inv
  PROVE  /\ MaxFrames \in Nat /\ NPages \in Nat /\ MaxTxn \in Nat /\ setting.marks \in Nat
         /\ Slots = 1 .. MaxFrames /\ Pages = 1 .. NPages /\ Marks = 1 .. setting.marks
         /\ 1 \in Pages
BY WalAssumption DEF Inv, Shaped, Setting, MaxFrames, MaxTxn, Slots, Pages, Marks

LEMMA SameBounds ==
  ASSUME setting' = setting
  PROVE  /\ MaxFrames' = MaxFrames /\ MaxTxn' = MaxTxn /\ Marks' = Marks /\ Slots' = Slots
         /\ Headers' = Headers /\ Unused' = Unused
BY DEF MaxFrames, MaxTxn, Marks, Slots, Headers, Unused

LEMMA LeastIs ==
  ASSUME NEW S \in SUBSET Nat, S # {}
  PROVE  Min(S) \in S /\ \A x \in S : Min(S) <= x
<1>1. \E x \in S : \A y \in S : ~ (<< y, x >> \in OpToRel(<, Nat))
  BY NatLessThanWellFounded, WFMin
<1>2. PICK x \in S : \A y \in S : ~ (<< y, x >> \in OpToRel(<, Nat))
  BY <1>1
<1>3. \A y \in S : x <= y
  <2> SUFFICES ASSUME NEW y \in S PROVE x <= y
    OBVIOUS
  <2>1. ~ (y < x)
    BY <1>2 DEF OpToRel
  <2> QED
    BY <2>1
<1> QED
  BY <1>3 DEF Min

LEMMA GreatestIs ==
  ASSUME NEW S \in SUBSET Nat, S # {}, NEW n \in Nat, \A x \in S : x <= n
  PROVE  Max(S) \in S /\ \A x \in S : Max(S) >= x
<1> DEFINE Left == {n - x : x \in S}
<1>1. Left # {} /\ Left \in SUBSET Nat
  <2>1. \A x \in S : n - x \in Nat
    OBVIOUS
  <2>2. Left \subseteq Nat
    BY <2>1
  <2> QED
    BY <2>2
<1>2. (\A x \in S : n - x \in Left) /\ \A l \in Left : \E x \in S : l = n - x
  OBVIOUS
<1> HIDE DEF Left
<1>3. Min(Left) \in Left /\ \A l \in Left : Min(Left) <= l
  BY <1>1, LeastIs
<1>4. PICK m \in S : Min(Left) = n - m
  BY <1>2, <1>3
<1>5. \A x \in S : m >= x
  BY <1>2, <1>3, <1>4
<1> QED
  BY <1>5 DEF Max

(* The last of the frames of a set, 0 if it has none.                      *)
LEMMA LastOfIs ==
  ASSUME NEW n \in Nat, NEW S \in SUBSET (0 .. n)
  PROVE  /\ LastOf(S) \in 0 .. n /\ (LastOf(S) = 0 \/ LastOf(S) \in S)
         /\ \A f \in S : f <= LastOf(S)
<1> DEFINE T == S \cup {0}
<1>1. T \in SUBSET Nat /\ T # {} /\ \A x \in T : x <= n
  OBVIOUS
<1>2. S \subseteq T /\ \A x \in T : x \in 0 .. n /\ (x = 0 \/ x \in S)
  OBVIOUS
<1>3. LastOf(S) = Max(T)
  BY DEF LastOf
<1> HIDE DEF T
<1>4. Max(T) \in T /\ \A x \in T : Max(T) >= x
  BY <1>1, GreatestIs
<1>5. \A x \in S : x <= Max(T) /\ x \in Nat
  BY <1>1, <1>2, <1>4
<1> QED
  BY <1>2, <1>3, <1>4, <1>5

(* A page that is in the log has a last frame.                             *)
LEMMA LastExists ==
  ASSUME NEW index, NEW from \in Nat, NEW to \in Nat, NEW p,
         NEW f \in from .. to, index[f] = p
  PROVE  \E g \in from .. to : LastIn(index, to, p, g) /\ f <= g
<1> DEFINE F == {g \in from .. to : index[g] = p}
<1>1. F # {} /\ F \in SUBSET Nat /\ \A x \in F : x <= to
  OBVIOUS
<1>2. Max(F) \in F /\ \A x \in F : Max(F) >= x
  BY <1>1, GreatestIs
<1>3. \A g \in Max(F) + 1 .. to : index[g] # p
  BY <1>2
<1> QED
  BY <1>2, <1>3 DEF LastIn

(* What a connection finds is what it sees in a page.                      *)
LEMMA ViewIs ==
  ASSUME Inv, Sized, NEW c \in Conns, NEW p \in Pages, NEW v,
         readLock[c] # 0 => minFrame[c] >= 1
  PROVE  Sees(c, p, v) <=> View(c, p) = v
<1> DEFINE m == minFrame[c]
           n == hdr[c].mx
           F == {f \in m .. n : idx[f] = p}
<1>1. n \in 0 .. MaxFrames /\ m \in 0 .. MaxFrames + 1 /\ MaxFrames \in Nat /\ n \in Nat /\ m \in Nat
  BY Bounds DEF Sized, SizedReader, Numbered
<1>2. CASE readLock[c] = 0
  BY <1>2 DEF Sees, View, FindFrame
<1>3. CASE readLock[c] # 0 /\ n = 0
  BY <1>1, <1>3 DEF Sees, View, FindFrame, Finds
<1>4. CASE readLock[c] # 0 /\ n # 0
  <2> DEFINE f == LastOf(F)
  <2>1. F \in SUBSET (0 .. n)
    BY <1>1
  <2>2. f \in 0 .. n /\ (f = 0 \/ f \in F) /\ \A g \in F : g <= f
    BY <1>1, <2>1, LastOfIs
  <2>3. FindFrame(c, p) = f
    BY <1>4 DEF FindFrame
  <2>4. Sees(c, p, v) <=> Finds(wal.frames, db, idx, m, n, p, v)
    BY <1>4 DEF Sees
  <2>5. View(c, p) = IF f = 0 THEN db[p] ELSE wal.frames[f].val
    BY <2>3 DEF View
  <2> HIDE DEF f
  <2>6. CASE f = 0
    <3>1. \A g \in m .. n : idx[g] # p
      BY <1>1, <1>4, <2>2, <2>6
    <3> QED
      BY <2>4, <2>5, <2>6, <3>1 DEF Finds, LastIn
  <2>7. CASE f # 0
    <3>1. f \in m .. n /\ idx[f] = p /\ \A g \in f + 1 .. n : idx[g] # p
      BY <1>1, <2>2, <2>7
    <3>2. \A g \in m .. n : LastIn(idx, n, p, g) <=> g = f
      BY <1>1, <2>2, <3>1 DEF LastIn
    <3> QED
      BY <2>4, <2>5, <2>7, <3>1, <3>2 DEF Finds
  <2> QED
    BY <2>6, <2>7
<1> QED
  BY <1>2, <1>3, <1>4

LEMMA ImageFinite ==
  ASSUME NEW S, IsFiniteSet(S), NEW f
  PROVE  IsFiniteSet({f[x] : x \in S})
<1> DEFINE T == {f[x] : x \in S}
<1>1. [x \in S |-> f[x]] \in Surjection(S, T)
  BY DEF Surjection
<1> QED
  BY <1>1, FS_Surjection

(* There is always a salt that is not in use.                              *)
LEMMA FreshIs ==
  ASSUME Inv
  PROVE  FreshSalt \in Nat \ {0} /\ FreshSalt \notin UsedSalts
<1> DEFINE U == UsedSalts
           N == Cardinality(U)
<1>1. IsFiniteSet(U)
  <2>1. IsFiniteSet({hdr[c].salt : c \in Conns}) /\ IsFiniteSet({tmp[c].salt : c \in Conns})
    <3> DEFINE h == [c \in Conns |-> hdr[c].salt]
               t == [c \in Conns |-> tmp[c].salt]
    <3>1. IsFiniteSet({h[c] : c \in Conns}) /\ IsFiniteSet({t[c] : c \in Conns})
      BY WalAssumption, ImageFinite
    <3> QED
      BY <3>1
  <2>2. \A w : IsFiniteSet(Salts(w))
    <3> SUFFICES ASSUME NEW w PROVE IsFiniteSet(Salts(w))
      OBVIOUS
    <3> DEFINE G == {g \in Slots : w.frames[g] # NoFrame}
    <3>1. IsFiniteSet(Slots)
      BY Bounds, FS_Interval
    <3>2. IsFiniteSet(G)
      BY <3>1, FS_Subset
    <3>3. IsFiniteSet({w.frames[f].ck[1][1] : f \in G})
      <4> DEFINE s == [f \in G |-> w.frames[f].ck[1][1]]
      <4> HIDE DEF G, s
      <4>1. IsFiniteSet({s[f] : f \in G})
        BY <3>2, ImageFinite
      <4> USE DEF s
      <4> QED
        BY <4>1
    <3> QED
      BY <3>3, FS_Singleton, FS_Union DEF Salts
  <2>3. IsFiniteSet({shm[1].salt, shm[2].salt})
    <3>1. {shm[1].salt, shm[2].salt} = {shm[1].salt} \cup {shm[2].salt}
      OBVIOUS
    <3>2. IsFiniteSet({shm[1].salt}) /\ IsFiniteSet({shm[2].salt})
      BY FS_Singleton
    <3>3. IsFiniteSet({shm[1].salt} \cup {shm[2].salt})
      BY <3>2, FS_Union
    <3> QED
      BY <3>1, <3>3
  <2> QED
    BY <2>1, <2>2, <2>3, FS_Union DEF UsedSalts
<1>2. N \in Nat
  BY <1>1, FS_CardinalityType
<1>3. (1 .. N + 1) \ U # {}
  <2> SUFFICES ASSUME 1 .. N + 1 \subseteq U PROVE FALSE
    OBVIOUS
  <2>1. Cardinality(1 .. N + 1) = N + 1
    BY <1>2, FS_Interval
  <2>2. Cardinality(1 .. N + 1) <= N
    BY <1>1, FS_Subset
  <2> QED
    BY <1>2, <2>1, <2>2
<1>4. Min((1 .. N + 1) \ U) \in (1 .. N + 1) \ U
  BY <1>2, <1>3, LeastIs, (1 .. N + 1) \ U \in SUBSET Nat
<1> QED
  BY <1>2, <1>4 DEF FreshSalt

(* What is found depends on the frames and the page that are looked at.    *)
LEMMA FindsSame ==
  ASSUME NEW fr, NEW pg, NEW ix, NEW fr2, NEW pg2, NEW ix2, NEW m \in Int, NEW n \in Int,
         NEW p, NEW v, pg2[p] = pg[p],
         \A f \in m .. n : ix2[f] = ix[f] /\ fr2[f].val = fr[f].val,
         Finds(fr, pg, ix, m, n, p, v)
  PROVE  Finds(fr2, pg2, ix2, m, n, p, v)
<1>1. ASSUME NEW f \in m .. n PROVE LastIn(ix2, n, p, f) <=> LastIn(ix, n, p, f)
  <2>1. \A g \in f + 1 .. n : g \in m .. n
    OBVIOUS
  <2> QED
    BY <2>1 DEF LastIn
<1> QED
  BY <1>1 DEF Finds

(* Frames that are in the database file need not be looked at: b of them   *)
(* are there, and n in the log.                                            *)
LEMMA FindsFrom ==
  ASSUME NEW fr, NEW pg, NEW ix, NEW n \in Nat, NEW b \in Nat, NEW m \in 1 .. b + 1,
         NEW p, NEW v, Finds(fr, pg, ix, 1, n, p, v),
         \A f \in 1 .. n : LastIn(ix, n, p, f) /\ f <= b => pg[p] = v
  PROVE  Finds(fr, pg, ix, m, n, p, v)
<1>1. \A f \in m .. n : f \in 1 .. n
  OBVIOUS
<1>2. ASSUME \A f \in m .. n : ix[f] # p PROVE pg[p] = v
  <2>1. CASE \A f \in 1 .. n : ix[f] # p
    BY <2>1 DEF Finds
  <2>2. CASE \E f \in 1 .. n : ix[f] = p
    <3>1. PICK f \in 1 .. n : LastIn(ix, n, p, f)
      BY <2>2, LastExists
    <3>2. f <= b
      BY <1>2, <3>1 DEF LastIn
    <3> QED
      BY <3>1, <3>2
  <2> QED
    BY <2>1, <2>2
<1> QED
  BY <1>1, <1>2 DEF Finds

LEMMA FindsNone ==
  ASSUME NEW fr, NEW pg, NEW ix, NEW n \in Nat, NEW p, NEW v, Finds(fr, pg, ix, 1, n, p, v),
         \A f \in 1 .. n : LastIn(ix, n, p, f) => pg[p] = v
  PROVE  pg[p] = v
<1>1. CASE \A f \in 1 .. n : ix[f] # p
  BY <1>1 DEF Finds
<1>2. CASE \E f \in 1 .. n : ix[f] = p
  BY <1>2, LastExists
<1> QED
  BY <1>1, <1>2

(* The pages of the first b of n frames are in the database file.          *)
Backed(fr, pg, ix, n, b, p, v) ==
  /\ Finds(fr, pg, ix, 1, n, p, v)
  /\ \A f \in 1 .. n : LastIn(ix, n, p, f) /\ f <= b => pg[p] = v

(* A transaction that began with n frames, and looked at those from m on,  *)
(* has added some.                                                         *)
LEMMA FindsAll ==
  ASSUME NEW fr, NEW pg, NEW ix, NEW n \in Nat, NEW b \in Nat, b <= n, NEW m \in 1 .. b + 1,
         NEW n2 \in Nat, n <= n2, NEW p, NEW v, NEW w,
         Backed(fr, pg, ix, n, b, p, w), Finds(fr, pg, ix, m, n2, p, v)
  PROVE  Backed(fr, pg, ix, n2, b, p, v)
<1> USE DEF Backed
<1>1. ASSUME NEW f \in 1 .. n2, LastIn(ix, n2, p, f), f <= b
      PROVE  pg[p] = v /\ fr[f].val = v
  <2>1. f \in 1 .. n /\ LastIn(ix, n, p, f)
    BY <1>1 DEF LastIn
  <2>2. pg[p] = w /\ fr[f].val = w
    BY <1>1, <2>1 DEF Finds
  <2>3. CASE f >= m
    <3>1. f \in m .. n2
      BY <2>3
    <3> QED
      BY <1>1, <2>2, <3>1 DEF Finds
  <2>4. CASE f < m
    <3>1. \A g \in m .. n2 : g \in f + 1 .. n2
      BY <2>4
    <3>2. pg[p] = v
      BY <1>1, <3>1 DEF Finds, LastIn
    <3> QED
      BY <2>2, <3>2
  <2> QED
    BY <2>3, <2>4
<1>2. ASSUME NEW f \in 1 .. n2, LastIn(ix, n2, p, f) PROVE fr[f].val = v
  <2>1. CASE f <= b
    BY <1>1, <1>2, <2>1
  <2>2. CASE f > b
    <3>1. f \in m .. n2
      BY <2>2
    <3> QED
      BY <1>2, <3>1 DEF Finds
  <2> QED
    BY <2>1, <2>2
<1>3. ASSUME \A f \in 1 .. n2 : ix[f] # p PROVE pg[p] = v
  BY <1>3 DEF Finds
<1> QED
  BY <1>1, <1>2, <1>3 DEF Finds

(* What the type says of one connection. *)
LEMMA Numbers ==
  ASSUME Inv, Sized
  PROVE  /\ MaxFrames \in Nat /\ nBackfill \in Nat /\ nBackfill <= MaxFrames
         /\ shm[1].mx \in Nat /\ shm[1].mx <= MaxFrames /\ shm[1].last \in Int
         /\ \A c \in Conns :
              /\ hdr[c].mx \in Nat /\ hdr[c].mx <= MaxFrames /\ hdr[c].last \in Int
              /\ tmp[c].mx \in Nat /\ tmp[c].mx <= MaxFrames /\ tmp[c].last \in Int
              /\ minFrame[c] \in Nat /\ last[c] \in Nat /\ last[c] <= MaxFrames
              /\ readLock[c] \in {-1, 0} \cup Marks
         /\ \A i \in Marks : i \in Nat \ {0} /\ marks[i] \in Nat
<1>1. MaxFrames \in Nat /\ setting.marks \in Nat /\ Marks = 1 .. setting.marks
  BY Bounds
<1> QED
  BY <1>1 DEF Sized, SizedShared, SizedReader, SizedWriter, Numbered

LEMMA CkptNumbers ==
  ASSUME Inv, Sized, NEW c \in Conns
  PROVE  /\ ckpt[c].safe \in Nat /\ ckpt[c].safe <= MaxFrames /\ ckpt[c].k \in Nat
         /\ \A p \in Pages : ckpt[c].plan[p] \in Nat
         /\ ckpt[c].mode \in {"none", "passive", "full", "restart", "truncate"}
BY Bounds DEF Sized, SizedCkpt
-----------------------------------------------------------------------------
(* A step that changes, of what the others see, nothing but marks and      *)
(* locks that they do not hold, and frames beyond those that are shared.   *)
Unmoved(d) ==
  /\ readLock'[d] = readLock[d] /\ mark'[d] = mark[d] /\ minFrame'[d] = minFrame[d]
  /\ mine'[d] = mine[d] /\ dirty'[d] = dirty[d] /\ saved'[d] = saved[d]
  /\ batch'[d] = batch[d] /\ last'[d] = last[d]

Moves(c) == Inv' /\ Order' /\ Steps(c) /\ Sized' /\ \A d \in Conns \ {c} : Unmoved(d)

(* What is written is a transaction, and what it writes is beyond the log  *)
(* that is shared.                                                         *)
LogUnchanged(c) ==
  \/ idx' = idx /\ wal'.frames = wal.frames /\ hist' = hist
  \/ /\ Owned(c)
     /\ \A f \in 1 .. shm[1].mx : idx'[f] = idx[f] /\ wal'.frames[f].val = wal.frames[f].val
     /\ \A t \in 0 .. committed : hist'[t] = hist[t]

Lock(lock, next, c) == next = lock \/ (lock \in {None, c} /\ next \in {None, c})

LocksUnchanged(c) ==
  /\ Lock(zeroExcl, zeroExcl', c) /\ Lock(marksExcl, marksExcl', c) /\ Lock(ckpter, ckpter', c)
  /\ zeroExcl' = c => zeroExcl = c \/ \A d \in Conns \ {c} : readLock[d] # 0
  /\ marksExcl' = c => marksExcl = c \/ \A d \in Conns \ {c} : readLock[d] \notin Marks

SaltsKnown(c) ==
  /\ \/ hdr'[c].salt \in {hdr[c].salt, tmp[c].salt, shm[1].salt, 0}
     \/ hdr'[c].salt \notin UsedSalts
  /\ tmp'[c].salt \in {tmp[c].salt, shm[1].salt, 0}

Hidden(c) ==
  /\ db' = db /\ nBackfill' = nBackfill /\ committed' = committed /\ shm'[1] = shm[1]
  /\ LogUnchanged(c) /\ LocksUnchanged(c) /\ SaltsKnown(c)
  /\ \A d \in Conns \ {c} : readLock[d] \in Marks => marks'[readLock[d]] = marks[readLock[d]]
  /\ pc[c] \notin {"restartinfo", "ctruncinfo"}
  /\ Owned(c) /\ ~Owned(c)' /\ shm[1].mx > 0 => \A f \in Slots : f > shm[1].mx => idx'[f] = 0

LEMMA SaltsUsed ==
  /\ \A d \in Conns : hdr[d].salt \in UsedSalts /\ tmp[d].salt \in UsedSalts
  /\ shm[1].salt \in UsedSalts
BY DEF UsedSalts

(* What another connection holds does not change with it. *)
LEMMA Others ==
  ASSUME Inv, Order, Content, NEW c \in Conns, Moves(c), NEW d \in Conns \ {c}
  PROVE  /\ Same(d) /\ Unmoved(d) /\ d # None /\ d # c
         /\ (writer' = d <=> writer = d) /\ (Owned(d)' <=> Owned(d)) /\ (Owned(d) => writer = d)
         /\ (Drawn(d)' <=> Drawn(d)) /\ (Drawn(d) => writer = d)
         /\ setting' = setting /\ Marks' = Marks /\ MaxFrames' = MaxFrames
<1>1. Same(d) /\ Unmoved(d) /\ d # None /\ d # c /\ setting' = setting
  BY SomeConn DEF Moves, Steps, Only
<1>2. writer' = d <=> writer = d
  BY <1>1, SomeConn DEF Moves, Steps
<1>3. LockHeld(d)
  BY DEF Inv, Kept
<1>4. Owned(d) => writer = d
  BY <1>3 DEF LockHeld, Owned
<1>5. Drawn(d) => writer = d
  BY <1>3, <1>4 DEF LockHeld, Drawn
<1>6. Owned(d)' <=> Owned(d)
  BY <1>1, <1>2 DEF Owned, Same
<1>7. Drawn(d)' <=> Drawn(d)
  BY <1>1, <1>6 DEF Drawn, Same
<1> QED
  BY <1>1, <1>2, <1>4, <1>5, <1>6, <1>7 DEF Marks, MaxFrames

LEMMA HiddenLocks ==
  ASSUME Inv, Order, Content, NEW c \in Conns, Moves(c), Hidden(c), NEW d \in Conns \ {c}
  PROVE  LocksKept(d)'
<1>1. /\ Same(d) /\ Unmoved(d) /\ d # None /\ d # c /\ c # None /\ LocksKept(d) /\ Marks' = Marks
  BY Others, SomeConn DEF Content, Held
<1>2. zeroExcl' = d <=> zeroExcl = d
  BY <1>1 DEF Hidden, LocksUnchanged, Lock
<1>3. marksExcl' = d <=> marksExcl = d
  BY <1>1 DEF Hidden, LocksUnchanged, Lock
<1>4. ckpter = d => ckpter' = d
  BY <1>1 DEF Hidden, LocksUnchanged, Lock
<1>5. readLock[d] = 0 => zeroExcl' = None
  BY <1>1 DEF Hidden, LocksUnchanged, Lock, LocksKept
<1>6. readLock[d] \in Marks => marksExcl' = None
  BY <1>1 DEF Hidden, LocksUnchanged, Lock, LocksKept
<1> QED
  BY <1>1, <1>2, <1>3, <1>4, <1>5, <1>6 DEF LocksKept, Same, Unmoved, Checkpointing

LEMMA HiddenHeaders ==
  ASSUME Inv, Order, Content, NEW c \in Conns, Moves(c), Hidden(c), NEW d \in Conns \ {c}
  PROVE  HeadersKept(d)'
<1>1. /\ Same(d) /\ d # c /\ HeadersKept(d) /\ (Drawn(d)' <=> Drawn(d))
      /\ shm'[1] = shm[1] /\ committed' = committed
  BY Others DEF Content, Held, Hidden
<1>2. Older(tmp[d])' /\ (~Drawn(d)' => Older(hdr[d])')
  BY <1>1 DEF HeadersKept, Older, Same
<1>3. ASSUME Drawn(d), hdr[d].salt # shm[1].salt
      PROVE  /\ hdr[d].salt # 0 /\ hdr'[c].salt # hdr[d].salt /\ tmp'[c].salt # hdr[d].salt
             /\ \A e \in Conns \ {c, d} : hdr'[e].salt # hdr[d].salt
             /\ \A e \in Conns \ {c} : tmp'[e].salt # hdr[d].salt
  <2>1. /\ hdr[d].salt # 0 /\ hdr[c].salt # hdr[d].salt /\ tmp[c].salt # hdr[d].salt
        /\ \A e \in Conns \ {d} : hdr[e].salt # hdr[d].salt
        /\ \A e \in Conns : tmp[e].salt # hdr[d].salt
    BY <1>1, <1>3 DEF HeadersKept
  <2>2. \A e \in Conns \ {c} : Same(e)
    BY Others
  <2> QED
    BY <1>3, <2>1, <2>2, SaltsUsed DEF Hidden, SaltsKnown, Same
<1>4. Drawn(d)' /\ hdr'[d].salt # shm'[1].salt =>
        /\ \A e \in Conns \ {d} : hdr'[e].salt # hdr'[d].salt
        /\ \A e \in Conns : tmp'[e].salt # hdr'[d].salt
        /\ hdr'[d].salt # 0
        /\ shm'[1].mx = 0 \/ pc'[d] \in {"restarted", "ctrunc"}
  BY <1>1, <1>3 DEF Same, HeadersKept
<1> QED
  BY <1>2, <1>4 DEF HeadersKept

LEMMA HiddenMarks ==
  ASSUME Inv, Order, Content, NEW c \in Conns, Moves(c), Hidden(c), NEW d \in Conns \ {c}
  PROVE  MarksKept(d)'
<1>1. /\ Same(d) /\ Unmoved(d) /\ d # c /\ MarksKept(d) /\ Marks' = Marks
      /\ shm'[1] = shm[1] /\ nBackfill' = nBackfill
      /\ readLock[d] \in Marks => marks'[readLock[d]] = marks[readLock[d]]
  BY Others DEF Content, Held, Hidden
<1> QED
  BY <1>1 DEF MarksKept, Same, Unmoved

(* The log that others look at.                                            *)
LEMMA HiddenData ==
  ASSUME Inv, Order, Content, NEW c \in Conns, Moves(c), Hidden(c)
  PROVE  /\ db' = db /\ nBackfill' = nBackfill /\ committed' = committed /\ shm'[1] = shm[1]
         /\ \A f \in 1 .. shm[1].mx : idx'[f] = idx[f] /\ wal'.frames[f].val = wal.frames[f].val
         /\ \A t \in 0 .. committed : hist'[t] = hist[t]
         /\ \A d \in Conns \ {c} :
              Owned(d) => idx' = idx /\ wal'.frames = wal.frames /\ hist' = hist
<1>1. ASSUME NEW d \in Conns \ {c}, Owned(d) PROVE ~Owned(c)
  <2>1. writer = d
    BY <1>1, Others
  <2>2. LockHeld(c)
    BY DEF Inv, Kept
  <2> QED
    BY <2>1, <2>2 DEF LockHeld, Owned
<1> QED
  BY <1>1 DEF Hidden, LogUnchanged

(* Where a header that is not drawn yet stops.                             *)
LEMMA HeaderInLog ==
  ASSUME Inv, Order, Content, NEW d \in Conns, ~Drawn(d)
  PROVE  /\ hdr[d].last <= committed
         /\ SameLog(d) => hdr[d].mx <= shm[1].mx
BY DEF Content, Held, HeadersKept, Older, SameLog

LEMMA HiddenReader ==
  ASSUME Inv, Order, Content, NEW c \in Conns, Moves(c), Hidden(c), NEW d \in Conns \ {c}
  PROVE  ReaderSees(d)'
<1>1. /\ Same(d) /\ Unmoved(d) /\ d # c /\ ReaderSees(d) /\ MarksKept(d)
      /\ LocksKept(d)
  BY Others DEF Content, Held
<1>2. ASSUME pc[d] = "read", NEW p \in Pages PROVE Sees(d, p, hist[hdr[d].last][p])'
  <2>1. ~Drawn(d)
    BY <1>2 DEF Drawn, Owned, Writing, Marking
  <2>2. hdr[d].last \in 0 .. committed
    <3>1. hdr[d].last \in Int /\ committed \in Nat
      BY Numbers DEF Content, Order, LastShown
    <3>2. hdr[d].last >= 0
      BY <1>1, <1>2 DEF ReaderSees
    <3> QED
      BY <2>1, <3>1, <3>2, HeaderInLog
  <2>3. hist'[hdr'[d].last] = hist[hdr[d].last] /\ db' = db
    BY <1>1, <2>2, HiddenData DEF Same
  <2> DEFINE v == hist[hdr[d].last][p]
  <2>4. Sees(d, p, v)
    BY <1>1, <1>2 DEF ReaderSees
  <2>5. CASE readLock[d] = 0
    BY <1>1, <2>3, <2>4, <2>5 DEF Sees, Unmoved
  <2>6. CASE readLock[d] # 0
    <3>1. readLock[d] \in Marks
      BY <1>1, <1>2, <2>6 DEF LocksKept, Content, Sized, SizedReader
    <3>2. hdr[d].mx <= shm[1].mx /\ minFrame[d] >= 1
      BY <1>1, <1>2, <3>1, Numbers DEF MarksKept, Content
    <3>3. hdr[d].mx \in Int /\ minFrame[d] \in Int /\ shm[1].mx \in Int
      BY Numbers DEF Content
    <3>4. \A f \in minFrame[d] .. hdr[d].mx : f \in 1 .. shm[1].mx
      BY <3>2, <3>3
    <3>5. Finds(wal.frames, db, idx, minFrame[d], hdr[d].mx, p, v)
      BY <2>4, <2>6 DEF Sees
    <3> HIDE DEF v
    <3>6. Finds(wal'.frames, db', idx', minFrame[d], hdr[d].mx, p, v)
      BY <2>3, <3>3, <3>4, <3>5, HiddenData, FindsSame
    <3> QED
      BY <1>1, <2>3, <2>6, <3>6 DEF Sees, Same, Unmoved, v
  <2> QED
    BY <2>5, <2>6
<1>3. nBackfill' = nBackfill /\ shm'[1] = shm[1]
  BY DEF Hidden
<1> QED
  BY <1>1, <1>2, <1>3 DEF ReaderSees, Same, Unmoved

LEMMA HiddenWriting ==
  ASSUME Inv, Order, Content, NEW c \in Conns, Moves(c), Hidden(c), NEW d \in Conns \ {c}
  PROVE  WriteKept(d)' /\ RestartKept(d)' /\ FramesKept(d)'
<1>1. /\ Same(d) /\ Unmoved(d) /\ d # c /\ WriteKept(d) /\ RestartKept(d) /\ FramesKept(d)
      /\ (writer' = d <=> writer = d) /\ (Owned(d)' <=> Owned(d))
      /\ Slots' = Slots
  BY Others, SameBounds DEF Content, Held
<1>2. shm'[1] = shm[1] /\ nBackfill' = nBackfill /\ db' = db
  BY DEF Hidden
<1>3. CASE ~Owned(d)
  BY <1>1, <1>3 DEF WriteKept, RestartKept, FramesKept, Owned, Writing, Same, Unmoved
<1>4. CASE Owned(d)
  <2>1. idx' = idx /\ wal'.frames = wal.frames /\ hist' = hist
    BY <1>4, HiddenData
  <2>2. Entries(d)' = Entries(d) /\ (BatchKept(d)' <=> BatchKept(d))
    BY <1>1, <2>1 DEF Entries, Same, Unmoved, BatchKept
  <2>3. \A p, v : Sees(d, p, v)' <=> Sees(d, p, v)
    BY <1>1, <1>2, <2>1 DEF Sees, Same, Unmoved
  <2>4. WriteKept(d)'
    BY <1>1, <1>2, <2>1, <2>3 DEF WriteKept, Same, Unmoved
  <2>5. RestartKept(d)'
    BY <1>1, <1>2, <2>1, <2>2 DEF RestartKept, Same, Unmoved
  <2>6. FramesKept(d)'
    BY <1>1, <1>2, <2>1, <2>2 DEF FramesKept, Same, Unmoved
  <2> QED
    BY <2>4, <2>5, <2>6
<1> QED
  BY <1>3, <1>4

LEMMA HiddenCkpt ==
  ASSUME Inv, Order, Content, NEW c \in Conns, Moves(c), Hidden(c), NEW d \in Conns \ {c}
  PROVE  CkptKept(d)'
<1>1. /\ Same(d) /\ d # c /\ CkptKept(d)
      /\ shm'[1] = shm[1] /\ nBackfill' = nBackfill /\ db' = db
  BY Others DEF Content, Held, Hidden
<1>2. pc[d] \in {"czero", "csalt", "ccopy"} => ~Drawn(d)
  BY DEF Drawn, Owned, Writing, Marking
<1>3. hdr[d].mx \in Nat /\ shm[1].mx \in Nat /\ nBackfill \in Nat
  BY Numbers DEF Content
<1>4. ASSUME pc[d] \in {"czero", "csalt", "ccopy"}, SameLog(d)
      PROVE  \A f \in nBackfill + 1 .. hdr[d].mx : idx'[f] = idx[f] /\ wal'.frames[f].val = wal.frames[f].val
  <2>1. hdr[d].mx <= shm[1].mx
    BY <1>2, <1>4, HeaderInLog
  <2> QED
    BY <1>3, <2>1, HiddenData
<1>5. SameLog(d)' <=> SameLog(d)
  BY <1>1 DEF SameLog, Same
<1>6. ckpt[d].safe \in Nat /\ \A p \in Pages : ckpt[d].plan[p] \in Nat
  BY CkptNumbers DEF Content
<1>7. ASSUME pc[d] \in {"czero", "csalt"}, SameLog(d), NEW p \in Pages
      PROVE  /\ ckpt[d].plan[p] # 0 => /\ ckpt[d].plan[p] \in nBackfill + 1 .. hdr[d].mx
                                       /\ idx'[ckpt[d].plan[p]] = p
             /\ \A f \in nBackfill + 1 .. hdr[d].mx : idx'[f] = p => f <= ckpt[d].plan[p]
  BY <1>1, <1>4, <1>7 DEF CkptKept
<1>8. ASSUME pc[d] = "ccopy", NEW p \in Pages
      PROVE  /\ ckpt[d].plan[p] # 0 => /\ ckpt[d].plan[p] \in nBackfill + 1 .. ckpt[d].safe
                                       /\ LastIn(idx', hdr[d].mx, p, ckpt[d].plan[p])
             /\ ckpt[d].plan[p] = 0 =>
                  \A f \in nBackfill + 1 .. ckpt[d].safe :
                    LastIn(idx', hdr[d].mx, p, f) => db[p] = wal'.frames[f].val
  <2>1. SameLog(d) /\ ckpt[d].safe <= hdr[d].mx
    BY <1>1, <1>8 DEF CkptKept
  <2>2. ASSUME NEW f \in nBackfill + 1 .. ckpt[d].safe
        PROVE  LastIn(idx', hdr[d].mx, p, f) <=> LastIn(idx, hdr[d].mx, p, f)
    <3>1. f \in nBackfill + 1 .. hdr[d].mx
          /\ \A g \in f + 1 .. hdr[d].mx : g \in nBackfill + 1 .. hdr[d].mx
      BY <1>3, <1>6, <2>1
    <3> QED
      BY <1>4, <1>8, <2>1, <3>1 DEF LastIn
  <2>3. \A f \in nBackfill + 1 .. ckpt[d].safe : wal'.frames[f].val = wal.frames[f].val
    BY <1>3, <1>4, <1>6, <1>8, <2>1
  <2> QED
    BY <1>1, <1>8, <2>2, <2>3 DEF CkptKept
<1> QED
  BY <1>1, <1>5, <1>7, <1>8 DEF CkptKept, Same

LEMMA HiddenHeeded ==
  ASSUME Inv, Order, Content, NEW c \in Conns, Moves(c), Hidden(c),
         NEW d \in Conns \ {c}, NEW e \in Conns \ {c}
  PROVE  MarksHeeded(d, e)'
<1>1. /\ Same(d) /\ Unmoved(d) /\ Same(e) /\ Marks' = Marks /\ MarksHeeded(d, e)
      /\ shm'[1] = shm[1]
  BY Others DEF Content, Hidden
<1> QED
  BY <1>1 DEF MarksHeeded, SameLog, Same, Unmoved

LEMMA HiddenLatest ==
  ASSUME Inv, Order, Content, NEW c \in Conns, Moves(c), Hidden(c)
  PROVE  Latest'
<1>1. /\ db' = db /\ nBackfill' = nBackfill /\ committed' = committed /\ shm'[1] = shm[1]
      /\ \A f \in 1 .. shm[1].mx : idx'[f] = idx[f] /\ wal'.frames[f].val = wal.frames[f].val
      /\ \A t \in 0 .. committed : hist'[t] = hist[t]
  BY HiddenData
<1>2. shm[1].mx \in Nat /\ nBackfill \in Nat /\ Latest /\ Slots' = Slots
  BY Numbers, SameBounds DEF Content, Moves, Steps
<1>3. ASSUME \A d \in Conns : pc'[d] \notin {"restartinfo", "ctruncinfo"}
      PROVE  nBackfill <= shm[1].mx
  <2>1. ASSUME NEW d \in Conns \ {c} PROVE pc[d] = pc'[d]
    BY Others DEF Same
  <2>2. \A d \in Conns : pc[d] \notin {"restartinfo", "ctruncinfo"}
    BY <1>3, <2>1 DEF Hidden
  <2> QED
    BY <1>2, <2>2 DEF Latest
<1>4. ASSUME shm[1] # NoHdr
      PROVE  /\ DOMAIN hist'[shm[1].last] = Pages
             /\ \A p \in Pages :
                  /\ Finds(wal'.frames, db, idx', 1, shm[1].mx, p, hist'[shm[1].last][p])
                  /\ \A f \in 1 .. shm[1].mx :
                       LastIn(idx', shm[1].mx, p, f) /\ f <= nBackfill => db[p] = hist'[shm[1].last][p]
  <2>1. shm[1].last \in 0 .. committed
    BY <1>4 DEF Order, LastShown
  <2>2. hist'[shm[1].last] = hist[shm[1].last]
    BY <1>1, <2>1
  <2>3. ASSUME NEW p \in Pages
        PROVE  Finds(wal'.frames, db, idx', 1, shm[1].mx, p, hist[shm[1].last][p])
    <3> DEFINE v == hist[shm[1].last][p]
    <3>1. Finds(wal.frames, db, idx, 1, shm[1].mx, p, v)
      BY <1>2, <1>4 DEF Latest
    <3> HIDE DEF v
    <3>2. Finds(wal'.frames, db, idx', 1, shm[1].mx, p, v)
      BY <1>1, <1>2, <3>1, FindsSame
    <3> QED
      BY <3>2 DEF v
  <2>4. ASSUME NEW p \in Pages, NEW f \in 1 .. shm[1].mx, LastIn(idx', shm[1].mx, p, f)
        PROVE  LastIn(idx, shm[1].mx, p, f)
    <3>1. \A g \in f + 1 .. shm[1].mx : g \in 1 .. shm[1].mx
      BY <1>2
    <3> QED
      BY <1>1, <2>4, <3>1 DEF LastIn
  <2> QED
    BY <1>2, <1>4, <2>2, <2>3, <2>4 DEF Latest
<1>5. ASSUME \A d \in Conns : ~Owned(d)', shm[1].mx > 0, NEW f \in Slots, f > shm[1].mx
      PROVE  idx'[f] = 0
  <2>1. CASE Owned(c)
    BY <1>5, <2>1 DEF Hidden
  <2>2. CASE ~Owned(c)
    <3>1. \A d \in Conns : ~Owned(d)
      BY <1>5, <2>2, Others
    <3>2. idx' = idx
      BY <2>2 DEF Hidden, LogUnchanged
    <3> QED
      BY <1>2, <1>5, <3>1, <3>2 DEF Latest
  <2> QED
    BY <2>1, <2>2
<1> QED
  BY <1>1, <1>2, <1>3, <1>4, <1>5 DEF Latest

(* What is left to show of a hidden step: what it leaves itself.           *)
LEMMA OneContent ==
  ASSUME Inv, Order, Content, NEW c \in Conns, Moves(c), Hidden(c), Held(c)',
         \A d \in Conns \ {c} : MarksHeeded(c, d)' /\ MarksHeeded(d, c)'
  PROVE  Content'
<1>1. ASSUME NEW d \in Conns \ {c} PROVE Held(d)'
  BY HiddenLocks, HiddenHeaders, HiddenMarks, HiddenReader, HiddenWriting, HiddenCkpt DEF Held
<1>2. MarksHeeded(c, c)'
  <2>1. -1 \notin Marks'
    BY Bounds, SameBounds DEF Moves, Steps
  <2> QED
    BY <2>1 DEF Held, LocksKept, MarksHeeded, Zeroed, Marked
<1>3. \A d, e \in Conns : MarksHeeded(d, e)'
  BY <1>2, HiddenHeeded
<1> QED
  BY <1>1, <1>3, HiddenLatest DEF Moves, Content

(* One frame after the other enters the index, as a function that is       *)
(* defined by recursion on them.                                           *)
Entering(c, n, g) ==
  g = [f \in hdr[c].mx .. n |->
        IF f = hdr[c].mx THEN idx
        ELSE IndexAppend(g[f - 1], f, wal.frames[f].page, hdr[c].mx)]

LEMMA EnteringExists ==
  ASSUME NEW c \in Conns, hdr[c].mx \in Nat, NEW n \in Nat, n >= hdr[c].mx
  PROVE  \E g : Entering(c, n, g)
<1> DEFINE S == {m \in Nat : m >= hdr[c].mx /\ ~ \E g : Entering(c, m, g)}
<1>1. SUFFICES ASSUME S # {} PROVE FALSE
  BY <1>1
<1>2. PICK m \in S : \A x \in S : m <= x
  <2>1. S \in SUBSET Nat
    OBVIOUS
  <2> QED
    BY <1>1, <2>1, LeastIs
<1>3. CASE m = hdr[c].mx
  <2> DEFINE g == [f \in m .. m |-> idx]
  <2>1. Entering(c, m, g)
    BY <1>2, <1>3 DEF Entering
  <2> QED
    BY <1>2, <2>1
<1>4. CASE m > hdr[c].mx
  <2>1. m - 1 \in Nat /\ m - 1 >= hdr[c].mx /\ ~(m <= m - 1)
    BY <1>2, <1>4
  <2>2. PICK g : Entering(c, m - 1, g)
    BY <1>2, <2>1
  <2> DEFINE G == [f \in hdr[c].mx .. m |->
                    IF f = m THEN IndexAppend(g[m - 1], m, wal.frames[m].page, hdr[c].mx) ELSE g[f]]
  <2>3. ASSUME NEW f \in hdr[c].mx .. m
        PROVE  G[f] = IF f = hdr[c].mx THEN idx
                      ELSE IndexAppend(G[f - 1], f, wal.frames[f].page, hdr[c].mx)
    <3>1. CASE f = m
      <4>1. G[f - 1] = g[m - 1] /\ f # hdr[c].mx
        BY <1>4, <2>1, <3>1
      <4> QED
        BY <3>1, <4>1
    <3>2. CASE f # m
      <4>1. G[f] = g[f]
        BY <3>2
      <4>2. f \in hdr[c].mx .. m - 1
        BY <1>2, <1>4, <3>2
      <4>3. g[f] = IF f = hdr[c].mx THEN idx
                   ELSE IndexAppend(g[f - 1], f, wal.frames[f].page, hdr[c].mx)
        <5> HIDE DEF G
        <5> QED
          BY <2>2, <4>2 DEF Entering
      <4>4. f # hdr[c].mx => G[f - 1] = g[f - 1]
        <5>1. f # hdr[c].mx => f - 1 \in hdr[c].mx .. m /\ f - 1 # m
          BY <1>2, <1>4, <4>2
        <5> QED
          BY <5>1
      <4> HIDE DEF G
      <4> QED
        BY <4>1, <4>3, <4>4
    <3> QED
      BY <3>1, <3>2
  <2>4. Entering(c, m, G)
    BY <2>3 DEF Entering
  <2> QED
    BY <1>2, <2>4
<1> QED
  BY <1>2, <1>3, <1>4

LEMMA IndexAfterEnters ==
  ASSUME NEW c \in Conns, hdr[c].mx \in Nat, last[c] \in Nat, last[c] >= hdr[c].mx
  PROVE  \E g : Entering(c, last[c], g) /\ IndexAfter(c) = g[last[c]]
<1> DEFINE G == CHOOSE g : Entering(c, last[c], g)
<1>1. Entering(c, last[c], G)
  BY EnteringExists
<1>2. IndexAfter(c) = G[last[c]]
  BY DEF IndexAfter, Entering
<1> QED
  BY <1>1, <1>2

(* The index has the frames up to mx as before, then those of the log up   *)
(* to n, and nothing behind them.                                          *)
Entered(c, n, index) ==
  /\ DOMAIN index = Slots
  /\ \A f \in Slots :
       /\ f <= hdr[c].mx => index[f] = idx[f]
       /\ hdr[c].mx < f /\ f <= n => index[f] = wal.frames[f].page
       /\ f > n /\ n > 0 => index[f] = 0

LEMMA IndexAfterIs ==
  ASSUME Inv, Sized, NEW c \in Conns, last[c] >= hdr[c].mx,
         hdr[c].mx > 0 => \A f \in Slots : f > hdr[c].mx => idx[f] = 0
  PROVE  Entered(c, last[c], IndexAfter(c))
<1>1. /\ hdr[c].mx \in Nat /\ last[c] \in Nat /\ last[c] <= MaxFrames /\ MaxFrames \in Nat
      /\ Slots = 1 .. MaxFrames /\ DOMAIN idx = Slots
  BY Numbers, Bounds DEF Sized, SizedShared
<1>2. PICK g : Entering(c, last[c], g) /\ IndexAfter(c) = g[last[c]]
  BY <1>1, IndexAfterEnters
<1> DEFINE S == {m \in hdr[c].mx .. last[c] : ~Entered(c, m, g[m])}
<1>3. S = {}
  <2> SUFFICES ASSUME S # {} PROVE FALSE
    OBVIOUS
  <2>1. PICK m \in S : \A x \in S : m <= x
    <3>1. S \in SUBSET Nat
      BY <1>1
    <3> QED
      BY <3>1, LeastIs
  <2>2. m \in hdr[c].mx .. last[c] /\ ~Entered(c, m, g[m])
    BY <2>1
  <2>3. CASE m = hdr[c].mx
    <3>1. g[m] = idx
      BY <1>2, <2>2, <2>3 DEF Entering
    <3> QED
      BY <1>1, <2>2, <2>3, <3>1 DEF Entered
  <2>4. CASE m # hdr[c].mx
    <3> DEFINE index == g[m - 1]
    <3>1. m - 1 \in hdr[c].mx .. last[c] /\ m - 1 \notin S /\ m \in Slots /\ m - 1 \in Nat
      BY <1>1, <2>1, <2>2, <2>4
    <3>2. Entered(c, m - 1, index)
      BY <3>1
    <3>3. g[m] = IndexAppend(index, m, wal.frames[m].page, hdr[c].mx)
      BY <1>2, <2>2, <2>4 DEF Entering
    <3> HIDE DEF index
    <3>4. m = 1 \/ index[m] = 0
      BY <1>1, <3>1, <3>2 DEF Entered
    <3>5. DOMAIN g[m] = Slots
      BY <3>3 DEF IndexAppend
    <3>6. ASSUME NEW f \in Slots
          PROVE  /\ f <= hdr[c].mx => g[m][f] = idx[f]
                 /\ hdr[c].mx < f /\ f <= m => g[m][f] = wal.frames[f].page
                 /\ f > m /\ m > 0 => g[m][f] = 0
      <4>1. g[m][f] = IF f = m THEN wal.frames[m].page ELSE IF m = 1 THEN 0 ELSE index[f]
        BY <3>3, <3>4 DEF IndexAppend
      <4>2. CASE m = 1
        BY <1>1, <2>2, <2>4, <3>1, <4>1, <4>2
      <4>3. CASE m # 1
        BY <1>1, <2>2, <2>4, <3>1, <3>2, <4>1, <4>3 DEF Entered
      <4> QED
        BY <4>2, <4>3
    <3> QED
      BY <2>2, <3>5, <3>6 DEF Entered
  <2> QED
    BY <2>3, <2>4
<1>4. last[c] \in hdr[c].mx .. last[c]
  BY <1>1
<1> QED
  BY <1>2, <1>3, <1>4

LEMMA NothingRecovered ==
  ASSUME Inv, Order, shm[1] = NoHdr
  PROVE  Recovered(wal) = [mx |-> 0, salt |-> 0, last |-> 0]
<1>1. wal.salt = 0
  BY DEF Order, NothingYet
<1>2. Whole(wal) = 0
  BY <1>1 DEF Whole
<1>3. Recovered(wal).last = 0
  BY EmptyRecovered
<1> QED
  BY <1>1, <1>2, <1>3 DEF Recovered

(* The mark that is chosen is one that nobody holds, or below the header.  *)
LEMMA ChosenMark ==
  ASSUME Inv, Sized, NEW c \in Conns, ChooseMark(c)
  PROVE  \/ Retry(c) /\ marks' = marks
         \/ \E i \in Marks, m \in Nat :
              /\ mark' = [mark EXCEPT ![c] = [i |-> i, at |-> m]] /\ m <= hdr[c].mx
              /\ Go(c, "lock") /\ UNCHANGED << readLock, minFrame, cached >>
              /\ \/ marks' = marks
                 \/ FreeMark(i) /\ marks' = [marks EXCEPT ![i] = m]
<1> DEFINE usable == {i \in Marks : marks[i] <= hdr[c].mx}
           top == Max({marks[i] : i \in usable} \cup {0})
           spare == {i \in Marks : FreeMark(i)}
           best == {i \in usable : marks[i] = top}
<1>1. /\ hdr[c].mx \in Nat /\ setting.marks \in Nat /\ Marks = 1 .. setting.marks
      /\ \A i \in Marks : i \in Nat /\ i <= setting.marks /\ marks[i] \in Nat
  BY Numbers, Bounds
<1>2. CASE (usable = {} \/ top < hdr[c].mx) /\ spare # {}
  <2>1. spare \in SUBSET Nat
    BY <1>1
  <2>2. Min(spare) \in spare
    BY <1>2, <2>1, LeastIs
  <2>3. /\ mark' = [mark EXCEPT ![c] = [i |-> Min(spare), at |-> hdr[c].mx]]
        /\ Go(c, "lock") /\ UNCHANGED << readLock, minFrame, cached >>
        /\ marks' = [marks EXCEPT ![Min(spare)] = hdr[c].mx]
    BY <1>2 DEF ChooseMark
  <2>4. Min(spare) \in Marks /\ FreeMark(Min(spare))
    BY <2>2
  <2> DEFINE i == Min(spare)
             m == hdr[c].mx
  <2>5. /\ i \in Marks /\ m \in Nat /\ m <= hdr[c].mx /\ FreeMark(i)
        /\ mark' = [mark EXCEPT ![c] = [i |-> i, at |-> m]]
        /\ Go(c, "lock") /\ UNCHANGED << readLock, minFrame, cached >>
        /\ marks' = [marks EXCEPT ![i] = m]
    BY <1>1, <2>3, <2>4
  <2> HIDE DEF i, m, spare, usable
  <2> QED
    BY <2>5
<1>3. CASE ~((usable = {} \/ top < hdr[c].mx) /\ spare # {}) /\ usable # {}
  <2>1. usable \in SUBSET Nat /\ {marks[i] : i \in usable} \cup {0} \in SUBSET Nat
    BY <1>1
  <2>2. /\ top \in {marks[i] : i \in usable} \cup {0}
        /\ \A x \in {marks[i] : i \in usable} \cup {0} : x <= top
    <3>1. \A x \in {marks[i] : i \in usable} \cup {0} : x <= hdr[c].mx
      BY <1>1
    <3> QED
      BY <1>1, <2>1, <3>1, GreatestIs
  <2> HIDE DEF top
  <2>3. best # {} /\ top \in Nat
    <3>1. CASE top \in {marks[i] : i \in usable}
      BY <2>1, <3>1
    <3>2. CASE top = 0
      <4>1. PICK i \in usable : TRUE
        BY <1>3
      <4>2. marks[i] <= 0
        BY <2>2, <3>2, <4>1
      <4>3. marks[i] = 0
        BY <1>1, <4>1, <4>2
      <4> QED
        BY <3>2, <4>1, <4>3
    <3> QED
      BY <2>2, <3>1, <3>2
  <2>4. Max(best) \in best
    <3>1. best \in SUBSET Nat /\ \A x \in best : x <= setting.marks
      BY <1>1
    <3> QED
      BY <1>1, <2>3, <3>1, GreatestIs
  <2>5. Max(best) \in Marks /\ marks[Max(best)] <= hdr[c].mx /\ marks[Max(best)] = top
    BY <2>4
  <2>6. /\ mark' = [mark EXCEPT ![c] = [i |-> Max(best), at |-> top]]
        /\ Go(c, "lock") /\ UNCHANGED << readLock, minFrame, cached >>
        /\ marks' = marks
    BY <1>3 DEF ChooseMark, top
  <2> QED
    BY <2>3, <2>5, <2>6
<1>4. CASE ~((usable = {} \/ top < hdr[c].mx) /\ spare # {}) /\ usable = {}
  BY <1>4 DEF ChooseMark
<1> QED
  BY <1>2, <1>3, <1>4

LEMMA SizedStep ==
  ASSUME Inv, Sized, NEW c \in Conns, Steps(c), \A d \in Conns \ {c} : Unmoved(d), Filled',
         SizedShared', SizedLog', SizedReader(c)', SizedWriter(c)', SizedCkpt(c)'
  PROVE  Sized'
<1>1. Marks' = Marks /\ MaxFrames' = MaxFrames
  BY SameBounds DEF Steps
<1>2. ASSUME NEW d \in Conns \ {c} PROVE SizedReader(d)' /\ SizedWriter(d)' /\ SizedCkpt(d)'
  <2>1. Same(d) /\ Unmoved(d) /\ SizedReader(d) /\ SizedWriter(d) /\ SizedCkpt(d)
    BY DEF Sized, Steps, Only
  <2> QED
    BY <1>1, <2>1 DEF SizedReader, SizedWriter, SizedCkpt, Same, Unmoved, Numbered
<1> QED
  BY <1>2 DEF Sized

LEMMA Kinds ==
  ASSUME Inv
  PROVE  /\ NoHdr.mx = 0 /\ NoHdr.last = -1 /\ NoHdr.salt = 0 /\ IsHdr(NoHdr)
         /\ {"i", "at"} \subseteq DOMAIN NoMark /\ NoMark.i = 0 /\ NoMark.at = 0
         /\ DOMAIN NoPages = Pages
         /\ {"mx", "mine", "pages"} \subseteq DOMAIN NoSaved
         /\ NoSaved.mx = -1 /\ NoSaved.mine = NoPages /\ NoSaved.pages = {}
         /\ {"todo", "commit", "first", "headed"} \subseteq DOMAIN NoBatch
         /\ NoBatch.todo = {} /\ NoBatch.first = 0
         /\ {"mode", "changed", "safe", "k", "plan"} \subseteq DOMAIN NoCkpt
         /\ NoCkpt.mode = "none" /\ NoCkpt.safe = 0 /\ NoCkpt.k = 0
         /\ DOMAIN NoCkpt.plan = Pages /\ \A p \in Pages : NoCkpt.plan[p] = 0
         /\ FreshSalt \in Nat
BY FreshIs DEF NoHdr, NoMark, NoPages, NoSaved, NoBatch, NoCkpt, IsHdr

LEMMA ReadFirstMoves ==
  ASSUME Inv, Order, Content, NEW c \in Conns, setting' = setting, ReadFirst(c)
  PROVE  Moves(c)
<1>1. /\ SizedReader(c) /\ SizedWriter(c) /\ SizedCkpt(c) /\ SizedShared /\ SizedLog /\ Filled
      /\ Marks' = Marks /\ MaxFrames' = MaxFrames /\ Slots' = Slots /\ MaxTxn' = MaxTxn
      /\ DOMAIN hdr = Conns /\ DOMAIN tmp = Conns /\ DOMAIN ckpt = Conns
      /\ IsHdr(hdr[c]) /\ IsHdr(tmp[c]) /\ IsHdr(shm[1]) /\ {1, 2} \subseteq DOMAIN shm
      /\ MaxFrames \in Nat /\ MaxTxn \in Nat
  BY SameBounds, Bounds DEF Content, Sized, Inv, Shaped
<1>2. Filled' /\ \A d \in Conns \ {c} : Unmoved(d)
  BY <1>1 DEF ReadFirst, Filled, Unmoved
<1>3. SizedShared'
  BY <1>1 DEF ReadFirst, SizedShared, SizedReader, SizedCkpt, Numbered, IsHdr
<1>4. SizedLog'
  BY <1>1 DEF ReadFirst, SizedLog
<1>5. SizedReader(c)'
  BY <1>1, Kinds DEF ReadFirst, SizedReader, SizedShared, Filled, Numbered, IsHdr
<1>6. SizedWriter(c)'
  BY <1>1, Kinds DEF ReadFirst, SizedWriter, SizedReader, Filled, Numbered
<1>7. SizedCkpt(c)'
  BY <1>1, Kinds DEF ReadFirst, SizedCkpt, SizedReader, SizedShared, Numbered
<1>8. Inv' /\ Order' /\ Steps(c)
  BY ReadFirstKeeps, ReadFirstOrder DEF Ordered
<1> QED
  BY <1>2, <1>3, <1>4, <1>5, <1>6, <1>7, <1>8, SizedStep DEF Content, Moves

LEMMA ReadSecondMoves ==
  ASSUME Inv, Order, Content, NEW c \in Conns, setting' = setting, ReadSecond(c)
  PROVE  Moves(c)
<1>1. /\ SizedReader(c) /\ SizedWriter(c) /\ SizedCkpt(c) /\ SizedShared /\ SizedLog /\ Filled
      /\ Marks' = Marks /\ MaxFrames' = MaxFrames /\ Slots' = Slots /\ MaxTxn' = MaxTxn
      /\ DOMAIN hdr = Conns /\ DOMAIN tmp = Conns /\ DOMAIN ckpt = Conns
      /\ IsHdr(hdr[c]) /\ IsHdr(tmp[c]) /\ IsHdr(shm[1]) /\ {1, 2} \subseteq DOMAIN shm
      /\ MaxFrames \in Nat /\ MaxTxn \in Nat
  BY SameBounds, Bounds DEF Content, Sized, Inv, Shaped
<1>2. Filled' /\ \A d \in Conns \ {c} : Unmoved(d)
  BY <1>1 DEF ReadSecond, TakeHeader, Filled, Unmoved
<1>3. SizedShared'
  BY <1>1 DEF ReadSecond, TakeHeader, SizedShared, SizedReader, SizedCkpt, Numbered, IsHdr
<1>4. SizedLog'
  BY <1>1 DEF ReadSecond, TakeHeader, SizedLog
<1>5. SizedReader(c)'
  BY <1>1, Kinds DEF ReadSecond, TakeHeader, SizedReader, SizedShared, Filled, Numbered, IsHdr
<1>6. SizedWriter(c)'
  BY <1>1, Kinds DEF ReadSecond, TakeHeader, SizedWriter, SizedReader, Filled, Numbered
<1>7. SizedCkpt(c)'
  BY <1>1, Kinds DEF ReadSecond, TakeHeader, SizedCkpt, SizedReader, SizedShared, Numbered
<1>8. Inv' /\ Order' /\ Steps(c)
  BY ReadSecondKeeps, ReadSecondOrder DEF Ordered
<1> QED
  BY <1>2, <1>3, <1>4, <1>5, <1>6, <1>7, <1>8, SizedStep DEF Content, Moves

LEMMA RereadMoves ==
  ASSUME Inv, Order, Content, NEW c \in Conns, setting' = setting, Reread(c)
  PROVE  Moves(c)
<1>1. /\ SizedReader(c) /\ SizedWriter(c) /\ SizedCkpt(c) /\ SizedShared /\ SizedLog /\ Filled
      /\ Marks' = Marks /\ MaxFrames' = MaxFrames /\ Slots' = Slots /\ MaxTxn' = MaxTxn
      /\ DOMAIN hdr = Conns /\ DOMAIN tmp = Conns /\ DOMAIN ckpt = Conns
      /\ IsHdr(hdr[c]) /\ IsHdr(tmp[c]) /\ IsHdr(shm[1]) /\ {1, 2} \subseteq DOMAIN shm
      /\ MaxFrames \in Nat /\ MaxTxn \in Nat
  BY SameBounds, Bounds DEF Content, Sized, Inv, Shaped
<1>2. Filled' /\ \A d \in Conns \ {c} : Unmoved(d)
  BY <1>1 DEF Reread, TakeHeader, GiveUp, Dropped, Filled, Unmoved
<1>3. SizedShared'
  BY <1>1 DEF Reread, TakeHeader, GiveUp, Dropped, SizedShared, SizedReader, SizedCkpt, Numbered, IsHdr
<1>4. SizedLog'
  BY <1>1 DEF Reread, TakeHeader, GiveUp, Dropped, SizedLog
<1>5. SizedReader(c)'
  BY <1>1, Kinds DEF Reread, TakeHeader, GiveUp, Dropped, SizedReader, SizedShared, Filled, Numbered, IsHdr
<1>6. SizedWriter(c)'
  BY <1>1, Kinds DEF Reread, TakeHeader, GiveUp, Dropped, SizedWriter, SizedReader, Filled, Numbered
<1>7. SizedCkpt(c)'
  BY <1>1, Kinds DEF Reread, TakeHeader, GiveUp, Dropped, SizedCkpt, SizedReader, SizedShared, Numbered
<1>8. Inv' /\ Order' /\ Steps(c)
  BY RereadKeeps, RereadOrder DEF Ordered
<1> QED
  BY <1>2, <1>3, <1>4, <1>5, <1>6, <1>7, <1>8, SizedStep DEF Content, Moves

LEMMA RecoverMoves ==
  ASSUME Inv, Order, Content, NEW c \in Conns, setting' = setting, Recover(c)
  PROVE  Moves(c)
<1>1. /\ SizedReader(c) /\ SizedWriter(c) /\ SizedCkpt(c) /\ SizedShared /\ SizedLog /\ Filled
      /\ Marks' = Marks /\ MaxFrames' = MaxFrames /\ Slots' = Slots /\ MaxTxn' = MaxTxn
      /\ DOMAIN hdr = Conns /\ DOMAIN tmp = Conns /\ DOMAIN ckpt = Conns
      /\ IsHdr(hdr[c]) /\ IsHdr(tmp[c]) /\ IsHdr(shm[1]) /\ {1, 2} \subseteq DOMAIN shm
      /\ MaxFrames \in Nat /\ MaxTxn \in Nat
  BY SameBounds, Bounds DEF Content, Sized, Inv, Shaped
<1>2. Filled' /\ \A d \in Conns \ {c} : Unmoved(d)
  BY <1>1 DEF Recover, Filled, Unmoved
<1>3. SizedShared'
  <2>1. pc[c] = "recover"
    BY DEF Recover
  <2>2. Recovered(wal) = [mx |-> 0, salt |-> 0, last |-> 0]
    BY <2>1, NothingRecovered DEF Order, HeaderKnown
  <2> QED
    BY <1>1, <2>2 DEF Recover, SizedShared, Numbered
<1>4. SizedLog'
  BY <1>1 DEF Recover, SizedLog
<1>5. SizedReader(c)'
  <2>1. pc[c] = "recover"
    BY DEF Recover
  <2>2. Recovered(wal) = [mx |-> 0, salt |-> 0, last |-> 0]
    BY <2>1, NothingRecovered DEF Order, HeaderKnown
  <2> QED
    BY <1>1, <2>2 DEF Recover, SizedReader, Filled, SizedShared, Numbered
<1>6. SizedWriter(c)'
  BY <1>1, Kinds DEF Recover, SizedWriter, SizedReader, Filled, Numbered
<1>7. SizedCkpt(c)'
  BY <1>1, Kinds DEF Recover, SizedCkpt, SizedReader, SizedShared, Numbered
<1>8. Inv' /\ Order' /\ Steps(c)
  BY RecoverKeeps, RecoverOrder DEF Ordered
<1> QED
  BY <1>2, <1>3, <1>4, <1>5, <1>6, <1>7, <1>8, SizedStep DEF Content, Moves

LEMMA RecoverInfoMoves ==
  ASSUME Inv, Order, Content, NEW c \in Conns, setting' = setting, RecoverInfo(c)
  PROVE  Moves(c)
<1>1. /\ SizedReader(c) /\ SizedWriter(c) /\ SizedCkpt(c) /\ SizedShared /\ SizedLog /\ Filled
      /\ Marks' = Marks /\ MaxFrames' = MaxFrames /\ Slots' = Slots /\ MaxTxn' = MaxTxn
      /\ DOMAIN hdr = Conns /\ DOMAIN tmp = Conns /\ DOMAIN ckpt = Conns
      /\ IsHdr(hdr[c]) /\ IsHdr(tmp[c]) /\ IsHdr(shm[1]) /\ {1, 2} \subseteq DOMAIN shm
      /\ MaxFrames \in Nat /\ MaxTxn \in Nat
  BY SameBounds, Bounds DEF Content, Sized, Inv, Shaped
<1>2. Filled' /\ \A d \in Conns \ {c} : Unmoved(d)
  BY <1>1 DEF RecoverInfo, Filled, Unmoved
<1>3. SizedShared'
  BY <1>1 DEF RecoverInfo, SizedShared, SizedReader, Numbered, Unused
<1>4. SizedLog'
  BY <1>1 DEF RecoverInfo, SizedLog
<1>5. SizedReader(c)'
  BY <1>1, Kinds DEF RecoverInfo, SizedReader, SizedShared, Filled, Numbered, IsHdr
<1>6. SizedWriter(c)'
  BY <1>1, Kinds DEF RecoverInfo, SizedWriter, SizedReader, Filled, Numbered
<1>7. SizedCkpt(c)'
  BY <1>1, Kinds DEF RecoverInfo, SizedCkpt, SizedReader, SizedShared, Numbered
<1>8. Inv' /\ Order' /\ Steps(c)
  BY RecoverInfoKeeps, RecoverInfoOrder DEF Ordered
<1> QED
  BY <1>2, <1>3, <1>4, <1>5, <1>6, <1>7, <1>8, SizedStep DEF Content, Moves

LEMMA BeginZeroMoves ==
  ASSUME Inv, Order, Content, NEW c \in Conns, setting' = setting, BeginZero(c)
  PROVE  Moves(c)
<1>1. /\ SizedReader(c) /\ SizedWriter(c) /\ SizedCkpt(c) /\ SizedShared /\ SizedLog /\ Filled
      /\ Marks' = Marks /\ MaxFrames' = MaxFrames /\ Slots' = Slots /\ MaxTxn' = MaxTxn
      /\ DOMAIN hdr = Conns /\ DOMAIN tmp = Conns /\ DOMAIN ckpt = Conns
      /\ IsHdr(hdr[c]) /\ IsHdr(tmp[c]) /\ IsHdr(shm[1]) /\ {1, 2} \subseteq DOMAIN shm
      /\ MaxFrames \in Nat /\ MaxTxn \in Nat
  BY SameBounds, Bounds DEF Content, Sized, Inv, Shaped
<1>2. Filled' /\ \A d \in Conns \ {c} : Unmoved(d)
  BY <1>1 DEF BeginZero, Filled, Unmoved
<1>3. SizedShared'
  BY <1>1 DEF BeginZero, SizedShared, SizedReader, SizedCkpt, Numbered, IsHdr
<1>4. SizedLog'
  BY <1>1 DEF BeginZero, SizedLog
<1>5. SizedReader(c)'
  BY <1>1, Kinds DEF BeginZero, SizedReader, SizedShared, Filled, Numbered, IsHdr
<1>6. SizedWriter(c)'
  BY <1>1, Kinds DEF BeginZero, SizedWriter, SizedReader, Filled, Numbered
<1>7. SizedCkpt(c)'
  BY <1>1, Kinds DEF BeginZero, SizedCkpt, SizedReader, SizedShared, Numbered
<1>8. Inv' /\ Order' /\ Steps(c)
  BY BeginZeroKeeps, BeginZeroOrder DEF Ordered
<1> QED
  BY <1>2, <1>3, <1>4, <1>5, <1>6, <1>7, <1>8, SizedStep DEF Content, Moves

LEMMA CheckZeroMoves ==
  ASSUME Inv, Order, Content, NEW c \in Conns, setting' = setting, CheckZero(c)
  PROVE  Moves(c)
<1>1. /\ SizedReader(c) /\ SizedWriter(c) /\ SizedCkpt(c) /\ SizedShared /\ SizedLog /\ Filled
      /\ Marks' = Marks /\ MaxFrames' = MaxFrames /\ Slots' = Slots /\ MaxTxn' = MaxTxn
      /\ DOMAIN hdr = Conns /\ DOMAIN tmp = Conns /\ DOMAIN ckpt = Conns
      /\ IsHdr(hdr[c]) /\ IsHdr(tmp[c]) /\ IsHdr(shm[1]) /\ {1, 2} \subseteq DOMAIN shm
      /\ MaxFrames \in Nat /\ MaxTxn \in Nat
  BY SameBounds, Bounds DEF Content, Sized, Inv, Shaped
<1>2. Filled' /\ \A d \in Conns \ {c} : Unmoved(d)
  BY <1>1 DEF CheckZero, Retry, GiveUp, Filled, Unmoved
<1>3. SizedShared'
  BY <1>1 DEF CheckZero, Retry, GiveUp, SizedShared, SizedReader, SizedCkpt, Numbered, IsHdr
<1>4. SizedLog'
  BY <1>1 DEF CheckZero, Retry, GiveUp, SizedLog
<1>5. SizedReader(c)'
  BY <1>1, Kinds DEF CheckZero, Retry, GiveUp, SizedReader, SizedShared, Filled, Numbered, IsHdr
<1>6. SizedWriter(c)'
  BY <1>1, Kinds DEF CheckZero, Retry, GiveUp, SizedWriter, SizedReader, Filled, Numbered
<1>7. SizedCkpt(c)'
  BY <1>1, Kinds DEF CheckZero, Retry, GiveUp, SizedCkpt, SizedReader, SizedShared, Numbered
<1>8. Inv' /\ Order' /\ Steps(c)
  BY CheckZeroKeeps, CheckZeroOrder DEF Ordered
<1> QED
  BY <1>2, <1>3, <1>4, <1>5, <1>6, <1>7, <1>8, SizedStep DEF Content, Moves

LEMMA ChooseMarkMoves ==
  ASSUME Inv, Order, Content, NEW c \in Conns, setting' = setting, ChooseMark(c)
  PROVE  Moves(c)
<1>1. /\ SizedReader(c) /\ SizedWriter(c) /\ SizedCkpt(c) /\ SizedShared /\ SizedLog /\ Filled
      /\ Marks' = Marks /\ MaxFrames' = MaxFrames /\ Slots' = Slots /\ MaxTxn' = MaxTxn
      /\ DOMAIN hdr = Conns /\ DOMAIN tmp = Conns /\ DOMAIN ckpt = Conns
      /\ IsHdr(hdr[c]) /\ IsHdr(tmp[c]) /\ IsHdr(shm[1]) /\ {1, 2} \subseteq DOMAIN shm
      /\ MaxFrames \in Nat /\ MaxTxn \in Nat
  BY SameBounds, Bounds DEF Content, Sized, Inv, Shaped
<1>2. Filled' /\ \A d \in Conns \ {c} : Unmoved(d)
  BY <1>1, ChosenMark DEF Content, ChooseMark, Retry, Filled, Unmoved
<1>3. SizedShared'
  <2>1. DOMAIN marks' = Marks /\ \A i \in Marks : marks'[i] \in Nat
    BY <1>1, ChosenMark DEF Content, SizedShared
  <2>2. UNCHANGED << shm, nBackfill, db, idx, zeroExcl, marksExcl >>
    BY DEF ChooseMark
  <2> QED
    BY <1>1, <2>1, <2>2 DEF SizedShared, Numbered
<1>4. SizedLog'
  BY <1>1 DEF ChooseMark, Retry, GiveUp, SizedLog
<1>5. SizedReader(c)'
  <2>1. /\ readLock'[c] \in {readLock[c], -1} /\ minFrame'[c] \in {minFrame[c], 0}
        /\ mark'[c] = NoMark \/ \E i \in Marks, m \in Nat : mark'[c] = [i |-> i, at |-> m]
    BY <1>1, ChosenMark DEF Content, Retry, Filled
  <2>2. UNCHANGED << hdr, tmp >>
    BY DEF ChooseMark
  <2>3. \A i \in Marks : i \in Nat
    BY Bounds
  <2>4. {"i", "at"} \subseteq DOMAIN mark'[c] /\ mark'[c].i \in Nat /\ mark'[c].at \in Nat
    <3>1. CASE mark'[c] = NoMark
      BY <3>1, Kinds
    <3>2. CASE \E i \in Marks, m \in Nat : mark'[c] = [i |-> i, at |-> m]
      <4>1. PICK i \in Marks, m \in Nat : mark'[c] = [i |-> i, at |-> m]
        BY <3>2
      <4>2. mark'[c].i = i /\ mark'[c].at = m /\ DOMAIN mark'[c] = {"i", "at"}
        BY <4>1
      <4> QED
        BY <2>3, <4>2
    <3> QED
      BY <2>1, <3>1, <3>2
  <2> QED
    BY <1>1, <2>1, <2>2, <2>4 DEF SizedReader, Numbered
<1>6. SizedWriter(c)'
  BY <1>1, Kinds DEF ChooseMark, Retry, GiveUp, SizedWriter, SizedReader, Filled, Numbered
<1>7. SizedCkpt(c)'
  BY <1>1, Kinds DEF ChooseMark, Retry, GiveUp, SizedCkpt, SizedReader, SizedShared, Numbered
<1>8. Inv' /\ Order' /\ Steps(c)
  BY ChooseMarkKeeps, ChooseMarkOrder DEF Ordered
<1> QED
  BY <1>2, <1>3, <1>4, <1>5, <1>6, <1>7, <1>8, SizedStep DEF Content, Moves

LEMMA LockMarkMoves ==
  ASSUME Inv, Order, Content, NEW c \in Conns, setting' = setting, LockMark(c)
  PROVE  Moves(c)
<1>1. /\ SizedReader(c) /\ SizedWriter(c) /\ SizedCkpt(c) /\ SizedShared /\ SizedLog /\ Filled
      /\ Marks' = Marks /\ MaxFrames' = MaxFrames /\ Slots' = Slots /\ MaxTxn' = MaxTxn
      /\ DOMAIN hdr = Conns /\ DOMAIN tmp = Conns /\ DOMAIN ckpt = Conns
      /\ IsHdr(hdr[c]) /\ IsHdr(tmp[c]) /\ IsHdr(shm[1]) /\ {1, 2} \subseteq DOMAIN shm
      /\ MaxFrames \in Nat /\ MaxTxn \in Nat
  BY SameBounds, Bounds DEF Content, Sized, Inv, Shaped
<1>2. Filled' /\ \A d \in Conns \ {c} : Unmoved(d)
  BY <1>1 DEF LockMark, Retry, GiveUp, Filled, Unmoved
<1>3. SizedShared'
  BY <1>1 DEF LockMark, Retry, GiveUp, SizedShared, SizedReader, SizedCkpt, Numbered, IsHdr
<1>4. SizedLog'
  BY <1>1 DEF LockMark, Retry, GiveUp, SizedLog
<1>5. SizedReader(c)'
  <2>1. mark[c].i \in Marks \/ readLock'[c] = -1
    BY <1>1 DEF LockMark, Retry, Content, Held, MarksKept, Filled
  <2>2. nBackfill + 1 \in 0 .. MaxFrames + 1
    BY <1>1 DEF SizedShared
  <2> QED
    BY <1>1, <2>1, <2>2, Kinds DEF LockMark, Retry, SizedReader, Filled, Numbered
<1>6. SizedWriter(c)'
  BY <1>1, Kinds DEF LockMark, Retry, GiveUp, SizedWriter, SizedReader, Filled, Numbered
<1>7. SizedCkpt(c)'
  BY <1>1, Kinds DEF LockMark, Retry, GiveUp, SizedCkpt, SizedReader, SizedShared, Numbered
<1>8. Inv' /\ Order' /\ Steps(c)
  BY LockMarkKeeps, LockMarkOrder DEF Ordered
<1> QED
  BY <1>2, <1>3, <1>4, <1>5, <1>6, <1>7, <1>8, SizedStep DEF Content, Moves

LEMMA VerifyMoves ==
  ASSUME Inv, Order, Content, NEW c \in Conns, setting' = setting, Verify(c)
  PROVE  Moves(c)
<1>1. /\ SizedReader(c) /\ SizedWriter(c) /\ SizedCkpt(c) /\ SizedShared /\ SizedLog /\ Filled
      /\ Marks' = Marks /\ MaxFrames' = MaxFrames /\ Slots' = Slots /\ MaxTxn' = MaxTxn
      /\ DOMAIN hdr = Conns /\ DOMAIN tmp = Conns /\ DOMAIN ckpt = Conns
      /\ IsHdr(hdr[c]) /\ IsHdr(tmp[c]) /\ IsHdr(shm[1]) /\ {1, 2} \subseteq DOMAIN shm
      /\ MaxFrames \in Nat /\ MaxTxn \in Nat
  BY SameBounds, Bounds DEF Content, Sized, Inv, Shaped
<1>2. Filled' /\ \A d \in Conns \ {c} : Unmoved(d)
  BY <1>1 DEF Verify, Admit, Retry, GiveUp, Filled, Unmoved
<1>3. SizedShared'
  BY <1>1 DEF Verify, Admit, Retry, GiveUp, SizedShared, SizedReader, SizedCkpt, Numbered, IsHdr
<1>4. SizedLog'
  BY <1>1 DEF Verify, Admit, Retry, GiveUp, SizedLog
<1>5. SizedReader(c)'
  BY <1>1, Kinds DEF Verify, Admit, Retry, GiveUp, SizedReader, SizedShared, Filled, Numbered, IsHdr
<1>6. SizedWriter(c)'
  BY <1>1, Kinds DEF Verify, Admit, Retry, GiveUp, SizedWriter, SizedReader, Filled, Numbered
<1>7. SizedCkpt(c)'
  BY <1>1, Kinds DEF Verify, Admit, Retry, GiveUp, SizedCkpt, SizedReader, SizedShared, Numbered
<1>8. Inv' /\ Order' /\ Steps(c)
  BY VerifyKeeps, VerifyOrder DEF Ordered
<1> QED
  BY <1>2, <1>3, <1>4, <1>5, <1>6, <1>7, <1>8, SizedStep DEF Content, Moves

LEMMA EndReadMoves ==
  ASSUME Inv, Order, Content, NEW c \in Conns, setting' = setting, EndRead(c)
  PROVE  Moves(c)
<1>1. /\ SizedReader(c) /\ SizedWriter(c) /\ SizedCkpt(c) /\ SizedShared /\ SizedLog /\ Filled
      /\ Marks' = Marks /\ MaxFrames' = MaxFrames /\ Slots' = Slots /\ MaxTxn' = MaxTxn
      /\ DOMAIN hdr = Conns /\ DOMAIN tmp = Conns /\ DOMAIN ckpt = Conns
      /\ IsHdr(hdr[c]) /\ IsHdr(tmp[c]) /\ IsHdr(shm[1]) /\ {1, 2} \subseteq DOMAIN shm
      /\ MaxFrames \in Nat /\ MaxTxn \in Nat
  BY SameBounds, Bounds DEF Content, Sized, Inv, Shaped
<1>2. Filled' /\ \A d \in Conns \ {c} : Unmoved(d)
  BY <1>1 DEF EndRead, Filled, Unmoved
<1>3. SizedShared'
  BY <1>1 DEF EndRead, SizedShared, SizedReader, SizedCkpt, Numbered, IsHdr
<1>4. SizedLog'
  BY <1>1 DEF EndRead, SizedLog
<1>5. SizedReader(c)'
  BY <1>1, Kinds DEF EndRead, SizedReader, SizedShared, Filled, Numbered, IsHdr
<1>6. SizedWriter(c)'
  BY <1>1, Kinds DEF EndRead, SizedWriter, SizedReader, Filled, Numbered
<1>7. SizedCkpt(c)'
  BY <1>1, Kinds DEF EndRead, SizedCkpt, SizedReader, SizedShared, Numbered
<1>8. Inv' /\ Order' /\ Steps(c)
  BY EndReadKeeps, EndReadOrder DEF Ordered
<1> QED
  BY <1>2, <1>3, <1>4, <1>5, <1>6, <1>7, <1>8, SizedStep DEF Content, Moves

LEMMA BeginWriteMoves ==
  ASSUME Inv, Order, Content, NEW c \in Conns, setting' = setting, BeginWrite(c)
  PROVE  Moves(c)
<1>1. /\ SizedReader(c) /\ SizedWriter(c) /\ SizedCkpt(c) /\ SizedShared /\ SizedLog /\ Filled
      /\ Marks' = Marks /\ MaxFrames' = MaxFrames /\ Slots' = Slots /\ MaxTxn' = MaxTxn
      /\ DOMAIN hdr = Conns /\ DOMAIN tmp = Conns /\ DOMAIN ckpt = Conns
      /\ IsHdr(hdr[c]) /\ IsHdr(tmp[c]) /\ IsHdr(shm[1]) /\ {1, 2} \subseteq DOMAIN shm
      /\ MaxFrames \in Nat /\ MaxTxn \in Nat
  BY SameBounds, Bounds DEF Content, Sized, Inv, Shaped
<1>2. Filled' /\ \A d \in Conns \ {c} : Unmoved(d)
  BY <1>1 DEF BeginWrite, Filled, Unmoved
<1>3. SizedShared'
  BY <1>1 DEF BeginWrite, SizedShared, SizedReader, SizedCkpt, Numbered, IsHdr
<1>4. SizedLog'
  BY <1>1 DEF BeginWrite, SizedLog
<1>5. SizedReader(c)'
  BY <1>1, Kinds DEF BeginWrite, SizedReader, SizedShared, Filled, Numbered, IsHdr
<1>6. SizedWriter(c)'
  <2>1. shm[1] # NoHdr /\ shm[1] = hdr[c]
    BY DEF BeginWrite, Order, NothingYet
  <2>2. DOMAIN hist[hdr[c].last] = Pages
    BY <2>1 DEF Content, Latest
  <2> QED
    BY <1>1, <2>2 DEF BeginWrite, SizedWriter, Filled
<1>7. SizedCkpt(c)'
  BY <1>1, Kinds DEF BeginWrite, SizedCkpt, SizedReader, SizedShared, Numbered
<1>8. Inv' /\ Order' /\ Steps(c)
  BY BeginWriteKeeps, BeginWriteOrder DEF Ordered
<1> QED
  BY <1>2, <1>3, <1>4, <1>5, <1>6, <1>7, <1>8, SizedStep DEF Content, Moves

LEMMA ModifyMoves ==
  ASSUME Inv, Order, Content, NEW c \in Conns, NEW p \in Pages, setting' = setting, Modify(c, p)
  PROVE  Moves(c)
<1>1. /\ SizedReader(c) /\ SizedWriter(c) /\ SizedCkpt(c) /\ SizedShared /\ SizedLog /\ Filled
      /\ Marks' = Marks /\ MaxFrames' = MaxFrames /\ Slots' = Slots /\ MaxTxn' = MaxTxn
      /\ DOMAIN hdr = Conns /\ DOMAIN tmp = Conns /\ DOMAIN ckpt = Conns
      /\ IsHdr(hdr[c]) /\ IsHdr(tmp[c]) /\ IsHdr(shm[1]) /\ {1, 2} \subseteq DOMAIN shm
      /\ MaxFrames \in Nat /\ MaxTxn \in Nat
  BY SameBounds, Bounds DEF Content, Sized, Inv, Shaped
<1>2. Filled' /\ \A d \in Conns \ {c} : Unmoved(d)
  BY <1>1 DEF Modify, Filled, Unmoved
<1>3. SizedShared'
  BY <1>1 DEF Modify, SizedShared, SizedReader, SizedCkpt, Numbered, IsHdr
<1>4. SizedLog'
  BY <1>1 DEF Modify, SizedLog
<1>5. SizedReader(c)'
  BY <1>1, Kinds DEF Modify, SizedReader, SizedShared, Filled, Numbered, IsHdr
<1>6. SizedWriter(c)'
  <2>1. /\ UNCHANGED << batch, last >> /\ dirty'[c] = dirty[c] \cup {p}
        /\ \E v : mine'[c] = [mine[c] EXCEPT ![p] = v]
    BY <1>1 DEF Modify, Filled
  <2>2. saved'[c] = NoSaved \/ saved'[c] = [saved[c] EXCEPT !.pages = @ \cup {p}]
    BY <1>1 DEF Modify, Filled, Subjournaled
  <2>3. /\ {"mx", "mine", "pages"} \subseteq DOMAIN saved'[c]
        /\ saved'[c].mx \in -1 .. MaxFrames /\ DOMAIN saved'[c].mine = Pages
        /\ saved'[c].pages \subseteq Pages
    <3>1. CASE saved'[c] = NoSaved
      BY <1>1, <3>1, Kinds
    <3>2. CASE saved'[c] = [saved[c] EXCEPT !.pages = @ \cup {p}]
      BY <1>1, <3>2 DEF SizedWriter
    <3> QED
      BY <2>2, <3>1, <3>2
  <2> QED
    BY <1>1, <2>1, <2>3 DEF SizedWriter
<1>7. SizedCkpt(c)'
  BY <1>1, Kinds DEF Modify, SizedCkpt, SizedReader, SizedShared, Numbered
<1>8. Inv' /\ Order' /\ Steps(c)
  BY ModifyKeeps, ModifyOrder DEF Ordered
<1> QED
  BY <1>2, <1>3, <1>4, <1>5, <1>6, <1>7, <1>8, SizedStep DEF Content, Moves

LEMMA OpenSavepointMoves ==
  ASSUME Inv, Order, Content, NEW c \in Conns, setting' = setting, OpenSavepoint(c)
  PROVE  Moves(c)
<1>1. /\ SizedReader(c) /\ SizedWriter(c) /\ SizedCkpt(c) /\ SizedShared /\ SizedLog /\ Filled
      /\ Marks' = Marks /\ MaxFrames' = MaxFrames /\ Slots' = Slots /\ MaxTxn' = MaxTxn
      /\ DOMAIN hdr = Conns /\ DOMAIN tmp = Conns /\ DOMAIN ckpt = Conns
      /\ IsHdr(hdr[c]) /\ IsHdr(tmp[c]) /\ IsHdr(shm[1]) /\ {1, 2} \subseteq DOMAIN shm
      /\ MaxFrames \in Nat /\ MaxTxn \in Nat
  BY SameBounds, Bounds DEF Content, Sized, Inv, Shaped
<1>2. Filled' /\ \A d \in Conns \ {c} : Unmoved(d)
  BY <1>1 DEF OpenSavepoint, Filled, Unmoved
<1>3. SizedShared'
  BY <1>1 DEF OpenSavepoint, SizedShared, SizedReader, SizedCkpt, Numbered, IsHdr
<1>4. SizedLog'
  BY <1>1 DEF OpenSavepoint, SizedLog
<1>5. SizedReader(c)'
  BY <1>1, Kinds DEF OpenSavepoint, SizedReader, SizedShared, Filled, Numbered, IsHdr
<1>6. SizedWriter(c)'
  BY <1>1, Kinds DEF OpenSavepoint, SizedWriter, SizedReader, Filled, Numbered
<1>7. SizedCkpt(c)'
  BY <1>1, Kinds DEF OpenSavepoint, SizedCkpt, SizedReader, SizedShared, Numbered
<1>8. Inv' /\ Order' /\ Steps(c)
  BY OpenSavepointKeeps, OpenSavepointOrder DEF Ordered
<1> QED
  BY <1>2, <1>3, <1>4, <1>5, <1>6, <1>7, <1>8, SizedStep DEF Content, Moves

LEMMA RollbackToMoves ==
  ASSUME Inv, Order, Content, NEW c \in Conns, setting' = setting, RollbackTo(c)
  PROVE  Moves(c)
<1>1. /\ SizedReader(c) /\ SizedWriter(c) /\ SizedCkpt(c) /\ SizedShared /\ SizedLog /\ Filled
      /\ Marks' = Marks /\ MaxFrames' = MaxFrames /\ Slots' = Slots /\ MaxTxn' = MaxTxn
      /\ DOMAIN hdr = Conns /\ DOMAIN tmp = Conns /\ DOMAIN ckpt = Conns
      /\ IsHdr(hdr[c]) /\ IsHdr(tmp[c]) /\ IsHdr(shm[1]) /\ {1, 2} \subseteq DOMAIN shm
      /\ MaxFrames \in Nat /\ MaxTxn \in Nat
  BY SameBounds, Bounds DEF Content, Sized, Inv, Shaped
<1>2. Filled' /\ \A d \in Conns \ {c} : Unmoved(d)
  BY <1>1 DEF RollbackTo, UndoTo, Cleaned, Filled, Unmoved
<1>3. SizedShared'
  BY <1>1 DEF RollbackTo, UndoTo, Cleaned, SizedShared, SizedReader, SizedCkpt, Numbered, IsHdr
<1>4. SizedLog'
  BY <1>1 DEF RollbackTo, UndoTo, Cleaned, SizedLog
<1>5. SizedReader(c)'
  <2>1. saved[c].mx \in 0 .. hdr[c].mx
    BY DEF RollbackTo, Content, Held, WriteKept, Undoable
  <2> QED
    BY <1>1, <2>1 DEF RollbackTo, UndoTo, SizedReader, Filled, Numbered, IsHdr
<1>6. SizedWriter(c)'
  BY <1>1, Kinds DEF RollbackTo, UndoTo, Cleaned, SizedWriter, SizedReader, Filled, Numbered
<1>7. SizedCkpt(c)'
  BY <1>1, Kinds DEF RollbackTo, UndoTo, Cleaned, SizedCkpt, SizedReader, SizedShared, Numbered
<1>8. Inv' /\ Order' /\ Steps(c)
  BY RollbackToKeeps, RollbackToOrder DEF Ordered
<1> QED
  BY <1>2, <1>3, <1>4, <1>5, <1>6, <1>7, <1>8, SizedStep DEF Content, Moves

LEMMA RollbackMoves ==
  ASSUME Inv, Order, Content, NEW c \in Conns, setting' = setting, Rollback(c)
  PROVE  Moves(c)
<1>1. /\ SizedReader(c) /\ SizedWriter(c) /\ SizedCkpt(c) /\ SizedShared /\ SizedLog /\ Filled
      /\ Marks' = Marks /\ MaxFrames' = MaxFrames /\ Slots' = Slots /\ MaxTxn' = MaxTxn
      /\ DOMAIN hdr = Conns /\ DOMAIN tmp = Conns /\ DOMAIN ckpt = Conns
      /\ IsHdr(hdr[c]) /\ IsHdr(tmp[c]) /\ IsHdr(shm[1]) /\ {1, 2} \subseteq DOMAIN shm
      /\ MaxFrames \in Nat /\ MaxTxn \in Nat
  BY SameBounds, Bounds DEF Content, Sized, Inv, Shaped
<1>2. Filled' /\ \A d \in Conns \ {c} : Unmoved(d)
  BY <1>1 DEF Rollback, EndTransaction, Cleaned, Filled, Unmoved
<1>3. SizedShared'
  BY <1>1 DEF Rollback, EndTransaction, Cleaned, SizedShared, SizedReader, SizedCkpt, Numbered, IsHdr
<1>4. SizedLog'
  BY <1>1 DEF Rollback, EndTransaction, Cleaned, SizedLog
<1>5. SizedReader(c)'
  BY <1>1, Kinds DEF Rollback, EndTransaction, Cleaned, SizedReader, SizedShared, Filled, Numbered, IsHdr
<1>6. SizedWriter(c)'
  BY <1>1, Kinds DEF Rollback, EndTransaction, Cleaned, SizedWriter, SizedReader, Filled, Numbered
<1>7. SizedCkpt(c)'
  BY <1>1, Kinds DEF Rollback, EndTransaction, Cleaned, SizedCkpt, SizedReader, SizedShared, Numbered
<1>8. Inv' /\ Order' /\ Steps(c)
  BY RollbackKeeps, RollbackOrder DEF Ordered
<1> QED
  BY <1>2, <1>3, <1>4, <1>5, <1>6, <1>7, <1>8, SizedStep DEF Content, Moves

LEMMA SpillMoves ==
  ASSUME Inv, Order, Content, NEW c \in Conns, NEW p \in Pages, setting' = setting, Spill(c, p)
  PROVE  Moves(c)
<1>1. /\ SizedReader(c) /\ SizedWriter(c) /\ SizedCkpt(c) /\ SizedShared /\ SizedLog /\ Filled
      /\ Marks' = Marks /\ MaxFrames' = MaxFrames /\ Slots' = Slots /\ MaxTxn' = MaxTxn
      /\ DOMAIN hdr = Conns /\ DOMAIN tmp = Conns /\ DOMAIN ckpt = Conns
      /\ IsHdr(hdr[c]) /\ IsHdr(tmp[c]) /\ IsHdr(shm[1]) /\ {1, 2} \subseteq DOMAIN shm
      /\ MaxFrames \in Nat /\ MaxTxn \in Nat
  BY SameBounds, Bounds DEF Content, Sized, Inv, Shaped
<1>2. Filled' /\ \A d \in Conns \ {c} : Unmoved(d)
  BY <1>1 DEF Spill, StartFrames, Subjournaled, FirstFrame, Filled, Unmoved
<1>3. SizedShared'
  BY <1>1 DEF Spill, StartFrames, Subjournaled, FirstFrame, SizedShared, SizedReader, SizedCkpt, Numbered, IsHdr
<1>4. SizedLog'
  BY <1>1 DEF Spill, StartFrames, Subjournaled, FirstFrame, SizedLog
<1>5. SizedReader(c)'
  BY <1>1, Kinds DEF Spill, StartFrames, Subjournaled, FirstFrame, SizedReader, SizedShared, Filled, Numbered, IsHdr
<1>6. SizedWriter(c)'
  <2>1. shm[1].mx + 1 \in Nat
    BY <1>1 DEF SizedShared, Numbered
  <2>2. /\ UNCHANGED << mine, dirty >> /\ last'[c] = hdr[c].mx
        /\ saved'[c] = NoSaved \/ saved'[c] = [saved[c] EXCEPT !.pages = @ \cup {p}]
    BY <1>1 DEF Spill, StartFrames, Filled, Subjournaled
  <2>3. batch'[c] = [todo |-> {p}, commit |-> FALSE, first |-> FirstFrame(c), headed |-> FALSE]
    BY <1>1 DEF Spill, StartFrames, Filled
  <2>4. FirstFrame(c) \in Nat
    BY <2>1 DEF FirstFrame
  <2>5. /\ {"mx", "mine", "pages"} \subseteq DOMAIN saved'[c]
        /\ saved'[c].mx \in -1 .. MaxFrames /\ DOMAIN saved'[c].mine = Pages
        /\ saved'[c].pages \subseteq Pages
    <3>1. CASE saved'[c] = NoSaved
      BY <1>1, <3>1, Kinds
    <3>2. CASE saved'[c] = [saved[c] EXCEPT !.pages = @ \cup {p}]
      BY <1>1, <3>2 DEF SizedWriter
    <3> QED
      BY <2>2, <3>1, <3>2
  <2> QED
    BY <1>1, <2>2, <2>3, <2>4, <2>5 DEF SizedWriter, SizedReader, Numbered
<1>7. SizedCkpt(c)'
  BY <1>1, Kinds DEF Spill, StartFrames, Subjournaled, FirstFrame, SizedCkpt, SizedReader, SizedShared, Numbered
<1>8. Inv' /\ Order' /\ Steps(c)
  BY SpillKeeps, SpillOrder DEF Ordered
<1> QED
  BY <1>2, <1>3, <1>4, <1>5, <1>6, <1>7, <1>8, SizedStep DEF Content, Moves

LEMMA CommitMoves ==
  ASSUME Inv, Order, Content, NEW c \in Conns, setting' = setting, Commit(c)
  PROVE  Moves(c)
<1>1. /\ SizedReader(c) /\ SizedWriter(c) /\ SizedCkpt(c) /\ SizedShared /\ SizedLog /\ Filled
      /\ Marks' = Marks /\ MaxFrames' = MaxFrames /\ Slots' = Slots /\ MaxTxn' = MaxTxn
      /\ DOMAIN hdr = Conns /\ DOMAIN tmp = Conns /\ DOMAIN ckpt = Conns
      /\ IsHdr(hdr[c]) /\ IsHdr(tmp[c]) /\ IsHdr(shm[1]) /\ {1, 2} \subseteq DOMAIN shm
      /\ MaxFrames \in Nat /\ MaxTxn \in Nat
  BY SameBounds, Bounds DEF Content, Sized, Inv, Shaped
<1>2. Filled' /\ \A d \in Conns \ {c} : Unmoved(d)
  BY <1>1 DEF Commit, StartFrames, Subjournaled, FirstFrame, Filled, Unmoved
<1>3. SizedShared'
  BY <1>1 DEF Commit, StartFrames, Subjournaled, FirstFrame, SizedShared, SizedReader, SizedCkpt, Numbered, IsHdr
<1>4. SizedLog'
  BY <1>1 DEF Commit, StartFrames, Subjournaled, FirstFrame, SizedLog
<1>5. SizedReader(c)'
  BY <1>1, Kinds DEF Commit, StartFrames, Subjournaled, FirstFrame, SizedReader, SizedShared, Filled, Numbered, IsHdr
<1>6. SizedWriter(c)'
  <2>1. 1 \in Pages /\ shm[1].mx + 1 \in Nat
    BY <1>1, Bounds DEF SizedShared, Numbered
  <2>2. /\ UNCHANGED << mine, dirty >> /\ saved'[c] = saved[c] /\ last'[c] = hdr[c].mx
    BY <1>1 DEF Commit, StartFrames, Filled
  <2>3. \E todo \in {{1}, dirty[c]} :
          batch'[c] = [todo |-> todo, commit |-> TRUE, first |-> FirstFrame(c), headed |-> FALSE]
    BY <1>1 DEF Commit, StartFrames, Filled
  <2>4. FirstFrame(c) \in Nat
    BY <2>1 DEF FirstFrame
  <2> HIDE DEF Commit
  <2> QED
    BY <1>1, <2>1, <2>2, <2>3, <2>4 DEF SizedWriter, SizedReader, Numbered
<1>7. SizedCkpt(c)'
  BY <1>1, Kinds DEF Commit, StartFrames, Subjournaled, FirstFrame, SizedCkpt, SizedReader, SizedShared, Numbered
<1>8. Inv' /\ Order' /\ Steps(c)
  BY CommitKeeps, CommitOrder DEF Ordered
<1> QED
  BY <1>2, <1>3, <1>4, <1>5, <1>6, <1>7, <1>8, SizedStep DEF Content, Moves

LEMMA RestartLogMoves ==
  ASSUME Inv, Order, Content, NEW c \in Conns, setting' = setting, RestartLog(c)
  PROVE  Moves(c)
<1>1. /\ SizedReader(c) /\ SizedWriter(c) /\ SizedCkpt(c) /\ SizedShared /\ SizedLog /\ Filled
      /\ Marks' = Marks /\ MaxFrames' = MaxFrames /\ Slots' = Slots /\ MaxTxn' = MaxTxn
      /\ DOMAIN hdr = Conns /\ DOMAIN tmp = Conns /\ DOMAIN ckpt = Conns
      /\ IsHdr(hdr[c]) /\ IsHdr(tmp[c]) /\ IsHdr(shm[1]) /\ {1, 2} \subseteq DOMAIN shm
      /\ MaxFrames \in Nat /\ MaxTxn \in Nat
  BY SameBounds, Bounds DEF Content, Sized, Inv, Shaped
<1>2. Filled' /\ \A d \in Conns \ {c} : Unmoved(d)
  BY <1>1 DEF RestartLog, Restarted, Filled, Unmoved
<1>3. SizedShared'
  <2> DEFINE h == Restarted(hdr[c], FreshSalt)
  <2>1. h.mx = 0 /\ h.last = hdr[c].last
    BY <1>1 DEF Restarted, IsHdr
  <2>2. shm' = shm \/ shm' = [shm EXCEPT ![2] = h]
    BY DEF RestartLog
  <2> HIDE DEF h
  <2>3. UNCHANGED << nBackfill, marks, db, idx, zeroExcl >> /\ marksExcl' \in {marksExcl, c}
    BY DEF RestartLog
  <2> QED
    BY <1>1, <2>1, <2>2, <2>3 DEF SizedShared, SizedReader, Numbered
<1>4. SizedLog'
  BY <1>1 DEF RestartLog, Restarted, SizedLog
<1>5. SizedReader(c)'
  <2> DEFINE h == Restarted(hdr[c], FreshSalt)
  <2>1. h.mx = 0 /\ h.last = hdr[c].last
    BY <1>1 DEF Restarted, IsHdr
  <2>2. hdr' = hdr \/ hdr' = [hdr EXCEPT ![c] = h]
    BY DEF RestartLog
  <2> HIDE DEF h
  <2>3. UNCHANGED << tmp, minFrame, mark >> /\ readLock'[c] \in {readLock[c], -1}
    BY <1>1 DEF RestartLog, Filled
  <2> QED
    BY <1>1, <2>1, <2>2, <2>3 DEF SizedReader, Numbered
<1>6. SizedWriter(c)'
  BY <1>1, Kinds DEF RestartLog, Restarted, SizedWriter, SizedReader, Filled, Numbered
<1>7. SizedCkpt(c)'
  BY <1>1, Kinds DEF RestartLog, Restarted, SizedCkpt, SizedReader, SizedShared, Numbered
<1>8. Inv' /\ Order' /\ Steps(c)
  BY RestartLogKeeps, RestartLogOrder DEF Ordered
<1> QED
  BY <1>2, <1>3, <1>4, <1>5, <1>6, <1>7, <1>8, SizedStep DEF Content, Moves

LEMMA RestartHeaderMoves ==
  ASSUME Inv, Order, Content, NEW c \in Conns, setting' = setting, RestartHeader(c)
  PROVE  Moves(c)
<1>1. /\ SizedReader(c) /\ SizedWriter(c) /\ SizedCkpt(c) /\ SizedShared /\ SizedLog /\ Filled
      /\ Marks' = Marks /\ MaxFrames' = MaxFrames /\ Slots' = Slots /\ MaxTxn' = MaxTxn
      /\ DOMAIN hdr = Conns /\ DOMAIN tmp = Conns /\ DOMAIN ckpt = Conns
      /\ IsHdr(hdr[c]) /\ IsHdr(tmp[c]) /\ IsHdr(shm[1]) /\ {1, 2} \subseteq DOMAIN shm
      /\ MaxFrames \in Nat /\ MaxTxn \in Nat
  BY SameBounds, Bounds DEF Content, Sized, Inv, Shaped
<1>2. Filled' /\ \A d \in Conns \ {c} : Unmoved(d)
  BY <1>1 DEF RestartHeader, Filled, Unmoved
<1>3. SizedShared'
  BY <1>1 DEF RestartHeader, SizedShared, SizedReader, SizedCkpt, Numbered, IsHdr
<1>4. SizedLog'
  BY <1>1 DEF RestartHeader, SizedLog
<1>5. SizedReader(c)'
  BY <1>1, Kinds DEF RestartHeader, SizedReader, SizedShared, Filled, Numbered, IsHdr
<1>6. SizedWriter(c)'
  BY <1>1, Kinds DEF RestartHeader, SizedWriter, SizedReader, Filled, Numbered
<1>7. SizedCkpt(c)'
  BY <1>1, Kinds DEF RestartHeader, SizedCkpt, SizedReader, SizedShared, Numbered
<1>8. Inv' /\ Order' /\ Steps(c)
  BY RestartHeaderKeeps, RestartHeaderOrder DEF Ordered
<1> QED
  BY <1>2, <1>3, <1>4, <1>5, <1>6, <1>7, <1>8, SizedStep DEF Content, Moves

LEMMA RestartEndMoves ==
  ASSUME Inv, Order, Content, NEW c \in Conns, setting' = setting, RestartEnd(c)
  PROVE  Moves(c)
<1>1. /\ SizedReader(c) /\ SizedWriter(c) /\ SizedCkpt(c) /\ SizedShared /\ SizedLog /\ Filled
      /\ Marks' = Marks /\ MaxFrames' = MaxFrames /\ Slots' = Slots /\ MaxTxn' = MaxTxn
      /\ DOMAIN hdr = Conns /\ DOMAIN tmp = Conns /\ DOMAIN ckpt = Conns
      /\ IsHdr(hdr[c]) /\ IsHdr(tmp[c]) /\ IsHdr(shm[1]) /\ {1, 2} \subseteq DOMAIN shm
      /\ MaxFrames \in Nat /\ MaxTxn \in Nat
  BY SameBounds, Bounds DEF Content, Sized, Inv, Shaped
<1>2. Filled' /\ \A d \in Conns \ {c} : Unmoved(d)
  BY <1>1 DEF RestartEnd, RestartInfo, Filled, Unmoved
<1>3. SizedShared'
  BY <1>1 DEF RestartEnd, RestartInfo, SizedShared, Numbered, Unused
<1>4. SizedLog'
  BY <1>1 DEF RestartEnd, RestartInfo, SizedLog
<1>5. SizedReader(c)'
  BY <1>1, Kinds DEF RestartEnd, RestartInfo, SizedReader, SizedShared, Filled, Numbered, IsHdr
<1>6. SizedWriter(c)'
  BY <1>1, Kinds DEF RestartEnd, RestartInfo, SizedWriter, SizedReader, Filled, Numbered
<1>7. SizedCkpt(c)'
  BY <1>1, Kinds DEF RestartEnd, RestartInfo, SizedCkpt, SizedReader, SizedShared, Numbered
<1>8. Inv' /\ Order' /\ Steps(c)
  BY RestartEndKeeps, RestartEndOrder DEF Ordered
<1> QED
  BY <1>2, <1>3, <1>4, <1>5, <1>6, <1>7, <1>8, SizedStep DEF Content, Moves

LEMMA WriteLogHeaderMoves ==
  ASSUME Inv, Order, Content, NEW c \in Conns, setting' = setting, WriteLogHeader(c)
  PROVE  Moves(c)
<1>1. /\ SizedReader(c) /\ SizedWriter(c) /\ SizedCkpt(c) /\ SizedShared /\ SizedLog /\ Filled
      /\ Marks' = Marks /\ MaxFrames' = MaxFrames /\ Slots' = Slots /\ MaxTxn' = MaxTxn
      /\ DOMAIN hdr = Conns /\ DOMAIN tmp = Conns /\ DOMAIN ckpt = Conns
      /\ IsHdr(hdr[c]) /\ IsHdr(tmp[c]) /\ IsHdr(shm[1]) /\ {1, 2} \subseteq DOMAIN shm
      /\ MaxFrames \in Nat /\ MaxTxn \in Nat
  BY SameBounds, Bounds DEF Content, Sized, Inv, Shaped
<1>2. Filled' /\ \A d \in Conns \ {c} : Unmoved(d)
  BY <1>1 DEF WriteLogHeader, SyncHeader, Filled, Unmoved
<1>3. SizedShared'
  BY <1>1 DEF WriteLogHeader, SyncHeader, SizedShared, SizedReader, SizedCkpt, Numbered, IsHdr
<1>4. SizedLog'
  BY <1>1 DEF WriteLogHeader, SyncHeader, SizedLog
<1>5. SizedReader(c)'
  BY <1>1, Kinds DEF WriteLogHeader, SyncHeader, SizedReader, SizedShared, Filled, Numbered, IsHdr
<1>6. SizedWriter(c)'
  BY <1>1, Kinds DEF WriteLogHeader, SyncHeader, SizedWriter, SizedReader, Filled, Numbered
<1>7. SizedCkpt(c)'
  BY <1>1, Kinds DEF WriteLogHeader, SyncHeader, SizedCkpt, SizedReader, SizedShared, Numbered
<1>8. Inv' /\ Order' /\ Steps(c)
  BY WriteLogHeaderKeeps, WriteLogHeaderOrder DEF Ordered
<1> QED
  BY <1>2, <1>3, <1>4, <1>5, <1>6, <1>7, <1>8, SizedStep DEF Content, Moves

LEMMA WriteFrameMoves ==
  ASSUME Inv, Order, Content, NEW c \in Conns, setting' = setting, WriteFrame(c)
  PROVE  Moves(c)
<1>1. /\ SizedReader(c) /\ SizedWriter(c) /\ SizedCkpt(c) /\ SizedShared /\ SizedLog /\ Filled
      /\ Marks' = Marks /\ MaxFrames' = MaxFrames /\ Slots' = Slots /\ MaxTxn' = MaxTxn
      /\ DOMAIN hdr = Conns /\ DOMAIN tmp = Conns /\ DOMAIN ckpt = Conns
      /\ IsHdr(hdr[c]) /\ IsHdr(tmp[c]) /\ IsHdr(shm[1]) /\ {1, 2} \subseteq DOMAIN shm
      /\ MaxFrames \in Nat /\ MaxTxn \in Nat
  BY SameBounds, Bounds DEF Content, Sized, Inv, Shaped
<1>2. Filled' /\ \A d \in Conns \ {c} : Unmoved(d)
  BY <1>1 DEF WriteFrame, Filled, Unmoved
<1>3. SizedShared'
  BY <1>1 DEF WriteFrame, SizedShared, SizedReader, SizedCkpt, Numbered, IsHdr
<1>4. SizedLog'
  <2>1. \/ \E f, v : wal' = [wal EXCEPT !.frames[f].val = v]
        \/ \E f \in Slots : \E fr : IsFrame(fr) /\ wal' = [wal EXCEPT !.frames[f] = fr]
    <3> DEFINE p == Min(batch[c].todo)
               fr == Frame(Sum(wal, last[c]), p, mine[c][p],
                           IF batch[c].commit /\ batch[c].todo = {p} THEN txn[c] ELSE 0)
    <3>1. IsFrame(fr)
      BY DEF IsFrame, Frame
    <3>2. \/ wal' = [wal EXCEPT !.frames[FindFrame(c, p)].val = mine[c][p]]
          \/ last[c] + 1 \in Slots /\ wal' = [wal EXCEPT !.frames[last[c] + 1] = fr]
      BY DEF WriteFrame
    <3> HIDE DEF fr
    <3> QED
      BY <3>1, <3>2
  <2>2. {"salt", "frames"} \subseteq DOMAIN wal' /\ DOMAIN wal'.frames = Slots
    BY <1>1, <2>1 DEF SizedLog
  <2>3. \A f \in Slots : IsFrame(wal'.frames[f])
    <3>1. CASE \E f, v : wal' = [wal EXCEPT !.frames[f].val = v]
      BY <1>1, <3>1 DEF SizedLog, IsFrame
    <3>2. CASE \E f \in Slots : \E fr : IsFrame(fr) /\ wal' = [wal EXCEPT !.frames[f] = fr]
      BY <1>1, <3>2 DEF SizedLog
    <3> QED
      BY <2>1, <3>1, <3>2
  <2>4. DOMAIN hist' = DOMAIN hist
    BY DEF WriteFrame
  <2> QED
    BY <1>1, <2>2, <2>3, <2>4 DEF SizedLog
<1>5. SizedReader(c)'
  BY <1>1, Kinds DEF WriteFrame, SizedReader, SizedShared, Filled, Numbered, IsHdr
<1>6. SizedWriter(c)'
  BY <1>1 DEF WriteFrame, SizedWriter, Filled, Slots
<1>7. SizedCkpt(c)'
  BY <1>1, Kinds DEF WriteFrame, SizedCkpt, SizedReader, SizedShared, Numbered
<1>8. Inv' /\ Order' /\ Steps(c)
  BY WriteFrameKeeps, WriteFrameOrder DEF Ordered
<1> QED
  BY <1>2, <1>3, <1>4, <1>5, <1>6, <1>7, <1>8, SizedStep DEF Content, Moves

LEMMA RechecksumMoves ==
  ASSUME Inv, Order, Content, NEW c \in Conns, setting' = setting, Rechecksum(c)
  PROVE  Moves(c)
<1>1. /\ SizedReader(c) /\ SizedWriter(c) /\ SizedCkpt(c) /\ SizedShared /\ SizedLog /\ Filled
      /\ Marks' = Marks /\ MaxFrames' = MaxFrames /\ Slots' = Slots /\ MaxTxn' = MaxTxn
      /\ DOMAIN hdr = Conns /\ DOMAIN tmp = Conns /\ DOMAIN ckpt = Conns
      /\ IsHdr(hdr[c]) /\ IsHdr(tmp[c]) /\ IsHdr(shm[1]) /\ {1, 2} \subseteq DOMAIN shm
      /\ MaxFrames \in Nat /\ MaxTxn \in Nat
  BY SameBounds, Bounds DEF Content, Sized, Inv, Shaped
<1>2. Filled' /\ \A d \in Conns \ {c} : Unmoved(d)
  BY <1>1 DEF Rechecksum, Filled, Unmoved
<1>3. SizedShared'
  BY <1>1 DEF Rechecksum, SizedShared, SizedReader, SizedCkpt, Numbered, IsHdr
<1>4. SizedLog'
  BY <1>1 DEF Rechecksum, Rechecksummed, SizedLog, IsFrame
<1>5. SizedReader(c)'
  BY <1>1, Kinds DEF Rechecksum, SizedReader, SizedShared, Filled, Numbered, IsHdr
<1>6. SizedWriter(c)'
  BY <1>1, Kinds DEF Rechecksum, SizedWriter, SizedReader, Filled, Numbered
<1>7. SizedCkpt(c)'
  BY <1>1, Kinds DEF Rechecksum, SizedCkpt, SizedReader, SizedShared, Numbered
<1>8. Inv' /\ Order' /\ Steps(c)
  BY RechecksumKeeps, RechecksumOrder DEF Ordered
<1> QED
  BY <1>2, <1>3, <1>4, <1>5, <1>6, <1>7, <1>8, SizedStep DEF Content, Moves

LEMMA IndexFramesMoves ==
  ASSUME Inv, Order, Content, NEW c \in Conns, setting' = setting, IndexFrames(c)
  PROVE  Moves(c)
<1>1. /\ SizedReader(c) /\ SizedWriter(c) /\ SizedCkpt(c) /\ SizedShared /\ SizedLog /\ Filled
      /\ Marks' = Marks /\ MaxFrames' = MaxFrames /\ Slots' = Slots /\ MaxTxn' = MaxTxn
      /\ DOMAIN hdr = Conns /\ DOMAIN tmp = Conns /\ DOMAIN ckpt = Conns
      /\ IsHdr(hdr[c]) /\ IsHdr(tmp[c]) /\ IsHdr(shm[1]) /\ {1, 2} \subseteq DOMAIN shm
      /\ MaxFrames \in Nat /\ MaxTxn \in Nat
  BY SameBounds, Bounds DEF Content, Sized, Inv, Shaped
<1>2. Filled' /\ \A d \in Conns \ {c} : Unmoved(d)
  BY <1>1 DEF IndexFrames, SyncFrames, Filled, Unmoved
<1>3. SizedShared'
  <2>1. Entered(c, last[c], IndexAfter(c))
    BY IndexAfterIs DEF IndexFrames, Content, Held, FramesKept, WriteKept, Owned, Writing
  <2>2. DOMAIN idx' = Slots
    BY <2>1 DEF IndexFrames, Entered
  <2>3. /\ shm'[1] = shm[1]
        /\ shm'[2] = shm[2] \/ (shm'[2].mx = last[c] /\ shm'[2].last = txn[c])
    <3> DEFINE new == [[hdr[c] EXCEPT !.mx = last[c]] EXCEPT !.last = txn[c]]
    <3>1. new.mx = last[c] /\ new.last = txn[c]
      BY <1>1 DEF IsHdr
    <3>2. shm' = shm \/ shm' = [shm EXCEPT ![2] = new]
      BY DEF IndexFrames
    <3> HIDE DEF new
    <3>3. CASE shm' = shm
      <4>1. shm'[1] = shm[1] /\ shm'[2] = shm[2]
        BY <3>3
      <4> QED
        BY <4>1
    <3>4. CASE shm' = [shm EXCEPT ![2] = new]
      <4>1. shm'[1] = shm[1] /\ shm'[2] = new
        BY <1>1, <3>4
      <4> QED
        BY <3>1, <4>1
    <3> QED
      BY <3>2, <3>3, <3>4
  <2>4. UNCHANGED << nBackfill, marks, db, zeroExcl, marksExcl >>
    BY DEF IndexFrames
  <2>5. txn[c] \in Nat
    BY DEF Order, Younger
  <2> QED
    BY <1>1, <2>2, <2>3, <2>4, <2>5 DEF SizedShared, SizedWriter, Numbered
<1>4. SizedLog'
  BY <1>1 DEF IndexFrames, SyncFrames, SizedLog
<1>5. SizedReader(c)'
  <2> DEFINE h == [hdr[c] EXCEPT !.mx = last[c]]
             new == [h EXCEPT !.last = txn[c]]
  <2>1. IsHdr(h) /\ h.mx = last[c] /\ h.last = hdr[c].last
    BY <1>1, HeaderParts DEF IsHdr
  <2>2. new.mx = last[c] /\ new.last = txn[c]
    BY <2>1 DEF IsHdr
  <2>3. hdr' \in {[hdr EXCEPT ![c] = h], [hdr EXCEPT ![c] = new]}
    BY DEF IndexFrames
  <2> HIDE DEF h, new
  <2>4. hdr'[c].mx = last[c] /\ hdr'[c].last \in {hdr[c].last, txn[c]}
    BY <1>1, <2>1, <2>2, <2>3
  <2>5. UNCHANGED << tmp, readLock, minFrame, mark >>
    BY DEF IndexFrames
  <2>6. txn[c] \in Nat
    BY DEF Order, Younger
  <2> QED
    BY <1>1, <2>4, <2>5, <2>6 DEF SizedReader, SizedWriter, Numbered
<1>6. SizedWriter(c)'
  BY <1>1, Kinds DEF IndexFrames, SyncFrames, SizedWriter, SizedReader, Filled, Numbered
<1>7. SizedCkpt(c)'
  BY <1>1, Kinds DEF IndexFrames, SyncFrames, SizedCkpt, SizedReader, SizedShared, Numbered
<1>8. Inv' /\ Order' /\ Steps(c)
  BY IndexFramesKeeps, IndexFramesOrder DEF Ordered
<1> QED
  BY <1>2, <1>3, <1>4, <1>5, <1>6, <1>7, <1>8, SizedStep DEF Content, Moves

LEMMA PublishMoves ==
  ASSUME Inv, Order, Content, NEW c \in Conns, setting' = setting, Publish(c)
  PROVE  Moves(c)
<1>1. /\ SizedReader(c) /\ SizedWriter(c) /\ SizedCkpt(c) /\ SizedShared /\ SizedLog /\ Filled
      /\ Marks' = Marks /\ MaxFrames' = MaxFrames /\ Slots' = Slots /\ MaxTxn' = MaxTxn
      /\ DOMAIN hdr = Conns /\ DOMAIN tmp = Conns /\ DOMAIN ckpt = Conns
      /\ IsHdr(hdr[c]) /\ IsHdr(tmp[c]) /\ IsHdr(shm[1]) /\ {1, 2} \subseteq DOMAIN shm
      /\ MaxFrames \in Nat /\ MaxTxn \in Nat
  BY SameBounds, Bounds DEF Content, Sized, Inv, Shaped
<1>2. Filled' /\ \A d \in Conns \ {c} : Unmoved(d)
  BY <1>1 DEF Publish, EndTransaction, Filled, Unmoved
<1>3. SizedShared'
  BY <1>1 DEF Publish, EndTransaction, SizedShared, SizedReader, SizedCkpt, Numbered, IsHdr
<1>4. SizedLog'
  BY <1>1 DEF Publish, EndTransaction, SizedLog
<1>5. SizedReader(c)'
  BY <1>1, Kinds DEF Publish, EndTransaction, SizedReader, SizedShared, Filled, Numbered, IsHdr
<1>6. SizedWriter(c)'
  BY <1>1, Kinds DEF Publish, EndTransaction, SizedWriter, SizedReader, Filled, Numbered
<1>7. SizedCkpt(c)'
  BY <1>1, Kinds DEF Publish, EndTransaction, SizedCkpt, SizedReader, SizedShared, Numbered
<1>8. Inv' /\ Order' /\ Steps(c)
  BY PublishKeeps, PublishOrder DEF Ordered
<1> QED
  BY <1>2, <1>3, <1>4, <1>5, <1>6, <1>7, <1>8, SizedStep DEF Content, Moves

LEMMA CkptBeginMoves ==
  ASSUME Inv, Order, Content, NEW c \in Conns, setting' = setting, CkptBegin(c)
  PROVE  Moves(c)
<1>1. /\ SizedReader(c) /\ SizedWriter(c) /\ SizedCkpt(c) /\ SizedShared /\ SizedLog /\ Filled
      /\ Marks' = Marks /\ MaxFrames' = MaxFrames /\ Slots' = Slots /\ MaxTxn' = MaxTxn
      /\ DOMAIN hdr = Conns /\ DOMAIN tmp = Conns /\ DOMAIN ckpt = Conns
      /\ IsHdr(hdr[c]) /\ IsHdr(tmp[c]) /\ IsHdr(shm[1]) /\ {1, 2} \subseteq DOMAIN shm
      /\ MaxFrames \in Nat /\ MaxTxn \in Nat
  BY SameBounds, Bounds DEF Content, Sized, Inv, Shaped
<1>2. Filled' /\ \A d \in Conns \ {c} : Unmoved(d)
  BY <1>1 DEF CkptBegin, Filled, Unmoved
<1>3. SizedShared'
  BY <1>1 DEF CkptBegin, SizedShared, SizedReader, SizedCkpt, Numbered, IsHdr
<1>4. SizedLog'
  BY <1>1 DEF CkptBegin, SizedLog
<1>5. SizedReader(c)'
  BY <1>1, Kinds DEF CkptBegin, SizedReader, SizedShared, Filled, Numbered, IsHdr
<1>6. SizedWriter(c)'
  BY <1>1, Kinds DEF CkptBegin, SizedWriter, SizedReader, Filled, Numbered
<1>7. SizedCkpt(c)'
  <2>1. Modes \subseteq {"passive", "full", "restart", "truncate"}
    BY WalAssumption DEF Inv, Shaped, Setting, Modes
  <2> QED
    BY <1>1, <2>1 DEF CkptBegin, SizedCkpt
<1>8. Inv' /\ Order' /\ Steps(c)
  BY CkptBeginKeeps, CkptBeginOrder DEF Ordered
<1> QED
  BY <1>2, <1>3, <1>4, <1>5, <1>6, <1>7, <1>8, SizedStep DEF Content, Moves

LEMMA CkptStartMoves ==
  ASSUME Inv, Order, Content, NEW c \in Conns, setting' = setting, CkptStart(c)
  PROVE  Moves(c)
<1>1. /\ SizedReader(c) /\ SizedWriter(c) /\ SizedCkpt(c) /\ SizedShared /\ SizedLog /\ Filled
      /\ Marks' = Marks /\ MaxFrames' = MaxFrames /\ Slots' = Slots /\ MaxTxn' = MaxTxn
      /\ DOMAIN hdr = Conns /\ DOMAIN tmp = Conns /\ DOMAIN ckpt = Conns
      /\ IsHdr(hdr[c]) /\ IsHdr(tmp[c]) /\ IsHdr(shm[1]) /\ {1, 2} \subseteq DOMAIN shm
      /\ MaxFrames \in Nat /\ MaxTxn \in Nat
  BY SameBounds, Bounds DEF Content, Sized, Inv, Shaped
<1>2. Filled' /\ \A d \in Conns \ {c} : Unmoved(d)
  BY <1>1 DEF CkptStart, Filled, Unmoved
<1>3. SizedShared'
  BY <1>1 DEF CkptStart, SizedShared, SizedReader, SizedCkpt, Numbered, IsHdr
<1>4. SizedLog'
  BY <1>1 DEF CkptStart, SizedLog
<1>5. SizedReader(c)'
  BY <1>1, Kinds DEF CkptStart, SizedReader, SizedShared, Filled, Numbered, IsHdr
<1>6. SizedWriter(c)'
  BY <1>1, Kinds DEF CkptStart, SizedWriter, SizedReader, Filled, Numbered
<1>7. SizedCkpt(c)'
  BY <1>1, Kinds DEF CkptStart, SizedCkpt, SizedReader, SizedShared, Numbered
<1>8. Inv' /\ Order' /\ Steps(c)
  BY CkptStartKeeps, CkptStartOrder DEF Ordered
<1> QED
  BY <1>2, <1>3, <1>4, <1>5, <1>6, <1>7, <1>8, SizedStep DEF Content, Moves

LEMMA CkptMarkMoves ==
  ASSUME Inv, Order, Content, NEW c \in Conns, setting' = setting, CkptMark(c)
  PROVE  Moves(c)
<1>1. /\ SizedReader(c) /\ SizedWriter(c) /\ SizedCkpt(c) /\ SizedShared /\ SizedLog /\ Filled
      /\ Marks' = Marks /\ MaxFrames' = MaxFrames /\ Slots' = Slots /\ MaxTxn' = MaxTxn
      /\ DOMAIN hdr = Conns /\ DOMAIN tmp = Conns /\ DOMAIN ckpt = Conns
      /\ IsHdr(hdr[c]) /\ IsHdr(tmp[c]) /\ IsHdr(shm[1]) /\ {1, 2} \subseteq DOMAIN shm
      /\ MaxFrames \in Nat /\ MaxTxn \in Nat
  BY SameBounds, Bounds DEF Content, Sized, Inv, Shaped
<1>2. Filled' /\ \A d \in Conns \ {c} : Unmoved(d)
  BY <1>1 DEF CkptMark, Filled, Unmoved
<1>3. SizedShared'
  BY <1>1 DEF CkptMark, SizedShared, SizedCkpt, Numbered, Unused
<1>4. SizedLog'
  BY <1>1 DEF CkptMark, SizedLog
<1>5. SizedReader(c)'
  BY <1>1, Kinds DEF CkptMark, SizedReader, SizedShared, Filled, Numbered, IsHdr
<1>6. SizedWriter(c)'
  BY <1>1, Kinds DEF CkptMark, SizedWriter, SizedReader, Filled, Numbered
<1>7. SizedCkpt(c)'
  BY <1>1, Kinds DEF CkptMark, SizedCkpt, SizedReader, SizedShared, Numbered
<1>8. Inv' /\ Order' /\ Steps(c)
  BY CkptMarkKeeps, CkptMarkOrder DEF Ordered
<1> QED
  BY <1>2, <1>3, <1>4, <1>5, <1>6, <1>7, <1>8, SizedStep DEF Content, Moves

LEMMA CkptPlanMoves ==
  ASSUME Inv, Order, Content, NEW c \in Conns, setting' = setting, CkptPlan(c)
  PROVE  Moves(c)
<1>1. /\ SizedReader(c) /\ SizedWriter(c) /\ SizedCkpt(c) /\ SizedShared /\ SizedLog /\ Filled
      /\ Marks' = Marks /\ MaxFrames' = MaxFrames /\ Slots' = Slots /\ MaxTxn' = MaxTxn
      /\ DOMAIN hdr = Conns /\ DOMAIN tmp = Conns /\ DOMAIN ckpt = Conns
      /\ IsHdr(hdr[c]) /\ IsHdr(tmp[c]) /\ IsHdr(shm[1]) /\ {1, 2} \subseteq DOMAIN shm
      /\ MaxFrames \in Nat /\ MaxTxn \in Nat
  BY SameBounds, Bounds DEF Content, Sized, Inv, Shaped
<1>2. Filled' /\ \A d \in Conns \ {c} : Unmoved(d)
  BY <1>1 DEF CkptPlan, Filled, Unmoved
<1>3. SizedShared'
  BY <1>1 DEF CkptPlan, SizedShared, SizedReader, SizedCkpt, Numbered, IsHdr
<1>4. SizedLog'
  BY <1>1 DEF CkptPlan, SizedLog
<1>5. SizedReader(c)'
  BY <1>1, Kinds DEF CkptPlan, SizedReader, SizedShared, Filled, Numbered, IsHdr
<1>6. SizedWriter(c)'
  BY <1>1, Kinds DEF CkptPlan, SizedWriter, SizedReader, Filled, Numbered
<1>7. SizedCkpt(c)'
  <2>1. ASSUME NEW p \in Pages
        PROVE  LastOf({f \in nBackfill + 1 .. hdr[c].mx : idx[f] = p}) \in Nat
    <3>1. nBackfill \in Nat /\ hdr[c].mx \in Nat
      BY Numbers DEF Content
    <3>2. {f \in nBackfill + 1 .. hdr[c].mx : idx[f] = p} \in SUBSET (0 .. hdr[c].mx)
      BY <3>1
    <3> QED
      BY <3>1, <3>2, LastOfIs
  <2> DEFINE plan == [p \in Pages |-> LastOf({f \in nBackfill + 1 .. hdr[c].mx : idx[f] = p})]
  <2>2. DOMAIN plan = Pages /\ \A p \in Pages : plan[p] \in Nat
    BY <2>1
  <2>3. ckpt' = ckpt \/ ckpt' = [ckpt EXCEPT ![c].plan = plan]
    BY DEF CkptPlan
  <2> HIDE DEF plan
  <2> QED
    BY <1>1, <2>2, <2>3 DEF SizedCkpt
<1>8. Inv' /\ Order' /\ Steps(c)
  BY CkptPlanKeeps, CkptPlanOrder DEF Ordered
<1> QED
  BY <1>2, <1>3, <1>4, <1>5, <1>6, <1>7, <1>8, SizedStep DEF Content, Moves

LEMMA CkptLockMoves ==
  ASSUME Inv, Order, Content, NEW c \in Conns, setting' = setting, CkptLock(c)
  PROVE  Moves(c)
<1>1. /\ SizedReader(c) /\ SizedWriter(c) /\ SizedCkpt(c) /\ SizedShared /\ SizedLog /\ Filled
      /\ Marks' = Marks /\ MaxFrames' = MaxFrames /\ Slots' = Slots /\ MaxTxn' = MaxTxn
      /\ DOMAIN hdr = Conns /\ DOMAIN tmp = Conns /\ DOMAIN ckpt = Conns
      /\ IsHdr(hdr[c]) /\ IsHdr(tmp[c]) /\ IsHdr(shm[1]) /\ {1, 2} \subseteq DOMAIN shm
      /\ MaxFrames \in Nat /\ MaxTxn \in Nat
  BY SameBounds, Bounds DEF Content, Sized, Inv, Shaped
<1>2. Filled' /\ \A d \in Conns \ {c} : Unmoved(d)
  BY <1>1 DEF CkptLock, Filled, Unmoved
<1>3. SizedShared'
  BY <1>1 DEF CkptLock, SizedShared, SizedReader, SizedCkpt, Numbered, IsHdr
<1>4. SizedLog'
  BY <1>1 DEF CkptLock, SizedLog
<1>5. SizedReader(c)'
  BY <1>1, Kinds DEF CkptLock, SizedReader, SizedShared, Filled, Numbered, IsHdr
<1>6. SizedWriter(c)'
  BY <1>1, Kinds DEF CkptLock, SizedWriter, SizedReader, Filled, Numbered
<1>7. SizedCkpt(c)'
  BY <1>1, Kinds DEF CkptLock, SizedCkpt, SizedReader, SizedShared, Numbered
<1>8. Inv' /\ Order' /\ Steps(c)
  BY CkptLockKeeps, CkptLockOrder DEF Ordered
<1> QED
  BY <1>2, <1>3, <1>4, <1>5, <1>6, <1>7, <1>8, SizedStep DEF Content, Moves

LEMMA CkptSyncMoves ==
  ASSUME Inv, Order, Content, NEW c \in Conns, setting' = setting, CkptSync(c)
  PROVE  Moves(c)
<1>1. /\ SizedReader(c) /\ SizedWriter(c) /\ SizedCkpt(c) /\ SizedShared /\ SizedLog /\ Filled
      /\ Marks' = Marks /\ MaxFrames' = MaxFrames /\ Slots' = Slots /\ MaxTxn' = MaxTxn
      /\ DOMAIN hdr = Conns /\ DOMAIN tmp = Conns /\ DOMAIN ckpt = Conns
      /\ IsHdr(hdr[c]) /\ IsHdr(tmp[c]) /\ IsHdr(shm[1]) /\ {1, 2} \subseteq DOMAIN shm
      /\ MaxFrames \in Nat /\ MaxTxn \in Nat
  BY SameBounds, Bounds DEF Content, Sized, Inv, Shaped
<1>2. Filled' /\ \A d \in Conns \ {c} : Unmoved(d)
  BY <1>1 DEF CkptSync, SyncLog, Filled, Unmoved
<1>3. SizedShared'
  BY <1>1 DEF CkptSync, SyncLog, SizedShared, SizedReader, SizedCkpt, Numbered, IsHdr
<1>4. SizedLog'
  BY <1>1 DEF CkptSync, SyncLog, SizedLog
<1>5. SizedReader(c)'
  BY <1>1, Kinds DEF CkptSync, SyncLog, SizedReader, SizedShared, Filled, Numbered, IsHdr
<1>6. SizedWriter(c)'
  BY <1>1, Kinds DEF CkptSync, SyncLog, SizedWriter, SizedReader, Filled, Numbered
<1>7. SizedCkpt(c)'
  BY <1>1, Kinds DEF CkptSync, SyncLog, SizedCkpt, SizedReader, SizedShared, Numbered
<1>8. Inv' /\ Order' /\ Steps(c)
  BY CkptSyncKeeps, CkptSyncOrder DEF Ordered
<1> QED
  BY <1>2, <1>3, <1>4, <1>5, <1>6, <1>7, <1>8, SizedStep DEF Content, Moves

LEMMA CkptCopyMoves ==
  ASSUME Inv, Order, Content, NEW c \in Conns, setting' = setting, CkptCopy(c)
  PROVE  Moves(c)
<1>1. /\ SizedReader(c) /\ SizedWriter(c) /\ SizedCkpt(c) /\ SizedShared /\ SizedLog /\ Filled
      /\ Marks' = Marks /\ MaxFrames' = MaxFrames /\ Slots' = Slots /\ MaxTxn' = MaxTxn
      /\ DOMAIN hdr = Conns /\ DOMAIN tmp = Conns /\ DOMAIN ckpt = Conns
      /\ IsHdr(hdr[c]) /\ IsHdr(tmp[c]) /\ IsHdr(shm[1]) /\ {1, 2} \subseteq DOMAIN shm
      /\ MaxFrames \in Nat /\ MaxTxn \in Nat
  BY SameBounds, Bounds DEF Content, Sized, Inv, Shaped
<1>2. Filled' /\ \A d \in Conns \ {c} : Unmoved(d)
  BY <1>1 DEF CkptCopy, Filled, Unmoved
<1>3. SizedShared'
  BY <1>1 DEF CkptCopy, SizedShared, SizedReader, SizedCkpt, Numbered, IsHdr
<1>4. SizedLog'
  BY <1>1 DEF CkptCopy, SizedLog
<1>5. SizedReader(c)'
  BY <1>1, Kinds DEF CkptCopy, SizedReader, SizedShared, Filled, Numbered, IsHdr
<1>6. SizedWriter(c)'
  BY <1>1, Kinds DEF CkptCopy, SizedWriter, SizedReader, Filled, Numbered
<1>7. SizedCkpt(c)'
  BY <1>1, Kinds DEF CkptCopy, SizedCkpt, SizedReader, SizedShared, Numbered
<1>8. Inv' /\ Order' /\ Steps(c)
  BY CkptCopyKeeps, CkptCopyOrder DEF Ordered
<1> QED
  BY <1>2, <1>3, <1>4, <1>5, <1>6, <1>7, <1>8, SizedStep DEF Content, Moves

LEMMA CkptFillMoves ==
  ASSUME Inv, Order, Content, NEW c \in Conns, setting' = setting, CkptFill(c)
  PROVE  Moves(c)
<1>1. /\ SizedReader(c) /\ SizedWriter(c) /\ SizedCkpt(c) /\ SizedShared /\ SizedLog /\ Filled
      /\ Marks' = Marks /\ MaxFrames' = MaxFrames /\ Slots' = Slots /\ MaxTxn' = MaxTxn
      /\ DOMAIN hdr = Conns /\ DOMAIN tmp = Conns /\ DOMAIN ckpt = Conns
      /\ IsHdr(hdr[c]) /\ IsHdr(tmp[c]) /\ IsHdr(shm[1]) /\ {1, 2} \subseteq DOMAIN shm
      /\ MaxFrames \in Nat /\ MaxTxn \in Nat
  BY SameBounds, Bounds DEF Content, Sized, Inv, Shaped
<1>2. Filled' /\ \A d \in Conns \ {c} : Unmoved(d)
  BY <1>1 DEF CkptFill, SyncDb, Filled, Unmoved
<1>3. SizedShared'
  BY <1>1 DEF CkptFill, SyncDb, SizedShared, SizedReader, SizedCkpt, Numbered, IsHdr
<1>4. SizedLog'
  BY <1>1 DEF CkptFill, SyncDb, SizedLog
<1>5. SizedReader(c)'
  BY <1>1, Kinds DEF CkptFill, SyncDb, SizedReader, SizedShared, Filled, Numbered, IsHdr
<1>6. SizedWriter(c)'
  BY <1>1, Kinds DEF CkptFill, SyncDb, SizedWriter, SizedReader, Filled, Numbered
<1>7. SizedCkpt(c)'
  BY <1>1, Kinds DEF CkptFill, SyncDb, SizedCkpt, SizedReader, SizedShared, Numbered
<1>8. Inv' /\ Order' /\ Steps(c)
  BY CkptFillKeeps, CkptFillOrder DEF Ordered
<1> QED
  BY <1>2, <1>3, <1>4, <1>5, <1>6, <1>7, <1>8, SizedStep DEF Content, Moves

LEMMA CkptInterruptMoves ==
  ASSUME Inv, Order, Content, NEW c \in Conns, setting' = setting, CkptInterrupt(c)
  PROVE  Moves(c)
<1>1. /\ SizedReader(c) /\ SizedWriter(c) /\ SizedCkpt(c) /\ SizedShared /\ SizedLog /\ Filled
      /\ Marks' = Marks /\ MaxFrames' = MaxFrames /\ Slots' = Slots /\ MaxTxn' = MaxTxn
      /\ DOMAIN hdr = Conns /\ DOMAIN tmp = Conns /\ DOMAIN ckpt = Conns
      /\ IsHdr(hdr[c]) /\ IsHdr(tmp[c]) /\ IsHdr(shm[1]) /\ {1, 2} \subseteq DOMAIN shm
      /\ MaxFrames \in Nat /\ MaxTxn \in Nat
  BY SameBounds, Bounds DEF Content, Sized, Inv, Shaped
<1>2. Filled' /\ \A d \in Conns \ {c} : Unmoved(d)
  BY <1>1 DEF CkptInterrupt, Filled, Unmoved
<1>3. SizedShared'
  BY <1>1 DEF CkptInterrupt, SizedShared, SizedReader, SizedCkpt, Numbered, IsHdr
<1>4. SizedLog'
  BY <1>1 DEF CkptInterrupt, SizedLog
<1>5. SizedReader(c)'
  BY <1>1, Kinds DEF CkptInterrupt, SizedReader, SizedShared, Filled, Numbered, IsHdr
<1>6. SizedWriter(c)'
  BY <1>1, Kinds DEF CkptInterrupt, SizedWriter, SizedReader, Filled, Numbered
<1>7. SizedCkpt(c)'
  BY <1>1, Kinds DEF CkptInterrupt, SizedCkpt, SizedReader, SizedShared, Numbered
<1>8. Inv' /\ Order' /\ Steps(c)
  BY CkptInterruptKeeps, CkptInterruptOrder DEF Ordered
<1> QED
  BY <1>2, <1>3, <1>4, <1>5, <1>6, <1>7, <1>8, SizedStep DEF Content, Moves

LEMMA CkptResetMoves ==
  ASSUME Inv, Order, Content, NEW c \in Conns, setting' = setting, CkptReset(c)
  PROVE  Moves(c)
<1>1. /\ SizedReader(c) /\ SizedWriter(c) /\ SizedCkpt(c) /\ SizedShared /\ SizedLog /\ Filled
      /\ Marks' = Marks /\ MaxFrames' = MaxFrames /\ Slots' = Slots /\ MaxTxn' = MaxTxn
      /\ DOMAIN hdr = Conns /\ DOMAIN tmp = Conns /\ DOMAIN ckpt = Conns
      /\ IsHdr(hdr[c]) /\ IsHdr(tmp[c]) /\ IsHdr(shm[1]) /\ {1, 2} \subseteq DOMAIN shm
      /\ MaxFrames \in Nat /\ MaxTxn \in Nat
  BY SameBounds, Bounds DEF Content, Sized, Inv, Shaped
<1>2. Filled' /\ \A d \in Conns \ {c} : Unmoved(d)
  BY <1>1 DEF CkptReset, Restarted, Filled, Unmoved
<1>3. SizedShared'
  <2> DEFINE h == Restarted(hdr[c], FreshSalt)
  <2>1. h.mx = 0 /\ h.last = hdr[c].last
    BY <1>1 DEF Restarted, IsHdr
  <2>2. shm' = shm \/ shm' = [shm EXCEPT ![2] = h]
    BY DEF CkptReset
  <2> HIDE DEF h
  <2>3. UNCHANGED << nBackfill, marks, db, idx, zeroExcl >> /\ marksExcl' \in {marksExcl, c}
    BY DEF CkptReset
  <2> QED
    BY <1>1, <2>1, <2>2, <2>3 DEF SizedShared, SizedReader, Numbered
<1>4. SizedLog'
  BY <1>1 DEF CkptReset, Restarted, SizedLog
<1>5. SizedReader(c)'
  <2> DEFINE h == Restarted(hdr[c], FreshSalt)
  <2>1. h.mx = 0 /\ h.last = hdr[c].last
    BY <1>1 DEF Restarted, IsHdr
  <2>2. hdr' = hdr \/ hdr' = [hdr EXCEPT ![c] = h]
    BY DEF CkptReset
  <2> HIDE DEF h
  <2>3. UNCHANGED << tmp, minFrame, mark >> /\ readLock'[c] \in {readLock[c], -1}
    BY <1>1 DEF CkptReset, Filled
  <2> QED
    BY <1>1, <2>1, <2>2, <2>3 DEF SizedReader, Numbered
<1>6. SizedWriter(c)'
  BY <1>1, Kinds DEF CkptReset, Restarted, SizedWriter, SizedReader, Filled, Numbered
<1>7. SizedCkpt(c)'
  BY <1>1, Kinds DEF CkptReset, Restarted, SizedCkpt, SizedReader, SizedShared, Numbered
<1>8. Inv' /\ Order' /\ Steps(c)
  BY CkptResetKeeps, CkptResetOrder DEF Ordered
<1> QED
  BY <1>2, <1>3, <1>4, <1>5, <1>6, <1>7, <1>8, SizedStep DEF Content, Moves

LEMMA CkptResetHeaderMoves ==
  ASSUME Inv, Order, Content, NEW c \in Conns, setting' = setting, CkptResetHeader(c)
  PROVE  Moves(c)
<1>1. /\ SizedReader(c) /\ SizedWriter(c) /\ SizedCkpt(c) /\ SizedShared /\ SizedLog /\ Filled
      /\ Marks' = Marks /\ MaxFrames' = MaxFrames /\ Slots' = Slots /\ MaxTxn' = MaxTxn
      /\ DOMAIN hdr = Conns /\ DOMAIN tmp = Conns /\ DOMAIN ckpt = Conns
      /\ IsHdr(hdr[c]) /\ IsHdr(tmp[c]) /\ IsHdr(shm[1]) /\ {1, 2} \subseteq DOMAIN shm
      /\ MaxFrames \in Nat /\ MaxTxn \in Nat
  BY SameBounds, Bounds DEF Content, Sized, Inv, Shaped
<1>2. Filled' /\ \A d \in Conns \ {c} : Unmoved(d)
  BY <1>1 DEF CkptResetHeader, Filled, Unmoved
<1>3. SizedShared'
  BY <1>1 DEF CkptResetHeader, SizedShared, SizedReader, SizedCkpt, Numbered, IsHdr
<1>4. SizedLog'
  BY <1>1 DEF CkptResetHeader, SizedLog
<1>5. SizedReader(c)'
  BY <1>1, Kinds DEF CkptResetHeader, SizedReader, SizedShared, Filled, Numbered, IsHdr
<1>6. SizedWriter(c)'
  BY <1>1, Kinds DEF CkptResetHeader, SizedWriter, SizedReader, Filled, Numbered
<1>7. SizedCkpt(c)'
  BY <1>1, Kinds DEF CkptResetHeader, SizedCkpt, SizedReader, SizedShared, Numbered
<1>8. Inv' /\ Order' /\ Steps(c)
  BY CkptResetHeaderKeeps, CkptResetHeaderOrder DEF Ordered
<1> QED
  BY <1>2, <1>3, <1>4, <1>5, <1>6, <1>7, <1>8, SizedStep DEF Content, Moves

LEMMA CkptTruncateMoves ==
  ASSUME Inv, Order, Content, NEW c \in Conns, setting' = setting, CkptTruncate(c)
  PROVE  Moves(c)
<1>1. /\ SizedReader(c) /\ SizedWriter(c) /\ SizedCkpt(c) /\ SizedShared /\ SizedLog /\ Filled
      /\ Marks' = Marks /\ MaxFrames' = MaxFrames /\ Slots' = Slots /\ MaxTxn' = MaxTxn
      /\ DOMAIN hdr = Conns /\ DOMAIN tmp = Conns /\ DOMAIN ckpt = Conns
      /\ IsHdr(hdr[c]) /\ IsHdr(tmp[c]) /\ IsHdr(shm[1]) /\ {1, 2} \subseteq DOMAIN shm
      /\ MaxFrames \in Nat /\ MaxTxn \in Nat
  BY SameBounds, Bounds DEF Content, Sized, Inv, Shaped
<1>2. Filled' /\ \A d \in Conns \ {c} : Unmoved(d)
  BY <1>1 DEF CkptTruncate, RestartInfo, Filled, Unmoved
<1>3. SizedShared'
  BY <1>1 DEF CkptTruncate, RestartInfo, SizedShared, Numbered, Unused
<1>4. SizedLog'
  BY <1>1 DEF CkptTruncate, SizedLog, EmptyLog, NoFrame, IsFrame
<1>5. SizedReader(c)'
  BY <1>1, Kinds DEF CkptTruncate, RestartInfo, SizedReader, SizedShared, Filled, Numbered, IsHdr
<1>6. SizedWriter(c)'
  BY <1>1, Kinds DEF CkptTruncate, RestartInfo, SizedWriter, SizedReader, Filled, Numbered
<1>7. SizedCkpt(c)'
  BY <1>1, Kinds DEF CkptTruncate, RestartInfo, SizedCkpt, SizedReader, SizedShared, Numbered
<1>8. Inv' /\ Order' /\ Steps(c)
  BY CkptTruncateKeeps, CkptTruncateOrder DEF Ordered
<1> QED
  BY <1>2, <1>3, <1>4, <1>5, <1>6, <1>7, <1>8, SizedStep DEF Content, Moves

LEMMA CkptEndMoves ==
  ASSUME Inv, Order, Content, NEW c \in Conns, setting' = setting, CkptEnd(c)
  PROVE  Moves(c)
<1>1. /\ SizedReader(c) /\ SizedWriter(c) /\ SizedCkpt(c) /\ SizedShared /\ SizedLog /\ Filled
      /\ Marks' = Marks /\ MaxFrames' = MaxFrames /\ Slots' = Slots /\ MaxTxn' = MaxTxn
      /\ DOMAIN hdr = Conns /\ DOMAIN tmp = Conns /\ DOMAIN ckpt = Conns
      /\ IsHdr(hdr[c]) /\ IsHdr(tmp[c]) /\ IsHdr(shm[1]) /\ {1, 2} \subseteq DOMAIN shm
      /\ MaxFrames \in Nat /\ MaxTxn \in Nat
  BY SameBounds, Bounds DEF Content, Sized, Inv, Shaped
<1>2. Filled' /\ \A d \in Conns \ {c} : Unmoved(d)
  BY <1>1 DEF CkptEnd, ForgetHeader, Dropped, Filled, Unmoved
<1>3. SizedShared'
  BY <1>1 DEF CkptEnd, ForgetHeader, Dropped, SizedShared, SizedReader, SizedCkpt, Numbered, IsHdr
<1>4. SizedLog'
  BY <1>1 DEF CkptEnd, ForgetHeader, Dropped, SizedLog
<1>5. SizedReader(c)'
  BY <1>1, Kinds DEF CkptEnd, ForgetHeader, Dropped, SizedReader, SizedShared, Filled, Numbered, IsHdr
<1>6. SizedWriter(c)'
  BY <1>1, Kinds DEF CkptEnd, ForgetHeader, Dropped, SizedWriter, SizedReader, Filled, Numbered
<1>7. SizedCkpt(c)'
  BY <1>1, Kinds DEF CkptEnd, ForgetHeader, Dropped, SizedCkpt, SizedReader, SizedShared, Numbered
<1>8. Inv' /\ Order' /\ Steps(c)
  BY CkptEndKeeps, CkptEndOrder DEF Ordered
<1> QED
  BY <1>2, <1>3, <1>4, <1>5, <1>6, <1>7, <1>8, SizedStep DEF Content, Moves
-----------------------------------------------------------------------------
(* What a step leaves alone. *)

LEMMA Parts ==
  ASSUME Content, NEW c \in Conns
  PROVE  /\ LocksKept(c) /\ HeadersKept(c) /\ MarksKept(c) /\ ReaderSees(c)
         /\ WriteKept(c) /\ RestartKept(c) /\ FramesKept(c) /\ CkptKept(c)
BY DEF Content, Held

LEMMA NotWriting ==
  ASSUME NEW c \in Conns, ~Owned(c)', saved'[c] = NoSaved
  PROVE  WriteKept(c)' /\ RestartKept(c)' /\ FramesKept(c)'
<1>1. NoSaved' = NoSaved
  BY DEF NoSaved, NoPages
<1> QED
  BY <1>1 DEF Owned, Writing, WriteKept, RestartKept, FramesKept

LEMMA NotCopying ==
  ASSUME NEW c \in Conns, pc'[c] \notin CkptSteps PROVE CkptKept(c)'
BY DEF CkptSteps, CkptKept

LEMMA NobodyHeeds ==
  ASSUME Inv, Order, Content, NEW c \in Conns, Moves(c), Hidden(c),
         pc'[c] \notin {"cmark", "czero", "csalt", "ccopy"} \/
           /\ pc[c] \in {"cmark", "czero", "csalt", "ccopy"}
           /\ hdr'[c].salt = hdr[c].salt /\ ckpt'[c].safe = ckpt[c].safe
           /\ pc[c] = "cmark" => pc'[c] = "cmark" /\ ckpt'[c].k = ckpt[c].k
  PROVE  \A d \in Conns \ {c} : MarksHeeded(d, c)'
<1> SUFFICES ASSUME NEW d \in Conns \ {c} PROVE MarksHeeded(d, c)'
  OBVIOUS
<1>1. Same(d) /\ Unmoved(d) /\ MarksHeeded(d, c) /\ Marks' = Marks /\ shm'[1] = shm[1]
  BY Others DEF Content, Hidden
<1> QED
  BY <1>1 DEF MarksHeeded, SameLog, Same, Unmoved

LEMMA NumbersAfter ==
  ASSUME Inv, Sized', setting' = setting
  PROVE  /\ nBackfill' \in Nat /\ shm'[1].mx \in Nat /\ shm'[1].last \in Int
         /\ \A c \in Conns :
              /\ hdr'[c].mx \in Nat /\ hdr'[c].last \in Int /\ hdr'[c].mx <= MaxFrames
              /\ tmp'[c].mx \in Nat /\ tmp'[c].last \in Int
              /\ minFrame'[c] \in Nat /\ last'[c] \in Nat
              /\ readLock'[c] \in {-1, 0} \cup Marks
              /\ ckpt'[c].safe \in Nat /\ ckpt'[c].k \in Nat
<1>1. MaxFrames \in Nat /\ MaxFrames' = MaxFrames /\ Marks' = Marks
  BY Bounds, SameBounds
<1> QED
  BY <1>1 DEF Sized, SizedShared, SizedReader, SizedWriter, SizedCkpt, Numbered

LEMMA StillHeeded ==
  ASSUME Inv, Order, Content, NEW c \in Conns, Moves(c), Hidden(c),
         readLock'[c] \notin Marks \/ pc'[c] = "verify" \/
           /\ readLock'[c] = readLock[c] /\ pc[c] # "verify"
           /\ (IF pc[c] = "read" THEN hdr[c].mx ELSE shm[1].mx)
                <= (IF pc'[c] = "read" THEN hdr'[c].mx ELSE shm[1].mx)
  PROVE  \A d \in Conns \ {c} : MarksHeeded(c, d)'
<1> SUFFICES ASSUME NEW d \in Conns \ {c} PROVE MarksHeeded(c, d)'
  OBVIOUS
<1>1. Same(d) /\ MarksHeeded(c, d) /\ Marks' = Marks /\ shm'[1] = shm[1]
  BY Others DEF Content, Hidden
<1>2. hdr[c].mx \in Nat /\ hdr'[c].mx \in Nat /\ shm[1].mx \in Nat /\ ckpt[d].safe \in Nat
  BY Numbers, NumbersAfter, CkptNumbers DEF Content, Moves, Steps
<1> QED
  BY <1>1, <1>2 DEF MarksHeeded, SameLog, Same

(* A header that is read is not newer than the one that is shared, one     *)
(* that is drawn stays.                                                    *)
LEMMA HeadersStay ==
  ASSUME Inv, Order, Content, NEW c \in Conns, Moves(c), Hidden(c),
         tmp'[c] \in {tmp[c], shm[1], NoHdr},
         hdr'[c] \in {hdr[c], tmp[c], shm[1], NoHdr},
         hdr'[c] = hdr[c] /\ Drawn(c) => Drawn(c)' \/ hdr[c] = shm[1],
         Drawn(c)' => \/ hdr'[c].salt = shm[1].salt
                      \/ /\ hdr'[c] = hdr[c] /\ Drawn(c)
                         /\ shm[1].mx = 0 \/ pc'[c] \in {"restarted", "ctrunc"}
  PROVE  HeadersKept(c)'
<1>1. HeadersKept(c) /\ shm'[1] = shm[1] /\ committed' = committed /\ committed \in Nat
      /\ shm[1].mx \in Nat
  BY Parts, Numbers DEF Content, Hidden, Order, LastShown
<1>2. Older(NoHdr) /\ Older(shm[1])
  BY <1>1 DEF Older, NoHdr, Order, LastShown
<1>3. Older(tmp[c])'
  BY <1>1, <1>2 DEF HeadersKept, Older
<1>4. ASSUME ~Drawn(c)' PROVE Older(hdr[c])'
  <2>1. Older(tmp[c]) /\ (~Drawn(c) => Older(hdr[c]))
    BY <1>1 DEF HeadersKept
  <2>2. Older(hdr'[c])
    BY <1>2, <1>4, <2>1
  <2> QED
    BY <1>1, <2>2 DEF Older
<1>5. ASSUME Drawn(c)', hdr'[c].salt # shm[1].salt
      PROVE  /\ hdr'[c].salt # 0
             /\ \A d \in Conns \ {c} : hdr'[d].salt # hdr'[c].salt
             /\ \A d \in Conns : tmp'[d].salt # hdr'[c].salt
             /\ shm[1].mx = 0 \/ pc'[c] \in {"restarted", "ctrunc"}
  <2>1. hdr'[c] = hdr[c] /\ Drawn(c) /\ (shm[1].mx = 0 \/ pc'[c] \in {"restarted", "ctrunc"})
    BY <1>5
  <2>2. /\ hdr[c].salt # 0
        /\ \A d \in Conns \ {c} : hdr[d].salt # hdr[c].salt
        /\ \A d \in Conns : tmp[d].salt # hdr[c].salt
    BY <1>1, <1>5, <2>1 DEF HeadersKept
  <2>3. \A d \in Conns \ {c} : Same(d)
    BY Others
  <2>4. tmp'[c].salt # hdr[c].salt
    BY <1>5, <2>1, <2>2 DEF NoHdr
  <2> QED
    BY <2>1, <2>2, <2>3, <2>4 DEF Same
<1> QED
  BY <1>1, <1>3, <1>4, <1>5 DEF HeadersKept

LEMMA HeldIs ==
  ASSUME NEW c \in Conns, LocksKept(c)', HeadersKept(c)', MarksKept(c)', ReaderSees(c)',
         WriteKept(c)', RestartKept(c)', FramesKept(c)', CkptKept(c)'
  PROVE  Held(c)'
BY DEF Held
-----------------------------------------------------------------------------
(* The steps of a reader. *)

LEMMA ReadFirstContent ==
  ASSUME Inv, Order, Content, NEW c \in Conns, setting' = setting, ReadFirst(c)
  PROVE  Content'
<1>1. Moves(c) /\ c # None /\ DOMAIN pc = Conns /\ DOMAIN tmp = Conns
  BY ReadFirstMoves, SomeConn DEF Inv, Shaped
<1>2. /\ pc[c] \in {"idle", "chdr"} /\ pc'[c] = "second" /\ tmp'[c] = shm[1]
      /\ UNCHANGED << files, shared, locks, hdr, readLock, mark, minFrame, writing, ckpt, ghosts >>
  BY <1>1 DEF ReadFirst
<1>3. Hidden(c) /\ ~Owned(c) /\ ~Owned(c)' /\ ~Drawn(c) /\ ~Drawn(c)'
  BY <1>2 DEF Hidden, LogUnchanged, LocksUnchanged, Lock, SaltsKnown, Owned, Drawn, Writing, Marking
<1>4. readLock[c] = -1 /\ saved[c] = NoSaved /\ -1 \notin Marks'
  BY <1>1, <1>2, <1>3, Parts, Bounds, SameBounds
     DEF LocksKept, WriteKept, Zeroed, Marked, Moves, Steps
<1>5. LocksKept(c)'
  BY <1>1, <1>2, <1>4, Parts
     DEF LocksKept, Zeroed, Marked, Resetting, Checkpointing
<1>6. HeadersKept(c)'
  BY <1>1, <1>2, <1>3, HeadersStay
<1>7. MarksKept(c)' /\ ReaderSees(c)' /\ CkptKept(c)'
  BY <1>2, <1>4 DEF MarksKept, ReaderSees, CkptKept
<1>8. WriteKept(c)' /\ RestartKept(c)' /\ FramesKept(c)'
  BY <1>2, <1>3, <1>4, NotWriting
<1>9. \A d \in Conns \ {c} : MarksHeeded(d, c)' /\ MarksHeeded(c, d)'
  BY <1>1, <1>2, <1>3, <1>4, NobodyHeeds, StillHeeded, SameBounds DEF Moves, Steps
<1> QED
  BY <1>1, <1>3, <1>5, <1>6, <1>7, <1>8, <1>9, HeldIs, OneContent

(* What a step that is hidden has to keep if it is not that of a writer.   *)
LEMMA AsideContent ==
  ASSUME Inv, Order, Content, NEW c \in Conns, Moves(c), Hidden(c), ~Owned(c), ~Owned(c)',
         saved'[c] = saved[c], LocksKept(c)', HeadersKept(c)', MarksKept(c)', ReaderSees(c)',
         CkptKept(c)', \A d \in Conns \ {c} : MarksHeeded(d, c)' /\ MarksHeeded(c, d)'
  PROVE  Content'
<1>1. saved[c] = NoSaved
  BY Parts DEF WriteKept
<1>2. WriteKept(c)' /\ RestartKept(c)' /\ FramesKept(c)'
  BY <1>1, NotWriting
<1> QED
  BY <1>2, HeldIs, OneContent

LEMMA NoMarkHeld ==
  ASSUME Inv, setting' = setting
  PROVE  -1 \notin Marks /\ 0 \notin Marks /\ Marks' = Marks
BY Bounds, SameBounds

LEMMA TakesSafe ==
  ASSUME Inv, Sized, NEW c \in Conns, NEW h, TakeHeader(c, h)
  PROVE  /\ Checkpointing(c) => ckpt'[c].safe = h.mx
         /\ Checkpointing(c)' <=> Checkpointing(c)
<1>1. DOMAIN ckpt = Conns /\ {"mode", "changed", "safe", "k", "plan"} \subseteq DOMAIN ckpt[c]
  BY DEF Inv, Shaped, Sized, SizedCkpt
<1>2. ckpt'[c].mode = ckpt[c].mode
  BY TakesHeader DEF Inv
<1>3. Checkpointing(c) => ckpt'[c].safe = h.mx
  BY <1>1 DEF TakeHeader
<1> QED
  BY <1>2, <1>3 DEF Checkpointing

LEMMA TakenContent ==
  ASSUME Inv, Order, Content, NEW c \in Conns, NEW h, Moves(c), TakeHeader(c, h),
         pc[c] \in {"second", "dirty"}, h \in {tmp[c], shm[1]}, h # NoHdr,
         ckpt[c].mode \notin {"none", "passive"} => h = shm[1],
         tmp'[c] \in {tmp[c], NoHdr},
         UNCHANGED << files, shared, locks, readLock, mark, minFrame, writing, ghosts >>
  PROVE  Content'
<1>1. /\ c # None /\ hdr'[c] = h /\ pc'[c] = (IF Checkpointing(c) THEN "ckpt" ELSE "begin")
      /\ ckpt'[c].mode = ckpt[c].mode /\ (Checkpointing(c)' <=> Checkpointing(c))
      /\ Checkpointing(c) => ckpt'[c].safe = h.mx
  BY TakesHeader, TakesSafe, SomeConn DEF Inv, Content
<1>2. writer # c \/ Checkpointing(c)
  BY DEF Inv, Kept, LockHeld, Writing, Marking, Checkpointing
<1>3. ~Owned(c) /\ ~Owned(c)' /\ ~Drawn(c) /\ ~Drawn(c)'
  BY <1>1, <1>2 DEF Owned, Drawn, Writing, Marking
<1>4. Hidden(c)
  BY <1>1, <1>3 DEF Hidden, LogUnchanged, LocksUnchanged, Lock, SaltsKnown, NoHdr
<1>5. readLock[c] = -1 /\ -1 \notin Marks /\ Marks' = Marks
  BY Parts, NoMarkHeld DEF LocksKept, Zeroed, Marked, Moves, Steps
<1>6. LocksKept(c)'
  BY <1>1, <1>5, Parts DEF LocksKept, Zeroed, Marked, Resetting
<1>7. HeadersKept(c)'
  BY <1>1, <1>3, <1>4, HeadersStay
<1>8. MarksKept(c)' /\ ReaderSees(c)'
  BY <1>1, <1>5 DEF MarksKept, ReaderSees
<1>9. CkptKept(c)'
  <2>1. CASE ~Checkpointing(c)
    BY <1>1, <2>1 DEF CkptKept
  <2>2. CASE Checkpointing(c)
    <3>1. hdr'[c].mx \in Nat
      BY NumbersAfter DEF Moves, Steps
    <3> QED
      BY <1>1, <2>2, <3>1 DEF CkptKept, Checkpointing
  <2> QED
    BY <2>1, <2>2
<1>10. \A d \in Conns \ {c} : MarksHeeded(d, c)' /\ MarksHeeded(c, d)'
  BY <1>1, <1>4, <1>5, NobodyHeeds, StillHeeded
<1> QED
  BY <1>3, <1>4, <1>6, <1>7, <1>8, <1>9, <1>10, AsideContent

LEMMA ReadSecondContent ==
  ASSUME Inv, Order, Content, NEW c \in Conns, setting' = setting, ReadSecond(c)
  PROVE  Content'
<1>1. /\ Moves(c) /\ c # None /\ DOMAIN pc = Conns /\ DOMAIN tmp = Conns
      /\ pc[c] = "second" /\ tmp'[c] = NoHdr
      /\ UNCHANGED << files, shared, locks, readLock, mark, minFrame, writing, ghosts >>
  BY ReadSecondMoves, SomeConn DEF Inv, Shaped, ReadSecond
<1>2. CASE TakeHeader(c, tmp[c]) /\ tmp[c] # NoHdr
  <2>1. ckpt[c].mode \notin {"none", "passive"} => tmp[c] = shm[1]
    BY <1>1 DEF Order, HeaderKnown
  <2> QED
    BY <1>1, <1>2, <2>1, TakenContent
<1>3. CASE Go(c, "dirty") /\ UNCHANGED << hdr, cached, ckpt >>
  <2>1. pc'[c] = "dirty"
    BY <1>1, <1>3
  <2>2. Hidden(c) /\ ~Owned(c) /\ ~Owned(c)' /\ ~Drawn(c) /\ ~Drawn(c)'
    BY <1>1, <1>3, <2>1
       DEF Hidden, LogUnchanged, LocksUnchanged, Lock, SaltsKnown, Owned, Drawn, Writing, Marking,
           NoHdr
  <2>3. readLock[c] = -1 /\ -1 \notin Marks /\ Marks' = Marks
    BY <1>1, Parts, NoMarkHeld DEF LocksKept, Zeroed, Marked
  <2>4. LocksKept(c)'
    BY <1>1, <1>3, <2>1, <2>3, Parts DEF LocksKept, Zeroed, Marked, Resetting, Checkpointing
  <2>5. HeadersKept(c)'
    BY <1>1, <1>3, <2>2, HeadersStay
  <2>6. MarksKept(c)' /\ ReaderSees(c)' /\ CkptKept(c)'
    BY <1>1, <2>1, <2>3 DEF MarksKept, ReaderSees, CkptKept
  <2>7. \A d \in Conns \ {c} : MarksHeeded(d, c)' /\ MarksHeeded(c, d)'
    BY <1>1, <2>1, <2>2, <2>3, NobodyHeeds, StillHeeded
  <2> QED
    BY <1>1, <2>2, <2>4, <2>5, <2>6, <2>7, AsideContent
<1> QED
  BY <1>2, <1>3 DEF ReadSecond

LEMMA RereadContent ==
  ASSUME Inv, Order, Content, NEW c \in Conns, setting' = setting, Reread(c)
  PROVE  Content'
<1>1. /\ Moves(c) /\ c # None /\ DOMAIN pc = Conns /\ DOMAIN ckpt = Conns
      /\ pc[c] = "dirty"
      /\ UNCHANGED << files, shared, zeroExcl, marksExcl, tmp, readLock, mark, minFrame, writing,
                      ghosts >>
  BY RereadMoves, SomeConn DEF Inv, Shaped, Reread
<1>2. CASE TakeHeader(c, shm[1]) /\ shm[1] # NoHdr /\ UNCHANGED << writer, ckpter >>
  BY <1>1, <1>2, TakenContent
<1>3. CASE /\ Free(ckpter, c) /\ writer' = c /\ ckpter' = c /\ Go(c, "recover")
           /\ UNCHANGED << hdr, cached, ckpt >>
  <2>1. pc'[c] = "recover" /\ Lock(ckpter, ckpter', c)
    BY <1>1, <1>3 DEF Free, Lock
  <2>2. Hidden(c) /\ ~Owned(c) /\ ~Owned(c)' /\ ~Drawn(c) /\ ~Drawn(c)'
    BY <1>1, <1>3, <2>1
       DEF Hidden, LogUnchanged, LocksUnchanged, Lock, SaltsKnown, Owned, Drawn, Writing, Marking
  <2>3. readLock[c] = -1 /\ -1 \notin Marks /\ Marks' = Marks
    BY <1>1, Parts, NoMarkHeld DEF LocksKept, Zeroed, Marked
  <2>4. LocksKept(c)'
    BY <1>1, <1>3, <2>1, <2>3, Parts DEF LocksKept, Zeroed, Marked, Resetting, Checkpointing
  <2>5. HeadersKept(c)'
    BY <1>1, <1>3, <2>2, HeadersStay
  <2>6. MarksKept(c)' /\ ReaderSees(c)' /\ CkptKept(c)'
    BY <1>1, <2>1, <2>3 DEF MarksKept, ReaderSees, CkptKept
  <2>7. \A d \in Conns \ {c} : MarksHeeded(d, c)' /\ MarksHeeded(c, d)'
    BY <1>1, <2>1, <2>2, <2>3, NobodyHeeds, StillHeeded
  <2> QED
    BY <1>1, <2>2, <2>4, <2>5, <2>6, <2>7, AsideContent
<1>4. CASE /\ ckpter' = Dropped(ckpter, c) /\ ckpt' = [ckpt EXCEPT ![c] = NoCkpt]
           /\ Go(c, "idle") /\ UNCHANGED hdr
  <2>1. pc'[c] = "idle" /\ Lock(ckpter, ckpter', c) /\ ~Checkpointing(c)'
    BY <1>1, <1>4 DEF Dropped, Lock, Checkpointing, NoCkpt
  <2>2. Hidden(c) /\ ~Owned(c) /\ ~Owned(c)' /\ ~Drawn(c) /\ ~Drawn(c)'
    BY <1>1, <1>4, <2>1
       DEF Hidden, LogUnchanged, LocksUnchanged, Lock, SaltsKnown, Owned, Drawn, Writing, Marking
  <2>3. readLock[c] = -1 /\ -1 \notin Marks /\ Marks' = Marks
    BY <1>1, Parts, NoMarkHeld DEF LocksKept, Zeroed, Marked
  <2>4. LocksKept(c)'
    BY <1>1, <1>4, <2>1, <2>3, Parts DEF LocksKept, Zeroed, Marked, Resetting
  <2>5. HeadersKept(c)'
    BY <1>1, <1>4, <2>2, HeadersStay
  <2>6. MarksKept(c)' /\ ReaderSees(c)' /\ CkptKept(c)'
    BY <1>1, <2>1, <2>3 DEF MarksKept, ReaderSees, CkptKept
  <2>7. \A d \in Conns \ {c} : MarksHeeded(d, c)' /\ MarksHeeded(c, d)'
    BY <1>1, <2>1, <2>2, <2>3, NobodyHeeds, StillHeeded
  <2> QED
    BY <1>1, <2>2, <2>4, <2>5, <2>6, <2>7, AsideContent
<1> QED
  BY <1>2, <1>3, <1>4 DEF Reread, GiveUp

LEMMA RecoverInfoContent ==
  ASSUME Inv, Order, Content, NEW c \in Conns, setting' = setting, RecoverInfo(c)
  PROVE  Content'
<1>1. /\ Moves(c) /\ c # None /\ DOMAIN pc = Conns /\ DOMAIN ckpt = Conns
      /\ pc[c] = "recovered"
      /\ UNCHANGED << files, idx, shm, zeroExcl, marksExcl, hdr, tmp, readLock, mark, minFrame,
                      writing, ghosts >>
  BY RecoverInfoMoves, SomeConn DEF Inv, Shaped, RecoverInfo
<1>2. nBackfill' = nBackfill /\ hdr[c] = shm[1] /\ ckpter = c
  BY <1>1, Parts DEF RecoverInfo, ReaderSees, Order, HeaderKnown, LocksKept
<1>3. /\ pc'[c] = (IF Checkpointing(c) THEN "ckpt" ELSE "begin") /\ ckpt'[c].mode = ckpt[c].mode
      /\ Checkpointing(c) => ckpt'[c].safe = hdr[c].mx
  <2>1. {"mode", "changed", "safe", "k", "plan"} \subseteq DOMAIN ckpt[c]
    BY DEF Content, Sized, SizedCkpt
  <2> QED
    BY <1>1, <2>1 DEF RecoverInfo
<1>4. ~Owned(c) /\ ~Owned(c)' /\ ~Drawn(c) /\ ~Drawn(c)'
  BY <1>1, <1>3 DEF RecoverInfo, Owned, Drawn, Writing, Marking
<1>5. Hidden(c)
  <2>1. \A d \in Conns \ {c} : readLock[d] \in Marks => marks'[readLock[d]] = marks[readLock[d]]
    BY DEF RecoverInfo, Readers
  <2>2. Lock(ckpter, ckpter', c)
    BY <1>2 DEF RecoverInfo, Lock
  <2> QED
    BY <1>1, <1>2, <1>4, <2>1, <2>2 DEF Hidden, LogUnchanged, LocksUnchanged, Lock, SaltsKnown
<1>6. readLock[c] = -1 /\ -1 \notin Marks /\ Marks' = Marks
  BY <1>1, Parts, NoMarkHeld DEF LocksKept, Zeroed, Marked
<1>7. LocksKept(c)'
  <2>1. Checkpointing(c)' => ckpter' = c
    BY <1>3 DEF RecoverInfo, Checkpointing
  <2> QED
    BY <1>1, <1>3, <1>6, <2>1, Parts DEF LocksKept, Zeroed, Marked, Resetting
<1>8. HeadersKept(c)'
  BY <1>1, <1>4, <1>5, HeadersStay
<1>9. MarksKept(c)' /\ ReaderSees(c)'
  BY <1>1, <1>3, <1>6 DEF MarksKept, ReaderSees
<1>10. CkptKept(c)'
  <2>1. hdr[c].mx \in Nat
    BY Numbers DEF Content
  <2> QED
    BY <1>1, <1>2, <1>3, <2>1 DEF CkptKept
<1>11. \A d \in Conns \ {c} : MarksHeeded(d, c)' /\ MarksHeeded(c, d)'
  BY <1>1, <1>3, <1>5, <1>6, NobodyHeeds, StillHeeded
<1> QED
  BY <1>1, <1>4, <1>5, <1>7, <1>8, <1>9, <1>10, <1>11, AsideContent

(* A writer that looks for another mark.                                   *)
LEMMA MarkingStays ==
  ASSUME Inv, Order, Content, NEW c \in Conns, setting' = setting, Owned(c)' <=> Owned(c),
         pc[c] \in Marking, pc'[c] \in Marking, hdr'[c] = hdr[c],
         UNCHANGED << files, idx, shm, nBackfill, locks, writing, ghosts >>
  PROVE  WriteKept(c)' /\ RestartKept(c)' /\ FramesKept(c)'
<1>1. Slots' = Slots /\ WriteKept(c) /\ RestartKept(c)
  BY SameBounds, Parts
<1>2. BatchKept(c)' <=> BatchKept(c)
  BY DEF BatchKept
<1>3. WriteKept(c)' /\ FramesKept(c)'
  BY <1>1 DEF WriteKept, FramesKept, Marking
<1>4. RestartKept(c)'
  BY <1>1, <1>2 DEF RestartKept, Marking, Owned
<1> QED
  BY <1>3, <1>4

LEMMA RetryContent ==
  ASSUME Inv, Order, Content, NEW c \in Conns, Moves(c), Retry(c),
         pc[c] \in Marking \cup {"zero"},
         UNCHANGED << files, shared, locks, hdr, tmp, writing, ckpt, ghosts >>
  PROVE  Content'
<1>1. /\ c # None /\ DOMAIN pc = Conns /\ DOMAIN readLock = Conns /\ setting' = setting
  BY SomeConn DEF Inv, Shaped, Content, Sized, Filled, Moves, Steps
<1>2. readLock'[c] = -1 /\ pc'[c] = IF writer = c THEN "begin" ELSE "idle"
  BY <1>1 DEF Retry, GiveUp
<1>3. ~Checkpointing(c) /\ (pc[c] = "zero" => writer # c)
  <2>1. LockHeld(c)
    BY DEF Inv, Kept
  <2> QED
    BY <2>1 DEF LockHeld, CkptSteps, Headed, Marking, Writing, Checkpointing
<1>4. (Owned(c)' <=> Owned(c)) /\ (Owned(c) <=> writer = c)
      /\ (Drawn(c)' <=> Owned(c)) /\ (Drawn(c) <=> Owned(c))
  BY <1>2, <1>3 DEF Owned, Drawn, Writing, Marking
<1>5. Hidden(c)
  BY <1>4 DEF Hidden, LogUnchanged, LocksUnchanged, Lock, SaltsKnown, Marking
<1>6. -1 \notin Marks /\ Marks' = Marks
  BY <1>1, NoMarkHeld
<1>7. LocksKept(c)'
  BY <1>2, <1>3, <1>6, Parts DEF LocksKept, Zeroed, Marked, Resetting, Checkpointing, Marking
<1>8. HeadersKept(c)'
  <2>1. Drawn(c)' => hdr[c].salt = shm[1].salt
    BY <1>3, <1>4, Parts DEF RestartKept, Owned, Writing, Marking
  <2> QED
    BY <1>4, <1>5, <2>1, HeadersStay
<1>9. MarksKept(c)' /\ ReaderSees(c)' /\ CkptKept(c)'
  BY <1>2, <1>6 DEF MarksKept, ReaderSees, CkptKept
<1>10. \A d \in Conns \ {c} : MarksHeeded(d, c)' /\ MarksHeeded(c, d)'
  BY <1>2, <1>5, <1>6, NobodyHeeds, StillHeeded
<1>11. CASE Owned(c)
  <2>1. pc[c] \in Marking /\ pc'[c] \in Marking
    BY <1>2, <1>3, <1>4, <1>11 DEF Marking
  <2> QED
    BY <1>1, <1>4, <1>5, <1>7, <1>8, <1>9, <1>10, <2>1, MarkingStays, HeldIs, OneContent
<1>12. CASE ~Owned(c)
  BY <1>4, <1>5, <1>7, <1>8, <1>9, <1>10, <1>12, AsideContent
<1> QED
  BY <1>11, <1>12

LEMMA BeginZeroContent ==
  ASSUME Inv, Order, Content, NEW c \in Conns, setting' = setting, BeginZero(c)
  PROVE  Content'
<1>1. /\ Moves(c) /\ c # None /\ DOMAIN pc = Conns /\ DOMAIN readLock = Conns
      /\ pc[c] = "begin" /\ writer # c /\ nBackfill = hdr[c].mx /\ zeroExcl = None
      /\ pc'[c] = "zero" /\ readLock'[c] = 0
      /\ UNCHANGED << files, shared, locks, hdr, tmp, mark, minFrame, writing, ckpt, ghosts >>
  BY BeginZeroMoves, SomeConn DEF Inv, Shaped, BeginZero, Content, Sized, Filled
<1>2. ~Owned(c) /\ ~Owned(c)' /\ ~Drawn(c) /\ ~Drawn(c)'
  BY <1>1 DEF Owned, Drawn, Writing, Marking
<1>3. Hidden(c)
  BY <1>1, <1>2 DEF Hidden, LogUnchanged, LocksUnchanged, Lock, SaltsKnown
<1>4. 0 \notin Marks /\ Marks' = Marks
  BY NoMarkHeld
<1>5. LocksKept(c)'
  BY <1>1, <1>4, Parts DEF LocksKept, Zeroed, Marked, Resetting, Checkpointing
<1>6. HeadersKept(c)'
  BY <1>1, <1>2, <1>3, HeadersStay
<1>7. MarksKept(c)' /\ ReaderSees(c)' /\ CkptKept(c)'
  BY <1>1, <1>4 DEF MarksKept, ReaderSees, CkptKept
<1>8. \A d \in Conns \ {c} : MarksHeeded(d, c)' /\ MarksHeeded(c, d)'
  BY <1>1, <1>3, <1>4, NobodyHeeds, StillHeeded
<1> QED
  BY <1>1, <1>2, <1>3, <1>5, <1>6, <1>7, <1>8, AsideContent

(* Who has the header that is shared finds the last commit.                *)
LEMMA LatestFound ==
  ASSUME Inv, Order, Content, NEW p \in Pages, shm[1] # NoHdr
  PROVE  /\ shm[1].last = committed /\ committed \in Nat
         /\ nBackfill = shm[1].mx => db[p] = hist[shm[1].last][p]
         /\ \A m \in 1 .. nBackfill + 1 :
              Finds(wal.frames, db, idx, m, shm[1].mx, p, hist[shm[1].last][p])
<1> DEFINE n == shm[1].mx
           v == hist[shm[1].last][p]
<1>1. shm[1].last = committed /\ committed \in Nat /\ n \in Nat /\ nBackfill \in Nat
  BY Numbers DEF Order, LastShown, Content
<1>2. /\ Finds(wal.frames, db, idx, 1, n, p, v)
      /\ \A f \in 1 .. n : LastIn(idx, n, p, f) /\ f <= nBackfill => db[p] = v
  BY DEF Content, Latest
<1> HIDE DEF n, v
<1>3. nBackfill = n => db[p] = v
  <2> SUFFICES ASSUME nBackfill = n PROVE db[p] = v
    OBVIOUS
  <2>1. \A f \in 1 .. n : LastIn(idx, n, p, f) => db[p] = v
    BY <1>1, <1>2
  <2> QED
    BY <1>1, <1>2, <2>1, FindsNone
<1>4. \A m \in 1 .. nBackfill + 1 : Finds(wal.frames, db, idx, m, n, p, v)
  BY <1>1, <1>2, FindsFrom
<1> QED
  BY <1>1, <1>3, <1>4 DEF n, v

LEMMA CheckZeroContent ==
  ASSUME Inv, Order, Content, NEW c \in Conns, setting' = setting, CheckZero(c)
  PROVE  Content'
<1>1. /\ Moves(c) /\ c # None /\ DOMAIN pc = Conns /\ pc[c] = "zero"
      /\ UNCHANGED << files, shared, locks, hdr, tmp, writing, ckpt, ghosts >>
  BY CheckZeroMoves, SomeConn DEF Inv, Shaped, CheckZero
<1>2. CASE Retry(c)
  BY <1>1, <1>2, RetryContent
<1>3. CASE shm[1] = hdr[c] /\ Go(c, "read") /\ UNCHANGED << readLock, mark, minFrame >>
  <2>1. pc'[c] = "read" /\ ~Owned(c) /\ ~Owned(c)' /\ ~Drawn(c) /\ ~Drawn(c)'
    BY <1>1, <1>3 DEF Owned, Drawn, Writing, Marking
  <2>2. Hidden(c)
    BY <1>1, <1>3, <2>1 DEF Hidden, LogUnchanged, LocksUnchanged, Lock, SaltsKnown
  <2>3. readLock[c] = 0 /\ 0 \notin Marks /\ Marks' = Marks /\ nBackfill = hdr[c].mx
    BY <1>1, <1>3, Parts, NoMarkHeld DEF LocksKept, Zeroed, ReaderSees
  <2>4. LocksKept(c)'
    BY <1>1, <1>3, <2>1, <2>3, Parts DEF LocksKept, Zeroed, Marked, Resetting, Checkpointing
  <2>5. HeadersKept(c)'
    BY <1>1, <2>1, <2>2, HeadersStay
  <2>6. MarksKept(c)' /\ CkptKept(c)'
    BY <1>3, <2>1, <2>3 DEF MarksKept, CkptKept
  <2>7. ReaderSees(c)'
    <3>1. shm[1] # NoHdr
      BY <1>1 DEF Order, NothingYet
    <3>2. hdr[c].last >= 0 /\ \A p \in Pages : db[p] = hist[hdr[c].last][p]
      BY <1>3, <2>3, <3>1, LatestFound, Bounds
    <3> QED
      BY <1>1, <1>3, <2>1, <2>3, <3>2 DEF ReaderSees, Sees
  <2>8. \A d \in Conns \ {c} : MarksHeeded(d, c)' /\ MarksHeeded(c, d)'
    BY <1>1, <1>3, <2>1, <2>2, <2>3, NobodyHeeds, StillHeeded
  <2> QED
    BY <1>1, <2>1, <2>2, <2>4, <2>5, <2>6, <2>7, <2>8, AsideContent
<1> QED
  BY <1>2, <1>3 DEF CheckZero

LEMMA EndReadContent ==
  ASSUME Inv, Order, Content, NEW c \in Conns, setting' = setting, EndRead(c)
  PROVE  Content'
<1>1. /\ Moves(c) /\ c # None /\ DOMAIN pc = Conns /\ DOMAIN readLock = Conns
      /\ pc[c] = "read" /\ pc'[c] = "idle" /\ readLock'[c] = -1
      /\ UNCHANGED << files, shared, locks, hdr, tmp, writing, ckpt, ghosts >>
  BY EndReadMoves, SomeConn DEF Inv, Shaped, EndRead, Content, Sized, Filled
<1>2. ~Owned(c) /\ ~Owned(c)' /\ ~Drawn(c) /\ ~Drawn(c)'
  BY <1>1 DEF Owned, Drawn, Writing, Marking
<1>3. Hidden(c)
  BY <1>1, <1>2 DEF Hidden, LogUnchanged, LocksUnchanged, Lock, SaltsKnown
<1>4. -1 \notin Marks /\ Marks' = Marks
  BY NoMarkHeld
<1>5. LocksKept(c)'
  BY <1>1, <1>4, Parts DEF LocksKept, Zeroed, Marked, Resetting, Checkpointing
<1>6. HeadersKept(c)'
  BY <1>1, <1>2, <1>3, HeadersStay
<1>7. MarksKept(c)' /\ ReaderSees(c)' /\ CkptKept(c)'
  BY <1>1, <1>4 DEF MarksKept, ReaderSees, CkptKept
<1>8. \A d \in Conns \ {c} : MarksHeeded(d, c)' /\ MarksHeeded(c, d)'
  BY <1>1, <1>3, <1>4, NobodyHeeds, StillHeeded
<1> QED
  BY <1>1, <1>2, <1>3, <1>5, <1>6, <1>7, <1>8, AsideContent

LEMMA ChooseMarkContent ==
  ASSUME Inv, Order, Content, NEW c \in Conns, setting' = setting, ChooseMark(c)
  PROVE  Content'
<1>1. /\ Moves(c) /\ c # None /\ DOMAIN pc = Conns /\ DOMAIN mark = Conns /\ pc[c] = "begin"
      /\ DOMAIN marks = Marks
      /\ UNCHANGED << files, idx, shm, nBackfill, locks, hdr, tmp, writing, ckpt, ghosts >>
  BY ChooseMarkMoves, SomeConn DEF Inv, Shaped, ChooseMark, Content, Sized, Filled, SizedShared
<1>2. CASE Retry(c) /\ marks' = marks
  BY <1>1, <1>2, RetryContent DEF Marking
<1>3. CASE \E i \in Marks, m \in Nat :
              /\ mark' = [mark EXCEPT ![c] = [i |-> i, at |-> m]] /\ m <= hdr[c].mx
              /\ Go(c, "lock") /\ UNCHANGED << readLock, minFrame, cached >>
              /\ \/ marks' = marks
                 \/ FreeMark(i) /\ marks' = [marks EXCEPT ![i] = m]
  <2>1. PICK i \in Marks, m \in Nat :
              /\ mark' = [mark EXCEPT ![c] = [i |-> i, at |-> m]] /\ m <= hdr[c].mx
              /\ Go(c, "lock") /\ UNCHANGED << readLock, minFrame, cached >>
              /\ \/ marks' = marks
                 \/ FreeMark(i) /\ marks' = [marks EXCEPT ![i] = m]
    BY <1>3
  <2>2. pc'[c] = "lock" /\ mark'[c].i = i /\ mark'[c].at = m
    BY <1>1, <2>1
  <2>3. (Owned(c)' <=> Owned(c)) /\ (Drawn(c)' <=> Owned(c)) /\ (Drawn(c) <=> Owned(c))
    BY <1>1, <2>2 DEF Owned, Drawn, Writing, Marking
  <2>4. Hidden(c)
    <3>1. \A d \in Conns \ {c} : readLock[d] \in Marks => marks'[readLock[d]] = marks[readLock[d]]
      BY <1>1, <2>1 DEF FreeMark, Readers
    <3> QED
      BY <1>1, <2>1, <2>3, <3>1 DEF Hidden, LogUnchanged, LocksUnchanged, Lock, SaltsKnown
  <2>5. readLock[c] = -1 /\ -1 \notin Marks /\ Marks' = Marks
    BY <1>1, Parts, NoMarkHeld DEF LocksKept, Zeroed, Marked
  <2>6. LocksKept(c)'
    BY <1>1, <2>1, <2>2, <2>5, Parts DEF LocksKept, Zeroed, Marked, Resetting, Checkpointing
  <2>7. HeadersKept(c)'
    <3>1. Drawn(c)' => hdr[c].salt = shm[1].salt
      BY <1>1, <2>3, Parts DEF RestartKept, Owned, Writing, Marking
    <3> QED
      BY <1>1, <2>3, <2>4, <3>1, HeadersStay
  <2>8. MarksKept(c)' /\ ReaderSees(c)' /\ CkptKept(c)'
    BY <1>1, <2>1, <2>2, <2>5 DEF MarksKept, ReaderSees, CkptKept
  <2>9. \A d \in Conns \ {c} : MarksHeeded(d, c)' /\ MarksHeeded(c, d)'
    BY <1>1, <2>1, <2>2, <2>4, <2>5, NobodyHeeds, StillHeeded
  <2>10. CASE Owned(c)
    <3>1. pc[c] \in Marking /\ pc'[c] \in Marking
      BY <1>1, <2>2 DEF Marking
    <3>2. WriteKept(c)' /\ RestartKept(c)' /\ FramesKept(c)'
      BY <1>1, <2>3, <3>1, MarkingStays
    <3> QED
      BY <1>1, <2>4, <2>6, <2>7, <2>8, <2>9, <3>2, HeldIs, OneContent
  <2>11. CASE ~Owned(c)
    BY <1>1, <2>3, <2>4, <2>6, <2>7, <2>8, <2>9, <2>11, AsideContent
  <2> QED
    BY <2>10, <2>11
<1> QED
  BY <1>2, <1>3, ChosenMark DEF Content

LEMMA LockMarkContent ==
  ASSUME Inv, Order, Content, NEW c \in Conns, setting' = setting, LockMark(c)
  PROVE  Content'
<1>1. /\ Moves(c) /\ c # None /\ DOMAIN pc = Conns /\ pc[c] = "lock"
      /\ DOMAIN readLock = Conns /\ DOMAIN minFrame = Conns
      /\ UNCHANGED << files, shared, locks, hdr, tmp, writing, ckpt, ghosts >>
  BY LockMarkMoves, SomeConn DEF Inv, Shaped, LockMark, Content, Sized, Filled
<1>2. CASE Retry(c)
  BY <1>1, <1>2, RetryContent DEF Marking
<1>3. CASE /\ marksExcl = None /\ readLock' = [readLock EXCEPT ![c] = mark[c].i]
           /\ minFrame' = [minFrame EXCEPT ![c] = nBackfill + 1] /\ Go(c, "verify")
           /\ mark' = mark
  <2>1. pc'[c] = "verify" /\ readLock'[c] = mark[c].i /\ minFrame'[c] = nBackfill + 1
    BY <1>1, <1>3
  <2>2. (Owned(c)' <=> Owned(c)) /\ (Drawn(c)' <=> Owned(c)) /\ (Drawn(c) <=> Owned(c))
    BY <1>1, <2>1 DEF Owned, Drawn, Writing, Marking
  <2>3. Hidden(c)
    BY <1>1, <2>2 DEF Hidden, LogUnchanged, LocksUnchanged, Lock, SaltsKnown
  <2>4. readLock[c] = -1 /\ -1 \notin Marks /\ 0 \notin Marks /\ Marks' = Marks
    BY <1>1, Parts, NoMarkHeld DEF LocksKept, Zeroed, Marked
  <2>5. mark[c].i \in Marks /\ mark[c].at <= hdr[c].mx /\ nBackfill \in Nat
    BY <1>1, Parts, Numbers DEF MarksKept, Content
  <2>6. LocksKept(c)'
    BY <1>1, <1>3, <2>1, <2>4, <2>5, Parts DEF LocksKept, Zeroed, Marked, Resetting, Checkpointing
  <2>7. HeadersKept(c)'
    <3>1. Drawn(c)' => hdr[c].salt = shm[1].salt
      BY <1>1, <2>2, Parts DEF RestartKept, Owned, Writing, Marking
    <3> QED
      BY <1>1, <2>2, <2>3, <3>1, HeadersStay
  <2>8. MarksKept(c)' /\ ReaderSees(c)' /\ CkptKept(c)'
    BY <1>1, <1>3, <2>1, <2>4, <2>5 DEF MarksKept, ReaderSees, CkptKept
  <2>9. \A d \in Conns \ {c} : MarksHeeded(d, c)' /\ MarksHeeded(c, d)'
    BY <1>1, <2>1, <2>3, NobodyHeeds, StillHeeded
  <2>10. CASE Owned(c)
    <3>1. pc[c] \in Marking /\ pc'[c] \in Marking
      BY <1>1, <2>1 DEF Marking
    <3>2. WriteKept(c)' /\ RestartKept(c)' /\ FramesKept(c)'
      BY <1>1, <2>2, <3>1, MarkingStays
    <3> QED
      BY <1>1, <2>3, <2>6, <2>7, <2>8, <2>9, <3>2, HeldIs, OneContent
  <2>11. CASE ~Owned(c)
    BY <1>1, <2>2, <2>3, <2>6, <2>7, <2>8, <2>9, <2>11, AsideContent
  <2> QED
    BY <2>10, <2>11
<1> QED
  BY <1>2, <1>3 DEF LockMark

(* The writer goes on to write its frames, with the log as it was.         *)
LEMMA FramesBegin ==
  ASSUME Inv, Order, Content, NEW c \in Conns, setting' = setting, pc[c] = "verify", writer = c,
         pc'[c] = "frames", shm[1] = hdr[c], UNCHANGED << minFrame, hdr, shm, nBackfill >>,
         minFrame[c] \in 1 .. nBackfill + 1, UNCHANGED << files, idx, writing, ghosts >>
  PROVE  FramesKept(c)'
<1>1. RestartKept(c) /\ Owned(c)
  BY Parts DEF Owned, Marking
<1>2. /\ last[c] = hdr[c].mx /\ batch[c].first = 0 /\ batch[c].todo # {}
      /\ \A p \in Pages \ dirty[c] : mine[c][p] = hist[shm[1].last][p]
      /\ Undoable(saved[c], hdr[c].mx, mine[c], idx, hdr[c].mx)
      /\ saved[c] # NoSaved => saved[c].mx = hdr[c].mx
      /\ BatchKept(c)
  BY <1>1 DEF RestartKept, Marking
<1>3. hdr[c].mx \in Nat /\ minFrame[c] \in Nat /\ shm[1] # NoHdr
  BY Numbers DEF Content, Order, NothingYet
<1>4. DOMAIN idx = Slots /\ \A f \in Slots : f <= hdr[c].mx => Entries(c)[f] = idx[f]
  BY DEF Content, Sized, SizedShared, Entries, Joined
<1>5. \A f \in 1 .. hdr[c].mx : Entries(c)[f] = idx[f]
  <2>1. 1 .. hdr[c].mx \subseteq Slots
    BY Bounds, Numbers DEF Content
  <2> QED
    BY <1>4, <2>1
<1>6. ASSUME NEW p \in Pages \ dirty[c]
      PROVE  Finds(wal.frames, db, Entries(c), minFrame[c], last[c], p, mine[c][p])
  <2> DEFINE E == Entries(c)
             m == minFrame[c]
             n == hdr[c].mx
             v == mine[c][p]
  <2>1. Finds(wal.frames, db, idx, m, n, p, v)
    BY <1>2, <1>3, LatestFound
  <2>2. \A f \in m .. n : E[f] = idx[f]
    BY <1>3, <1>5
  <2> HIDE DEF E, m, n, v
  <2>3. m \in Int /\ n \in Int
    BY <1>3 DEF m, n
  <2>4. Finds(wal.frames, db, E, m, n, p, v)
    BY <2>1, <2>2, <2>3, FindsSame
  <2> QED
    BY <1>2, <2>4 DEF E, m, n, v
<1>7. Undoable(saved[c], hdr[c].mx, mine[c], Entries(c), last[c])
  <2> SUFFICES ASSUME saved[c] # NoSaved
               PROVE  /\ saved[c].mx \in 0 .. hdr[c].mx
                      /\ \A p \in Pages \ saved[c].pages :
                           mine[c][p] = saved[c].mine[p]
                             /\ \A f \in saved[c].mx + 1 .. last[c] : Entries(c)[f] # p
    BY DEF Undoable
  <2>1. saved[c].mx = hdr[c].mx
    BY <1>2
  <2>2. saved[c].mx + 1 .. last[c] = {}
    BY <1>2, <1>3, <2>1
  <2> QED
    BY <1>2, <2>2 DEF Undoable
<1>8. hdr[c].mx + 1 .. last[c] = {}
  BY <1>2, <1>3
<1>9. /\ Entries(c)' = Entries(c) /\ (BatchKept(c)' <=> BatchKept(c)) /\ shm[1].mx = hdr[c].mx
  BY DEF Entries, BatchKept
<1> QED
  BY <1>2, <1>3, <1>6, <1>7, <1>8, <1>9 DEF FramesKept

LEMMA VerifyContent ==
  ASSUME Inv, Order, Content, NEW c \in Conns, setting' = setting, Verify(c)
  PROVE  Content'
<1>1. /\ Moves(c) /\ c # None /\ DOMAIN pc = Conns /\ pc[c] = "verify"
      /\ UNCHANGED << files, shared, locks, hdr, tmp, writing, ckpt, ghosts >>
  BY VerifyMoves, SomeConn DEF Inv, Shaped, Verify
<1>2. CASE Retry(c)
  BY <1>1, <1>2, RetryContent DEF Marking
<1>3. CASE marks[mark[c].i] = mark[c].at /\ shm[1] = hdr[c] /\ Admit(c)
  <2>1. /\ pc'[c] = (IF writer = c THEN "frames" ELSE "read") /\ readLock' = readLock
        /\ minFrame' = minFrame
    BY <1>1, <1>3 DEF Admit
  <2>2. /\ Owned(c)' <=> Owned(c)
        /\ Owned(c) <=> writer = c
        /\ Drawn(c)' <=> Owned(c)
        /\ Drawn(c) <=> Owned(c)
    BY <1>1, <2>1 DEF Owned, Drawn, Writing, Marking
  <2>3. Hidden(c)
    BY <1>1, <2>2 DEF Hidden, LogUnchanged, LocksUnchanged, Lock, SaltsKnown
  <2>4. /\ readLock[c] \in Marks /\ mark[c].i = readLock[c] /\ mark[c].at <= hdr[c].mx
        /\ minFrame[c] \in 1 .. nBackfill + 1
        /\ -1 \notin Marks /\ 0 \notin Marks /\ Marks' = Marks
    BY <1>1, Parts, NoMarkHeld DEF LocksKept, Marked, MarksKept
  <2>5. shm[1] # NoHdr /\ hdr[c].mx \in Nat /\ hdr[c].last >= 0
    <3>1. shm[1] # NoHdr
      BY <1>1 DEF Order, NothingYet
    <3> QED
      BY <1>3, <3>1, LatestFound, Bounds, Numbers DEF Content
  <2>6. LocksKept(c)'
    BY <1>1, <2>1, <2>4, Parts DEF LocksKept, Zeroed, Marked, Resetting, Checkpointing
  <2>7. HeadersKept(c)'
    BY <1>1, <1>3, <2>2, <2>3, HeadersStay
  <2>8. MarksKept(c)' /\ CkptKept(c)'
    BY <1>1, <1>3, <2>1, <2>4, <2>5 DEF MarksKept, CkptKept
  <2>9. ReaderSees(c)'
    <3>1. \A p \in Pages : Finds(wal.frames, db, idx, minFrame[c], hdr[c].mx, p, hist[hdr[c].last][p])
      BY <1>3, <2>4, <2>5, LatestFound
    <3> QED
      BY <1>1, <2>1, <2>4, <2>5, <3>1 DEF ReaderSees, Sees
  <2>10. ASSUME NEW d \in Conns \ {c} PROVE MarksHeeded(c, d)'
    <3>1. Same(d) /\ CkptKept(d)
      BY <1>1, Others, Parts
    <3>2. ASSUME SameLog(d), pc[d] \in {"cmark", "czero", "csalt", "ccopy"}
          PROVE  ckpt[d].safe <= shm[1].mx
      <4>1. ckpt[d].safe <= hdr[d].mx
        BY <3>1, <3>2 DEF CkptKept
      <4>2. hdr[d].mx <= shm[1].mx
        <5>1. ~Drawn(d)
          BY <3>2 DEF Drawn, Owned, Writing, Marking
        <5> QED
          BY <3>2, <5>1, HeaderInLog
      <4> QED
        BY <4>1, <4>2, Numbers, CkptNumbers DEF Content
    <3> QED
      BY <1>1, <1>3, <2>1, <3>1, <3>2 DEF MarksHeeded, SameLog, Same
  <2>11. \A d \in Conns \ {c} : MarksHeeded(d, c)'
    BY <1>1, <2>1, <2>3, NobodyHeeds
  <2>12. CASE writer = c
    <3>1. WriteKept(c)' /\ RestartKept(c)'
      BY <1>1, <2>1, <2>2, <2>12, Parts, SameBounds
         DEF WriteKept, RestartKept, Marking
    <3>2. FramesKept(c)'
      BY <1>1, <1>3, <2>1, <2>4, <2>12, FramesBegin
    <3> QED
      BY <1>1, <2>3, <2>6, <2>7, <2>8, <2>9, <2>10, <2>11, <3>1, <3>2, HeldIs, OneContent
  <2>13. CASE writer # c
    BY <1>1, <2>2, <2>3, <2>6, <2>7, <2>8, <2>9, <2>10, <2>11, <2>13, AsideContent
  <2> QED
    BY <2>12, <2>13
<1> QED
  BY <1>2, <1>3 DEF Verify
-----------------------------------------------------------------------------
(* The steps of a writer. *)

(* A mark that is held is below what its holder looks at.                  *)
LEMMA MarkStays ==
  ASSUME Inv, Order, Content, NEW c \in Conns, Moves(c), Hidden(c),
         pc[c] \notin {"lock", "verify"}, pc'[c] \notin {"lock", "verify"},
         UNCHANGED << readLock, minFrame, marks >>, pc'[c] = "read" => hdr'[c] = shm[1]
  PROVE  MarksKept(c)' /\ \A d \in Conns \ {c} : MarksHeeded(c, d)'
<1>1. /\ MarksKept(c) /\ shm'[1] = shm[1] /\ nBackfill' = nBackfill /\ Marks' = Marks
      /\ hdr[c].mx \in Nat /\ shm[1].mx \in Nat /\ \A i \in Marks : marks[i] \in Nat
  BY Parts, NoMarkHeld, Numbers DEF Content, Hidden, Moves, Steps
<1>2. MarksKept(c)'
  BY <1>1 DEF MarksKept
<1>3. readLock'[c] \notin Marks \/
           /\ readLock'[c] = readLock[c] /\ pc[c] # "verify"
           /\ (IF pc[c] = "read" THEN hdr[c].mx ELSE shm[1].mx)
                <= (IF pc'[c] = "read" THEN hdr'[c].mx ELSE shm[1].mx)
  BY <1>1 DEF MarksKept
<1>4. \A d \in Conns \ {c} : MarksHeeded(c, d)'
  BY <1>3, StillHeeded
<1> QED
  BY <1>2, <1>4

(* A writer keeps the salt that it has, or draws one.                      *)
LEMMA HeadersDrawn ==
  ASSUME Inv, Order, Content, NEW c \in Conns, Moves(c), Hidden(c), Drawn(c)',
         tmp'[c] = tmp[c],
         \/ hdr'[c].salt = shm[1].salt
         \/ hdr'[c].salt = hdr[c].salt /\ Drawn(c)
         \/ hdr'[c].salt \notin UsedSalts \cup {0},
         hdr'[c].salt # shm[1].salt => shm[1].mx = 0 \/ pc'[c] \in {"restarted", "ctrunc"}
  PROVE  HeadersKept(c)'
<1>1. HeadersKept(c) /\ shm'[1] = shm[1] /\ committed' = committed
  BY Parts DEF Content, Hidden
<1>2. Older(tmp[c])'
  BY <1>1 DEF HeadersKept, Older
<1>3. ASSUME hdr'[c].salt # shm[1].salt
      PROVE  /\ hdr'[c].salt # 0
             /\ \A d \in Conns \ {c} : hdr'[d].salt # hdr'[c].salt
             /\ \A d \in Conns : tmp'[d].salt # hdr'[c].salt
  <2>1. \A d \in Conns \ {c} : hdr'[d] = hdr[d] /\ tmp'[d] = tmp[d]
    BY Others DEF Same
  <2>2. CASE hdr'[c].salt = hdr[c].salt /\ Drawn(c)
    BY <1>1, <1>3, <2>1, <2>2 DEF HeadersKept
  <2>3. CASE hdr'[c].salt \notin UsedSalts \cup {0}
    BY <1>1, <1>3, <2>1, <2>3, SaltsUsed
  <2> QED
    BY <1>3, <2>2, <2>3
<1> QED
  BY <1>1, <1>2, <1>3 DEF HeadersKept

(* What a step that is hidden has to keep if it is that of a writer.       *)
LEMMA WriterContent ==
  ASSUME Inv, Order, Content, NEW c \in Conns, Moves(c), Hidden(c), pc'[c] \notin CkptSteps,
         LocksKept(c)', HeadersKept(c)', MarksKept(c)', ReaderSees(c)',
         WriteKept(c)', RestartKept(c)', FramesKept(c)',
         \A d \in Conns \ {c} : MarksHeeded(c, d)'
  PROVE  Content'
<1>1. CkptKept(c)'
  BY NotCopying
<1>2. \A d \in Conns \ {c} : MarksHeeded(d, c)'
  BY NobodyHeeds DEF CkptSteps
<1> QED
  BY <1>1, <1>2, HeldIs, OneContent

LEMMA OwnerIs ==
  ASSUME Inv, NEW c \in Conns, Owned(c)
  PROVE  /\ writer = c /\ \A d \in Conns \ {c} : ~Owned(d)
         /\ \A d \in Conns \ {c} : pc[d] \notin {"restartinfo", "ctruncinfo"}
         /\ pc[c] # "ctruncinfo"
<1>1. LockHeld(c) /\ c # None /\ \A d \in Conns : LockHeld(d)
  BY SomeConn DEF Inv, Kept
<1>2. writer = c
  BY <1>1 DEF LockHeld, Owned
<1>3. \A d \in Conns \ {c} : ~Owned(d) /\ pc[d] \notin {"restartinfo", "ctruncinfo"}
  BY <1>1, <1>2 DEF LockHeld, Owned, Writing
<1>4. pc[c] # "ctruncinfo"
  BY DEF Owned, Writing, Marking
<1> QED
  BY <1>2, <1>3, <1>4

(* The frames that are not backfilled are those of the log that is shared. *)
LEMMA BackfillBelow ==
  ASSUME Inv, Content, NEW c \in Conns, Owned(c), pc[c] # "restartinfo"
  PROVE  nBackfill <= shm[1].mx
BY OwnerIs DEF Content, Latest

LEMMA BeginWriteContent ==
  ASSUME Inv, Order, Content, NEW c \in Conns, setting' = setting, BeginWrite(c)
  PROVE  Content'
<1>1. /\ Moves(c) /\ c # None /\ DOMAIN pc = Conns /\ DOMAIN mine = Conns /\ pc[c] = "read"
      /\ pc'[c] = "write" /\ shm[1] = hdr[c] /\ writer = None
      /\ mine'[c] = hist[hdr[c].last]
      /\ UNCHANGED << files, shared, ckpter, zeroExcl, marksExcl, reader, dirty, saved, batch,
                      last, ckpt, hist, committed >>
  BY BeginWriteMoves, SomeConn DEF Inv, Shaped, BeginWrite, Content, Sized, Filled
<1>2. ~Owned(c) /\ Owned(c)' /\ ~Drawn(c) /\ Drawn(c)'
  BY <1>1 DEF Owned, Drawn, Writing, Marking
<1>3. Hidden(c)
  BY <1>1, <1>2 DEF Hidden, LogUnchanged, LocksUnchanged, Lock, SaltsKnown
<1>4. LocksKept(c)'
  BY <1>1, Parts, NoMarkHeld DEF LocksKept, Zeroed, Marked, Resetting, Checkpointing
<1>5. HeadersKept(c)'
  BY <1>1, <1>2, <1>3, HeadersStay
<1>6. MarksKept(c)' /\ \A d \in Conns \ {c} : MarksHeeded(c, d)'
  BY <1>1, <1>3, MarkStays
<1>7. ReaderSees(c)' /\ RestartKept(c)' /\ FramesKept(c)'
  BY <1>1 DEF ReaderSees, RestartKept, FramesKept, Marking
<1>8. WriteKept(c)'
  <2>1. saved[c] = NoSaved /\ NoSaved' = NoSaved
    BY <1>2, Parts DEF WriteKept, NoSaved, NoPages
  <2>2. \A p \in Pages : Sees(c, p, hist[hdr[c].last][p])
    BY <1>1, Parts DEF ReaderSees
  <2>3. \A p \in Pages : Sees(c, p, mine[c][p])'
    BY <1>1, <2>2 DEF Sees
  <2>4. readLock[c] = 0 => nBackfill = hdr[c].mx
    BY <1>1, Parts DEF ReaderSees
  <2>5. hdr[c].mx > 0 => \A f \in Slots : f > hdr[c].mx => idx[f] = 0
    <3>1. \A d \in Conns : ~Owned(d)
      BY <1>1, OwnerIs, SomeConn
    <3> QED
      BY <1>1, <3>1 DEF Content, Latest
  <2>6. hdr[c].mx \in Nat /\ Slots' = Slots
    BY Numbers, SameBounds DEF Content
  <2> QED
    BY <1>1, <1>2, <2>1, <2>3, <2>4, <2>5, <2>6 DEF WriteKept, Undoable
<1> QED
  BY <1>1, <1>3, <1>4, <1>5, <1>6, <1>7, <1>8, WriterContent DEF CkptSteps

LEMMA SubjournaledIs ==
  ASSUME Inv, Sized, NEW c \in Conns, NEW P
  PROVE  /\ saved[c] = NoSaved => Subjournaled(c, P) = NoSaved
         /\ saved[c] # NoSaved =>
              /\ Subjournaled(c, P).mx = saved[c].mx /\ Subjournaled(c, P).mine = saved[c].mine
              /\ Subjournaled(c, P).pages = saved[c].pages \cup P
<1>1. {"mx", "mine", "pages"} \subseteq DOMAIN saved[c]
  BY DEF Sized, SizedWriter
<1> QED
  BY <1>1 DEF Subjournaled

LEMMA ModifyContent ==
  ASSUME Inv, Order, Content, NEW c \in Conns, NEW p \in Pages, setting' = setting, Modify(c, p)
  PROVE  Content'
<1>1. /\ Moves(c) /\ c # None /\ pc[c] = "write"
      /\ DOMAIN mine = Conns /\ DOMAIN dirty = Conns /\ DOMAIN saved = Conns /\ DOMAIN mine[c] = Pages
      /\ UNCHANGED << files, shared, locks, pc, reader, batch, last, ckpt, ghosts >>
  BY ModifyMoves, SomeConn DEF Modify, Content, Sized, Filled, SizedWriter
<1>2. /\ \A q \in Pages \ {p} : mine'[c][q] = mine[c][q]
      /\ dirty'[c] = dirty[c] \cup {p} /\ saved'[c] = Subjournaled(c, {p})
  BY <1>1 DEF Modify
<1>3. Owned(c) /\ Owned(c)' /\ Drawn(c) /\ Drawn(c)'
  BY <1>1 DEF Owned, Drawn, Writing
<1>4. Hidden(c)
  BY <1>1, <1>3 DEF Hidden, LogUnchanged, LocksUnchanged, Lock, SaltsKnown
<1>5. LocksKept(c)'
  BY <1>1, Parts, NoMarkHeld DEF LocksKept, Zeroed, Marked, Resetting, Checkpointing
<1>6. HeadersKept(c)'
  BY <1>1, <1>3, <1>4, Parts, HeadersDrawn DEF HeadersKept
<1>7. MarksKept(c)' /\ \A d \in Conns \ {c} : MarksHeeded(c, d)'
  BY <1>1, <1>4, MarkStays
<1>8. ReaderSees(c)' /\ RestartKept(c)' /\ FramesKept(c)'
  BY <1>1 DEF ReaderSees, RestartKept, FramesKept, Marking
<1>9. WriteKept(c)'
  <2>1. WriteKept(c) /\ NoSaved' = NoSaved /\ Slots' = Slots
    BY Parts, SameBounds DEF NoSaved, NoPages
  <2>2. \A q \in Pages \ dirty'[c] : Sees(c, q, mine[c][q])'
    <3>1. \A q, v : Sees(c, q, v)' <=> Sees(c, q, v)
      BY <1>1 DEF Sees
    <3> QED
      BY <1>1, <1>2, <2>1, <3>1 DEF WriteKept
  <2>3. saved'[c] # NoSaved => saved[c] # NoSaved /\ saved'[c].mx = saved[c].mx
          /\ saved'[c].mine = saved[c].mine /\ saved'[c].pages = saved[c].pages \cup {p}
    BY <1>2, SubjournaledIs DEF Content
  <2>4. Undoable(saved'[c], hdr[c].mx, mine'[c], idx, hdr[c].mx)
    BY <1>1, <1>2, <2>1, <2>3 DEF WriteKept, Undoable
  <2>5. Undoable(saved[c], hdr[c].mx, mine[c], idx, hdr[c].mx)'
    BY <1>1, <2>1, <2>4 DEF Undoable
  <2> QED
    BY <1>1, <1>3, <2>1, <2>2, <2>3, <2>5 DEF WriteKept
<1> QED
  BY <1>1, <1>4, <1>5, <1>6, <1>7, <1>8, <1>9, WriterContent DEF CkptSteps

LEMMA OpenSavepointContent ==
  ASSUME Inv, Order, Content, NEW c \in Conns, setting' = setting, OpenSavepoint(c)
  PROVE  Content'
<1>1. /\ Moves(c) /\ c # None /\ pc[c] = "write" /\ DOMAIN saved = Conns
      /\ UNCHANGED << files, shared, locks, pc, reader, mine, dirty, batch, last, ckpt, ghosts >>
      /\ saved'[c] = [mx |-> hdr[c].mx, mine |-> mine[c], pages |-> {}]
  BY OpenSavepointMoves, SomeConn DEF OpenSavepoint, Content, Sized, Filled
<1>2. Owned(c) /\ Owned(c)' /\ Drawn(c) /\ Drawn(c)'
  BY <1>1 DEF Owned, Drawn, Writing
<1>3. Hidden(c)
  BY <1>1, <1>2 DEF Hidden, LogUnchanged, LocksUnchanged, Lock, SaltsKnown
<1>4. LocksKept(c)'
  BY <1>1, Parts, NoMarkHeld DEF LocksKept, Zeroed, Marked, Resetting, Checkpointing
<1>5. HeadersKept(c)'
  BY <1>1, <1>2, <1>3, Parts, HeadersDrawn DEF HeadersKept
<1>6. MarksKept(c)' /\ \A d \in Conns \ {c} : MarksHeeded(c, d)'
  BY <1>1, <1>3, MarkStays
<1>7. ReaderSees(c)' /\ RestartKept(c)' /\ FramesKept(c)'
  BY <1>1 DEF ReaderSees, RestartKept, FramesKept, Marking
<1>8. WriteKept(c)'
  <2>1. WriteKept(c) /\ Slots' = Slots /\ hdr[c].mx \in Nat
    BY Parts, SameBounds, Numbers DEF Content
  <2>2. \A q \in Pages \ dirty'[c] : Sees(c, q, mine[c][q])'
    <3>1. \A q, v : Sees(c, q, v)' <=> Sees(c, q, v)
      BY <1>1 DEF Sees
    <3> QED
      BY <1>1, <2>1, <3>1 DEF WriteKept
  <2>3. Undoable(saved[c], hdr[c].mx, mine[c], idx, hdr[c].mx)'
    BY <1>1, <2>1 DEF Undoable
  <2> QED
    BY <1>1, <1>2, <2>1, <2>2, <2>3 DEF WriteKept
<1> QED
  BY <1>1, <1>3, <1>4, <1>5, <1>6, <1>7, <1>8, WriterContent DEF CkptSteps

(* What is found does not change if frames of other pages are cut off.     *)
LEMMA FindsCut ==
  ASSUME NEW fr, NEW pg, NEW ix, NEW ix2, NEW m \in Int, NEW n \in Int, NEW k \in Int, k <= n,
         NEW p, NEW v, Finds(fr, pg, ix, m, n, p, v),
         \A f \in m .. n : f > k => ix[f] # p,
         \A f \in m .. k : ix2[f] = ix[f]
  PROVE  Finds(fr, pg, ix2, m, k, p, v)
<1>1. ASSUME NEW f \in m .. k, LastIn(ix2, k, p, f) PROVE fr[f].val = v
  <2>1. f \in m .. n /\ ix[f] = p
    BY <1>1 DEF LastIn
  <2>2. ASSUME NEW g \in f + 1 .. n PROVE ix[g] # p
    <3>1. CASE g <= k
      <4>1. g \in m .. k /\ g \in f + 1 .. k
        BY <3>1
      <4> QED
        BY <1>1, <4>1 DEF LastIn
    <3>2. CASE g > k
      <4>1. g \in m .. n
        OBVIOUS
      <4> QED
        BY <3>2, <4>1
    <3> QED
      BY <3>1, <3>2
  <2> QED
    BY <2>1, <2>2 DEF Finds, LastIn
<1>2. ASSUME \A f \in m .. k : ix2[f] # p PROVE pg[p] = v
  <2>1. \A f \in m .. n : ix[f] # p
    <3> SUFFICES ASSUME NEW f \in m .. n PROVE ix[f] # p
      OBVIOUS
    <3>1. f <= k => f \in m .. k
      OBVIOUS
    <3> QED
      BY <1>2, <3>1
  <2> QED
    BY <2>1 DEF Finds
<1> QED
  BY <1>1, <1>2 DEF Finds

LEMMA RollbackToContent ==
  ASSUME Inv, Order, Content, NEW c \in Conns, setting' = setting, RollbackTo(c)
  PROVE  Content'
<1> DEFINE s == saved[c]
           k == saved[c].mx
<1>1. /\ Moves(c) /\ c # None /\ pc[c] = "write" /\ saved[c] # NoSaved
      /\ DOMAIN saved = Conns /\ DOMAIN hdr = Conns /\ DOMAIN mine = Conns /\ DOMAIN dirty = Conns
      /\ IsHdr(hdr[c])
      /\ UNCHANGED << files, shm, nBackfill, marks, locks, pc, tmp, readLock, mark, minFrame,
                      batch, last, ckpt, hist, committed >>
      /\ saved'[c] = NoSaved /\ mine'[c] = s.mine /\ dirty'[c] = dirty[c] \cup s.pages
  BY RollbackToMoves, SomeConn DEF RollbackTo, Content, Sized, Filled, Inv, Shaped
<1>2. /\ WriteKept(c) /\ Undoable(s, hdr[c].mx, mine[c], idx, hdr[c].mx) /\ shm[1].mx <= k
      /\ k \in 0 .. hdr[c].mx
  BY <1>1, Parts DEF WriteKept, Undoable
<1>3. /\ hdr[c].mx \in Nat /\ shm[1].mx \in Nat /\ minFrame[c] \in Nat /\ hdr[c].mx <= MaxFrames
      /\ MaxFrames \in Nat /\ Slots = 1 .. MaxFrames /\ Slots' = Slots /\ NoSaved' = NoSaved
  BY Numbers, Bounds, SameBounds DEF Content, NoSaved, NoPages
<1>4. hdr' = [hdr EXCEPT ![c].mx = k] /\ idx' = Cleaned(k)
  <2>1. (IF saved[c].mx < hdr[c].mx THEN saved[c].mx ELSE hdr[c].mx) = k
    BY <1>2, <1>3
  <2>2. UndoTo(c, IF saved[c].mx < hdr[c].mx THEN saved[c].mx ELSE hdr[c].mx)
    BY DEF RollbackTo
  <2>3. UndoTo(c, k)
    BY <2>1, <2>2
  <2> QED
    BY <2>3 DEF UndoTo
<1>5. /\ hdr'[c].mx = k /\ hdr'[c].salt = hdr[c].salt /\ hdr'[c].last = hdr[c].last
      /\ (k = hdr[c].mx => hdr'[c] = hdr[c])
  <2>1. hdr'[c] = [hdr[c] EXCEPT !.mx = k]
    BY <1>1, <1>4
  <2> QED
    BY <1>1, <2>1 DEF IsHdr
<1>6. \A f \in Slots : /\ f <= k => idx'[f] = idx[f]
                       /\ f > k => idx'[f] = 0
  <2>1. k \in Nat
    BY <1>2, <1>3
  <2> QED
    BY <1>3, <1>4, <2>1 DEF Cleaned
<1>7. Owned(c) /\ Owned(c)' /\ Drawn(c) /\ Drawn(c)'
  BY <1>1 DEF Owned, Drawn, Writing
<1>8. Hidden(c)
  <2>1. \A f \in 1 .. shm[1].mx : idx'[f] = idx[f]
    BY <1>2, <1>3, <1>6
  <2> QED
    BY <1>1, <1>5, <1>7, <2>1 DEF Hidden, LogUnchanged, LocksUnchanged, Lock, SaltsKnown
<1>9. LocksKept(c)'
  BY <1>1, Parts, NoMarkHeld DEF LocksKept, Zeroed, Marked, Resetting, Checkpointing
<1>10. HeadersKept(c)'
  BY <1>1, <1>5, <1>7, <1>8, Parts, HeadersDrawn DEF HeadersKept
<1>11. MarksKept(c)' /\ \A d \in Conns \ {c} : MarksHeeded(c, d)'
  BY <1>1, <1>8, MarkStays
<1>12. ReaderSees(c)' /\ RestartKept(c)' /\ FramesKept(c)'
  BY <1>1 DEF ReaderSees, RestartKept, FramesKept, Marking
<1>13. ASSUME NEW p \in Pages \ dirty'[c] PROVE Sees(c, p, mine[c][p])'
  <2>1. p \notin dirty[c] /\ p \notin s.pages
    BY <1>1
  <2>2. Sees(c, p, mine[c][p]) /\ mine[c][p] = s.mine[p]
        /\ \A f \in k + 1 .. hdr[c].mx : idx[f] # p
    BY <1>1, <1>2, <2>1 DEF WriteKept, Undoable
  <2>3. CASE readLock[c] = 0
    BY <1>1, <2>2, <2>3 DEF Sees
  <2>4. CASE readLock[c] # 0
    <3> DEFINE m == minFrame[c]
               n == hdr[c].mx
               v == mine[c][p]
    <3>1. Finds(wal.frames, db, idx, m, n, p, v)
      BY <2>2, <2>4 DEF Sees
    <3>2. \A f \in m .. n : f > k => idx[f] # p
      BY <1>2, <1>3, <2>2
    <3>3. \A f \in m .. k : idx'[f] = idx[f] \/ f = 0
      BY <1>2, <1>3, <1>6
    <3>4. 0 \notin m .. k
      <4>1. readLock[c] \in Marks
        BY <1>1, <2>4, Parts DEF LocksKept, Content, Sized, SizedReader
      <4>2. minFrame[c] >= 1
        BY <1>1, <4>1, Parts, Numbers DEF MarksKept, Content
      <4> QED
        BY <1>2, <1>3, <4>2
    <3>5. \A f \in m .. k : idx'[f] = idx[f]
      BY <3>3, <3>4
    <3> HIDE DEF v
    <3>6. Finds(wal.frames, db, idx', m, k, p, v)
      BY <1>2, <1>3, <3>1, <3>2, <3>5, FindsCut
    <3> QED
      BY <1>1, <1>5, <2>2, <2>4, <3>6 DEF Sees, v
  <2> QED
    BY <2>3, <2>4
<1>14. WriteKept(c)'
  <2>1. readLock[c] = 0 => hdr'[c] = shm[1] /\ nBackfill = hdr'[c].mx
    BY <1>1, <1>2, <1>3, <1>5 DEF WriteKept
  <2> QED
    BY <1>1, <1>2, <1>3, <1>5, <1>6, <1>7, <1>13, <2>1 DEF WriteKept, Undoable
<1> QED
  BY <1>1, <1>8, <1>9, <1>10, <1>11, <1>12, <1>14, WriterContent DEF CkptSteps

LEMMA RollbackContent ==
  ASSUME Inv, Order, Content, NEW c \in Conns, setting' = setting, Rollback(c)
  PROVE  Content'
<1>1. /\ Moves(c) /\ c # None /\ pc[c] \in {"write", "frames"} /\ pc'[c] = "read"
      /\ UNCHANGED << files, shm, nBackfill, marks, ckpter, zeroExcl, marksExcl, tmp, readLock,
                      mark, minFrame, ckpt, hist, committed >>
      /\ saved'[c] = NoSaved /\ hdr'[c] = shm[1] /\ writer' = None
      /\ idx' = (IF shm[1].mx # hdr[c].mx THEN Cleaned(shm[1].mx) ELSE idx)
  BY RollbackMoves, SomeConn
     DEF Rollback, EndTransaction, Content, Sized, Filled, Inv, Shaped
<1>2. /\ hdr[c].mx \in Nat /\ shm[1].mx \in Nat /\ minFrame[c] \in Nat /\ shm[1].mx <= MaxFrames
      /\ MaxFrames \in Nat /\ Slots = 1 .. MaxFrames /\ Slots' = Slots
  BY Numbers, Bounds, SameBounds DEF Content
<1>3. \A f \in 1 .. shm[1].mx : idx'[f] = idx[f]
  BY <1>1, <1>2 DEF Cleaned
<1>4. Owned(c) /\ ~Owned(c)' /\ Drawn(c) /\ ~Drawn(c)'
  BY <1>1 DEF Owned, Drawn, Writing, Marking
<1>5. ASSUME shm[1].mx > 0, NEW f \in Slots, f > shm[1].mx PROVE idx'[f] = 0
  <2>1. CASE shm[1].mx = hdr[c].mx
    BY <1>1, <1>4, <1>5, <2>1, Parts DEF WriteKept
  <2>2. CASE shm[1].mx # hdr[c].mx
    BY <1>1, <1>5, <2>2 DEF Cleaned
  <2> QED
    BY <2>1, <2>2
<1>6. Hidden(c)
  BY <1>1, <1>3, <1>4, <1>5 DEF Hidden, LogUnchanged, LocksUnchanged, Lock, SaltsKnown
<1>7. LocksKept(c)'
  BY <1>1, Parts, NoMarkHeld DEF LocksKept, Zeroed, Marked, Resetting, Checkpointing
<1>8. HeadersKept(c)'
  BY <1>1, <1>4, <1>6, HeadersStay
<1>9. MarksKept(c)' /\ \A d \in Conns \ {c} : MarksHeeded(c, d)'
  BY <1>1, <1>6, MarkStays
<1>10. WriteKept(c)' /\ RestartKept(c)' /\ FramesKept(c)'
  BY <1>1, <1>4, NotWriting
<1>11. ReaderSees(c)'
  <2>1. shm[1] # NoHdr
    BY <1>1 DEF Order, NothingYet
  <2>2. shm[1].last >= 0
    BY <2>1, LatestFound, Bounds
  <2>3. readLock[c] = 0 => nBackfill = shm[1].mx
    BY <1>1, Parts, NoMarkHeld DEF WriteKept, LocksKept, Zeroed, Marked
  <2>4. ASSUME NEW p \in Pages PROVE Sees(c, p, hist[hdr[c].last][p])'
    <3> DEFINE v == hist[shm[1].last][p]
    <3>1. CASE readLock[c] = 0
      <4>1. db[p] = v
        BY <2>1, <2>3, <3>1, LatestFound
      <4> QED
        BY <1>1, <3>1, <4>1 DEF Sees
    <3>2. CASE readLock[c] # 0
      <4>1. readLock[c] \in Marks
        BY <1>1, <3>2, Parts DEF LocksKept, Zeroed, Marked, Content, Sized, SizedReader
      <4>2. minFrame[c] \in 1 .. nBackfill + 1
        BY <4>1, Parts DEF MarksKept
      <4>3. Finds(wal.frames, db, idx, minFrame[c], shm[1].mx, p, v)
        BY <2>1, <4>2, LatestFound
      <4>4. \A f \in minFrame[c] .. shm[1].mx : idx'[f] = idx[f]
        <5>1. \A f \in minFrame[c] .. shm[1].mx : f \in 1 .. shm[1].mx
          BY <1>2, <4>2
        <5> QED
          BY <1>3, <5>1
      <4> DEFINE m == minFrame[c]
                 n == shm[1].mx
      <4> HIDE DEF v, m, n
      <4>5. Finds(wal.frames, db, idx', m, n, p, v)
        <5>1. m \in Int /\ n \in Int
          BY <1>2 DEF m, n
        <5>2. Finds(wal.frames, db, idx, m, n, p, v) /\ \A f \in m .. n : idx'[f] = idx[f]
          BY <4>3, <4>4 DEF m, n
        <5> QED
          BY <5>1, <5>2, FindsSame
      <4> QED
        BY <1>1, <3>2, <4>5 DEF Sees, v, m, n
    <3> QED
      BY <3>1, <3>2
  <2> QED
    BY <1>1, <2>2, <2>3, <2>4 DEF ReaderSees
<1> QED
  BY <1>1, <1>6, <1>7, <1>8, <1>9, <1>10, <1>11, WriterContent DEF CkptSteps

(* Up to the header of the connection the entries are those of the index.  *)
LEMMA EntriesBelow ==
  ASSUME Inv, Content, NEW c \in Conns, NEW m \in Nat, m >= 1
  PROVE  \A f \in m .. hdr[c].mx : Entries(c)[f] = idx[f]
<1>1. DOMAIN idx = Slots /\ m .. hdr[c].mx \subseteq Slots
  BY Bounds, Numbers DEF Content, Sized, SizedShared
<1>2. \A f \in Slots : f <= hdr[c].mx => Entries(c)[f] = idx[f]
  BY <1>1 DEF Entries, Joined
<1> QED
  BY <1>1, <1>2

(* Pages of the savepoint that leave the cache can be undone all the same. *)
LEMMA StillUndoable ==
  ASSUME Inv, Content, NEW c \in Conns, NEW P, NEW mx, NEW now, NEW index, NEW to,
         Undoable(saved[c], mx, now, index, to)
  PROVE  Undoable(Subjournaled(c, P), mx, now, index, to)
<1>1. CASE saved[c] = NoSaved
  BY <1>1, SubjournaledIs DEF Undoable, Content
<1>2. CASE saved[c] # NoSaved
  BY <1>2, SubjournaledIs DEF Undoable, Content
<1> QED
  BY <1>1, <1>2

(* Frames are written, after the log has been restarted or at once.        *)
LEMMA StartContent ==
  ASSUME Inv, Order, Content, NEW c \in Conns, NEW P \in SUBSET Pages, P # {}, NEW commit \in BOOLEAN,
         Moves(c), pc[c] = "write", StartFrames(c, P, commit), commit => dirty[c] \subseteq P
  PROVE  Content'
<1>1. /\ c # None /\ setting' = setting
      /\ DOMAIN pc = Conns /\ DOMAIN saved = Conns /\ DOMAIN batch = Conns /\ DOMAIN last = Conns
  BY SomeConn DEF Moves, Steps, Content, Sized, Filled, Inv, Shaped
<1>2. /\ UNCHANGED << files, shared, locks, reader, mine, dirty, txn, ckpt, hist, committed >>
      /\ pc'[c] = (IF readLock[c] = 0 THEN "restart" ELSE "frames") /\ last'[c] = hdr[c].mx
      /\ saved'[c] = (IF commit THEN saved[c] ELSE Subjournaled(c, P))
  BY <1>1 DEF StartFrames
<1>3. batch'[c].todo = P /\ batch'[c].commit = commit /\ batch'[c].first = FirstFrame(c)
  <2>1. batch'[c] = [todo |-> P, commit |-> commit, first |-> FirstFrame(c), headed |-> FALSE]
    BY <1>1 DEF StartFrames
  <2> QED
    BY <2>1
<1>4. Owned(c) /\ Owned(c)' /\ Drawn(c) /\ Drawn(c)'
  BY <1>2 DEF Owned, Drawn, Writing
<1>5. /\ WriteKept(c) /\ Slots' = Slots /\ NoSaved' = NoSaved /\ hdr[c].mx \in Nat /\ shm[1].mx \in Nat
      /\ shm[1] # NoHdr /\ Undoable(saved[c], hdr[c].mx, mine[c], idx, hdr[c].mx)
      /\ shm[1].mx <= hdr[c].mx /\ (saved[c] # NoSaved => shm[1].mx <= saved[c].mx)
  BY <1>1, Parts, SameBounds, Numbers
     DEF Content, NoSaved, NoPages, Order, NothingYet, WriteKept
<1>6. Hidden(c)
  BY <1>2, <1>4 DEF Hidden, LogUnchanged, LocksUnchanged, Lock, SaltsKnown
<1>7. LocksKept(c)'
  BY <1>1, <1>2, Parts, NoMarkHeld
     DEF LocksKept, Zeroed, Marked, Resetting, Checkpointing, Content, Sized, SizedReader
<1>8. HeadersKept(c)'
  BY <1>2, <1>4, <1>6, Parts, HeadersDrawn DEF HeadersKept
<1>9. MarksKept(c)' /\ \A d \in Conns \ {c} : MarksHeeded(c, d)'
  BY <1>2, <1>6, MarkStays
<1>10. ReaderSees(c)' /\ WriteKept(c)'
  BY <1>2, <1>4, <1>5 DEF ReaderSees, WriteKept
<1>11. /\ saved'[c] = NoSaved <=> saved[c] = NoSaved
       /\ saved[c] # NoSaved => saved'[c].mx = saved[c].mx
       /\ ~commit /\ saved[c] # NoSaved => P \subseteq saved'[c].pages
       /\ Undoable(saved'[c], hdr[c].mx, mine[c], idx, hdr[c].mx)
  <2>1. CASE commit
    BY <1>2, <1>5, <2>1
  <2>2. CASE ~commit
    <3>1. saved[c].mx # -1 => Subjournaled(c, P).mx # -1
      BY SubjournaledIs, Kinds DEF Content
    <3>2. saved[c] # NoSaved => saved[c].mx # -1
      BY <1>5 DEF Undoable
    <3> QED
      BY <1>2, <1>5, <2>2, <3>1, <3>2, SubjournaledIs, StillUndoable, Kinds DEF Content
  <2> QED
    BY <2>1, <2>2
<1>12. BatchKept(c)'
  BY <1>2, <1>3, <1>5, <1>11 DEF BatchKept
<1>13. CASE readLock[c] = 0
  <2>1. pc'[c] = "restart" /\ hdr[c] = shm[1] /\ nBackfill = hdr[c].mx
    BY <1>2, <1>5, <1>13 DEF WriteKept
  <2>2. FramesKept(c)'
    BY <2>1 DEF FramesKept
  <2>3. FirstFrame(c) = 0
    BY <2>1 DEF FirstFrame
  <2>4. \A p \in Pages \ dirty[c] : mine[c][p] = hist[shm[1].last][p]
    BY <1>2, <1>5, <1>13, <2>1, Parts, LatestFound DEF WriteKept, Sees
  <2>5. saved[c] # NoSaved => saved[c].mx = hdr[c].mx
    BY <1>5, <2>1 DEF Undoable
  <2>6. Undoable(saved[c], hdr[c].mx, mine[c], idx, hdr[c].mx)'
    BY <1>2, <1>5, <1>11 DEF Undoable
  <2>7. RestartKept(c)'
    BY <1>2, <1>3, <1>5, <1>11, <1>12, <2>1, <2>3, <2>4, <2>5, <2>6 DEF RestartKept, Marking
  <2> QED
    BY <1>6, <1>7, <1>8, <1>9, <1>10, <2>1, <2>2, <2>7, WriterContent DEF CkptSteps
<1>14. CASE readLock[c] # 0
  <2>1. pc'[c] = "frames" /\ readLock[c] \in Marks
    BY <1>1, <1>2, <1>14, Parts DEF LocksKept, Content, Sized, SizedReader
  <2>2. minFrame[c] \in 1 .. nBackfill + 1 /\ minFrame[c] \in Nat
    BY <2>1, Parts, Numbers DEF MarksKept, Content
  <2>3. RestartKept(c)'
    BY <2>1 DEF RestartKept, Marking
  <2>4. Entries(c)' = Entries(c)
    BY <1>2 DEF Entries
  <2>5. \A f \in minFrame[c] .. hdr[c].mx : Entries(c)[f] = idx[f]
    BY <2>2, EntriesBelow
  <2>6. ASSUME NEW p \in Pages \ dirty[c]
        PROVE  Finds(wal.frames, db, Entries(c), minFrame[c], hdr[c].mx, p, mine[c][p])
    <3> DEFINE E == Entries(c)
               m == minFrame[c]
               n == hdr[c].mx
               v == mine[c][p]
    <3>1. Finds(wal.frames, db, idx, m, n, p, v)
      BY <1>2, <1>5, <1>14, Parts DEF WriteKept, Sees
    <3>2. m \in Int /\ n \in Int /\ \A f \in m .. n : E[f] = idx[f]
      BY <1>5, <2>2, <2>5
    <3> HIDE DEF E, m, n, v
    <3>3. Finds(wal.frames, db, E, m, n, p, v)
      BY <3>1, <3>2, FindsSame
    <3> QED
      BY <3>3 DEF E, m, n, v
  <2>7. Undoable(saved'[c], hdr[c].mx, mine[c], Entries(c), hdr[c].mx)
    <3> SUFFICES ASSUME saved'[c] # NoSaved, NEW p \in Pages \ saved'[c].pages,
                        NEW f \in saved'[c].mx + 1 .. hdr[c].mx
                 PROVE  Entries(c)[f] # p
      BY <1>11 DEF Undoable
    <3>1. saved'[c].mx \in 0 .. hdr[c].mx /\ idx[f] # p
      BY <1>11 DEF Undoable
    <3>2. f \in 1 .. hdr[c].mx
      BY <1>5, <3>1
    <3> QED
      BY <3>1, <3>2, EntriesBelow
  <2>8. Undoable(saved[c], hdr[c].mx, mine[c], Entries(c), last[c])'
    BY <1>2, <1>5, <2>4, <2>7 DEF Undoable
  <2>9. hdr[c].mx + 1 .. hdr[c].mx = {} /\ FirstFrame(c) \in {0, shm[1].mx + 1}
    BY <1>5 DEF FirstFrame
  <2>10. FramesKept(c)'
    BY <1>2, <1>3, <1>5, <1>11, <1>12, <2>1, <2>4, <2>6, <2>8, <2>9 DEF FramesKept
  <2> QED
    BY <1>6, <1>7, <1>8, <1>9, <1>10, <2>1, <2>3, <2>10, WriterContent DEF CkptSteps
<1> QED
  BY <1>13, <1>14

LEMMA SpillContent ==
  ASSUME Inv, Order, Content, NEW c \in Conns, NEW p \in Pages, setting' = setting, Spill(c, p)
  PROVE  Content'
<1>1. Moves(c)
  BY SpillMoves
<1>2. pc[c] = "write" /\ StartFrames(c, {p}, FALSE)
  BY DEF Spill
<1> QED
  BY <1>1, <1>2, StartContent

LEMMA CommitContent ==
  ASSUME Inv, Order, Content, NEW c \in Conns, setting' = setting, Commit(c)
  PROVE  Content'
<1> DEFINE P == IF dirty[c] = {} THEN {1} ELSE dirty[c]
<1>1. Moves(c) /\ P \in SUBSET Pages /\ P # {} /\ dirty[c] \subseteq P
  BY CommitMoves, Bounds DEF Content, Sized, SizedWriter
<1>2. pc[c] = "write" /\ StartFrames(c, P, TRUE)
  BY DEF Commit
<1> HIDE DEF P
<1> QED
  BY <1>1, <1>2, StartContent

(* The log is restarted if all of it is in the database file.              *)
LEMMA RestartLogContent ==
  ASSUME Inv, Order, Content, NEW c \in Conns, setting' = setting, RestartLog(c)
  PROVE  Content'
<1>1. /\ Moves(c) /\ c # None /\ pc[c] = "restart" /\ DOMAIN pc = Conns /\ DOMAIN hdr = Conns
      /\ DOMAIN readLock = Conns /\ DOMAIN saved = Conns /\ DOMAIN last = Conns
      /\ IsHdr(hdr[c]) /\ {1, 2} \subseteq DOMAIN shm
      /\ UNCHANGED << files, idx, nBackfill, marks, writer, ckpter, zeroExcl, tmp, mark, minFrame,
                      cached, mine, dirty, batch, ckpt, hist, committed >>
  BY RestartLogMoves, SomeConn DEF RestartLog, Content, Sized, Filled, Inv, Shaped
<1>2. Owned(c) /\ Drawn(c) /\ writer = c
  BY <1>1, OwnerIs DEF Owned, Drawn, Writing
<1>3. /\ RestartKept(c) /\ readLock[c] = 0 /\ -1 \notin Marks /\ 0 \notin Marks /\ Marks' = Marks
      /\ Slots' = Slots /\ NoSaved' = NoSaved /\ NoSaved.mx = -1
      /\ hdr[c] = shm[1] /\ nBackfill = shm[1].mx /\ shm[1].mx \in Nat
  BY <1>1, Parts, NoMarkHeld, SameBounds, Kinds, Numbers
     DEF LocksKept, Zeroed, NoSaved, NoPages, RestartKept, Content
<1>4. /\ last[c] = hdr[c].mx /\ batch[c].first = 0 /\ batch[c].todo # {}
      /\ \A p \in Pages \ dirty[c] : mine[c][p] = hist[shm[1].last][p]
      /\ Undoable(saved[c], hdr[c].mx, mine[c], idx, hdr[c].mx)
      /\ saved[c] # NoSaved => saved[c].mx = hdr[c].mx
      /\ BatchKept(c)
  BY <1>1, <1>3 DEF RestartKept
<1>5. CASE nBackfill > 0 /\ MarksFree(c)
  <2>1. /\ marksExcl' = c /\ hdr'[c] = Restarted(hdr[c], FreshSalt) /\ shm'[1] = shm[1]
        /\ pc'[c] = "restarted" /\ last'[c] = 0 /\ readLock' = readLock
        /\ saved'[c] = IF saved[c] = NoSaved THEN saved[c] ELSE [saved[c] EXCEPT !.mx = 0]
    BY <1>1, <1>5 DEF RestartLog
  <2>2. hdr'[c].mx = 0 /\ hdr'[c].salt = FreshSalt
    BY <1>1, <2>1 DEF Restarted, IsHdr
  <2>3. FreshSalt \notin UsedSalts \cup {0} /\ FreshSalt # shm[1].salt
    BY FreshIs, SaltsUsed
  <2>4. Owned(c)' /\ Drawn(c)'
    BY <2>1 DEF Owned, Drawn, Writing
  <2>5. Hidden(c)
    <3>1. Lock(marksExcl, marksExcl', c) /\ \A d \in Conns \ {c} : readLock[d] \notin Marks
      BY <1>5, <2>1 DEF MarksFree, Readers, Lock
    <3> QED
      BY <1>1, <2>1, <2>2, <2>3, <2>4, <3>1
         DEF Hidden, LogUnchanged, LocksUnchanged, Lock, SaltsKnown
  <2>6. LocksKept(c)'
    BY <1>1, <1>3, <2>1, Parts DEF LocksKept, Zeroed, Marked, Resetting, Checkpointing
  <2>7. HeadersKept(c)'
    BY <1>1, <2>1, <2>2, <2>3, <2>4, <2>5, HeadersDrawn
  <2>8. MarksKept(c)' /\ \A d \in Conns \ {c} : MarksHeeded(c, d)'
    BY <1>1, <2>1, <2>5, MarkStays
  <2>9. ReaderSees(c)' /\ WriteKept(c)' /\ FramesKept(c)'
    BY <2>1, <2>2, <2>4 DEF ReaderSees, WriteKept, FramesKept
  <2>10. /\ saved'[c] = NoSaved <=> saved[c] = NoSaved
         /\ saved[c] # NoSaved =>
              /\ saved'[c].mx = 0 /\ saved'[c].mine = saved[c].mine
              /\ saved'[c].pages = saved[c].pages
    <3>1. {"mx", "mine", "pages"} \subseteq DOMAIN saved[c]
      BY DEF Content, Sized, SizedWriter
    <3>2. saved[c] # NoSaved =>
              /\ saved'[c].mx = 0 /\ saved'[c].mine = saved[c].mine
              /\ saved'[c].pages = saved[c].pages
      BY <2>1, <3>1
    <3>3. saved[c] = NoSaved => saved'[c] = NoSaved
      BY <2>1
    <3> QED
      BY <1>3, <3>2, <3>3
  <2>11. Undoable(saved[c], hdr[c].mx, mine[c], idx, hdr[c].mx)'
    <3>1. 0 + 1 .. 0 = {}
      OBVIOUS
    <3> QED
      BY <1>1, <1>3, <1>4, <2>2, <2>10, <3>1 DEF Undoable
  <2>12. BatchKept(c)'
    BY <1>1, <1>3, <1>4, <2>10 DEF BatchKept
  <2>13. RestartKept(c)'
    BY <1>1, <1>3, <1>4, <2>1, <2>2, <2>3, <2>10, <2>11, <2>12 DEF RestartKept, Marking
  <2> QED
    BY <1>1, <2>1, <2>5, <2>6, <2>7, <2>8, <2>9, <2>13, WriterContent DEF CkptSteps
<1>6. CASE ~(nBackfill > 0 /\ MarksFree(c))
  <2>1. /\ readLock'[c] = -1 /\ pc'[c] = "begin"
        /\ UNCHANGED << marksExcl, hdr, shm, saved, last >>
    BY <1>1, <1>6 DEF RestartLog
  <2>2. Owned(c)' /\ Drawn(c)'
    BY <1>1, <1>2, <2>1 DEF Owned, Drawn, Marking
  <2>3. Hidden(c)
    BY <1>1, <2>1, <2>2 DEF Hidden, LogUnchanged, LocksUnchanged, Lock, SaltsKnown
  <2>4. LocksKept(c)'
    BY <1>1, <1>3, <2>1, Parts DEF LocksKept, Zeroed, Marked, Resetting, Checkpointing
  <2>5. HeadersKept(c)'
    BY <1>1, <1>3, <2>1, <2>2, <2>3, HeadersDrawn
  <2>6. MarksKept(c)' /\ ReaderSees(c)' /\ \A d \in Conns \ {c} : MarksHeeded(c, d)'
    BY <1>1, <1>3, <2>1, <2>3, StillHeeded DEF MarksKept, ReaderSees
  <2>7. WriteKept(c)' /\ FramesKept(c)'
    BY <1>1, <1>3, <2>1, <2>2, <1>2, Parts DEF WriteKept, FramesKept
  <2>8. RestartKept(c)'
    <3>1. BatchKept(c)' <=> BatchKept(c)
      BY <1>1, <1>3, <2>1 DEF BatchKept
    <3>2. Undoable(saved[c], hdr[c].mx, mine[c], idx, hdr[c].mx)'
      BY <1>1, <1>3, <1>4, <2>1 DEF Undoable
    <3> QED
      BY <1>1, <1>3, <1>4, <2>1, <3>1, <3>2 DEF RestartKept
  <2> QED
    BY <1>1, <2>1, <2>3, <2>4, <2>5, <2>6, <2>7, <2>8, WriterContent DEF CkptSteps
<1> QED
  BY <1>5, <1>6

(* What is about to be written depends on the pages and values of frames.  *)
LEMMA FramesStay ==
  ASSUME Inv, Order, Content, NEW c \in Conns, setting' = setting, pc[c] = "frames",
         pc'[c] = "frames", hdr'[c].mx = hdr[c].mx, shm'[1] = shm[1],
         UNCHANGED << db, idx, minFrame, readLock, mine, dirty, saved, last, txn, hist >>,
         batch'[c].todo = batch[c].todo, batch'[c].commit = batch[c].commit,
         batch'[c].first = batch[c].first,
         \A f \in Slots : wal'.frames[f].val = wal.frames[f].val /\ wal'.frames[f].page = wal.frames[f].page
  PROVE  FramesKept(c)'
<1>1. /\ FramesKept(c) /\ NoSaved' = NoSaved /\ hdr[c].mx \in Nat /\ last[c] \in Nat
      /\ Slots = 1 .. MaxFrames /\ MaxFrames \in Nat /\ last[c] <= MaxFrames
  BY Parts, Numbers, Bounds DEF NoSaved, NoPages, Content
<1>2. minFrame[c] \in Nat /\ minFrame[c] >= 1
  <2>1. minFrame[c] \in 1 .. nBackfill + 1
    BY Parts DEF LocksKept, Marked, MarksKept
  <2> QED
    BY <2>1, Numbers DEF Content
<1>3. Entries(c)' = Entries(c)
  <2>1. DOMAIN idx = Slots
    BY DEF Content, Sized, SizedShared
  <2> QED
    BY <2>1 DEF Entries, Joined
<1>4. (BatchKept(c)' <=> BatchKept(c)) /\ \A s, a, b, i, d : Undoable(s, a, b, i, d)' <=> Undoable(s, a, b, i, d)
  BY <1>1 DEF BatchKept, Undoable
<1>5. \A f \in 1 .. last[c] : /\ wal'.frames[f].val = wal.frames[f].val
                              /\ wal'.frames[f].page = wal.frames[f].page
  BY <1>1
<1>6. ASSUME NEW p \in Pages \ dirty[c]
      PROVE  Finds(wal'.frames, db, Entries(c), minFrame[c], last[c], p, mine[c][p])
  <2> DEFINE E == Entries(c)
             m == minFrame[c]
             n == last[c]
             v == mine[c][p]
  <2>1. Finds(wal.frames, db, E, m, n, p, v)
    BY <1>1 DEF FramesKept
  <2>2. m \in Int /\ n \in Int /\ \A f \in m .. n : f \in 1 .. n
    BY <1>1, <1>2
  <2>3. \A f \in m .. n : wal'.frames[f].val = wal.frames[f].val
    BY <1>5, <2>2
  <2> HIDE DEF E, m, n, v
  <2>4. Finds(wal'.frames, db, E, m, n, p, v)
    BY <2>1, <2>2, <2>3, FindsSame
  <2> QED
    BY <2>4 DEF E, m, n, v
<1>7. \A f \in hdr[c].mx + 1 .. last[c] : wal'.frames[f].page \in Pages \ batch[c].todo
  <2>1. \A f \in hdr[c].mx + 1 .. last[c] : f \in 1 .. last[c]
    BY <1>1
  <2> QED
    BY <1>1, <1>5, <2>1 DEF FramesKept
<1> QED
  BY <1>1, <1>3, <1>4, <1>6, <1>7 DEF FramesKept

LEMMA WriteLogHeaderContent ==
  ASSUME Inv, Order, Content, NEW c \in Conns, setting' = setting, WriteLogHeader(c)
  PROVE  Content'
<1>1. /\ Moves(c) /\ c # None /\ pc[c] = "frames" /\ pc'[c] = "frames" /\ hdr[c].mx = 0
      /\ DOMAIN hdr = Conns /\ DOMAIN batch = Conns /\ IsHdr(hdr[c])
      /\ {"salt", "frames"} \subseteq DOMAIN wal
      /\ {"todo", "commit", "first", "headed"} \subseteq DOMAIN batch[c]
      /\ UNCHANGED << db, shared, locks, tmp, readLock, mark, minFrame, cached, txn, mine, dirty,
                      saved, last, ckpt, hist, committed >>
  BY WriteLogHeaderMoves, SomeConn
     DEF WriteLogHeader, Content, Sized, SizedLog, SizedWriter, Filled, Inv, Shaped
<1>2. /\ hdr'[c] = [hdr[c] EXCEPT !.salt = IF nCkpt[c] THEN hdr[c].salt ELSE FreshSalt]
      /\ batch'[c] = [batch[c] EXCEPT !.headed = TRUE]
      /\ wal'.frames = wal.frames
  BY <1>1 DEF WriteLogHeader
<1>3. /\ hdr'[c].mx = 0 /\ hdr'[c].salt \in {hdr[c].salt, FreshSalt}
      /\ batch'[c].todo = batch[c].todo /\ batch'[c].commit = batch[c].commit
      /\ batch'[c].first = batch[c].first
  BY <1>1, <1>2 DEF IsHdr
<1>4. Owned(c) /\ Owned(c)' /\ Drawn(c) /\ Drawn(c)'
  BY <1>1 DEF Owned, Drawn, Writing
<1>5. FreshSalt \notin UsedSalts \cup {0}
  BY FreshIs
<1>6. Hidden(c)
  BY <1>1, <1>2, <1>3, <1>4, <1>5 DEF Hidden, LogUnchanged, LocksUnchanged, Lock, SaltsKnown
<1>7. LocksKept(c)'
  BY <1>1, Parts, NoMarkHeld DEF LocksKept, Zeroed, Marked, Resetting, Checkpointing, Moves, Steps
<1>8. HeadersKept(c)'
  <2>1. shm[1].mx = 0
    BY <1>1, Parts, Numbers DEF FramesKept, Content
  <2> QED
    BY <1>1, <1>3, <1>4, <1>5, <1>6, <2>1, HeadersDrawn
<1>9. MarksKept(c)' /\ \A d \in Conns \ {c} : MarksHeeded(c, d)'
  BY <1>1, <1>6, MarkStays
<1>10. ReaderSees(c)' /\ WriteKept(c)' /\ RestartKept(c)'
  BY <1>1, <1>3, <1>4 DEF ReaderSees, WriteKept, RestartKept, Marking
<1>11. FramesKept(c)'
  BY <1>1, <1>2, <1>3, FramesStay
<1> QED
  BY <1>1, <1>6, <1>7, <1>8, <1>9, <1>10, <1>11, WriterContent DEF CkptSteps

(* What a step keeps that writes frames: all but what is in them.          *)
LEMMA FrameContent ==
  ASSUME Inv, Order, Content, NEW c \in Conns, Moves(c), pc[c] = "frames", pc'[c] = "frames",
         LogUnchanged(c), FramesKept(c)',
         UNCHANGED << db, shared, locks, reader, ckpt, committed >>
  PROVE  Content'
<1>1. c # None /\ setting' = setting
  BY SomeConn DEF Moves, Steps
<1>2. Owned(c) /\ Owned(c)' /\ Drawn(c) /\ Drawn(c)'
  BY DEF Owned, Drawn, Writing
<1>3. Hidden(c)
  BY <1>1, <1>2 DEF Hidden, LocksUnchanged, Lock, SaltsKnown
<1>4. LocksKept(c)'
  BY <1>1, Parts, NoMarkHeld DEF LocksKept, Zeroed, Marked, Resetting, Checkpointing
<1>5. HeadersKept(c)'
  BY <1>2, <1>3, Parts, HeadersDrawn DEF HeadersKept
<1>6. MarksKept(c)' /\ \A d \in Conns \ {c} : MarksHeeded(c, d)'
  BY <1>3, MarkStays
<1>7. ReaderSees(c)' /\ WriteKept(c)' /\ RestartKept(c)'
  BY <1>1, <1>2, Parts, SameBounds DEF ReaderSees, WriteKept, RestartKept, Marking
<1> QED
  BY <1>3, <1>4, <1>5, <1>6, <1>7, WriterContent DEF CkptSteps

LEMMA RechecksumContent ==
  ASSUME Inv, Order, Content, NEW c \in Conns, setting' = setting, Rechecksum(c)
  PROVE  Content'
<1>1. /\ Moves(c) /\ pc[c] = "frames" /\ pc' = pc
      /\ UNCHANGED << db, shared, locks, reader, mine, dirty, saved, batch, last, txn, ckpt, hist,
                      committed >>
      /\ wal' = Rechecksummed(wal, recksum[c], last[c])
  BY RechecksumMoves DEF Rechecksum
<1>2. \A f \in Slots : /\ wal'.frames[f].val = wal.frames[f].val
                       /\ wal'.frames[f].page = wal.frames[f].page
  <2>1. \A f \in Slots : IsFrame(wal.frames[f])
    BY DEF Content, Sized, SizedLog
  <2>2. ASSUME NEW f \in Slots
        PROVE  \E ck : wal'.frames[f] \in {wal.frames[f], [wal.frames[f] EXCEPT !.ck = ck]}
    <3>1. {"salt", "frames"} \subseteq DOMAIN wal
      BY DEF Content, Sized, SizedLog
    <3> QED
      BY <1>1, <3>1 DEF Rechecksummed
  <2> QED
    BY <2>1, <2>2 DEF IsFrame
<1>3. LogUnchanged(c)
  <2>1. \A f \in 1 .. shm[1].mx : f \in Slots
    BY Bounds, Numbers DEF Content
  <2> QED
    BY <1>1, <1>2, <2>1 DEF LogUnchanged, Owned, Writing
<1>4. FramesKept(c)'
  BY <1>1, <1>2, FramesStay
<1> QED
  BY <1>1, <1>3, <1>4, FrameContent

(* Frames of other pages are written over, or added.                       *)
LEMMA FindsApart ==
  ASSUME NEW fr, NEW pg, NEW ix, NEW fr2, NEW ix2, NEW m \in Int, NEW n \in Int, NEW n2 \in Int,
         n <= n2, NEW p, NEW v, Finds(fr, pg, ix, m, n, p, v),
         \A f \in m .. n : ix2[f] = ix[f] /\ (ix[f] = p => fr2[f].val = fr[f].val),
         \A f \in m .. n2 : f > n => ix2[f] # p
  PROVE  Finds(fr2, pg, ix2, m, n2, p, v)
<1>1. ASSUME NEW f \in m .. n2, LastIn(ix2, n2, p, f) PROVE fr2[f].val = v
  <2>1. f \in m .. n /\ ix[f] = p
    <3>1. f <= n
      BY <1>1 DEF LastIn
    <3>2. f \in m .. n
      BY <3>1
    <3> QED
      BY <1>1, <3>2 DEF LastIn
  <2>2. ASSUME NEW g \in f + 1 .. n PROVE ix[g] # p
    <3>1. g \in m .. n /\ g \in f + 1 .. n2
      OBVIOUS
    <3> QED
      BY <1>1, <3>1 DEF LastIn
  <2> QED
    BY <2>1, <2>2 DEF Finds, LastIn
<1>2. ASSUME \A f \in m .. n2 : ix2[f] # p PROVE pg[p] = v
  <2>1. \A f \in m .. n : f \in m .. n2
    OBVIOUS
  <2> QED
    BY <1>2, <2>1 DEF Finds
<1> QED
  BY <1>1, <1>2 DEF Finds

(* A frame is the last of its page.                                        *)
LEMMA FindsLast ==
  ASSUME NEW fr, NEW pg, NEW ix, NEW m \in Int, NEW n \in Int, NEW f \in m .. n,
         NEW p, LastIn(ix, n, p, f)
  PROVE  Finds(fr, pg, ix, m, n, p, fr[f].val)
<1>1. ASSUME NEW g \in m .. n, LastIn(ix, n, p, g) PROVE g = f
  <2>1. ~ (g < f) /\ ~ (f < g)
    BY <1>1 DEF LastIn
  <2> QED
    BY <2>1
<1> QED
  BY <1>1 DEF Finds, LastIn

(* What a writer has on the way.                                           *)
LEMMA OnTheWay ==
  ASSUME Inv, Order, Content, NEW c \in Conns, setting' = setting, pc[c] = "frames"
  PROVE  /\ hdr[c].mx \in Nat /\ last[c] \in Nat /\ last[c] <= MaxFrames /\ hdr[c].mx <= last[c]
         /\ shm[1].mx \in Nat /\ shm[1].mx <= hdr[c].mx /\ minFrame[c] \in Nat /\ minFrame[c] >= 1
         /\ minFrame[c] <= shm[1].mx + 1 /\ readLock[c] # 0
         /\ MaxFrames \in Nat /\ Slots = 1 .. MaxFrames /\ Slots' = Slots /\ DOMAIN idx = Slots
         /\ Pages = 1 .. NPages /\ NoSaved' = NoSaved
         /\ batch[c].todo \subseteq Pages /\ DOMAIN batch = Conns /\ DOMAIN dirty = Conns
         /\ {"todo", "commit", "first", "headed"} \subseteq DOMAIN batch[c]
         /\ {"salt", "frames"} \subseteq DOMAIN wal /\ DOMAIN wal.frames = Slots
         /\ \A f \in Slots : IsFrame(wal.frames[f])
         /\ batch[c].first \in Nat
<1>1. readLock[c] \in Marks /\ 0 \notin Marks /\ minFrame[c] \in 1 .. nBackfill + 1
  BY Parts, NoMarkHeld DEF LocksKept, Marked, MarksKept
<1>2. nBackfill <= shm[1].mx /\ nBackfill \in Nat
  BY BackfillBelow, Numbers DEF Owned, Writing, Content
<1>3. /\ hdr[c].mx \in Nat /\ last[c] \in Nat /\ last[c] <= MaxFrames /\ shm[1].mx \in Nat
      /\ minFrame[c] \in Nat /\ hdr[c].mx <= last[c] /\ shm[1].mx <= hdr[c].mx
  BY Parts, Numbers DEF FramesKept, Content
<1>4. minFrame[c] >= 1 /\ minFrame[c] <= shm[1].mx + 1 /\ readLock[c] # 0
  BY <1>1, <1>2, <1>3
<1>5. /\ MaxFrames \in Nat /\ Slots = 1 .. MaxFrames /\ Slots' = Slots /\ Pages = 1 .. NPages
      /\ NoSaved' = NoSaved
  BY Bounds, SameBounds DEF NoSaved, NoPages
<1>6. /\ DOMAIN idx = Slots /\ batch[c].todo \subseteq Pages
      /\ DOMAIN batch = Conns /\ DOMAIN dirty = Conns
      /\ {"todo", "commit", "first", "headed"} \subseteq DOMAIN batch[c]
      /\ {"salt", "frames"} \subseteq DOMAIN wal /\ DOMAIN wal.frames = Slots
      /\ \A f \in Slots : IsFrame(wal.frames[f])
      /\ batch[c].first \in Nat
  BY DEF Content, Sized, Filled, SizedShared, SizedLog, SizedWriter
<1> QED
  BY <1>3, <1>4, <1>5, <1>6

(* A page that is in the log since the transaction began is written over.  *)
LEMMA OverwriteContent ==
  ASSUME Inv, Order, Content, NEW c \in Conns, Moves(c), pc[c] = "frames", pc' = pc,
         NEW p \in batch[c].todo, ~(batch[c].commit /\ batch[c].todo = {p}),
         FindFrame(c, p) >= batch[c].first, batch[c].first > 0,
         wal' = [wal EXCEPT !.frames[FindFrame(c, p)].val = mine[c][p]],
         batch' = [batch EXCEPT ![c].todo = @ \ {p}], dirty' = [dirty EXCEPT ![c] = @ \ {p}],
         UNCHANGED << db, shared, locks, reader, mine, saved, last, txn, ckpt, hist, committed >>
  PROVE  Content'
<1> DEFINE old == FindFrame(c, p)
           E == Entries(c)
           m == minFrame[c]
           n == last[c]
<1>1. setting' = setting /\ FramesKept(c) /\ p \in Pages
  BY Parts, OnTheWay DEF Moves, Steps
<1>2. /\ hdr[c].mx \in Nat /\ n \in Nat /\ n <= MaxFrames /\ hdr[c].mx <= n
      /\ shm[1].mx \in Nat /\ m \in Nat /\ m >= 1 /\ batch[c].first = shm[1].mx + 1
      /\ MaxFrames \in Nat /\ Slots = 1 .. MaxFrames
  BY <1>1, OnTheWay DEF FramesKept
<1>3. old \in m .. hdr[c].mx /\ idx[old] = p /\ old > shm[1].mx
      /\ \A g \in m .. hdr[c].mx : idx[g] = p => g <= old
  <2> DEFINE F == {f \in m .. hdr[c].mx : idx[f] = p}
  <2>1. F \in SUBSET (0 .. hdr[c].mx)
    BY <1>2
  <2>2. /\ LastOf(F) \in 0 .. hdr[c].mx /\ (LastOf(F) = 0 \/ LastOf(F) \in F)
        /\ \A g \in F : g <= LastOf(F)
    BY <1>2, <2>1, LastOfIs
  <2>3. FindFrame(c, p) = 0 \/ FindFrame(c, p) = LastOf(F)
    BY DEF FindFrame
  <2>4. FindFrame(c, p) >= shm[1].mx + 1
    BY <1>2
  <2>5. FindFrame(c, p) = LastOf(F) /\ LastOf(F) > shm[1].mx /\ LastOf(F) # 0
    BY <1>2, <2>2, <2>3, <2>4
  <2> QED
    BY <2>2, <2>5
<1>4. \A f \in Slots : /\ wal'.frames[f].page = wal.frames[f].page
                       /\ f # old => wal'.frames[f].val = wal.frames[f].val
                       /\ f = old => wal'.frames[f].val = mine[c][p]
  <2>1. \A f \in Slots : wal'.frames[f] = IF f = old THEN [wal.frames[f] EXCEPT !.val = mine[c][p]]
                                          ELSE wal.frames[f]
    BY <1>1, OnTheWay
  <2> HIDE DEF old
  <2> QED
    BY <1>1, <2>1, OnTheWay DEF IsFrame
<1> HIDE DEF old
<1>5. /\ batch'[c].todo = batch[c].todo \ {p} /\ batch'[c].commit = batch[c].commit
      /\ batch'[c].first = batch[c].first /\ dirty'[c] = dirty[c] \ {p}
  <2>1. batch'[c] = [batch[c] EXCEPT !.todo = @ \ {p}] /\ dirty'[c] = dirty[c] \ {p}
    BY <1>1, OnTheWay
  <2> QED
    BY <1>1, <2>1, OnTheWay
<1>6. Entries(c)' = E
  BY <1>1, <1>4, OnTheWay DEF Entries, Joined
<1>7. \A f \in Slots : E[f] = IF f <= hdr[c].mx THEN idx[f] ELSE wal.frames[f].page
  BY <1>1, OnTheWay DEF Entries, Joined
<1> HIDE DEF E, m, n
<1>8. old \in m .. n /\ LastIn(E, n, p, old)
  <2>1. old \in m .. n /\ old \in Slots /\ E[old] = p
    BY <1>2, <1>3, <1>7
  <2>2. ASSUME NEW g \in old + 1 .. n PROVE E[g] # p
    <3>1. g \in Slots /\ g \in Nat /\ g > old
      BY <1>2, <1>3
    <3>2. CASE g <= hdr[c].mx
      <4>1. g \in m .. hdr[c].mx
        BY <1>2, <1>3, <3>1, <3>2
      <4> QED
        BY <1>2, <1>3, <1>7, <3>1, <3>2, <4>1
    <3>3. CASE g > hdr[c].mx
      <4>1. wal.frames[g].page \in Pages \ batch[c].todo
        <5>1. g \in hdr[c].mx + 1 .. last[c]
          BY <1>2, <3>1, <3>3 DEF n
        <5> QED
          BY <1>1, <5>1 DEF FramesKept
      <4> QED
        BY <1>2, <1>7, <3>1, <3>3, <4>1
    <3> QED
      BY <1>2, <3>1, <3>2, <3>3
  <2> QED
    BY <2>1, <2>2 DEF LastIn
<1>9. ASSUME NEW q \in Pages \ dirty'[c]
      PROVE  Finds(wal'.frames, db, E, m, n, q, mine[c][q])
  <2>1. CASE q = p
    <3>1. Finds(wal'.frames, db, E, m, n, p, wal'.frames[old].val)
      <4>1. m \in Int /\ n \in Int
        BY <1>2
      <4> QED
        BY <1>8, <4>1, FindsLast
    <3>2. old \in Slots
      BY <1>2, <1>8
    <3> QED
      BY <1>4, <2>1, <3>1, <3>2
  <2>2. CASE q # p
    <3> DEFINE v == mine[c][q]
    <3>1. Finds(wal.frames, db, E, m, n, q, v)
      BY <1>1, <1>5, <1>9, <2>2 DEF FramesKept, E, m, n
    <3>2. \A f \in m .. n : f \in Slots
      BY <1>2
    <3>3. \A f \in m .. n : E[f] = q => wal'.frames[f].val = wal.frames[f].val
      BY <1>4, <1>8, <2>2, <3>2 DEF LastIn
    <3> HIDE DEF v
    <3>4. Finds(wal'.frames, db, E, m, n, q, v)
      <4> DEFINE fr == wal.frames
                 fr2 == wal'.frames
      <4>1. m \in Int /\ n \in Int /\ n <= n /\ \A f \in m .. n : ~(f > n)
        BY <1>2
      <4>2. \A f \in m .. n : f > n => E[f] # q
        BY <4>1
      <4>3. /\ Finds(fr, db, E, m, n, q, v)
            /\ \A f \in m .. n : E[f] = E[f] /\ (E[f] = q => fr2[f].val = fr[f].val)
        BY <3>1, <3>3
      <4> HIDE DEF fr, fr2
      <4>4. Finds(fr2, db, E, m, n, q, v)
        BY <4>1, <4>2, <4>3, FindsApart
      <4> QED
        BY <4>4 DEF fr2
    <3> QED
      BY <3>4 DEF v
  <2> QED
    BY <2>1, <2>2
<1>10. BatchKept(c)'
  BY <1>1, <1>5, OnTheWay DEF FramesKept, BatchKept
<1>11. \A f \in hdr[c].mx + 1 .. last[c] : wal'.frames[f].page \in Pages \ batch'[c].todo
  <2>1. \A f \in hdr[c].mx + 1 .. last[c] : f \in Slots
    BY <1>2 DEF n
  <2> QED
    BY <1>1, <1>4, <1>5, <2>1 DEF FramesKept
<1>12. FramesKept(c)'
  <2>1. \A s, a, b, i, d : Undoable(s, a, b, i, d)' <=> Undoable(s, a, b, i, d)
    BY <1>1, OnTheWay DEF Undoable
  <2>2. ~(batch'[c].commit /\ batch'[c].todo = {})
    BY <1>5
  <2>3. /\ shm[1].mx <= hdr[c].mx /\ hdr[c].mx <= last[c]
        /\ batch'[c].first \in {0, shm[1].mx + 1}
        /\ saved[c] # NoSaved => shm[1].mx <= saved[c].mx
        /\ ~batch'[c].commit => Undoable(saved[c], hdr[c].mx, mine[c], E, last[c])
    BY <1>1, <1>5 DEF FramesKept, E
  <2>4. \A q \in Pages \ dirty'[c] : Finds(wal'.frames, db, E, minFrame[c], last[c], q, mine[c][q])
    BY <1>9 DEF m, n
  <2>5. NoSaved' = NoSaved
    BY <1>1, OnTheWay
  <2> QED
    BY <1>6, <1>10, <1>11, <2>1, <2>2, <2>3, <2>4, <2>5 DEF FramesKept
<1>13. LogUnchanged(c)
  <2>1. \A f \in 1 .. shm[1].mx : f \in Slots /\ f # old
    BY <1>2, <1>3
  <2> QED
    BY <1>4, <2>1 DEF LogUnchanged, Owned, Writing
<1> QED
  BY <1>12, <1>13, FrameContent

(* Any other page makes a frame.                                           *)
LEMMA AppendContent ==
  ASSUME Inv, Order, Content, NEW c \in Conns, Moves(c), pc[c] = "frames", pc' = pc,
         NEW p \in batch[c].todo, NEW fr, fr.page = p, fr.val = mine[c][p], last[c] + 1 \in Slots,
         wal' = [wal EXCEPT !.frames[last[c] + 1] = fr], last' = [last EXCEPT ![c] = last[c] + 1],
         hist' = IF batch[c].commit /\ batch[c].todo = {p} THEN [hist EXCEPT ![txn[c]] = mine[c]]
                 ELSE hist,
         batch' = [batch EXCEPT ![c].todo = @ \ {p}], dirty' = [dirty EXCEPT ![c] = @ \ {p}],
         UNCHANGED << db, shared, locks, reader, mine, saved, txn, ckpt, committed >>
  PROVE  Content'
<1> DEFINE l == last[c] + 1
           E == Entries(c)
           E2 == Entries(c)'
           m == minFrame[c]
           n == last[c]
<1>1. /\ setting' = setting /\ FramesKept(c) /\ p \in Pages /\ DOMAIN last = Conns
      /\ DOMAIN hist = 0 .. MaxTxn
  BY Parts, OnTheWay DEF Moves, Steps, Content, Sized, Filled, SizedLog
<1>2. /\ hdr[c].mx \in Nat /\ n \in Nat /\ hdr[c].mx <= n /\ l \in Slots /\ last'[c] = l /\ n < l
      /\ shm[1].mx \in Nat /\ shm[1].mx <= hdr[c].mx /\ m \in Nat /\ m >= 1 /\ m <= l
      /\ MaxFrames \in Nat /\ Slots = 1 .. MaxFrames
  <2>1. l \in Slots /\ last'[c] = l
    BY <1>1
  <2> QED
    BY <1>1, <2>1, OnTheWay
<1>3. wal'.frames[l] = fr /\ \A f \in Slots : f # l => wal'.frames[f] = wal.frames[f]
  BY <1>1, <1>2, OnTheWay
<1>4. /\ batch'[c].todo = batch[c].todo \ {p} /\ batch'[c].commit = batch[c].commit
      /\ batch'[c].first = batch[c].first /\ dirty'[c] = dirty[c] \ {p}
  <2>1. batch'[c] = [batch[c] EXCEPT !.todo = @ \ {p}] /\ dirty'[c] = dirty[c] \ {p}
    BY <1>1, OnTheWay
  <2> QED
    BY <1>1, <2>1, OnTheWay
<1>5. \A f \in Slots : /\ E[f] = IF f <= hdr[c].mx THEN idx[f] ELSE wal.frames[f].page
                       /\ E2[f] = IF f <= hdr[c].mx THEN idx[f] ELSE wal'.frames[f].page
  BY <1>1, OnTheWay DEF Entries, Joined
<1> HIDE DEF l, E, E2, m, n
<1>6. E2[l] = p /\ \A f \in Slots : f # l => E2[f] = E[f]
  BY <1>2, <1>3, <1>5
<1>7. /\ m \in Int /\ n \in Int /\ l \in Int /\ n <= l
      /\ \A f \in m .. l : f \in Slots /\ (f > n <=> f = l)
      /\ \A f \in m .. n : f \in Slots /\ f # l
  BY <1>2 DEF l, n
<1>8. ASSUME NEW q \in Pages, q # p, NEW v, Finds(wal.frames, db, E, m, n, q, v)
      PROVE  Finds(wal'.frames, db, E2, m, l, q, v)
  <2> DEFINE fr1 == wal.frames
             fr2 == wal'.frames
  <2>1. \A f \in m .. n : E2[f] = E[f] /\ (E[f] = q => fr2[f].val = fr1[f].val)
    BY <1>3, <1>6, <1>7
  <2>2. \A f \in m .. l : f > n => E2[f] # q
    BY <1>6, <1>7, <1>8
  <2>3. Finds(fr1, db, E, m, n, q, v)
    BY <1>8
  <2> HIDE DEF fr1, fr2
  <2>4. Finds(fr2, db, E2, m, l, q, v)
    BY <1>7, <2>1, <2>2, <2>3, FindsApart
  <2> QED
    BY <2>4 DEF fr2
<1>9. ASSUME NEW q \in Pages \ dirty'[c]
      PROVE  Finds(wal'.frames, db, E2, m, l, q, mine[c][q])
  <2>1. CASE q = p
    <3>1. l \in m .. l /\ LastIn(E2, l, p, l)
      BY <1>2, <1>6 DEF LastIn
    <3>2. Finds(wal'.frames, db, E2, m, l, p, wal'.frames[l].val)
      BY <1>7, <3>1, FindsLast
    <3> QED
      BY <1>3, <2>1, <3>2
  <2>2. CASE q # p
    BY <1>1, <1>4, <1>8, <1>9, <2>2 DEF FramesKept, E, m, n
  <2> QED
    BY <2>1, <2>2
<1>10. BatchKept(c)'
  BY <1>1, <1>4, OnTheWay DEF FramesKept, BatchKept
<1>11. ASSUME NEW f \in hdr[c].mx + 1 .. l PROVE wal'.frames[f].page \in Pages \ batch'[c].todo
  <2>1. CASE f = l
    BY <1>1, <1>3, <1>4, <2>1
  <2>2. CASE f # l
    <3>1. f \in hdr[c].mx + 1 .. last[c] /\ f \in Slots
      BY <1>2, <1>7, <2>2 DEF l, n
    <3> QED
      BY <1>1, <1>3, <1>4, <2>2, <3>1 DEF FramesKept
  <2> QED
    BY <2>1, <2>2
<1>12. ASSUME ~batch[c].commit PROVE Undoable(saved[c], hdr[c].mx, mine[c], E2, l)
  <2> SUFFICES ASSUME saved[c] # NoSaved
               PROVE  /\ saved[c].mx \in 0 .. hdr[c].mx
                      /\ \A q \in Pages \ saved[c].pages :
                           mine[c][q] = saved[c].mine[q] /\ \A f \in saved[c].mx + 1 .. l : E2[f] # q
    BY DEF Undoable
  <2>1. /\ saved[c].mx \in 0 .. hdr[c].mx
        /\ \A q \in Pages \ saved[c].pages :
             mine[c][q] = saved[c].mine[q] /\ \A f \in saved[c].mx + 1 .. n : E[f] # q
    BY <1>1, <1>12 DEF FramesKept, Undoable, E, n
  <2>2. p \in saved[c].pages
    BY <1>1, <1>12 DEF FramesKept, BatchKept
  <2>3. ASSUME NEW q \in Pages \ saved[c].pages, NEW f \in saved[c].mx + 1 .. l PROVE E2[f] # q
    <3>1. f \in Slots /\ (f = l \/ f \in saved[c].mx + 1 .. n)
      BY <1>2, <2>1 DEF l, n
    <3> QED
      BY <1>6, <2>1, <2>2, <3>1
  <2> QED
    BY <2>1, <2>3
<1>13. txn[c] \in 0 .. MaxTxn /\ \A t \in 0 .. committed : t # txn[c]
  <2>1. Owned(c) /\ Younger(c) /\ LastShown
    BY DEF Owned, Writing, Order
  <2>2. txn[c] \in Nat /\ committed \in Nat /\ committed < txn[c] /\ txn[c] <= txns /\ txns \in 0 .. MaxTxn
    BY <2>1 DEF Younger, LastShown
  <2>3. MaxTxn \in Nat
    BY Bounds
  <2> QED
    BY <2>2, <2>3
<1>14. batch'[c].commit /\ batch'[c].todo = {} => hist'[txn[c]] = mine[c]
  BY <1>1, <1>4, <1>13
<1>15. FramesKept(c)'
  <2>1. \A s, a, b, i, d : Undoable(s, a, b, i, d)' <=> Undoable(s, a, b, i, d)
    BY <1>1, OnTheWay DEF Undoable
  <2>2. hdr[c].mx <= l
    BY <1>2
  <2>3. /\ shm[1].mx <= hdr[c].mx
        /\ batch'[c].first \in {0, shm[1].mx + 1}
        /\ saved[c] # NoSaved => shm[1].mx <= saved[c].mx
    BY <1>1, <1>4 DEF FramesKept
  <2>4. \A q \in Pages \ dirty'[c] : Finds(wal'.frames, db, E2, minFrame[c], l, q, mine[c][q])
    BY <1>9 DEF m
  <2>5. NoSaved' = NoSaved
    BY <1>1, OnTheWay
  <2> QED
    BY <1>2, <1>4, <1>10, <1>11, <1>12, <1>14, <2>1, <2>2, <2>3, <2>4, <2>5 DEF FramesKept, E2
<1>16. LogUnchanged(c)
  <2>1. \A f \in 1 .. shm[1].mx : f \in Slots /\ f # l
    BY <1>2
  <2>2. \A f \in 1 .. shm[1].mx : wal'.frames[f].val = wal.frames[f].val
    BY <1>3, <2>1
  <2>3. \A t \in 0 .. committed : hist'[t] = hist[t]
    BY <1>1, <1>13
  <2> QED
    BY <2>2, <2>3 DEF LogUnchanged, Owned, Writing
<1> QED
  BY <1>15, <1>16, FrameContent

LEMMA WriteFrameContent ==
  ASSUME Inv, Order, Content, NEW c \in Conns, setting' = setting, WriteFrame(c)
  PROVE  Content'
<1> DEFINE p == Min(batch[c].todo)
           fr == Frame(Sum(wal, last[c]), p, mine[c][p],
                       IF batch[c].commit /\ batch[c].todo = {p} THEN txn[c] ELSE 0)
<1>1. Moves(c) /\ pc[c] = "frames" /\ pc' = pc
  BY WriteFrameMoves DEF WriteFrame
<1>2. p \in batch[c].todo
  <2>1. batch[c].todo # {} /\ batch[c].todo \subseteq Pages /\ Pages = 1 .. NPages
    BY <1>1, OnTheWay DEF WriteFrame
  <2>2. batch[c].todo \in SUBSET Nat
    BY <2>1
  <2> QED
    BY <2>1, <2>2, LeastIs
<1>3. CASE batch[c].first > 0 /\ FindFrame(c, p) >= batch[c].first
             /\ ~(batch[c].commit /\ batch[c].todo = {p})
  <2>1. /\ wal' = [wal EXCEPT !.frames[FindFrame(c, p)].val = mine[c][p]]
        /\ batch' = [batch EXCEPT ![c].todo = @ \ {p}] /\ dirty' = [dirty EXCEPT ![c] = @ \ {p}]
        /\ UNCHANGED << db, shared, locks, reader, mine, saved, last, txn, ckpt, hist, committed >>
    BY <1>3 DEF WriteFrame
  <2> HIDE DEF p
  <2> QED
    BY <1>1, <1>2, <1>3, <2>1, OverwriteContent
<1>4. CASE ~(/\ batch[c].first > 0 /\ FindFrame(c, p) >= batch[c].first
             /\ ~(batch[c].commit /\ batch[c].todo = {p}))
  <2>1. /\ last[c] + 1 \in Slots /\ wal' = [wal EXCEPT !.frames[last[c] + 1] = fr]
        /\ last' = [last EXCEPT ![c] = last[c] + 1]
        /\ hist' = IF batch[c].commit /\ batch[c].todo = {p} THEN [hist EXCEPT ![txn[c]] = mine[c]]
                   ELSE hist
        /\ batch' = [batch EXCEPT ![c].todo = @ \ {p}] /\ dirty' = [dirty EXCEPT ![c] = @ \ {p}]
        /\ UNCHANGED << db, shared, locks, reader, mine, saved, txn, ckpt, committed >>
    BY <1>4 DEF WriteFrame
  <2>2. fr.page = p /\ fr.val = mine[c][p]
    BY DEF Frame
  <2> HIDE DEF p, fr
  <2> QED
    BY <1>1, <1>2, <2>1, <2>2, AppendContent
<1> QED
  BY <1>3, <1>4

LEMMA IndexFramesContent ==
  ASSUME Inv, Order, Content, NEW c \in Conns, setting' = setting, IndexFrames(c)
  PROVE  Content'
<1> DEFINE E == Entries(c)
           m == minFrame[c]
           n == last[c]
<1>1. /\ Moves(c) /\ c # None /\ pc[c] = "frames" /\ DOMAIN pc = Conns /\ DOMAIN hdr = Conns
      /\ IsHdr(hdr[c]) /\ {1, 2} \subseteq DOMAIN shm /\ batch[c].todo = {} /\ setting' = setting
      /\ UNCHANGED << db, wal, nBackfill, marks, locks, tmp, readLock, mark, minFrame, cached, txn,
                      mine, dirty, saved, last, ckpt, hist, committed >>
      /\ idx' = IndexAfter(c)
  BY IndexFramesMoves, SomeConn DEF IndexFrames, Inv, Shaped
<1>2. /\ FramesKept(c) /\ Owned(c) /\ Drawn(c)
  BY <1>1, Parts DEF Owned, Drawn, Writing
<1>3. /\ hdr[c].mx \in Nat /\ n \in Nat /\ hdr[c].mx <= n /\ n <= MaxFrames
      /\ shm[1].mx \in Nat /\ shm[1].mx <= hdr[c].mx /\ m \in Nat /\ m >= 1
      /\ MaxFrames \in Nat /\ Slots = 1 .. MaxFrames /\ Slots' = Slots /\ NoSaved' = NoSaved
  BY <1>1, OnTheWay
<1>4. Entered(c, n, idx')
  <2>1. hdr[c].mx > 0 => \A f \in Slots : f > hdr[c].mx => idx[f] = 0
    BY <1>2, Parts DEF WriteKept
  <2> QED
    BY <1>1, <1>3, <2>1, IndexAfterIs DEF Content
<1>5. \A f \in Slots : E[f] = IF f <= hdr[c].mx THEN idx[f] ELSE wal.frames[f].page
  BY <1>1, OnTheWay DEF Entries, Joined
<1> HIDE DEF E
<1>6. \A f \in 1 .. n : idx'[f] = E[f]
  <2>1. \A f \in 1 .. n : f \in Slots
    BY <1>3
  <2> QED
    BY <1>3, <1>4, <1>5, <2>1 DEF Entered
<1>7. n > 0 => \A f \in Slots : f > n => idx'[f] = 0
  BY <1>4 DEF Entered
<1>8. \A f \in 1 .. shm[1].mx : idx'[f] = idx[f]
  <2>1. \A f \in 1 .. shm[1].mx : f \in Slots /\ f <= hdr[c].mx
    BY <1>3
  <2> QED
    BY <1>4, <2>1 DEF Entered
<1>9. ASSUME NEW p \in Pages \ dirty[c] PROVE Finds(wal.frames, db, idx', m, n, p, mine[c][p])
  <2> DEFINE v == mine[c][p]
  <2>1. Finds(wal.frames, db, E, m, n, p, v)
    BY <1>1, <1>2 DEF FramesKept, E
  <2>2. m \in Int /\ n \in Int /\ \A f \in m .. n : f \in 1 .. n
    BY <1>3
  <2>3. \A f \in m .. n : idx'[f] = E[f]
    BY <1>6, <2>2
  <2> HIDE DEF v, m, n
  <2>4. Finds(wal.frames, db, idx', m, n, p, v)
    BY <2>1, <2>2, <2>3, FindsSame
  <2> QED
    BY <2>4 DEF v
<1>10. /\ hdr'[c].mx = n /\ hdr'[c].salt = hdr[c].salt /\ shm'[1] = shm[1]
       /\ \/ batch[c].commit /\ pc'[c] = "publish"
          \/ ~batch[c].commit /\ pc'[c] = "write"
  <2> DEFINE h == [hdr[c] EXCEPT !.mx = n]
  <2>1. h.mx = n /\ h.salt = hdr[c].salt /\ IsHdr(h)
    BY <1>1 DEF IsHdr
  <2>2. \/ batch[c].commit /\ hdr'[c] = [h EXCEPT !.last = txn[c]] /\ pc'[c] = "publish"
        \/ ~batch[c].commit /\ hdr'[c] = h /\ pc'[c] = "write"
    BY <1>1 DEF IndexFrames
  <2>3. shm'[1] = shm[1]
    BY <1>1 DEF IndexFrames
  <2> HIDE DEF h
  <2> QED
    BY <2>1, <2>2, <2>3 DEF IsHdr
<1>11. Owned(c)' /\ Drawn(c)'
  BY <1>10 DEF Owned, Drawn, Writing
<1>12. Hidden(c)
  BY <1>1, <1>2, <1>8, <1>10, <1>11 DEF Hidden, LogUnchanged, LocksUnchanged, Lock, SaltsKnown
<1>13. LocksKept(c)'
  BY <1>1, <1>10, Parts, NoMarkHeld DEF LocksKept, Zeroed, Marked, Resetting, Checkpointing
<1>14. HeadersKept(c)'
  BY <1>1, <1>2, <1>10, <1>11, <1>12, Parts, HeadersDrawn DEF HeadersKept
<1>15. MarksKept(c)' /\ \A d \in Conns \ {c} : MarksHeeded(c, d)'
  BY <1>1, <1>10, <1>12, MarkStays
<1>16. ReaderSees(c)' /\ RestartKept(c)'
  BY <1>10 DEF ReaderSees, RestartKept, Marking
<1>17. readLock[c] # 0
  BY <1>1, OnTheWay
<1>18. CASE batch[c].commit /\ pc'[c] = "publish"
  <2>1. WriteKept(c)'
    BY <1>1, <1>3, <1>7, <1>10, <1>11, <1>18 DEF WriteKept
  <2>2. hist[txn[c]] = mine[c] /\ dirty[c] = {}
    BY <1>1, <1>2, <1>18 DEF FramesKept, BatchKept
  <2>3. shm[1].mx <= n
    BY <1>3
  <2>4. FramesKept(c)'
    BY <1>1, <1>9, <1>10, <1>18, <2>2, <2>3 DEF FramesKept
  <2> QED
    BY <1>1, <1>12, <1>13, <1>14, <1>15, <1>16, <1>18, <2>1, <2>4, WriterContent DEF CkptSteps
<1>19. CASE ~batch[c].commit /\ pc'[c] = "write"
  <2>1. FramesKept(c)'
    BY <1>19 DEF FramesKept
  <2>2. Undoable(saved[c], n, mine[c], idx', n)
    <3> SUFFICES ASSUME saved[c] # NoSaved
                 PROVE  /\ saved[c].mx \in 0 .. n
                        /\ \A q \in Pages \ saved[c].pages :
                             mine[c][q] = saved[c].mine[q] /\ \A f \in saved[c].mx + 1 .. n : idx'[f] # q
      BY DEF Undoable
    <3>1. /\ saved[c].mx \in 0 .. hdr[c].mx
          /\ \A q \in Pages \ saved[c].pages :
               mine[c][q] = saved[c].mine[q] /\ \A f \in saved[c].mx + 1 .. n : E[f] # q
      BY <1>1, <1>2, <1>19 DEF FramesKept, Undoable, E
    <3>2. saved[c].mx \in 0 .. n /\ \A f \in saved[c].mx + 1 .. n : f \in 1 .. n
      BY <1>3, <3>1
    <3> QED
      BY <1>6, <3>1, <3>2
  <2>3. Undoable(saved[c], hdr[c].mx, mine[c], idx, hdr[c].mx)'
    BY <1>1, <1>3, <1>10, <2>2 DEF Undoable
  <2>4. \A p \in Pages \ dirty[c] : Sees(c, p, mine[c][p])'
    BY <1>1, <1>9, <1>10, <1>17 DEF Sees
  <2>5. shm[1].mx <= n /\ (saved[c] # NoSaved => shm[1].mx <= saved[c].mx)
    BY <1>1, <1>2, <1>3 DEF FramesKept
  <2>6. WriteKept(c)'
    BY <1>1, <1>3, <1>7, <1>10, <1>11, <1>17, <1>19, <2>3, <2>4, <2>5 DEF WriteKept
  <2> QED
    BY <1>1, <1>12, <1>13, <1>14, <1>15, <1>16, <1>19, <2>1, <2>6, WriterContent DEF CkptSteps
<1> QED
  BY <1>10, <1>18, <1>19
-----------------------------------------------------------------------------
(* The steps of a checkpoint. *)

LEMMA CkptIs ==
  ASSUME Inv, Content, NEW c \in Conns, setting' = setting, pc[c] \in CkptSteps
  PROVE  /\ c # None /\ readLock[c] = -1 /\ -1 \notin Marks /\ 0 \notin Marks /\ Marks' = Marks
         /\ ~Owned(c) /\ Checkpointing(c) /\ ckpter = c
         /\ DOMAIN pc = Conns /\ DOMAIN ckpt = Conns
         /\ {"mode", "changed", "safe", "k", "plan"} \subseteq DOMAIN ckpt[c]
         /\ DOMAIN ckpt[c].plan = Pages
         /\ hdr[c].mx \in Nat /\ shm[1].mx \in Nat /\ nBackfill \in Nat
         /\ ckpt[c].safe \in Nat /\ ckpt[c].k \in Nat
<1>1. /\ c # None /\ -1 \notin Marks /\ 0 \notin Marks /\ Marks' = Marks
      /\ readLock[c] \in {-1, 0} \cup Marks
  BY SomeConn, NoMarkHeld, Numbers DEF Content
<1>2. readLock[c] = -1 /\ Checkpointing(c) /\ ckpter = c
  BY Parts DEF Inv, Kept, LockHeld, LocksKept, CkptSteps, Zeroed, Marked
<1>3. ~Owned(c)
  BY DEF CkptSteps, Owned, Writing, Marking
<1>4. /\ DOMAIN pc = Conns /\ DOMAIN ckpt = Conns
      /\ {"mode", "changed", "safe", "k", "plan"} \subseteq DOMAIN ckpt[c]
      /\ DOMAIN ckpt[c].plan = Pages
  BY DEF Inv, Shaped, Content, Sized, SizedCkpt
<1> QED
  BY <1>1, <1>2, <1>3, <1>4, Numbers, CkptNumbers DEF Content

(* Most of what such a step keeps.                                         *)
LEMMA CkptContent ==
  ASSUME Inv, Order, Content, NEW c \in Conns, Moves(c), pc[c] \in CkptSteps,
         pc'[c] \in CkptSteps \ {"ctrunc", "ctruncinfo"}, pc[c] \notin {"ctrunc", "ctruncinfo"},
         UNCHANGED << db, wal, idx, shm, nBackfill, hist, committed, hdr, tmp, readLock, mark,
                      minFrame, saved, marksExcl, ckpter >>,
         Lock(zeroExcl, zeroExcl', c),
         zeroExcl' = c => zeroExcl = c \/ Readers(0) = {},
         zeroExcl' = c <=> pc'[c] \in {"csalt", "ccopy"},
         \A d \in Conns : readLock[d] \in Marks => marks'[readLock[d]] = marks[readLock[d]],
         CkptKept(c)', \A d \in Conns \ {c} : MarksHeeded(d, c)'
  PROVE  Content'
<1>1. /\ c # None /\ readLock[c] = -1 /\ -1 \notin Marks /\ 0 \notin Marks /\ Marks' = Marks
      /\ ~Owned(c) /\ ckpter = c /\ setting' = setting
  BY CkptIs DEF Moves, Steps
<1>2. ~Owned(c)' /\ ~Drawn(c) /\ ~Drawn(c)'
  BY <1>1 DEF Owned, Drawn, CkptSteps, Writing, Marking
<1>3. Hidden(c)
  BY <1>1, <1>2 DEF Hidden, LogUnchanged, LocksUnchanged, Lock, SaltsKnown, Readers, CkptSteps
<1>4. LocksKept(c)'
  BY <1>1, Parts DEF LocksKept, Zeroed, Marked, Resetting, CkptSteps
<1>5. HeadersKept(c)'
  BY <1>2, <1>3, HeadersStay
<1>6. MarksKept(c)' /\ ReaderSees(c)'
  BY <1>1 DEF MarksKept, ReaderSees, CkptSteps
<1>7. \A d \in Conns \ {c} : MarksHeeded(c, d)'
  BY <1>1, <1>3, StillHeeded
<1> QED
  BY <1>1, <1>2, <1>3, <1>4, <1>5, <1>6, <1>7, AsideContent

LEMMA CkptBeginContent ==
  ASSUME Inv, Order, Content, NEW c \in Conns, setting' = setting, CkptBegin(c)
  PROVE  Content'
<1>1. /\ Moves(c) /\ c # None /\ DOMAIN pc = Conns /\ pc[c] = "idle" /\ pc'[c] = "chdr"
      /\ ckpter = None /\ ckpter' = c
      /\ UNCHANGED << files, shared, zeroExcl, marksExcl, reader, writing, hist, committed >>
  BY CkptBeginMoves, SomeConn DEF Inv, Shaped, CkptBegin
<1>2. ~Owned(c) /\ ~Owned(c)' /\ ~Drawn(c) /\ ~Drawn(c)'
  BY <1>1 DEF Owned, Drawn, Writing, Marking
<1>3. Hidden(c)
  BY <1>1, <1>2 DEF Hidden, LogUnchanged, LocksUnchanged, Lock, SaltsKnown
<1>4. readLock[c] = -1 /\ -1 \notin Marks /\ 0 \notin Marks /\ Marks' = Marks
  BY <1>1, Parts, NoMarkHeld DEF LocksKept, Zeroed, Marked
<1>5. LocksKept(c)'
  BY <1>1, <1>4, Parts DEF LocksKept, Zeroed, Marked, Resetting
<1>6. HeadersKept(c)'
  BY <1>1, <1>2, <1>3, HeadersStay
<1>7. MarksKept(c)' /\ ReaderSees(c)' /\ CkptKept(c)'
  BY <1>1, <1>4 DEF MarksKept, ReaderSees, CkptKept
<1>8. \A d \in Conns \ {c} : MarksHeeded(d, c)' /\ MarksHeeded(c, d)'
  BY <1>1, <1>3, <1>4, NobodyHeeds, StillHeeded
<1> QED
  BY <1>1, <1>2, <1>3, <1>5, <1>6, <1>7, <1>8, AsideContent

LEMMA CkptStartContent ==
  ASSUME Inv, Order, Content, NEW c \in Conns, setting' = setting, CkptStart(c)
  PROVE  Content'
<1>1. /\ Moves(c) /\ pc[c] = "ckpt"
      /\ UNCHANGED << files, shared, locks, reader, writing, ghosts >>
  BY CkptStartMoves DEF CkptStart
<1>2. /\ DOMAIN pc = Conns /\ DOMAIN ckpt = Conns /\ Marks' = Marks
      /\ {"mode", "changed", "safe", "k", "plan"} \subseteq DOMAIN ckpt[c]
  BY <1>1, CkptIs DEF CkptSteps
<1>3. \/ pc'[c] = "cmark" /\ ckpt'[c] = [ckpt[c] EXCEPT !.k = 1]
      \/ pc'[c] = "cdone" /\ ckpt'[c] = ckpt[c]
  BY <1>2 DEF CkptStart
<1>4. /\ ckpt'[c].mode = ckpt[c].mode /\ ckpt'[c].safe = ckpt[c].safe
      /\ pc'[c] \in {"cmark", "cdone"} /\ (pc'[c] = "cmark" => ckpt'[c].k = 1)
  BY <1>2, <1>3
<1>5. CkptKept(c)'
  BY <1>1, <1>4, Parts DEF CkptKept
<1>6. ASSUME NEW d \in Conns \ {c} PROVE MarksHeeded(d, c)'
  <2>1. readLock'[d] \in Marks => 1 <= readLock'[d]
    BY Bounds
  <2> QED
    BY <1>2, <1>4, <2>1 DEF MarksHeeded
<1>7. zeroExcl # c /\ zeroExcl' = zeroExcl
  BY <1>1, Parts DEF LocksKept
<1> QED
  BY <1>1, <1>4, <1>5, <1>6, <1>7, CkptContent DEF Lock, CkptSteps

LEMMA CkptMarkContent ==
  ASSUME Inv, Order, Content, NEW c \in Conns, setting' = setting, CkptMark(c)
  PROVE  Content'
<1> DEFINE k == ckpt[c].k
           s == ckpt[c].safe
<1>1. /\ Moves(c) /\ pc[c] = "cmark" /\ pc' = pc /\ k \in Marks
      /\ UNCHANGED << files, idx, shm, nBackfill, locks, reader, writing, ghosts >>
  BY CkptMarkMoves DEF CkptMark
<1>2. /\ DOMAIN ckpt = Conns /\ Marks' = Marks /\ k \in Nat /\ s \in Nat /\ hdr[c].mx \in Nat
      /\ {"mode", "changed", "safe", "k", "plan"} \subseteq DOMAIN ckpt[c]
  BY <1>1, CkptIs DEF CkptSteps
<1>3. DOMAIN marks = Marks /\ \A i \in Marks : marks[i] \in Nat
  BY DEF Content, Sized, SizedShared
<1>4. /\ ckpt'[c].mode = ckpt[c].mode /\ ckpt'[c].k = k + 1
      /\ \/ ckpt'[c].safe = s /\ FreeMark(k) /\ \A i \in Marks \ {k} : marks'[i] = marks[i]
         \/ ckpt'[c].safe = (IF marks[k] < s THEN marks[k] ELSE s) /\ marks' = marks
  BY <1>1, <1>2, <1>3 DEF CkptMark
<1>5. \A d \in Conns : readLock[d] \in Marks => marks'[readLock[d]] = marks[readLock[d]]
  BY <1>4 DEF FreeMark, Readers
<1>6. ckpt'[c].safe <= s /\ ckpt'[c].safe \in Nat
  BY <1>1, <1>2, <1>3, <1>4
<1>7. CkptKept(c)'
  <2>1. s <= hdr[c].mx /\ (ckpt[c].mode # "passive" => hdr[c] = shm[1])
    BY <1>1, Parts DEF CkptKept
  <2>2. ckpt'[c].safe <= hdr[c].mx /\ k + 1 >= 1
    BY <1>2, <1>6, <2>1
  <2> QED
    BY <1>1, <1>4, <2>1, <2>2 DEF CkptKept
<1>8. ASSUME NEW d \in Conns \ {c} PROVE MarksHeeded(d, c)'
  <2> DEFINE L == IF pc[d] = "read" THEN hdr[d].mx ELSE shm[1].mx
  <2> SUFFICES ASSUME readLock[d] \in Marks, pc[d] # "verify", SameLog(c)
               PROVE  ckpt'[c].safe <= L \/ k + 1 <= readLock[d]
    BY <1>1, <1>2, <1>4 DEF MarksHeeded, SameLog
  <2>1. L \in Nat /\ readLock[d] \in Nat /\ marks[readLock[d]] \in Nat
    BY <1>3, Numbers, Bounds DEF Content
  <2>2. s <= L \/ k <= readLock[d]
    BY <1>1 DEF Content, MarksHeeded
  <2>3. marks[readLock[d]] <= L
    BY Parts DEF MarksKept
  <2> HIDE DEF L
  <2>4. CASE s <= L
    BY <1>2, <1>6, <2>1, <2>4
  <2>5. CASE k < readLock[d]
    BY <1>2, <2>1, <2>5
  <2>6. CASE k = readLock[d]
    <3>1. ~FreeMark(k)
      BY <2>6 DEF FreeMark, Readers
    <3>2. ckpt'[c].safe <= marks[k]
      BY <1>1, <1>2, <1>3, <1>4, <3>1
    <3> QED
      BY <1>6, <2>1, <2>3, <2>6, <3>2
  <2> QED
    BY <1>2, <2>1, <2>2, <2>4, <2>5, <2>6
<1>9. zeroExcl # c
  BY <1>1, Parts DEF LocksKept
<1> QED
  BY <1>1, <1>5, <1>7, <1>8, <1>9, CkptContent DEF Lock, CkptSteps

LEMMA CkptPlanContent ==
  ASSUME Inv, Order, Content, NEW c \in Conns, setting' = setting, CkptPlan(c)
  PROVE  Content'
<1>1. /\ Moves(c) /\ pc[c] = "cmark" /\ ckpt[c].k \notin Marks
      /\ UNCHANGED << files, shared, locks, reader, writing, ghosts >>
  BY CkptPlanMoves DEF CkptPlan
<1>2. /\ DOMAIN ckpt = Conns /\ DOMAIN pc = Conns /\ Marks' = Marks /\ ckpt[c].k \in Nat
      /\ ckpt[c].safe \in Nat /\ hdr[c].mx \in Nat /\ nBackfill \in Nat
      /\ {"mode", "changed", "safe", "k", "plan"} \subseteq DOMAIN ckpt[c]
  BY <1>1, CkptIs DEF CkptSteps
<1> DEFINE G(p) == {f \in nBackfill + 1 .. hdr[c].mx : idx[f] = p}
<1>3. \/ /\ pc'[c] = "czero" /\ nBackfill < ckpt[c].safe
         /\ ckpt'[c] = [ckpt[c] EXCEPT !.plan = [p \in Pages |-> LastOf(G(p))]]
      \/ pc'[c] = "cdone" /\ ckpt'[c] = ckpt[c]
  BY <1>2 DEF CkptPlan
<1>4. /\ ckpt'[c].mode = ckpt[c].mode /\ ckpt'[c].safe = ckpt[c].safe
      /\ pc'[c] \in {"czero", "cdone"}
      /\ pc'[c] = "czero" => /\ nBackfill < ckpt[c].safe
                             /\ \A p \in Pages : ckpt'[c].plan[p] = LastOf(G(p))
  <2> HIDE DEF G
  <2> QED
    BY <1>2, <1>3
<1>5. ASSUME NEW p \in Pages
      PROVE  /\ LastOf(G(p)) # 0 => /\ LastOf(G(p)) \in nBackfill + 1 .. hdr[c].mx
                                    /\ idx[LastOf(G(p))] = p
             /\ \A f \in nBackfill + 1 .. hdr[c].mx : idx[f] = p => f <= LastOf(G(p))
  <2>1. G(p) \in SUBSET (0 .. hdr[c].mx)
    BY <1>2
  <2>2. /\ LastOf(G(p)) = 0 \/ LastOf(G(p)) \in G(p)
        /\ \A f \in G(p) : f <= LastOf(G(p))
    BY <1>2, <2>1, LastOfIs
  <2> QED
    BY <2>2
<1> HIDE DEF G
<1>6. /\ ckpt[c].safe <= hdr[c].mx /\ (ckpt[c].mode # "passive" => hdr[c] = shm[1])
      /\ ckpt[c].k >= 1
  BY <1>1, Parts DEF CkptKept
<1>7. CkptKept(c)'
  BY <1>1, <1>4, <1>5, <1>6 DEF CkptKept
<1>8. ASSUME NEW d \in Conns \ {c} PROVE MarksHeeded(d, c)'
  <2>1. readLock[d] \in Marks => ~(ckpt[c].k <= readLock[d])
    BY <1>1, <1>2, <1>6, Bounds
  <2>2. MarksHeeded(d, c) /\ Same(d)
    BY <1>1, Others DEF Content
  <2> QED
    BY <1>1, <1>2, <1>4, <2>1, <2>2 DEF MarksHeeded, SameLog, Same
<1>9. zeroExcl # c
  BY <1>1, Parts DEF LocksKept
<1> QED
  BY <1>1, <1>4, <1>7, <1>8, <1>9, CkptContent DEF Lock, CkptSteps

LEMMA CkptLockContent ==
  ASSUME Inv, Order, Content, NEW c \in Conns, setting' = setting, CkptLock(c)
  PROVE  Content'
<1>1. /\ Moves(c) /\ pc[c] = "czero" /\ DOMAIN pc = Conns
      /\ UNCHANGED << files, shared, writer, ckpter, marksExcl, reader, writing, ckpt, ghosts >>
  BY CkptLockMoves DEF CkptLock, Inv, Shaped
<1>2. zeroExcl # c /\ c # None
  BY <1>1, Parts, SomeConn DEF LocksKept
<1>3. \/ Readers(0) = {} /\ zeroExcl = None /\ zeroExcl' = c /\ pc'[c] = "csalt"
      \/ zeroExcl' = zeroExcl /\ pc'[c] = "cdone"
  BY <1>1 DEF CkptLock
<1>4. CkptKept(c)'
  BY <1>1, <1>3, Parts DEF CkptKept, SameLog
<1>5. ASSUME NEW d \in Conns \ {c} PROVE MarksHeeded(d, c)'
  <2>1. MarksHeeded(d, c) /\ Same(d)
    BY <1>1, Others DEF Content
  <2>2. Marks' = Marks
    BY NoMarkHeld
  <2> QED
    BY <1>1, <1>3, <2>1, <2>2 DEF MarksHeeded, SameLog, Same
<1> QED
  BY <1>1, <1>2, <1>3, <1>4, <1>5, CkptContent DEF Lock, CkptSteps

LEMMA CkptInterruptContent ==
  ASSUME Inv, Order, Content, NEW c \in Conns, setting' = setting, CkptInterrupt(c)
  PROVE  Content'
<1>1. /\ Moves(c) /\ pc[c] = "ccopy" /\ pc'[c] = "cend" /\ zeroExcl' = None
      /\ UNCHANGED << files, shared, writer, ckpter, marksExcl, reader, writing, ckpt, ghosts >>
  BY CkptInterruptMoves DEF CkptInterrupt, Inv, Shaped
<1>2. zeroExcl = c /\ c # None
  BY <1>1, Parts, SomeConn DEF LocksKept
<1>3. CkptKept(c)' /\ \A d \in Conns \ {c} : MarksHeeded(d, c)'
  BY <1>1 DEF CkptKept, MarksHeeded
<1> QED
  BY <1>1, <1>2, <1>3, CkptContent DEF Lock, CkptSteps

LEMMA CkptSyncContent ==
  ASSUME Inv, Order, Content, NEW c \in Conns, setting' = setting, CkptSync(c)
  PROVE  Content'
<1> DEFINE k == ckpt[c]
           n == hdr[c].mx
<1>1. /\ Moves(c) /\ pc[c] = "csalt"
      /\ UNCHANGED << db, wal, shared, writer, ckpter, marksExcl, reader, writing, hist, committed >>
  BY CkptSyncMoves DEF CkptSync
<1>2. /\ DOMAIN ckpt = Conns /\ DOMAIN pc = Conns /\ Marks' = Marks
      /\ k.safe \in Nat /\ n \in Nat /\ nBackfill \in Nat
      /\ {"mode", "changed", "safe", "k", "plan"} \subseteq DOMAIN k /\ DOMAIN k.plan = Pages
  BY <1>1, CkptIs DEF CkptSteps
<1>3. zeroExcl = c /\ c # None
  BY <1>1, Parts, SomeConn DEF LocksKept
<1>4. CASE SameLog(c)
  <2>1. /\ pc'[c] = "ccopy" /\ zeroExcl' = zeroExcl
        /\ ckpt'[c] = [k EXCEPT !.plan = [p \in Pages |->
                         IF k.plan[p] \in nBackfill + 1 .. k.safe THEN k.plan[p] ELSE 0]]
    BY <1>2, <1>4 DEF CkptSync
  <2>2. /\ ckpt'[c].mode = k.mode /\ ckpt'[c].safe = k.safe
        /\ \A p \in Pages :
             ckpt'[c].plan[p] = IF k.plan[p] \in nBackfill + 1 .. k.safe THEN k.plan[p] ELSE 0
    BY <1>2, <2>1
  <2>3. /\ nBackfill < k.safe /\ k.safe <= n /\ (k.mode # "passive" => hdr[c] = shm[1])
        /\ \A p \in Pages :
             /\ k.plan[p] # 0 => k.plan[p] \in nBackfill + 1 .. n /\ idx[k.plan[p]] = p
             /\ \A f \in nBackfill + 1 .. n : idx[f] = p => f <= k.plan[p]
    BY <1>1, <1>4, Parts DEF CkptKept
  <2>4. ASSUME NEW p \in Pages
        PROVE  /\ ckpt'[c].plan[p] # 0 => /\ ckpt'[c].plan[p] \in nBackfill + 1 .. k.safe
                                          /\ LastIn(idx, n, p, ckpt'[c].plan[p])
               /\ ckpt'[c].plan[p] = 0 =>
                    \A f \in nBackfill + 1 .. k.safe : ~LastIn(idx, n, p, f)
    <3> DEFINE q == k.plan[p]
    <3>1. q \in Nat
      BY <1>2, CkptNumbers DEF Content
    <3>2. /\ q # 0 => q \in nBackfill + 1 .. n /\ idx[q] = p
          /\ \A f \in nBackfill + 1 .. n : idx[f] = p => f <= q
      BY <2>3
    <3>3. ckpt'[c].plan[p] = IF q \in nBackfill + 1 .. k.safe THEN q ELSE 0
      BY <2>2
    <3> HIDE DEF q
    <3>4. ASSUME q # 0 PROVE LastIn(idx, n, p, q)
      <4>1. ASSUME NEW f \in q + 1 .. n PROVE idx[f] # p
        <5>1. f \in nBackfill + 1 .. n /\ ~(f <= q)
          BY <1>2, <3>1, <3>2, <3>4
        <5> QED
          BY <3>2, <5>1
      <4> QED
        BY <3>2, <3>4, <4>1 DEF LastIn
    <3>5. ASSUME NEW f \in nBackfill + 1 .. k.safe, LastIn(idx, n, p, f)
          PROVE  q = f
      <4>1. f \in nBackfill + 1 .. n /\ idx[f] = p
        BY <1>2, <2>3, <3>5 DEF LastIn
      <4>2. f <= q /\ f >= 1
        BY <1>2, <3>2, <4>1
      <4>3. q # 0 /\ ~(f < q)
        <5>1. q # 0
          BY <1>2, <3>1, <4>1, <4>2
        <5>2. f < q => q \in f + 1 .. n
          BY <1>2, <3>1, <3>2, <4>1, <5>1
        <5> QED
          BY <3>2, <3>5, <5>1, <5>2 DEF LastIn
      <4> QED
        BY <1>2, <3>1, <4>1, <4>2, <4>3
    <3>6. nBackfill + 1 .. k.safe \subseteq Nat \ {0}
      BY <1>2
    <3> QED
      BY <3>3, <3>4, <3>5, <3>6
  <2>5. CkptKept(c)'
    <3>1. SameLog(c)'
      BY <1>1, <1>4 DEF SameLog
    <3> QED
      BY <1>1, <2>1, <2>2, <2>3, <2>4, <3>1 DEF CkptKept
  <2>6. ASSUME NEW d \in Conns \ {c} PROVE MarksHeeded(d, c)'
    <3>1. MarksHeeded(d, c) /\ Same(d)
      BY <1>1, Others DEF Content
    <3> QED
      BY <1>1, <1>2, <2>1, <2>2, <3>1 DEF MarksHeeded, SameLog, Same
  <2> QED
    BY <1>1, <1>3, <2>1, <2>5, <2>6, CkptContent DEF Lock, CkptSteps
<1>5. CASE ~SameLog(c)
  <2>1. pc'[c] = "cdone" /\ zeroExcl' = None /\ ckpt' = ckpt
    BY <1>2, <1>5 DEF CkptSync
  <2>2. CkptKept(c)'
    BY <1>1, <2>1, Parts DEF CkptKept
  <2>3. \A d \in Conns \ {c} : MarksHeeded(d, c)'
    BY <2>1 DEF MarksHeeded
  <2> QED
    BY <1>1, <1>3, <2>1, <2>2, <2>3, CkptContent DEF Lock, CkptSteps
<1> QED
  BY <1>4, <1>5

LEMMA CkptResetContent ==
  ASSUME Inv, Order, Content, NEW c \in Conns, setting' = setting, CkptReset(c)
  PROVE  Content'
<1>1. /\ Moves(c) /\ pc[c] = "cdone" /\ DOMAIN hdr = Conns /\ IsHdr(hdr[c]) /\ {1, 2} \subseteq DOMAIN shm
      /\ UNCHANGED << files, idx, nBackfill, marks, writer, ckpter, zeroExcl, tmp, readLock, mark,
                      minFrame, mine, dirty, saved, batch, last, ckpt, ghosts >>
  BY CkptResetMoves DEF CkptReset, Inv, Shaped
<1>2. /\ c # None /\ DOMAIN pc = Conns /\ Marks' = Marks /\ readLock[c] = -1 /\ -1 \notin Marks
      /\ hdr[c].mx \in Nat /\ nBackfill \in Nat /\ ~Owned(c) /\ ckpter = c
      /\ Checkpointing(c)
  BY <1>1, CkptIs DEF CkptSteps
<1>3. zeroExcl # c
  BY <1>1, Parts DEF LocksKept
<1>4. CASE ckpt[c].mode = "truncate" /\ nBackfill >= hdr[c].mx /\ MarksFree(c)
  <2>1. /\ marksExcl' = c /\ hdr'[c] = Restarted(hdr[c], FreshSalt) /\ shm'[1] = shm[1]
        /\ pc'[c] = "ctrunc"
    BY <1>1, <1>2, <1>4 DEF CkptReset
  <2>2. hdr'[c].mx = 0 /\ hdr'[c].salt = FreshSalt
    BY <1>1, <2>1 DEF Restarted, IsHdr
  <2>3. FreshSalt \notin UsedSalts \cup {0} /\ FreshSalt # shm[1].salt
    BY FreshIs, SaltsUsed
  <2>4. ~Owned(c)' /\ Drawn(c)'
    BY <2>1 DEF Owned, Drawn, Writing, Marking
  <2>5. Hidden(c)
    <3>1. Lock(marksExcl, marksExcl', c) /\ \A d \in Conns \ {c} : readLock[d] \notin Marks
      BY <1>4, <2>1 DEF MarksFree, Readers, Lock
    <3> QED
      BY <1>1, <1>2, <2>1, <2>2, <2>3, <2>4, <3>1
         DEF Hidden, LogUnchanged, LocksUnchanged, Lock, SaltsKnown
  <2>6. LocksKept(c)'
    BY <1>1, <1>2, <1>3, <2>1, Parts DEF LocksKept, Zeroed, Marked, Resetting
  <2>7. HeadersKept(c)'
    BY <1>1, <2>1, <2>2, <2>3, <2>4, <2>5, HeadersDrawn
  <2>8. MarksKept(c)' /\ ReaderSees(c)'
    BY <1>1, <1>2, <2>1 DEF MarksKept, ReaderSees
  <2>9. nBackfill = shm[1].mx
    <3>1. hdr[c] = shm[1]
      BY <1>1, <1>4, Parts DEF CkptKept
    <3>2. LockHeld(c) /\ \A d \in Conns : LockHeld(d)
      BY DEF Inv, Kept
    <3>3. writer = c
      BY <1>4, <3>2 DEF LockHeld
    <3>4. \A d \in Conns : pc[d] \notin {"restartinfo", "ctruncinfo"}
      BY <1>1, <3>2, <3>3 DEF LockHeld, Writing
    <3>5. nBackfill <= shm[1].mx
      BY <3>4 DEF Content, Latest
    <3> QED
      BY <1>2, <1>4, <3>1, <3>5
  <2>10. CkptKept(c)'
    BY <1>1, <2>1, <2>2, <2>3, <2>9 DEF CkptKept
  <2>11. \A d \in Conns \ {c} : MarksHeeded(d, c)' /\ MarksHeeded(c, d)'
    BY <1>1, <1>2, <2>1, <2>5, NobodyHeeds, StillHeeded
  <2> QED
    BY <1>1, <1>2, <2>4, <2>5, <2>6, <2>7, <2>8, <2>10, <2>11, AsideContent
<1>5. CASE ~(ckpt[c].mode = "truncate" /\ nBackfill >= hdr[c].mx /\ MarksFree(c))
  <2>1. pc'[c] = "cend" /\ UNCHANGED << marksExcl, hdr, shm >>
    BY <1>2, <1>5 DEF CkptReset
  <2>2. CkptKept(c)' /\ \A d \in Conns \ {c} : MarksHeeded(d, c)'
    BY <2>1 DEF CkptKept, MarksHeeded
  <2> QED
    BY <1>1, <1>3, <2>1, <2>2, CkptContent DEF Lock, CkptSteps
<1> QED
  BY <1>4, <1>5

LEMMA CkptEndContent ==
  ASSUME Inv, Order, Content, NEW c \in Conns, setting' = setting, CkptEnd(c)
  PROVE  Content'
<1>1. /\ Moves(c) /\ pc[c] = "cend" /\ DOMAIN hdr = Conns /\ ckpter' = None
      /\ ckpt' = [ckpt EXCEPT ![c] = NoCkpt] /\ Go(c, "idle") /\ ForgetHeader(c)
      /\ UNCHANGED << files, shared, zeroExcl, marksExcl, tmp, readLock, mark, minFrame, writing,
                      ghosts >>
  BY CkptEndMoves DEF CkptEnd, Inv, Shaped
<1>2. /\ c # None /\ DOMAIN pc = Conns /\ DOMAIN ckpt = Conns /\ Marks' = Marks /\ readLock[c] = -1
      /\ -1 \notin Marks /\ ~Owned(c) /\ ckpter = c
  BY <1>1, CkptIs DEF CkptSteps
<1>3. pc'[c] = "idle" /\ ~Checkpointing(c)' /\ hdr'[c] \in {hdr[c], NoHdr}
  BY <1>1, <1>2 DEF Checkpointing, NoCkpt, ForgetHeader
<1>4. ~Owned(c)' /\ ~Drawn(c) /\ ~Drawn(c)'
  BY <1>1, <1>2, <1>3 DEF Owned, Drawn, Writing, Marking
<1>5. Hidden(c)
  BY <1>1, <1>2, <1>3, <1>4 DEF Hidden, LogUnchanged, LocksUnchanged, Lock, SaltsKnown, NoHdr
<1>6. LocksKept(c)'
  BY <1>1, <1>2, <1>3, Parts DEF LocksKept, Zeroed, Marked, Resetting
<1>7. HeadersKept(c)'
  BY <1>1, <1>3, <1>4, <1>5, HeadersStay
<1>8. MarksKept(c)' /\ ReaderSees(c)' /\ CkptKept(c)'
  BY <1>1, <1>2, <1>3 DEF MarksKept, ReaderSees, CkptKept
<1>9. \A d \in Conns \ {c} : MarksHeeded(d, c)' /\ MarksHeeded(c, d)'
  BY <1>1, <1>2, <1>3, <1>5, NobodyHeeds, StillHeeded
<1> QED
  BY <1>1, <1>2, <1>4, <1>5, <1>6, <1>7, <1>8, <1>9, AsideContent
-----------------------------------------------------------------------------
(* Steps that change what others see. *)

LEMMA NoHdrIs == NoHdr.mx = 0 /\ NoHdr.salt = 0 /\ NoHdr.last = -1
BY DEF NoHdr

(* A checkpoint that keeps writers out is alone with the lock.             *)
LEMMA OwnerAlone ==
  ASSUME Inv, NEW c \in Conns, writer = c, NEW d \in Conns \ {c}
  PROVE  /\ ~Owned(d) /\ ~Drawn(d) /\ pc[d] \notin Resetting
         /\ ckpt[d].mode \in {"none", "passive"}
         /\ pc[d] \in CkptSteps => ckpt[d].mode = "passive"
<1>1. LockHeld(d) /\ writer # d
  BY SomeConn DEF Inv, Kept
<1>2. ckpt[d].mode \in {"none", "passive"} /\ pc[d] \notin Writing \cup {"publish", "ctrunc", "ctruncinfo"}
  BY <1>1 DEF LockHeld
<1> QED
  BY <1>1, <1>2 DEF LockHeld, Owned, Drawn, Resetting, Writing, Marking, Checkpointing

LEMMA PublishIs ==
  ASSUME Inv, Order, Content, NEW c \in Conns, setting' = setting, Publish(c)
  PROVE  /\ Moves(c) /\ c # None /\ writer = c /\ Owned(c) /\ ~Owned(c)' /\ ~Drawn(c)'
         /\ pc[c] = "publish" /\ pc'[c] = "read" /\ saved'[c] = NoSaved
         /\ shm'[1] = hdr[c] /\ committed' = txn[c] /\ shm[1] # NoHdr /\ hdr[c] # NoHdr
         /\ hdr[c].last = txn[c] /\ committed \in Nat /\ txn[c] \in Nat /\ committed < txn[c]
         /\ shm[1].mx <= hdr[c].mx /\ nBackfill <= shm[1].mx /\ hist[txn[c]] = mine[c]
         /\ hdr[c].salt # shm[1].salt => shm[1].mx = 0
         /\ readLock[c] \in Marks
         /\ UNCHANGED << files, idx, nBackfill, marks, ckpter, zeroExcl, marksExcl, hdr, tmp,
                         readLock, mark, minFrame, ckpt, hist >>
<1>1. /\ Moves(c) /\ c # None /\ pc[c] = "publish" /\ DOMAIN pc = Conns /\ DOMAIN saved = Conns
      /\ {1, 2} \subseteq DOMAIN shm
  BY PublishMoves, SomeConn DEF Publish, Inv, Shaped, Content, Sized, Filled
<1>2. Owned(c) /\ Drawn(c)
  BY <1>1 DEF Owned, Drawn
<1>3. /\ pc'[c] = "read" /\ saved'[c] = NoSaved /\ writer' = None
      /\ shm'[1] = hdr[c] /\ committed' = txn[c]
      /\ UNCHANGED << files, idx, nBackfill, marks, ckpter, zeroExcl, marksExcl, hdr, tmp,
                      readLock, mark, minFrame, ckpt, hist >>
  BY <1>1 DEF Publish, EndTransaction
<1>4. ~Owned(c)' /\ ~Drawn(c)'
  BY <1>1, <1>3 DEF Owned, Drawn, Writing, Marking
<1>5. writer = c /\ nBackfill <= shm[1].mx
  BY <1>1, <1>2, OwnerIs, BackfillBelow
<1>6. hdr[c].last = txn[c]
  BY <1>1 DEF Inv, Kept, HeaderShared
<1>7. committed \in Nat /\ txn[c] \in Nat /\ committed < txn[c] /\ shm[1] # NoHdr
  BY <1>1, <1>2 DEF Order, LastShown, Younger, NothingYet
<1>8. hdr[c] # NoHdr
  BY <1>6, <1>7, NoHdrIs
<1>9. /\ shm[1].mx <= hdr[c].mx /\ hist[txn[c]] = mine[c]
      /\ hdr[c].salt # shm[1].salt => shm[1].mx = 0
      /\ readLock[c] \in Marks
  BY <1>1, <1>2, Parts DEF FramesKept, HeadersKept, LocksKept, Marked
<1> QED
  BY <1>1, <1>2, <1>3, <1>4, <1>5, <1>6, <1>7, <1>8, <1>9

(* A header that was not newer than the one shared is older than the new.  *)
LEMMA PublishHeaders ==
  ASSUME Inv, Order, Content, NEW c \in Conns, setting' = setting, Publish(c)
  PROVE  \A d \in Conns :
           /\ HeadersKept(d)'
           /\ d # c => (hdr[d].salt = hdr[c].salt => hdr[c].salt = shm[1].salt)
           /\ d # c => hdr[d].last <= committed /\ (SameLog(d) => hdr[d].mx <= shm[1].mx)
<1>1. /\ Moves(c) /\ shm'[1] = hdr[c] /\ committed' = txn[c] /\ hdr' = hdr /\ tmp' = tmp
      /\ hdr[c].last = txn[c] /\ committed < txn[c] /\ shm[1].mx <= hdr[c].mx
      /\ committed \in Nat /\ txn[c] \in Nat /\ writer = c /\ ~Drawn(c)' /\ Owned(c)
  BY PublishIs
<1>2. Drawn(c) /\ HeadersKept(c) /\ hdr[c].mx \in Nat /\ shm[1].mx \in Nat
  BY <1>1, Parts, Numbers DEF Drawn, Content
<1>3. hdr[c].salt # shm[1].salt =>
        /\ \A d \in Conns \ {c} : hdr[d].salt # hdr[c].salt
        /\ \A d \in Conns : tmp[d].salt # hdr[c].salt
  BY <1>2 DEF HeadersKept
<1>4. ASSUME NEW d \in Conns
      PROVE  /\ HeadersKept(d)'
             /\ d # c => (hdr[d].salt = hdr[c].salt => hdr[c].salt = shm[1].salt)
             /\ d # c => hdr[d].last <= committed /\ (SameLog(d) => hdr[d].mx <= shm[1].mx)
  <2>1. HeadersKept(d) /\ tmp[d].mx \in Nat /\ tmp[d].last \in Int
        /\ hdr[d].mx \in Nat /\ hdr[d].last \in Int
    BY Parts, Numbers DEF Content
  <2>2. Older(tmp[d])'
    BY <1>1, <1>2, <1>3, <2>1 DEF HeadersKept, Older
  <2>3. CASE d = c
    <3>1. Older(hdr[c])' /\ Older(tmp[c])'
      BY <1>1, <1>2, <2>2, <2>3 DEF Older
    <3>2. HeadersKept(c)'
      BY <1>1, <3>1 DEF HeadersKept
    <3> QED
      BY <2>3, <3>2
  <2>4. CASE d # c
    <3>1. ~Drawn(d)
      BY <1>1, <2>4, OwnerAlone
    <3>2. ~Drawn(d)'
      BY <1>1, <2>4, <3>1, Others
    <3>3. Older(hdr[d])
      BY <2>1, <3>1 DEF HeadersKept
    <3>4. Older(hdr[d])'
      BY <1>1, <1>2, <1>3, <2>1, <2>4, <3>3 DEF Older
    <3> QED
      BY <1>3, <2>2, <2>4, <3>2, <3>3, <3>4 DEF HeadersKept, Older, SameLog
  <2> QED
    BY <2>3, <2>4
<1> QED
  BY <1>4

LEMMA PublishLatest ==
  ASSUME Inv, Order, Content, NEW c \in Conns, setting' = setting, Publish(c)
  PROVE  Latest' /\ \A p \in Pages : Sees(c, p, hist[hdr[c].last][p])'
<1> DEFINE n == shm[1].mx
           b == nBackfill
           m == minFrame[c]
           n2 == hdr[c].mx
<1>1. /\ Moves(c) /\ Owned(c) /\ ~Owned(c)' /\ pc[c] = "publish" /\ pc'[c] = "read"
      /\ shm'[1] = hdr[c] /\ shm[1] # NoHdr
      /\ hdr[c].last = txn[c] /\ hist[txn[c]] = mine[c] /\ n <= n2 /\ b <= n /\ readLock[c] \in Marks
      /\ UNCHANGED << files, idx, nBackfill, minFrame, readLock, hdr, hist >>
  BY PublishIs
<1>2. n \in Nat /\ b \in Nat /\ b <= n /\ n2 \in Nat /\ m \in 1 .. b + 1
  <2>1. n \in Nat /\ b \in Nat /\ n2 \in Nat
    BY Numbers DEF Content
  <2>2. m \in 1 .. b + 1
    BY <1>1, Parts DEF MarksKept
  <2> QED
    BY <1>1, <2>1, <2>2
<1>3. ASSUME NEW p \in Pages
      PROVE  /\ Finds(wal.frames, db, idx, 1, n2, p, mine[c][p])
             /\ \A f \in 1 .. n2 : LastIn(idx, n2, p, f) /\ f <= b => db[p] = mine[c][p]
             /\ Finds(wal.frames, db, idx, m, n2, p, mine[c][p])
  <2> DEFINE v == mine[c][p]
               w == hist[shm[1].last][p]
             fr == wal.frames
  <2>1. Backed(fr, db, idx, n, b, p, w)
    BY <1>1 DEF Content, Latest, Backed
  <2>2. Finds(fr, db, idx, m, n2, p, v)
    BY <1>1, Parts DEF FramesKept
  <2>3. n <= n2
    BY <1>1
  <2> HIDE DEF n, b, m, n2, v, w, fr
  <2>4. Backed(fr, db, idx, n2, b, p, v)
    BY <1>2, <2>1, <2>2, <2>3, FindsAll
  <2> QED
    BY <2>2, <2>4 DEF v, fr, Backed
<1>4. DOMAIN mine[c] = Pages
  BY DEF Content, Sized, SizedWriter
<1>5. n2 > 0 => \A f \in Slots : f > n2 => idx[f] = 0
  BY <1>1, Parts DEF WriteKept
<1>6. Slots' = Slots /\ NoHdr' = NoHdr /\ shm'[1] # NoHdr /\ nBackfill <= n2
  BY <1>1, <1>2, PublishIs, SameBounds
<1>7. Latest'
  BY <1>1, <1>3, <1>4, <1>5, <1>6 DEF Latest
<1>8. readLock[c] # 0
  BY <1>1, NoMarkHeld
<1> QED
  BY <1>1, <1>3, <1>7, <1>8 DEF Sees

LEMMA PublishOthers ==
  ASSUME Inv, Order, Content, NEW c \in Conns, setting' = setting, Publish(c),
         NEW d \in Conns \ {c}
  PROVE  Held(d)'
<1>1. /\ Moves(c) /\ writer = c /\ Owned(c) /\ shm'[1] = hdr[c] /\ committed' = txn[c]
      /\ hdr[c].last = txn[c] /\ committed < txn[c] /\ shm[1].mx <= hdr[c].mx
      /\ committed \in Nat /\ txn[c] \in Nat /\ nBackfill <= shm[1].mx
      /\ hdr[c].salt # shm[1].salt => shm[1].mx = 0
      /\ UNCHANGED << files, idx, nBackfill, marks, ckpter, zeroExcl, marksExcl, hdr, tmp,
                      readLock, mark, minFrame, ckpt, hist >>
  BY PublishIs
<1>2. /\ Same(d) /\ Unmoved(d) /\ ~Owned(d) /\ ~Owned(d)' /\ Marks' = Marks
      /\ (pc[d] \in CkptSteps => ckpt[d].mode = "passive")
      /\ pc[d] \notin Resetting
  BY <1>1, Others, OwnerAlone
<1>3. /\ LocksKept(d) /\ MarksKept(d) /\ ReaderSees(d) /\ WriteKept(d) /\ CkptKept(d)
  BY Parts
<1>4. LocksKept(d)'
  BY <1>1, <1>2, <1>3 DEF LocksKept, Checkpointing, Same
<1>5. /\ HeadersKept(d)' /\ (hdr[d].salt = hdr[c].salt => hdr[c].salt = shm[1].salt)
      /\ hdr[d].last <= committed /\ (SameLog(d) => hdr[d].mx <= shm[1].mx)
  BY PublishHeaders
<1>6. /\ shm[1].mx \in Nat /\ hdr[c].mx \in Nat /\ hdr[d].mx \in Nat /\ hdr[d].last \in Int
      /\ nBackfill \in Nat /\ ckpt[d].safe \in Nat
      /\ \A i \in Marks : marks[i] \in Nat
  BY Numbers, CkptNumbers DEF Content
<1>7. MarksKept(d)'
  BY <1>1, <1>2, <1>3, <1>6 DEF MarksKept, Same
<1>8. ReaderSees(d)'
  <2>1. shm'[1] # hdr[d]
    BY <1>1, <1>5, <1>6
  <2>2. \A p, v : Sees(d, p, v)' <=> Sees(d, p, v)
    BY <1>1 DEF Sees
  <2> QED
    BY <1>1, <1>2, <1>3, <2>1, <2>2 DEF ReaderSees, Same
<1>9. WriteKept(d)' /\ RestartKept(d)' /\ FramesKept(d)'
  BY <1>2, <1>3, NotWriting DEF WriteKept, Unmoved
<1>10. CkptKept(d)'
  <2>1. SameLog(d)' => SameLog(d)
    BY <1>1, <1>5 DEF SameLog
  <2>2. pc[d] = "ccopy" => SameLog(d)'
    <3> SUFFICES ASSUME pc[d] = "ccopy" PROVE SameLog(d)'
      OBVIOUS
    <3>1. SameLog(d) /\ nBackfill < ckpt[d].safe /\ ckpt[d].safe <= hdr[d].mx
      BY <1>3 DEF CkptKept
    <3>2. shm[1].mx # 0
      BY <1>5, <1>6, <3>1
    <3> QED
      BY <1>1, <3>1, <3>2 DEF SameLog
  <2>3. pc[d] \in CkptSteps => ckpt[d].mode = "passive"
    BY <1>2
  <2> QED
    BY <1>1, <1>2, <1>3, <2>1, <2>2, <2>3 DEF CkptKept, Same, CkptSteps, Resetting
<1> QED
  BY <1>4, <1>5, <1>7, <1>8, <1>9, <1>10, HeldIs

LEMMA PublishContent ==
  ASSUME Inv, Order, Content, NEW c \in Conns, setting' = setting, Publish(c)
  PROVE  Content'
<1>1. /\ Moves(c) /\ pc[c] = "publish" /\ pc'[c] = "read" /\ writer = c /\ ~Owned(c)' /\ saved'[c] = NoSaved
      /\ shm'[1] = hdr[c] /\ shm[1].mx <= hdr[c].mx
      /\ committed' = txn[c] /\ hdr[c].last = txn[c] /\ txn[c] \in Nat /\ readLock[c] \in Marks
      /\ UNCHANGED << nBackfill, marks, ckpter, zeroExcl, marksExcl, hdr, readLock, minFrame, ckpt, hist >>
  BY PublishIs
<1>2. Marks' = Marks /\ shm[1].mx \in Nat /\ hdr[c].mx \in Nat /\ \A i \in Marks : marks[i] \in Nat
  BY NoMarkHeld, Numbers DEF Content
<1>3. LocksKept(c)'
  <2>1. ~Checkpointing(c)
    BY <1>1 DEF Inv, Kept, LockHeld, CkptSteps, Headed
  <2> QED
    BY <1>1, <1>2, <2>1, NoMarkHeld, Parts DEF LocksKept, Checkpointing, Zeroed, Marked, Resetting
<1>4. HeadersKept(c)'
  BY PublishHeaders
<1>5. MarksKept(c)'
  BY <1>1, <1>2, Parts DEF MarksKept
<1>6. ReaderSees(c)'
  BY <1>1, <1>2, NoMarkHeld, PublishLatest DEF ReaderSees
<1>7. WriteKept(c)' /\ RestartKept(c)' /\ FramesKept(c)' /\ CkptKept(c)'
  BY <1>1, NotWriting, NotCopying DEF CkptSteps
<1>8. Held(c)'
  BY <1>3, <1>4, <1>5, <1>6, <1>7, HeldIs
<1>9. \A d \in Conns : Held(d)'
  BY <1>8, PublishOthers
<1>10. ASSUME NEW d \in Conns, NEW e \in Conns PROVE MarksHeeded(d, e)'
  <2>1. CASE e = c
    BY <1>1, <2>1 DEF MarksHeeded
  <2>2. CASE e # c
    <3>1. Same(e) /\ (SameLog(e)' => SameLog(e)) /\ ckpt[e].safe \in Nat /\ hdr[d].mx \in Nat
      BY <1>1, <2>2, Others, PublishHeaders, CkptNumbers, Numbers DEF SameLog, Content
    <3>2. MarksHeeded(d, e) /\ (d # c => Same(d))
      BY <1>1, Others DEF Content
    <3>3. CASE d = c
      BY <1>1, <1>2, <3>1, <3>2, <3>3 DEF MarksHeeded, Same
    <3>4. CASE d # c
      BY <1>1, <1>2, <3>1, <3>2, <3>4 DEF MarksHeeded, Same
    <3> QED
      BY <3>3, <3>4
  <2> QED
    BY <2>1, <2>2
<1> QED
  BY <1>1, <1>9, <1>10, PublishLatest DEF Moves, Content

(* A page is copied that the log has, behind the marks of all readers.     *)
LEMMA CopiedIs ==
  ASSUME Inv, Order, Content, NEW c \in Conns, setting' = setting, CkptCopy(c)
  PROVE  /\ Moves(c) /\ pc[c] = "ccopy" /\ pc' = pc /\ readLock[c] = -1 /\ zeroExcl = c /\ c # None
         /\ ckpt'[c].mode = ckpt[c].mode /\ ckpt'[c].safe = ckpt[c].safe /\ ckpt'[c].k = ckpt[c].k
         /\ SameLog(c) /\ nBackfill < ckpt[c].safe /\ ckpt[c].safe <= hdr[c].mx
         /\ hdr[c].mx <= shm[1].mx /\ ~Drawn(c) /\ ~Owned(c)
         /\ \E p \in Pages : \E g \in nBackfill + 1 .. ckpt[c].safe :
              /\ LastIn(idx, hdr[c].mx, p, g)
              /\ db' = [db EXCEPT ![p] = wal.frames[g].val]
              /\ ckpt'[c].plan = [ckpt[c].plan EXCEPT ![p] = 0]
         /\ UNCHANGED << wal, shared, locks, reader, writing, ghosts >>
<1>1. /\ Moves(c) /\ pc[c] = "ccopy" /\ pc' = pc /\ ToCopy(c) # {}
      /\ UNCHANGED << wal, shared, locks, reader, writing, ghosts >>
  BY CkptCopyMoves DEF CkptCopy
<1>2. /\ c # None /\ readLock[c] = -1 /\ ~Owned(c) /\ DOMAIN ckpt = Conns
      /\ {"mode", "changed", "safe", "k", "plan"} \subseteq DOMAIN ckpt[c]
  BY <1>1, CkptIs DEF CkptSteps
<1>3. ~Drawn(c) /\ zeroExcl = c
  BY <1>1, <1>2, Parts DEF Drawn, LocksKept
<1>4. SameLog(c) /\ nBackfill < ckpt[c].safe /\ ckpt[c].safe <= hdr[c].mx
  BY <1>1, Parts DEF CkptKept
<1>5. hdr[c].mx <= shm[1].mx
  BY <1>3, <1>4, HeaderInLog
<1> DEFINE p == Min(ToCopy(c))
           g == ckpt[c].plan[p]
<1>6. p \in Pages /\ ckpt[c].plan[p] # 0
  <2>1. ToCopy(c) \in SUBSET Nat
    BY Bounds DEF ToCopy
  <2>2. p \in ToCopy(c)
    BY <1>1, <2>1, LeastIs
  <2> QED
    BY <2>2 DEF ToCopy
<1>7. g \in nBackfill + 1 .. ckpt[c].safe /\ LastIn(idx, hdr[c].mx, p, g)
  BY <1>1, <1>6, Parts DEF CkptKept
<1>8. db' = [db EXCEPT ![p] = wal.frames[g].val] /\ ckpt' = [ckpt EXCEPT ![c].plan[p] = 0]
  BY DEF CkptCopy
<1> HIDE DEF p, g
<1>9. /\ ckpt'[c].mode = ckpt[c].mode /\ ckpt'[c].safe = ckpt[c].safe /\ ckpt'[c].k = ckpt[c].k
      /\ ckpt'[c].plan = [ckpt[c].plan EXCEPT ![p] = 0]
  BY <1>2, <1>8
<1> QED
  BY <1>1, <1>2, <1>3, <1>4, <1>5, <1>6, <1>7, <1>8, <1>9

(* Who finds that page finds it in the log.                                *)
LEMMA CopyFinds ==
  ASSUME NEW fr, NEW pg, NEW pg2, NEW ix, NEW m \in Int, NEW n \in Int, NEW q, NEW v,
         pg2[q] = pg[q] \/ \E g \in m .. n : ix[g] = q, Finds(fr, pg, ix, m, n, q, v)
  PROVE  Finds(fr, pg2, ix, m, n, q, v)
BY DEF Finds

LEMMA CkptCopyLatest ==
  ASSUME Inv, Order, Content, NEW c \in Conns, setting' = setting, CkptCopy(c)
  PROVE  Latest'
<1> DEFINE n == shm[1].mx
<1>1. /\ Moves(c) /\ pc' = pc /\ nBackfill < ckpt[c].safe /\ ckpt[c].safe <= hdr[c].mx
      /\ hdr[c].mx <= n
      /\ UNCHANGED << wal, shared, locks, reader, writing, ghosts >>
  BY CopiedIs
<1>2. PICK p \in Pages : \E g \in nBackfill + 1 .. ckpt[c].safe :
         /\ LastIn(idx, hdr[c].mx, p, g)
         /\ db' = [db EXCEPT ![p] = wal.frames[g].val]
         /\ ckpt'[c].plan = [ckpt[c].plan EXCEPT ![p] = 0]
  BY CopiedIs
<1>3. PICK g \in nBackfill + 1 .. ckpt[c].safe :
         LastIn(idx, hdr[c].mx, p, g) /\ db' = [db EXCEPT ![p] = wal.frames[g].val]
  BY <1>2
<1>4. n \in Nat /\ nBackfill \in Nat /\ ckpt[c].safe \in Nat /\ hdr[c].mx \in Nat
      /\ Slots' = Slots /\ NoHdr' = NoHdr /\ DOMAIN db = Pages
  BY Numbers, CkptNumbers, SameBounds DEF Content, NoHdr, Sized, SizedShared
<1>5. g \in 1 .. n /\ idx[g] = p /\ g > nBackfill
  BY <1>1, <1>3, <1>4 DEF LastIn
<1>6. ASSUME NEW q \in Pages PROVE db'[q] = db[q] \/ q = p
  BY <1>3, <1>4
<1>7. ASSUME NEW q \in Pages, NEW v, Finds(wal.frames, db, idx, 1, n, q, v)
      PROVE  Finds(wal.frames, db', idx, 1, n, q, v)
  <2> DEFINE fr == wal.frames
             pg == db
             pg2 == db'
  <2>1. pg2[q] = pg[q] \/ \E h \in 1 .. n : idx[h] = q
    BY <1>5, <1>6
  <2>2. Finds(fr, pg, idx, 1, n, q, v)
    BY <1>7
  <2> HIDE DEF fr, pg, pg2, n
  <2>3. Finds(fr, pg2, idx, 1, n, q, v)
    BY <1>4, <2>1, <2>2, CopyFinds
  <2> QED
    BY <2>3 DEF fr, pg2
<1>8. ASSUME NEW q \in Pages, NEW f \in 1 .. n, LastIn(idx, n, q, f), f <= nBackfill
      PROVE  db'[q] = db[q]
  <2> SUFFICES ASSUME q = p PROVE FALSE
    BY <1>6
  <2>1. g \in f + 1 .. n
    BY <1>4, <1>5, <1>8
  <2> QED
    BY <1>5, <1>8, <2>1 DEF LastIn
<1>9. \A d \in Conns : Owned(d)' <=> Owned(d)
  BY <1>1 DEF Owned
<1>10. shm'[1] = shm[1] /\ wal' = wal /\ idx' = idx /\ hist' = hist /\ nBackfill' = nBackfill
  BY <1>1
<1> QED
  BY <1>1, <1>4, <1>7, <1>8, <1>9, <1>10 DEF Content, Latest

LEMMA CkptCopyOthers ==
  ASSUME Inv, Order, Content, NEW c \in Conns, setting' = setting, CkptCopy(c),
         NEW d \in Conns \ {c}
  PROVE  Held(d)'
<1>1. /\ Moves(c) /\ pc[c] = "ccopy" /\ pc' = pc /\ zeroExcl = c /\ nBackfill < ckpt[c].safe
      /\ ckpt[c].safe <= hdr[c].mx /\ hdr[c].mx <= shm[1].mx /\ SameLog(c)
      /\ UNCHANGED << wal, shared, locks, reader, writing, ghosts >>
  BY CopiedIs
<1>2. PICK p \in Pages : \E g \in nBackfill + 1 .. ckpt[c].safe :
         /\ LastIn(idx, hdr[c].mx, p, g)
         /\ db' = [db EXCEPT ![p] = wal.frames[g].val]
         /\ ckpt'[c].plan = [ckpt[c].plan EXCEPT ![p] = 0]
  BY CopiedIs
<1>3. PICK g \in nBackfill + 1 .. ckpt[c].safe :
         LastIn(idx, hdr[c].mx, p, g) /\ db' = [db EXCEPT ![p] = wal.frames[g].val]
  BY <1>2
<1>4. /\ Same(d) /\ Unmoved(d) /\ d # c /\ (Owned(d)' <=> Owned(d)) /\ (Drawn(d)' <=> Drawn(d))
      /\ Marks' = Marks /\ Slots' = Slots /\ (writer' = d <=> writer = d)
  BY <1>1, Others, SameBounds
<1>5. /\ LocksKept(d) /\ HeadersKept(d) /\ MarksKept(d) /\ ReaderSees(d) /\ WriteKept(d)
      /\ RestartKept(d) /\ FramesKept(d) /\ CkptKept(d) /\ MarksHeeded(d, c)
  BY Parts DEF Content
<1>6. /\ shm[1].mx \in Nat /\ hdr[d].mx \in Nat /\ nBackfill \in Nat /\ ckpt[c].safe \in Nat
      /\ minFrame[d] \in Nat /\ last[d] \in Nat /\ hdr[c].mx \in Nat /\ readLock[d] \in {-1, 0} \cup Marks
      /\ shm[1].mx <= MaxFrames /\ MaxFrames \in Nat /\ Slots = 1 .. MaxFrames
      /\ DOMAIN idx = Slots /\ DOMAIN db = Pages
  BY Numbers, CkptNumbers, Bounds DEF Content, Sized, SizedShared
<1>7. readLock[d] # 0
  BY <1>1, <1>5, SomeConn DEF LocksKept
<1>8. g <= shm[1].mx /\ g \in Slots /\ idx[g] = p /\ g \in Nat /\ g >= nBackfill + 1
  BY <1>1, <1>3, <1>6 DEF LastIn
<1>9. ASSUME pc[d] \in {"read", "write", "frames", "publish"}
      PROVE  /\ readLock[d] \in Marks /\ minFrame[d] <= g
             /\ pc[d] = "read" => g <= hdr[d].mx
             /\ pc[d] # "read" => ckpt[c].safe <= shm[1].mx
  <2>1. readLock[d] \in Marks
    BY <1>5, <1>6, <1>7, <1>9 DEF LocksKept, Marked
  <2>2. minFrame[d] \in 1 .. nBackfill + 1
    BY <1>5, <2>1 DEF MarksKept
  <2>3. ckpt[c].safe <= IF pc[d] = "read" THEN hdr[d].mx ELSE shm[1].mx
    BY <1>1, <1>5, <1>9, <2>1 DEF MarksHeeded
  <2> QED
    BY <1>3, <1>6, <1>8, <1>9, <2>1, <2>2, <2>3
<1>10. ASSUME NEW ix, NEW n \in Nat, NEW q, NEW v,
              ix[g] = p, minFrame[d] <= g, g <= n, q \in Pages,
              Finds(wal.frames, db, ix, minFrame[d], n, q, v)
       PROVE  Finds(wal.frames, db', ix, minFrame[d], n, q, v)
  <2> DEFINE fr == wal.frames
             pg == db
             pg2 == db'
             m == minFrame[d]
  <2>1. pg2[q] = pg[q] \/ \E h \in m .. n : ix[h] = q
    BY <1>3, <1>6, <1>8, <1>10
  <2>2. Finds(fr, pg, ix, m, n, q, v) /\ m \in Int /\ n \in Int
    BY <1>6, <1>10
  <2> HIDE DEF fr, pg, pg2, m
  <2>3. Finds(fr, pg2, ix, m, n, q, v)
    BY <2>1, <2>2, CopyFinds
  <2> QED
    BY <2>3 DEF fr, pg2, m
<1>11. ASSUME pc[d] \in {"read", "write"}, g <= hdr[d].mx, NEW q \in Pages, NEW v, Sees(d, q, v)
       PROVE  Sees(d, q, v)'
  <2>1. Finds(wal.frames, db, idx, minFrame[d], hdr[d].mx, q, v)
    BY <1>7, <1>11 DEF Sees
  <2>2. Finds(wal.frames, db', idx, minFrame[d], hdr[d].mx, q, v)
    BY <1>6, <1>8, <1>9, <1>10, <1>11, <2>1
  <2> QED
    BY <1>1, <1>7, <2>2 DEF Sees
<1>12. LocksKept(d)' /\ HeadersKept(d)' /\ MarksKept(d)'
  <2>1. \A e \in Conns : hdr'[e] = hdr[e] /\ tmp'[e] = tmp[e]
    BY <1>1
  <2> QED
    BY <1>1, <1>4, <1>5, <2>1 DEF LocksKept, HeadersKept, Older, MarksKept, Checkpointing, Same
<1>13. ReaderSees(d)'
  BY <1>1, <1>4, <1>5, <1>9, <1>11 DEF ReaderSees
<1>14. BatchKept(d)' <=> BatchKept(d)
  BY <1>1 DEF BatchKept
<1>15. WriteKept(d)' /\ RestartKept(d)'
  <2>1. pc[d] = "write" => g <= hdr[d].mx
    BY <1>5, <1>6, <1>8 DEF WriteKept
  <2>2. ASSUME pc[d] = "write", NEW q \in Pages \ dirty[d] PROVE Sees(d, q, mine[d][q])'
    <3>1. \A v : Sees(d, q, v) => Sees(d, q, v)'
      BY <1>11, <2>1, <2>2
    <3>2. Sees(d, q, mine[d][q]) /\ mine' = mine
      BY <1>1, <1>5, <2>2 DEF WriteKept
    <3> QED
      BY <3>1, <3>2 DEF Sees
  <2> QED
    BY <1>1, <1>4, <1>5, <1>14, <2>2 DEF WriteKept, RestartKept, Undoable
<1>16. FramesKept(d)'
  <2>1. Entries(d)' = Entries(d)
    BY <1>1 DEF Entries
  <2>2. ASSUME pc[d] = "frames", NEW q \in Pages \ dirty[d]
        PROVE  Finds(wal.frames, db', Entries(d), minFrame[d], last[d], q, mine[d][q])
    <3>1. shm[1].mx <= hdr[d].mx /\ hdr[d].mx <= last[d]
          /\ Finds(wal.frames, db, Entries(d), minFrame[d], last[d], q, mine[d][q])
      BY <1>5, <2>2 DEF FramesKept
    <3>2. g <= hdr[d].mx /\ g <= last[d]
      BY <1>6, <1>8, <3>1
    <3>3. Entries(d)[g] = p
      BY <1>6, <1>8, <3>2 DEF Entries, Joined
    <3> QED
      BY <1>6, <1>9, <1>10, <2>2, <3>1, <3>2, <3>3
  <2>3. ASSUME pc[d] = "publish", NEW q \in Pages
        PROVE  Finds(wal.frames, db', idx, minFrame[d], hdr[d].mx, q, mine[d][q])
    <3>1. shm[1].mx <= hdr[d].mx /\ Finds(wal.frames, db, idx, minFrame[d], hdr[d].mx, q, mine[d][q])
      BY <1>5, <2>3 DEF FramesKept
    <3>2. g <= hdr[d].mx
      BY <1>6, <1>8, <3>1
    <3> QED
      BY <1>6, <1>8, <1>9, <1>10, <2>3, <3>1, <3>2
  <2> QED
    BY <1>1, <1>4, <1>5, <1>14, <2>1, <2>2, <2>3 DEF FramesKept, Undoable
<1>17. CkptKept(d)'
  <2>1. pc[d] # "ccopy"
    BY <1>1, <1>4, <1>5 DEF LocksKept
  <2> QED
    BY <1>1, <1>4, <1>5, <2>1 DEF CkptKept, SameLog, Same
<1> QED
  BY <1>12, <1>13, <1>15, <1>16, <1>17, HeldIs

LEMMA CkptCopyContent ==
  ASSUME Inv, Order, Content, NEW c \in Conns, setting' = setting, CkptCopy(c)
  PROVE  Content'
<1>1. /\ Moves(c) /\ pc[c] = "ccopy" /\ pc' = pc /\ readLock[c] = -1 /\ c # None /\ SameLog(c)
      /\ ckpt'[c].mode = ckpt[c].mode /\ ckpt'[c].safe = ckpt[c].safe /\ ckpt'[c].k = ckpt[c].k
      /\ ~Drawn(c) /\ ~Owned(c)
      /\ UNCHANGED << wal, shared, locks, reader, writing, ghosts >>
  BY CopiedIs
<1>2. PICK p \in Pages : \E g \in nBackfill + 1 .. ckpt[c].safe :
         /\ LastIn(idx, hdr[c].mx, p, g)
         /\ db' = [db EXCEPT ![p] = wal.frames[g].val]
         /\ ckpt'[c].plan = [ckpt[c].plan EXCEPT ![p] = 0]
  BY CopiedIs
<1>3. PICK g \in nBackfill + 1 .. ckpt[c].safe :
         /\ LastIn(idx, hdr[c].mx, p, g)
         /\ db' = [db EXCEPT ![p] = wal.frames[g].val]
         /\ ckpt'[c].plan = [ckpt[c].plan EXCEPT ![p] = 0]
  BY <1>2
<1>4. /\ Marks' = Marks /\ -1 \notin Marks /\ DOMAIN db = Pages /\ DOMAIN ckpt[c].plan = Pages
      /\ nBackfill \in Nat /\ ckpt[c].safe \in Nat /\ hdr[c].mx \in Nat
  BY <1>1, CkptIs DEF CkptSteps, Content, Sized, SizedShared
<1>5. ~Owned(c)' /\ ~Drawn(c)'
  BY <1>1 DEF Owned, Drawn
<1>6. LocksKept(c)' /\ HeadersKept(c)' /\ MarksKept(c)' /\ ReaderSees(c)'
  BY <1>1, <1>4, <1>5, Parts
     DEF LocksKept, HeadersKept, Older, MarksKept, ReaderSees, Checkpointing
<1>7. saved'[c] = NoSaved
  BY <1>1, Parts DEF WriteKept
<1>8. CkptKept(c)'
  <2>1. ASSUME NEW q \in Pages
        PROVE  /\ ckpt'[c].plan[q] # 0 => /\ ckpt'[c].plan[q] \in nBackfill + 1 .. ckpt[c].safe
                                          /\ LastIn(idx, hdr[c].mx, q, ckpt'[c].plan[q])
               /\ ckpt'[c].plan[q] = 0 =>
                    \A f \in nBackfill + 1 .. ckpt[c].safe :
                      LastIn(idx, hdr[c].mx, q, f) => db'[q] = wal.frames[f].val
    <3>1. CASE q # p
      <4>1. ckpt'[c].plan[q] = ckpt[c].plan[q] /\ db'[q] = db[q]
        BY <1>3, <1>4, <3>1
      <4> QED
        BY <1>1, <4>1, Parts DEF CkptKept
    <3>2. CASE q = p
      <4>1. ckpt'[c].plan[q] = 0 /\ db'[q] = wal.frames[g].val
        BY <1>3, <1>4, <3>2
      <4>2. ASSUME NEW f \in nBackfill + 1 .. ckpt[c].safe, LastIn(idx, hdr[c].mx, p, f)
            PROVE  f = g
        <5>1. nBackfill < ckpt[c].safe /\ ckpt[c].safe <= hdr[c].mx
          BY CopiedIs
        <5>2. (f < g => g \in f + 1 .. hdr[c].mx) /\ (g < f => f \in g + 1 .. hdr[c].mx)
          BY <1>4, <5>1
        <5>3. ~(f < g) /\ ~(g < f)
          BY <1>3, <4>2, <5>2 DEF LastIn
        <5> QED
          BY <1>4, <5>3
      <4> QED
        BY <3>2, <4>1, <4>2
    <3> QED
      BY <3>1, <3>2
  <2>2. SameLog(c)' /\ nBackfill < ckpt[c].safe /\ ckpt[c].safe <= hdr[c].mx
        /\ (ckpt[c].mode # "passive" => hdr[c] = shm[1])
    BY <1>1, CopiedIs, Parts DEF SameLog, CkptKept
  <2> QED
    BY <1>1, <2>1, <2>2 DEF CkptKept
<1>9. WriteKept(c)' /\ RestartKept(c)' /\ FramesKept(c)'
  BY <1>5, <1>7, NotWriting
<1>10. \A d \in Conns : Held(d)'
  BY <1>6, <1>8, <1>9, HeldIs, CkptCopyOthers
<1>11. ASSUME NEW d \in Conns, NEW e \in Conns PROVE MarksHeeded(d, e)'
  <2>1. ckpt'[e].safe = ckpt[e].safe /\ ckpt'[e].k = ckpt[e].k
    BY <1>1, Others DEF Same
  <2> QED
    BY <1>1, <1>4, <2>1 DEF Content, MarksHeeded, SameLog
<1> QED
  BY <1>1, <1>10, <1>11, CkptCopyLatest DEF Moves, Content

(* What has been copied counts as backfilled.                              *)
LEMMA FilledIs ==
  ASSUME Inv, Order, Content, NEW c \in Conns, setting' = setting, CkptFill(c)
  PROVE  /\ Moves(c) /\ pc[c] = "ccopy" /\ pc'[c] = "cdone" /\ readLock[c] = -1 /\ c # None
         /\ zeroExcl = c /\ zeroExcl' = None /\ nBackfill' = ckpt[c].safe
         /\ SameLog(c) /\ nBackfill < ckpt[c].safe /\ ckpt[c].safe <= hdr[c].mx
         /\ hdr[c].mx <= shm[1].mx /\ ~Drawn(c) /\ ~Owned(c) /\ ~Owned(c)' /\ ~Drawn(c)'
         /\ \A p \in Pages : ckpt[c].plan[p] = 0
         /\ \A d \in Conns \ {c} : pc[d] \notin CkptSteps \cup {"recovered"} /\ readLock[d] # 0
         /\ UNCHANGED << db, wal, idx, shm, marks, writer, ckpter, marksExcl, reader, writing, ckpt,
                         ghosts >>
<1>1. /\ Moves(c) /\ pc[c] = "ccopy" /\ pc'[c] = "cdone" /\ ToCopy(c) = {}
      /\ zeroExcl' = None /\ nBackfill' = ckpt[c].safe
      /\ UNCHANGED << db, wal, idx, shm, marks, writer, ckpter, marksExcl, reader, writing, ckpt,
                      ghosts >>
  BY CkptFillMoves DEF CkptFill, Inv, Shaped
<1>2. c # None /\ readLock[c] = -1 /\ ~Owned(c) /\ ckpter = c
  BY <1>1, CkptIs DEF CkptSteps
<1>3. ~Drawn(c) /\ zeroExcl = c /\ ~Owned(c)' /\ ~Drawn(c)'
  BY <1>1, <1>2, Parts DEF Drawn, Owned, LocksKept, Writing, Marking
<1>4. SameLog(c) /\ nBackfill < ckpt[c].safe /\ ckpt[c].safe <= hdr[c].mx
  BY <1>1, Parts DEF CkptKept
<1>5. hdr[c].mx <= shm[1].mx
  BY <1>3, <1>4, HeaderInLog
<1>6. \A d \in Conns \ {c} : pc[d] \notin CkptSteps \cup {"recovered"} /\ readLock[d] # 0
  BY <1>2, <1>3, Parts DEF LocksKept, Inv, Kept, LockHeld
<1>7. \A p \in Pages : ckpt[c].plan[p] = 0
  BY <1>1 DEF ToCopy
<1> QED
  BY <1>1, <1>2, <1>3, <1>4, <1>5, <1>6, <1>7

LEMMA CkptFillLatest ==
  ASSUME Inv, Order, Content, NEW c \in Conns, setting' = setting, CkptFill(c)
  PROVE  Latest'
<1> DEFINE n == shm[1].mx
<1>1. /\ pc[c] = "ccopy" /\ nBackfill' = ckpt[c].safe /\ nBackfill < ckpt[c].safe
      /\ ckpt[c].safe <= hdr[c].mx /\ hdr[c].mx <= n /\ \A p \in Pages : ckpt[c].plan[p] = 0
      /\ ~Owned(c) /\ ~Owned(c)' /\ Moves(c)
      /\ UNCHANGED << db, wal, idx, shm, hist >>
  BY FilledIs
<1>2. n \in Nat /\ nBackfill \in Nat /\ ckpt[c].safe \in Nat /\ hdr[c].mx \in Nat
      /\ Slots' = Slots /\ NoHdr' = NoHdr
  BY Numbers, CkptNumbers, SameBounds DEF Content, NoHdr
<1>3. shm[1] # NoHdr
  BY <1>1, <1>2, NoHdrIs
<1>4. ASSUME NEW p \in Pages, NEW f \in 1 .. n, LastIn(idx, n, p, f), f <= ckpt[c].safe
      PROVE  db[p] = hist[shm[1].last][p]
  <2>1. CASE f <= nBackfill
    BY <1>3, <1>4, <2>1 DEF Content, Latest
  <2>2. CASE f > nBackfill
    <3>1. f \in nBackfill + 1 .. ckpt[c].safe /\ \A g \in f + 1 .. hdr[c].mx : g \in f + 1 .. n
      BY <1>1, <1>2, <1>4, <2>2
    <3>2. LastIn(idx, hdr[c].mx, p, f)
      BY <1>4, <3>1 DEF LastIn
    <3>3. db[p] = wal.frames[f].val
      BY <1>1, <3>1, <3>2, Parts DEF CkptKept
    <3>4. wal.frames[f].val = hist[shm[1].last][p]
      BY <1>3, <1>4 DEF Content, Latest, Finds
    <3> QED
      BY <3>3, <3>4
  <2> QED
    BY <1>2, <2>1, <2>2
<1>5. \A d \in Conns : Owned(d)' <=> Owned(d)
  BY <1>1, Others
<1>6. ckpt[c].safe <= n
  BY <1>1, <1>2
<1> QED
  BY <1>1, <1>2, <1>3, <1>4, <1>5, <1>6 DEF Content, Latest

LEMMA CkptFillContent ==
  ASSUME Inv, Order, Content, NEW c \in Conns, setting' = setting, CkptFill(c)
  PROVE  Content'
<1>1. /\ Moves(c) /\ pc[c] = "ccopy" /\ pc'[c] = "cdone" /\ readLock[c] = -1 /\ c # None
      /\ zeroExcl = c /\ zeroExcl' = None /\ nBackfill < nBackfill'
      /\ ~Drawn(c) /\ ~Owned(c) /\ ~Owned(c)' /\ ~Drawn(c)'
      /\ UNCHANGED << db, wal, idx, shm, marks, writer, ckpter, marksExcl, reader, writing, ckpt,
                      ghosts >>
      /\ \A d \in Conns \ {c} : pc[d] \notin CkptSteps \cup {"recovered"} /\ readLock[d] # 0
  BY FilledIs
<1>2. /\ Marks' = Marks /\ -1 \notin Marks /\ 0 \notin Marks /\ Slots' = Slots
      /\ nBackfill \in Nat /\ nBackfill' \in Nat
  BY <1>1, NoMarkHeld, SameBounds, Numbers, NumbersAfter DEF Content, Moves
<1>3. ASSUME NEW d \in Conns \ {c} PROVE Held(d)'
  <2>1. /\ Same(d) /\ (Owned(d)' <=> Owned(d)) /\ (Drawn(d)' <=> Drawn(d))
        /\ readLock[d] # 0 /\ pc[d] \notin CkptSteps \cup {"recovered"} /\ d # None /\ d # c
    BY <1>1, Others
  <2>2. /\ LocksKept(d) /\ HeadersKept(d) /\ MarksKept(d) /\ ReaderSees(d) /\ WriteKept(d)
        /\ RestartKept(d) /\ FramesKept(d)
    BY Parts
  <2>3. LocksKept(d)' /\ HeadersKept(d)'
    <3>1. \A e \in Conns : hdr'[e] = hdr[e] /\ tmp'[e] = tmp[e]
      BY <1>1
    <3> QED
      BY <1>1, <1>2, <2>1, <2>2, <3>1 DEF LocksKept, HeadersKept, Older, Checkpointing, Same
  <2>4. MarksKept(d)'
    BY <1>1, <1>2, <2>1, <2>2, Numbers DEF MarksKept, Same, Content
  <2>5. \A p, v : Sees(d, p, v)' <=> Sees(d, p, v)
    BY <1>1 DEF Sees
  <2>6. ReaderSees(d)'
    <3>1. pc[d] # "zero"
      BY <2>1, <2>2 DEF LocksKept, Zeroed
    <3> QED
      BY <1>1, <2>1, <2>2, <2>5, <3>1 DEF ReaderSees, Same
  <2>7. Entries(d)' = Entries(d) /\ (BatchKept(d)' <=> BatchKept(d))
    BY <1>1 DEF Entries, BatchKept
  <2>8. WriteKept(d)' /\ FramesKept(d)'
    BY <1>1, <1>2, <2>1, <2>2, <2>5, <2>7 DEF WriteKept, FramesKept, Undoable, Same
  <2>9. RestartKept(d)'
    <3>1. pc[d] \notin Zeroed
      BY <2>1, <2>2 DEF LocksKept
    <3> QED
      BY <1>1, <2>1, <2>2, <2>7, <3>1 DEF RestartKept, Undoable, Same, Zeroed
  <2>10. CkptKept(d)'
    BY <2>1, NotCopying DEF Same
  <2> QED
    BY <2>3, <2>4, <2>6, <2>8, <2>9, <2>10, HeldIs
<1>4. LocksKept(c)' /\ HeadersKept(c)' /\ MarksKept(c)' /\ ReaderSees(c)'
  BY <1>1, <1>2, Parts
     DEF LocksKept, HeadersKept, Older, MarksKept, ReaderSees, Checkpointing, Resetting, Zeroed, Marked
<1>5. CkptKept(c)'
  BY <1>1, Parts DEF CkptKept
<1>6. WriteKept(c)' /\ RestartKept(c)' /\ FramesKept(c)'
  BY <1>1, Parts, NotWriting DEF WriteKept
<1>7. \A d \in Conns : Held(d)'
  BY <1>3, <1>4, <1>5, <1>6, HeldIs
<1>8. ASSUME NEW d \in Conns, NEW e \in Conns PROVE MarksHeeded(d, e)'
  <2>1. pc'[e] \notin {"cmark", "czero", "csalt", "ccopy"}
    BY <1>1, Others DEF Same, CkptSteps
  <2> QED
    BY <2>1 DEF MarksHeeded
<1> QED
  BY <1>1, <1>7, <1>8, CkptFillLatest DEF Moves, Content

(* The first copy of a header that was drawn: the log is empty for whoever *)
(* reads it, and nobody looks into the log before.                         *)
NewLog(c) ==
  /\ Moves(c) /\ writer = c /\ Drawn(c) /\ marksExcl = c
  /\ pc[c] \in {"restarted", "ctrunc"}
  /\ pc'[c] = IF pc[c] = "restarted" THEN "restartinfo" ELSE "ctruncinfo"
  /\ shm'[1] = hdr[c] /\ hdr[c].mx = 0 /\ hdr[c].salt # shm[1].salt /\ nBackfill = shm[1].mx
  /\ hdr[c].last = shm[1].last /\ shm[1] # NoHdr
  /\ UNCHANGED << files, idx, nBackfill, marks, locks, reader, writing, ckpt, ghosts >>

LEMMA NewLogKnown ==
  ASSUME Inv, Order, Content, NEW c \in Conns, NewLog(c)
  PROVE  /\ \A d \in Conns : readLock[d] \notin Marks /\ tmp[d].salt # hdr[c].salt
         /\ \A d \in Conns \ {c} : hdr[d].salt # hdr[c].salt
         /\ shm[1].last = committed /\ committed \in Nat /\ Marks' = Marks /\ Slots' = Slots
<1>1. c # None /\ setting' = setting
  BY SomeConn DEF NewLog, Moves, Steps
<1>2. \A d \in Conns : readLock[d] \notin Marks
  BY <1>1, Parts DEF NewLog, LocksKept
<1>3. /\ \A d \in Conns \ {c} : hdr[d].salt # hdr[c].salt
      /\ \A d \in Conns : tmp[d].salt # hdr[c].salt
  BY Parts DEF NewLog, HeadersKept
<1> QED
  BY <1>1, <1>2, <1>3, SameBounds DEF NewLog, Order, LastShown

LEMMA NewLogLatest ==
  ASSUME Inv, Order, Content, NEW c \in Conns, NewLog(c)
  PROVE  Latest'
<1>1. /\ shm'[1] = hdr[c] /\ hdr[c].mx = 0 /\ nBackfill = shm[1].mx /\ shm[1] # NoHdr
      /\ hdr[c].last = shm[1].last /\ pc'[c] \in {"restartinfo", "ctruncinfo"}
      /\ UNCHANGED << files, idx, nBackfill, hist >>
  BY DEF NewLog
<1>2. hdr[c] # NoHdr /\ NoHdr' = NoHdr
  BY <1>1, NewLogKnown, NoHdrIs DEF NoHdr
<1>3. ASSUME NEW p \in Pages PROVE db[p] = hist[shm[1].last][p]
  BY <1>1, LatestFound
<1>4. DOMAIN hist[shm[1].last] = Pages
  BY <1>1 DEF Content, Latest
<1>5. \A f \in 1 .. hdr[c].mx : FALSE
  BY <1>1
<1>6. \A p \in Pages : Finds(wal.frames, db, idx, 1, hdr[c].mx, p, hist[shm[1].last][p])
  BY <1>3, <1>5 DEF Finds
<1> QED
  BY <1>1, <1>2, <1>4, <1>5, <1>6 DEF Latest

LEMMA NewLogOthers ==
  ASSUME Inv, Order, Content, NEW c \in Conns, NewLog(c), NEW d \in Conns \ {c}
  PROVE  Held(d)'
<1>1. /\ Moves(c) /\ writer = c /\ marksExcl = c /\ shm'[1] = hdr[c] /\ nBackfill = shm[1].mx
      /\ UNCHANGED << files, idx, nBackfill, marks, locks, reader, writing, ckpt, ghosts >>
  BY DEF NewLog
<1>2. /\ Same(d) /\ ~Owned(d) /\ ~Owned(d)' /\ ~Drawn(d) /\ ~Drawn(d)'
      /\ (pc[d] \in CkptSteps => ckpt[d].mode = "passive") /\ pc[d] \notin Resetting
  BY <1>1, Others, OwnerAlone
<1>3. /\ LocksKept(d) /\ HeadersKept(d) /\ MarksKept(d) /\ ReaderSees(d) /\ WriteKept(d)
      /\ CkptKept(d)
  BY Parts
<1>4. /\ readLock[d] \notin Marks /\ tmp[d].salt # hdr[c].salt /\ hdr[d].salt # hdr[c].salt
      /\ Marks' = Marks
  BY NewLogKnown
<1>5. LocksKept(d)' /\ MarksKept(d)'
  BY <1>1, <1>2, <1>3, <1>4 DEF LocksKept, MarksKept, Checkpointing, Same
<1>6. HeadersKept(d)'
  BY <1>1, <1>2, <1>3, <1>4 DEF HeadersKept, Older
<1>7. ReaderSees(d)'
  <2>1. \A p, v : Sees(d, p, v)' <=> Sees(d, p, v)
    BY <1>1 DEF Sees
  <2> QED
    BY <1>1, <1>2, <1>3, <1>4, <2>1 DEF ReaderSees, Same
<1>8. WriteKept(d)' /\ RestartKept(d)' /\ FramesKept(d)'
  BY <1>1, <1>2, <1>3, NotWriting DEF WriteKept
<1>9. CkptKept(d)'
  <2>1. ~SameLog(d)'
    BY <1>1, <1>4 DEF SameLog
  <2>2. pc[d] # "ccopy"
    <3> SUFFICES ASSUME pc[d] = "ccopy" PROVE FALSE
      OBVIOUS
    <3>1. SameLog(d) /\ nBackfill < ckpt[d].safe /\ ckpt[d].safe <= hdr[d].mx
      BY <1>3 DEF CkptKept
    <3>2. hdr[d].mx <= shm[1].mx
      BY <1>2, <3>1, HeaderInLog
    <3> QED
      BY <1>1, <3>1, <3>2, Numbers, CkptNumbers DEF Content
  <2> QED
    BY <1>1, <1>2, <1>3, <2>1, <2>2 DEF CkptKept, Same, CkptSteps, Resetting
<1> QED
  BY <1>5, <1>6, <1>7, <1>8, <1>9, HeldIs

LEMMA NewLogContent ==
  ASSUME Inv, Order, Content, NEW c \in Conns, NewLog(c)
  PROVE  Content'
<1>1. /\ Moves(c) /\ writer = c /\ marksExcl = c /\ shm'[1] = hdr[c] /\ nBackfill = shm[1].mx
      /\ pc[c] \in {"restarted", "ctrunc"} /\ hdr[c].mx = 0 /\ hdr[c].last = shm[1].last
      /\ pc'[c] = IF pc[c] = "restarted" THEN "restartinfo" ELSE "ctruncinfo"
      /\ UNCHANGED << files, idx, nBackfill, marks, locks, reader, writing, ckpt, ghosts >>
  BY DEF NewLog
<1>2. /\ \A d \in Conns : readLock[d] \notin Marks
      /\ tmp[c].salt # hdr[c].salt /\ Marks' = Marks /\ Slots' = Slots
  BY NewLogKnown
<1>3. (Owned(c)' <=> Owned(c)) /\ Drawn(c)'
  BY <1>1 DEF Owned, Drawn, Writing, Marking
<1>4. LocksKept(c)' /\ MarksKept(c)' /\ ReaderSees(c)'
  BY <1>1, <1>2, Parts
     DEF LocksKept, MarksKept, ReaderSees, Zeroed, Marked, Resetting, Checkpointing
<1>5. HeadersKept(c)'
  BY <1>1, <1>2, <1>3, Parts DEF HeadersKept, Older
<1>6. WriteKept(c)' /\ FramesKept(c)' /\ CkptKept(c)'
  BY <1>1, <1>3, Parts DEF WriteKept, FramesKept, CkptKept
<1>7. RestartKept(c)'
  <2>1. BatchKept(c)' <=> BatchKept(c)
    BY <1>1 DEF BatchKept
  <2>2. CASE pc[c] = "restarted"
    BY <1>1, <2>1, <2>2, Parts DEF RestartKept, Undoable
  <2>3. CASE pc[c] = "ctrunc"
    BY <1>1, <2>3 DEF RestartKept, Marking
  <2> QED
    BY <1>1, <2>2, <2>3
<1>8. \A d \in Conns : Held(d)'
  BY <1>4, <1>5, <1>6, <1>7, HeldIs, NewLogOthers
<1>9. \A d, e \in Conns : MarksHeeded(d, e)'
  BY <1>1, <1>2 DEF MarksHeeded
<1> QED
  BY <1>1, <1>8, <1>9, NewLogLatest DEF Moves, Content

LEMMA RestartHeaderContent ==
  ASSUME Inv, Order, Content, NEW c \in Conns, setting' = setting, RestartHeader(c)
  PROVE  Content'
<1>1. /\ Moves(c) /\ pc[c] = "restarted" /\ pc'[c] = "restartinfo" /\ shm'[1] = hdr[c]
      /\ UNCHANGED << files, idx, nBackfill, marks, locks, reader, writing, ckpt, ghosts >>
  BY RestartHeaderMoves DEF RestartHeader, Inv, Shaped
<1>2. Owned(c) /\ Drawn(c)
  BY <1>1 DEF Owned, Drawn, Writing
<1>3. writer = c /\ hdr[c].last = shm[1].last
  BY <1>1, <1>2, OwnerIs DEF Inv, Kept, HeaderShared, Writing
<1>4. shm[1] # NoHdr
  BY <1>1 DEF Order, NothingYet
<1>5. marksExcl = c /\ hdr[c].mx = 0 /\ hdr[c].salt # shm[1].salt /\ nBackfill = shm[1].mx
  BY <1>1, Parts DEF LocksKept, Resetting, RestartKept
<1> QED
  BY <1>1, <1>2, <1>3, <1>4, <1>5, NewLogContent DEF NewLog

LEMMA CkptResetHeaderContent ==
  ASSUME Inv, Order, Content, NEW c \in Conns, setting' = setting, CkptResetHeader(c)
  PROVE  Content'
<1>1. /\ Moves(c) /\ pc[c] = "ctrunc" /\ pc'[c] = "ctruncinfo" /\ shm'[1] = hdr[c]
      /\ UNCHANGED << files, idx, nBackfill, marks, locks, reader, writing, ckpt, ghosts >>
  BY CkptResetHeaderMoves DEF CkptResetHeader, Inv, Shaped
<1>2. Drawn(c)
  BY <1>1 DEF Drawn
<1>3. writer = c /\ ckpt[c].mode = "truncate"
  BY <1>1 DEF Inv, Kept, LockHeld
<1>4. shm[1] # NoHdr /\ hdr[c].last = shm[1].last
  BY <1>1, <1>3 DEF Order, NothingYet, HeaderKnown, CkptSteps
<1>5. marksExcl = c /\ hdr[c].mx = 0 /\ hdr[c].salt # shm[1].salt /\ nBackfill = shm[1].mx
  BY <1>1, Parts DEF LocksKept, Resetting, CkptKept
<1> QED
  BY <1>1, <1>2, <1>3, <1>4, <1>5, NewLogContent DEF NewLog

(* The log is used from its start.                                         *)
NewInfo(c) ==
  /\ Moves(c) /\ writer = c /\ writer' = c /\ marksExcl = c /\ marksExcl' = None
  /\ pc[c] \in {"restartinfo", "ctruncinfo"}
  /\ pc'[c] = IF pc[c] = "restartinfo" THEN "begin" ELSE "cend"
  /\ readLock'[c] = -1 /\ hdr[c] = shm[1] /\ shm[1].mx = 0 /\ nBackfill' = 0 /\ shm[1] # NoHdr
  /\ UNCHANGED << db, idx, shm, ckpter, zeroExcl, hdr, tmp, writing, ckpt, ghosts >>

LEMMA NewInfoKnown ==
  ASSUME Inv, Order, Content, NEW c \in Conns, NewInfo(c)
  PROVE  /\ \A d \in Conns : readLock[d] \notin Marks /\ readLock'[d] \notin Marks
         /\ shm[1].last = committed /\ Marks' = Marks /\ Slots' = Slots /\ -1 \notin Marks
<1>1. c # None /\ setting' = setting
  BY SomeConn DEF NewInfo, Moves, Steps
<1>2. \A d \in Conns : readLock[d] \notin Marks
  BY <1>1, Parts DEF NewInfo, LocksKept
<1>3. \A d \in Conns \ {c} : readLock'[d] = readLock[d]
  BY DEF NewInfo, Moves, Unmoved
<1>4. Marks' = Marks /\ Slots' = Slots /\ -1 \notin Marks
  BY <1>1, SameBounds, NoMarkHeld
<1> QED
  BY <1>1, <1>2, <1>3, <1>4 DEF NewInfo, Order, LastShown

LEMMA NewInfoLatest ==
  ASSUME Inv, Order, Content, NEW c \in Conns, NewInfo(c)
  PROVE  Latest'
<1>1. /\ shm[1].mx = 0 /\ nBackfill' = 0 /\ shm[1] # NoHdr /\ NoHdr' = NoHdr
      /\ UNCHANGED << db, idx, shm, hist >>
  BY DEF NewInfo, NoHdr
<1>2. \A f \in 1 .. shm[1].mx : FALSE
  BY <1>1
<1>3. ASSUME NEW p \in Pages PROVE db[p] = hist[shm[1].last][p]
  BY <1>1, <1>2 DEF Content, Latest, Finds
<1>4. \A p \in Pages : Finds(wal'.frames, db, idx, 1, shm[1].mx, p, hist[shm[1].last][p])
  BY <1>2, <1>3 DEF Finds
<1>5. DOMAIN hist[shm[1].last] = Pages
  BY <1>1 DEF Content, Latest
<1> QED
  BY <1>1, <1>2, <1>4, <1>5 DEF Latest

LEMMA NewInfoOthers ==
  ASSUME Inv, Order, Content, NEW c \in Conns, NewInfo(c), NEW d \in Conns \ {c}
  PROVE  Held(d)'
<1>1. /\ Moves(c) /\ writer = c /\ marksExcl = c /\ marksExcl' = None /\ shm[1].mx = 0
      /\ nBackfill' = 0
      /\ UNCHANGED << db, idx, shm, ckpter, zeroExcl, hdr, tmp, writing, ckpt, ghosts >>
  BY DEF NewInfo
<1>2. /\ Same(d) /\ Unmoved(d) /\ ~Owned(d) /\ ~Owned(d)' /\ ~Drawn(d) /\ ~Drawn(d)' /\ d # c
      /\ pc[d] \notin Resetting /\ d # None
  BY <1>1, Others, OwnerAlone
<1>3. /\ LocksKept(d) /\ HeadersKept(d) /\ MarksKept(d) /\ ReaderSees(d) /\ WriteKept(d)
      /\ CkptKept(d)
  BY Parts
<1>4. readLock[d] \notin Marks /\ readLock'[d] = readLock[d] /\ Marks' = Marks
  BY <1>2, NewInfoKnown DEF Unmoved
<1>5. LocksKept(d)' /\ MarksKept(d)'
  BY <1>1, <1>2, <1>3, <1>4 DEF LocksKept, MarksKept, Checkpointing, Same, Unmoved
<1>6. HeadersKept(d)'
  BY <1>1, <1>2, <1>3 DEF HeadersKept, Older
<1>7. ReaderSees(d)'
  <2>1. pc[d] = "read" => readLock[d] = 0
    BY <1>3, <1>4, Numbers DEF LocksKept, Content
  <2>2. pc[d] = "read" => \A p \in Pages : Sees(d, p, hist[hdr[d].last][p])'
    BY <1>1, <1>3, <1>4, <2>1 DEF ReaderSees, Sees
  <2> QED
    BY <1>1, <1>2, <1>3, <1>4, <2>2 DEF ReaderSees, Same
<1>8. WriteKept(d)' /\ RestartKept(d)' /\ FramesKept(d)'
  BY <1>1, <1>2, <1>3, NotWriting DEF WriteKept
<1>9. CkptKept(d)'
  <2>1. ~(pc[d] \in {"czero", "csalt", "ccopy"} /\ SameLog(d))
    <3> SUFFICES ASSUME pc[d] \in {"czero", "csalt", "ccopy"}, SameLog(d) PROVE FALSE
      OBVIOUS
    <3>1. nBackfill < ckpt[d].safe /\ ckpt[d].safe <= hdr[d].mx
      BY <1>3 DEF CkptKept
    <3>2. hdr[d].mx <= shm[1].mx
      BY <1>2, HeaderInLog
    <3> QED
      BY <1>1, <3>1, <3>2, Numbers, CkptNumbers DEF Content
  <2> QED
    BY <1>1, <1>2, <1>3, <2>1 DEF CkptKept, SameLog, Same, Resetting
<1> QED
  BY <1>5, <1>6, <1>7, <1>8, <1>9, HeldIs

LEMMA NewInfoContent ==
  ASSUME Inv, Order, Content, NEW c \in Conns, NewInfo(c)
  PROVE  Content'
<1>1. /\ Moves(c) /\ writer = c /\ writer' = c /\ marksExcl = c /\ marksExcl' = None
      /\ pc[c] \in {"restartinfo", "ctruncinfo"} /\ c # None
      /\ pc'[c] = IF pc[c] = "restartinfo" THEN "begin" ELSE "cend"
      /\ readLock'[c] = -1 /\ hdr[c] = shm[1] /\ shm[1].mx = 0
      /\ UNCHANGED << db, idx, shm, ckpter, zeroExcl, hdr, tmp, writing, ckpt, ghosts >>
  BY SomeConn DEF NewInfo
<1>2. /\ \A d \in Conns : readLock'[d] \notin Marks
      /\ shm[1].last = committed /\ Marks' = Marks /\ Slots' = Slots /\ -1 \notin Marks
  BY NewInfoKnown
<1>3. Older(tmp[c])' /\ Older(hdr[c])'
  BY <1>1, <1>2, Numbers, Parts DEF HeadersKept, Older, Order, LastShown, Content
<1>4. HeadersKept(c)'
  BY <1>1, <1>3 DEF HeadersKept
<1>5. LocksKept(c)'
  BY <1>1, <1>2, Parts
     DEF LocksKept, Zeroed, Marked, Resetting, Checkpointing
<1>6. MarksKept(c)' /\ ReaderSees(c)' /\ CkptKept(c)'
  BY <1>1, <1>2 DEF MarksKept, ReaderSees, CkptKept
<1>7. WriteKept(c)' /\ RestartKept(c)' /\ FramesKept(c)'
  <2>1. CASE pc[c] = "restartinfo"
    <3>1. Owned(c)'
      BY <1>1, <2>1 DEF Owned, Marking
    <3>2. BatchKept(c)' <=> BatchKept(c)
      BY <1>1 DEF BatchKept
    <3>3. WriteKept(c)' /\ FramesKept(c)'
      BY <1>1, <2>1, <3>1 DEF WriteKept, FramesKept
    <3>4. RestartKept(c)'
      BY <1>1, <2>1, <3>2, Parts DEF RestartKept, Undoable
    <3> QED
      BY <3>3, <3>4
  <2>2. CASE pc[c] = "ctruncinfo"
    <3>1. ~Owned(c) /\ ~Owned(c)'
      BY <1>1, <2>2 DEF Owned, Writing, Marking
    <3> QED
      BY <1>1, <3>1, Parts, NotWriting DEF WriteKept
  <2> QED
    BY <1>1, <2>1, <2>2
<1>8. \A d \in Conns : Held(d)'
  BY <1>4, <1>5, <1>6, <1>7, HeldIs, NewInfoOthers
<1>9. \A d, e \in Conns : MarksHeeded(d, e)'
  BY <1>2 DEF MarksHeeded
<1> QED
  BY <1>1, <1>8, <1>9, NewInfoLatest DEF Moves, Content

LEMMA RestartEndContent ==
  ASSUME Inv, Order, Content, NEW c \in Conns, setting' = setting, RestartEnd(c)
  PROVE  Content'
<1>1. /\ Moves(c) /\ pc[c] = "restartinfo" /\ pc'[c] = "begin" /\ nBackfill' = 0
      /\ marksExcl' = None /\ DOMAIN readLock = Conns
      /\ UNCHANGED << db, idx, shm, writer, ckpter, zeroExcl, hdr, tmp, writing, ckpt, ghosts >>
  BY RestartEndMoves DEF RestartEnd, RestartInfo, Inv, Shaped, Content, Sized, Filled
<1>2. writer = c /\ readLock'[c] = -1
  BY <1>1, OwnerIs DEF Owned, Writing, RestartEnd
<1>3. shm[1] # NoHdr
  BY <1>1 DEF Order, NothingYet
<1>4. marksExcl = c /\ hdr[c] = shm[1] /\ hdr[c].mx = 0
  BY <1>1, Parts DEF LocksKept, Resetting, RestartKept
<1> QED
  BY <1>1, <1>2, <1>3, <1>4, NewInfoContent DEF NewInfo

LEMMA CkptTruncateContent ==
  ASSUME Inv, Order, Content, NEW c \in Conns, setting' = setting, CkptTruncate(c)
  PROVE  Content'
<1>1. /\ Moves(c) /\ pc[c] = "ctruncinfo" /\ pc'[c] = "cend" /\ nBackfill' = 0
      /\ marksExcl' = None
      /\ UNCHANGED << db, idx, shm, writer, ckpter, zeroExcl, reader, writing, ckpt, ghosts >>
  BY CkptTruncateMoves DEF CkptTruncate, RestartInfo, Inv, Shaped
<1>2. writer = c
  BY <1>1 DEF Inv, Kept, LockHeld
<1>3. shm[1] # NoHdr
  BY <1>1 DEF Order, NothingYet
<1>4. marksExcl = c /\ hdr[c] = shm[1] /\ hdr[c].mx = 0 /\ readLock[c] = -1
  BY <1>1, Parts, CkptIs DEF LocksKept, Resetting, CkptKept, CkptSteps
<1> QED
  BY <1>1, <1>2, <1>3, <1>4, NewInfoContent DEF NewInfo

(* What is recovered first of all is an empty log.                         *)
LEMMA RecoverIs ==
  ASSUME Inv, Order, Content, NEW c \in Conns, setting' = setting, Recover(c)
  PROVE  /\ Moves(c) /\ writer = c /\ pc[c] = "recover" /\ pc'[c] = "recovered"
         /\ shm[1] = NoHdr /\ shm'[1] = [mx |-> 0, salt |-> 0, last |-> 0] /\ hdr'[c] = shm'[1]
         /\ committed = 0 /\ committed' = 0 /\ nBackfill = 0
         /\ db = NoPages /\ hist[0] = NoPages /\ \A f \in Slots : idx'[f] = 0
         /\ \A d \in Conns : /\ readLock[d] = -1 /\ ~Owned(d) /\ ~Drawn(d)
                             /\ pc[d] \in {"idle", "chdr", "second", "dirty", "recover"}
         /\ UNCHANGED << files, nBackfill, marks, locks, tmp, readLock, mark, minFrame, writing,
                         ckpt, hist >>
<1> DEFINE h == [mx |-> 0, salt |-> 0, last |-> 0]
<1>1. Moves(c) /\ pc[c] = "recover" /\ pc'[c] = "recovered"
  BY RecoverMoves DEF Recover, Inv, Shaped
<1>2. shm[1] = NoHdr /\ writer = c
  BY <1>1 DEF Order, HeaderKnown, Inv, Kept, LockHeld
<1>3. Recovered(wal) = h
  BY <1>2, NothingRecovered
<1>4. shm'[1] = h /\ hdr'[c] = h /\ h.mx = 0
  BY <1>3 DEF Recover, Inv, Shaped
<1>5. /\ \A f \in Slots : f > 0 /\ idx'[f] = IF f <= h.mx THEN wal.frames[f].page ELSE 0
      /\ UNCHANGED << files, nBackfill, marks, locks, tmp, readLock, mark, minFrame, writing,
                      ckpt, hist >>
  BY <1>3, Bounds DEF Recover
<1>6. /\ committed = 0 /\ db = NoPages /\ hist[0] = NoPages /\ nBackfill = 0
      /\ \A d \in Conns : pc[d] \in {"idle", "chdr", "second", "dirty", "recover"}
  BY <1>2, Bounds DEF Order, NothingYet, Content, Latest
<1>7. committed' = 0
  <2>1. committed' = Max({0, 0}) /\ {0, 0} = {0}
    BY <1>3, <1>6 DEF Recover
  <2> QED
    BY <2>1, MaxZero
<1>8. ASSUME NEW d \in Conns PROVE readLock[d] = -1 /\ ~Owned(d) /\ ~Drawn(d)
  BY <1>6, Parts DEF LocksKept, Zeroed, Marked, Owned, Drawn, Writing, Marking
<1>9. \A f \in Slots : idx'[f] = 0
  BY <1>4, <1>5, Bounds
<1> HIDE DEF h
<1>10. hdr'[c] = shm'[1]
  BY <1>4
<1> QED
  BY <1>1, <1>2, <1>4, <1>5, <1>6, <1>7, <1>8, <1>9, <1>10 DEF h

LEMMA RecoverOthers ==
  ASSUME Inv, Order, Content, NEW c \in Conns, setting' = setting, Recover(c),
         NEW d \in Conns \ {c}
  PROVE  Held(d)'
<1>1. /\ Moves(c) /\ shm[1] = NoHdr /\ shm'[1].mx = 0 /\ shm'[1].salt = 0
      /\ committed' = committed /\ NoHdr.mx = 0 /\ NoHdr.salt = 0
      /\ pc[d] \in {"idle", "chdr", "second", "dirty", "recover"} /\ readLock[d] = -1
      /\ UNCHANGED << files, nBackfill, marks, locks, tmp, readLock, mark, minFrame, writing,
                      ckpt, hist >>
  BY RecoverIs, NoHdrIs
<1>2. Same(d) /\ ~Owned(d) /\ ~Owned(d)' /\ ~Drawn(d)' /\ ~Drawn(d) /\ Marks' = Marks
  BY <1>1, Others, RecoverIs
<1>3. LocksKept(d) /\ HeadersKept(d) /\ WriteKept(d) /\ CkptKept(d) /\ -1 \notin Marks
  BY Parts, NoMarkHeld
<1>4. LocksKept(d)' /\ MarksKept(d)' /\ ReaderSees(d)' /\ CkptKept(d)'
  BY <1>1, <1>2, <1>3 DEF LocksKept, MarksKept, ReaderSees, CkptKept, Checkpointing, Same
<1>5. HeadersKept(d)'
  BY <1>1, <1>2, <1>3 DEF HeadersKept, Older, Same
<1>6. WriteKept(d)' /\ RestartKept(d)' /\ FramesKept(d)'
  BY <1>1, <1>2, <1>3, NotWriting DEF WriteKept
<1> QED
  BY <1>4, <1>5, <1>6, HeldIs

LEMMA RecoverContent ==
  ASSUME Inv, Order, Content, NEW c \in Conns, setting' = setting, Recover(c)
  PROVE  Content'
<1>1. /\ Moves(c) /\ pc[c] = "recover" /\ pc'[c] = "recovered" /\ hdr'[c] = shm'[1]
      /\ shm[1] = NoHdr /\ shm'[1].mx = 0 /\ shm'[1].salt = 0 /\ shm'[1].last = 0
      /\ committed = 0 /\ committed' = 0 /\ nBackfill = 0 /\ NoHdr.mx = 0 /\ NoHdr.salt = 0
      /\ db = NoPages /\ hist[0] = NoPages /\ (\A d \in Conns : readLock[d] = -1)
      /\ ~Owned(c) /\ ~Drawn(c)
      /\ UNCHANGED << files, nBackfill, marks, locks, tmp, readLock, mark, minFrame, writing,
                      ckpt, hist >>
  BY RecoverIs, NoHdrIs
<1>2. -1 \notin Marks /\ 0 \notin Marks /\ Marks' = Marks
  BY NoMarkHeld
<1>3. ~Owned(c)' /\ ~Drawn(c)'
  BY <1>1 DEF Owned, Drawn, Writing, Marking
<1>4. LocksKept(c)' /\ MarksKept(c)' /\ ReaderSees(c)' /\ CkptKept(c)'
  BY <1>1, <1>2, Parts, NotCopying
     DEF LocksKept, MarksKept, ReaderSees, Checkpointing, Zeroed, Marked, Resetting, CkptSteps
<1>5. HeadersKept(c)'
  BY <1>1, <1>3, Parts DEF HeadersKept, Older
<1>6. WriteKept(c)' /\ RestartKept(c)' /\ FramesKept(c)'
  BY <1>1, <1>3, Parts, NotWriting DEF WriteKept
<1>7. Latest'
  <2>1. \A f \in 1 .. 0 : FALSE
    OBVIOUS
  <2>2. \A p \in Pages : Finds(wal'.frames, db', idx', 1, 0, p, hist'[0][p])
    BY <1>1, <2>1 DEF Finds
  <2>3. DOMAIN hist'[0] = Pages
    BY <1>1 DEF NoPages
  <2> QED
    BY <1>1, <2>1, <2>2, <2>3 DEF Latest
<1>8. \A d \in Conns : Held(d)'
  BY <1>4, <1>5, <1>6, HeldIs, RecoverOthers
<1>9. \A d, e \in Conns : MarksHeeded(d, e)'
  BY <1>1, <1>2 DEF MarksHeeded
<1> QED
  BY <1>1, <1>7, <1>8, <1>9 DEF Moves, Content
-----------------------------------------------------------------------------
(* Connections that come and go leave the log as it is. *)

LEMMA SameContent ==
  ASSUME Content, UNCHANGED << setting, files, shared, locks, pc, reader, writing, ckpt, ghosts >>
  PROVE  Content'
<1>1. /\ UNCHANGED << setting, db, wal, idx, shm, nBackfill, marks, zeroExcl, marksExcl, ckpter, pc,
                      hdr, tmp, readLock, mark, minFrame, txn, mine, dirty, saved, batch, last,
                      ckpt, hist, committed, writer >>
      /\ Marks' = Marks /\ Slots' = Slots /\ MaxFrames' = MaxFrames /\ MaxTxn' = MaxTxn
  BY SameBounds
<1>2. Sized'
  <2>1. Filled' /\ SizedShared' /\ SizedLog'
    BY <1>1 DEF Content, Sized, Filled, SizedShared, SizedLog, Numbered
  <2>2. ASSUME NEW c \in Conns PROVE SizedReader(c)' /\ SizedWriter(c)' /\ SizedCkpt(c)'
    BY <1>1 DEF Content, Sized, SizedReader, SizedWriter, SizedCkpt, Numbered
  <2> QED
    BY <2>1, <2>2 DEF Sized
<1>3. \A c \in Conns : (Owned(c)' <=> Owned(c)) /\ (Drawn(c)' <=> Drawn(c))
  BY <1>1 DEF Owned, Drawn
<1>4. Latest'
  BY <1>1, <1>3 DEF Content, Latest
<1>5. ASSUME NEW c \in Conns PROVE Held(c)'
  <2>1. LocksKept(c)' /\ HeadersKept(c)' /\ MarksKept(c)'
    BY <1>1, <1>3, Parts DEF LocksKept, HeadersKept, Older, MarksKept, Checkpointing
  <2>2. \A p, v : Sees(c, p, v)' <=> Sees(c, p, v)
    BY <1>1 DEF Sees
  <2>3. ReaderSees(c)'
    BY <1>1, <2>2, Parts DEF ReaderSees
  <2>4. BatchKept(c)' <=> BatchKept(c)
    BY <1>1 DEF BatchKept
  <2>5. WriteKept(c)'
    BY <1>1, <1>3, <2>2, Parts DEF WriteKept
  <2>6. RestartKept(c)'
    BY <1>1, <1>3, <2>4, Parts DEF RestartKept
  <2>7. Entries(c)' = Entries(c)
    BY <1>1 DEF Entries
  <2>8. FramesKept(c)'
    BY <1>1, <2>4, <2>7, Parts DEF FramesKept
  <2>9. CkptKept(c)'
    BY <1>1, Parts DEF CkptKept, SameLog
  <2> QED
    BY <2>1, <2>3, <2>5, <2>6, <2>8, <2>9, HeldIs
<1>6. ASSUME NEW c \in Conns, NEW d \in Conns PROVE MarksHeeded(c, d)'
  BY <1>1 DEF Content, MarksHeeded, SameLog
<1> QED
  BY <1>2, <1>4, <1>5, <1>6 DEF Content

(* Whoever opens the memory first finds nothing in it.                     *)
LEMMA OpenFirst ==
  ASSUME Inv, Order, Content, NEW c \in Conns, setting' = setting, Open(c), alive = {}
  PROVE  /\ Moves(c) /\ shm[1] = NoHdr /\ shm'[1] = NoHdr /\ nBackfill' = 0
         /\ \A d \in Conns : pc[d] = "idle" /\ readLock[d] = -1
         /\ UNCHANGED << files, locks, pc, reader, writing, ckpt, ghosts >>
<1>1. /\ SizedReader(c) /\ SizedWriter(c) /\ SizedCkpt(c) /\ SizedShared /\ SizedLog /\ Filled
      /\ Marks' = Marks /\ MaxFrames' = MaxFrames /\ Slots' = Slots /\ MaxTxn' = MaxTxn
      /\ MaxFrames \in Nat
  BY SameBounds, Bounds DEF Content, Sized
<1>2. /\ shm' = << NoHdr, NoHdr >> /\ idx' = [f \in Slots |-> 0] /\ nBackfill' = 0
      /\ marks' = [i \in Marks |-> 0]
      /\ UNCHANGED << files, locks, pc, reader, writing, ckpt, ghosts >>
  BY DEF Open
<1>3. shm'[1] = NoHdr /\ shm'[2] = NoHdr /\ NoHdr.mx = 0 /\ NoHdr.last = -1
  BY <1>2, NoHdrIs
<1>4. Filled' /\ SizedLog' /\ \A d \in Conns \ {c} : Unmoved(d)
  BY <1>1, <1>2 DEF Filled, SizedLog, Unmoved
<1>5. SizedShared'
  BY <1>1, <1>2, <1>3 DEF SizedShared, Numbered
<1>6. SizedReader(c)' /\ SizedWriter(c)' /\ SizedCkpt(c)'
  BY <1>1, <1>2 DEF SizedReader, SizedWriter, SizedCkpt, Numbered
<1>7. Inv' /\ Order' /\ Steps(c)
  BY OpenKeeps, OpenOrder DEF Ordered
<1>8. Moves(c)
  BY <1>4, <1>5, <1>6, <1>7, SizedStep DEF Content, Moves
<1>9. ASSUME NEW d \in Conns PROVE pc[d] = "idle" /\ readLock[d] = -1
  <2>1. pc[d] = "idle"
    BY DEF Inv, Kept, LockHeld
  <2> QED
    BY <2>1, Parts DEF LocksKept, Zeroed, Marked
<1> QED
  BY <1>2, <1>3, <1>8, <1>9 DEF Order, NothingYet

LEMMA OpenContent ==
  ASSUME Inv, Order, Content, NEW c \in Conns, setting' = setting, Open(c)
  PROVE  Content'
<1>1. CASE alive # {}
  BY <1>1, SameContent DEF Open
<1>2. CASE alive = {}
  <2>1. /\ Moves(c) /\ shm'[1] = shm[1] /\ shm'[1] = NoHdr /\ nBackfill' = 0 /\ NoHdr.mx = 0
        /\ \A d \in Conns : pc[d] = "idle" /\ readLock[d] = -1
        /\ UNCHANGED << files, locks, pc, reader, writing, ckpt, ghosts >>
        /\ -1 \notin Marks /\ Marks' = Marks /\ NoHdr' = NoHdr
    BY <1>2, OpenFirst, NoHdrIs, NoMarkHeld DEF NoHdr
  <2>2. ASSUME NEW d \in Conns PROVE Held(d)'
    <3>1. ~Owned(d) /\ ~Owned(d)' /\ ~Drawn(d) /\ ~Drawn(d)'
      BY <2>1 DEF Owned, Drawn, Writing, Marking
    <3>2. LocksKept(d)' /\ MarksKept(d)' /\ ReaderSees(d)' /\ CkptKept(d)'
      BY <2>1, Parts DEF LocksKept, MarksKept, ReaderSees, CkptKept, Checkpointing
    <3>3. HeadersKept(d)'
      BY <2>1, <3>1, Parts DEF HeadersKept, Older
    <3>4. WriteKept(d)' /\ RestartKept(d)' /\ FramesKept(d)'
      BY <2>1, <3>1, Parts, NotWriting DEF WriteKept
    <3> QED
      BY <3>2, <3>3, <3>4, HeldIs
  <2>3. Latest'
    BY <2>1 DEF Latest
  <2>4. \A d, e \in Conns : MarksHeeded(d, e)'
    BY <2>1 DEF MarksHeeded
  <2> QED
    BY <2>1, <2>2, <2>3, <2>4 DEF Moves, Content
<1> QED
  BY <1>1, <1>2

LEMMA GoneContent ==
  ASSUME Inv, Order, Content, NEW c \in Conns, setting' = setting, Forget({c}),
         alive' = alive \ {c}, c \in alive, alive # {c}, writer # c, writer' = writer,
         Lock(ckpter, ckpter', c), zeroExcl' = Dropped(zeroExcl, c),
         marksExcl' = Dropped(marksExcl, c), UNCHANGED << files, shared, ghosts >>
  PROVE  Content'
<1>1. /\ SizedReader(c) /\ SizedWriter(c) /\ SizedCkpt(c) /\ SizedShared /\ SizedLog /\ Filled
      /\ Marks' = Marks /\ MaxFrames' = MaxFrames /\ Slots' = Slots /\ MaxTxn' = MaxTxn
      /\ MaxFrames \in Nat /\ c # None
  BY SameBounds, Bounds, SomeConn DEF Content, Sized
<1>2. /\ pc'[c] = "idle" /\ hdr'[c] = NoHdr /\ tmp'[c] = NoHdr /\ readLock'[c] = -1
      /\ mark'[c] = NoMark /\ minFrame'[c] = 0 /\ mine'[c] = NoPages /\ dirty'[c] = {}
      /\ saved'[c] = NoSaved /\ batch'[c] = NoBatch /\ last'[c] = 0 /\ ckpt'[c] = NoCkpt
      /\ \A d \in Conns \ {c} : Unmoved(d)
      /\ Filled'
  BY DEF Forget, Unmoved, Filled
<1>3. SizedShared' /\ SizedLog'
  BY <1>1 DEF SizedShared, SizedLog, Numbered, Dropped
<1>4. SizedReader(c)' /\ SizedWriter(c)' /\ SizedCkpt(c)'
  BY <1>1, <1>2, Kinds DEF SizedReader, SizedWriter, SizedCkpt, Numbered
<1>5. Inv' /\ Order' /\ Steps(c)
  BY GoneKeeps, GoneOrder DEF Ordered, Dropped
<1>6. Moves(c)
  BY <1>2, <1>3, <1>4, <1>5, SizedStep DEF Content, Moves
<1>7. ~Owned(c) /\ ~Drawn(c) /\ pc[c] \notin {"restartinfo", "ctruncinfo"} /\ ~Owned(c)' /\ ~Drawn(c)'
  BY <1>2 DEF Inv, Kept, LockHeld, Owned, Drawn, Writing, Marking
<1>8. Hidden(c)
  BY <1>1, <1>2, <1>7, NoHdrIs
     DEF Hidden, LogUnchanged, LocksUnchanged, Lock, SaltsKnown, Dropped
<1>9. -1 \notin Marks /\ saved'[c] = saved[c]
  BY <1>2, <1>7, NoMarkHeld, Parts DEF WriteKept
<1>10. LocksKept(c)'
  BY <1>1, <1>2, <1>9, Kinds DEF LocksKept, Zeroed, Marked, Resetting, Checkpointing, Dropped
<1>11. HeadersKept(c)'
  BY <1>2, <1>6, <1>7, <1>8, HeadersStay
<1>12. MarksKept(c)' /\ ReaderSees(c)' /\ CkptKept(c)'
  BY <1>1, <1>2, <1>9 DEF MarksKept, ReaderSees, CkptKept
<1>13. \A d \in Conns \ {c} : MarksHeeded(d, c)' /\ MarksHeeded(c, d)'
  BY <1>2, <1>6, <1>8, <1>9, NobodyHeeds, StillHeeded
<1> QED
  BY <1>6, <1>7, <1>8, <1>9, <1>10, <1>11, <1>12, <1>13, AsideContent

LEMMA CloseContent ==
  ASSUME Inv, Order, Content, NEW c \in Conns, setting' = setting, Close(c), alive # {c},
         writer # c
  PROVE  Content'
<1>1. pc[c] = "idle" /\ c \in alive /\ UNCHANGED << files, shared, locks, ghosts >>
  BY DEF Close
<1>2. zeroExcl # c /\ marksExcl # c
  BY <1>1, Parts DEF LocksKept, Resetting
<1> QED
  BY <1>1, <1>2, GoneContent DEF Close, Dropped, Lock

LEMMA CrashContent ==
  ASSUME Inv, Order, Content, NEW c \in Conns, setting' = setting, Crash(c), alive # {c},
         writer # c
  PROVE  Content'
BY GoneContent DEF Crash, Dropped, Lock
-----------------------------------------------------------------------------
LEMMA InitialContent == Init => Content
<1> SUFFICES ASSUME Init PROVE Content
  OBVIOUS
<1>1. Inv /\ NoHdr.mx = 0 /\ NoHdr.last = -1 /\ NoHdr.salt = 0 /\ shm[1] = NoHdr /\ shm[2] = NoHdr
  BY Initially, NoHdrIs DEF Init
<1>2. /\ MaxFrames \in Nat /\ MaxTxn \in Nat /\ setting.marks \in Nat /\ Marks = 1 .. setting.marks
      /\ -1 \notin Marks /\ Slots = 1 .. MaxFrames
  BY <1>1, Bounds
<1>3. Sized
  <2>1. Filled
    BY DEF Init, Filled
  <2>2. SizedShared
    BY <1>1, <1>2 DEF Init, SizedShared, Numbered, NoPages
  <2>3. SizedLog
    BY <1>2 DEF Init, SizedLog, EmptyLog, IsFrame, NoFrame
  <2>4. ASSUME NEW c \in Conns PROVE SizedReader(c) /\ SizedWriter(c) /\ SizedCkpt(c)
    BY <1>1, <1>2, Kinds DEF Init, SizedReader, SizedWriter, SizedCkpt, Numbered
  <2> QED
    BY <2>1, <2>2, <2>3, <2>4 DEF Sized
<1>4. Latest
  BY <1>1 DEF Init, Latest
<1>5. ASSUME NEW c \in Conns PROVE Held(c)
  <2>1. /\ c # None /\ pc[c] = "idle" /\ readLock[c] = -1 /\ hdr[c] = NoHdr /\ tmp[c] = NoHdr
        /\ saved[c] = NoSaved /\ ckpt[c].mode = "none" /\ writer = None /\ committed = 0
        /\ zeroExcl = None /\ marksExcl = None
    BY SomeConn, <1>1, Kinds DEF Init
  <2>2. ~Owned(c) /\ ~Drawn(c)
    BY <2>1 DEF Owned, Drawn, Writing, Marking
  <2>3. LocksKept(c) /\ MarksKept(c) /\ ReaderSees(c) /\ CkptKept(c)
    BY <1>2, <2>1
       DEF LocksKept, MarksKept, ReaderSees, CkptKept, Zeroed, Marked, Resetting, Checkpointing
  <2>4. HeadersKept(c)
    BY <1>1, <2>1, <2>2 DEF HeadersKept, Older
  <2>5. WriteKept(c) /\ RestartKept(c) /\ FramesKept(c)
    BY <2>1, <2>2 DEF WriteKept, RestartKept, FramesKept
  <2> QED
    BY <2>3, <2>4, <2>5 DEF Held
<1>6. ASSUME NEW c \in Conns, NEW d \in Conns PROVE MarksHeeded(c, d)
  BY <1>2 DEF Init, MarksHeeded
<1> QED
  BY <1>3, <1>4, <1>5, <1>6 DEF Content

LEMMA StepContent ==
  ASSUME Inv, Order, Content, NEW c \in Conns, setting' = setting, Step(c) PROVE Content'
<1>1. ASSUME NEW p \in Pages, Modify(c, p) \/ Spill(c, p) PROVE Content'
  BY <1>1, ModifyContent, SpillContent
<1> QED
  BY <1>1, ReadFirstContent, ReadSecondContent, RereadContent, RecoverContent,
     RecoverInfoContent, BeginZeroContent, CheckZeroContent, ChooseMarkContent,
     LockMarkContent, VerifyContent, EndReadContent, BeginWriteContent, OpenSavepointContent,
     RollbackToContent, RollbackContent, CommitContent, RestartLogContent,
     RestartHeaderContent, RestartEndContent, WriteLogHeaderContent, WriteFrameContent,
     RechecksumContent, IndexFramesContent, PublishContent, CkptBeginContent,
     CkptStartContent, CkptMarkContent, CkptPlanContent, CkptLockContent, CkptSyncContent,
     CkptCopyContent, CkptFillContent, CkptInterruptContent, CkptResetContent,
     CkptResetHeaderContent, CkptTruncateContent, CkptEndContent
     DEF Step

LEMMA CalmContent ==
  ASSUME Inv, Order, Content, [Next]_vars, [Calm]_vars PROVE Content'
<1>1. CASE UNCHANGED vars
  BY <1>1, SameContent DEF vars
<1>2. CASE Next /\ Calm
  <2>1. setting' = setting
    BY <1>2 DEF Next
  <2>2. PICK c \in Conns : Open(c) \/ Close(c) \/ Crash(c) \/ Step(c)
    BY <1>2 DEF Next, Calm
  <2>3. Close(c) \/ Crash(c) => alive # {c} /\ writer # c
    BY <1>2 DEF Calm
  <2> QED
    BY <2>1, <2>2, <2>3, OpenContent, CloseContent, CrashContent, StepContent
<1> QED
  BY <1>1, <1>2

(* Whoever reads looks into the frames from the first on, or at none.      *)
LEMMA LooksFromFirst ==
  ASSUME Inv, Content, NEW c \in Conns, pc[c] \in {"read", "write"}, readLock[c] # 0
  PROVE  minFrame[c] >= 1
<1>1. readLock[c] \in Marks /\ nBackfill \in Nat
  BY Parts, Numbers DEF LocksKept, Content
<1> QED
  BY <1>1, Parts DEF MarksKept

LEMMA ContentShows ==
  ASSUME Inv, Content PROVE SnapshotKept /\ SpilledReadBack
<1>1. ASSUME NEW c \in Conns, pc[c] = "read", NEW p \in Pages
      PROVE  View(c, p) = hist[hdr[c].last][p]
  <2>1. Sees(c, p, hist[hdr[c].last][p])
    BY <1>1, Parts DEF ReaderSees
  <2> QED
    BY <1>1, <2>1, LooksFromFirst, ViewIs DEF Content
<1>2. ASSUME NEW c \in Conns, pc[c] = "write", NEW p \in Pages \ dirty[c]
      PROVE  View(c, p) = mine[c][p]
  <2>1. Sees(c, p, mine[c][p])
    BY <1>2, Parts DEF WriteKept
  <2> QED
    BY <1>2, <2>1, LooksFromFirst, ViewIs DEF Content
<1> QED
  BY <1>1, <1>2 DEF SnapshotKept, SpilledReadBack

LEMMA CalmKeeps == Inv /\ Order /\ Content /\ [Next]_vars /\ [Calm]_vars => (Inv /\ Order /\ Content)'
BY NextKeeps, CalmStep, CalmContent

(* A reader finds in every page what its snapshot holds, whatever writers, *)
(* checkpoints and restarts of the log do meanwhile (walFindFrame looks no *)
(* further than mxFrame and minFrame, and the marks keep checkpoints and   *)
(* restarts behind them), as long as it is calm.                           *)
THEOREM ReadersSeeSnapshot == Spec /\ [][Calm]_vars => []SnapshotKept
<1>1. Init => Inv /\ Order /\ Content
  BY Initially, InitialOrder, InitialContent
<1>2. Inv /\ Content => SnapshotKept
  BY ContentShows
<1> QED
  BY <1>1, <1>2, CalmKeeps, PTL DEF Spec

(* A writer reads back from the log what it has spilled there, and after   *)
(* ROLLBACK TO what the savepoint has restored: frames of its own that it  *)
(* overwrites or takes back never show, as long as it is calm.             *)
THEOREM WritersReadBack == Spec /\ [][Calm]_vars => []SpilledReadBack
<1>1. Init => Inv /\ Order /\ Content
  BY Initially, InitialOrder, InitialContent
<1>2. Inv /\ Content => SpilledReadBack
  BY ContentShows
<1> QED
  BY <1>1, <1>2, CalmKeeps, PTL DEF Spec
=============================================================================
