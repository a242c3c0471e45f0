----------------------------- MODULE VfsRegistry -----------------------------
(***************************************************************************)
(* The C wrappers of VFSes implemented in Go (build/vfs.c).  Go keeps the  *)
(* registry of VFSes, which other goroutines may change at any time, also  *)
(* between two calls of go_vfs_find.  sqlite3_vfs_find makes a wrapper for *)
(* a name when a file is first opened through it, keeps wrappers in a list *)
(* and, before it makes another, frees those whose VFS Go does not know.   *)
(***************************************************************************)
EXTENDS Integers, Sequences, SequencesExt

CONSTANTS Names,     \* names of Go VFSes
          Os,        \* the name of the default VFS
          Addrs,     \* bound: addresses malloc returns for wrappers
          Files,     \* database files, main or attached, that may be open
          None       \* no name, no wrapper, not open

ASSUME NamesAssumption == Os \notin Names /\ None \notin Names \cup {Os}
ASSUME AddrsAssumption == {Os, None} \cap Addrs = {}
ASSUME FilesAssumption == None \notin Files

VARIABLES
  registered,    \* the VFSes Go knows
  list,          \* go_vfs_list, as a sequence of addresses
  memory,        \* the name in the wrapper at each address, None if freed
  finding,       \* the call of sqlite3_vfs_find that sweeps the list
  open,          \* the wrapper each open file uses, and the name it asked for
  kept           \* files whose VFS was registered ever since they were opened

registryVars == << registered, list, memory, finding, open, kept >>

Idle   == [file |-> None, name |-> None, at |-> 0]
Closed == [vfs |-> None, name |-> None]

Wrapped == {memory[list[i]] : i \in DOMAIN list}

Opened(f, a, n) ==
  /\ open' = [open EXCEPT ![f] = [vfs |-> a, name |-> n]]
  /\ kept' = IF n \in registered THEN kept \cup {f} ELSE kept

RegistryInit ==
  /\ registered = {}
  /\ list = << >>
  /\ memory = [a \in Addrs |-> None]
  /\ finding = Idle
  /\ open = [f \in Files |-> Closed]
  /\ kept = {}
-----------------------------------------------------------------------------
(* sqlite3_vfs_find.  A name Go does not know finds nothing, and the file  *)
(* is not opened.                                                          *)
FindOs(f) ==
  /\ finding = Idle /\ open[f] = Closed
  /\ Opened(f, Os, Os)
  /\ UNCHANGED << registered, list, memory, finding >>

FindWrapper(f, n) ==
  /\ finding = Idle /\ open[f] = Closed
  /\ n \in registered
  /\ \E i \in DOMAIN list : memory[list[i]] = n /\ Opened(f, list[i], n)
  /\ UNCHANGED << registered, list, memory, finding >>

\* Mutant: the list is not searched.
FindWithoutSearch(f, n) ==
  /\ finding = Idle /\ open[f] = Closed
  /\ n \in registered
  /\ finding' = [file |-> f, name |-> n, at |-> 1]
  /\ UNCHANGED << registered, list, memory, open, kept >>

FindNothing(f, n) ==
  /\ finding = Idle /\ open[f] = Closed
  /\ n \in registered \ Wrapped
  /\ finding' = [file |-> f, name |-> n, at |-> 1]
  /\ UNCHANGED << registered, list, memory, open, kept >>

Advance == finding' = [finding EXCEPT !.at = @ + 1]

\* Mutants of the sweep: a wrapper that Go still knows is freed, and no other;
\* the sweep does not move on.
SweepInverted ==
  /\ finding # Idle /\ finding.at <= Len(list)
  /\ IF memory[list[finding.at]] \notin registered
     THEN Advance /\ UNCHANGED << list, memory >>
     ELSE /\ memory' = [memory EXCEPT ![list[finding.at]] = None]
          /\ list' = RemoveAt(list, finding.at)
          /\ UNCHANGED finding
  /\ UNCHANGED << registered, open, kept >>
SweepStays ==
  /\ finding # Idle /\ finding.at <= Len(list)
  /\ memory[list[finding.at]] \notin registered
  /\ memory' = [memory EXCEPT ![list[finding.at]] = None]
  /\ list' = RemoveAt(list, finding.at)
  /\ UNCHANGED << registered, finding, open, kept >>

(* One turn of the loop; each asks Go anew.                                *)
Sweep ==
  /\ finding # Idle /\ finding.at <= Len(list)
  /\ IF memory[list[finding.at]] \in registered
     THEN Advance /\ UNCHANGED << list, memory >>
     ELSE /\ memory' = [memory EXCEPT ![list[finding.at]] = None]
          /\ list' = RemoveAt(list, finding.at)
          /\ UNCHANGED finding
  /\ UNCHANGED << registered, open, kept >>

Create ==
  /\ finding # Idle /\ finding.at > Len(list)
  /\ \E a \in Addrs :
       /\ memory[a] = None
       /\ memory' = [memory EXCEPT ![a] = finding.name]
       /\ list' = << a >> \o list
       /\ Opened(finding.file, a, finding.name)
  /\ finding' = Idle
  /\ UNCHANGED registered

Close(f) ==
  /\ finding = Idle /\ open[f] # Closed
  /\ open' = [open EXCEPT ![f] = Closed]
  /\ kept' = kept \ {f}
  /\ UNCHANGED << registered, list, memory, finding >>
-----------------------------------------------------------------------------
(* Go's registry. *)

Register(n) ==
  /\ n \notin registered
  /\ registered' = registered \cup {n}
  /\ UNCHANGED << list, memory, finding, open, kept >>

Unregister(n) ==
  /\ n \in registered
  /\ registered' = registered \ {n}
  /\ kept' = {f \in kept : open[f].name # n}
  /\ UNCHANGED << list, memory, finding, open >>

Find == Sweep \/ Create

RegistryNext ==
  \/ Find
  \/ \E f \in Files :
       \/ FindOs(f) \/ Close(f)
       \/ \E n \in Names : FindWrapper(f, n) \/ FindNothing(f, n)
  \/ \E n \in Names : Register(n) \/ Unregister(n)

(* A call of sqlite3_vfs_find that has begun runs on.                      *)
RegistrySpec == RegistryInit /\ [][RegistryNext]_registryVars /\ WF_registryVars(Find)
-----------------------------------------------------------------------------
RegistryTypeOK ==
  /\ registered \subseteq Names
  /\ list \in Seq(Addrs)
  /\ memory \in [Addrs -> Names \cup {None}]
  /\ finding \in [file : Files \cup {None}, name : Names \cup {None}, at : Nat]
  /\ finding.at <= Len(list) + 1
  /\ open \in [Files -> [vfs : Addrs \cup {Os, None}, name : Names \cup {Os, None}]]
  /\ kept \subseteq Files

(* The list holds each allocated wrapper once, no freed one, and no two    *)
(* for one name, so that the search cannot find a stale one: also while    *)
(* sqlite3_vfs_find is between two calls to Go.                            *)
ListMatchesMemory ==
  /\ \A i, j \in DOMAIN list : memory[list[i]] = memory[list[j]] => i = j
  /\ {list[i] : i \in DOMAIN list} = {a \in Addrs : memory[a] # None}

(* A file whose VFS Go has kept uses the wrapper it was opened with, for   *)
(* the VFS it asked for, whatever other VFSes come and go.                 *)
UsersKeepWrapper ==
  \A f \in kept : open[f].vfs \in Addrs /\ memory[open[f].vfs] = open[f].name

(* build/vfs.c:167: "Delete C wrappers that are no longer needed."  One    *)
(* that an open file uses is needed.                                       *)
NeededWrapperKept ==
  \A f \in Files : open[f].vfs \in Addrs => memory[open[f].vfs] = open[f].name

(* sqlite3_vfs_find returns, although Go may change its mind about every   *)
(* wrapper the sweep has passed, or has not yet reached.                   *)
FindReturns == finding # Idle ~> finding = Idle
=============================================================================
