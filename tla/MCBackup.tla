------------------------------- MODULE MCBackup -------------------------------
(***************************************************************************)
(* One backup of three pages, or two of two, of each kind of source.       *)
(***************************************************************************)
EXTENDS Backup

CONSTANTS x, y

MCSettings ==
  [kind : {"journal", "wal", "memory"}, backups : {{x}}, pages : {3}, writes : {3}]
  \cup [kind : {"journal", "wal", "memory"}, backups : {{x, y}}, pages : {2}, writes : {2}]
=============================================================================
