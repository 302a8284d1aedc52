---------------------------- MODULE PrivateFiles ----------------------------
(***************************************************************************)
(* The files of one private directory, as internal/privatefs leaves them.  *)
(* A directory maps each path to [now, durable]: what a process reads      *)
(* there, and what a crash may bring back until the directory is synced.   *)
(* None is no file; Torn is a file whose content was never written in full.*)
(***************************************************************************)
CONSTANTS None, Torn

Path(Contents) == [now     : Contents \cup {None, Torn},
                   durable : Contents \cup {None, Torn}]

NoFile == [now |-> None, durable |-> None]

(***************************************************************************)
(* OpenNewFile creates with O_EXCL: the caller's guard is that there is no *)
(* file.  The new file is empty.                                           *)
(***************************************************************************)
OpenNewFile(dir, p) == [dir EXCEPT ![p].now = Torn]

(***************************************************************************)
(* writeAndClose writes and syncs the content; ReplaceFile renames a       *)
(* written temporary file over the path.  Neither syncs the directory.     *)
(***************************************************************************)
Written(dir, p, content) == [dir EXCEPT ![p].now = content]

Removed(dir, p) == [dir EXCEPT ![p].now = None]

(* SyncDirectory makes every entry of the directory durable.               *)
SyncDirectory(dir) ==
  [p \in DOMAIN dir |-> [now |-> dir[p].now, durable |-> dir[p].now]]

(***************************************************************************)
(* A crash keeps or loses each change of an entry that was not synced.     *)
(***************************************************************************)
Unsynced(dir) == {p \in DOMAIN dir : dir[p].now # dir[p].durable}

Survivor(entry, lost) ==
  LET content == IF lost THEN entry.durable ELSE entry.now
  IN  [now |-> content, durable |-> content]

AfterCrash(dir) ==
  {[p \in DOMAIN dir |-> Survivor(dir[p], p \in lost)] : lost \in SUBSET Unsynced(dir)}
=============================================================================
