-------------------------------- MODULE FsShell --------------------------------
(***************************************************************************)
(* my_fs_shell/zephyr/shell.c: the commands of the fs shell that change the   *)
(* file system, and the little of littlefs they and the log backend rely on.  *)
(* A path is a sequence of names; a file is the number of units it holds.     *)
(* A handle has its own view of the file, which replaces the file when the    *)
(* handle is synced or closed; removing a file orphans the open handles.      *)
(***************************************************************************)
EXTENDS Integers, Sequences, FiniteSetsExt

CONSTANTS Mnt, Log, Other,  \* names: the mount point, the log directory, a file
          Dir, Closed,      \* values of the disk and of the shell's handle
          MaxFileNumeral, Capacity,
          ShellMax, WriteMax, \* bounds: commands that change something; units written
          TypedNumerals       \* bound: the log files the user names
ASSUME ShellAssumption ==
    /\ MaxFileNumeral \in Nat /\ ShellMax \in Nat /\ WriteMax \in Nat \ {0}
    /\ Other \notin 0 .. MaxFileNumeral /\ Dir \notin Nat

VARIABLES disk,    \* path -> Dir, or the units in the file
          cwd,     \* the shell's working directory
          sh,      \* the handle of the write under way: path and units, or Closed
          cmds     \* bound: commands left
shellVars == <<cwd, sh, cmds>>

Numerals == 0 .. MaxFileNumeral
LogDir == <<Mnt, Log>>
LogPath(num) == <<Mnt, Log, num>>
Parent(path) == SubSeq(path, 1, Len(path) - 1)
IsDir(path) == path \in DOMAIN disk /\ disk[path] = Dir
IsFile(path) == path \in DOMAIN disk /\ disk[path] # Dir
Used == MapThenSumSet(LAMBDA p : IF disk[p] = Dir THEN 0 ELSE disk[p], DOMAIN disk)
Put(path, value) == [p \in DOMAIN disk \cup {path} |-> IF p = path THEN value ELSE disk[p]]

\* fs_unlink: a file or an empty directory, and never the mount point.
Removable(path) == /\ path \in DOMAIN disk \ {<<Mnt>>}
                   /\ \A p \in DOMAIN disk : Parent(p) # path
Without(path) == [p \in DOMAIN disk \ {path} |-> disk[p]]

ShellInit == /\ disk = [p \in {<<Mnt>>} |-> Dir]
             /\ cwd = <<>> /\ sh = Closed /\ cmds = ShellMax
-------------------------------------------------------------------------------
\* Names the user types: absolute ones, and ones relative to cwd.
Args == {[abs |-> TRUE, names |-> p] : p \in {LogDir} \cup {LogPath(n) : n \in TypedNumerals}}
        \cup {[abs |-> FALSE, names |-> <<Other>>]}

create_abs_path(arg) == IF arg.abs THEN arg.names ELSE cwd \o arg.names

Typed == {create_abs_path(arg) : arg \in Args}
Command == sh = Closed /\ cmds > 0 /\ cmds' = cmds - 1

\* The path is stored as it was typed when it is a directory now.
cmd_cd == /\ sh = Closed
          /\ \/ cwd' = <<>>
             \/ cwd # <<>> /\ cwd' = Parent(cwd)
             \/ \E path \in Typed : IsDir(path) /\ cwd' = path
          /\ UNCHANGED <<disk, sh, cmds>>

cmd_mkdir(path) == /\ Command
                   /\ path \notin DOMAIN disk /\ IsDir(Parent(path)) /\ Len(path) <= 3
                   /\ disk' = Put(path, Dir)
                   /\ UNCHANGED <<cwd, sh>>

cmd_rm(path) == /\ Command
                /\ Removable(path)
                /\ disk' = Without(path)
                /\ UNCHANGED <<cwd, sh>>

\* The handle of cmd_trunc is open for one command of the file system only.
cmd_trunc(path) == /\ Command
                   /\ IsFile(path)
                   /\ \E length \in 0 .. WriteMax : disk' = Put(path, length)
                   /\ UNCHANGED <<cwd, sh>>

\* cmd_write opens or creates the file and seeks to its end or to an offset, ...
cmd_write(path) ==
    /\ Command
    /\ \/ IsFile(path)
       \/ path \notin DOMAIN disk /\ IsDir(Parent(path)) /\ Len(path) <= 3
    /\ LET size == IF IsFile(path) THEN disk[path] ELSE 0
       IN  /\ disk' = Put(path, size)
           /\ \E n \in 1 .. WriteMax, offset \in 0 .. size :
                 sh' = [path |-> path, size |-> IF offset + n > size THEN offset + n ELSE size]
    /\ UNCHANGED cwd

\* ... and the close after fs_write stores its view, when there was room for it.
WriteDone ==
    /\ sh # Closed
    /\ sh' = Closed
    /\ IF IsFile(sh.path) /\ Used - disk[sh.path] + sh.size <= Capacity
       THEN disk' = Put(sh.path, sh.size) ELSE UNCHANGED disk
    /\ UNCHANGED <<cwd, cmds>>
================================================================================
