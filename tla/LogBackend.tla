------------------------------ MODULE LogBackend -------------------------------
(***************************************************************************)
(* log_backend_my_fs.c, with OVERWRITE on, and the fs shell that works on the *)
(* same directory.  The log thread runs one call of the file system per step; *)
(* the shell and a power cut may come between any two.  The caller of         *)
(* write_log_to_file, log_output, calls it again until a record is taken.     *)
(***************************************************************************)
EXTENDS FsShell

CONSTANTS FilesLimit, FileSize
\* A record is the content of a buffer that is smaller than a file.
ASSUME LogAssumption == /\ FilesLimit \in Nat \ {0} /\ FileSize \in Nat \ {0}
                        /\ MaxFileNumeral >= 3 * FilesLimit - 1
                        /\ WriteMax <= FileSize

VARIABLES backend_state, file_ctr, newest, oldest,
          file,    \* the handle: path, units, and whether the file still exists
          shortWrites, \* a full file system: fs_write returns a short count, or an error
          mounted, \* the volume is mounted
          pc, then, \* the next call; what follows the allocation of a file
          target,  \* curr_file_num in allocate_new_file
          len,     \* what is left of the record
          stored,  \* whether write_log_to_file returns the length
          older,   \* history: pairs of log files there are, the first the older one
          kept,    \* history: units of records taken into the open file
          meddled  \* history: what the shell did to log files: "add", "rm", "edit",
                   \* and "full" when others have left no room for a whole log file
log     == <<backend_state, file_ctr, newest, oldest, file, mounted, pc, then, target, len,
             stored>>
history == <<older, kept, meddled>>
vars    == <<disk, shellVars, log, history, shortWrites>>

NoFile == [path |-> <<>>, size |-> 0, live |-> FALSE]
Next1(num) == (num + 1) % (MaxFileNumeral + 1)
Goto(place) == pc' = place
Missing(num) == {pair \in older : num \notin {pair[1], pair[2]}}

\* The files get_log_file_id recognises.
LogFiles == {n \in Numerals : IsFile(LogPath(n))}

Init == /\ ShellInit
        /\ backend_state = "not" /\ file_ctr = 0 /\ newest = 0 /\ oldest = 0
        /\ file = NoFile /\ mounted = FALSE /\ pc = "idle" /\ then = "tell"
        /\ target = 0 /\ len = 0 /\ stored = TRUE
        /\ shortWrites \in BOOLEAN
        /\ older = {} /\ kept = 0 /\ meddled = {}

LogTypeOK ==
    /\ backend_state \in {"not", "corrupted", "ok"}
    /\ file_ctr \in -ShellMax .. FilesLimit + ShellMax
    /\ {newest, oldest, target} \subseteq Numerals
    /\ file.path \in {<<>>} \cup {LogPath(n) : n \in Numerals} /\ file.size \in 0 .. FileSize
    /\ file.live => IsFile(file.path)
    /\ pc \in {"idle", "tell", "make", "write", "sweep", "check", "sync"}
    /\ then \in {"tell", "write", "sync"}
    /\ len \in 0 .. WriteMax /\ kept \in 0 .. FileSize
    /\ \A p \in DOMAIN disk : Parent(p) = <<>> \/ IsDir(Parent(p))
-------------------------------------------------------------------------------
Corrupt == /\ backend_state' = "corrupted" /\ Goto("idle") /\ len' = 0
           /\ UNCHANGED <<file_ctr, newest, oldest, file, mounted, then, target, stored>>

\* Mutant: the numbers are taken for contiguous whatever their distance.
newest_and_oldest_flat ==
    <<IF LogFiles = {} THEN 0 ELSE Max(LogFiles),
      IF LogFiles = {} THEN MaxFileNumeral ELSE Min(LogFiles)>>

\* The first loop of allocate_new_file, over the directory as it is after a start.
newest_and_oldest ==
    LET max == IF LogFiles = {} THEN 0 ELSE Max(LogFiles)
        min == IF LogFiles = {} THEN MaxFileNumeral ELSE Min(LogFiles)
    IN  IF Cardinality(LogFiles) > 1 /\ max - min > 2 * FilesLimit
        THEN <<Max({n \in LogFiles : n < min + FilesLimit}),
               Min({n \in LogFiles : n > max - FilesLimit})>>
        ELSE <<max, min>>

Initialise(found) ==
    /\ backend_state' = "ok" /\ newest' = found[1] /\ oldest' = found[2]
    /\ file_ctr' = Cardinality(LogFiles)
    /\ target' = IF LogFiles = {} THEN found[1] ELSE Next1(found[1])
    /\ Goto("make") /\ then' = "tell"

\* create_log_dir fails for good when a file has the name of the directory.
NoDirectory == /\ pc = "idle" /\ backend_state = "not" /\ mounted /\ IsFile(LogDir)
               /\ Corrupt
               /\ UNCHANGED <<disk, shellVars, history>>

\* A record arrives: write_log_to_file in each state of the backend.  The first
\* one creates the directory and looks for the last used number.
Record ==
    /\ pc = "idle" /\ backend_state # "corrupted"
    /\ backend_state = "not" => mounted /\ ~ IsFile(LogDir)
    /\ len' \in 1 .. WriteMax
    /\ stored' = TRUE
    /\ IF backend_state = "ok"
       THEN Goto("tell") /\ UNCHANGED <<disk, backend_state, file_ctr, newest, oldest, target, then>>
       ELSE /\ disk' = IF IsDir(LogDir) THEN disk ELSE Put(LogDir, Dir)
            /\ Initialise(newest_and_oldest)
    /\ UNCHANGED <<shellVars, file, mounted, history>>

\* fs_sync and fs_close store what the handle holds; of a file that is gone, nothing.
Synced == IF file.live THEN Put(file.path, file.size) ELSE disk

\* A record that does not fit closes the file and allocates the next one.
Tell ==
    /\ pc = "tell"
    /\ IF file.size + len > FileSize
       THEN disk' = Synced /\ Goto("make") /\ then' = "write" /\ target' = Next1(newest)
       ELSE Goto("write") /\ UNCHANGED <<disk, then, target>>
    /\ UNCHANGED <<shellVars, backend_state, file_ctr, newest, oldest, file, mounted, len,
                   stored, history>>

\* Mutant: the number is left alone when there is no such file.
UnlinkStuck(onSuccess, onError) ==
    LET path == LogPath(oldest)
    IN  \/ /\ path \notin DOMAIN disk
           /\ UNCHANGED <<disk, older, backend_state, file_ctr, newest, oldest, file, mounted, pc, then,
                          target, len, stored>>
        \/ /\ Removable(path)
           /\ disk' = Without(path) /\ older' = Missing(oldest)
           /\ oldest' = Next1(oldest) /\ file_ctr' = file_ctr - 1
           /\ file' = [file EXCEPT !.live = @ /\ file.path # path]
           /\ Goto(onSuccess)
           /\ UNCHANGED <<backend_state, newest, mounted, then, target, len, stored>>
        \/ /\ path \in DOMAIN disk /\ ~ Removable(path)
           /\ onError
           /\ UNCHANGED <<disk, older>>

\* One fs_unlink of del_oldest_log; the loop ends with the first that succeeds.
Unlink(onSuccess, onError) ==
    LET path == LogPath(oldest)
    IN  \/ /\ path \notin DOMAIN disk
           /\ oldest' = Next1(oldest)
           /\ UNCHANGED <<disk, older, backend_state, file_ctr, newest, file, mounted, pc, then,
                          target, len, stored>>
        \/ /\ Removable(path)
           /\ disk' = Without(path) /\ older' = Missing(oldest)
           /\ oldest' = Next1(oldest) /\ file_ctr' = file_ctr - 1
           /\ file' = [file EXCEPT !.live = @ /\ file.path # path]
           /\ Goto(onSuccess)
           /\ UNCHANGED <<backend_state, newest, mounted, then, target, len, stored>>
        \/ /\ path \in DOMAIN disk /\ ~ Removable(path)
           /\ onError
           /\ UNCHANGED <<disk, older>>

\* Mutant: one file more than the limit is allowed.
AtLimitLate == file_ctr > FilesLimit
AtLimit == file_ctr >= FilesLimit

\* The rest of allocate_new_file: old files go, until there may be one more.
Sweep == /\ pc = "make" /\ AtLimit
         /\ Unlink("make", Corrupt)
         /\ UNCHANGED <<shellVars, kept, meddled>>

Make == /\ pc = "make" /\ ~ AtLimit
        /\ LET path == LogPath(target)
           IN  \/ /\ IsDir(path) \/ ~ IsDir(LogDir)
                  /\ Corrupt
                  /\ UNCHANGED <<disk, history>>
               \/ /\ IsDir(LogDir) /\ ~ IsDir(path)
                  /\ disk' = IF IsFile(path) THEN disk ELSE Put(path, 0)
                  /\ older' = Missing(target) \cup ((LogFiles \ {target}) \X {target})
                  /\ file' = [path |-> path, size |-> 0, live |-> TRUE]
                  /\ file_ctr' = file_ctr + 1 /\ newest' = target
                  /\ kept' = 0
                  /\ Goto(then)
                  /\ UNCHANGED <<backend_state, oldest, mounted, then, target, len, stored, meddled>>
        /\ UNCHANGED shellVars

\* fs_write.  Units of the handle that are not on the disk yet take room too.
Room == Capacity - Used - (IF file.live THEN file.size - disk[file.path] ELSE file.size)

Write ==
    /\ pc = "write"
    /\ \/ /\ Room >= len
          /\ file' = [file EXCEPT !.size = @ + len]
          /\ Goto("sync") /\ UNCHANGED stored
       \/ /\ shortWrites  \* the oldest file goes, and 0 is returned
          /\ \E n \in 0 .. len - 1 : /\ n = IF Room > 0 THEN Room ELSE 0
                                    /\ file' = [file EXCEPT !.size = @ + n]
          /\ Goto("sweep") /\ UNCHANGED stored
       \/ /\ Room < len /\ ~ shortWrites
          /\ Goto("check") /\ UNCHANGED <<file, stored>>
    /\ UNCHANGED <<disk, shellVars, backend_state, file_ctr, newest, oldest, mounted, then, target,
                   len, history>>

\* The result of this del_oldest_log is not looked at.
MakeRoom ==
    /\ pc = "sweep"
    /\ Unlink("tell", Goto("tell") /\ UNCHANGED <<backend_state, file_ctr, newest, oldest, file, mounted,
                                                  then, target, len, stored>>)
    /\ UNCHANGED <<shellVars, kept, meddled>>

\* check_log_file_exist after an error: a file that is gone is replaced.  The handle
\* that is closed then is that file's, so that nothing is stored.
Check ==
    /\ pc = "check"
    /\ \/ /\ ~ IsDir(LogDir) /\ Corrupt
       \/ /\ newest \in LogFiles
          /\ stored' = FALSE /\ Goto("sync")
          /\ UNCHANGED <<backend_state, file_ctr, newest, oldest, file, mounted, then, target, len>>
       \/ /\ IsDir(LogDir) /\ newest \notin LogFiles
          /\ file_ctr' = file_ctr - 1
          /\ target' = Next1(newest)
          /\ stored' = FALSE /\ Goto("make") /\ then' = "sync"
          /\ UNCHANGED <<backend_state, newest, oldest, file, mounted, len>>
    /\ UNCHANGED <<disk, shellVars, history>>

Return == IF stored THEN Goto("idle") /\ len' = 0 /\ kept' = kept + len
                    ELSE Goto("tell") /\ UNCHANGED <<len, kept>>

\* Mutant: the record is taken without fs_sync.
SyncForgotten ==
    /\ pc = "sync"
    /\ Return /\ stored' = TRUE
    /\ UNCHANGED <<disk, shellVars, backend_state, file_ctr, newest, oldest, file, mounted, then,
                   target, older, meddled>>

\* fs_sync, and the return to log_output, which comes back when it got 0.
Sync ==
    /\ pc = "sync"
    /\ disk' = Synced
    /\ Return /\ stored' = TRUE
    /\ UNCHANGED <<shellVars, backend_state, file_ctr, newest, oldest, file, mounted, then, target,
                   older, meddled>>

SyncFails == pc = "sync" /\ Corrupt /\ UNCHANGED <<disk, shellVars, history>>

Mount == /\ ~ mounted /\ mounted' = TRUE
         /\ UNCHANGED <<disk, shellVars, backend_state, file_ctr, newest, oldest, file, pc, then,
                        target, len, stored, history>>

\* A power cut: what was not synced is lost, and so is the shell's write.
Restart == /\ mounted
           /\ cwd' = <<>> /\ sh' = Closed
           /\ backend_state' = "not" /\ file_ctr' = 0 /\ newest' = 0 /\ oldest' = 0
           /\ file' = NoFile /\ mounted' = FALSE /\ pc' = "idle" /\ then' = "tell"
           /\ target' = 0 /\ len' = 0 /\ stored' = TRUE
           /\ kept' = 0
           /\ UNCHANGED <<disk, cmds, older, meddled>>
-------------------------------------------------------------------------------
\* What the files that are not logs take.
Others == MapThenSumSet(LAMBDA p : IF disk[p] = Dir \/ p \in {LogPath(n) : n \in Numerals}
                                   THEN 0 ELSE disk[p], DOMAIN disk)

\* A command of the shell as the log sees it.
Meddle(kind, path) ==
    /\ meddled' = meddled
         \cup (IF Len(path) >= 2 /\ SubSeq(path, 1, 2) = LogDir /\ path[Len(path)] # Other
              THEN {kind} ELSE {})
         \cup (IF Others' + FileSize > Capacity THEN {"full"} ELSE {})
    /\ UNCHANGED <<backend_state, file_ctr, newest, oldest, mounted, pc, then, target, len, stored,
                   kept>>

Shell ==
    /\ mounted
    /\ \/ cmd_cd /\ UNCHANGED <<log, history>>
       \/ \E path \in Typed :
            \/ cmd_mkdir(path) /\ Meddle("add", path) /\ UNCHANGED <<file, older>>
            \/ /\ cmd_rm(path) /\ Meddle("rm", path)
               /\ file' = [file EXCEPT !.live = @ /\ file.path # path]
               /\ older' = {pair \in older : path \notin {LogPath(pair[1]), LogPath(pair[2])}}
            \/ cmd_trunc(path) /\ Meddle("edit", path) /\ UNCHANGED <<file, older>>
            \/ /\ cmd_write(path) /\ UNCHANGED <<file, older>>
               /\ Meddle(IF path \in DOMAIN disk THEN "edit" ELSE "add", path)
       \/ WriteDone /\ Meddle("edit", sh.path) /\ UNCHANGED <<file, older>>

LogThread == \/ NoDirectory \/ Record \/ Tell \/ Sweep \/ Make \/ Write \/ MakeRoom \/ Check
             \/ Sync \/ SyncFails
Next == (LogThread \/ Mount \/ Restart \/ Shell) /\ UNCHANGED shortWrites

Spec == Init /\ [][Next]_vars

\* The log thread and a started command of the shell get on.
Call == (Tell \/ Sweep \/ Make \/ Write \/ MakeRoom \/ Check \/ Sync) /\ UNCHANGED shortWrites
FairSpec == Spec /\ WF_vars(Call)
-------------------------------------------------------------------------------
\* The directory holds no more than the limit of log files, whatever the crashes
\* and the records, unless the shell has added some.
LimitKept == "add" \notin meddled => Cardinality(LogFiles) <= FilesLimit

\* The log removes the oldest file there is (del_oldest_log), also when the
\* numbers have wrapped and the log was started again since.
OldestFirst ==
    [][cmds' = cmds /\ {"add", "rm"} \cap meddled = {}
       => \A gone \in LogFiles \ LogFiles', n \in LogFiles' : <<gone, n>> \in older]_vars

\* The file that is opened is a new one: opening one there is would write over
\* its beginning and leave the rest.
NeverReused == pc = "make" /\ ~ AtLimit /\ {"add", "rm"} \cap meddled = {}
               => target \notin LogFiles

\* What was taken while a file was open is in the file between two records,
\* unless the shell has touched the file, or the disk was full.
TakenIsOnDisk == backend_state = "ok" /\ pc = "idle" /\ meddled = {} /\ file.live
                 => disk[file.path] >= kept

\* Of every log the numbers and the files there are agree: never too many, and
\* never the same one again.
LogInv == LogTypeOK /\ LimitKept /\ NeverReused

\* A record is taken at last, unless the disk stays full, or the shell has removed
\* files the log counts and left none for the loop of del_oldest_log to find:
\* log_output asks again and again.
RecordEnds == []<>(pc = "idle") \/ <>[](Room < len \/ (LogFiles = {} /\ meddled # {}))
================================================================================
