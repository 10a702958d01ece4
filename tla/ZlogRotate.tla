----------------------------- MODULE ZlogRotate -----------------------------
(***************************************************************************)
(* Rotation of a log file by several threads of several processes: the     *)
(* rotating outputs of rule.c and rotater.c. A writer appends to the file, *)
(* looks at its size and, when there is no room for as much again, tries   *)
(* to get the mutex of its process and the fcntl lock of the lock file;    *)
(* who has both lists the archives and moves them one rename at a time.    *)
(*                                                                         *)
(* The directory holds the log file and its archives only. A file is       *)
(* numbered in the order of creation, so that a higher number is younger.  *)
(***************************************************************************)
EXTENDS Integers, Sequences, FiniteSets

CONSTANTS
  StaticWriters,   \* threads with a static file rule
  DynamicWriters,  \* threads with a dynamic file rule that gives the same path
  Procs, ProcOf,   \* processes, writer -> its process
  Nobody,
  MsgLens,         \* lengths of messages
  ArchiveMaxSize, ArchiveMaxCounts,
  MaxWrites,       \* bound: messages
  MaxFaults        \* bound: crashes and failing system calls

Writers == StaticWriters \union DynamicWriters

ASSUME RotateAssumption ==
  /\ ProcOf \in [Writers -> Procs] /\ Nobody \notin Writers \union Procs
  /\ MsgLens \subseteq Nat /\ ArchiveMaxCounts \subseteq Int
  /\ ArchiveMaxSize \in Nat /\ MaxWrites \in Nat /\ MaxFaults \in Nat

Base == -1                   \* the name of the log file; archive i has name i
None == 0
FileId == 1..MaxWrites
Names == Base..MaxWrites

VARIABLES
  rule,           \* mv_type and archive_max_count; NoRule before the start
  dir,            \* name -> file, or None
  size,           \* file -> its size
  lastFile,       \* the youngest file
  wpc, fd, len,   \* writer -> where it is, its open file, the length of its message
  files, pos,     \* process -> a_rotater->files and the position of the loop
  lock_mutex,     \* process -> the writer that holds it
  lock_fd,        \* the process that holds the fcntl lock
  writes, faults, \* for the bounds
  clobbered,      \* history: a rename has replaced another file
  skipped         \* history: a rotation was given up since the last one

diskVars == <<dir, size, lastFile>>
listVars == <<files, pos>>
rotateLockVars == <<lock_mutex, lock_fd>>
rotateCounts == <<writes, faults>>
historyVars == <<clobbered, skipped>>
rotateVars == <<rule, diskVars, wpc, fd, len, listVars, rotateLockVars, rotateCounts, historyVars>>

NoRule == [mv_type |-> "none", max_count |-> 0]

RotateInit ==
  /\ rule = NoRule
  /\ dir = [n \in Names |-> None]
  /\ size = [f \in FileId |-> 0]
  /\ lastFile = None
  /\ wpc = [w \in Writers |-> "idle"]
  /\ fd = [w \in Writers |-> None]
  /\ len = [w \in Writers |-> 0]
  /\ files = [p \in Procs |-> <<>>]
  /\ pos = [p \in Procs |-> 0]
  /\ lock_mutex = [p \in Procs |-> Nobody]
  /\ lock_fd = Nobody
  /\ writes = 0 /\ faults = 0
  /\ clobbered = FALSE /\ skipped = FALSE

\* The rule of the configuration: "#r" and no archive path roll, "#s" counts,
\* and a "#" with neither passes zlog_rule_new and fails at every rotation.
Configure ==
  /\ rule = NoRule
  /\ rule' \in [mv_type : {"ROLLING", "SEQUENCE", "bad"}, max_count : ArchiveMaxCounts]
  /\ UNCHANGED <<diskVars, wpc, fd, len, listVars, rotateLockVars, rotateCounts, historyVars>>

StepTo(w, label) == wpc' = [wpc EXCEPT ![w] = label]

\* A system call fails.
Fault == faults < MaxFaults /\ faults' = faults + 1 /\ UNCHANGED writes

-----------------------------------------------------------------------------
(* rule.c                                                                  *)

\* open with O_CREAT and O_APPEND.
OpenFile(w) ==
  /\ wpc[w] = "idle" /\ rule # NoRule /\ writes < MaxWrites
  /\ \E l \in MsgLens : len' = [len EXCEPT ![w] = l]
  /\ writes' = writes + 1
  /\ IF dir[Base] = None
     THEN lastFile' = lastFile + 1 /\ dir' = [dir EXCEPT ![Base] = lastFile + 1]
     ELSE UNCHANGED <<lastFile, dir>>
  /\ fd' = [fd EXCEPT ![w] = dir'[Base]]
  /\ StepTo(w, "write")
  /\ UNCHANGED <<rule, size, listVars, rotateLockVars, faults, historyVars>>

\* write and close; a message longer than the limit does not rotate. A file
\* that was renamed or unlinked meanwhile still gets the message.
WriteFile(w) ==
  /\ wpc[w] = "write"
  /\ size' = [size EXCEPT ![fd[w]] = @ + len[w]]
  /\ fd' = [fd EXCEPT ![w] = None]
  /\ StepTo(w, IF len[w] > ArchiveMaxSize THEN "idle" ELSE "check")
  /\ skipped' = (skipped \/ len[w] > ArchiveMaxSize)
  /\ UNCHANGED <<rule, dir, lastFile, len, listVars, rotateLockVars, rotateCounts, clobbered>>

\* The file is missing while it is rotated, or has room for as much again.
CheckSize(w) ==
  /\ wpc[w] = "check"
  /\ LET f == dir[Base]
         stays == f = None \/ size[f] + len[w] < ArchiveMaxSize
     IN  StepTo(w, IF stays THEN "idle" ELSE "trylock")
  /\ UNCHANGED <<rule, diskVars, fd, len, listVars, rotateLockVars, rotateCounts, historyVars>>

zlog_rule_output_static_file_rotate(w) == OpenFile(w) \/ WriteFile(w) \/ CheckSize(w)

\* The path is generated first; if that fails nothing is written.
zlog_rule_output_dynamic_file_rotate(w) == OpenFile(w) \/ WriteFile(w) \/ CheckSize(w)

-----------------------------------------------------------------------------
(* rotater.c                                                               *)

Skip(w) == StepTo(w, "idle") /\ skipped' = TRUE

\* zlog_rotater_trylock: pthread_mutex_trylock, then fcntl F_SETLK. A lock
\* that the process holds already is granted to it again.
MutexTrylock(w) ==
  /\ wpc[w] = "trylock"
  /\ LET p == ProcOf[w] IN
     IF lock_mutex[p] # Nobody
     THEN Skip(w) /\ UNCHANGED lock_mutex
     ELSE /\ lock_mutex' = [lock_mutex EXCEPT ![p] = w]
          /\ StepTo(w, "flock") /\ UNCHANGED skipped
  /\ UNCHANGED <<rule, diskVars, fd, len, listVars, lock_fd, rotateCounts, clobbered>>

FileTrylock(w) ==
  /\ wpc[w] = "flock"
  /\ LET p == ProcOf[w] IN
     IF lock_fd \in {Nobody, p}
     THEN lock_fd' = p /\ StepTo(w, "stat") /\ UNCHANGED <<lock_mutex, skipped>>
     ELSE Skip(w) /\ lock_mutex' = [lock_mutex EXCEPT ![p] = Nobody] /\ UNCHANGED lock_fd
  /\ UNCHANGED <<rule, diskVars, fd, len, listVars, rotateCounts, clobbered>>

zlog_rotater_trylock(w) == MutexTrylock(w) \/ FileTrylock(w)

\* Fault: the message is counted on the wrong side.
StatAgain_WrongSide(w) ==
  dir[Base] # None /\ size[dir[Base]] > ArchiveMaxSize + len[w]

\* Another thread or process may have rotated meanwhile.
StatAgain(w) == dir[Base] # None /\ size[dir[Base]] + len[w] > ArchiveMaxSize

\* zlog_rotater_rotate up to the moves.
StatUnderLock(w) ==
  /\ wpc[w] = "stat"
  /\ StepTo(w, IF StatAgain(w) THEN "list" ELSE "unlock")
  /\ UNCHANGED <<rule, diskVars, fd, len, listVars, rotateLockVars, rotateCounts, historyVars>>

\* zlog_rotater_parse_archive_path: rolling, sequence or an error.
zlog_rotater_parse_archive_path == rule.mv_type # "bad"

Archives == {n \in Names \ {Base} : dir[n] # None}

\* The ways to list the archives.
Lists == {q \in [1..Cardinality(Archives) -> Archives] : \A n \in Archives : \E i \in DOMAIN q : q[i] = n}

\* Fault: the list is sorted the other way round.
zlog_rotater_add_archive_files_Down ==
  CHOOSE q \in Lists : \A i, j \in DOMAIN q : i < j => q[i] > q[j]

\* zlog_rotater_add_archive_files: glob, and zc_arraylist_sortadd of what it
\* finds (in any order) by index.
zlog_rotater_add_archive_files ==
  CHOOSE q \in Lists : \A i, j \in DOMAIN q : i < j => q[i] < q[j]

\* zlog_rotater_lsmv: the list, or nothing when the pattern is bad or glob
\* or an allocation fails.
zlog_rotater_lsmv(w) ==
  /\ wpc[w] = "list"
  /\ \/ /\ zlog_rotater_parse_archive_path
        /\ LET p == ProcOf[w]
               found == zlog_rotater_add_archive_files
           IN  /\ files' = [files EXCEPT ![p] = found]
               /\ pos' = [pos EXCEPT ![p] = IF rule.mv_type = "ROLLING" THEN Len(found) ELSE 1]
        /\ StepTo(w, "move") /\ UNCHANGED <<skipped, rotateCounts>>
     \/ /\ ~zlog_rotater_parse_archive_path
        /\ StepTo(w, "unlock") /\ skipped' = TRUE /\ UNCHANGED <<listVars, rotateCounts>>
     \/ /\ Fault
        /\ StepTo(w, "unlock") /\ skipped' = TRUE /\ UNCHANGED listVars
  /\ UNCHANGED <<rule, diskVars, fd, len, rotateLockVars, clobbered>>

\* unlink and rename. Renaming a file to its own name does nothing.
Unlinked(n) == dir' = [dir EXCEPT ![n] = None] /\ UNCHANGED clobbered

Renamed(m, n) ==
  /\ dir' = IF m = n THEN dir ELSE [dir EXCEPT ![m] = None, ![n] = dir[m]]
  /\ clobbered' = (clobbered \/ (m # n /\ dir[n] # None))

\* zlog_rotater_roll_files, one file: from the last to the first, remove
\* what is over the count and move the others up; at the end the log file.
\* An archive moves to the index behind its position in the list, not behind
\* its own (position i is i - 1 in the code).
RollFile(p, i) ==
  IF i = 0 THEN Renamed(Base, 0)
  ELSE IF rule.max_count > 0 /\ i - 1 >= rule.max_count - 1 THEN Unlinked(files[p][i])
  ELSE Renamed(files[p][i], i)

\* zlog_rotater_seq_files, one file: remove from the first on what is over
\* the count; at the end the log file gets the next index.
SeqFile(p, i) ==
  LET n == Len(files[p])
      last == IF n = 0 THEN -1 ELSE IF n - 1 > files[p][n] THEN n - 1 ELSE files[p][n]
  IN  IF i > n THEN Renamed(Base, last + 1)
      ELSE IF rule.max_count > 0 /\ i - 1 < n - rule.max_count THEN Unlinked(files[p][i])
      ELSE UNCHANGED <<dir, clobbered>>

MoveDone(p) == IF rule.mv_type = "ROLLING" THEN pos[p] = 0 ELSE pos[p] > Len(files[p])

\* One turn of the loop, or the first failing unlink or rename.
MoveFile(w) ==
  LET p == ProcOf[w]
      i == pos[p]
  IN  /\ wpc[w] = "move"
      /\ \/ /\ IF rule.mv_type = "ROLLING" THEN RollFile(p, i) ELSE SeqFile(p, i)
            /\ IF MoveDone(p)
               THEN StepTo(w, "unlock") /\ skipped' = FALSE
               ELSE UNCHANGED <<wpc, skipped>>
            /\ pos' = [pos EXCEPT ![p] = IF MoveDone(p) THEN 0
                                        ELSE IF rule.mv_type = "ROLLING" THEN i - 1 ELSE i + 1]
            /\ UNCHANGED rotateCounts
         \/ /\ Fault
            /\ StepTo(w, "unlock") /\ skipped' = TRUE
            /\ pos' = [pos EXCEPT ![p] = 0]
            /\ UNCHANGED <<dir, clobbered>>
      /\ files' = [files EXCEPT ![p] = IF wpc'[w] = "unlock" THEN <<>> ELSE @]
      /\ UNCHANGED <<rule, size, lastFile, fd, len, rotateLockVars>>

\* Fault: the mutex is released before the file lock.
zlog_rotater_unlock_MutexFirst(w) ==
  LET p == ProcOf[w] IN
  /\ \/ /\ wpc[w] = "unlock"
        /\ lock_mutex' = [lock_mutex EXCEPT ![p] = Nobody]
        /\ StepTo(w, "unlock2") /\ UNCHANGED lock_fd
     \/ /\ wpc[w] = "unlock2"
        /\ lock_fd' = IF lock_fd = p THEN Nobody ELSE lock_fd
        /\ StepTo(w, "idle") /\ UNCHANGED lock_mutex
  /\ UNCHANGED <<rule, diskVars, fd, len, listVars, rotateCounts, historyVars>>

\* zlog_rotater_unlock: fcntl F_UNLCK releases the lock of the process.
zlog_rotater_unlock(w) ==
  LET p == ProcOf[w] IN
  /\ \/ /\ wpc[w] = "unlock"
        /\ lock_fd' = IF lock_fd = p THEN Nobody ELSE lock_fd
        /\ StepTo(w, "unlock2") /\ UNCHANGED lock_mutex
     \/ /\ wpc[w] = "unlock2"
        /\ lock_mutex' = [lock_mutex EXCEPT ![p] = Nobody]
        /\ StepTo(w, "idle") /\ UNCHANGED lock_fd
  /\ UNCHANGED <<rule, diskVars, fd, len, listVars, rotateCounts, historyVars>>

-----------------------------------------------------------------------------

\* A process dies, whatever its threads do, and is started again: its
\* threads, its mutex and its file lock are gone, the files stay.
CrashAndRestart(p) ==
  LET Clear(f, x) == [w \in Writers |-> IF ProcOf[w] = p THEN x ELSE f[w]]
  IN  /\ rule # NoRule /\ Fault
      /\ wpc' = Clear(wpc, "idle")
      /\ fd' = Clear(fd, None)
      /\ len' = Clear(len, 0)
      /\ files' = [files EXCEPT ![p] = <<>>]
      /\ pos' = [pos EXCEPT ![p] = 0]
      /\ lock_mutex' = [lock_mutex EXCEPT ![p] = Nobody]
      /\ lock_fd' = IF lock_fd = p THEN Nobody ELSE lock_fd
      /\ skipped' = TRUE
      /\ UNCHANGED <<rule, diskVars, clobbered>>

RotateNext ==
  \/ Configure
  \/ \E w \in StaticWriters : zlog_rule_output_static_file_rotate(w)
  \/ \E w \in DynamicWriters : zlog_rule_output_dynamic_file_rotate(w)
  \/ \E w \in Writers : \/ zlog_rotater_trylock(w) \/ StatUnderLock(w)
                        \/ zlog_rotater_lsmv(w) \/ MoveFile(w) \/ zlog_rotater_unlock(w)
  \/ \E p \in Procs : CrashAndRestart(p)

RotateSpec == RotateInit /\ [][RotateNext]_rotateVars

-----------------------------------------------------------------------------
(* Correctness                                                             *)

\* No log is lost: a rename never replaces another file, neither when two
\* writers find the file full at once nor after a crash or a failure between
\* two renames left a hole in the numbers.
NothingClobbered == ~clobbered

\* The numbers tell the age, the log file is the youngest: rolling archives
\* get older with their index, counted ones younger, holes or not.
AgeOrder ==
  /\ \A m, n \in Archives : m < n =>
       IF rule.mv_type = "ROLLING" THEN dir[n] < dir[m] ELSE dir[m] < dir[n]
  /\ dir[Base] # None => \A n \in Archives : dir[n] < dir[Base]

\* At most archive_max_count rolling archives exist at any time, one more
\* when they are counted (the last unlink comes before the rename).
ArchivesBounded ==
  rule.max_count > 0 =>
    Cardinality(Archives) <= rule.max_count + (IF rule.mv_type = "SEQUENCE" THEN 1 ELSE 0)

\* A file becomes an archive only when it is full: of writers that saw the
\* same full file only the first rotates it, the others find its successor
\* under the lock.
RotatedFull ==
  \A n \in Archives : \E l \in MsgLens :
    l <= ArchiveMaxSize /\ size[dir[n]] + l > ArchiveMaxSize

\* When no writer is between its write and the end of its call, the log file
\* is within its limit, unless a rotation was given up since the last one:
\* the lock was taken, a message alone exceeds the limit, a call failed or a
\* process died. Writers look at the size twice, and neither look may let
\* the file grow for good.
SizeBounded ==
  /\ dir[Base] # None /\ ~skipped
  /\ \A w \in Writers : wpc[w] \in {"idle", "write"}
  => size[dir[Base]] <= ArchiveMaxSize

\* The limits of a rotated log, whichever writers, processes and faults meet:
\* on the number of archives, on the size of the log file, and that a file is
\* not rotated before it is full.
LimitsKept == ArchivesBounded /\ SizeBounded /\ RotatedFull
=============================================================================
