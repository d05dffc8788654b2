------------------------------- MODULE Logger -------------------------------
(***************************************************************************)
(* The log file of Froxy and its backups (src/logger.go).  A message is    *)
(* written under the lock of the logger; when the file has reached its     *)
(* size it is rotated under the same lock, one file operation after the    *)
(* other, and the process may end between any two of them.                 *)
(*                                                                         *)
(* A line is a number, in the order of writing; the size of a file is the  *)
(* number of its lines.  Renaming and removing files does not fail.        *)
(***************************************************************************)
EXTENDS Naturals, FiniteSets

CONSTANTS
    MaxFileSize,    (* LOG_MAX_FILE_SIZE                                   *)
    MaxBackupFiles, (* LOG_MAX_BACKUP_FILES                                *)
    MaxLines        (* bound on the lines that are written                 *)

VARIABLES
    log,     (* lines in the log file                                      *)
    backup,  (* backup[i]: lines in the file .i.gz, {} if there is none    *)
    pc,      (* "down", "idle", or the index i of the loop of rotate       *)
    written, (* number of lines written                                    *)
    crashed  (* the process has ended while the log was being rotated      *)

vars == <<log, backup, pc, written, crashed>>

Down     == MaxBackupFiles + 2
Idle     == MaxBackupFiles + 1
Rotating == 0..MaxBackupFiles
Oldest   == MaxBackupFiles - 1

TypeOK ==
    /\ log \subseteq 1..MaxLines
    /\ backup \in [0..Oldest -> SUBSET (1..MaxLines)]
    /\ pc \in Rotating \cup {Idle, Down}
    /\ written \in 0..MaxLines
    /\ crashed \in BOOLEAN

Init ==
    /\ log = {}
    /\ backup = [i \in 0..Oldest |-> {}]
    /\ pc = Down
    /\ written = 0
    /\ crashed = FALSE

(* LogToFile: the file is opened for appending. *)
LogToFile ==
    /\ pc = Down
    /\ pc' = Idle
    /\ UNCHANGED <<log, backup, written, crashed>>

(* format and flush: the line is written, and rotation begins if the file  *)
(* has reached its size.                                                   *)
Flush ==
    /\ pc = Idle /\ written < MaxLines
    /\ written' = written + 1
    /\ log' = log \cup {written'}
    /\ pc' = IF Cardinality(log') >= MaxFileSize THEN MaxBackupFiles ELSE Idle
    /\ UNCHANGED <<backup, crashed>>

RemoveOldest ==
    /\ pc = MaxBackupFiles
    /\ backup' = [backup EXCEPT ![Oldest] = {}]
    /\ pc' = pc - 1
    /\ UNCHANGED <<log, written, crashed>>

(* A backup takes the place of the next older one, which has been moved.   *)
Rename ==
    /\ pc \in 1..Oldest
    /\ backup' = [backup EXCEPT ![pc] = IF backup[pc - 1] = {} THEN @ ELSE backup[pc - 1],
                                ![pc - 1] = {}]
    /\ pc' = pc - 1
    /\ UNCHANGED <<log, written, crashed>>

(* Fault: the log is truncated even if it could not be compressed. *)
GzipAndTruncate ==
    /\ pc = 0
    /\ backup' \in {[backup EXCEPT ![0] = log], [backup EXCEPT ![0] = {}]}
    /\ log' = {}
    /\ pc' = Idle
    /\ UNCHANGED <<written, crashed>>

(* The log is compressed and then truncated; it stays if that fails, and   *)
(* the next line begins another rotation.  After a crash between the two   *)
(* it is there twice.                                                      *)
Gzip ==
    /\ pc = 0
    /\ \/ backup' = [backup EXCEPT ![0] = log] /\ log' = {} /\ pc' = Idle /\ UNCHANGED crashed
       \/ backup' = [backup EXCEPT ![0] = {}] /\ pc' = Idle /\ UNCHANGED <<log, crashed>>
       \/ backup' = [backup EXCEPT ![0] = log] /\ pc' = Down /\ crashed' = TRUE /\ UNCHANGED log
    /\ UNCHANGED written

Exit ==
    /\ pc # Down
    /\ pc' = Down
    /\ crashed' = (crashed \/ pc # Idle)
    /\ UNCHANGED <<log, backup, written>>

Next == LogToFile \/ Flush \/ RemoveOldest \/ Rename \/ Gzip \/ Exit

Spec == Init /\ [][Next]_vars

-----------------------------------------------------------------------------
(***************************************************************************)
(* Properties.                                                             *)
(***************************************************************************)
Lines == log \cup UNION {backup[i] : i \in 0..Oldest}

(* Crash or not, no line is lost but those of the oldest backup, and these *)
(* only by being removed when a rotation begins (rotate truncates the log  *)
(* only if it was compressed, and renames the oldest file first).          *)
OnlyOldestLost ==
    [][Lines \ Lines' \subseteq IF pc = MaxBackupFiles THEN backup[Oldest] ELSE {}]_vars

(* A backup holds older lines than the log and than the backups with a     *)
(* lower number, during a rotation too.  A crash may leave lines in two    *)
(* files; but then, too, no file ends with a later line than a newer file. *)
InOrder ==
    /\ \A i \in 0..Oldest : \A m \in backup[i] : (\A n \in log : m < n) \/ crashed
    /\ \A i, j \in 0..Oldest : i < j =>
          \A m \in backup[i], n \in backup[j] : n < m \/ crashed
    /\ log # {} => \A i \in 0..Oldest : \A m \in backup[i] : \E n \in log : m <= n
    /\ \A i, j \in 0..Oldest : i < j /\ backup[i] # {} =>
          \A n \in backup[j] : \E m \in backup[i] : n <= m

(* Only lines that were written are in the files, and what a step of the   *)
(* rotation overwrites has been moved away or removed.                     *)
FilesInv ==
    /\ log \subseteq 1..written
    /\ \A i \in 0..Oldest : backup[i] \subseteq 1..written
    /\ pc \in 0..Oldest => backup[pc] = {}

Inv == TypeOK /\ InOrder /\ FilesInv
=============================================================================
