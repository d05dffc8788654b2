------------------------------ MODULE KeySet ------------------------------
(***************************************************************************)
(* The SSH keys of Froxy (src/keyset.go), in memory and on disk, one file  *)
(* per key.  An operation holds set.lock from its beginning to its end,    *)
(* and the keys lock while it works on the disk; the process may end at    *)
(* any moment, and a new one loads the keys.                               *)
(*                                                                         *)
(* Of a key the model keeps its comment, which KeyMod changes.             *)
(***************************************************************************)
CONSTANTS
    Ids,       (* identifiers of keys                                      *)
    Comments,
    NoKey,     (* there is no such key                                     *)
    Torn       (* a file that is not a whole key                           *)

VARIABLES
    keys,  (* keys[id]: the key in memory                                  *)
    disk,  (* disk[id]: its file                                           *)
    op,    (* the operation that holds set.lock                            *)
    unsaved (* keys of which the last operation has failed, or did not    *)
            (* remove the file: the two copies may differ                  *)

vars == <<keys, disk, op, unsaved>>

NoOp == [pc |-> "idle", kind |-> "none", id |-> NoKey, comment |-> NoKey]
Known == {id \in Ids : keys[id] # NoKey}

TypeOK ==
    /\ keys \in [Ids -> Comments \cup {NoKey}]
    /\ disk \in [Ids -> Comments \cup {NoKey, Torn}]
    /\ op \in [pc : {"idle", "disk", "torn", "done", "down"},
               kind : {"none", "mod", "del", "gen"},
               id : Ids \cup {NoKey}, comment : Comments \cup {NoKey}]
    /\ unsaved \subseteq Ids

Init ==
    /\ keys = [id \in Ids |-> NoKey]
    /\ disk = keys
    /\ op = NoOp
    /\ unsaved = {}

(* The key of a file: none if the file is not a whole key. *)
Whole(f) == IF f = Torn THEN NoKey ELSE f

-----------------------------------------------------------------------------
(* The comment is changed in memory first. *)
KeyMod(id, comment) ==
    /\ op.pc = "idle"
    /\ id \in Known /\ keys[id] # comment
    /\ keys' = [keys EXCEPT ![id] = comment]
    /\ op' = [pc |-> "disk", kind |-> "mod", id |-> id, comment |-> comment]
    /\ UNCHANGED <<disk, unsaved>>

KeyDel(id) ==
    /\ op.pc = "idle"
    /\ id \in Known
    /\ keys' = [keys EXCEPT ![id] = NoKey]
    /\ op' = [pc |-> "disk", kind |-> "del", id |-> id, comment |-> NoKey]
    /\ UNCHANGED <<disk, unsaved>>

(* A new key goes to disk first; its identifier is not in use. *)
KeyGen(id, comment) ==
    /\ op.pc = "idle"
    /\ id \notin Known /\ disk[id] = NoKey
    /\ op' = [pc |-> "disk", kind |-> "gen", id |-> id, comment |-> comment]
    /\ UNCHANGED <<keys, disk, unsaved>>

(* updateKey under the keys lock: the file is truncated, then written. *)
Truncate ==
    /\ op.pc = "disk" /\ op.kind \in {"mod", "gen"}
    /\ disk' = [disk EXCEPT ![op.id] = Torn]
    /\ op' = [op EXCEPT !.pc = "torn"]
    /\ UNCHANGED <<keys, unsaved>>

Write ==
    /\ op.pc = "torn"
    /\ disk' = [disk EXCEPT ![op.id] = op.comment]
    /\ op' = [op EXCEPT !.pc = "done"]
    /\ unsaved' = unsaved \ {op.id}
    /\ UNCHANGED keys

(* deleteKey: an error of os.Remove is ignored. *)
Remove ==
    /\ op.pc = "disk" /\ op.kind = "del"
    /\ op' = [op EXCEPT !.pc = "done"]
    /\ \/ disk' = [disk EXCEPT ![op.id] = NoKey] /\ unsaved' = unsaved \ {op.id}
       \/ UNCHANGED disk /\ unsaved' = unsaved \cup {op.id}
    /\ UNCHANGED keys

(* Fault: a key that could not be saved is kept in memory. *)
FailKept ==
    /\ op.pc \in {"disk", "torn"}
    /\ keys' = IF op.kind = "gen" THEN [keys EXCEPT ![op.id] = op.comment] ELSE keys
    /\ op' = NoOp
    /\ UNCHANGED <<disk, unsaved>>

(* The keys lock is not available, or the file cannot be opened or written *)
(* completely: the operation answers an error.                             *)
Fail ==
    /\ op.pc \in {"disk", "torn"}
    /\ unsaved' = unsaved \cup {op.id}
    /\ op' = NoOp
    /\ UNCHANGED <<keys, disk>>

(* The operation returns success; a new key is known from now on. *)
Return ==
    /\ op.pc = "done"
    /\ keys' = IF op.kind = "gen" THEN [keys EXCEPT ![op.id] = op.comment] ELSE keys
    /\ op' = NoOp
    /\ UNCHANGED <<disk, unsaved>>

Exit ==
    /\ op.pc # "down"
    /\ op' = [op EXCEPT !.pc = "down"]
    /\ UNCHANGED <<keys, disk, unsaved>>

(* Fault: the first file that is not a key ends the scan. *)
LoadUntilBad ==
    /\ op.pc = "down"
    /\ keys' = IF \E id \in Ids : disk[id] = Torn THEN [id \in Ids |-> NoKey] ELSE disk
    /\ op' = NoOp
    /\ UNCHANGED <<disk, unsaved>>

(* NewKeySet: files that are not whole are passed over; there are no keys  *)
(* if the keys lock or the directory is not available.                     *)
Load ==
    /\ op.pc = "down"
    /\ \/ /\ keys' = [id \in Ids |-> Whole(disk[id])]
          /\ UNCHANGED unsaved
       \/ keys' = [id \in Ids |-> NoKey] /\ unsaved' = Ids
    /\ op' = NoOp
    /\ UNCHANGED disk

handleKeys ==
    \E id \in Ids :
        \/ KeyDel(id)
        \/ \E c \in Comments : KeyMod(id, c) \/ KeyGen(id, c)

Next ==
    \/ handleKeys
    \/ Truncate \/ Write \/ Remove \/ Fail \/ Return \/ Exit \/ Load

Spec == Init /\ [][Next]_vars

-----------------------------------------------------------------------------
(***************************************************************************)
(* Properties.                                                             *)
(***************************************************************************)

(* With no operation in progress the keys in memory are those that are     *)
(* whole on disk, except the ones of which the last operation has failed.  *)
MemoryOnDisk ==
    op.pc = "idle" => \A id \in Ids \ unsaved : keys[id] = Whole(disk[id])

(* A crash costs at most the key that was being written: after a restart   *)
(* every other key is what it was (load skips a file that is not a key).   *)
CrashKeepsOthers ==
    [][op.pc = "down" => \A id \in Ids \ (unsaved' \cup {op.id}) : keys'[id] = keys[id]]_vars
-----------------------------------------------------------------------------
(***************************************************************************)
(* The inductive invariant.                                                *)
(***************************************************************************)

(* What the operation in progress has done so far, in memory and on disk.  *)
OpInv ==
    op.pc \in {"disk", "torn", "done"} =>
        /\ op.id \in Ids
        /\ op.kind \in {"mod", "del", "gen"}
        /\ op.kind # "del" => op.comment \in Comments
        /\ keys[op.id] = IF op.kind = "mod" THEN op.comment ELSE NoKey
        /\ op.pc = "torn" => op.kind # "del"
        /\ op.pc = "done" /\ op.id \notin unsaved =>
              disk[op.id] = IF op.kind = "del" THEN NoKey ELSE op.comment

(* No operation touches a key other than its own, and a crash none at all. *)
FilesInv ==
    \A id \in Ids \ unsaved : op.pc = "idle" \/ id # op.id => keys[id] = Whole(disk[id])

Inv == TypeOK /\ OpInv /\ FilesInv
=============================================================================
