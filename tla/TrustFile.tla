------------------------------ MODULE TrustFile ------------------------------
(***************************************************************************)
(* The trust store file: trust-key commands that read it, add a key and    *)
(* write it back (cli.py:161-169), the operator who edits it to revoke a   *)
(* key, the atomic writer (util.atomic_write), and a host that loses power *)
(* at any step.  A version of the file is a record: the status of each key *)
(* in it, and whether its bytes have reached the disk.                     *)
(*                                                                         *)
(* External: the file system.  Bytes that were not synced may be lost with *)
(* the power, and so may the last rename or link, since nobody syncs the   *)
(* directory; what is on the disk then is the version before it.           *)
(***************************************************************************)
EXTENDS Naturals

CONSTANTS
    Commands,   \* trust-key invocations
    Key,        \* the keys
    KeyOf,      \* the public key each command adds
    MaxEdits, MaxCrashes \* bounds

ASSUME TrustFileAssumption ==
    Key # {} /\ KeyOf \in [Commands -> Key] /\ MaxEdits \in Nat /\ MaxCrashes \in Nat

VARIABLES
    file,       \* the version trust.json names
    before,     \* the version a power loss may bring back
    pc,         \* of each command: start, read, decided, written, synced; added, refused, dead
    data,       \* what the command read, with its key added
    overwrite,  \* whether the command found a file to replace
    temporary,  \* the command's temporary file
    edits, crashes

trustVars == <<file, before, pc, data, overwrite, temporary, edits, crashes>>
command == <<pc, data, overwrite, temporary>>
counts == <<edits, crashes>>

Empty == [k \in Key |-> "unknown"]
Version(keys, synced) == [keys |-> keys, synced |-> synced]
Absent == Version(Empty, TRUE)
Torn == Version([k \in Key |-> "torn"], TRUE)

TrustInit ==
    /\ file = Absent /\ before = Absent
    /\ pc = [c \in Commands |-> "start"]
    /\ data = [c \in Commands |-> Empty]
    /\ overwrite = [c \in Commands |-> FALSE]
    /\ temporary = [c \in Commands |-> Absent]
    /\ edits = 0 /\ crashes = 0

At(c, from, to) == pc[c] = from /\ pc' = [pc EXCEPT ![c] = to]

-----------------------------------------------------------------------------

(* The command reads the store, or starts an empty one; a key it finds is  *)
(* refused, and so is a file it cannot parse.                              *)
ReadStore(c) ==
    /\ IF file = Torn \/ file.keys[KeyOf[c]] # "unknown"
         THEN At(c, "start", "refused") /\ UNCHANGED data
         ELSE /\ At(c, "start", "read")
              /\ data' = [data EXCEPT ![c] = [file.keys EXCEPT ![KeyOf[c]] = "active"]]
    /\ UNCHANGED <<file, before, overwrite, temporary, counts>>

(* The argument of write_json asks again whether there is a file. *)
Decide(c) ==
    /\ At(c, "read", "decided")
    /\ overwrite' = [overwrite EXCEPT ![c] = file # Absent]
    /\ UNCHANGED <<file, before, data, temporary, counts>>

Write(c) ==
    /\ At(c, "decided", "written")
    /\ temporary' = [temporary EXCEPT ![c] = Version(data[c], FALSE)]
    /\ UNCHANGED <<file, before, data, overwrite, counts>>

(* Fault: the stream is flushed, not synced. *)
FlushOnly(c) ==
    /\ At(c, "written", "synced")
    /\ UNCHANGED <<file, before, data, overwrite, temporary, counts>>

Sync(c) ==
    /\ At(c, "written", "synced")
    /\ temporary' = [temporary EXCEPT ![c].synced = TRUE]
    /\ UNCHANGED <<file, before, data, overwrite, counts>>

(* os.replace, or os.link, which refuses a name that exists. *)
Publish(c) ==
    /\ IF overwrite[c] \/ file = Absent
         THEN At(c, "synced", "added") /\ before' = file /\ file' = temporary[c]
         ELSE At(c, "synced", "refused") /\ UNCHANGED <<file, before>>
    /\ UNCHANGED <<data, overwrite, temporary, counts>>

(* The operator revokes a key, with an editor that saves atomically. *)
Edit(k) ==
    /\ edits < MaxEdits /\ file.keys[k] = "active"
    /\ edits' = edits + 1
    /\ before' = file
    /\ file' = Version([file.keys EXCEPT ![k] = "revoked"], TRUE)
    /\ UNCHANGED <<command, crashes>>

(* The power fails: every command is gone, the last rename may be, and     *)
(* bytes nobody synced are torn.                                           *)
Crash ==
    /\ crashes < MaxCrashes
    /\ crashes' = crashes + 1
    /\ \E version \in {file, before} :
           LET left == IF version.synced THEN version ELSE Torn
           IN  file' = left /\ before' = left
    /\ pc' = [c \in Commands |-> IF pc[c] \in {"start", "added", "refused"} THEN pc[c] ELSE "dead"]
    /\ UNCHANGED <<data, overwrite, temporary, edits>>

TrustNext ==
    \/ \E c \in Commands :
           ReadStore(c) \/ Decide(c) \/ Write(c) \/ Sync(c) \/ Publish(c)
    \/ \E k \in Key : Edit(k)
    \/ Crash

TrustSpec == TrustInit /\ [][TrustNext]_trustVars

-----------------------------------------------------------------------------

(* Wherever commands and power losses interleave, trust.json is absent or  *)
(* a store some command or edit wrote in full (util.py:160-179).           *)
FileWhole == file # Torn
=============================================================================
