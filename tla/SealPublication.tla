--------------------------- MODULE SealPublication --------------------------
(***************************************************************************)
(* How a sealed archive gets from a temporary file into the ledger and to  *)
(* its output path: bundle.py:seal and delivery.py:seal_delivery, which    *)
(* follow the same protocol.  In module Engine the whole of it is the one  *)
(* action Seal (SealDelivery); here every step another process, the        *)
(* environment or a crash can come between is an action of its own.        *)
(*                                                                         *)
(* A sealer is one invocation.  KeyOf is the ledger record it creates (a   *)
(* release or a delivery), PathOf its output file, NeedsOf the release a   *)
(* delivery is taken from.  Its archive is named by the sealer, whose      *)
(* signature and timestamps make it unlike any other.                      *)
(***************************************************************************)
EXTENDS Naturals, FiniteSets

CONSTANTS Sealer, Key, Path,
          KeyOf,      \* sealer -> key
          PathOf,     \* sealer -> output path
          NeedsOf,    \* sealer -> the set of keys that must be sealed already
          NoOne,      \* the write lock is free
          Foreign,    \* a file some other program put at an output path
          NoFile,
          Expiry,     \* last time at which the approvals are young enough
          MaxClock, MaxCrashes, MaxForeign  \* bounds

ASSUME SealAssumption ==
    /\ KeyOf \in [Sealer -> Key] /\ PathOf \in [Sealer -> Path]
    /\ NeedsOf \in [Sealer -> SUBSET Key]
    /\ NoOne \notin Sealer /\ Foreign \notin Sealer /\ NoFile \notin Sealer
    /\ Foreign # NoFile
    /\ Expiry \in Nat /\ MaxClock \in Nat /\ MaxCrashes \in Nat /\ MaxForeign \in Nat

VARIABLES
    pc,        \* where each sealer is
    lock,      \* the holder of SQLite's write lock
    sealed,    \* the ledger: key -> the sealer whose archive it records
    approved,  \* the ledger: the approvals stand, nothing is withdrawn
    unchanged, \* the workspace has the recorded bytes
    clock,
    temp,      \* sealer -> "none", "partial" or "complete" temporary file
    created,   \* sealer -> created_at of its manifest
    recorded,  \* sealer -> the variable of that name in the code
    output     \* path -> NoFile, Foreign or the sealer whose archive is there

vars == <<pc, lock, sealed, approved, unchanged, clock, temp, created, recorded, output>>

Locked  == {"gate", "write", "verify", "regate", "commit"}
Ended   == {"returned", "raised", "refused", "crashed"}

Init ==
    /\ pc = [s \in Sealer |-> "check"]
    /\ lock = NoOne
    /\ sealed = [k \in {} |-> NoOne]
    /\ approved = TRUE /\ unchanged = TRUE /\ clock = 0
    /\ temp = [s \in Sealer |-> "none"]
    /\ created = [s \in Sealer |-> 0]
    /\ recorded = [s \in Sealer |-> FALSE]
    /\ output = [x \in Path |-> NoFile]

Goto(s, step) == pc' = [pc EXCEPT ![s] = step]

(* Store.transaction on an exception: roll back, release the lock. *)
Fail(s) ==
    /\ lock' = IF lock = s THEN NoOne ELSE lock
    /\ Goto(s, "cleanup")

(* Engine._gate's ready, from the ledger, the workspace and the clock. *)
GateReady == approved /\ unchanged /\ clock <= Expiry

-----------------------------------------------------------------------------

(* Refusing to overwrite an existing archive. *)
CheckOutput(s) ==
    /\ pc[s] = "check"
    /\ Goto(s, IF output[PathOf[s]] = NoFile THEN "mktemp" ELSE "refused")
    /\ UNCHANGED <<lock, sealed, approved, unchanged, clock, temp, created, recorded, output>>

MakeTemp(s) ==
    /\ pc[s] = "mktemp"
    /\ temp' = [temp EXCEPT ![s] = "partial"]
    /\ Goto(s, "begin")
    /\ UNCHANGED <<lock, sealed, approved, unchanged, clock, created, recorded, output>>

(* Fault: BEGIN, so that the lock is first asked for by the INSERT. *)
BeginDeferred(s) ==
    /\ pc[s] = "begin"
    /\ lock' = s
    /\ Goto(s, "gate")
    /\ UNCHANGED <<sealed, approved, unchanged, clock, temp, created, recorded, output>>

(* BEGIN IMMEDIATE. *)
BeginWrite(s) ==
    /\ pc[s] = "begin"
    /\ lock = NoOne
    /\ lock' = s
    /\ Goto(s, "gate")
    /\ UNCHANGED <<sealed, approved, unchanged, clock, temp, created, recorded, output>>

(* The busy timeout passes while somebody else holds the lock. *)
BusyTimeout(s) ==
    /\ pc[s] = "begin"
    /\ lock # NoOne
    /\ Fail(s)
    /\ UNCHANGED <<sealed, approved, unchanged, clock, temp, created, recorded, output>>

(* Fault: "Release already sealed" is left to the first check of the output. *)
FirstGateAgain(s) ==
    /\ pc[s] = "gate"
    /\ IF NeedsOf[s] \subseteq DOMAIN sealed /\ GateReady
         THEN Goto(s, "write") /\ UNCHANGED lock
         ELSE Fail(s)
    /\ UNCHANGED <<sealed, approved, unchanged, clock, temp, created, recorded, output>>

(* Fault: a blocked gate is waited for, with the lock held. *)
FirstGateWaits(s) ==
    /\ pc[s] = "gate"
    /\ KeyOf[s] \notin DOMAIN sealed /\ NeedsOf[s] \subseteq DOMAIN sealed /\ GateReady
    /\ Goto(s, "write")
    /\ UNCHANGED <<lock, sealed, approved, unchanged, clock, temp, created, recorded, output>>

(* Not sealed yet (a delivery: its release is), and the gate is ready. *)
FirstGate(s) ==
    /\ pc[s] = "gate"
    /\ IF KeyOf[s] \notin DOMAIN sealed /\ NeedsOf[s] \subseteq DOMAIN sealed /\ GateReady
         THEN Goto(s, "write") /\ UNCHANGED lock
         ELSE Fail(s)
    /\ UNCHANGED <<sealed, approved, unchanged, clock, temp, created, recorded, output>>

(* Fault: the archive is still in a buffer when the manifest is recorded. *)
WriteArchiveBuffered(s) ==
    /\ pc[s] = "write"
    /\ created' = [created EXCEPT ![s] = clock]
    /\ Goto(s, "verify")
    /\ UNCHANGED <<lock, sealed, approved, unchanged, clock, temp, recorded, output>>

(* Stamp and sign the manifest, copy the verified objects. *)
WriteArchive(s) ==
    /\ pc[s] = "write"
    /\ created' = [created EXCEPT ![s] = clock]
    /\ temp' = [temp EXCEPT ![s] = "complete"]
    /\ Goto(s, "verify")
    /\ UNCHANGED <<lock, sealed, approved, unchanged, clock, recorded, output>>

(* A delivery is taken from a sealed release. *)
IsDelivery(s) == NeedsOf[s] # {}

(* verify_bundle asks for the gate at the manifest's own time,             *)
(* verify_delivery does not.                                               *)
VerifyArchive(s) ==
    /\ pc[s] = "verify"
    /\ IF IsDelivery(s) \/ created[s] <= Expiry THEN Goto(s, "regate") /\ UNCHANGED lock ELSE Fail(s)
    /\ UNCHANGED <<sealed, approved, unchanged, clock, temp, created, recorded, output>>

(* Detect observable input changes while the archive was being assembled. *)
FinalGate(s) ==
    /\ pc[s] = "regate"
    /\ IF GateReady THEN Goto(s, "commit") /\ UNCHANGED lock ELSE Fail(s)
    /\ UNCHANGED <<sealed, approved, unchanged, clock, temp, created, recorded, output>>

(* The release.sealed (delivery.sealed) event becomes durable. *)
Commit(s) ==
    /\ pc[s] = "commit"
    /\ sealed' = [k \in DOMAIN sealed \cup {KeyOf[s]} |->
                     IF k = KeyOf[s] THEN s ELSE sealed[k]]
    /\ lock' = NoOne
    /\ recorded' = [recorded EXCEPT ![s] = TRUE]
    /\ Goto(s, "link")
    /\ UNCHANGED <<approved, unchanged, clock, temp, created, output>>

(* Fault: an existing output passes for the archive. *)
LinkOutputLenient(s) ==
    /\ pc[s] = "link"
    /\ output' = IF output[PathOf[s]] = NoFile THEN [output EXCEPT ![PathOf[s]] = s] ELSE output
    /\ Goto(s, "return")
    /\ UNCHANGED <<lock, sealed, approved, unchanged, clock, temp, created, recorded>>

(* os.link refuses an existing output: the code raises. *)
LinkOutput(s) ==
    /\ pc[s] = "link"
    /\ IF output[PathOf[s]] = NoFile
         THEN output' = [output EXCEPT ![PathOf[s]] = s] /\ Goto(s, "return")
         ELSE Goto(s, "cleanup") /\ UNCHANGED output
    /\ UNCHANGED <<lock, sealed, approved, unchanged, clock, temp, created, recorded>>

(* The file system does not take the link (another OSError). *)
LinkError(s) ==
    /\ pc[s] = "link"
    /\ Goto(s, "cleanup")
    /\ UNCHANGED <<lock, sealed, approved, unchanged, clock, temp, created, recorded, output>>

(* Copying, signing, verifying, the last gate or the commit itself raises: *)
(* a full disk, a lost object, a bad key.                                  *)
TransactionError(s) ==
    /\ pc[s] \in {"write", "verify", "regate", "commit"}
    /\ Fail(s)
    /\ UNCHANGED <<sealed, approved, unchanged, clock, temp, created, recorded, output>>

(* The finally block: unlink the temporary file unless the release was     *)
(* recorded and nothing is at the output path.                             *)
Cleanup(s) ==
    /\ pc[s] \in {"cleanup", "return"}
    /\ temp' = IF ~recorded[s] \/ output[PathOf[s]] # NoFile
                 THEN [temp EXCEPT ![s] = "none"] ELSE temp
    /\ Goto(s, IF pc[s] = "return" THEN "returned" ELSE "raised")
    /\ UNCHANGED <<lock, sealed, approved, unchanged, clock, created, recorded, output>>

-----------------------------------------------------------------------------

(* The process dies: SQLite forgets its transaction, its files stay. *)
Crash(s) ==
    /\ pc[s] \notin Ended
    /\ Cardinality({t \in Sealer : pc[t] = "crashed"}) < MaxCrashes
    /\ lock' = IF lock = s THEN NoOne ELSE lock
    /\ Goto(s, "crashed")
    /\ UNCHANGED <<sealed, approved, unchanged, clock, temp, created, recorded, output>>

(* Another writer's transaction revokes an approval: lifecycle.py. *)
RevokeApproval ==
    /\ lock = NoOne
    /\ approved
    /\ approved' = FALSE
    /\ UNCHANGED <<pc, lock, sealed, unchanged, clock, temp, created, recorded, output>>

(* Workspace files change, and change back. *)
EditWorkspace ==
    /\ unchanged' = ~unchanged
    /\ UNCHANGED <<pc, lock, sealed, approved, clock, temp, created, recorded, output>>

(* Some other program creates a file at an output path. *)
ForeignFile(x) ==
    /\ output[x] = NoFile
    /\ Cardinality({y \in Path : output[y] = Foreign}) < MaxForeign
    /\ output' = [output EXCEPT ![x] = Foreign]
    /\ UNCHANGED <<pc, lock, sealed, approved, unchanged, clock, temp, created, recorded>>

Tick ==
    /\ clock < MaxClock
    /\ clock' = clock + 1
    /\ UNCHANGED <<pc, lock, sealed, approved, unchanged, temp, created, recorded, output>>

-----------------------------------------------------------------------------

Step(s) ==
    \/ CheckOutput(s) \/ MakeTemp(s) \/ BeginWrite(s) \/ BusyTimeout(s)
    \/ FirstGate(s) \/ WriteArchive(s) \/ VerifyArchive(s) \/ FinalGate(s)
    \/ Commit(s) \/ LinkOutput(s) \/ LinkError(s) \/ TransactionError(s) \/ Cleanup(s)

Environment ==
    \/ RevokeApproval \/ EditWorkspace \/ Tick
    \/ \E x \in Path : ForeignFile(x)

Next ==
    \/ \E s \in Sealer : Step(s) \/ Crash(s)
    \/ Environment

(* A process that is not dead keeps executing: the operating system runs   *)
(* it, and SQLite's busy timeout bounds its wait for the lock.             *)
Spec == Init /\ [][Next]_vars /\ \A s \in Sealer : WF_vars(Step(s))

-----------------------------------------------------------------------------

TypeOK ==
    /\ pc \in [Sealer -> Locked \cup Ended \cup
                         {"check", "mktemp", "begin", "link", "return", "cleanup"}]
    /\ lock \in Sealer \cup {NoOne}
    /\ DOMAIN sealed \subseteq Key
    /\ \A k \in DOMAIN sealed : sealed[k] \in Sealer
    /\ approved \in BOOLEAN /\ unchanged \in BOOLEAN
    /\ clock \in 0..MaxClock
    /\ temp \in [Sealer -> {"none", "partial", "complete"}]
    /\ created \in [Sealer -> 0..MaxClock]
    /\ recorded \in [Sealer -> BOOLEAN]
    /\ output \in [Path -> Sealer \cup {NoFile, Foreign}]

(* What is published is on record: an archive appears at an output path    *)
(* only when the ledger holds that very archive for its key, so two racing *)
(* invocations never publish two archives of one release.                  *)
PublishedIsRecorded ==
    \A x \in Path : output[x] \in Sealer =>
        KeyOf[output[x]] \in DOMAIN sealed /\ sealed[KeyOf[output[x]]] = output[x]

(* A crash never costs a recorded archive: if the process that sealed it   *)
(* died, the complete archive is at its output path or still in the        *)
(* temporary file (ARCHITECTURE.md's recovery file).                       *)
CrashKeepsArchive ==
    \A k \in DOMAIN sealed : pc[sealed[k]] = "crashed" =>
        temp[sealed[k]] = "complete" \/ output[PathOf[sealed[k]]] = sealed[k]

(* The caller is told the truth: an invocation that returns has published  *)
(* its archive and recorded it, one that raises before recording leaves no *)
(* file of its own behind.                                                 *)
OutcomeIsTrue ==
    \A s \in Sealer :
        /\ pc[s] = "returned" => /\ output[PathOf[s]] = s
                                 /\ KeyOf[s] \in DOMAIN sealed /\ sealed[KeyOf[s]] = s
        /\ pc[s] = "raised" /\ ~recorded[s] =>
              temp[s] = "none" /\ \A k \in DOMAIN sealed : sealed[k] # s

(* Nothing is sealed past a revocation: although the gate is evaluated     *)
(* long before the commit, an approval revoked by then stops it, and no    *)
(* archive is recorded whose manifest time the approvals do not reach.     *)
SealHonoursRevocationStep ==
    \A k \in DOMAIN sealed' \ DOMAIN sealed :
        /\ approved
        /\ created[sealed'[k]] <= Expiry
        /\ \A s \in Sealer : sealed'[k] = s => NeedsOf[s] \subseteq DOMAIN sealed

SealHonoursRevocation == [][SealHonoursRevocationStep]_vars

(* A record, once in the ledger, is never replaced by a later invocation's. *)
RecordsStand ==
    [][\A k \in DOMAIN sealed : k \in DOMAIN sealed' /\ sealed'[k] = sealed[k]]_vars

(* Every invocation comes to an end, whoever else holds the lock, fails or *)
(* dies, and with it the lock it took.                                     *)
EveryoneEnds == \A s \in Sealer : <>(pc[s] \in Ended)

(* bundle.py:96: "Preserve a completed temporary archive only if the       *)
(* release was committed but its output could not be published. Its ledger *)
(* checksum permits a controlled recovery."  The archive of a recorded     *)
(* release is somewhere, whatever became of the invocation.                *)
RecordedArchiveKept ==
    \A k \in DOMAIN sealed :
        temp[sealed[k]] = "complete" \/ output[PathOf[sealed[k]]] = sealed[k]
=============================================================================
