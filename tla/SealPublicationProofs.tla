------------------------ MODULE SealPublicationProofs ------------------------
(***************************************************************************)
(* The safety properties of SealPublication for any number of invocations, *)
(* keys and paths, any bound on crashes, foreign files and the clock.      *)
(*                                                                         *)
(* The argument is one inductive invariant.  Its core is the lock          *)
(* discipline: who is between BEGIN IMMEDIATE and the commit holds the     *)
(* write lock, so what its first gate read of the ledger (the key is free, *)
(* the release it needs is there) and its last gate (the approvals stand)  *)
(* is still so when it commits, although no step re-reads them.            *)
(***************************************************************************)
EXTENDS SealPublication, TLAPS

PreCommit  == {"check", "mktemp", "begin", "refused"} \cup Locked
Published  == {"return", "returned"}

(* Exclusion: an invocation inside its transaction holds the lock. *)
LockHeld == \A s \in Sealer : pc[s] \in Locked => lock = s

(* The ledger and the invocations agree on who recorded what. *)
Recorded ==
    /\ \A s \in Sealer : recorded[s] => KeyOf[s] \in DOMAIN sealed /\ sealed[KeyOf[s]] = s
    /\ \A k \in DOMAIN sealed : KeyOf[sealed[k]] = k /\ recorded[sealed[k]]
    /\ \A s \in Sealer : pc[s] \in PreCommit => ~recorded[s]
    /\ \A s \in Sealer : pc[s] \in Published \cup {"link"} => recorded[s]

(* What the gates established is still true under the lock. *)
GatePassed ==
    \A s \in Sealer :
        /\ pc[s] \in {"write", "verify", "regate", "commit"} =>
              KeyOf[s] \notin DOMAIN sealed /\ NeedsOf[s] \subseteq DOMAIN sealed
        /\ created[s] <= clock
        /\ pc[s] = "commit" => approved /\ created[s] <= Expiry

(* Where the archive is. *)
Archived ==
    \A s \in Sealer :
        /\ pc[s] \in {"verify", "regate", "commit"} => temp[s] = "complete"
        /\ recorded[s] /\ pc[s] # "raised" =>
              temp[s] = "complete" \/ output[PathOf[s]] = s
        /\ pc[s] \in Published => output[PathOf[s]] = s
        /\ pc[s] = "raised" /\ ~recorded[s] => temp[s] = "none"

IInv == TypeOK /\ LockHeld /\ Recorded /\ GatePassed /\ Archived /\ PublishedIsRecorded

-----------------------------------------------------------------------------

(* The invariant holds when nobody has started. *)
LEMMA InitIInv == Init => IInv
BY SealAssumption DEF Init, IInv, TypeOK, LockHeld, Recorded, GatePassed, Archived,
   PublishedIsRecorded, PreCommit, Published, Locked, Ended

(* Types are preserved, action by action. *)
LEMMA StepTypeOK ==
    ASSUME TypeOK, [Next]_vars
    PROVE  TypeOK'
<1> USE SealAssumption DEF TypeOK, Goto, Fail, Locked, Ended
<1>1. ASSUME NEW s \in Sealer, Step(s)
      PROVE  TypeOK'
  <2>1. CASE CheckOutput(s) BY <2>1 DEF CheckOutput
  <2>2. CASE MakeTemp(s) BY <2>2 DEF MakeTemp
  <2>3. CASE BeginWrite(s) BY <2>3 DEF BeginWrite
  <2>4. CASE BusyTimeout(s) BY <2>4 DEF BusyTimeout
  <2>5. CASE FirstGate(s) BY <2>5 DEF FirstGate
  <2>6. CASE WriteArchive(s) BY <2>6 DEF WriteArchive
  <2>7. CASE VerifyArchive(s) BY <2>7 DEF VerifyArchive
  <2>8. CASE FinalGate(s) BY <2>8 DEF FinalGate
  <2>9. CASE Commit(s) BY <2>9 DEF Commit
  <2>10. CASE LinkOutput(s) BY <2>10 DEF LinkOutput
  <2>11. CASE LinkError(s) BY <2>11 DEF LinkError
  <2>12. CASE TransactionError(s) BY <2>12 DEF TransactionError
  <2>13. CASE Cleanup(s) BY <2>13 DEF Cleanup
  <2> QED BY <1>1, <2>1, <2>2, <2>3, <2>4, <2>5, <2>6, <2>7, <2>8, <2>9, <2>10,
             <2>11, <2>12, <2>13 DEF Step
<1>2. ASSUME NEW s \in Sealer, Crash(s)
      PROVE  TypeOK'
  BY <1>2 DEF Crash
<1>3. CASE Environment
  <2>1. CASE RevokeApproval BY <2>1 DEF RevokeApproval
  <2>2. CASE EditWorkspace BY <2>2 DEF EditWorkspace
  <2>3. CASE Tick BY <2>3 DEF Tick
  <2>4. CASE \E x \in Path : ForeignFile(x) BY <2>4 DEF ForeignFile
  <2> QED BY <1>3, <2>1, <2>2, <2>3, <2>4 DEF Environment
<1>4. CASE UNCHANGED vars BY <1>4 DEF vars
<1> QED BY <1>1, <1>2, <1>3, <1>4 DEF Next

(* The protocol of bundle.py:seal and delivery.py:seal_delivery stays in    *)
(* its types.                                                              *)
THEOREM TypeCorrect == Spec => []TypeOK
<1>1. Init => TypeOK BY InitIInv DEF IInv
<1>2. TypeOK /\ [Next]_vars => TypeOK' BY StepTypeOK
<1> QED BY <1>1, <1>2, PTL DEF Spec

-----------------------------------------------------------------------------

(* Every step preserves the invariant.  The commit does because the key was *)
(* free at the first gate and the lock kept it free (GatePassed); the other *)
(* steps of a transaction because nobody else holds the lock (LockHeld).   *)
LEMMA StepIInv ==
    ASSUME IInv, [Next]_vars
    PROVE  IInv'
<1> USE SealAssumption DEF IInv
<1>0. TypeOK' BY StepTypeOK
<1>1. ASSUME NEW s \in Sealer, CheckOutput(s)
      PROVE  IInv'
  <2> USE <1>0, <1>1 DEF TypeOK, CheckOutput, Goto, Fail, PreCommit, Published, Locked, Ended
  <2>1. LockHeld' BY DEF LockHeld
  <2>2. Recorded' BY DEF Recorded, LockHeld
  <2>3. GatePassed' BY DEF GatePassed, LockHeld, GateReady
  <2>4. Archived' BY DEF Archived, Recorded
  <2>5. PublishedIsRecorded' BY DEF PublishedIsRecorded, Recorded
  <2> QED BY <2>1, <2>2, <2>3, <2>4, <2>5
<1>2. ASSUME NEW s \in Sealer, MakeTemp(s)
      PROVE  IInv'
  <2> USE <1>0, <1>2 DEF TypeOK, MakeTemp, Goto, Fail, PreCommit, Published, Locked, Ended
  <2>1. LockHeld' BY DEF LockHeld
  <2>2. Recorded' BY DEF Recorded, LockHeld
  <2>3. GatePassed' BY DEF GatePassed, LockHeld, GateReady
  <2>4. Archived' BY DEF Archived, Recorded
  <2>5. PublishedIsRecorded' BY DEF PublishedIsRecorded, Recorded
  <2> QED BY <2>1, <2>2, <2>3, <2>4, <2>5
<1>3. ASSUME NEW s \in Sealer, BeginWrite(s)
      PROVE  IInv'
  <2> USE <1>0, <1>3 DEF TypeOK, BeginWrite, Goto, Fail, PreCommit, Published, Locked, Ended
  <2>1. LockHeld' BY DEF LockHeld
  <2>2. Recorded' BY DEF Recorded, LockHeld
  <2>3. GatePassed' BY DEF GatePassed, LockHeld, GateReady
  <2>4. Archived' BY DEF Archived, Recorded
  <2>5. PublishedIsRecorded' BY DEF PublishedIsRecorded, Recorded
  <2> QED BY <2>1, <2>2, <2>3, <2>4, <2>5
<1>4. ASSUME NEW s \in Sealer, BusyTimeout(s)
      PROVE  IInv'
  <2> USE <1>0, <1>4 DEF TypeOK, BusyTimeout, Goto, Fail, PreCommit, Published, Locked, Ended
  <2>1. LockHeld' BY DEF LockHeld
  <2>2. Recorded' BY DEF Recorded, LockHeld
  <2>3. GatePassed' BY DEF GatePassed, LockHeld, GateReady
  <2>4. Archived' BY DEF Archived, Recorded
  <2>5. PublishedIsRecorded' BY DEF PublishedIsRecorded, Recorded
  <2> QED BY <2>1, <2>2, <2>3, <2>4, <2>5
<1>5. ASSUME NEW s \in Sealer, FirstGate(s)
      PROVE  IInv'
  <2> USE <1>0, <1>5 DEF TypeOK, FirstGate, Goto, Fail, PreCommit, Published, Locked, Ended
  <2>1. LockHeld' BY DEF LockHeld
  <2>2. Recorded' BY DEF Recorded, LockHeld
  <2>3. GatePassed' BY DEF GatePassed, LockHeld, GateReady
  <2>4. Archived' BY DEF Archived, Recorded
  <2>5. PublishedIsRecorded' BY DEF PublishedIsRecorded, Recorded
  <2> QED BY <2>1, <2>2, <2>3, <2>4, <2>5
<1>6. ASSUME NEW s \in Sealer, WriteArchive(s)
      PROVE  IInv'
  <2> USE <1>0, <1>6 DEF TypeOK, WriteArchive, Goto, Fail, PreCommit, Published, Locked, Ended
  <2>1. LockHeld' BY DEF LockHeld
  <2>2. Recorded' BY DEF Recorded, LockHeld
  <2>3. GatePassed' BY DEF GatePassed, LockHeld, GateReady
  <2>4. Archived' BY DEF Archived, Recorded
  <2>5. PublishedIsRecorded' BY DEF PublishedIsRecorded, Recorded
  <2> QED BY <2>1, <2>2, <2>3, <2>4, <2>5
<1>7. ASSUME NEW s \in Sealer, VerifyArchive(s)
      PROVE  IInv'
  <2> USE <1>0, <1>7 DEF TypeOK, VerifyArchive, Goto, Fail, PreCommit, Published, Locked, Ended
  <2>1. LockHeld' BY DEF LockHeld
  <2>2. Recorded' BY DEF Recorded, LockHeld
  <2>3. GatePassed' BY DEF GatePassed, LockHeld, GateReady
  <2>4. Archived' BY DEF Archived, Recorded
  <2>5. PublishedIsRecorded' BY DEF PublishedIsRecorded, Recorded
  <2> QED BY <2>1, <2>2, <2>3, <2>4, <2>5
<1>8. ASSUME NEW s \in Sealer, FinalGate(s)
      PROVE  IInv'
  <2> USE <1>0, <1>8 DEF TypeOK, FinalGate, Goto, Fail, PreCommit, Published, Locked, Ended
  <2>1. LockHeld' BY DEF LockHeld
  <2>2. Recorded' BY DEF Recorded, LockHeld
  <2>3. GatePassed' BY DEF GatePassed, LockHeld, GateReady
  <2>4. Archived' BY DEF Archived, Recorded
  <2>5. PublishedIsRecorded' BY DEF PublishedIsRecorded, Recorded
  <2> QED BY <2>1, <2>2, <2>3, <2>4, <2>5
<1>9. ASSUME NEW s \in Sealer, Commit(s)
      PROVE  IInv'
  <2> USE <1>0, <1>9 DEF TypeOK, Commit, Goto, Fail, PreCommit, Published, Locked, Ended
  <2>1. LockHeld' BY DEF LockHeld
  <2>2. Recorded' BY DEF Recorded, GatePassed   \* the key was free
  <2>3. GatePassed' BY DEF GatePassed, LockHeld, GateReady
  <2>4. Archived' BY DEF Archived, Recorded
  <2>5. PublishedIsRecorded' BY DEF PublishedIsRecorded, GatePassed
  <2> QED BY <2>1, <2>2, <2>3, <2>4, <2>5
<1>10. ASSUME NEW s \in Sealer, LinkOutput(s)
      PROVE  IInv'
  <2> USE <1>0, <1>10 DEF TypeOK, LinkOutput, Goto, Fail, PreCommit, Published, Locked, Ended
  <2>1. LockHeld' BY DEF LockHeld
  <2>2. Recorded' BY DEF Recorded, LockHeld
  <2>3. GatePassed' BY DEF GatePassed, LockHeld, GateReady
  <2>4. Archived' BY DEF Archived, Recorded
  <2>5. PublishedIsRecorded' BY DEF PublishedIsRecorded, Recorded
  <2> QED BY <2>1, <2>2, <2>3, <2>4, <2>5
<1>11. ASSUME NEW s \in Sealer, LinkError(s)
      PROVE  IInv'
  <2> USE <1>0, <1>11 DEF TypeOK, LinkError, Goto, Fail, PreCommit, Published, Locked, Ended
  <2>1. LockHeld' BY DEF LockHeld
  <2>2. Recorded' BY DEF Recorded, LockHeld
  <2>3. GatePassed' BY DEF GatePassed, LockHeld, GateReady
  <2>4. Archived' BY DEF Archived, Recorded
  <2>5. PublishedIsRecorded' BY DEF PublishedIsRecorded, Recorded
  <2> QED BY <2>1, <2>2, <2>3, <2>4, <2>5
<1>12. ASSUME NEW s \in Sealer, TransactionError(s)
      PROVE  IInv'
  <2> USE <1>0, <1>12 DEF TypeOK, TransactionError, Goto, Fail, PreCommit, Published, Locked, Ended
  <2>1. LockHeld' BY DEF LockHeld
  <2>2. Recorded' BY DEF Recorded, LockHeld
  <2>3. GatePassed' BY DEF GatePassed, LockHeld, GateReady
  <2>4. Archived' BY DEF Archived, Recorded
  <2>5. PublishedIsRecorded' BY DEF PublishedIsRecorded, Recorded
  <2> QED BY <2>1, <2>2, <2>3, <2>4, <2>5
<1>13. ASSUME NEW s \in Sealer, Cleanup(s)
      PROVE  IInv'
  <2> USE <1>0, <1>13 DEF TypeOK, Cleanup, Goto, Fail, PreCommit, Published, Locked, Ended
  <2>1. LockHeld' BY DEF LockHeld
  <2>2. Recorded' BY DEF Recorded, LockHeld
  <2>3. GatePassed' BY DEF GatePassed, LockHeld, GateReady
  <2>4. Archived' BY DEF Archived, Recorded
  <2>5. PublishedIsRecorded' BY DEF PublishedIsRecorded, Recorded
  <2> QED BY <2>1, <2>2, <2>3, <2>4, <2>5
<1>14. ASSUME NEW s \in Sealer, Crash(s)
      PROVE  IInv'
  <2> USE <1>0, <1>14 DEF TypeOK, Crash, Goto, Fail, PreCommit, Published, Locked, Ended
  <2>1. LockHeld' BY DEF LockHeld
  <2>2. Recorded' BY DEF Recorded, LockHeld
  <2>3. GatePassed' BY DEF GatePassed, LockHeld, GateReady
  <2>4. Archived' BY DEF Archived, Recorded
  <2>5. PublishedIsRecorded' BY DEF PublishedIsRecorded, Recorded
  <2> QED BY <2>1, <2>2, <2>3, <2>4, <2>5
<1>15. ASSUME RevokeApproval
      PROVE  IInv'
  BY <1>0, <1>15 DEF RevokeApproval, TypeOK, LockHeld, Recorded, GatePassed, Archived, PublishedIsRecorded,
     PreCommit, Published, Locked
<1>16. ASSUME EditWorkspace
      PROVE  IInv'
  BY <1>0, <1>16 DEF EditWorkspace, TypeOK, LockHeld, Recorded, GatePassed, Archived, PublishedIsRecorded,
     PreCommit, Published, Locked
<1>17. ASSUME Tick
      PROVE  IInv'
  BY <1>0, <1>17 DEF Tick, TypeOK, LockHeld, Recorded, GatePassed, Archived, PublishedIsRecorded,
     PreCommit, Published, Locked
<1>18. ASSUME NEW x \in Path, ForeignFile(x)
      PROVE  IInv'
  BY <1>0, <1>18 DEF ForeignFile, TypeOK, LockHeld, Recorded, GatePassed, Archived,
     PublishedIsRecorded, PreCommit, Published, Locked
<1>19. CASE UNCHANGED vars
  BY <1>0, <1>19 DEF vars, LockHeld, Recorded, GatePassed, Archived, PublishedIsRecorded
<1> QED BY <1>1, <1>2, <1>3, <1>4, <1>5, <1>6, <1>7, <1>8, <1>9, <1>10, <1>11, <1>12, <1>13, <1>14, <1>15, <1>16, <1>17, <1>18, <1>19 DEF Next, Step, Environment

(* The invariant holds throughout. *)
THEOREM Inductive == Spec => []IInv
<1>1. IInv /\ [Next]_vars => IInv' BY StepIInv
<1> QED BY InitIInv, <1>1, PTL DEF Spec

(* The ledger changes only by a commit. *)
LEMMA OnlyCommitSeals ==
    ASSUME [Next]_vars
    PROVE  UNCHANGED sealed \/ \E s \in Sealer : Commit(s)
BY DEF Next, Step, Environment, vars, CheckOutput, MakeTemp, BeginWrite, BusyTimeout,
   FirstGate, WriteArchive, VerifyArchive, FinalGate, LinkOutput, LinkError,
   TransactionError, Cleanup, Crash, RevokeApproval, EditWorkspace, Tick, ForeignFile

-----------------------------------------------------------------------------

(* An archive at an output path is the one the ledger records for its key, *)
(* whatever number of invocations raced to seal that key.                  *)
THEOREM PublicationRecorded == Spec => []PublishedIsRecorded
<1>1. IInv => PublishedIsRecorded BY DEF IInv
<1> QED BY Inductive, <1>1, PTL

(* bundle.py:86: a crash after the commit and before the publication leaves *)
(* the recorded archive complete in the temporary file.                    *)
THEOREM CrashSafe == Spec => []CrashKeepsArchive
<1>1. IInv => CrashKeepsArchive
  BY DEF IInv, CrashKeepsArchive, TypeOK, Recorded, Archived
<1> QED BY Inductive, <1>1, PTL

(* An invocation that returns has recorded and published its archive; one  *)
(* that raises before its commit leaves neither a file nor a record.       *)
THEOREM OutcomeTruthful == Spec => []OutcomeIsTrue
<1>1. IInv => OutcomeIsTrue
  BY DEF IInv, OutcomeIsTrue, TypeOK, Recorded, Archived, Published
<1> QED BY Inductive, <1>1, PTL

(* "Release already sealed" is read under the same lock as the commit, so  *)
(* no record of the ledger is ever replaced.                               *)
THEOREM RecordsKept == Spec => RecordsStand
<1>1. IInv /\ [Next]_vars =>
        [\A k \in DOMAIN sealed : k \in DOMAIN sealed' /\ sealed'[k] = sealed[k]]_vars
  <2> SUFFICES ASSUME IInv, [Next]_vars, NEW k \in DOMAIN sealed
               PROVE  k \in DOMAIN sealed' /\ sealed'[k] = sealed[k]
    OBVIOUS
  <2>1. ASSUME NEW s \in Sealer, Commit(s)
        PROVE  k \in DOMAIN sealed' /\ sealed'[k] = sealed[k]
    BY <2>1 DEF Commit, IInv, GatePassed
  <2>2. CASE UNCHANGED sealed BY <2>2
  <2> QED BY <2>1, <2>2, OnlyCommitSeals
<1> QED BY Inductive, <1>1, PTL DEF Spec, RecordsStand

(* Nothing is recorded after an approval it rests on was revoked: revoking *)
(* takes the lock that the sealing invocation has held since its gates.    *)
THEOREM RevocationHonoured == Spec => SealHonoursRevocation
<1>1. IInv /\ [Next]_vars => [SealHonoursRevocationStep]_vars
  <2> SUFFICES ASSUME IInv, [Next]_vars
               PROVE  SealHonoursRevocationStep
    OBVIOUS
  <2>1. ASSUME NEW s \in Sealer, Commit(s)
        PROVE  SealHonoursRevocationStep
    BY <2>1, SealAssumption DEF Commit, IInv, GatePassed, TypeOK, SealHonoursRevocationStep
  <2>2. CASE UNCHANGED sealed BY <2>2 DEF SealHonoursRevocationStep
  <2> QED BY <2>1, <2>2, OnlyCommitSeals
<1> QED BY Inductive, <1>1, PTL DEF Spec, SealHonoursRevocation
=============================================================================
