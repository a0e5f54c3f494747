------------------------ MODULE EngineEvidenceProofs -------------------------
(***************************************************************************)
(* Theorems about the evidence behind the engine's decisions: no fallback  *)
(* to an older run, live waivers, and final evidence for exactly the bytes *)
(* that were decided on; and about what leaves the project: a sealed       *)
(* archive verifies from what it carries, and a delivery carries bytes of  *)
(* the release it names.  All for every set of resources, tools, policies  *)
(* and outcomes.                                                           *)
(***************************************************************************)
EXTENDS EngineProofs, EngineLifecycle, FiniteSetTheorems

-----------------------------------------------------------------------------
(* What the gate establishes. *)

(* The candidate that passes the gate is the current view of its scope.    *)
LEMMA GateView ==
    ASSUME TypeInv, NEW n \in DOMAIN candidates, NEW c, c = candidates[n], GateOpen(c)
    PROVE  /\ c.policy = policy
           /\ c.resources = resources
           /\ c.runs = [i \in LatestRuns(policy) |-> runs[i]]
           /\ c.waivers = {w \in waivers \ revokedWaivers : w.run \in LatestRuns(policy)}
<1>1. DOMAIN c = CandidateField BY DEF TypeInv, Shaped
<1>2. policy = c.policy BY DEF GateOpen, EvidenceReady
<1>3. c = ScopeView(c, policy, trust) BY DEF GateOpen
<1> DEFINE latest  == [i \in LatestRuns(policy) |-> runs[i]]
           active  == {w \in waivers \ revokedWaivers : w.run \in LatestRuns(policy)}
           shipped == [l \in DOMAIN c.deliveries |-> resources[l].sha]
<1>4. c = [c EXCEPT !.resources = resources, !.runs = latest, !.waivers = active,
                    !.deliveries = shipped, !.policy = policy, !.trust = trust]
  BY <1>3 DEF ScopeView
<1> HIDE DEF latest, active, shipped
<1>5. c.resources = resources /\ c.runs = latest /\ c.waivers = active
  BY <1>1, <1>4 DEF CandidateField
<1> QED BY <1>2, <1>5 DEF latest, active

(* The latest run of a scope is the one run of the candidate that has it.  *)
LEMMA LatestUnique ==
    ASSUME TypeInv, NEW i \in LatestRuns(policy), NEW j \in LatestRuns(policy),
           Scope(runs[i]) = Scope(runs[j])
    PROVE  i = j
<1>1. PICK S : runs \in Seq(S) BY DEF TypeInv, Numbered
<1>2. i \in DOMAIN runs /\ j \in DOMAIN runs /\ i <= j /\ j <= i BY DEF LatestRuns
<1>3. i \in Nat /\ j \in Nat BY <1>1, <1>2
<1> QED BY <1>2, <1>3

(* Every run of a candidate that passes the gate is conclusive: completed, *)
(* without input drift, on the current inputs, and with each violation     *)
(* covered by a live waiver for that very run.                             *)
LEMMA GateRuns ==
    ASSUME TypeInv, NEW n \in DOMAIN candidates, NEW c, c = candidates[n], GateOpen(c),
           NEW i \in DOMAIN c.runs
    PROVE  /\ i \in DOMAIN runs /\ c.runs[i] = runs[i]
           /\ runs[i].done /\ runs[i].drift = {}
           /\ runs[i].snapshot = Snapshot(resources, runs[i].roots)
           /\ \A v \in runs[i].violations :
                 \E w \in waivers \ revokedWaivers :
                    /\ w.run = i /\ w.violation = v /\ clock < w.expires
                    /\ w.evidence = runs[i] /\ w.by # w.owner
<1>1. /\ c.runs = [k \in LatestRuns(policy) |-> runs[k]]
      /\ c.waivers \subseteq waivers \ revokedWaivers
      /\ c.resources = resources
  BY GateView
<1>2. i \in LatestRuns(policy) /\ i \in DOMAIN runs /\ c.runs[i] = runs[i]
  BY <1>1 DEF LatestRuns
<1>3. PICK req \in policy.checks : Scope(req) = Scope(runs[i]) BY <1>2 DEF LatestRuns
<1>4. PICK j \in DOMAIN c.runs :
         /\ Scope(c.runs[j]) = Scope(req)
         /\ InputsCurrent(c.resources, c.runs[j])
         /\ Conclusive(policy, req, j, c.runs[j], Waived(c, trust, clock), clock)
  BY DEF GateOpen, EvidenceReady, Satisfied
<1>5. j = i
  <2>1. j \in LatestRuns(policy) /\ c.runs[j] = runs[j] BY <1>1
  <2> QED BY <1>2, <1>3, <1>4, <2>1, LatestUnique
<1>6. InputsCurrent(resources, runs[i]) BY <1>1, <1>2, <1>4, <1>5
<1>7. Conclusive(policy, req, i, runs[i], Waived(c, trust, clock), clock)
  BY <1>2, <1>4, <1>5
<1>8. ASSUME NEW v \in runs[i].violations
      PROVE  \E w \in waivers \ revokedWaivers :
                /\ w.run = i /\ w.violation = v /\ clock < w.expires
                /\ w.evidence = runs[i] /\ w.by # w.owner
  <2>1. <<i, v>> \in Waived(c, trust, clock) BY <1>7 DEF Conclusive
  <2>2. PICK w \in c.waivers :
           /\ <<w.run, w.violation>> = <<i, v>> /\ clock < w.expires
           /\ w.by # w.owner /\ w.evidence = c.runs[w.run]
    BY <2>1 DEF Waived
  <2>3. w.run = i /\ w.violation = v BY <2>2
  <2> QED BY <1>1, <1>2, <2>2, <2>3
<1> QED BY <1>2, <1>6, <1>7, <1>8 DEF Conclusive, InputsCurrent

-----------------------------------------------------------------------------
(* No fallback, live waivers. *)

(* No step decides on an older run. *)
LEMMA StepNoFallback == ASSUME TypeInv, [EngineStep]_vars PROVE NoFallbackStep
<1> SUFFICES ASSUME NEW c \in NewDecision, NEW req \in c.policy.checks
             PROVE  \E i \in DOMAIN c.runs :
                       /\ Scope(runs[i]) = Scope(req)
                       /\ \A j \in DOMAIN runs : Scope(runs[j]) = Scope(req) => j <= i
  BY DEF NoFallbackStep
<1>1. GateOpen(c) /\ \E n \in DOMAIN candidates : c = candidates[n] BY GateBehindDecision
<1>2. c.policy = policy /\ c.runs = [i \in LatestRuns(policy) |-> runs[i]]
  BY <1>1, GateView
<1>3. PICK i \in DOMAIN c.runs : Scope(c.runs[i]) = Scope(req)
  BY <1>1, <1>2 DEF GateOpen, EvidenceReady, Satisfied
<1>4. i \in LatestRuns(policy) /\ Scope(runs[i]) = Scope(req) BY <1>2, <1>3
<1> QED BY <1>4 DEF LatestRuns

(* A decision rests on the run of each required scope that started last,   *)
(* never on an older pass.                                                 *)
THEOREM DecisionsCurrent == Spec \/ PlanSpec => NoFallback
<1>1. Init => TypeInv BY InitTypeInv
<1>2. TypeInv /\ [EngineStep]_vars => TypeInv' BY StepType
<1>3. TypeInv /\ [EngineStep]_vars => NoFallbackStep BY StepNoFallback
<1>4. Spec \/ PlanSpec => [][NoFallbackStep]_vars BY <1>1, <1>2, <1>3, Behaviours, PTL
<1> QED BY <1>4 DEF NoFallback

(* No step decides with a revoked or expired waiver. *)
LEMMA StepWaiversLive == ASSUME TypeInv, [EngineStep]_vars PROVE WaiversLiveStep
<1>1. \A c \in NewDecision : GateOpen(c) /\ \E n \in DOMAIN candidates : c = candidates[n]
  BY GateBehindDecision
<1> QED BY <1>1, GateRuns DEF WaiversLiveStep

(* A decision is made only while every waiver its evidence needs is        *)
(* neither revoked nor expired.                                            *)
THEOREM WaiversLiveAtDecision == Spec \/ PlanSpec => WaiversLive
<1>1. Init => TypeInv BY InitTypeInv
<1>2. TypeInv /\ [EngineStep]_vars => TypeInv' BY StepType
<1>3. TypeInv /\ [EngineStep]_vars => WaiversLiveStep BY StepWaiversLive
<1>4. Spec \/ PlanSpec => [][WaiversLiveStep]_vars BY <1>1, <1>2, <1>3, Behaviours, PTL
<1> QED BY <1>4 DEF WaiversLive

-----------------------------------------------------------------------------
(* Final evidence. *)

(* What has been decided on later is what was decided on before, or a new  *)
(* decision.                                                               *)
LEMMA DecidedGrows ==
    ASSUME TypeInv, [EngineStep]_vars
    PROVE  Decided' \subseteq Decided \cup NewDecision
<1>1. HistoryStep BY StepHistory
<1>2. \A a \in approvals' : a.candidate \in Decided \cup NewDecision
  BY DEF Decided, NewDecision
<1>3. \A n \in DOMAIN releases' : releases'[n].candidate \in Decided \cup NewDecision
  BY <1>1 DEF HistoryStep, Decided, NewDecision, NewRelease
<1>4. \A d \in DOMAIN deliveries' : deliveries'[d].candidate \in Decided \cup NewDecision
  BY <1>1 DEF HistoryStep, Decided, NewDecision, NewDelivery
<1> QED BY <1>2, <1>3, <1>4 DEF Decided

(* A decision is made on completed runs, and completed runs stay.          *)
LEMMA StepEvidenceFinal ==
    ASSUME TypeInv, DecidedEvidenceFinal, [EngineStep]_vars
    PROVE  DecidedEvidenceFinal'
<1> SUFFICES ASSUME NEW c \in Decided', NEW i \in DOMAIN c.runs
             PROVE  i \in DOMAIN runs' /\ c.runs[i] = runs'[i] /\ runs'[i].done
  BY DEF DecidedEvidenceFinal
<1>1. i \in DOMAIN runs /\ c.runs[i] = runs[i] /\ runs[i].done
  <2>1. CASE c \in Decided BY <2>1 DEF DecidedEvidenceFinal
  <2>2. CASE c \in NewDecision BY <2>2, GateBehindDecision, GateRuns
  <2> QED BY <2>1, <2>2, DecidedGrows
<1> QED BY <1>1, RunsKept

(* Nothing has been decided in a new project. *)
LEMMA NothingDecided == Init => Decided = {}
BY DEF Init, Decided

(* The evidence of every decision is complete when it is made and stays as *)
(* it was.                                                                 *)
THEOREM EvidenceFinal == Spec \/ PlanSpec => []DecidedEvidenceFinal
<1> DEFINE Inv == TypeInv /\ DecidedEvidenceFinal
<1>1. Init => Inv BY InitTypeInv, NothingDecided DEF DecidedEvidenceFinal
<1>2. Inv /\ [EngineStep]_vars => Inv' BY StepType, StepEvidenceFinal
<1>3. Inv => DecidedEvidenceFinal OBVIOUS
<1> HIDE DEF Inv
<1> QED BY <1>1, <1>2, <1>3, Behaviours, PTL

(* The waivers a decision needed stay on record for the run they waive.    *)
LEMMA StepViolationsWaived ==
    ASSUME TypeInv, DecidedEvidenceFinal, DecidedViolationsWaived, [EngineStep]_vars
    PROVE  DecidedViolationsWaived'
<1> SUFFICES ASSUME NEW c \in Decided', NEW i \in DOMAIN c.runs,
                    NEW v \in c.runs[i].violations
             PROVE  \E w \in waivers' : /\ w.run = i /\ w.violation = v
                                        /\ w.evidence = runs'[i] /\ w.by # w.owner
  BY DEF DecidedViolationsWaived
<1>1. /\ i \in DOMAIN runs /\ runs[i].done
      /\ \E w \in waivers : /\ w.run = i /\ w.violation = v
                            /\ w.evidence = runs[i] /\ w.by # w.owner
  <2>1. CASE c \in Decided BY <2>1 DEF DecidedEvidenceFinal, DecidedViolationsWaived
  <2>2. CASE c \in NewDecision
    <3>1. GateOpen(c) /\ \E n \in DOMAIN candidates : c = candidates[n]
      BY <2>2, GateBehindDecision
    <3> QED BY <3>1, GateRuns
  <2> QED BY <2>1, <2>2, DecidedGrows
<1>2. runs'[i] = runs[i] /\ waivers \subseteq waivers' BY <1>1, RunsKept, Writers
<1> QED BY <1>1, <1>2

(* Every violation in the evidence of a decision is covered by a waiver    *)
(* for the completed run, reviewed by somebody other than its owner.       *)
THEOREM ViolationsWaived == Spec \/ PlanSpec => []DecidedViolationsWaived
<1> DEFINE Inv == TypeInv /\ DecidedEvidenceFinal /\ DecidedViolationsWaived
<1>1. Init => Inv
  BY InitTypeInv, NothingDecided DEF DecidedEvidenceFinal, DecidedViolationsWaived
<1>2. Inv /\ [EngineStep]_vars => Inv' BY StepType, StepEvidenceFinal, StepViolationsWaived
<1>3. Inv => DecidedViolationsWaived OBVIOUS
<1> HIDE DEF Inv
<1> QED BY <1>1, <1>2, <1>3, Behaviours, PTL

-----------------------------------------------------------------------------
(* The bytes that were checked. *)

(* The fingerprint of a resource holds the resource itself. *)
LEMMA SnapshotSelf ==
    ASSUME NEW res, NEW roots, NEW k \in DOMAIN Snapshot(res, roots)
    PROVE  /\ k \in DOMAIN res
           /\ Snapshot(res, roots)[k] = Fingerprint(res, k)
           /\ Snapshot(res, roots)[k][k] = res[k]
<1>1. k \in DOMAIN res BY SnapshotDomain
<1>2. Snapshot(res, roots)[k] = Fingerprint(res, k) BY DEF Snapshot
<1>3. k \in Closure(res, {k}) BY <1>1 DEF Closure
<1>4. Fingerprint(res, k)[k] = res[k] BY <1>3 DEF Fingerprint
<1> QED BY <1>1, <1>2, <1>4

(* The history of run i agrees with its snapshot: the workspace held the   *)
(* tracked inputs as they were snapshotted when the run began, and when it *)
(* ended unless the run is marked as having drifted.                       *)
Witnessed(i) ==
    /\ DOMAIN seen[i] = {"atStart", "atEnd"}
    /\ \A k \in DOMAIN runs[i].snapshot \cap Tracked :
          /\ seen[i].atStart[k] = runs[i].snapshot[k][k].sha
          /\ runs[i].done /\ runs[i].drift = {} =>
                seen[i].atEnd[k] = runs[i].snapshot[k][k].sha

AllWitnessed == \A i \in DOMAIN runs : Witnessed(i)

(* Engine.begin has the workspace checked against the snapshot. *)
LEMMA BeginWitnessed ==
    ASSUME TypeInv, AllWitnessed, NEW kind, NEW inputs, NEW tool, NEW corner,
           Begin(kind, inputs, tool, corner)
    PROVE  AllWitnessed'
<1> DEFINE roots    == inputs \cup {tool, corner}
           snapshot == Snapshot(resources, roots)
<1>1. PICK run : /\ runs' = Append(runs, run)
                 /\ run.snapshot = snapshot /\ run.done = FALSE
  <2>1. PICK run : runs' = Append(runs, run) /\ Begins(run, inputs, tool, corner)
    BY BegunRun
  <2> QED BY <2>1 DEF Begins
<1>2. seen' = Append(seen, [atStart |-> Bytes(DOMAIN snapshot), atEnd |-> <<>>])
  BY DEF Begin
<1>3. PICK S : runs \in Seq(S) BY DEF TypeInv, Numbered
<1>4. PICK T : seen \in Seq(T) BY DEF TypeInv, Numbered
<1>5. Len(seen) = Len(runs) /\ DOMAIN seen = DOMAIN runs
  BY <1>3, <1>4 DEF TypeInv, TypeOK, RunsType
<1> PICK new : new = Len(runs) + 1 OBVIOUS
<1>6. /\ DOMAIN runs' = DOMAIN runs \cup {new}
      /\ \A i \in DOMAIN runs : runs'[i] = runs[i] /\ seen'[i] = seen[i]
      /\ runs'[new] = run
      /\ seen'[new] = [atStart |-> Bytes(DOMAIN snapshot), atEnd |-> <<>>]
  BY <1>1, <1>2, <1>3, <1>4, <1>5, Appended
<1>7. \A k \in DOMAIN snapshot \cap Tracked :
         Bytes(DOMAIN snapshot)[k] = snapshot[k][k].sha
  <2> SUFFICES ASSUME NEW k \in DOMAIN snapshot \cap Tracked
               PROVE  Bytes(DOMAIN snapshot)[k] = snapshot[k][k].sha
    OBVIOUS
  <2>1. Drift(resources, workspace, DOMAIN snapshot) = {} BY DEF Begin, Fresh
  <2>2. k \in DOMAIN resources /\ snapshot[k][k] = resources[k] BY SnapshotSelf
  <2>3. workspace[k] = resources[k].sha BY <2>1, <2>2 DEF Drift
  <2> QED BY <2>2, <2>3 DEF Bytes
<1>8. Witnessed(new)'
  <2> HIDE DEF snapshot
  <2> QED BY <1>1, <1>6, <1>7 DEF Witnessed
<1>9. \A i \in DOMAIN runs : Witnessed(i)' BY <1>6 DEF AllWitnessed, Witnessed
<1> QED BY <1>6, <1>8, <1>9 DEF AllWitnessed

(* Engine.finish marks the run as drifted if the workspace no longer holds *)
(* what was snapshotted.                                                   *)
LEMMA FinishWitnessed ==
    ASSUME TypeInv, AllWitnessed, NEW i \in DOMAIN runs, NEW o, NEW managed,
           Finish(i, o, managed)
    PROVE  AllWitnessed'
<1> DEFINE old == runs[i].snapshot
<1>1. PICK run : runs' = [runs EXCEPT ![i] = run] /\ Completes(run, i, o) BY FinishedRun
<1>2. seen' = [seen EXCEPT ![i].atEnd = Bytes(DOMAIN old)] BY DEF Finish
<1>3. DOMAIN seen = DOMAIN runs BY DEF TypeInv, TypeOK, RunsType
<1>4. /\ DOMAIN runs' = DOMAIN runs
      /\ \A j \in DOMAIN runs \ {i} : runs'[j] = runs[j] /\ seen'[j] = seen[j]
      /\ runs'[i] = run
      /\ seen'[i] = [seen[i] EXCEPT !.atEnd = Bytes(DOMAIN old)]
  BY <1>1, <1>2, <1>3
<1>5. /\ DOMAIN seen'[i] = {"atStart", "atEnd"}
      /\ seen'[i].atStart = seen[i].atStart /\ seen'[i].atEnd = Bytes(DOMAIN old)
  <2>1. DOMAIN seen[i] = {"atStart", "atEnd"} BY DEF AllWitnessed, Witnessed
  <2> QED BY <1>4, <2>1
<1>6. ASSUME ChangedInputs(runs[i]) = {}, NEW k \in DOMAIN old \cap Tracked
      PROVE  Bytes(DOMAIN old)[k] = old[k][k].sha
  <2> DEFINE current == Snapshot(resources, runs[i].roots)
  <2>1. k \in DOMAIN current /\ current[k] = old[k] BY <1>6 DEF ChangedInputs
  <2>2. Drift(resources, workspace, DOMAIN current) = {} BY <1>6 DEF ChangedInputs
  <2>3. k \in DOMAIN resources /\ current[k][k] = resources[k] BY <2>1, SnapshotSelf
  <2>4. workspace[k] = resources[k].sha BY <2>1, <2>2, <2>3 DEF Drift
  <2> QED BY <2>1, <2>3, <2>4 DEF Bytes
<1>7. Witnessed(i)'
  <2> HIDE DEF old
  <2>1. run.snapshot = old /\ run.drift = ChangedInputs(runs[i]) BY <1>1 DEF Completes, old
  <2>2. \A k \in DOMAIN old \cap Tracked : seen[i].atStart[k] = old[k][k].sha
    BY DEF AllWitnessed, Witnessed, old
  <2> QED BY <1>4, <1>5, <1>6, <2>1, <2>2 DEF Witnessed
<1>8. \A j \in DOMAIN runs \ {i} : Witnessed(j)' BY <1>4 DEF AllWitnessed, Witnessed
<1> QED BY <1>4, <1>7, <1>8 DEF AllWitnessed

(* Every step keeps the history in agreement with the runs. *)
LEMMA StepWitnessed == ASSUME TypeInv, AllWitnessed, [EngineStep]_vars PROVE AllWitnessed'
<1>1. CASE UNCHANGED <<runs, seen>> BY <1>1 DEF AllWitnessed, Witnessed
<1> QED BY <1>1, Writers, BeginWitnessed, FinishWitnessed

(* What the gate lets through was checked on the bytes that are there.     *)
LEMMA StepBytesChecked ==
    ASSUME TypeInv, AllWitnessed, DecidedEvidenceFinal, DecidedBytesWereChecked, [EngineStep]_vars
    PROVE  DecidedBytesWereChecked'
<1> SUFFICES ASSUME NEW c \in Decided', NEW i \in DOMAIN c.runs,
                    NEW k \in DOMAIN c.runs[i].snapshot \cap Tracked
             PROVE  /\ k \in DOMAIN c.resources
                    /\ seen'[i].atStart[k] = c.resources[k].sha
                    /\ seen'[i].atEnd[k] = c.resources[k].sha
  BY DEF DecidedBytesWereChecked
<1>1. /\ i \in DOMAIN runs /\ runs[i].done
      /\ k \in DOMAIN c.resources
      /\ seen[i].atStart[k] = c.resources[k].sha
      /\ seen[i].atEnd[k] = c.resources[k].sha
  <2>1. CASE c \in Decided BY <2>1 DEF DecidedEvidenceFinal, DecidedBytesWereChecked
  <2>2. CASE c \in NewDecision
    <3>1. PICK n \in DOMAIN candidates : c = candidates[n] /\ GateOpen(c)
      BY <2>2, GateBehindDecision
    <3>2. /\ i \in DOMAIN runs /\ c.runs[i] = runs[i]
          /\ runs[i].done /\ runs[i].drift = {}
          /\ runs[i].snapshot = Snapshot(resources, runs[i].roots)
      BY <3>1, GateRuns
    <3>3. c.resources = resources BY <3>1, GateView
    <3>4. k \in DOMAIN resources /\ runs[i].snapshot[k][k] = resources[k]
      BY <3>2, SnapshotSelf
    <3>5. Witnessed(i) BY <3>2 DEF AllWitnessed
    <3> QED BY <3>2, <3>3, <3>4, <3>5 DEF Witnessed
  <2> QED BY <2>1, <2>2, DecidedGrows
<1>2. seen'[i] = seen[i] BY <1>1, RunsKept
<1> QED BY <1>1, <1>2

(* The bytes that were decided on are the bytes that were in the workspace *)
(* when every run of the decided candidate began and when it ended.        *)
THEOREM BytesChecked == Spec \/ PlanSpec => []DecidedBytesWereChecked
<1> DEFINE Inv == TypeInv /\ AllWitnessed /\ DecidedEvidenceFinal /\ DecidedBytesWereChecked
<1>1. Init => Inv
  <2>1. Init => AllWitnessed BY DEF Init, AllWitnessed
  <2> QED BY <2>1, InitTypeInv, NothingDecided DEF DecidedEvidenceFinal, DecidedBytesWereChecked
<1>2. Inv /\ [EngineStep]_vars => Inv'
  BY StepType, StepWitnessed, StepEvidenceFinal, StepBytesChecked
<1>3. Inv => DecidedBytesWereChecked OBVIOUS
<1> HIDE DEF Inv
<1> QED BY <1>1, <1>2, <1>3, Behaviours, PTL

-----------------------------------------------------------------------------
(* Fresh derivatives. *)

(* Only Engine.register writes the resources. *)
LEMMA ResourcesWritten ==
    ASSUME [EngineStep]_vars
    PROVE  \/ UNCHANGED resources
           \/ \E r \in Resource, sha \in Content : \E deps \in DepChoice[r] :
                 Register(r, deps, sha)
<1>1. CASE Environment
  <2>1. UNCHANGED ledger
    BY <1>1 DEF Environment, EditWorkspace, DamageObject, EditPolicy, RevokeKey, Tick
  <2> QED BY <2>1 DEF ledger, evidence
<1>2. CASE PinPolicy \/ UNCHANGED vars
  BY <1>2 DEF PinPolicy, vars, ledger, evidence
<1>3. CASE Operation
  <2> USE DEF evidence
  <2>1. ASSUME NEW kind, NEW tool, NEW corner, NEW inputs, Begin(kind, inputs, tool, corner)
        PROVE  UNCHANGED resources
    BY <2>1 DEF Begin
  <2>2. ASSUME NEW i, NEW o, NEW managed, Finish(i, o, managed)
        PROVE  UNCHANGED resources
    BY <2>2 DEF Finish
  <2>3. ASSUME NEW i, NEW v, NEW owner, NEW by, NEW expires, NEW files,
               Waive(i, v, owner, by, expires, files)
        PROVE  UNCHANGED resources
    BY <2>3 DEF Waive
  <2>4. ASSUME NEW w, NEW by, RevokeWaiver(w, by) PROVE UNCHANGED resources
    BY <2>4 DEF RevokeWaiver
  <2>5. ASSUME NEW n, NEW by, NEW layouts, CreateCandidate(n, by, layouts)
        PROVE  UNCHANGED resources
    BY <2>5 DEF CreateCandidate
  <2>6. ASSUME NEW n, NEW role, NEW by, Approve(n, role, by) PROVE UNCHANGED resources
    BY <2>6 DEF Approve
  <2>7. ASSUME NEW a, NEW by, RevokeApproval(a, by) PROVE UNCHANGED resources
    BY <2>7 DEF RevokeApproval
  <2>8. ASSUME NEW n, NEW by, Seal(n, by) PROVE UNCHANGED resources BY <2>8 DEF Seal
  <2>9. ASSUME NEW n, NEW by, Withdraw(n, by) PROVE UNCHANGED resources BY <2>9 DEF Withdraw
  <2>10. ASSUME NEW n, Receipt(n) PROVE UNCHANGED resources BY <2>10 DEF Receipt
  <2>11. ASSUME NEW d, NEW n, NEW layouts, NEW recipient, NEW by,
                SealDelivery(d, n, layouts, recipient, by)
         PROVE  UNCHANGED resources
    BY <2>11 DEF SealDelivery
  <2>12. ASSUME NEW d, RecordReceipt(d) PROVE UNCHANGED resources BY <2>12 DEF RecordReceipt
  <2>13. ASSUME NEW o, Attach(o) PROVE UNCHANGED resources BY <2>13 DEF Attach, ledger
  <2> QED
    BY <1>3, <2>1, <2>2, <2>3, <2>4, <2>5, <2>6, <2>7, <2>8, <2>9, <2>10, <2>11, <2>12, <2>13
    DEF Operation
<1> QED BY <1>1, <1>2, <1>3 DEF EngineStep, Next

(* Graph._build accepts what it writes. *)
LEMMA StepGraph == ASSUME Valid(resources), [EngineStep]_vars PROVE Valid(resources)'
<1>1. Valid(resources)' = Valid(resources') BY DEF Valid, Grounded, Acyclic
<1>2. ASSUME NEW r \in Resource, NEW sha \in Content, NEW deps \in DepChoice[r],
             Register(r, deps, sha)
      PROVE  Valid(resources')
  BY <1>2 DEF Register
<1> QED BY <1>1, <1>2, ResourcesWritten

(* What a snapshot of fresh resources holds was built from what the same   *)
(* snapshot holds.                                                         *)
BoundFresh(snap) ==
    \A k \in DOMAIN snap : \A d \in snap[k][k].deps :
        d \in DOMAIN snap /\ snap[k][k].pins[d] = snap[d]

(* A snapshot of resources none of which is stale binds fresh derivatives:  *)
(* the closure holds every dependency, and a pin that is not stale is the   *)
(* current fingerprint.                                                     *)
LEMMA FreshSnapshot ==
    ASSUME NEW res, Valid(res), NEW roots, roots \subseteq DOMAIN res,
           \A k \in DOMAIN Snapshot(res, roots) : ~Stale(res, k)
    PROVE  BoundFresh(Snapshot(res, roots))
<1> DEFINE snap == Snapshot(res, roots)
<1>1. DOMAIN snap = Closure(res, roots) BY SnapshotDomain
<1> SUFFICES ASSUME NEW k \in DOMAIN snap, NEW d \in snap[k][k].deps
             PROVE  d \in DOMAIN snap /\ snap[k][k].pins[d] = snap[d]
  BY DEF BoundFresh
<1>2. k \in DOMAIN res /\ snap[k][k] = res[k] BY SnapshotSelf
<1>3. d \in DOMAIN snap BY <1>1, <1>2, ClosureIsLeast
<1>4. snap[d] = Fingerprint(res, d) BY <1>3, SnapshotSelf
<1>5. k \in Closure(res, {k}) BY <1>2 DEF Closure
<1>6. res[k].pins[d] = Fingerprint(res, d) BY <1>2, <1>5 DEF Stale
<1> QED BY <1>2, <1>3, <1>4, <1>6

(* Engine.begin takes its snapshot of fresh resources, and no step changes *)
(* a snapshot.                                                             *)
LEMMA StepFreshDerivatives ==
    ASSUME TypeInv, Valid(resources), RunsBindFreshDerivatives, [EngineStep]_vars
    PROVE  RunsBindFreshDerivatives'
<1> SUFFICES ASSUME NEW i \in DOMAIN runs' PROVE BoundFresh(runs'[i].snapshot)
  BY DEF RunsBindFreshDerivatives, BoundFresh
<1>1. CASE i \in DOMAIN runs
  <2>1. BoundFresh(runs[i].snapshot) BY <1>1 DEF RunsBindFreshDerivatives, BoundFresh
  <2>2. runs'[i].snapshot = runs[i].snapshot BY <1>1, RunsKept
  <2> QED BY <2>1, <2>2
<1>2. CASE i \notin DOMAIN runs
  <2>1. PICK S : runs \in Seq(S) BY DEF TypeInv, Numbered
  <2>2. ASSUME NEW j \in DOMAIN runs, NEW o, NEW managed, Finish(j, o, managed) PROVE FALSE
    <3>1. DOMAIN runs' = DOMAIN runs BY <2>2 DEF Finish
    <3> QED BY <1>2, <3>1
  <2>3. PICK kind \in DOMAIN CheckInput, tool \in Tool, corner \in Corner :
                \E inputs \in CheckInput[kind] : Begin(kind, inputs, tool, corner)
    BY <1>2, <2>2, Writers
  <2>4. PICK inputs \in CheckInput[kind] : Begin(kind, inputs, tool, corner) BY <2>3
  <2>5. PICK run : /\ runs' = Append(runs, run)
                   /\ run.snapshot = Snapshot(resources, inputs \cup {tool, corner})
    <3>1. PICK run : runs' = Append(runs, run) /\ Begins(run, inputs, tool, corner)
      BY <2>4, BegunRun
    <3> QED BY <3>1 DEF Begins
  <2>6. runs'[i] = run BY <1>2, <2>1, <2>5, Appended
  <2>7. /\ inputs \cup {tool, corner} \subseteq DOMAIN resources
        /\ Fresh(resources, workspace, DOMAIN Snapshot(resources, inputs \cup {tool, corner}))
    BY <2>4 DEF Begin
  <2>8. BoundFresh(Snapshot(resources, inputs \cup {tool, corner}))
    BY <2>7, FreshSnapshot DEF Fresh
  <2> QED BY <2>5, <2>6, <2>8
<1> QED BY <1>1, <1>2

(* No run binds an obsolete derivative: what its snapshot holds was built  *)
(* from the very fingerprints that are in the same snapshot.               *)
THEOREM FreshDerivatives == Spec \/ PlanSpec => []RunsBindFreshDerivatives
<1> DEFINE Inv == TypeInv /\ Valid(resources) /\ RunsBindFreshDerivatives
<1>1. Init => Inv
  BY InitTypeInv, InitialAssumption DEF Init, RunsBindFreshDerivatives
<1>2. Inv /\ [EngineStep]_vars => Inv' BY StepType, StepGraph, StepFreshDerivatives
<1>3. Inv => RunsBindFreshDerivatives OBVIOUS
<1> HIDE DEF Inv
<1> QED BY <1>1, <1>2, <1>3, Behaviours, PTL

-----------------------------------------------------------------------------
(* Pinned inputs. *)

(* A decision is made on a pinned run for every requirement, and that run  *)
(* stays.                                                                  *)
LEMMA StepRunsPinned ==
    ASSUME TypeInv, DecidedEvidenceFinal, DecidedRunsPinned, [EngineStep]_vars
    PROVE  DecidedRunsPinned'
<1> DEFINE Pinned(i, req) ==
              /\ Scope(runs[i]) = Scope(req)
              /\ runs[i].tool \in req.tools
              /\ req.pinnedExe => runs[i].managed /\ runs[i].exeIntact
              /\ \A k \in DOMAIN req.pins \ (req.tools \ {runs[i].tool}) :
                    /\ k \in DOMAIN runs[i].snapshot
                    /\ runs[i].snapshot[k][k].sha = req.pins[k]
<1> SUFFICES ASSUME NEW c \in Decided', NEW req \in c.policy.checks
             PROVE  \E i \in DOMAIN c.runs : Pinned(i, req)'
  BY DEF DecidedRunsPinned
<1>1. PICK i \in DOMAIN c.runs : i \in DOMAIN runs /\ runs[i].done /\ Pinned(i, req)
  <2>1. CASE c \in Decided BY <2>1 DEF DecidedEvidenceFinal, DecidedRunsPinned
  <2>2. CASE c \in NewDecision
    <3>1. PICK n \in DOMAIN candidates : c = candidates[n] /\ GateOpen(c)
      BY <2>2, GateBehindDecision
    <3>2. c.policy = policy /\ c.resources = resources BY <3>1, GateView
    <3>3. PICK i \in DOMAIN c.runs :
             Scope(c.runs[i]) = Scope(req) /\ PinsMet(resources, req, c.runs[i])
      BY <3>1, <3>2 DEF GateOpen, EvidenceReady, Satisfied
    <3>4. /\ i \in DOMAIN runs /\ c.runs[i] = runs[i] /\ runs[i].done
          /\ runs[i].snapshot = Snapshot(resources, runs[i].roots)
      BY <3>1, GateRuns
    <3>5. PinsMet(resources, req, runs[i]) /\ Scope(runs[i]) = Scope(req) BY <3>3, <3>4
    <3>6. \A k \in DOMAIN req.pins \ (req.tools \ {runs[i].tool}) :
             k \in DOMAIN runs[i].snapshot /\ runs[i].snapshot[k][k].sha = req.pins[k]
      BY <3>4, <3>5, SnapshotSelf DEF PinsMet
    <3> QED BY <3>4, <3>5, <3>6 DEF PinsMet
  <2> QED BY <2>1, <2>2, DecidedGrows
<1>2. runs'[i] = runs[i] BY <1>1, RunsKept
<1>3. Pinned(i, req)' BY <1>1, <1>2
<1> QED BY <1>3

(* For every requirement of its policy a decided candidate has a run by an *)
(* allowed tool on exactly the inputs the policy pins.                     *)
THEOREM RunsPinned == Spec \/ PlanSpec => []DecidedRunsPinned
<1> DEFINE Inv == TypeInv /\ DecidedEvidenceFinal /\ DecidedRunsPinned
<1>1. Init => Inv
  BY InitTypeInv, NothingDecided DEF DecidedEvidenceFinal, DecidedRunsPinned
<1>2. Inv /\ [EngineStep]_vars => Inv' BY StepType, StepEvidenceFinal, StepRunsPinned
<1>3. Inv => DecidedRunsPinned OBVIOUS
<1> HIDE DEF Inv
<1> QED BY <1>1, <1>2, <1>3, Behaviours, PTL

-----------------------------------------------------------------------------
(* What leaves the project. *)

(* No operation of the engine touches what is around the ledger. *)
LEMMA OperationKeepsEnvironment == ASSUME Operation PROVE UNCHANGED environment
<1>1. \A r \in Resource, sha \in Content :
         \A deps \in DepChoice[r] : Register(r, deps, sha) => UNCHANGED environment
  BY DEF Register
<1>2. \A kind \in DOMAIN CheckInput, tool \in Tool, corner \in Corner :
         \A inputs \in CheckInput[kind] :
            Begin(kind, inputs, tool, corner) => UNCHANGED environment
  BY DEF Begin
<1>3. \A i \in DOMAIN runs, o \in Outcome, managed \in Capture :
         Finish(i, o, managed) => UNCHANGED environment
  BY DEF Finish
<1>4. \A i \in DOMAIN runs, v \in Violation, owner, by \in Principal :
         \A expires \in 1..(MaxClock + 1), attachments \in Attachments :
            Waive(i, v, owner, by, expires, attachments) => UNCHANGED environment
  BY DEF Waive
<1>5. \A w \in waivers, by \in Principal : RevokeWaiver(w, by) => UNCHANGED environment
  BY DEF RevokeWaiver
<1>6. \A n \in CandidateName, by \in Principal, layouts \in SUBSET Layout :
         CreateCandidate(n, by, layouts) => UNCHANGED environment
  BY DEF CreateCandidate
<1>7. \A n \in DOMAIN candidates, role \in Role, by \in Principal :
         Approve(n, role, by) => UNCHANGED environment
  BY DEF Approve
<1>8. \A a \in approvals, by \in Principal : RevokeApproval(a, by) => UNCHANGED environment
  BY DEF RevokeApproval
<1>9. \A n, by : Seal(n, by) \/ Withdraw(n, by) \/ Receipt(n) => UNCHANGED environment
  BY DEF Seal, Withdraw, Receipt
<1>10. \A d, n, layouts, recipient, by :
          SealDelivery(d, n, layouts, recipient, by) \/ RecordReceipt(d)
             => UNCHANGED environment
  BY DEF SealDelivery, RecordReceipt
<1>11. \A o : Attach(o) => UNCHANGED environment BY DEF Attach
<1> QED BY <1>1, <1>2, <1>3, <1>4, <1>5, <1>6, <1>7, <1>8, <1>9, <1>10, <1>11 DEF Operation

(* The clock never goes back. *)
LEMMA ClockForward == ASSUME TypeInv, [EngineStep]_vars PROVE clock \in Int /\ clock <= clock'
<1>1. clock \in Int BY BoundAssumption DEF TypeInv, TypeOK, EnvironmentType
<1>2. UNCHANGED clock \/ clock' = clock + 1
  <2>1. CASE Environment
    BY <2>1 DEF Environment, EditWorkspace, DamageObject, EditPolicy, RevokeKey, Tick,
       environment
  <2>2. CASE PinPolicy \/ UNCHANGED vars BY <2>2 DEF PinPolicy, vars, environment
  <2>3. CASE Operation BY <2>3, OperationKeepsEnvironment DEF environment
  <2> QED BY <2>1, <2>2, <2>3 DEF EngineStep, Next
<1> QED BY <1>1, <1>2

-----------------------------------------------------------------------------
(* Archives. *)

(* An option that counts is one of an approval for this candidate.         *)
LEMMA OptionsOfCandidate ==
    ASSUME NEW c, NEW pol, NEW tr, NEW signed, NEW at
    PROVE  Options(c, pol, tr, {a \in signed : a.candidate = c}, at)
              = Options(c, pol, tr, signed, at)
BY DEF Options

(* Sealing puts into the archive all that its verification needs, and what *)
(* is sealed is not changed.                                               *)
LEMMA StepArchiveVerifies ==
    ASSUME TypeInv, ArchiveVerifies, [EngineStep]_vars
    PROVE  ArchiveVerifies'
<1>1. HistoryStep BY StepHistory
<1>2. CASE UNCHANGED releases BY <1>2 DEF ArchiveVerifies
<1>3. CASE \E n \in DOMAIN candidates, by \in Principal : Seal(n, by)
  <2>1. PICK n \in DOMAIN candidates, by \in Principal : Seal(n, by) BY <1>3
  <2> DEFINE cand   == candidates[n]
             signed == {a \in ActiveApprovals : a.candidate = cand}
             rec    == [candidate |-> cand, approvals |-> signed, policy |-> policy,
                        sealedAt |-> clock, signer |-> by]
  <2>2. releases' = [m \in DOMAIN releases \cup {n} |-> IF m # n THEN releases[m] ELSE rec]
    BY <2>1 DEF Seal
  <2>3. Ready(cand, policy, trust, ActiveApprovals, clock)
    BY <2>1 DEF Seal, GateReady
  <2>4. trust = cand.trust BY <2>3 DEF Ready, EvidenceReady
  <2>5. Ready(cand, policy, cand.trust, signed, clock)
    BY <2>3, <2>4, OptionsOfCandidate DEF Ready
  <2> QED BY <2>2, <2>5 DEF ArchiveVerifies
<1> QED BY <1>2, <1>3, Writers

(* Every archive verifies, under the trust store it was sealed with, with  *)
(* nothing but the approvals it carries.                                   *)
THEOREM ArchivesVerify == Spec \/ PlanSpec => []ArchiveVerifies
<1> DEFINE Inv == TypeInv /\ ArchiveVerifies
<1>1. Init => Inv BY InitTypeInv DEF Init, ArchiveVerifies
<1>2. Inv /\ [EngineStep]_vars => Inv' BY StepType, StepArchiveVerifies
<1>3. Inv => ArchiveVerifies OBVIOUS
<1> HIDE DEF Inv
<1> QED BY <1>1, <1>2, <1>3, Behaviours, PTL

-----------------------------------------------------------------------------
(* Deliveries. *)

(* A candidate freezes the digests of the layouts it declares. *)
LayoutsFrozen ==
    \A n \in DOMAIN candidates : \A l \in DOMAIN candidates[n].deliveries :
        /\ l \in DOMAIN candidates[n].resources
        /\ candidates[n].deliveries[l] = candidates[n].resources[l].sha

(* A release is of the candidate of its name, sealed in the past. *)
ReleasesNamed ==
    \A n \in DOMAIN releases : /\ releases[n].candidate = candidates[n]
                               /\ releases[n].sealedAt \in Int
                               /\ releases[n].sealedAt <= clock

(* Engine.candidate freezes the layouts once and for all. *)
LEMMA StepLayoutsFrozen ==
    ASSUME TypeInv, LayoutsFrozen, [EngineStep]_vars
    PROVE  LayoutsFrozen'
<1>1. HistoryStep BY StepHistory
<1>2. CASE UNCHANGED candidates BY <1>2 DEF LayoutsFrozen
<1>3. CASE \E n \in CandidateName, by \in Principal, layouts \in SUBSET Layout :
              CreateCandidate(n, by, layouts)
  <2>1. PICK n \in CandidateName, by \in Principal, layouts \in SUBSET Layout :
           CreateCandidate(n, by, layouts)
    BY <1>3
  <2> DEFINE blank == [name |-> n, by |-> by, resources |-> <<>>, runs |-> <<>>,
                       waivers |-> {}, deliveries |-> [l \in layouts |-> Absent],
                       policy |-> policy, trust |-> trust]
             cand  == ScopeView(blank, policy, trust)
  <2>2. candidates' = [m \in DOMAIN candidates \cup {n} |->
                          IF m = n THEN cand ELSE candidates[m]]
    BY <2>1 DEF CreateCandidate
  <2>3. cand.resources = resources /\ cand.deliveries = [l \in layouts |-> resources[l].sha]
    BY DEF ScopeView
  <2>4. layouts \subseteq DOMAIN resources BY <2>1 DEF CreateCandidate
  <2> HIDE DEF cand
  <2> QED BY <2>2, <2>3, <2>4 DEF LayoutsFrozen
<1> QED BY <1>2, <1>3, Writers

(* Releases keep the names and times they were sealed with. *)
LEMMA StepReleasesNamed ==
    ASSUME TypeInv, ReleasesNamed, [EngineStep]_vars
    PROVE  ReleasesNamed'
<1>1. HistoryStep /\ DOMAIN releases \subseteq DOMAIN candidates
  BY StepHistory DEF TypeInv, TypeOK, OutboundType
<1>2. clock \in Int /\ clock <= clock' /\ clock' \in Int
  BY ClockForward, StepType, BoundAssumption DEF TypeInv, TypeOK, EnvironmentType
<1>3. \A n \in DOMAIN releases : /\ releases'[n].candidate = candidates'[n]
                                 /\ releases'[n].sealedAt \in Int
                                 /\ releases'[n].sealedAt <= clock'
  BY <1>1, <1>2 DEF HistoryStep, ReleasesNamed
<1>4. \A n \in DOMAIN releases' \ DOMAIN releases :
         /\ n \in DOMAIN candidates /\ releases'[n].candidate = candidates[n]
         /\ releases'[n].sealedAt = clock
  <2>1. ASSUME NEW n \in DOMAIN candidates, NEW by, Seal(n, by)
        PROVE  \A m \in DOMAIN releases' \ DOMAIN releases :
                  /\ m = n /\ releases'[m].candidate = candidates[n]
                  /\ releases'[m].sealedAt = clock
    BY <2>1 DEF Seal
  <2> QED BY <2>1, Writers
<1> QED BY <1>1, <1>2, <1>3, <1>4 DEF HistoryStep, ReleasesNamed

(* A delivery is made of a sealed candidate and its frozen layouts. *)
LEMMA StepDelivery ==
    ASSUME TypeInv, LayoutsFrozen, ReleasesNamed, DeliveryMatchesRelease, [EngineStep]_vars
    PROVE  DeliveryMatchesRelease'
<1> DEFINE Matches(d) ==
              LET x == deliveries[d]
              IN  /\ x.release \in DOMAIN releases
                  /\ releases[x.release].candidate = x.candidate
                  /\ \A l \in DOMAIN x.files :
                        l \in DOMAIN x.candidate.resources
                        /\ x.files[l] = x.candidate.resources[l].sha
                  /\ releases[x.release].sealedAt <= x.sealedAt
<1>1. HistoryStep BY StepHistory
<1>2. \A d \in DOMAIN deliveries : Matches(d)' BY <1>1 DEF HistoryStep, DeliveryMatchesRelease
<1>3. \A d \in DOMAIN deliveries' \ DOMAIN deliveries : Matches(d)'
  <2>1. ASSUME NEW d, NEW n \in DOMAIN candidates, NEW layouts, NEW recipient, NEW by,
               SealDelivery(d, n, layouts, recipient, by)
        PROVE  \A e \in DOMAIN deliveries' \ DOMAIN deliveries : Matches(e)'
    <3> DEFINE cand == candidates[n]
               rec  == [release |-> n, candidate |-> cand,
                        files |-> [l \in layouts |-> cand.deliveries[l]],
                        recipient |-> recipient, sealedAt |-> clock]
    <3>1. deliveries' = [e \in DOMAIN deliveries \cup {d} |->
                            IF e # d THEN deliveries[e] ELSE rec]
      BY <2>1 DEF SealDelivery
    <3>2. /\ n \in DOMAIN releases /\ releases[n].candidate = cand
          /\ releases[n].sealedAt <= clock
      BY <2>1 DEF SealDelivery, IsSealed, ReleasesNamed
    <3>3. n \in DOMAIN releases' /\ releases'[n] = releases[n] BY <1>1, <3>2 DEF HistoryStep
    <3>4. \A l \in layouts : /\ l \in DOMAIN cand.resources
                             /\ cand.deliveries[l] = cand.resources[l].sha
      BY <2>1 DEF SealDelivery, LayoutsFrozen
    <3>5. \A e \in DOMAIN deliveries' \ DOMAIN deliveries : deliveries'[e] = rec BY <3>1
    <3> HIDE DEF cand
    <3> QED BY <3>2, <3>3, <3>4, <3>5
  <2> QED BY <2>1, Writers
<1> QED BY <1>2, <1>3 DEF DeliveryMatchesRelease

(* A delivery carries the layouts its release sealed, as the candidate     *)
(* froze them, and nothing else.                                           *)
THEOREM DeliveriesMatch == Spec \/ PlanSpec => []DeliveryMatchesRelease
<1> DEFINE Inv == TypeInv /\ LayoutsFrozen /\ ReleasesNamed /\ DeliveryMatchesRelease
<1>1. Init => Inv
  BY InitTypeInv DEF Init, LayoutsFrozen, ReleasesNamed, DeliveryMatchesRelease
<1>2. Inv /\ [EngineStep]_vars => Inv'
  BY StepType, StepLayoutsFrozen, StepReleasesNamed, StepDelivery
<1>3. Inv => DeliveryMatchesRelease OBVIOUS
<1> HIDE DEF Inv
<1> QED BY <1>1, <1>2, <1>3, Behaviours, PTL

-----------------------------------------------------------------------------
(* The lifecycle of a release. *)

(* Approvals are numbered as they are given, so that two of them are two   *)
(* endorsements, and a revocation retracts one and no other.               *)
ApprovalsNumbered ==
    /\ IsFiniteSet(approvals)
    /\ \A a \in approvals : a.id \in Nat /\ a.id < Cardinality(approvals)
    /\ \A a, b \in approvals : a.id = b.id => a = b

(* Approve gives a new approval the number of those before it, and nothing  *)
(* removes one.                                                             *)
LEMMA StepApprovalsNumbered ==
    ASSUME ApprovalsNumbered, [EngineStep]_vars PROVE ApprovalsNumbered'
<1>1. CASE UNCHANGED approvals BY <1>1 DEF ApprovalsNumbered
<1>2. CASE \E n \in DOMAIN candidates, role \in Role, by \in Principal : Approve(n, role, by)
  <2>0. PICK n \in DOMAIN candidates, role \in Role, by \in Principal : Approve(n, role, by)
    BY <1>2
  <2> DEFINE a == [candidate |-> candidates[n], role |-> role, by |-> by, at |-> clock,
                   id |-> Cardinality(approvals)]
  <2>1. approvals' = approvals \cup {a} /\ a.id = Cardinality(approvals)
    BY <2>0 DEF Approve
  <2> HIDE DEF a
  <2>2. Cardinality(approvals) \in Nat BY FS_CardinalityType DEF ApprovalsNumbered
  <2>3. a \notin approvals BY <2>1, <2>2 DEF ApprovalsNumbered
  <2>4. IsFiniteSet(approvals') /\ Cardinality(approvals') = Cardinality(approvals) + 1
    BY <2>1, <2>3, FS_AddElement DEF ApprovalsNumbered
  <2>5. ASSUME NEW b \in approvals' PROVE b.id \in Nat /\ b.id < Cardinality(approvals')
    <3>1. CASE b \in approvals
      <4>1. b.id \in Nat /\ b.id < Cardinality(approvals) BY <3>1 DEF ApprovalsNumbered
      <4> QED BY <2>2, <2>4, <4>1
    <3>2. CASE b = a BY <2>1, <2>2, <2>4, <3>2
    <3> QED BY <2>1, <3>1, <3>2
  <2>6. \A b, c \in approvals' : b.id = c.id => b = c
    <3>1. \A b \in approvals : b.id # a.id BY <2>1, <2>2 DEF ApprovalsNumbered
    <3> QED BY <2>1, <3>1 DEF ApprovalsNumbered
  <2> QED BY <2>4, <2>5, <2>6 DEF ApprovalsNumbered
<1> QED BY <1>1, <1>2, Writers

LifecycleInv ==
    /\ TypeInv /\ LayoutsFrozen /\ ReleasesNamed /\ DeliveryMatchesRelease
    /\ ApprovalsNumbered

(* The abstract state of module EngineLifecycle. *)
Stage        == [n \in CandidateName |-> StageOf(n)]
Charters     == [n \in DOMAIN candidates |-> CharterOf(candidates[n])]
Endorsed     == {AsEndorsement(a) : a \in approvals}
Retracted    == {AsEndorsement(a) : a \in revokedApprovals}
Shipped      == [d \in DOMAIN deliveries |-> deliveries[d].release]

(* What does not touch decisions or releases is no step of the lifecycle. *)
LEMMA Stutters ==
    ASSUME UNCHANGED <<candidates, approvals, revokedApprovals, releases, withdrawals,
                       deliveries, deliveryReceipts>>
    PROVE  UNCHANGED Lifecycle!lifecycle
BY DEF Lifecycle!lifecycle, StageOf, CharterOf, AsEndorsement

(* A step that changes the stage of a covered draft to sealed is a Seal. *)
LEMMA SealsAbstractly ==
    ASSUME NEW n \in CandidateName, Stage[n] = "drafted", Lifecycle!Covered(n),
           Stage' = [Stage EXCEPT ![n] = "sealed"],
           UNCHANGED <<Charters, Endorsed, Retracted, Shipped, deliveryReceipts>>
    PROVE  Lifecycle!Next
BY DEF Lifecycle!Next, Lifecycle!Seal, Stage, Charters, Endorsed, Retracted, Shipped

(* A step that adds a charter for an unused name is a Draft. *)
LEMMA DraftsAbstractly ==
    ASSUME NEW n \in CandidateName, Stage[n] = "none", NEW c,
           c \in [author: Principal, roles: {p.roles : p \in Policies},
                  distinct: BOOLEAN, forbidSelf: BOOLEAN],
           Stage' = [Stage EXCEPT ![n] = "drafted"],
           Charters' = [m \in DOMAIN Charters \cup {n} |-> IF m = n THEN c ELSE Charters[m]],
           UNCHANGED <<Endorsed, Retracted, Shipped, deliveryReceipts>>
    PROVE  Lifecycle!Next
BY DEF Lifecycle!Next, Lifecycle!Draft, Stage, Charters, Endorsed, Retracted, Shipped

(* A step that adds a permitted endorsement is an Endorse. *)
LEMMA EndorsesAbstractly ==
    ASSUME NEW n \in CandidateName, Stage[n] \in {"drafted", "sealed"},
           NEW e, e \in Endorsed' \ Endorsed, Endorsed' = Endorsed \cup {e},
           e.name = n, e.role \in Charters[n].roles, e.by \in Principal,
           Charters[n].forbidSelf => e.by # Charters[n].author,
           UNCHANGED <<Stage, Charters, Retracted, Shipped, deliveryReceipts>>
    PROVE  Lifecycle!Next
BY DEF Lifecycle!Next, Lifecycle!Endorse, Stage, Charters, Endorsed, Retracted, Shipped

(* A step that adds a retraction of an endorsement is a Retract. *)
LEMMA RetractsAbstractly ==
    ASSUME NEW e \in Endorsed \ Retracted, Retracted' = Retracted \cup {e},
           UNCHANGED <<Stage, Charters, Endorsed, Shipped, deliveryReceipts>>
    PROVE  Lifecycle!Next
BY DEF Lifecycle!Next, Lifecycle!Retract, Stage, Charters, Endorsed, Retracted, Shipped

(* A step that changes a sealed stage to withdrawn is a Withdraw. *)
LEMMA WithdrawsAbstractly ==
    ASSUME NEW n \in CandidateName, Stage[n] = "sealed",
           Stage' = [Stage EXCEPT ![n] = "withdrawn"],
           UNCHANGED <<Charters, Endorsed, Retracted, Shipped, deliveryReceipts>>
    PROVE  Lifecycle!Next
BY DEF Lifecycle!Next, Lifecycle!Withdraw, Stage, Charters, Endorsed, Retracted, Shipped

(* A step that adds a shipment of a covered, sealed name is a Ship. *)
LEMMA ShipsAbstractly ==
    ASSUME NEW n \in CandidateName, NEW d \in DeliveryId, d \notin DOMAIN Shipped,
           Stage[n] = "sealed", Lifecycle!Covered(n),
           Shipped' = [e \in DOMAIN Shipped \cup {d} |-> IF e = d THEN n ELSE Shipped[e]],
           UNCHANGED <<Stage, Charters, Endorsed, Retracted, deliveryReceipts>>
    PROVE  Lifecycle!Next
BY DEF Lifecycle!Next, Lifecycle!Ship, Stage, Charters, Endorsed, Retracted, Shipped

(* A step that adds the receipt of a shipment is an Acknowledge. *)
LEMMA AcknowledgesAbstractly ==
    ASSUME NEW d \in DOMAIN Shipped, Stage[Shipped[d]] = "sealed",
           deliveryReceipts' = deliveryReceipts \cup {d},
           UNCHANGED <<Stage, Charters, Endorsed, Retracted, Shipped>>
    PROVE  Lifecycle!Next
BY DEF Lifecycle!Next, Lifecycle!Acknowledge, Stage, Charters, Endorsed, Retracted, Shipped

(* What the abstract state is made of. *)
LEMMA StageFrame ==
    ASSUME UNCHANGED <<candidates, releases, withdrawals>> PROVE UNCHANGED <<Stage, Charters>>
BY DEF Stage, Charters, StageOf, CharterOf

(* The endorsements, retractions and shipments follow the ledger's sections. *)
LEMMA EndorsedFrame ==
    /\ UNCHANGED approvals => UNCHANGED Endorsed
    /\ UNCHANGED revokedApprovals => UNCHANGED Retracted
    /\ UNCHANGED deliveries => UNCHANGED Shipped
BY DEF Endorsed, Retracted, Shipped, AsEndorsement

(* The gate passes for a candidate under its own charter. *)
LEMMA GateStage ==
    ASSUME LifecycleInv, NEW n \in DOMAIN candidates, GateOpen(candidates[n])
    PROVE  /\ n \in CandidateName /\ candidates[n].name = n
           /\ candidates[n].policy = policy /\ Charters[n] = CharterOf(candidates[n])
           /\ Stage[n] = IF n \in DOMAIN releases THEN "sealed" ELSE "drafted"
<1>1. n \in CandidateName /\ candidates[n].name = n
  BY DEF LifecycleInv, TypeInv, TypeOK, DecisionType
<1>2. candidates[n].policy = policy BY DEF GateOpen, EvidenceReady
<1>3. candidates[n] \notin withdrawals BY DEF GateOpen
<1> QED BY <1>1, <1>2, <1>3 DEF Stage, Charters, StageOf

(* Where the engine counts live approvals of exactly the candidate, the    *)
(* lifecycle counts live endorsements of its name.                         *)
LEMMA CoveredWhenReady ==
    ASSUME LifecycleInv, NEW n \in DOMAIN candidates, GateReady(candidates[n])
    PROVE  Lifecycle!Covered(n)
<1> DEFINE c    == candidates[n]
           opts == Options(c, policy, trust, ActiveApprovals, clock)
           live == {<<e.role, e.by>> : e \in {x \in Endorsed \ Retracted : x.name = n}}
           fit  == {o \in live : Charters[n].forbidSelf => o[2] # Charters[n].author}
<1>1. Assignments(policy.roles, opts, policy.distinct) # {}
  BY DEF GateReady, Ready, Assignable
<1>2. c.name = n /\ c.policy = policy /\ Charters[n] = CharterOf(c)
  BY GateStage DEF GateReady
<1>3. opts \subseteq Endorsements(c, approvals \ revokedApprovals)
      /\ (policy.forbidSelf => \A o \in opts : o[2] # c.by)
  BY OptionsEndorse DEF ActiveApprovals
<1>4. Endorsements(c, approvals \ revokedApprovals) \subseteq live
  <2> SUFFICES ASSUME NEW a \in approvals \ revokedApprovals, a.candidate = c
               PROVE  <<a.role, a.by>> \in live
    BY DEF Endorsements
  <2>1. AsEndorsement(a) \in Endorsed BY DEF Endorsed
  <2>2. AsEndorsement(a) \notin Retracted
    <3>1. SUFFICES ASSUME NEW b \in revokedApprovals, AsEndorsement(b) = AsEndorsement(a)
                   PROVE  FALSE
      BY DEF Retracted
    <3>2. b.id = a.id BY <3>1 DEF AsEndorsement
    <3>3. b \in approvals BY DEF LifecycleInv, TypeInv, TypeOK, DecisionType
    <3>4. b = a BY <3>2, <3>3 DEF LifecycleInv, ApprovalsNumbered
    <3> QED BY <3>4
  <2>3. AsEndorsement(a).name = n /\ AsEndorsement(a).role = a.role /\ AsEndorsement(a).by = a.by
    BY <1>2 DEF AsEndorsement
  <2> QED BY <2>1, <2>2, <2>3
<1> HIDE DEF opts, live, c
<1>5. opts \subseteq fit
  BY <1>2, <1>3, <1>4 DEF CharterOf
<1> HIDE DEF fit
<1>6. PICK f : f \in Assignments(policy.roles, opts, policy.distinct) BY <1>1
<1>7. f \in Assignments(policy.roles, fit, policy.distinct) BY <1>5, <1>6, MoreOptions
<1>8. Charters[n].roles = policy.roles /\ Charters[n].distinct = policy.distinct
  BY <1>2 DEF CharterOf
<1>9. f \in Assignments(Charters[n].roles, fit, Charters[n].distinct) BY <1>7, <1>8
<1> QED BY <1>9 DEF Lifecycle!Covered, Lifecycle!Assignable, Lifecycle!Assignments, Assignments,
           fit, live, Charters, Endorsed, Retracted

(* Each decision of the engine, seen as a step of the lifecycle. *)
LEMMA CreateCandidateSimulated ==
    ASSUME LifecycleInv, NEW n \in CandidateName, NEW by \in Principal, NEW layouts,
           CreateCandidate(n, by, layouts)
    PROVE  Lifecycle!Next
<1> DEFINE blank == [name |-> n, by |-> by, resources |-> <<>>, runs |-> <<>>,
                     waivers |-> {}, deliveries |-> [l \in layouts |-> Absent],
                     policy |-> policy, trust |-> trust]
           cand  == ScopeView(blank, policy, trust)
           c     == CharterOf(cand)
<1>1. /\ n \notin DOMAIN candidates
      /\ candidates' = [m \in DOMAIN candidates \cup {n} |-> IF m = n THEN cand ELSE candidates[m]]
      /\ UNCHANGED <<approvals, revokedApprovals, releases, withdrawals, deliveries,
                     deliveryReceipts>>
  BY DEF CreateCandidate, MayName, outbound
<1>2. cand.by = by /\ cand.policy = policy BY DEF ScopeView
<1> HIDE DEF cand
<1>3. c \in [author: Principal, roles: {p.roles : p \in Policies},
             distinct: BOOLEAN, forbidSelf: BOOLEAN]
  <2>0. PolicyType BY DEF LifecycleInv, TypeInv, TypeOK, EnvironmentType
  <2>1. policy.roles \in {p.roles : p \in Policies} BY <2>0 DEF PolicyType, PolicyField
  <2>2. policy.distinct \in BOOLEAN /\ policy.forbidSelf \in BOOLEAN
    BY <2>0 DEF PolicyType, ValidPolicy
  <2> QED BY <1>2, <2>1, <2>2 DEF CharterOf
<1>4. n \notin DOMAIN releases /\ DOMAIN releases \subseteq DOMAIN candidates
  BY <1>1 DEF LifecycleInv, TypeInv, TypeOK, OutboundType
<1>5. Stage[n] = "none" BY <1>1 DEF Stage, StageOf
<1>6. Stage' = [Stage EXCEPT ![n] = "drafted"]
  <2>1. StageOf(n)' = "drafted" BY <1>1, <1>4 DEF StageOf
  <2>2. \A m \in CandidateName \ {n} : StageOf(m)' = StageOf(m) BY <1>1 DEF StageOf
  <2> QED BY <2>1, <2>2 DEF Stage
<1>7. Charters' = [m \in DOMAIN Charters \cup {n} |-> IF m = n THEN c ELSE Charters[m]]
  BY <1>1 DEF Charters, CharterOf
<1> HIDE DEF c
<1> QED BY <1>1, <1>3, <1>5, <1>6, <1>7, EndorsedFrame, DraftsAbstractly

(* Engine.approve endorses, or changes nothing if the endorsement is there. *)
LEMMA ApproveSimulated ==
    ASSUME LifecycleInv, NEW n \in DOMAIN candidates, NEW role \in Role, NEW by \in Principal,
           Approve(n, role, by)
    PROVE  [Lifecycle!Next]_(Lifecycle!lifecycle)
<1> DEFINE a == [candidate |-> candidates[n], role |-> role, by |-> by, at |-> clock,
                 id |-> Cardinality(approvals)]
           e == AsEndorsement(a)
<1>1. /\ GateOpen(candidates[n]) /\ role \in policy.roles
      /\ policy.forbidSelf => by # candidates[n].by
      /\ approvals' = approvals \cup {a}
      /\ UNCHANGED <<candidates, revokedApprovals, releases, withdrawals, deliveries,
                     deliveryReceipts>>
  BY DEF Approve, outbound
<1>2. /\ n \in CandidateName /\ candidates[n].name = n
      /\ Charters[n] = CharterOf(candidates[n]) /\ candidates[n].policy = policy
      /\ Stage[n] \in {"drafted", "sealed"}
  BY <1>1, GateStage
<1>3. e.name = n /\ e.role = role /\ e.by = by BY <1>2 DEF AsEndorsement
<1>4. Endorsed' = Endorsed \cup {e} BY <1>1 DEF Endorsed, AsEndorsement
<1> HIDE DEF e
<1>5. UNCHANGED <<Stage, Charters, Retracted, Shipped, deliveryReceipts>>
  BY <1>1, StageFrame, EndorsedFrame
<1>6. CASE e \in Endorsed
  <2>1. UNCHANGED Endorsed BY <1>4, <1>6
  <2> QED BY <1>5, <2>1 DEF Lifecycle!lifecycle, Stage, Charters, Endorsed, Retracted, Shipped
<1>7. CASE e \notin Endorsed
  <2>1. e \in Endorsed' \ Endorsed BY <1>4, <1>7
  <2>2. e.role \in Charters[n].roles /\ (Charters[n].forbidSelf => e.by # Charters[n].author)
    BY <1>1, <1>2, <1>3 DEF CharterOf
  <2>3. Lifecycle!Next BY <1>2, <1>3, <1>4, <1>5, <2>1, <2>2, EndorsesAbstractly
  <2> QED BY <2>3
<1> QED BY <1>6, <1>7

(* Revoking an approval retracts its endorsement. *)
LEMMA RevokeApprovalSimulated ==
    ASSUME LifecycleInv, NEW a \in approvals, NEW by, RevokeApproval(a, by)
    PROVE  [Lifecycle!Next]_(Lifecycle!lifecycle)
<1> DEFINE e == AsEndorsement(a)
<1>1. /\ revokedApprovals' = revokedApprovals \cup {a}
      /\ UNCHANGED <<candidates, approvals, releases, withdrawals, deliveries, deliveryReceipts>>
  BY DEF RevokeApproval, outbound
<1>2. e \in Endorsed BY DEF Endorsed
<1>3. Retracted' = Retracted \cup {e} BY <1>1 DEF Retracted, AsEndorsement
<1> HIDE DEF e
<1>4. UNCHANGED <<Stage, Charters, Endorsed, Shipped, deliveryReceipts>>
  BY <1>1, StageFrame, EndorsedFrame
<1>5. CASE e \in Retracted
  <2>1. UNCHANGED Retracted BY <1>3, <1>5
  <2> QED BY <1>4, <2>1 DEF Lifecycle!lifecycle, Stage, Charters, Endorsed, Retracted, Shipped
<1>6. CASE e \notin Retracted
  <2>1. Lifecycle!Next BY <1>2, <1>3, <1>4, <1>6, RetractsAbstractly
  <2> QED BY <2>1
<1> QED BY <1>5, <1>6

(* Sealing a release seals: the gate is open, so the endorsements cover the *)
(* candidate's charter.                                                     *)
LEMMA SealSimulated ==
    ASSUME LifecycleInv, NEW n \in DOMAIN candidates, NEW by, Seal(n, by)
    PROVE  Lifecycle!Next
<1>1. /\ n \notin DOMAIN releases /\ GateReady(candidates[n])
      /\ DOMAIN releases' = DOMAIN releases \cup {n}
      /\ UNCHANGED <<candidates, approvals, revokedApprovals, withdrawals, deliveries,
                     deliveryReceipts>>
  BY DEF Seal, decisions
<1>2. n \in CandidateName /\ Stage[n] = "drafted" BY <1>1, GateStage DEF GateReady
<1>3. candidates[n] \notin withdrawals BY <1>1 DEF GateReady, GateOpen
<1>4. Stage' = [Stage EXCEPT ![n] = "sealed"]
  <2>1. StageOf(n)' = "sealed" BY <1>1, <1>3 DEF StageOf
  <2>2. \A m \in CandidateName \ {n} : StageOf(m)' = StageOf(m) BY <1>1 DEF StageOf
  <2> QED BY <2>1, <2>2 DEF Stage
<1>5. UNCHANGED Charters BY <1>1 DEF Charters, CharterOf
<1>6. Lifecycle!Covered(n) BY <1>1, CoveredWhenReady
<1> QED BY <1>1, <1>2, <1>4, <1>5, <1>6, EndorsedFrame, SealsAbstractly

(* Withdrawing a release withdraws it. *)
LEMMA WithdrawSimulated ==
    ASSUME LifecycleInv, NEW n \in DOMAIN releases, NEW by, Withdraw(n, by)
    PROVE  Lifecycle!Next
<1>1. /\ releases[n].candidate \notin withdrawals
      /\ withdrawals' = withdrawals \cup {releases[n].candidate}
      /\ UNCHANGED <<candidates, approvals, revokedApprovals, releases, deliveries,
                     deliveryReceipts>>
  BY DEF Withdraw, decisions
<1>2. releases[n].candidate = candidates[n] BY DEF LifecycleInv, ReleasesNamed
<1>3. n \in DOMAIN candidates /\ n \in CandidateName
      /\ \A m \in DOMAIN candidates : candidates[m].name = m
  BY DEF LifecycleInv, TypeInv, TypeOK, OutboundType, DecisionType
<1>4. Stage[n] = "sealed" BY <1>1, <1>2, <1>3 DEF Stage, StageOf
<1>5. Stage' = [Stage EXCEPT ![n] = "withdrawn"]
  <2>1. StageOf(n)' = "withdrawn" BY <1>1, <1>2, <1>3 DEF StageOf
  <2>2. ASSUME NEW m \in CandidateName \ {n} PROVE StageOf(m)' = StageOf(m)
    <3>1. m \in DOMAIN candidates => candidates[m] # candidates[n] BY <1>3
    <3> QED BY <1>1, <1>2, <3>1 DEF StageOf
  <2> QED BY <2>1, <2>2 DEF Stage
<1>6. UNCHANGED Charters BY <1>1 DEF Charters, CharterOf
<1> QED BY <1>1, <1>3, <1>4, <1>5, <1>6, EndorsedFrame, WithdrawsAbstractly

(* Sealing a delivery ships a release that is sealed and still covered. *)
LEMMA SealDeliverySimulated ==
    ASSUME LifecycleInv, NEW d \in DeliveryId, NEW n \in DOMAIN candidates,
           NEW layouts, NEW recipient, NEW by, SealDelivery(d, n, layouts, recipient, by)
    PROVE  Lifecycle!Next
<1> DEFINE cand == candidates[n]
           rec == [release |-> n, candidate |-> cand,
                   files |-> [l \in layouts |-> cand.deliveries[l]],
                   recipient |-> recipient, sealedAt |-> clock]
<1>1. /\ d \notin DOMAIN deliveries /\ n \in DOMAIN releases /\ GateReady(candidates[n])
      /\ deliveries' = [e \in DOMAIN deliveries \cup {d} |-> IF e # d THEN deliveries[e] ELSE rec]
      /\ UNCHANGED <<candidates, approvals, revokedApprovals, releases, withdrawals,
                     deliveryReceipts>>
  BY DEF SealDelivery, IsSealed, decisions
<1>2. n \in CandidateName /\ Stage[n] = "sealed" BY <1>1, GateStage DEF GateReady
<1>3. d \notin DOMAIN Shipped BY <1>1 DEF Shipped
<1>4. rec.release = n OBVIOUS
<1> HIDE DEF rec
<1>5. Shipped' = [e \in DOMAIN Shipped \cup {d} |-> IF e = d THEN n ELSE Shipped[e]]
  BY <1>1, <1>4 DEF Shipped
<1>6. Lifecycle!Covered(n) BY <1>1, CoveredWhenReady
<1> QED BY <1>1, <1>2, <1>3, <1>5, <1>6, StageFrame, EndorsedFrame, ShipsAbstractly

(* A recipient's receipt acknowledges what was shipped. *)
LEMMA RecordReceiptSimulated ==
    ASSUME LifecycleInv, NEW d \in DOMAIN deliveries, RecordReceipt(d)
    PROVE  Lifecycle!Next
<1>1. /\ deliveries[d].candidate \notin withdrawals
      /\ deliveryReceipts' = deliveryReceipts \cup {d}
      /\ UNCHANGED <<candidates, approvals, revokedApprovals, releases, withdrawals, deliveries>>
  BY DEF RecordReceipt, decisions
<1> DEFINE n == deliveries[d].release
<1>2. n \in DOMAIN releases /\ releases[n].candidate = deliveries[d].candidate
  BY DEF LifecycleInv, DeliveryMatchesRelease
<1>3. releases[n].candidate = candidates[n] /\ n \in DOMAIN candidates /\ n \in CandidateName
  BY <1>2 DEF LifecycleInv, ReleasesNamed, TypeInv, TypeOK, OutboundType, DecisionType
<1>4. Stage[n] = "sealed" BY <1>1, <1>2, <1>3 DEF Stage, StageOf
<1>5. d \in DOMAIN Shipped /\ Shipped[d] = n BY DEF Shipped
<1> QED BY <1>1, <1>4, <1>5, StageFrame, EndorsedFrame, AcknowledgesAbstractly

(* Every step of the engine is a step of the lifecycle or a stutter. *)
LEMMA StepSimulated ==
    ASSUME LifecycleInv, [EngineStep]_vars PROVE [Lifecycle!Next]_(Lifecycle!lifecycle)
<1> USE DEF evidence, decisions, outbound
<1>1. CASE Environment \/ PinPolicy \/ UNCHANGED vars
  <2>1. UNCHANGED ledger
    BY <1>1 DEF vars, PinPolicy, Environment, EditWorkspace, DamageObject, EditPolicy, RevokeKey, Tick
  <2> QED BY <2>1, Stutters DEF ledger
<1>2. CASE \E r \in Resource, sha \in Content : \E deps \in DepChoice[r] : Register(r, deps, sha)
  BY <1>2, Stutters DEF Register
<1>3. CASE \E kind \in DOMAIN CheckInput, tool \in Tool, corner \in Corner :
              \E inputs \in CheckInput[kind] : Begin(kind, inputs, tool, corner)
  <2>1. ASSUME NEW kind, NEW inputs, NEW tool, NEW corner, Begin(kind, inputs, tool, corner)
        PROVE  UNCHANGED <<decisions, outbound>>
    BY <2>1 DEF Begin
  <2> QED BY <1>3, <2>1, Stutters
<1>4. CASE \E i \in DOMAIN runs, o \in Outcome, managed \in Capture : Finish(i, o, managed)
  <2>1. ASSUME NEW i, NEW o, NEW managed, Finish(i, o, managed)
        PROVE  UNCHANGED <<decisions, outbound>>
    BY <2>1 DEF Finish
  <2> QED BY <1>4, <2>1, Stutters
<1>5. CASE \E i \in DOMAIN runs, v \in Violation, owner, by \in Principal :
              \E expires \in 1..(MaxClock + 1), attachments \in Attachments :
                 Waive(i, v, owner, by, expires, attachments)
  <2>1. ASSUME NEW i, NEW v, NEW owner, NEW by, NEW expires, NEW files,
               Waive(i, v, owner, by, expires, files)
        PROVE  UNCHANGED <<decisions, outbound>>
    BY <2>1 DEF Waive
  <2> QED BY <1>5, <2>1, Stutters
<1>6. CASE \E w \in waivers, by \in Principal : RevokeWaiver(w, by)
  BY <1>6, Stutters DEF RevokeWaiver
<1>7. CASE \E n \in CandidateName, by \in Principal, layouts \in SUBSET Layout :
              CreateCandidate(n, by, layouts)
  BY <1>7, CreateCandidateSimulated
<1>8. CASE \E n \in DOMAIN candidates, role \in Role, by \in Principal : Approve(n, role, by)
  BY <1>8, ApproveSimulated
<1>9. CASE \E a \in approvals, by \in Principal : RevokeApproval(a, by)
  BY <1>9, RevokeApprovalSimulated
<1>10. CASE \E n \in DOMAIN candidates, by \in Principal : Seal(n, by)
  BY <1>10, SealSimulated
<1>11. CASE \E n \in DOMAIN releases, by \in Principal : Withdraw(n, by)
  BY <1>11, WithdrawSimulated
<1>12. CASE \E n \in DOMAIN releases : Receipt(n) BY <1>12, Stutters DEF Receipt
<1>13. CASE \E d \in DeliveryId, n \in DOMAIN candidates, layouts \in SUBSET Layout \ {{}} :
               \E recipient \in Recipient, by \in Principal :
                   SealDelivery(d, n, layouts, recipient, by)
  BY <1>13, SealDeliverySimulated
<1>14. CASE \E d \in DOMAIN deliveries : RecordReceipt(d) BY <1>14, RecordReceiptSimulated
<1>15. CASE \E o \in UNION Attachments : Attach(o)
  <2>1. UNCHANGED ledger BY <1>15 DEF Attach
  <2> QED BY <2>1, Stutters DEF ledger
<1> QED
  BY <1>1, <1>2, <1>3, <1>4, <1>5, <1>6, <1>7, <1>8, <1>9, <1>10, <1>11, <1>12, <1>13, <1>14,
     <1>15
  DEF EngineStep, Next, Operation

(* The engine implements the lifecycle it promises: whatever happens to    *)
(* evidence, files, keys, policies and the clock, a release is sealed once *)
(* and shipped only while live independent endorsements cover it, and      *)
(* nothing follows its withdrawal.                                         *)
THEOREM EngineImplementsLifecycle == Spec \/ PlanSpec => ImplementsLifecycle
<1>1. Init => LifecycleInv /\ Lifecycle!Init
  <2> SUFFICES ASSUME Init PROVE LifecycleInv /\ Lifecycle!Init OBVIOUS
  <2>1. LayoutsFrozen /\ ReleasesNamed /\ DeliveryMatchesRelease
    BY DEF Init, LayoutsFrozen, ReleasesNamed, DeliveryMatchesRelease
  <2>2. ApprovalsNumbered BY FS_EmptySet DEF Init, ApprovalsNumbered
  <2>3. Lifecycle!Init BY DEF Lifecycle!Init, Init, StageOf
  <2> QED BY <2>1, <2>2, <2>3, InitTypeInv DEF LifecycleInv
<1>2. LifecycleInv /\ [EngineStep]_vars => LifecycleInv'
  BY StepType, StepLayoutsFrozen, StepReleasesNamed, StepDelivery, StepApprovalsNumbered
  DEF LifecycleInv
<1>3. LifecycleInv /\ [EngineStep]_vars => [Lifecycle!Next]_(Lifecycle!lifecycle) BY StepSimulated
<1> QED BY <1>1, <1>2, <1>3, Behaviours, PTL DEF ImplementsLifecycle, Lifecycle!Spec

-----------------------------------------------------------------------------
(* Plans. *)

(* What scope_view shows when no candidate is frozen. *)
Current(layouts) == ScopeView(Unfrozen(layouts), policy, trust)

(* The fields of that view. *)
LEMMA CurrentFields ==
    ASSUME NEW layouts
    PROVE  /\ Current(layouts).name = "unfrozen"
           /\ Current(layouts).resources = resources
           /\ Current(layouts).runs = [i \in LatestRuns(policy) |-> runs[i]]
           /\ Current(layouts).waivers
                 = {w \in waivers \ revokedWaivers : w.run \in LatestRuns(policy)}
           /\ Current(layouts).policy = policy /\ Current(layouts).trust = trust
           /\ ScopeView(Current(layouts), policy, trust) = Current(layouts)
<1> DEFINE latest  == [i \in LatestRuns(policy) |-> runs[i]]
           active  == {w \in waivers \ revokedWaivers : w.run \in LatestRuns(policy)}
           shipped == [l \in layouts |-> resources[l].sha]
           now     == [name |-> "unfrozen", by |-> "unfrozen", resources |-> resources,
                       runs |-> latest, waivers |-> active, deliveries |-> shipped,
                       policy |-> policy, trust |-> trust]
<1>1. Current(layouts) = now
  <2>1. DOMAIN Unfrozen(layouts).deliveries = layouts BY DEF Unfrozen
  <2>2. ScopeView(Unfrozen(layouts), policy, trust)
           = [Unfrozen(layouts) EXCEPT !.resources = resources, !.runs = latest,
                 !.waivers = active, !.deliveries = shipped, !.policy = policy,
                 !.trust = trust]
    BY <2>1 DEF ScopeView
  <2> HIDE DEF latest, active, shipped
  <2> QED BY <2>2 DEF Current, Unfrozen
<1>2. ScopeView(now, policy, trust) = now
  <2>1. DOMAIN now.deliveries = layouts OBVIOUS
  <2>2. ScopeView(now, policy, trust)
           = [now EXCEPT !.resources = resources, !.runs = latest, !.waivers = active,
                 !.deliveries = shipped, !.policy = policy, !.trust = trust]
    BY <2>1 DEF ScopeView
  <2> HIDE DEF latest, active, shipped
  <2> QED BY <2>2
<1> HIDE DEF latest, active, shipped
<1>3. /\ now.name = "unfrozen" /\ now.resources = resources /\ now.runs = latest
      /\ now.waivers = active /\ now.policy = policy /\ now.trust = trust
  OBVIOUS
<1> HIDE DEF now
<1> QED BY <1>1, <1>2, <1>3 DEF latest, active

(* Without a candidate of its own a plan looks at nothing withdrawn. *)
LEMMA CurrentNotWithdrawn ==
    ASSUME TypeInv, ReleasesNamed, NEW layouts PROVE Current(layouts) \notin withdrawals
<1>1. \A c \in withdrawals : c.name \in CandidateName
  BY DEF TypeInv, TypeOK, OutboundType, DecisionType, ReleasesNamed
<1> QED BY <1>1, CurrentFields, UnfrozenAssumption

(* No resource is to be rebuilt exactly when everything is fresh. *)
LEMMA NothingAffected ==
    Affected(resources, workspace, {}) = {}
       <=> Fresh(resources, workspace, DOMAIN resources)
BY DEF Affected, Fresh

(* A plan would reuse a check's evidence. *)
Reuses(req, i, layouts, changed) ==
    /\ i \in LatestRun(req) /\ runs[i].done
    /\ DOMAIN runs[i].snapshot \cap Affected(resources, workspace, changed) = {}
    /\ Satisfied(Current(layouts), policy, trust, clock, req)
    /\ \A o \in RunRefs(runs[i]) : Intact(o)

LEMMA ReusedRun ==
    ASSUME TypeInv, NEW req, NEW layouts, NEW changed
    PROVE  CheckAction(req, Unfrozen(layouts), changed) = "reuse_evidence"
              <=> \E i \in LatestRun(req) : Reuses(req, i, layouts, changed)
<1>1. CASE LatestRun(req) = {}
  <2>1. CheckAction(req, Unfrozen(layouts), changed) = "configure_and_run" BY <1>1 DEF CheckAction
  <2> QED BY <1>1, <2>1
<1>2. CASE LatestRun(req) # {}
  <2> DEFINE c == CHOOSE i \in LatestRun(req) : TRUE
             satisfied == Satisfied(Current(layouts), policy, trust, clock, req)
             affected == DOMAIN runs[c].snapshot \cap Affected(resources, workspace, changed)
  <2>1. c \in LatestRun(req) BY <1>2
  <2>2. \A i \in LatestRun(req) : i = c
    <3> HIDE DEF c
    <3> QED BY <2>1, LatestOfScope
  <2>3. CheckAction(req, Unfrozen(layouts), changed)
           = IF ~runs[c].done /\ affected = {} THEN "wait_for_latest_run"
             ELSE IF affected # {} \/ ~satisfied THEN "rerun_or_resolve"
             ELSE IF \A o \in RunRefs(runs[c]) : Intact(o) THEN "reuse_evidence"
             ELSE "repair_evidence"
    BY <1>2 DEF CheckAction, Current
  <2> HIDE DEF c, satisfied, affected
  <2>4. CheckAction(req, Unfrozen(layouts), changed) = "reuse_evidence"
           <=> /\ runs[c].done /\ affected = {} /\ satisfied
               /\ \A o \in RunRefs(runs[c]) : Intact(o)
    BY <2>3
  <2>5. CheckAction(req, Unfrozen(layouts), changed) = "reuse_evidence" <=> Reuses(req, c, layouts, changed)
    BY <2>1, <2>4 DEF Reuses, affected, satisfied
  <2> QED BY <2>1, <2>2, <2>5
<1> QED BY <1>1, <1>2

(* A check's evidence is called reusable, when no resource is affected,    *)
(* exactly when it satisfies the check and its objects are intact.         *)
LEMMA Reusable ==
    ASSUME TypeInv, NEW req \in policy.checks, NEW layouts,
           Affected(resources, workspace, {}) = {}
    PROVE  CheckAction(req, Unfrozen(layouts), {}) = "reuse_evidence"
              <=> /\ Satisfied(Current(layouts), policy, trust, clock, req)
                  /\ \A i \in LatestRun(req) : \A o \in RunRefs(runs[i]) : Intact(o)
<1> DEFINE current   == Current(layouts)
           satisfied == Satisfied(current, policy, trust, clock, req)
<1>1. satisfied => \E i \in LatestRun(req) : runs[i].done
  <2> SUFFICES ASSUME satisfied PROVE \E i \in LatestRun(req) : runs[i].done OBVIOUS
  <2>1. PICK i \in DOMAIN current.runs :
           Scope(current.runs[i]) = Scope(req) /\ current.runs[i].done
    BY DEF Satisfied, Conclusive
  <2>2. i \in LatestRuns(policy) /\ current.runs[i] = runs[i] BY CurrentFields
  <2> QED BY <2>1, <2>2 DEF LatestRun
<1>2. CheckAction(req, Unfrozen(layouts), {}) = "reuse_evidence"
         <=> \E i \in LatestRun(req) : runs[i].done /\ satisfied
                                         /\ \A o \in RunRefs(runs[i]) : Intact(o)
  BY ReusedRun DEF Reuses
<1>3. \A i, j \in LatestRun(req) : i = j BY LatestOfScope
<1> HIDE DEF satisfied
<1>4. CheckAction(req, Unfrozen(layouts), {}) = "reuse_evidence"
         <=> satisfied /\ \A i \in LatestRun(req) : \A o \in RunRefs(runs[i]) : Intact(o)
  BY <1>1, <1>2, <1>3
<1> QED BY <1>4 DEF satisfied

(* What makes a run's evidence is part of what makes the candidate's.      *)
LEMMA RunRefsWithin ==
    ASSUME TypeInv, NEW req, NEW layouts,
           Satisfied(Current(layouts), policy, trust, clock, req), NEW i \in LatestRun(req)
    PROVE  RunRefs(runs[i]) \subseteq ObjectRefs(Current(layouts))
<1> DEFINE current == Current(layouts)
<1>1. current.resources = resources /\ current.runs = [k \in LatestRuns(policy) |-> runs[k]]
  BY CurrentFields
<1>2. PICK j \in DOMAIN current.runs : /\ Scope(current.runs[j]) = Scope(req)
                                       /\ InputsCurrent(current.resources, current.runs[j])
  BY DEF Satisfied
<1> HIDE DEF current
<1>3. j \in LatestRun(req) /\ current.runs[j] = runs[j] BY <1>1, <1>2 DEF LatestRun
<1>4. j = i BY <1>3, LatestOfScope
<1>5. DOMAIN runs[i].snapshot \subseteq DOMAIN resources
  BY <1>1, <1>2, <1>3, <1>4, SnapshotDomain DEF InputsCurrent
<1>6. i \in DOMAIN current.runs /\ current.runs[i] = runs[i] BY <1>2, <1>3, <1>4
<1>7. RunRefs(runs[i]) \subseteq ObjectRefs(current)
  BY <1>1, <1>5, <1>6 DEF RunRefs, ObjectRefs
<1> QED BY <1>7 DEF current

(* The plan and the gate agree in every state the types allow. *)
LEMMA PlanAgrees == ASSUME TypeInv, ReleasesNamed PROVE PlanAgreesWithGate
<1> SUFFICES ASSUME NEW layouts
             PROVE  GateOpen(Current(layouts))
                       <=> /\ NothingToDo(Unfrozen(layouts))
                           /\ Provenance(Current(layouts), policy)
                           /\ \A o \in ObjectRefs(Current(layouts)) : Intact(o)
  BY DEF PlanAgreesWithGate, Current
<1> DEFINE now   == Current(layouts)
           fresh == Fresh(resources, workspace, DOMAIN resources)
           ready == \A req \in policy.checks : Satisfied(now, policy, trust, clock, req)
           sound == \A o \in ObjectRefs(now) : Intact(o)
<1>1. GateOpen(now) <=> fresh /\ ready /\ Provenance(now, policy) /\ sound
  BY CurrentFields, CurrentNotWithdrawn DEF GateOpen, EvidenceReady, Fresh
<1>2. ASSUME ready, sound, NEW req \in policy.checks, NEW i \in LatestRun(req)
      PROVE  \A o \in RunRefs(runs[i]) : Intact(o)
  BY <1>2, RunRefsWithin
<1>3. ASSUME sound PROVE NothingToDo(Unfrozen(layouts)) <=> fresh /\ ready
  BY <1>2, <1>3, NothingAffected, Reusable DEF NothingToDo
<1> HIDE DEF fresh, ready, sound
<1> QED BY <1>1, <1>3 DEF sound

(* A plan with nothing left to do and the gate agree, in every reachable    *)
(* state.                                                                  *)
THEOREM PlanAndGateAgree == Spec \/ PlanSpec => []PlanAgreesWithGate
<1> DEFINE Inv == TypeInv /\ ReleasesNamed
<1>1. Init => Inv BY InitTypeInv DEF Init, ReleasesNamed
<1>2. Inv /\ [EngineStep]_vars => Inv' BY StepType, StepReleasesNamed
<1>3. Inv => PlanAgreesWithGate BY PlanAgrees
<1> HIDE DEF Inv
<1> QED BY <1>1, <1>2, <1>3, Behaviours, PTL

-----------------------------------------------------------------------------
(* What a change does. *)

(* Engine.register changes one resource, to what the workspace holds, and  *)
(* leaves what surrounds the graph as it is.                               *)
LEMMA OneRegistered ==
    ASSUME TypeInv, [EngineStep]_vars, resources' # resources
    PROVE  /\ \E r \in DOMAIN resources' :
                 /\ r \in Tracked => workspace[r] = resources'[r].sha
                 /\ \A k \in DOMAIN resources \ {r} : resources'[k] = resources[k]
                 /\ DOMAIN resources' = DOMAIN resources \cup {r}
           /\ \A o \in Object : Intact(o) => Intact(o)'
           /\ UNCHANGED <<runs, waivers, revokedWaivers, workspace, policy, trust, clock>>
<1>1. PICK r \in Resource, sha \in Content : \E deps \in DepChoice[r] : Register(r, deps, sha)
  BY ResourcesWritten
<1>2. PICK deps \in DepChoice[r] : Register(r, deps, sha) BY <1>1
<1> DEFINE record  == [sha  |-> sha, deps |-> deps,
                       pins |-> [d \in deps |-> Fingerprint(resources, d)]]
           updated == [k \in DOMAIN resources \cup {r} |->
                          IF k = r THEN record ELSE resources[k]]
<1>3. /\ resources' = updated /\ Put(Refs(sha))
      /\ r \in Tracked => workspace[r] = sha
      /\ UNCHANGED <<runs, waivers, revokedWaivers, environment>>
  BY <1>2 DEF Register
<1>4. record.sha = sha OBVIOUS
<1> HIDE DEF record
<1>5. /\ DOMAIN resources' = DOMAIN resources \cup {r} /\ resources'[r].sha = sha
      /\ \A k \in DOMAIN resources \ {r} : resources'[k] = resources[k]
  BY <1>3, <1>4
<1>6. \A o \in Object : Intact(o) => Intact(o)'
  BY <1>3 DEF Put, Intact, TypeInv, TypeOK, EnvironmentType
<1> QED BY <1>3, <1>5, <1>6 DEF environment

(* Whether a run satisfies a check depends on the graph below its roots     *)
(* only.                                                                    *)
LEMMA SatisfiedSame ==
    ASSUME NEW a, NEW b, NEW pol, NEW tr, NEW at, NEW req,
           a.runs = b.runs, a.waivers = b.waivers,
           \A i \in DOMAIN a.runs :
              Scope(a.runs[i]) = Scope(req) /\ InputsCurrent(a.resources, a.runs[i])
                => /\ InputsCurrent(b.resources, a.runs[i])
                   /\ \A k \in DOMAIN a.runs[i].snapshot : b.resources[k] = a.resources[k],
           Satisfied(a, pol, tr, at, req)
    PROVE  Satisfied(b, pol, tr, at, req)
<1>1. PICK i \in DOMAIN a.runs :
         /\ Scope(a.runs[i]) = Scope(req)
         /\ InputsCurrent(a.resources, a.runs[i])
         /\ PinsMet(a.resources, req, a.runs[i])
         /\ KindsBound(pol, req, a.runs[i])
         /\ Conclusive(pol, req, i, a.runs[i], Waived(a, tr, at), at)
  BY DEF Satisfied
<1>2. Waived(b, tr, at) = Waived(a, tr, at) BY DEF Waived
<1>3. /\ InputsCurrent(b.resources, a.runs[i])
      /\ \A k \in DOMAIN a.runs[i].snapshot : b.resources[k] = a.resources[k]
  BY <1>1
<1>4. PinsMet(b.resources, req, a.runs[i]) BY <1>1, <1>3 DEF PinsMet
<1> QED BY <1>1, <1>2, <1>3, <1>4 DEF Satisfied

(* The runs that are current, and stay so, are those without the changed   *)
(* resource below their roots.                                             *)
LEMMA CurrentUntilChanged ==
    ASSUME NEW res, Valid(res), NEW new, Valid(new), NEW r \in DOMAIN res,
           \A k \in DOMAIN res \ {r} : k \in DOMAIN new /\ new[k] = res[k],
           NEW run, run.roots \subseteq DOMAIN res, InputsCurrent(res, run),
           r \notin DOMAIN run.snapshot
    PROVE  /\ InputsCurrent(new, run)
           /\ \A k \in DOMAIN run.snapshot : /\ k \in DOMAIN res /\ new[k] = res[k]
                                             /\ Closure(new, {k}) = Closure(res, {k})
                                             /\ Closure(res, {k}) \subseteq DOMAIN run.snapshot
                                             /\ Stale(new, k) <=> Stale(res, k)
<1>1. run.snapshot = Snapshot(res, run.roots) BY DEF InputsCurrent
<1>2. DOMAIN run.snapshot = Closure(res, run.roots) /\ DOMAIN run.snapshot \subseteq DOMAIN res
  BY <1>1, SnapshotDomain
<1>3. \A k \in Closure(res, run.roots) : k \in DOMAIN new /\ new[k] = res[k] BY <1>2
<1>4. /\ Snapshot(new, run.roots) = Snapshot(res, run.roots)
      /\ \A k \in Closure(res, run.roots) : /\ Closure(new, {k}) = Closure(res, {k})
                                            /\ Stale(new, k) <=> Stale(res, k)
  BY <1>3, SnapshotSame
<1>5. \A k \in Closure(res, run.roots) : Closure(res, {k}) \subseteq Closure(res, run.roots)
  BY ClosureWithin
<1> QED BY <1>1, <1>2, <1>3, <1>4, <1>5 DEF InputsCurrent

(* What is no longer current is what Engine.impact lists. *)
LEMMA StepImpact == ASSUME TypeInv, Valid(resources), [EngineStep]_vars PROVE ImpactStep
<1> SUFFICES ASSUME NEW r \in DOMAIN resources, resources'[r] # resources[r],
                    NEW i \in DOMAIN runs, InputsCurrent(resources, runs[i])
             PROVE  ~InputsCurrent(resources', runs[i]) <=> i \in AffectedRuns(r)
  BY DEF ImpactStep, AffectedRuns
<1> DEFINE run == runs[i]
<1>1. /\ Valid(resources')
      /\ \A k \in DOMAIN resources \ {r} : k \in DOMAIN resources' /\ resources'[k] = resources[k]
  <2>1. Valid(resources)' = Valid(resources') BY DEF Valid, Grounded, Acyclic
  <2> QED BY <2>1, OneRegistered, StepGraph
<1>2. /\ run.roots \subseteq DOMAIN resources
      /\ run.snapshot = Snapshot(resources, run.roots)
  BY DEF TypeInv, Rooted, InputsCurrent
<1>3. DOMAIN run.snapshot = Closure(resources, run.roots) BY <1>2, SnapshotDomain
<1>4. i \in AffectedRuns(r) <=> \E k \in DOMAIN run.snapshot :
                                    k = r \/ (k \in DOMAIN resources \ {r} /\ r \in Closure(resources, {k}))
  BY DEF AffectedRuns, Impact
<1> HIDE DEF run
<1>5. CASE r \in DOMAIN run.snapshot
  <2>1. i \in AffectedRuns(r) BY <1>4, <1>5
  <2>2. run.snapshot[r][r] = resources[r] BY <1>2, <1>5, SnapshotSelf
  <2>3. ~InputsCurrent(resources', run)
    <3>1. SUFFICES ASSUME run.snapshot = Snapshot(resources', run.roots) PROVE FALSE
      BY DEF InputsCurrent
    <3>2. r \in DOMAIN Snapshot(resources', run.roots) BY <1>5, <3>1
    <3>3. run.snapshot[r][r] = resources'[r] BY <3>1, <3>2, SnapshotSelf
    <3> QED BY <2>2, <3>3
  <2> QED BY <2>1, <2>3 DEF run
<1>6. CASE r \notin DOMAIN run.snapshot
  <2>1. InputsCurrent(resources', run)
    BY <1>1, <1>2, <1>6, CurrentUntilChanged DEF InputsCurrent
  <2>2. \A k \in DOMAIN run.snapshot : k # r /\ r \notin Closure(resources, {k})
    BY <1>2, <1>3, <1>6, ClosureWithin
  <2> QED BY <1>4, <2>1, <2>2 DEF run
<1> QED BY <1>5, <1>6

(* What holds of every state, to be used of the next one. *)
ReuseDecides ==
    /\ \A req, i : Reuses(req, i, {}, {}) => CheckAction(req, Unfrozen({}), {}) = "reuse_evidence"
    /\ Current({}).resources = resources
    /\ Current({}).runs = [i \in LatestRuns(policy) |-> runs[i]]
    /\ Current({}).waivers = {w \in waivers \ revokedWaivers : w.run \in LatestRuns(policy)}

LEMMA ReuseDecided == TypeInv => ReuseDecides
<1>1. ASSUME TypeInv, NEW req, NEW i, Reuses(req, i, {}, {})
      PROVE  CheckAction(req, Unfrozen({}), {}) = "reuse_evidence"
  BY <1>1, ReusedRun DEF Reuses
<1> QED BY <1>1, CurrentFields DEF ReuseDecides

(* What is affected. *)
LEMMA AffectedWhen ==
    ASSUME NEW res, NEW files, NEW changed, NEW k
    PROVE  k \in Affected(res, files, changed)
              <=> \/ k \in changed \/ k \in Drift(res, files, DOMAIN res)
                  \/ k \in DOMAIN res /\ Stale(res, k)
                  \/ \E d \in changed \cup Drift(res, files, DOMAIN res) : k \in Impact(res, d)
BY DEF Affected

(* What a run's evidence consists of are objects. *)
LEMMA RunRefsType ==
    ASSUME NEW run, NEW x, x \in RunRefs(run), run.report \in Report \cup {NoReport},
           \A k \in DOMAIN run.snapshot : Refs(resources[k].sha) \subseteq Content
    PROVE  x \in Object
<1>1. CASE x \in UNION {Refs(resources[k].sha) : k \in DOMAIN run.snapshot}
  <2>1. PICK k \in DOMAIN run.snapshot : x \in Refs(resources[k].sha) BY <1>1
  <2> QED BY <2>1 DEF Object
<1>2. CASE x = run.report /\ x # NoReport BY <1>2 DEF Object
<1> QED BY <1>1, <1>2 DEF RunRefs

(* What the plan of a check looks at is not disturbed by registering a     *)
(* resource its run did not bind and nothing it bound was built from.      *)
LEMMA ReuseKept ==
    ASSUME TypeInv, Valid(resources), [EngineStep]_vars, NEW r \in DOMAIN resources,
           resources' # resources, DOMAIN resources' = DOMAIN resources,
           \A k \in DOMAIN resources \ {r} : resources'[k] = resources[k],
           NEW req, NEW i, Reuses(req, i, {}, {r})
    PROVE  Reuses(req, i, {}, {})'
<1> DEFINE run == runs[i]
           C   == DOMAIN run.snapshot
<1>1. Valid(resources') /\ TypeInv'
  <2>1. Valid(resources)' = Valid(resources') BY DEF Valid, Grounded, Acyclic
  <2> QED BY <2>1, StepGraph, StepType
<1>2. ReuseDecides' BY <1>1, ReuseDecided, PTL
<1>3. /\ \A o \in Object : Intact(o) => Intact(o)'
      /\ UNCHANGED <<runs, waivers, revokedWaivers, workspace, policy, trust, clock>>
      /\ \A k \in DOMAIN resources' \cap Tracked :
            workspace[k] # resources'[k].sha
               => k \in DOMAIN resources /\ workspace[k] # resources[k].sha
  BY OneRegistered
<1>4. i \in LatestRuns(policy) /\ i \in DOMAIN runs /\ Scope(run) = Scope(req)
  BY DEF Reuses, LatestRun, LatestRuns
<1>5. InputsCurrent(resources, run) /\ run.roots \subseteq DOMAIN resources
  <2>1. PICK j \in LatestRuns(policy) :
           Scope(runs[j]) = Scope(req) /\ InputsCurrent(resources, runs[j])
    <3> DEFINE now == Current({})
    <3>1. now.resources = resources /\ now.runs = [j \in LatestRuns(policy) |-> runs[j]]
      BY CurrentFields
    <3>2. Satisfied(now, policy, trust, clock, req) BY DEF Reuses
    <3> HIDE DEF now
    <3> QED BY <3>1, <3>2 DEF Satisfied
  <2>2. j = i BY <1>4, <2>1, LatestOfScope DEF LatestRun
  <2> QED BY <1>4, <2>1, <2>2 DEF TypeInv, Rooted
<1>6. C = Closure(resources, run.roots) /\ C \subseteq DOMAIN resources
  BY <1>5, SnapshotDomain DEF InputsCurrent
<1>7. C \cap Affected(resources, workspace, {r}) = {} BY DEF Reuses
<1>8. r \notin C BY <1>7 DEF Affected
<1>9. /\ InputsCurrent(resources', run)
      /\ \A k \in C : /\ k \in DOMAIN resources /\ resources'[k] = resources[k]
                      /\ Closure(resources', {k}) = Closure(resources, {k})
                      /\ Closure(resources, {k}) \subseteq C
                      /\ Stale(resources', k) <=> Stale(resources, k)
  <2> HIDE DEF run
  <2> QED BY <1>1, <1>5, <1>8, CurrentUntilChanged
<1> HIDE DEF run, C
<1>10. C \cap Affected(resources', workspace, {}) = {}
  <2>1. Drift(resources', workspace, DOMAIN resources')
           \subseteq Drift(resources, workspace, DOMAIN resources)
    BY <1>3 DEF Drift
  <2>2. ASSUME NEW k \in C
        PROVE  /\ k \notin Drift(resources', workspace, DOMAIN resources')
               /\ ~Stale(resources', k)
    <3>1. k \notin Affected(resources, workspace, {r}) /\ k \in DOMAIN resources BY <1>7, <1>9
    <3>2. Stale(resources', k) <=> Stale(resources, k) BY <1>9
    <3> QED BY <2>1, <3>1, <3>2, AffectedWhen
  <2>3. ASSUME NEW k \in C, NEW d \in Drift(resources', workspace, DOMAIN resources')
        PROVE  k \notin Impact(resources', d)
    <3>1. d \in Drift(resources, workspace, DOMAIN resources) BY <2>1
    <3>2. k \notin Impact(resources, d) BY <1>7, <3>1, AffectedWhen
    <3>3. k \in DOMAIN resources /\ Closure(resources', {k}) = Closure(resources, {k}) BY <1>9
    <3> QED BY <3>2, <3>3 DEF Impact
  <2> QED BY <2>2, <2>3, AffectedWhen
<1>11. LatestRuns(policy)' = LatestRuns(policy) /\ LatestRun(req)' = LatestRun(req)
  BY <1>3 DEF LatestRuns, LatestRun, Scope
<1>12. Satisfied(Current({})', policy, trust, clock, req)
  <2> DEFINE old == Current({})
             new == Current({})'
  <2>1. /\ old.resources = resources /\ old.runs = [j \in LatestRuns(policy) |-> runs[j]]
        /\ old.waivers = {w \in waivers \ revokedWaivers : w.run \in LatestRuns(policy)}
    BY CurrentFields
  <2>2. /\ new.resources = resources' /\ new.runs = [j \in LatestRuns(policy)' |-> runs'[j]]
        /\ new.waivers = {w \in waivers' \ revokedWaivers' : w.run \in LatestRuns(policy)'}
    BY <1>2 DEF ReuseDecides
  <2>3. Satisfied(old, policy, trust, clock, req) BY DEF Reuses
  <2> HIDE DEF old, new
  <2>4. new.runs = old.runs /\ new.waivers = old.waivers BY <1>3, <1>11, <2>1, <2>2
  <2>5. ASSUME NEW j \in DOMAIN old.runs, Scope(old.runs[j]) = Scope(req)
        PROVE  old.runs[j] = run
    <3>1. j \in LatestRun(req) /\ old.runs[j] = runs[j] BY <2>1, <2>5 DEF LatestRun
    <3>2. j = i BY <3>1, LatestOfScope DEF Reuses
    <3> QED BY <3>1, <3>2 DEF run
  <2>6. ASSUME NEW j \in DOMAIN old.runs, Scope(old.runs[j]) = Scope(req)
        PROVE  /\ InputsCurrent(new.resources, old.runs[j])
               /\ \A k \in DOMAIN old.runs[j].snapshot : new.resources[k] = old.resources[k]
    <3>1. old.runs[j] = run BY <2>5, <2>6
    <3>2. InputsCurrent(resources', run) /\ \A k \in DOMAIN run.snapshot : resources'[k] = resources[k]
      BY <1>9 DEF C
    <3> QED BY <2>1, <2>2, <3>1, <3>2
  <2>7. Satisfied(new, policy, trust, clock, req) BY <2>3, <2>4, <2>6, SatisfiedSame
  <2> QED BY <2>7 DEF new
<1>13. ASSUME NEW o \in RunRefs(run)' PROVE Intact(o)'
  <2>1. RunRefs(run)' = RunRefs(run)
    <3>1. runs'[i] = runs[i] BY <1>3
    <3>2. \A k \in DOMAIN runs[i].snapshot : resources'[k] = resources[k] BY <1>9 DEF C, run
    <3> QED BY <3>1, <3>2 DEF RunRefs, run
  <2>2. Intact(o) BY <2>1 DEF Reuses, run
  <2>3. o \in Object
    <3>1. \A k \in DOMAIN run.snapshot : Refs(resources[k].sha) \subseteq Content
      BY <1>6, ObjectAssumption DEF TypeInv, TypeOK, ResourceType, Refs, C
    <3>2. run.report \in Report \cup {NoReport}
      BY <1>4 DEF TypeInv, TypeOK, RunsType, RunType, run
    <3>3. o \in RunRefs(run) BY <2>1
    <3> HIDE DEF run
    <3> QED BY <3>1, <3>2, <3>3, RunRefsType
  <2> QED BY <1>3, <2>1, <2>2, <2>3
<1>14. Satisfied(Current({}), policy, trust, clock, req)'
  <2>1. Satisfied(Current({}), policy, trust, clock, req)'
           = Satisfied(Current({})', policy', trust', clock', req)
    BY DEF Satisfied, InputsCurrent, PinsMet, KindsBound, Conclusive, Waived, Authorized, Scope
  <2> QED BY <1>3, <1>12, <2>1
<1>15. Affected(resources, workspace, {})' = Affected(resources', workspace', {})
  BY DEF Affected, Drift, Impact, Stale, Closure, Fingerprint
<1> QED BY <1>3, <1>10, <1>11, <1>13, <1>14, <1>15 DEF Reuses, run, C

LEMMA StepWhatIf == ASSUME TypeInv, Valid(resources), [EngineStep]_vars PROVE WhatIfStep
<1> SUFFICES ASSUME NEW r \in DOMAIN resources, resources' # resources,
                    \A k \in DOMAIN resources \ {r} : resources'[k] = resources[k],
                    DOMAIN resources' = DOMAIN resources,
                    NEW req \in policy.checks,
                    CheckAction(req, Unfrozen({}), {r}) = "reuse_evidence"
             PROVE  CheckAction(req, Unfrozen({}), {})' = "reuse_evidence"
  BY DEF WhatIfStep
<1>1. PICK i \in LatestRun(req) : Reuses(req, i, {}, {r}) BY ReusedRun
<1>2. Reuses(req, i, {}, {})' BY <1>1, ReuseKept
<1>3. ReuseDecides'
  <2>1. TypeInv' BY StepType
  <2> QED BY <2>1, ReuseDecided, PTL
<1> QED BY <1>2, <1>3 DEF ReuseDecides

(* The consequences of registering a resource are what the plan and        *)
(* Engine.impact said they would be.                                       *)
THEOREM ConsequencesForeseen == PlanSpec => ChangesForeseen
<1> DEFINE Inv == TypeInv /\ Valid(resources)
<1>1. PlanInit => Inv BY InitTypeInv, InitialAssumption DEF PlanInit, Init
<1>2. [PlanNext]_planVars => [EngineStep]_vars BY DEF PlanNext, planVars, EngineStep
<1>3. Inv /\ [PlanNext]_planVars => Inv' BY <1>2, StepType, StepGraph
<1>4. Inv /\ [PlanNext]_planVars => WhatIfStep BY <1>2, StepWhatIf
<1>5. Inv /\ [PlanNext]_planVars => ImpactStep BY <1>2, StepImpact
<1>6. PlanSpec => [][WhatIfStep /\ ImpactStep]_planVars
  <2> HIDE DEF Inv
  <2> QED BY <1>1, <1>3, <1>4, <1>5, PTL DEF PlanSpec
<1> QED BY <1>6 DEF ChangesForeseen

-----------------------------------------------------------------------------
(* Pinning. *)

(* Every scope that was pinned has a requirement that pins the same bytes  *)
(* and allows one tool.                                                    *)
PinsAsPinned ==
    \A s \in DOMAIN pinned : \E req \in policy.checks :
        /\ Scope(req) = s
        /\ \E t : req.tools = {t}
        /\ \A k \in DOMAIN pinned[s] : k \in DOMAIN req.pins /\ req.pins[k] = pinned[s][k]

(* The policy of the call is one an operator wrote, or the one that was    *)
(* pinned.                                                                 *)
PinInv ==
    /\ pinned = <<>> => policy \in Policies
    /\ policy \notin Policies => PinsAsPinned

(* pin_policy pins what the latest run of each scope bound. *)
LEMMA PinPolicyPins == ASSUME TypeInv, PinPolicy PROVE PinInv'
<1> DEFINE scopes == {Scope(req) : req \in policy.checks}
<1>1. /\ \A req \in policy.checks : MayPin(req)
      /\ policy' = [policy EXCEPT !.checks = {Pin(req) : req \in policy.checks}]
      /\ pinned' = [s \in scopes |->
                      LET run == runs[CHOOSE i \in LatestRuns(policy) : Scope(runs[i]) = s]
                      IN  [k \in DOMAIN run.snapshot |-> run.snapshot[k][k].sha]]
  BY DEF PinPolicy
<1>2. ValidPolicy(policy) BY DEF TypeInv, TypeOK, EnvironmentType, PolicyType
<1>3. policy'.checks = {Pin(req) : req \in policy.checks}
  BY <1>1, <1>2 DEF ValidPolicy, PolicyField
<1>4. pinned' # <<>>
  <2>1. scopes # {} BY <1>2 DEF ValidPolicy
  <2>2. DOMAIN pinned' = scopes BY <1>1
  <2> QED BY <2>1, <2>2
<1>5. ASSUME NEW s \in DOMAIN pinned'
      PROVE  \E req \in policy'.checks :
                /\ Scope(req) = s
                /\ \E t : req.tools = {t}
                /\ \A k \in DOMAIN pinned'[s] :
                      k \in DOMAIN req.pins /\ req.pins[k] = pinned'[s][k]
  <2>1. PICK req \in policy.checks : Scope(req) = s BY <1>1
  <2> DEFINE i == CHOOSE j \in LatestRuns(policy) : Scope(runs[j]) = s
  <2>2. i \in LatestRun(req)
    <3>1. LatestRun(req) # {} BY <1>1 DEF MayPin
    <3>2. \E j \in LatestRuns(policy) : Scope(runs[j]) = s BY <2>1, <3>1 DEF LatestRun
    <3>3. i \in LatestRuns(policy) /\ Scope(runs[i]) = s BY <3>2
    <3> QED BY <2>1, <3>3 DEF LatestRun
  <2>3. pinned'[s] = [k \in DOMAIN runs[i].snapshot |-> runs[i].snapshot[k][k].sha]
    BY <1>1
  <2> HIDE DEF i
  <2>4. runs[i].snapshot = Snapshot(resources, runs[i].roots)
    BY <1>1, <2>2 DEF MayPin, InputsCurrent
  <2>5. /\ DOMAIN runs[i].snapshot = Closure(resources, runs[i].roots)
        /\ \A k \in DOMAIN runs[i].snapshot : runs[i].snapshot[k][k] = resources[k]
    BY <2>4, SnapshotDomain, SnapshotSelf
  <2>6. /\ Scope(Pin(req)) = s /\ Pin(req).tools = {runs[i].tool}
        /\ Pin(req).pins = [k \in Closure(resources, runs[i].roots) |-> resources[k].sha]
    BY <1>2, <2>1, <2>2, PinnedRequirement DEF ValidPolicy
  <2>7. \A k \in DOMAIN pinned'[s] :
           k \in DOMAIN Pin(req).pins /\ Pin(req).pins[k] = pinned'[s][k]
    BY <2>3, <2>5, <2>6
  <2>8. Pin(req) \in policy'.checks BY <1>3, <2>1
  <2>9. \E t : Pin(req).tools = {t} BY <2>6
  <2> QED BY ONLY <2>6, <2>7, <2>8, <2>9
<1> QED BY <1>4, <1>5 DEF PinInv, PinsAsPinned

(* An operator may go back to a policy of his own; nothing else changes it. *)
LEMMA StepPinned == ASSUME TypeInv, PinInv, [PlanNext]_planVars PROVE PinInv'
<1>1. CASE UNCHANGED <<policy, pinned>>
  <2>1. PinsAsPinned' = PinsAsPinned BY <1>1 DEF PinsAsPinned
  <2> QED BY <1>1, <2>1 DEF PinInv
<1>2. CASE Next /\ UNCHANGED pinned
  <2>1. CASE Operation
    BY <1>1, <1>2, <2>1, OperationKeepsEnvironment DEF environment
  <2>2. CASE Environment
    <3>1. policy' \in Policies \/ UNCHANGED policy
      <4>1. \A p : EditPolicy(p) => policy' = p BY DEF EditPolicy
      <4>2. \A r, c : EditWorkspace(r, c) => UNCHANGED policy BY DEF EditWorkspace
      <4>3. \A o, how : DamageObject(o, how) => UNCHANGED policy BY DEF DamageObject, environment
      <4>4. \A p : RevokeKey(p) => UNCHANGED policy BY DEF RevokeKey
      <4>5. Tick => UNCHANGED policy BY DEF Tick
      <4> QED BY <2>2, <4>1, <4>2, <4>3, <4>4, <4>5 DEF Environment
    <3>2. CASE policy' \in Policies BY <3>2 DEF PinInv
    <3> QED BY <1>1, <1>2, <3>1, <3>2
  <2> QED BY <1>2, <2>1, <2>2 DEF Next
<1>3. CASE UNCHANGED planVars BY <1>1, <1>3 DEF planVars, vars, environment
<1> QED BY <1>2, <1>3, PinPolicyPins DEF PlanNext

(* The gate compares the pins with the current graph, and the runs it      *)
(* accepts are on the current graph.                                       *)
LEMMA GateBindsPins == ASSUME TypeInv, PinInv PROVE PinnedGateBindsPinnedBytes
<1>1. ValidPolicy(policy) BY DEF TypeInv, TypeOK, EnvironmentType, PolicyType
<1>2. ASSUME policy \notin Policies, NEW n \in DOMAIN candidates, GateOpen(candidates[n]),
             NEW s \in DOMAIN pinned
      PROVE  \E i \in DOMAIN candidates[n].runs :
                LET run == candidates[n].runs[i]
                IN  /\ Scope(run) = s
                    /\ \A k \in DOMAIN pinned[s] :
                          /\ k \in DOMAIN run.snapshot
                          /\ run.snapshot[k][k].sha = pinned[s][k]
  <2> DEFINE c == candidates[n]
  <2>1. PICK req \in policy.checks :
           /\ Scope(req) = s
           /\ \E t : req.tools = {t}
           /\ \A k \in DOMAIN pinned[s] : k \in DOMAIN req.pins /\ req.pins[k] = pinned[s][k]
    BY <1>2 DEF PinInv, PinsAsPinned
  <2>2. c.policy = policy /\ c.resources = resources BY <1>2, GateView
  <2>3. PICK i \in DOMAIN c.runs :
           /\ Scope(c.runs[i]) = Scope(req)
           /\ InputsCurrent(resources, c.runs[i])
           /\ PinsMet(resources, req, c.runs[i])
    BY <1>2, <2>2 DEF GateOpen, EvidenceReady, Satisfied
  <2> DEFINE run == c.runs[i]
  <2>4. \A k \in DOMAIN run.snapshot : run.snapshot[k][k] = resources[k]
    BY <2>3, SnapshotSelf DEF InputsCurrent
  <2> HIDE DEF c, run
  <2>5. ASSUME NEW k \in DOMAIN pinned[s]
        PROVE  k \in DOMAIN run.snapshot /\ run.snapshot[k][k].sha = pinned[s][k]
    <3>1. /\ PinsMet(resources, req, run) /\ k \in DOMAIN req.pins
          /\ req.pins[k] = pinned[s][k]
      BY <2>1, <2>3 DEF run
    <3>2. k \in req.tools => k = run.tool BY <2>1, <3>1 DEF PinsMet
    <3>3. k \in DOMAIN run.snapshot /\ resources[k].sha = req.pins[k]
      BY <3>1, <3>2 DEF PinsMet
    <3> QED BY <2>4, <3>1, <3>3
  <2>6. Scope(run) = s BY <2>1, <2>3 DEF run
  <2> QED BY <2>5, <2>6 DEF c, run
<1> QED BY <1>1, <1>2 DEF PinnedGateBindsPinnedBytes

(* What satisfied a check satisfies it with its inputs pinned. *)
LEMMA PinningKeepsEvidence == ASSUME TypeInv PROVE PinnedPolicyKeepsEvidence
<1> SUFFICES ASSUME NEW req \in policy.checks, MayPin(req),
                    Satisfied(Current({}), policy, trust, clock, req)
             PROVE  Satisfied(Current({}), policy, trust, clock, Pin(req))
  BY DEF PinnedPolicyKeepsEvidence, Current
<1> DEFINE current == Current({})
<1>1. /\ current.resources = resources
      /\ current.runs = [i \in LatestRuns(policy) |-> runs[i]]
  BY CurrentFields
<1>2. PICK i \in DOMAIN current.runs :
         /\ Scope(current.runs[i]) = Scope(req)
         /\ InputsCurrent(resources, current.runs[i])
         /\ KindsBound(policy, req, current.runs[i])
         /\ Conclusive(policy, req, i, current.runs[i], Waived(current, trust, clock), clock)
  BY <1>1 DEF Satisfied
<1> HIDE DEF current
<1> DEFINE run == current.runs[i]
<1>3. i \in LatestRun(req) /\ run = runs[i] BY <1>1, <1>2 DEF LatestRun
<1>4. ValidRequirement(req)
  BY DEF TypeInv, TypeOK, EnvironmentType, PolicyType, ValidPolicy
<1>5. /\ Scope(Pin(req)) = Scope(req) /\ Pin(req).needs = req.needs
      /\ Pin(req).maxAge = req.maxAge /\ Pin(req).least = req.least
      /\ Pin(req).pins = [k \in Closure(resources, run.roots) |-> resources[k].sha]
      /\ Pin(req).tools = {run.tool} /\ Pin(req).formats = {run.format}
  <2> HIDE DEF run
  <2>1. /\ Scope(Pin(req)) = Scope(req) /\ Pin(req).needs = req.needs
        /\ Pin(req).maxAge = req.maxAge /\ Pin(req).least = req.least
        /\ Pin(req).pins = [k \in Closure(resources, runs[i].roots) |-> resources[k].sha]
        /\ Pin(req).tools = {runs[i].tool} /\ Pin(req).formats = {runs[i].format}
    BY <1>3, <1>4, PinnedRequirement
  <2> QED BY <1>3, <2>1
<1>6. /\ run.managed /\ run.exeIntact /\ {run.tool, run.corner} \cap Tracked = {}
  BY <1>3 DEF MayPin
<1>7. DOMAIN run.snapshot = Closure(resources, run.roots)
  BY <1>2, SnapshotDomain DEF InputsCurrent
<1> HIDE DEF run
<1>8. PinsMet(resources, Pin(req), run) BY <1>5, <1>6, <1>7 DEF PinsMet
<1>9. KindsBound(policy, Pin(req), run) BY <1>2, <1>5 DEF KindsBound, run
<1>10. Conclusive(policy, Pin(req), i, run, Waived(current, trust, clock), clock)
  BY <1>2, <1>5 DEF Conclusive, run
<1>11. Scope(run) = Scope(Pin(req)) /\ InputsCurrent(resources, run) BY <1>2, <1>5 DEF run
<1>12. Satisfied(current, policy, trust, clock, Pin(req))
  BY <1>1, <1>8, <1>9, <1>10, <1>11 DEF Satisfied, run
<1> QED BY <1>12 DEF current

(* A pinned policy admits only runs on the bytes it was pinned from, and   *)
(* all the evidence it was pinned from.                                    *)
THEOREM PinnedPolicyExact == PlanSpec => []PinningExact
<1> DEFINE Inv == TypeInv /\ PinInv
<1>1. PlanInit => Inv BY InitTypeInv, InitialAssumption DEF PlanInit, Init, PinInv
<1>2. Inv /\ [PlanNext]_planVars => Inv'
  <2>1. [PlanNext]_planVars => [EngineStep]_vars BY DEF PlanNext, planVars, EngineStep
  <2> QED BY <2>1, StepType, StepPinned
<1>3. Inv => PinningExact BY GateBindsPins, PinningKeepsEvidence DEF PinningExact
<1> HIDE DEF Inv
<1> QED BY <1>1, <1>2, <1>3, PTL DEF PlanSpec
=============================================================================
