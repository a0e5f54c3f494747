---------------------------- MODULE EngineProofs -----------------------------
(***************************************************************************)
(* Theorems about the engine for every set of resources, tools, people,    *)
(* policies, candidates and outcomes, and for any bounds.                  *)
(***************************************************************************)
EXTENDS EngineSafety, EvidencePlan, SequenceTheorems, InductionLemmas, TLAPS

-----------------------------------------------------------------------------
(* Sequences. *)

(* Appending to a sequence. *)
LEMMA Appended ==
    ASSUME NEW S, NEW s \in Seq(S), NEW e
    PROVE  /\ Append(s, e) \in Seq(S \cup {e})
           /\ Len(Append(s, e)) = Len(s) + 1
           /\ DOMAIN Append(s, e) = DOMAIN s \cup {Len(s) + 1}
           /\ \A i \in DOMAIN s : Append(s, e)[i] = s[i]
           /\ Append(s, e)[Len(s) + 1] = e
<1>1. s \in Seq(S \cup {e}) OBVIOUS
<1> QED BY <1>1

(* Replacing one element of a sequence. *)
LEMMA Updated ==
    ASSUME NEW S, NEW s \in Seq(S), NEW i \in DOMAIN s, NEW e
    PROVE  /\ [s EXCEPT ![i] = e] \in Seq(S \cup {e})
           /\ Len([s EXCEPT ![i] = e]) = Len(s)
           /\ DOMAIN [s EXCEPT ![i] = e] = DOMAIN s
<1>1. s \in Seq(S \cup {e}) OBVIOUS
<1> QED BY <1>1, ExceptSeq

-----------------------------------------------------------------------------
(* Types. *)

(* What the types leave out and the engine relies on: runs and seen are    *)
(* sequences, a run has the fields run.started and run.completed give, and *)
(* a candidate those of candidate.created.                                 *)
RunField == {"kind", "corner", "tool", "roots", "snapshot", "done", "doneAt", "exitOk",
             "managed", "exeIntact", "report", "format", "status", "complete",
             "violations", "metric", "drift"}

CandidateField == {"name", "by", "resources", "runs", "waivers", "deliveries",
                   "policy", "trust"}

Numbered ==
    /\ \E S : runs \in Seq(S)
    /\ \E S : seen \in Seq(S)
    /\ \A i \in DOMAIN runs : DOMAIN runs[i] = RunField

Shaped == \A n \in DOMAIN candidates : DOMAIN candidates[n] = CandidateField

(* The tool and the corner of a run are among its roots, all registered.    *)
Rooted ==
    \A i \in DOMAIN runs : /\ {runs[i].tool, runs[i].corner} \subseteq runs[i].roots
                           /\ runs[i].roots \subseteq DOMAIN resources

TypeInv == TypeOK /\ Numbered /\ Shaped /\ Rooted

(* What the engine does, or an operator who pins the policy: the steps of   *)
(* both specifications.                                                     *)
EngineStep == Next \/ PinPolicy

(* A behaviour with pinning or without it is one of such steps. *)
LEMMA Behaviours == Spec \/ PlanSpec => Init /\ [][EngineStep]_vars
<1>1. PlanInit => Init BY DEF PlanInit
<1>2. [Next]_vars => [EngineStep]_vars BY DEF EngineStep
<1>3. [PlanNext]_planVars => [EngineStep]_vars BY DEF PlanNext, planVars, EngineStep
<1> QED BY <1>1, <1>2, <1>3, PTL DEF Spec, PlanSpec

(* A policy stays what it is. *)
LEMMA PolicyKept == ASSUME PolicyType, UNCHANGED policy PROVE PolicyType'
BY DEF PolicyType, ValidPolicy, ValidRequirement, Scope

(* A part of the types holds on as long as its variables do not change. *)
LEMMA Frame ==
    ASSUME TypeInv
    PROVE  /\ UNCHANGED resources => ResourceType(resources)'
           /\ UNCHANGED <<runs, seen>> => RunsType' /\ Numbered'
           /\ UNCHANGED <<runs, waivers, revokedWaivers>> => WaiverType'
           /\ UNCHANGED decisions => DecisionType' /\ Shaped'
           /\ UNCHANGED <<candidates, outbound>> => OutboundType'
           /\ UNCHANGED <<environment, objects>> => EnvironmentType'
           /\ UNCHANGED runs /\ DOMAIN resources \subseteq DOMAIN resources' => Rooted'
<1> USE DEF TypeInv, TypeOK
<1>1. UNCHANGED resources => ResourceType(resources)' BY DEF ResourceType
<1>2. UNCHANGED <<runs, seen>> => RunsType' BY DEF RunsType
<1>3. UNCHANGED <<runs, seen>> => Numbered' BY DEF Numbered
<1>4. UNCHANGED <<runs, waivers, revokedWaivers>> => WaiverType' BY DEF WaiverType
<1>5. UNCHANGED decisions => DecisionType' /\ Shaped' BY DEF DecisionType, Shaped, decisions
<1>6. UNCHANGED <<candidates, outbound>> => OutboundType' BY DEF OutboundType, outbound
<1>7. UNCHANGED <<environment, objects>> => EnvironmentType'
  BY PolicyKept DEF EnvironmentType, environment
<1>8. UNCHANGED runs /\ DOMAIN resources \subseteq DOMAIN resources' => Rooted'
  BY DEF Rooted
<1> QED BY <1>1, <1>2, <1>3, <1>4, <1>5, <1>6, <1>7, <1>8

(* Engine.init leaves a well-formed ledger and workspace. *)
LEMMA InitTypeInv == Init => TypeInv
<1> SUFFICES ASSUME Init PROVE TypeInv OBVIOUS
<1>1. ResourceType(resources)
  BY InitialAssumption DEF Init, ResourceType, Valid, Grounded
<1>2. RunsType /\ WaiverType /\ Numbered /\ Rooted
  <2>1. <<>> \in Seq({}) /\ DOMAIN <<>> = {} /\ Len(<<>>) = 0 OBVIOUS
  <2>2. runs = <<>> /\ seen = <<>> /\ waivers = {} /\ revokedWaivers = {} BY DEF Init
  <2>3. RunsType /\ WaiverType BY <2>1, <2>2, BoundAssumption DEF RunsType, WaiverType
  <2> QED BY <2>1, <2>2, <2>3 DEF Numbered, Rooted
<1>3. DecisionType /\ OutboundType /\ Shaped
  BY DEF Init, DecisionType, OutboundType, Shaped
<1>4. EnvironmentType
  <2>1. workspace \in [Tracked -> Content \cup {Absent}]
    BY InitialAssumption DEF Init
  <2>2. objects \in [Object -> {"absent", "intact", "corrupt"}] BY DEF Init
  <2>3. PolicyType /\ trust \subseteq Principal /\ clock \in 0..MaxClock
    BY InitialAssumption, PolicyAssumption, BoundAssumption DEF Init, PolicyType
  <2> QED BY <2>1, <2>2, <2>3 DEF EnvironmentType
<1> QED BY <1>1, <1>2, <1>3, <1>4 DEF TypeInv, TypeOK

(* Engine.register keeps the resource graph grounded. *)
LEMMA RegisterType ==
    ASSUME TypeInv, NEW r \in Resource, NEW sha \in Content, NEW deps \in DepChoice[r],
           Register(r, deps, sha)
    PROVE  TypeInv'
<1> DEFINE record  == [sha  |-> sha, deps |-> deps,
                       pins |-> [d \in deps |-> Fingerprint(resources, d)]]
           updated == [k \in DOMAIN resources \cup {r} |->
                          IF k = r THEN record ELSE resources[k]]
<1>1. resources' = updated /\ Valid(updated) BY DEF Register
<1>2. ResourceType(resources')
  <2>1. DOMAIN updated = DOMAIN resources \cup {r} OBVIOUS
  <2>2. \A k \in DOMAIN updated : updated[k].sha \in Content
    BY DEF TypeInv, TypeOK, ResourceType
  <2> HIDE DEF updated
  <2>3. \A k \in DOMAIN updated : updated[k].deps \subseteq DOMAIN updated
    BY <1>1 DEF Valid, Grounded
  <2> QED BY <1>1, <2>1, <2>2, <2>3 DEF TypeInv, TypeOK, ResourceType
<1>3. objects' \in [Object -> {"absent", "intact", "corrupt"}]
  BY DEF Register, Put, TypeInv, TypeOK, EnvironmentType
<1>4. /\ UNCHANGED <<runs, seen>> /\ UNCHANGED <<runs, waivers, revokedWaivers>>
      /\ UNCHANGED decisions /\ UNCHANGED <<candidates, outbound>> /\ UNCHANGED environment
      /\ UNCHANGED runs /\ DOMAIN resources \subseteq DOMAIN resources'
  BY DEF Register, decisions
<1>5. EnvironmentType'
  BY <1>3, <1>4, PolicyKept DEF TypeInv, TypeOK, EnvironmentType, environment
<1> QED BY <1>2, <1>4, <1>5, Frame DEF TypeInv, TypeOK

(* `run' is the open run that Engine.begin writes. *)
Begins(run, inputs, tool, corner) ==
    /\ DOMAIN run = RunField
    /\ run.tool = tool /\ run.corner = corner
    /\ run.roots = inputs \cup {tool, corner}
    /\ run.snapshot = Snapshot(resources, inputs \cup {tool, corner})
    /\ run.done = FALSE /\ run.doneAt = 0
    /\ run.report = NoReport /\ run.status = "unknown"
    /\ run.violations = {} /\ run.drift = {}

(* Engine.begin appends a run with the snapshot of its inputs, not done.   *)
LEMMA BegunRun ==
    ASSUME NEW kind, NEW inputs, NEW tool, NEW corner, Begin(kind, inputs, tool, corner)
    PROVE  \E run : runs' = Append(runs, run) /\ Begins(run, inputs, tool, corner)
<1> DEFINE run == [kind |-> kind, corner |-> corner, tool |-> tool,
               roots |-> inputs \cup {tool, corner},
               snapshot |-> Snapshot(resources, inputs \cup {tool, corner}),
               done |-> FALSE, doneAt |-> 0, exitOk |-> FALSE, managed |-> FALSE,
               exeIntact |-> FALSE, report |-> NoReport, format |-> "none",
               status |-> "unknown", complete |-> FALSE, violations |-> {},
               metric |-> NoMetric, drift |-> {}]
<1>1. runs' = Append(runs, run) BY DEF Begin
<1>2. Begins(run, inputs, tool, corner) BY DEF Begins, RunField
<1> QED BY <1>1, <1>2

(* Engine.begin appends an open run. *)
LEMMA BeginType ==
    ASSUME TypeInv, NEW kind, NEW inputs, NEW tool \in Tool, NEW corner \in Corner,
           Begin(kind, inputs, tool, corner)
    PROVE  TypeInv'
<1>1. PICK run : runs' = Append(runs, run) /\ RunType(run) /\ DOMAIN run = RunField
  <2>1. DOMAIN Snapshot(resources, inputs \cup {tool, corner}) \subseteq Resource
    BY SnapshotDomain DEF TypeInv, TypeOK, ResourceType
  <2>2. PICK run : runs' = Append(runs, run) /\ Begins(run, inputs, tool, corner)
    BY BegunRun
  <2>3. DOMAIN run.snapshot \subseteq Resource BY <2>1, <2>2 DEF Begins
  <2>4. RunType(run)
    <3>1. /\ run.tool = tool /\ run.corner = corner
          /\ run.done = FALSE /\ run.doneAt = 0 /\ run.report = NoReport
          /\ run.violations = {} /\ run.drift = {}
      BY <2>2 DEF Begins
    <3>2. run.done \in BOOLEAN /\ run.doneAt \in Nat
      <4>1. run.done \in BOOLEAN BY <3>1, Zenon
      <4>2. run.doneAt \in Nat BY <3>1
      <4> QED BY <4>1, <4>2
    <3>3. run.corner \in Corner /\ run.tool \in Tool BY <3>1
    <3>4. run.report \in Report \cup {NoReport} BY <3>1
    <3>5. run.violations \subseteq Violation /\ run.drift \subseteq Resource BY <3>1
    <3>6. ~run.done BY <3>1
    <3>7. run.done /\ run.status = "pass" => run.complete /\ run.violations = {} BY <3>6
    <3> QED BY <2>3, <3>2, <3>3, <3>4, <3>5, <3>7 DEF RunType
  <2> QED BY <2>2, <2>4 DEF Begins
<1>2. PICK x : seen' = Append(seen, x) BY DEF Begin
<1>3. PICK S : runs \in Seq(S) BY DEF TypeInv, Numbered
<1>4. PICK T : seen \in Seq(T) BY DEF TypeInv, Numbered
<1>5. Len(runs) = Len(seen) BY <1>3, <1>4 DEF TypeInv, TypeOK, RunsType
<1>6. /\ DOMAIN runs' = DOMAIN runs \cup {Len(runs) + 1}
      /\ \A i \in DOMAIN runs : runs'[i] = runs[i]
      /\ runs'[Len(runs) + 1] = run
      /\ DOMAIN seen' = DOMAIN runs'
      /\ Len(runs') = Len(runs) + 1
  BY <1>1, <1>2, <1>3, <1>4, <1>5, Appended DEF TypeInv, TypeOK, RunsType
<1>7. Numbered'
  <2>1. (\E U : runs' \in Seq(U)) /\ (\E U : seen' \in Seq(U))
    BY <1>1, <1>2, <1>3, <1>4, Appended
  <2> QED BY <2>1, <1>1, <1>6 DEF TypeInv, Numbered
<1>8. Len(runs') <= MaxRuns BY <1>3, <1>6, BoundAssumption DEF Begin
<1>9. RunsType' BY <1>1, <1>6, <1>8 DEF TypeInv, TypeOK, RunsType
<1>10. WaiverType' BY <1>6 DEF Begin, TypeInv, TypeOK, WaiverType
<1>11. /\ UNCHANGED resources /\ UNCHANGED decisions
       /\ UNCHANGED <<candidates, outbound>> /\ UNCHANGED <<environment, objects>>
  BY DEF Begin, decisions
<1>12. Rooted'
  <2>1. PICK begun : runs' = Append(runs, begun) /\ Begins(begun, inputs, tool, corner)
    BY BegunRun
  <2>2. /\ DOMAIN runs' = DOMAIN runs \cup {Len(runs) + 1}
        /\ \A i \in DOMAIN runs : runs'[i] = runs[i]
        /\ runs'[Len(runs) + 1] = begun
    BY <2>1, <1>3, Appended
  <2>3. inputs \cup {tool, corner} \subseteq DOMAIN resources BY DEF Begin
  <2> QED BY <2>1, <2>2, <2>3, <1>11 DEF TypeInv, Rooted, Begins
<1> QED BY <1>7, <1>9, <1>10, <1>11, <1>12, Frame DEF TypeInv, TypeOK

(* `run' is run i as it was begun, completed with the outcome o.           *)
Completes(run, i, o) ==
    /\ DOMAIN run = RunField
    /\ run.kind = runs[i].kind /\ run.corner = runs[i].corner
    /\ run.tool = runs[i].tool /\ run.roots = runs[i].roots
    /\ run.snapshot = runs[i].snapshot
    /\ run.done = TRUE /\ run.doneAt = clock
    /\ run.report = o.report /\ run.status = o.status
    /\ run.complete = o.complete /\ run.violations = o.violations
    /\ run.drift = ChangedInputs(runs[i])

(* Engine.finish completes the run it is given, with what the tool left.   *)
LEMMA FinishedRun ==
    ASSUME TypeInv, NEW i \in DOMAIN runs, NEW o, NEW managed, Finish(i, o, managed)
    PROVE  \E run : runs' = [runs EXCEPT ![i] = run] /\ Completes(run, i, o)
<1> DEFINE run == [runs[i] EXCEPT !.done = TRUE, !.doneAt = clock, !.exitOk = o.exitOk,
                    !.managed = managed, !.exeIntact = o.exeIntact /\ managed,
                    !.report = o.report, !.format = o.format, !.status = o.status,
                    !.complete = o.complete, !.violations = o.violations,
                    !.metric = o.metric, !.drift = ChangedInputs(runs[i])]
<1>1. DOMAIN runs[i] = RunField BY DEF TypeInv, Numbered
<1>2. runs' = [runs EXCEPT ![i] = run] BY DEF Finish
<1>3. DOMAIN run = RunField BY <1>1
<1>4. /\ run.kind = runs[i].kind /\ run.corner = runs[i].corner
      /\ run.tool = runs[i].tool /\ run.roots = runs[i].roots
      /\ run.snapshot = runs[i].snapshot
      /\ run.done = TRUE /\ run.doneAt = clock
      /\ run.report = o.report /\ run.status = o.status
      /\ run.complete = o.complete /\ run.violations = o.violations
      /\ run.drift = ChangedInputs(runs[i])
  BY <1>1 DEF RunField
<1> HIDE DEF run
<1> QED BY <1>2, <1>3, <1>4 DEF Completes

(* Engine.finish completes one run and keeps the others. *)
LEMMA FinishType ==
    ASSUME TypeInv, NEW i \in DOMAIN runs, NEW o \in Outcome, NEW managed \in Capture,
           Finish(i, o, managed)
    PROVE  TypeInv'
<1>1. RunType(runs[i]) /\ DOMAIN runs[i] = RunField
  BY DEF TypeInv, TypeOK, RunsType, Numbered
<1>2. PICK run : /\ runs' = [runs EXCEPT ![i] = run]
                 /\ RunType(run) /\ DOMAIN run = RunField
  <2>1. ChangedInputs(runs[i]) \subseteq Resource
    BY <1>1, SnapshotDomain DEF ChangedInputs, Drift, TypeInv, TypeOK, ResourceType, RunType
  <2>2. clock \in Nat BY BoundAssumption DEF TypeInv, TypeOK, EnvironmentType
  <2>3. PICK run : runs' = [runs EXCEPT ![i] = run] /\ Completes(run, i, o)
    BY FinishedRun
  <2>4. RunType(run)
    BY <1>1, <2>1, <2>2, <2>3, OutcomeAssumption DEF RunType, Completes, WellFormed
  <2> QED BY <2>3, <2>4 DEF Completes
<1>3. PICK x : seen' = [seen EXCEPT ![i] = x] BY DEF Finish
<1>4. PICK S : runs \in Seq(S) BY DEF TypeInv, Numbered
<1>5. PICK T : seen \in Seq(T) BY DEF TypeInv, Numbered
<1>6. DOMAIN seen = DOMAIN runs BY DEF TypeInv, TypeOK, RunsType
<1>7. /\ DOMAIN runs' = DOMAIN runs /\ DOMAIN seen' = DOMAIN runs
      /\ Len(runs') = Len(runs)
      /\ runs'[i] = run
      /\ \A j \in DOMAIN runs : j # i => runs'[j] = runs[j]
  BY <1>2, <1>3, <1>4, <1>5, <1>6, Updated
<1>8. Numbered'
  <2>1. (\E U : runs' \in Seq(U)) /\ (\E U : seen' \in Seq(U))
    BY <1>2, <1>3, <1>4, <1>5, <1>6, Updated
  <2> QED BY <2>1, <1>2, <1>7 DEF TypeInv, Numbered
<1>9. RunsType' BY <1>2, <1>7 DEF TypeInv, TypeOK, RunsType
<1>10. WaiverType' BY <1>7 DEF Finish, TypeInv, TypeOK, WaiverType
<1>11. objects' \in [Object -> {"absent", "intact", "corrupt"}]
  BY OutcomeAssumption DEF Finish, Put, TypeInv, TypeOK, EnvironmentType
<1>12. /\ UNCHANGED resources /\ UNCHANGED decisions
       /\ UNCHANGED <<candidates, outbound>> /\ UNCHANGED environment
  BY DEF Finish, decisions
<1>13. EnvironmentType'
  BY <1>11, <1>12, PolicyKept DEF TypeInv, TypeOK, EnvironmentType, environment
<1>14. Rooted'
  <2>1. PICK completed : runs' = [runs EXCEPT ![i] = completed] /\ Completes(completed, i, o) BY FinishedRun
  <2>2. /\ DOMAIN runs' = DOMAIN runs /\ runs'[i] = completed
        /\ \A j \in DOMAIN runs : j # i => runs'[j] = runs[j]
    BY <2>1
  <2> QED BY <2>1, <2>2, <1>12 DEF TypeInv, Rooted, Completes
<1> QED BY <1>8, <1>9, <1>10, <1>12, <1>13, <1>14, Frame DEF TypeInv, TypeOK

(* Waivers and their revocations are for runs of the ledger. *)
LEMMA WaiverStepType ==
    ASSUME TypeInv,
           \/ \E i \in DOMAIN runs, v \in Violation, owner, by \in Principal :
                 \E expires \in 1..(MaxClock + 1), attachments \in Attachments :
                    Waive(i, v, owner, by, expires, attachments)
           \/ \E w \in waivers, by \in Principal : RevokeWaiver(w, by)
    PROVE  TypeInv'
<1>1. /\ UNCHANGED resources /\ UNCHANGED <<runs, seen>> /\ UNCHANGED decisions
      /\ UNCHANGED <<candidates, outbound>> /\ UNCHANGED <<environment, objects>>
  BY DEF Waive, RevokeWaiver, decisions
<1>2. WaiverType'
  <2>1. CASE \E w \in waivers, by \in Principal : RevokeWaiver(w, by)
    BY <2>1 DEF RevokeWaiver, TypeInv, TypeOK, WaiverType
  <2>2. CASE \E i \in DOMAIN runs, v \in Violation, owner, by \in Principal :
                 \E expires \in 1..(MaxClock + 1), attachments \in Attachments :
                    Waive(i, v, owner, by, expires, attachments)
    <3>1. PICK i \in DOMAIN runs, v \in Violation : \E w :
             /\ waivers' = waivers \cup {w} /\ w.run = i /\ w.violation = v
             /\ UNCHANGED <<runs, revokedWaivers>>
      BY <2>2 DEF Waive
    <3> QED BY <3>1 DEF TypeInv, TypeOK, WaiverType
  <2> QED BY <2>1, <2>2
<1> QED BY <1>1, <1>2, Frame DEF TypeInv, TypeOK

(* An attachment is an object more. *)
LEMMA AttachType == ASSUME TypeInv, NEW o \in UNION Attachments, Attach(o) PROVE TypeInv'
<1>1. /\ UNCHANGED resources /\ UNCHANGED <<runs, seen>> /\ UNCHANGED decisions
      /\ UNCHANGED <<candidates, outbound>> /\ UNCHANGED environment
      /\ UNCHANGED <<runs, waivers, revokedWaivers>>
  BY DEF Attach, ledger, evidence, decisions
<1>2. objects' \in [Object -> {"absent", "intact", "corrupt"}]
  BY DEF Attach, Put, TypeInv, TypeOK, EnvironmentType
<1>3. EnvironmentType'
  BY <1>1, <1>2, PolicyKept DEF TypeInv, TypeOK, EnvironmentType, environment
<1> QED BY <1>1, <1>3, Frame DEF TypeInv, TypeOK

(* Candidates are kept under their names; approvals are for candidates of  *)
(* the ledger.                                                             *)
LEMMA DecisionStepType ==
    ASSUME TypeInv,
           \/ \E n \in CandidateName, by \in Principal, layouts \in SUBSET Layout :
                 CreateCandidate(n, by, layouts)
           \/ \E n \in DOMAIN candidates, role \in Role, by \in Principal : Approve(n, role, by)
           \/ \E a \in approvals, by \in Principal : RevokeApproval(a, by)
    PROVE  TypeInv'
<1>1. /\ UNCHANGED resources /\ UNCHANGED <<runs, seen>>
      /\ UNCHANGED <<runs, waivers, revokedWaivers>> /\ UNCHANGED outbound
      /\ UNCHANGED <<environment, objects>>
  BY DEF CreateCandidate, Approve, RevokeApproval, evidence
<1>2. DecisionType' /\ Shaped' /\ DOMAIN candidates \subseteq DOMAIN candidates'
  <2> USE DEF TypeInv, TypeOK, DecisionType, Shaped
  <2>1. CASE \E n \in CandidateName, by \in Principal, layouts \in SUBSET Layout :
                 CreateCandidate(n, by, layouts)
    <3>1. PICK n \in CandidateName : \E c :
             /\ candidates' = [m \in DOMAIN candidates \cup {n} |->
                                  IF m = n THEN c ELSE candidates[m]]
             /\ c.name = n /\ DOMAIN c = CandidateField
             /\ UNCHANGED <<approvals, revokedApprovals>>
      <4>1. PICK n \in CandidateName, by \in Principal, layouts \in SUBSET Layout :
               CreateCandidate(n, by, layouts)
        BY <2>1
      <4> DEFINE blank == [name |-> n, by |-> by, resources |-> <<>>, runs |-> <<>>,
                           waivers |-> {}, deliveries |-> [l \in layouts |-> Absent],
                           policy |-> policy, trust |-> trust]
                 cand  == ScopeView(blank, policy, trust)
      <4>2. /\ candidates' = [m \in DOMAIN candidates \cup {n} |->
                                 IF m = n THEN cand ELSE candidates[m]]
            /\ UNCHANGED <<approvals, revokedApprovals>>
        BY <4>1 DEF CreateCandidate
      <4>3. cand.name = n BY DEF ScopeView
      <4>4. DOMAIN cand = CandidateField BY DEF ScopeView, CandidateField
      <4> QED BY <4>2, <4>3, <4>4
    <3> QED BY <3>1
  <2>2. CASE \E n \in DOMAIN candidates, role \in Role, by \in Principal : Approve(n, role, by)
    <3>1. PICK n \in DOMAIN candidates, role \in Role, by \in Principal : \E a :
             /\ approvals' = approvals \cup {a}
             /\ a.candidate = candidates[n] /\ a.role = role /\ a.by = by
             /\ UNCHANGED <<candidates, revokedApprovals>>
      <4>1. PICK n \in DOMAIN candidates, role \in Role, by \in Principal :
               Approve(n, role, by)
        BY <2>2
      <4> DEFINE a == [candidate |-> candidates[n], role |-> role, by |-> by,
                       at |-> clock, id |-> Cardinality(approvals)]
      <4>2. approvals' = approvals \cup {a} /\ UNCHANGED <<candidates, revokedApprovals>>
        BY <4>1 DEF Approve
      <4>3. a.candidate = candidates[n] /\ a.role = role /\ a.by = by OBVIOUS
      <4> HIDE DEF a
      <4> QED BY <4>2, <4>3
    <3> QED BY <3>1
  <2>3. CASE \E a \in approvals, by \in Principal : RevokeApproval(a, by)
    BY <2>3 DEF RevokeApproval
  <2> QED BY <2>1, <2>2, <2>3
<1>3. OutboundType'
  BY <1>1, <1>2 DEF outbound, TypeInv, TypeOK, OutboundType
<1> QED BY <1>1, <1>2, <1>3, Frame DEF TypeInv, TypeOK

(* Releases, withdrawals, receipts and deliveries refer to what the ledger *)
(* holds.                                                                  *)
LEMMA OutboundStepType ==
    ASSUME TypeInv,
           \/ \E n \in DOMAIN candidates, by \in Principal : Seal(n, by)
           \/ \E n \in DOMAIN releases, by \in Principal : Withdraw(n, by)
           \/ \E n \in DOMAIN releases : Receipt(n)
           \/ \E d \in DeliveryId, n \in DOMAIN candidates, layouts \in SUBSET Layout \ {{}} :
                 \E recipient \in Recipient, by \in Principal :
                     SealDelivery(d, n, layouts, recipient, by)
           \/ \E d \in DOMAIN deliveries : RecordReceipt(d)
    PROVE  TypeInv'
<1>1. /\ UNCHANGED evidence /\ UNCHANGED decisions /\ UNCHANGED <<environment, objects>>
      /\ UNCHANGED seen
  BY DEF Seal, Withdraw, Receipt, SealDelivery, RecordReceipt
<1>2. /\ UNCHANGED resources /\ UNCHANGED <<runs, seen>> /\ UNCHANGED candidates
      /\ UNCHANGED <<runs, waivers, revokedWaivers>>
  BY <1>1 DEF evidence, decisions
<1>3. OutboundType'
  <2>1. CASE \E n \in DOMAIN candidates, by \in Principal : Seal(n, by)
    <3>1. PICK n \in DOMAIN candidates : \E rec :
             /\ releases' = [m \in DOMAIN releases \cup {n} |->
                                IF m # n THEN releases[m] ELSE rec]
             /\ n \notin DOMAIN releases
             /\ UNCHANGED <<withdrawals, receipts, deliveries, deliveryReceipts>>
      BY <2>1 DEF Seal
    <3> QED BY <1>2, <3>1 DEF TypeInv, TypeOK, OutboundType
  <2>2. CASE \E n \in DOMAIN releases, by \in Principal : Withdraw(n, by)
    BY <1>2, <2>2 DEF Withdraw, TypeInv, TypeOK, OutboundType
  <2>3. CASE \E n \in DOMAIN releases : Receipt(n)
    BY <1>2, <2>3 DEF Receipt, TypeInv, TypeOK, OutboundType
  <2>4. CASE \E d \in DeliveryId, n \in DOMAIN candidates, layouts \in SUBSET Layout \ {{}} :
                 \E recipient \in Recipient, by \in Principal :
                     SealDelivery(d, n, layouts, recipient, by)
    <3>1. PICK d \in DeliveryId : \E rec :
             /\ deliveries' = [e \in DOMAIN deliveries \cup {d} |->
                                  IF e # d THEN deliveries[e] ELSE rec]
             /\ UNCHANGED <<releases, withdrawals, receipts, deliveryReceipts>>
      BY <2>4 DEF SealDelivery
    <3> QED BY <1>2, <3>1 DEF TypeInv, TypeOK, OutboundType
  <2>5. CASE \E d \in DOMAIN deliveries : RecordReceipt(d)
    BY <1>2, <2>5 DEF RecordReceipt, TypeInv, TypeOK, OutboundType
  <2> QED BY <2>1, <2>2, <2>3, <2>4, <2>5
<1> QED BY <1>1, <1>2, <1>3, Frame DEF TypeInv, TypeOK

(* The environment stays within what the engine can meet. *)
LEMMA EnvironmentStepType == ASSUME TypeInv, Environment PROVE TypeInv'
<1>1. UNCHANGED <<ledger, seen>>
  BY DEF Environment, EditWorkspace, DamageObject, EditPolicy, RevokeKey, Tick
<1>2. /\ UNCHANGED resources /\ UNCHANGED <<runs, seen>> /\ UNCHANGED decisions
      /\ UNCHANGED <<candidates, outbound>> /\ UNCHANGED <<runs, waivers, revokedWaivers>>
  BY <1>1 DEF ledger, evidence, decisions
<1>3. EnvironmentType'
  <2> USE DEF TypeInv, TypeOK, EnvironmentType, environment
  <2>1. ASSUME NEW r \in Tracked, NEW c \in EditContent[r], EditWorkspace(r, c)
        PROVE  EnvironmentType'
    BY <2>1, InitialAssumption, PolicyKept DEF EditWorkspace
  <2>2. ASSUME NEW o \in Damageable, NEW how \in {"absent", "corrupt"}, DamageObject(o, how)
        PROVE  EnvironmentType'
    BY <2>2, PolicyKept DEF DamageObject
  <2>3. ASSUME NEW p \in Policies, EditPolicy(p) PROVE EnvironmentType'
    <3>1. policy' = p BY <2>3 DEF EditPolicy
    <3>2. PolicyType' BY <3>1, PolicyAssumption DEF PolicyType, ValidPolicy
    <3> QED BY <2>3, <3>2 DEF EditPolicy
  <2>4. ASSUME NEW p \in Principal, RevokeKey(p) PROVE EnvironmentType'
    BY <2>4, PolicyKept DEF RevokeKey
  <2>5. ASSUME Tick PROVE EnvironmentType'
    BY <2>5, BoundAssumption, PolicyKept DEF Tick
  <2> QED BY <2>1, <2>2, <2>3, <2>4, <2>5 DEF Environment
<1> QED BY <1>2, <1>3, Frame DEF TypeInv, TypeOK

(* The latest run of a required scope is one run. *)
LEMMA LatestOfScope ==
    ASSUME TypeInv, NEW req, NEW i \in LatestRun(req), NEW j \in LatestRun(req)
    PROVE  i = j
<1>1. PICK S : runs \in Seq(S) BY DEF TypeInv, Numbered
<1>2. /\ i \in DOMAIN runs /\ j \in DOMAIN runs
      /\ Scope(runs[i]) = Scope(req) /\ Scope(runs[j]) = Scope(req)
      /\ i <= j /\ j <= i
  BY DEF LatestRun, LatestRuns
<1>3. i \in Nat /\ j \in Nat BY <1>1, <1>2
<1> QED BY <1>2, <1>3

(* What pin_policy makes of a requirement: the same one, with what its run *)
(* bound pinned.                                                           *)
LEMMA PinnedRequirement ==
    ASSUME TypeInv, NEW req, ValidRequirement(req), NEW i \in LatestRun(req)
    PROVE  /\ Scope(Pin(req)) = Scope(req) /\ Pin(req).needs = req.needs
           /\ Pin(req).maxAge = req.maxAge /\ Pin(req).least = req.least
           /\ Pin(req).corner = req.corner
           /\ Pin(req).pins = [k \in Closure(resources, runs[i].roots) |-> resources[k].sha]
           /\ Pin(req).tools = {runs[i].tool} /\ Pin(req).formats = {runs[i].format}
           /\ Pin(req).pinnedExe = TRUE
           /\ ValidRequirement(Pin(req))
<1> DEFINE c    == CHOOSE j \in LatestRun(req) : TRUE
           pins == [k \in Closure(resources, runs[i].roots) |-> resources[k].sha]
<1>1. c = i
  <2>1. c \in LatestRun(req) OBVIOUS
  <2> HIDE DEF c
  <2> QED BY <2>1, LatestOfScope
<1> HIDE DEF c
<1>2. Pin(req) = [req EXCEPT !.pins = pins, !.tools = {runs[i].tool},
                             !.formats = {runs[i].format}, !.pinnedExe = TRUE]
  BY <1>1 DEF Pin, c
<1> HIDE DEF pins
<1>3. DOMAIN req = RequirementField BY DEF ValidRequirement
<1>4. /\ DOMAIN Pin(req) = RequirementField /\ Pin(req).kind = req.kind
      /\ Pin(req).corner = req.corner /\ Pin(req).needs = req.needs
      /\ Pin(req).maxAge = req.maxAge /\ Pin(req).least = req.least
      /\ Pin(req).pins = pins
      /\ Pin(req).tools = {runs[i].tool} /\ Pin(req).formats = {runs[i].format}
      /\ Pin(req).pinnedExe = TRUE
  BY <1>2, <1>3 DEF RequirementField
<1>5. {runs[i].tool, runs[i].corner} \subseteq DOMAIN pins
  <2>1. i \in DOMAIN runs BY DEF LatestRun, LatestRuns
  <2> QED BY <2>1 DEF TypeInv, Rooted, Closure, pins
<1>6. runs[i].corner = req.corner BY DEF LatestRun, Scope
<1>7. ValidRequirement(Pin(req)) BY <1>4, <1>5, <1>6 DEF ValidRequirement
<1> QED BY <1>4, <1>7 DEF pins, Scope

(* pin_policy returns a valid policy, and changes nothing but the checks.   *)
LEMMA PinPolicyType == ASSUME TypeInv, PinPolicy PROVE TypeInv'
<1> DEFINE checks == {Pin(req) : req \in policy.checks}
<1>1. /\ \A req \in policy.checks : MayPin(req)
      /\ policy' = [policy EXCEPT !.checks = checks]
      /\ UNCHANGED <<ledger, workspace, trust, clock, objects, seen>>
  BY DEF PinPolicy
<1>2. ValidPolicy(policy) /\ PolicyType BY DEF TypeInv, TypeOK, EnvironmentType, PolicyType
<1>3. ASSUME NEW req \in policy.checks
      PROVE  ValidRequirement(Pin(req)) /\ Scope(Pin(req)) = Scope(req)
  <2>1. PICK i : i \in LatestRun(req) BY <1>1 DEF MayPin
  <2>2. ValidRequirement(req) BY <1>2 DEF ValidPolicy
  <2> QED BY <2>1, <2>2, PinnedRequirement
<1>4. /\ checks # {} /\ \A req \in checks : ValidRequirement(req)
      /\ \A a, b \in checks : Scope(a) = Scope(b) => a = b
  BY <1>2, <1>3 DEF ValidPolicy
<1> HIDE DEF checks
<1>5. /\ DOMAIN policy' = PolicyField /\ policy'.checks = checks
      /\ \A f \in PolicyField \ {"checks"} : policy'[f] = policy[f]
  BY <1>1, <1>2 DEF ValidPolicy, PolicyField
<1>6. PolicyType'
  <2>1. /\ policy'.roles = policy.roles /\ policy'.approvalAge = policy.approvalAge
        /\ policy'.distinct = policy.distinct /\ policy'.forbidSelf = policy.forbidSelf
        /\ policy'.managed = policy.managed /\ policy'.delivery = policy.delivery
        /\ policy'.git = policy.git /\ policy'.hashedPdk = policy.hashedPdk
    BY <1>5 DEF PolicyField
  <2>2. ValidPolicy(policy') BY <1>2, <1>4, <1>5, <2>1 DEF ValidPolicy
  <2>3. \E p \in Policies : \A f \in PolicyField \ {"checks"} : policy'[f] = p[f]
    BY <1>2, <1>5 DEF PolicyType
  <2>4. ValidPolicy(policy)' = ValidPolicy(policy')
    BY DEF ValidPolicy, ValidRequirement, Scope
  <2> QED BY <2>2, <2>3, <2>4 DEF PolicyType
<1>7. EnvironmentType'
  BY <1>1, <1>6 DEF TypeInv, TypeOK, EnvironmentType
<1>8. /\ UNCHANGED resources /\ UNCHANGED <<runs, seen>> /\ UNCHANGED decisions
      /\ UNCHANGED <<candidates, outbound>> /\ UNCHANGED <<runs, waivers, revokedWaivers>>
  BY <1>1 DEF ledger, evidence, decisions
<1> QED BY <1>7, <1>8, Frame DEF TypeInv, TypeOK

(* Every step keeps the types. *)
LEMMA StepType == ASSUME TypeInv, [EngineStep]_vars PROVE TypeInv'
<1>1. CASE Operation
  BY <1>1, RegisterType, BeginType, FinishType, WaiverStepType, AttachType, DecisionStepType,
     OutboundStepType DEF Operation
<1>2. CASE Environment BY <1>2, EnvironmentStepType
<1>3. CASE UNCHANGED vars
  <2>1. /\ UNCHANGED resources /\ UNCHANGED <<runs, seen>> /\ UNCHANGED decisions
        /\ UNCHANGED <<candidates, outbound>> /\ UNCHANGED <<environment, objects>>
        /\ UNCHANGED <<runs, waivers, revokedWaivers>>
    BY <1>3 DEF vars, ledger, evidence, decisions
  <2> QED BY <2>1, Frame DEF TypeInv, TypeOK
<1> QED BY <1>1, <1>2, <1>3, PinPolicyType DEF EngineStep, Next

(* The replayed ledger, the environment and the history always have the    *)
(* shapes state_from gives them.                                           *)
THEOREM TypeCorrect == Spec \/ PlanSpec => []TypeOK
<1>1. Init => TypeInv BY InitTypeInv
<1>2. TypeInv /\ [EngineStep]_vars => TypeInv' BY StepType
<1>3. TypeInv => TypeOK BY DEF TypeInv
<1> QED BY <1>1, <1>2, <1>3, Behaviours, PTL

-----------------------------------------------------------------------------
(* History. *)

(* Which operations write which part of the ledger: only begin and finish   *)
(* the runs, only candidate the candidates, and so on.                     *)
LEMMA Writers ==
    ASSUME [EngineStep]_vars
    PROVE  /\ \/ UNCHANGED <<runs, seen>>
              \/ \E kind \in DOMAIN CheckInput, tool \in Tool, corner \in Corner :
                    \E inputs \in CheckInput[kind] : Begin(kind, inputs, tool, corner)
              \/ \E i \in DOMAIN runs, o \in Outcome, managed \in Capture : Finish(i, o, managed)
           /\ \/ UNCHANGED candidates
              \/ \E n \in CandidateName, by \in Principal, layouts \in SUBSET Layout :
                    CreateCandidate(n, by, layouts)
           /\ \/ UNCHANGED approvals
              \/ \E n \in DOMAIN candidates, role \in Role, by \in Principal :
                    Approve(n, role, by)
           /\ \/ UNCHANGED releases
              \/ \E n \in DOMAIN candidates, by \in Principal : Seal(n, by)
           /\ \/ UNCHANGED withdrawals
              \/ \E n \in DOMAIN releases, by \in Principal : Withdraw(n, by)
           /\ \/ UNCHANGED deliveries
              \/ \E d \in DeliveryId, n \in DOMAIN candidates,
                    layouts \in SUBSET Layout \ {{}} :
                    \E recipient \in Recipient, by \in Principal :
                        SealDelivery(d, n, layouts, recipient, by)
           /\ \/ UNCHANGED deliveryReceipts
              \/ \E d \in DOMAIN deliveries : RecordReceipt(d)
           /\ waivers \subseteq waivers' /\ revokedWaivers \subseteq revokedWaivers'
           /\ revokedApprovals \subseteq revokedApprovals'
<1>1. CASE Environment
  <2>1. UNCHANGED <<ledger, seen>>
    BY <1>1 DEF Environment, EditWorkspace, DamageObject, EditPolicy, RevokeKey, Tick
  <2> QED BY <2>1 DEF ledger, evidence, decisions, outbound
<1>2. CASE UNCHANGED vars
  BY <1>2 DEF vars, ledger, evidence, decisions, outbound
<1>4. CASE PinPolicy
  <2>1. UNCHANGED <<ledger, seen>> BY <1>4 DEF PinPolicy
  <2> QED BY <2>1 DEF ledger, evidence, decisions, outbound
<1>3. CASE Operation
  <2> USE DEF evidence, decisions, outbound
  <2>1. ASSUME NEW r \in Resource, NEW sha \in Content, NEW deps \in DepChoice[r],
               Register(r, deps, sha)
        PROVE  UNCHANGED <<runs, seen, waivers, revokedWaivers, decisions, outbound>>
    BY <2>1 DEF Register
  <2>2. ASSUME NEW kind, NEW tool, NEW corner, NEW inputs, Begin(kind, inputs, tool, corner)
        PROVE  UNCHANGED <<waivers, revokedWaivers, decisions, outbound>>
    BY <2>2 DEF Begin
  <2>3. ASSUME NEW i, NEW o, NEW managed, Finish(i, o, managed)
        PROVE  UNCHANGED <<waivers, revokedWaivers, decisions, outbound>>
    BY <2>3 DEF Finish
  <2>4. ASSUME NEW i, NEW v, NEW owner, NEW by, NEW expires, NEW files,
               Waive(i, v, owner, by, expires, files)
        PROVE  /\ waivers \subseteq waivers'
               /\ UNCHANGED <<runs, seen, revokedWaivers, decisions, outbound>>
    BY <2>4 DEF Waive
  <2>5. ASSUME NEW w, NEW by, RevokeWaiver(w, by)
        PROVE  /\ revokedWaivers \subseteq revokedWaivers'
               /\ UNCHANGED <<runs, seen, waivers, decisions, outbound>>
    BY <2>5 DEF RevokeWaiver
  <2>6. ASSUME NEW n, NEW by, NEW layouts, CreateCandidate(n, by, layouts)
        PROVE  UNCHANGED <<evidence, seen, approvals, revokedApprovals, outbound>>
    BY <2>6 DEF CreateCandidate
  <2>7. ASSUME NEW n, NEW role, NEW by, Approve(n, role, by)
        PROVE  UNCHANGED <<evidence, seen, candidates, revokedApprovals, outbound>>
    BY <2>7 DEF Approve
  <2>8. ASSUME NEW a, NEW by, RevokeApproval(a, by)
        PROVE  /\ revokedApprovals \subseteq revokedApprovals'
               /\ UNCHANGED <<evidence, seen, candidates, approvals, outbound>>
    BY <2>8 DEF RevokeApproval
  <2>9. ASSUME NEW n, NEW by, Seal(n, by)
        PROVE  UNCHANGED <<evidence, seen, decisions, withdrawals, deliveries, deliveryReceipts>>
    BY <2>9 DEF Seal
  <2>10. ASSUME NEW n, NEW by, Withdraw(n, by)
         PROVE  UNCHANGED <<evidence, seen, decisions, releases, deliveries, deliveryReceipts>>
    BY <2>10 DEF Withdraw
  <2>11. ASSUME NEW n, Receipt(n)
         PROVE  UNCHANGED <<evidence, seen, decisions, releases, withdrawals, deliveries,
                            deliveryReceipts>>
    BY <2>11 DEF Receipt
  <2>12. ASSUME NEW d, NEW n, NEW layouts, NEW recipient, NEW by,
                SealDelivery(d, n, layouts, recipient, by)
         PROVE  UNCHANGED <<evidence, seen, decisions, releases, withdrawals, deliveryReceipts>>
    BY <2>12 DEF SealDelivery
  <2>13. ASSUME NEW d, RecordReceipt(d)
         PROVE  UNCHANGED <<evidence, seen, decisions, releases, withdrawals, deliveries>>
    BY <2>13 DEF RecordReceipt
  <2>14. CASE \E r \in Resource, sha \in Content : \E deps \in DepChoice[r] :
                 Register(r, deps, sha)
    BY <2>1, <2>14
  <2>15. CASE \/ \E kind \in DOMAIN CheckInput, tool \in Tool, corner \in Corner :
                    \E inputs \in CheckInput[kind] : Begin(kind, inputs, tool, corner)
              \/ \E i \in DOMAIN runs, o \in Outcome, managed \in Capture : Finish(i, o, managed)
    <3>1. UNCHANGED <<waivers, revokedWaivers, decisions, outbound>> BY <2>2, <2>3, <2>15
    <3> QED BY <2>15, <3>1
  <2>16. CASE \/ \E i \in DOMAIN runs, v \in Violation, owner, by \in Principal :
                    \E expires \in 1..(MaxClock + 1), attachments \in Attachments :
                       Waive(i, v, owner, by, expires, attachments)
              \/ \E w \in waivers, by \in Principal : RevokeWaiver(w, by)
    <3>1. /\ waivers \subseteq waivers' /\ revokedWaivers \subseteq revokedWaivers'
          /\ UNCHANGED <<runs, seen, decisions, outbound>>
      BY <2>4, <2>5, <2>16
    <3> QED BY <3>1
  <2>17. CASE \E n \in CandidateName, by \in Principal, layouts \in SUBSET Layout :
                 CreateCandidate(n, by, layouts)
    <3>1. UNCHANGED <<evidence, seen, approvals, revokedApprovals, outbound>>
      BY <2>6, <2>17
    <3> QED BY <2>17, <3>1
  <2>18. CASE \E n \in DOMAIN candidates, role \in Role, by \in Principal : Approve(n, role, by)
    <3>1. UNCHANGED <<evidence, seen, candidates, revokedApprovals, outbound>>
      BY <2>7, <2>18
    <3> QED BY <2>18, <3>1
  <2>19. CASE \E a \in approvals, by \in Principal : RevokeApproval(a, by)
    <3>1. /\ revokedApprovals \subseteq revokedApprovals'
          /\ UNCHANGED <<evidence, seen, candidates, approvals, outbound>>
      BY <2>8, <2>19
    <3> QED BY <3>1
  <2>20. CASE \E n \in DOMAIN candidates, by \in Principal : Seal(n, by)
    <3>1. UNCHANGED <<evidence, seen, decisions, withdrawals, deliveries, deliveryReceipts>>
      BY <2>9, <2>20
    <3> QED BY <2>20, <3>1
  <2>21. CASE \E n \in DOMAIN releases, by \in Principal : Withdraw(n, by)
    <3>1. UNCHANGED <<evidence, seen, decisions, releases, deliveries, deliveryReceipts>>
      BY <2>10, <2>21
    <3> QED BY <2>21, <3>1
  <2>22. CASE \E n \in DOMAIN releases : Receipt(n)
    <3>1. UNCHANGED <<evidence, seen, decisions, releases, withdrawals, deliveries,
                      deliveryReceipts>>
      BY <2>11, <2>22
    <3> QED BY <3>1
  <2>23. CASE \E d \in DeliveryId, n \in DOMAIN candidates, layouts \in SUBSET Layout \ {{}} :
                 \E recipient \in Recipient, by \in Principal :
                     SealDelivery(d, n, layouts, recipient, by)
    <3>1. UNCHANGED <<evidence, seen, decisions, releases, withdrawals, deliveryReceipts>>
      BY <2>12, <2>23
    <3> QED BY <2>23, <3>1
  <2>24. CASE \E d \in DOMAIN deliveries : RecordReceipt(d)
    <3>1. UNCHANGED <<evidence, seen, decisions, releases, withdrawals, deliveries>>
      BY <2>13, <2>24
    <3> QED BY <2>24, <3>1
  <2>25. CASE \E o \in UNION Attachments : Attach(o) BY <2>25 DEF Attach, ledger
  <2> QED BY <1>3, <2>14, <2>15, <2>16, <2>17, <2>18, <2>19, <2>20, <2>21, <2>22, <2>23,
             <2>24, <2>25 DEF Operation
<1> QED BY <1>1, <1>2, <1>3, <1>4 DEF EngineStep, Next

(* A run is appended or completed once; it is not touched otherwise.       *)
LEMMA RunsKept ==
    ASSUME TypeInv, [EngineStep]_vars, NEW i \in DOMAIN runs
    PROVE  /\ i \in DOMAIN runs'
           /\ runs[i].done => runs'[i] = runs[i] /\ seen'[i] = seen[i]
           /\ runs'[i].snapshot = runs[i].snapshot
<1>1. CASE UNCHANGED <<runs, seen>> BY <1>1
<1>2. CASE \E kind \in DOMAIN CheckInput, tool \in Tool, corner \in Corner :
              \E inputs \in CheckInput[kind] : Begin(kind, inputs, tool, corner)
  <2>1. PICK run, x : runs' = Append(runs, run) /\ seen' = Append(seen, x)
    <3>1. PICK kind \in DOMAIN CheckInput, tool \in Tool, corner \in Corner :
                 \E inputs \in CheckInput[kind] : Begin(kind, inputs, tool, corner)
      BY <1>2
    <3>2. PICK inputs \in CheckInput[kind] : Begin(kind, inputs, tool, corner)
      BY <3>1
    <3>3. \E run : runs' = Append(runs, run)
      BY <3>2, Zenon DEF Begin
    <3>4. \E x : seen' = Append(seen, x)
      BY <3>2, Zenon DEF Begin
    <3> QED BY <3>3, <3>4
  <2>2. PICK S : runs \in Seq(S) BY DEF TypeInv, Numbered
  <2>3. PICK T : seen \in Seq(T) BY DEF TypeInv, Numbered
  <2>4. i \in DOMAIN seen BY DEF TypeInv, TypeOK, RunsType
  <2> QED BY <2>1, <2>2, <2>3, <2>4, Appended
<1>3. CASE \E j \in DOMAIN runs, o \in Outcome, managed \in Capture : Finish(j, o, managed)
  <2>1. PICK j \in DOMAIN runs, o \in Outcome, managed \in Capture : Finish(j, o, managed)
    BY <1>3
  <2>2. PICK run : runs' = [runs EXCEPT ![j] = run] /\ run.snapshot = runs[j].snapshot
    <3>1. PICK run : runs' = [runs EXCEPT ![j] = run] /\ Completes(run, j, o)
      BY <2>1, FinishedRun
    <3> QED BY <3>1 DEF Completes
  <2>3. PICK x : seen' = [seen EXCEPT ![j] = x] BY <2>1 DEF Finish
  <2>4. ~runs[j].done BY <2>1 DEF Finish, MayFinish
  <2>5. i \in DOMAIN seen BY DEF TypeInv, TypeOK, RunsType
  <2> QED BY <2>2, <2>3, <2>4, <2>5
<1> QED BY <1>1, <1>2, <1>3, Writers

(* No step rewrites history. *)
LEMMA StepHistory == ASSUME TypeInv, [EngineStep]_vars PROVE HistoryStep
<1>1. \A i \in DOMAIN runs : /\ i \in DOMAIN runs'
                             /\ runs[i].done => runs'[i] = runs[i]
                             /\ runs'[i].snapshot = runs[i].snapshot
  BY RunsKept
<1>2. \A n \in DOMAIN candidates : n \in DOMAIN candidates' /\ candidates'[n] = candidates[n]
  <2>1. ASSUME NEW n \in CandidateName, NEW by, NEW layouts, CreateCandidate(n, by, layouts)
        PROVE  \A m \in DOMAIN candidates :
                  m \in DOMAIN candidates' /\ candidates'[m] = candidates[m]
    BY <2>1 DEF CreateCandidate, MayName
  <2> QED BY <2>1, Writers
<1>3. \A n \in DOMAIN releases : n \in DOMAIN releases' /\ releases'[n] = releases[n]
  <2>1. ASSUME NEW n, NEW by, Seal(n, by)
        PROVE  \A m \in DOMAIN releases : m \in DOMAIN releases' /\ releases'[m] = releases[m]
    BY <2>1 DEF Seal
  <2> QED BY <2>1, Writers
<1>4. \A d \in DOMAIN deliveries : d \in DOMAIN deliveries' /\ deliveries'[d] = deliveries[d]
  <2>1. ASSUME NEW d, NEW n, NEW layouts, NEW recipient, NEW by,
               SealDelivery(d, n, layouts, recipient, by)
        PROVE  \A e \in DOMAIN deliveries :
                  e \in DOMAIN deliveries' /\ deliveries'[e] = deliveries[e]
    BY <2>1 DEF SealDelivery
  <2> QED BY <2>1, Writers
<1>5. approvals \subseteq approvals' BY Writers DEF Approve
<1>6. withdrawals \subseteq withdrawals' BY Writers DEF Withdraw
<1> QED BY <1>1, <1>2, <1>3, <1>4, <1>5, <1>6, Writers DEF HistoryStep

(* The ledger is history: completed runs, candidates, releases, deliveries *)
(* and signatures stay as they are.                                        *)
THEOREM HistoryKept == Spec \/ PlanSpec => HistoryImmutable
<1>1. Init => TypeInv BY InitTypeInv
<1>2. TypeInv /\ [EngineStep]_vars => TypeInv' BY StepType
<1>3. TypeInv /\ [EngineStep]_vars => HistoryStep BY StepHistory
<1>4. Spec \/ PlanSpec => [][HistoryStep]_vars BY <1>1, <1>2, <1>3, Behaviours, PTL
<1> QED BY <1>4 DEF HistoryImmutable

-----------------------------------------------------------------------------
(* Decisions. *)

(* Whoever approves, seals or delivers has a candidate of the ledger pass  *)
(* the gate in that very step; sealing and delivering also count the       *)
(* approvals.                                                              *)
LEMMA GateBehindDecision ==
    ASSUME [EngineStep]_vars
    PROVE  /\ \A c \in NewDecision : GateOpen(c) /\ \E n \in DOMAIN candidates : c = candidates[n]
           /\ \A c \in NewRelease \cup NewDelivery : GateReady(c)
<1>1. \A c \in NewRelease : GateReady(c) /\ \E n \in DOMAIN candidates : c = candidates[n]
  <2>1. ASSUME NEW n \in DOMAIN candidates, NEW by, Seal(n, by)
        PROVE  \A c \in NewRelease : GateReady(c) /\ c = candidates[n]
    BY <2>1 DEF Seal, NewRelease
  <2>2. UNCHANGED releases => NewRelease = {} BY DEF NewRelease
  <2> QED BY <2>1, <2>2, Writers
<1>2. \A c \in NewDelivery : GateReady(c) /\ \E n \in DOMAIN candidates : c = candidates[n]
  <2>1. ASSUME NEW d, NEW n \in DOMAIN candidates, NEW layouts, NEW recipient, NEW by,
               SealDelivery(d, n, layouts, recipient, by)
        PROVE  \A c \in NewDelivery : GateReady(c) /\ c = candidates[n]
    BY <2>1 DEF SealDelivery, NewDelivery
  <2>2. UNCHANGED deliveries => NewDelivery = {} BY DEF NewDelivery
  <2> QED BY <2>1, <2>2, Writers
<1>3. \A a \in approvals' \ approvals :
         /\ GateOpen(a.candidate)
         /\ \E n \in DOMAIN candidates : a.candidate = candidates[n]
  <2>1. ASSUME NEW n \in DOMAIN candidates, NEW role, NEW by, Approve(n, role, by)
        PROVE  \A a \in approvals' \ approvals :
                  GateOpen(a.candidate) /\ a.candidate = candidates[n]
    BY <2>1 DEF Approve
  <2> QED BY <2>1, Writers
<1> QED BY <1>1, <1>2, <1>3 DEF NewDecision, GateReady

(* No step decides on a withdrawn candidate. *)
LEMMA StepWithdrawn == ASSUME TypeInv, [EngineStep]_vars PROVE WithdrawnStep
<1> SUFFICES ASSUME NEW c \in withdrawals
             PROVE  /\ c \in withdrawals' /\ c \notin NewDecision
                    /\ \A d \in deliveryReceipts' \ deliveryReceipts : deliveries[d].candidate # c
  BY DEF WithdrawnStep
<1>1. c \in withdrawals' BY StepHistory DEF HistoryStep
<1>2. c \notin NewDecision BY GateBehindDecision DEF GateOpen
<1>3. \A d \in deliveryReceipts' \ deliveryReceipts : deliveries[d].candidate # c
  BY Writers DEF RecordReceipt
<1> QED BY <1>1, <1>2, <1>3

(* Withdrawal is for good: nothing is approved, sealed, delivered or       *)
(* acknowledged by its recipient after it.                                 *)
THEOREM WithdrawalFinal == Spec \/ PlanSpec => WithdrawnStaysDown
<1>1. Init => TypeInv BY InitTypeInv
<1>2. TypeInv /\ [EngineStep]_vars => TypeInv' BY StepType
<1>3. TypeInv /\ [EngineStep]_vars => WithdrawnStep BY StepWithdrawn
<1>4. Spec \/ PlanSpec => [][WithdrawnStep]_vars BY <1>1, <1>2, <1>3, Behaviours, PTL
<1> QED BY <1>4 DEF WithdrawnStaysDown

(* An assignment of reviewers stays one when more of them are available.   *)
LEMMA MoreOptions ==
    ASSUME NEW roles, NEW few, NEW many, few \subseteq many, NEW distinct,
           NEW f \in Assignments(roles, few, distinct)
    PROVE  f \in Assignments(roles, many, distinct)
BY DEF Assignments

(* The options policy.evaluate counts are endorsements of this candidate,  *)
(* by others than its author where the policy says so.                     *)
LEMMA OptionsEndorse ==
    ASSUME NEW c, NEW pol, NEW tr, NEW signed, NEW at
    PROVE  /\ Options(c, pol, tr, signed, at) \subseteq Endorsements(c, signed)
           /\ pol.forbidSelf => \A o \in Options(c, pol, tr, signed, at) : o[2] # c.by
BY DEF Options, Endorsements

(* No step releases or delivers without authority. *)
LEMMA StepAuthorised == ASSUME [EngineStep]_vars PROVE AuthorisedStep
<1> SUFFICES ASSUME NEW c \in NewRelease \cup NewDelivery
             PROVE  \E f \in Assignments(c.policy.roles,
                                         Endorsements(c, approvals \ revokedApprovals),
                                         c.policy.distinct) :
                       c.policy.forbidSelf => \A r \in c.policy.roles : f[r] # c.by
  BY DEF AuthorisedStep
<1> DEFINE options == Options(c, policy, trust, ActiveApprovals, clock)
<1>1. policy = c.policy /\ Assignments(policy.roles, options, policy.distinct) # {}
  BY GateBehindDecision DEF GateReady, Ready, EvidenceReady, Assignable
<1>2. PICK f : f \in Assignments(c.policy.roles, options, c.policy.distinct) BY <1>1
<1>3. options \subseteq Endorsements(c, approvals \ revokedApprovals)
  BY OptionsEndorse DEF ActiveApprovals
<1>4. c.policy.forbidSelf => \A o \in options : o[2] # c.by BY <1>1, OptionsEndorse
<1>5. \A r \in c.policy.roles : <<r, f[r]>> \in options
  BY <1>2 DEF Assignments
<1>6. c.policy.forbidSelf => \A r \in c.policy.roles : f[r] # c.by
  <2> HIDE DEF options
  <2> SUFFICES ASSUME c.policy.forbidSelf, NEW r \in c.policy.roles PROVE f[r] # c.by OBVIOUS
  <2>1. <<r, f[r]>>[2] # c.by BY <1>4, <1>5
  <2> QED BY <2>1
<1>7. f \in Assignments(c.policy.roles, Endorsements(c, approvals \ revokedApprovals),
                        c.policy.distinct)
  <2> HIDE DEF options
  <2> QED BY <1>2, <1>3, MoreOptions
<1> QED BY <1>6, <1>7

(* Every release and delivery is authorised by live approvals of exactly   *)
(* its candidate from independent reviewers.                               *)
THEOREM DecisionsAuthorised == Spec \/ PlanSpec => Authorised
<1>1. [EngineStep]_vars => AuthorisedStep BY StepAuthorised
<1>2. Spec \/ PlanSpec => [][AuthorisedStep]_vars BY <1>1, Behaviours, PTL
<1> QED BY <1>2 DEF Authorised
=============================================================================
