------------------------------ MODULE MCIntake ------------------------------
(***************************************************************************)
(* How bytes and results come in, one at a time: managed runs that share a *)
(* report path; a managed run read from standard output and an executable  *)
(* that is upgraded; captures of a directory and a worktree; the reports   *)
(* of tools that die and start again.  They share no variable (the first   *)
(* two are different runs of one module), so a behaviour is of one of      *)
(* them, `part', and leaves the others where they start.                   *)
(***************************************************************************)
EXTENDS ManagedRun, TreeCapture, Transcripts, TLC

VARIABLE part

vars == <<part, runVars, captureVars, reportVars>>

(* Runs r1 and r2 share a report path that is tidied; r3 shares it with r4, *)
(* which is read from standard output, and whose tool is pinned.           *)
Shared   == {"r1", "r2"}
Upgraded == {"r3", "r4"}

MCPathOf   == [r \in Run |-> "drc.json"]
MCFormatOf == [r \in Run |-> IF r = "r4" THEN "klayout-drc" ELSE "json"]

SideBySide == Formats \ {"opensta"}

ASSUME ReportsAssumed == TranscriptAssumption

Init ==
    /\ part \in {"shared", "upgraded", "trees", "reports"}
    /\ RunInit /\ CaptureInit
    /\ ReportInit /\ (part # "reports" => format = "junit")

Running(where, A) == part = where /\ A /\ UNCHANGED <<part, captureVars, reportVars>>
SharedStep   == (\E r \in Shared : RunStep(r)) \/ (\E p \in Path : Tidy(p))
UpgradedStep == (\E r \in Upgraded : RunStep(r)) \/ Upgrade
TreesStep    == part = "trees" /\ CaptureNext /\ UNCHANGED <<part, runVars, reportVars>>
ReportsStep  == part = "reports" /\ ReportNext /\ UNCHANGED <<part, runVars, captureVars>>

Next ==
    \/ Running("shared", SharedStep) \/ Running("upgraded", UpgradedStep)
    \/ TreesStep \/ ReportsStep

(* Only the runners are fair, as in ManagedRun.  *)
Spec ==
    /\ Init /\ [][Next]_vars
    /\ \A r \in Upgraded : WF_vars(Running("upgraded", RunnerStep(r)))

-----------------------------------------------------------------------------
(* Checked too: PassIsGenuine of ManagedRun, ObservedAtOnce of TreeCapture, *)
(* VerdictIsComplete of Transcripts.                                       *)

(* ManagedRun: a tool that never exits does not hold its runner            *)
(* (engine.py:261-269).                                                    *)
ManagedRunsEnd == part = "upgraded" => RunnerEnds
=============================================================================
