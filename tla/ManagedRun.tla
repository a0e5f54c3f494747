----------------------------- MODULE ManagedRun -----------------------------
(***************************************************************************)
(* Engine.run: a runner starts a registered tool in a process session of   *)
(* its own, waits for it with a timeout, and completes the run with what   *)
(* lies at the report path, or with the captured standard output.          *)
(*                                                                         *)
(* Runners, tools, children a tool leaves behind and people who tidy up    *)
(* the workspace share the report paths and the installed executables.     *)
(* The two ledger steps, begin and finish, are those of module Engine;     *)
(* here they only open and complete the run.                               *)
(*                                                                         *)
(* A report is named by the run whose tool wrote it; Truncated is a file a *)
(* tool has opened and not filled.                                         *)
(***************************************************************************)
EXTENDS Naturals

CONSTANTS
    Run,        \* invocations of Engine.run
    Path,
    PathOf,     \* run -> its report path
    FormatOf,   \* run -> the format of its report
    FromStdout, \* the runs with report_source "stdout"
    PinnedExe,  \* the runs whose tool has an executable_sha256
    NoFile, Truncated, NoCode,
    MaxVersions, MaxTidies \* bounds: replacements of the executable, removals of reports

(* The formats whose reports name the run they belong to. *)
RunBound == {"json", "klayout-drc", "klayout-lvs", "opensta"}

ASSUME RunAssumption ==
    /\ PathOf \in [Run -> Path] /\ FromStdout \subseteq Run /\ PinnedExe \subseteq Run
    /\ FormatOf \in [Run -> RunBound \cup {"junit", "klayout-rdb", "csv", "yosys-sat"}]
    /\ {NoFile, Truncated} \cap Run = {} /\ NoCode \notin 0..255
    /\ MaxVersions \in Nat /\ MaxTidies \in Nat

VARIABLES
    runner,   \* new; checked; begun; hashed; waiting; ended; done; raised, dead
    tool,     \* none; running; lingering: it exited and left a child; gone; killed
    opened,   \* the tools that hold their report open
    written,  \* path -> NoFile, Truncated or the run whose tool wrote the file
    stdout,   \* run -> Truncated or the run: its log, opened "xb" under its ID
    code,     \* run -> the exit code the runner has so far
    exe,      \* the version of the installed executable; the pinned one is 0
    launched, \* run -> the version that was started
    completed, \* run -> its completion in the ledger
    tidies

runVars == <<runner, tool, opened, written, stdout, code, exe, launched, completed, tidies>>

Open == [mode |-> "open", code |-> NoCode, report |-> NoFile, status |-> "unknown", intact |-> TRUE]

RunInit ==
    /\ runner = [r \in Run |-> "new"]
    /\ tool = [r \in Run |-> "none"]
    /\ opened = {}
    /\ written = [p \in Path |-> NoFile]
    /\ stdout = [r \in Run |-> Truncated]
    /\ code = [r \in Run |-> NoCode]
    /\ exe = 0
    /\ launched = [r \in Run |-> NoCode]
    /\ completed = [r \in Run |-> Open]
    /\ tidies = 0

Move(r, from, to) == runner[r] = from /\ runner' = [runner EXCEPT ![r] = to]

-----------------------------------------------------------------------------
(* The runner. *)

(* "Output report already exists; refusing stale-report reuse". *)
CheckPath(r) ==
    /\ Move(r, "new", IF written[PathOf[r]] = NoFile THEN "checked" ELSE "raised")
    /\ UNCHANGED <<tool, opened, written, stdout, code, exe, launched, completed, tidies>>

(* begin waits for the ledger's write lock; the run is in the ledger now. *)
Begin(r) ==
    /\ Move(r, "checked", "begun")
    /\ UNCHANGED <<tool, opened, written, stdout, code, exe, launched, completed, tidies>>

(* The launcher is hashed against its pin; a mismatch is exit code 127,    *)
(* and nothing is started.                                                 *)
HashLauncher(r) ==
    /\ IF r \in PinnedExe /\ exe # 0
         THEN Move(r, "begun", "ended") /\ code' = [code EXCEPT ![r] = 127]
         ELSE Move(r, "begun", "hashed") /\ UNCHANGED code
    /\ UNCHANGED <<tool, opened, written, stdout, exe, launched, completed, tidies>>

(* Popen: the executable is whatever its path holds now. *)
Start(r) ==
    /\ Move(r, "hashed", "waiting")
    /\ tool' = [tool EXCEPT ![r] = "running"]
    /\ launched' = [launched EXCEPT ![r] = exe]
    /\ UNCHANGED <<opened, written, stdout, code, exe, completed, tidies>>

(* Popen fails: exit code 127. *)
StartFails(r) ==
    /\ Move(r, "hashed", "ended")
    /\ code' = [code EXCEPT ![r] = 127]
    /\ UNCHANGED <<tool, opened, written, stdout, exe, launched, completed, tidies>>

(* wait returns the tool's own exit code. *)
Reaped(r) ==
    /\ code[r] # NoCode
    /\ Move(r, "waiting", "ended")
    /\ UNCHANGED <<tool, opened, written, stdout, code, exe, launched, completed, tidies>>

(* Fault: wait has no timeout. *)
WaitForever(r) == FALSE

(* The timeout passes first: the whole process group is killed. *)
Timeout(r) ==
    /\ code[r] = NoCode
    /\ Move(r, "waiting", "ended")
    /\ tool' = [tool EXCEPT ![r] = "killed"]
    /\ opened' = opened \ {r}
    /\ code' = [code EXCEPT ![r] = 124]
    /\ UNCHANGED <<written, stdout, exe, launched, completed, tidies>>

(* What finish would capture; a directory or nothing is no report. *)
Capturable(r) == IF r \in FromStdout THEN stdout[r] ELSE written[PathOf[r]]

(* Fault: the run named in the report is not compared. *)
StatusUnbound(r, content) == IF content \in Run THEN "pass" ELSE "unknown"

(* parse: a run-bound report must name this run; another format is taken   *)
(* at its word; a file without content is no report in any format.         *)
StatusOf(r, content) ==
    IF content \in Run /\ (FormatOf[r] \in RunBound => content = r) THEN "pass" ELSE "unknown"

(* The executable is hashed again, 126 if it is not the pinned one any     *)
(* more; the report is captured and finish completes the run.              *)
Intact(r) == r \in PinnedExe => exe = 0

Finish(r) ==
    /\ completed[r] = Open
    /\ Move(r, "ended", "done")
    /\ completed' = [completed EXCEPT ![r] =
          [mode |-> "managed", code |-> IF Intact(r) THEN code[r] ELSE 126,
           report |-> Capturable(r), status |-> StatusOf(r, Capturable(r)), intact |-> Intact(r)]]
    /\ UNCHANGED <<tool, opened, written, stdout, code, exe, launched, tidies>>

(* finish raises: somebody completed the run meanwhile, or the report      *)
(* changed or vanished while it was copied.  The run is left as it is.     *)
FinishRaises(r) ==
    /\ \/ completed[r] # Open
       \/ /\ r \notin FromStdout
          /\ \/ \E q \in opened : PathOf[q] = PathOf[r]
             \/ tidies > 0 /\ written[PathOf[r]] = NoFile
    /\ Move(r, "ended", "raised")
    /\ UNCHANGED <<tool, opened, written, stdout, code, exe, launched, completed, tidies>>

(* The coordinator is killed; its tool, in a session of its own, is not. *)
Killed(r) ==
    /\ runner[r] \in {"begun", "hashed", "waiting", "ended"}
    /\ runner' = [runner EXCEPT ![r] = "dead"]
    /\ UNCHANGED <<tool, opened, written, stdout, code, exe, launched, completed, tidies>>

-----------------------------------------------------------------------------
(* The tools, which owe nothing to anybody. *)

Alive(r) == tool[r] \in {"running", "lingering"}

OpenReport(r) ==
    /\ Alive(r) /\ r \notin opened /\ r \notin FromStdout
    /\ opened' = opened \cup {r}
    /\ written' = [written EXCEPT ![PathOf[r]] = Truncated]
    /\ UNCHANGED <<runner, tool, stdout, code, exe, launched, completed, tidies>>

WriteReport(r) ==
    /\ Alive(r) /\ r \in opened
    /\ opened' = opened \ {r}
    /\ written' = [written EXCEPT ![PathOf[r]] = r]
    /\ UNCHANGED <<runner, tool, stdout, code, exe, launched, completed, tidies>>

WriteStdout(r) ==
    /\ Alive(r) /\ r \in FromStdout
    /\ stdout' = [stdout EXCEPT ![r] = r]
    /\ UNCHANGED <<runner, tool, opened, written, code, exe, launched, completed, tidies>>

(* The tool exits, with or without leaving a child that may still write. *)
Exit(r) ==
    /\ tool[r] = "running"
    /\ \E c \in {0, 1} : code' = [code EXCEPT ![r] = c]
    /\ \E after \in {"lingering", "gone"} :
          /\ tool' = [tool EXCEPT ![r] = after]
          /\ opened' = IF after = "gone" THEN opened \ {r} ELSE opened
    /\ UNCHANGED <<runner, written, stdout, exe, launched, completed, tidies>>

ToolEnds(r) ==
    /\ tool[r] = "lingering"
    /\ tool' = [tool EXCEPT ![r] = "gone"]
    /\ opened' = opened \ {r}
    /\ UNCHANGED <<runner, written, stdout, code, exe, launched, completed, tidies>>

(* People. *)

(* The tool is upgraded in place; an old version does not come back. *)
Upgrade ==
    /\ exe < MaxVersions
    /\ exe' = exe + 1
    /\ UNCHANGED <<runner, tool, opened, written, stdout, code, launched, completed, tidies>>

(* An old report is moved out of the way. *)
Tidy(p) ==
    /\ written[p] # NoFile /\ tidies < MaxTidies
    /\ written' = [written EXCEPT ![p] = NoFile]
    /\ tidies' = tidies + 1
    /\ UNCHANGED <<runner, tool, opened, stdout, code, exe, launched, completed>>

(* The finish command, for a run somebody thinks was abandoned. *)
Import(r) ==
    /\ runner[r] \notin {"new", "checked", "raised"} /\ completed[r] = Open
    /\ completed' = [completed EXCEPT ![r] =
          [mode |-> "imported", code |-> 0, report |-> written[PathOf[r]],
           status |-> StatusOf(r, written[PathOf[r]]), intact |-> TRUE]]
    /\ UNCHANGED <<runner, tool, opened, written, stdout, code, exe, launched, tidies>>

-----------------------------------------------------------------------------

RunnerStep(r) ==
    \/ CheckPath(r) \/ Begin(r) \/ HashLauncher(r) \/ Start(r) \/ StartFails(r)
    \/ Reaped(r) \/ Timeout(r) \/ Finish(r) \/ FinishRaises(r)

(* One run, its runner, its tool and who imports it. *)
RunStep(r) ==
    \/ RunnerStep(r) \/ Killed(r)
    \/ OpenReport(r) \/ WriteReport(r) \/ WriteStdout(r) \/ Exit(r) \/ ToolEnds(r)
    \/ Import(r)

RunNext ==
    \/ \E r \in Run : RunStep(r)
    \/ Upgrade
    \/ \E p \in Path : Tidy(p)

(* Nobody waits on a tool's good will: only runners are fair. *)
RunSpec == RunInit /\ [][RunNext]_runVars /\ \A r \in Run : WF_runVars(RunnerStep(r))

-----------------------------------------------------------------------------

(* What evaluate accepts as a managed success. *)
Passes(r) ==
    /\ completed[r].mode = "managed" /\ completed[r].code = 0
    /\ completed[r].status = "pass" /\ completed[r].intact

(* The reports that can be told from those of other runs: they name their  *)
(* run, or they are the log the runner opened itself.                      *)
Attributable(r) == FormatOf[r] \in RunBound \/ r \in FromStdout

(* A managed run that passes carries the report of its own tool, not one   *)
(* that another run left at the path, whichever runners were killed and    *)
(* whatever their tools or children wrote late (engine.py:194-202,236).    *)
PassingReportIsOwn ==
    \A r \in Run : Passes(r) /\ Attributable(r) => completed[r].report = r

(* A run that passes was ended by its tool: killing the process group is    *)
(* final, also when the complete report had been written already and when  *)
(* the tool exits just as the timeout passes (engine.py:261-269).          *)
KilledNeverPasses == \A r \in Run : Passes(r) => tool[r] \in {"lingering", "gone"}

(* A passing run of a pinned tool executed the pinned bytes, although the  *)
(* launcher is hashed before it is started and the file may be replaced in *)
(* between (engine.py:248-280).                                            *)
PinnedExecutableRan == \A r \in PinnedExe : Passes(r) => launched[r] = 0

(* A pass is genuine: the run's own report, of a tool that came to its end, *)
(* made by the pinned bytes.                                               *)
PassIsGenuine == PassingReportIsOwn /\ KilledNeverPasses /\ PinnedExecutableRan

(* A run whose tool was started ends: completed, refused or its runner     *)
(* killed; a tool that never exits cannot hold it (engine.py:261-269).     *)
RunnerEnds ==
    \A r \in Run : runner[r] = "waiting" ~> runner[r] \in {"done", "raised", "dead"}
=============================================================================
