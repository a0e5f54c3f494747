---------------------------- MODULE IntakeProofs ----------------------------
(***************************************************************************)
(* What comes in is genuine, for any runs, report paths and formats, for   *)
(* trees of any size and for any processes that write a report: managed    *)
(* runs, captures and report adapters, which share no variable.            *)
(***************************************************************************)
EXTENDS ManagedRun, TreeCapture, Transcripts, InductionLemmas, TLAPS

-----------------------------------------------------------------------------
(* Managed runs. *)

Completions ==
    [mode : {"open", "managed", "imported"}, code : {0, 1, 124, 126, 127, NoCode},
     report : Run \cup {NoFile, Truncated}, status : {"pass", "unknown"}, intact : BOOLEAN]

RunTypes ==
    /\ runner \in [Run -> {"new", "checked", "begun", "hashed", "waiting", "ended", "done",
                           "raised", "dead"}]
    /\ tool \in [Run -> {"none", "running", "lingering", "gone", "killed"}]
    /\ written \in [Path -> Run \cup {NoFile, Truncated}]
    /\ stdout \in [Run -> Run \cup {Truncated}]
    /\ code \in [Run -> {0, 1, 124, 127, NoCode}]
    /\ exe \in Nat /\ tidies \in Nat
    /\ launched \in [Run -> Nat \cup {NoCode}]
    /\ completed \in [Run -> Completions]

(* A log holds what its own tool printed. *)
LogInv(r) == stdout[r] \in {Truncated, r}

(* A tool that has an exit code of its own was started and came to its end; *)
(* one that was started ran a version that was installed by then.          *)
ToolInv(r) ==
    /\ code[r] \in {0, 1} => tool[r] \in {"lingering", "gone"}
    /\ tool[r] # "none" => launched[r] \in 0..exe
    /\ runner[r] \in {"new", "checked", "begun", "hashed"} => tool[r] = "none"
    /\ runner[r] = "waiting" => tool[r] # "none"

(* Only its runner completes a run as managed, and then it is through.      *)
CompletionInv(r) == completed[r].mode = "managed" => runner[r] = "done"

(* What a managed completion that passes says of its run, by its parts.     *)
PassInv(r) ==
    /\ Attributable(r) => completed[r].report = r
    /\ tool[r] \in {"lingering", "gone"}
    /\ r \in PinnedExe => launched[r] = 0

RunInv ==
    /\ RunTypes
    /\ \A r \in Run : LogInv(r) /\ ToolInv(r) /\ CompletionInv(r) /\ (Passes(r) => PassInv(r))

(* Every step keeps the types. *)
LEMMA RunTypesStep == ASSUME RunTypes, [RunNext]_runVars PROVE RunTypes'
<1> USE RunAssumption DEF RunTypes
<1>1. ASSUME NEW r \in Run, RunStep(r) PROVE RunTypes'
  <2>1. CASE CheckPath(r) BY <2>1 DEF CheckPath, Move
  <2>2. CASE Begin(r) BY <2>2 DEF Begin, Move
  <2>3. CASE HashLauncher(r) BY <2>3 DEF HashLauncher, Move
  <2>4. CASE Start(r) BY <2>4 DEF Start, Move
  <2>5. CASE StartFails(r) BY <2>5 DEF StartFails, Move
  <2>6. CASE Reaped(r) BY <2>6 DEF Reaped, Move
  <2>7. CASE Timeout(r) BY <2>7 DEF Timeout, Move
  <2>8. CASE Finish(r)
    <3>1. /\ Capturable(r) \in Run \cup {NoFile, Truncated}
          /\ StatusOf(r, Capturable(r)) \in {"pass", "unknown"} /\ Intact(r) \in BOOLEAN
      BY DEF Capturable, StatusOf, Intact
    <3>2. [mode |-> "managed", code |-> IF Intact(r) THEN code[r] ELSE 126,
           report |-> Capturable(r), status |-> StatusOf(r, Capturable(r)),
           intact |-> Intact(r)] \in Completions
      BY <3>1 DEF Completions
    <3> QED BY <2>8, <3>2 DEF Finish, Move
  <2>9. CASE FinishRaises(r) BY <2>9 DEF FinishRaises, Move
  <2>10. CASE Killed(r) BY <2>10 DEF Killed
  <2>11. CASE OpenReport(r) BY <2>11 DEF OpenReport
  <2>12. CASE WriteReport(r) BY <2>12 DEF WriteReport
  <2>13. CASE WriteStdout(r) BY <2>13 DEF WriteStdout
  <2>14. CASE Exit(r) BY <2>14 DEF Exit
  <2>15. CASE ToolEnds(r) BY <2>15 DEF ToolEnds
  <2>16. CASE Import(r)
    <3>1. [mode |-> "imported", code |-> 0, report |-> written[PathOf[r]],
           status |-> StatusOf(r, written[PathOf[r]]), intact |-> TRUE] \in Completions
      BY DEF Completions, StatusOf
    <3> QED BY <2>16, <3>1 DEF Import
  <2> QED BY <1>1, <2>1, <2>2, <2>3, <2>4, <2>5, <2>6, <2>7, <2>8, <2>9, <2>10, <2>11, <2>12,
             <2>13, <2>14, <2>15, <2>16 DEF RunStep, RunnerStep
<1>2. CASE Upgrade BY <1>2 DEF Upgrade
<1>3. ASSUME NEW p \in Path, Tidy(p) PROVE RunTypes' BY <1>3 DEF Tidy
<1>4. CASE UNCHANGED runVars BY <1>4 DEF runVars
<1> QED BY <1>1, <1>2, <1>3, <1>4 DEF RunNext

(* A step of another run leaves a run's own records alone. *)
LEMMA OthersKept ==
    ASSUME RunTypes, NEW r \in Run, NEW q \in Run, q # r, RunStep(q)
    PROVE  /\ runner'[r] = runner[r] /\ tool'[r] = tool[r] /\ stdout'[r] = stdout[r]
           /\ code'[r] = code[r] /\ launched'[r] = launched[r]
           /\ completed'[r] = completed[r] /\ exe' = exe
BY DEF RunTypes, RunStep, RunnerStep, CheckPath, Begin, HashLauncher, Start, StartFails, Reaped,
       Timeout, Finish, FinishRaises, Killed, OpenReport, WriteReport, WriteStdout, Exit, ToolEnds,
       Import, Move

(* What a run keeps by its own steps. *)
LEMMA OwnStep ==
    ASSUME RunTypes, NEW r \in Run, RunStep(r), LogInv(r), ToolInv(r), CompletionInv(r),
           Passes(r) => PassInv(r)
    PROVE  LogInv(r)' /\ ToolInv(r)' /\ CompletionInv(r)' /\ (Passes(r)' => PassInv(r)')
<1> USE RunAssumption DEF RunTypes, LogInv, ToolInv, CompletionInv, Passes, PassInv
<1>1. CASE CheckPath(r) BY <1>1 DEF CheckPath, Move
<1>2. CASE Begin(r) BY <1>2 DEF Begin, Move
<1>3. CASE HashLauncher(r) BY <1>3 DEF HashLauncher, Move
<1>4. CASE Start(r) BY <1>4 DEF Start, Move
<1>5. CASE StartFails(r) BY <1>5 DEF StartFails, Move
<1>6. CASE Reaped(r) BY <1>6 DEF Reaped, Move
<1>7. CASE Timeout(r) BY <1>7 DEF Timeout, Move
<1>8. CASE Finish(r)
  <2>1. /\ completed'[r] = [mode |-> "managed", code |-> IF Intact(r) THEN code[r] ELSE 126,
              report |-> Capturable(r), status |-> StatusOf(r, Capturable(r)),
              intact |-> Intact(r)]
        /\ runner'[r] = "done" /\ UNCHANGED <<tool, stdout, code, exe, launched>>
    BY <1>8 DEF Finish, Move
  <2>2. LogInv(r)' /\ ToolInv(r)' /\ CompletionInv(r)' BY <2>1
  <2>3. ASSUME Passes(r)' PROVE PassInv(r)'
    <3>1. Intact(r) /\ code[r] = 0 /\ StatusOf(r, Capturable(r)) = "pass" BY <2>1, <2>3
    <3>2. Capturable(r) \in Run /\ (FormatOf[r] \in RunBound => Capturable(r) = r)
      BY <3>1 DEF StatusOf
    <3>3. r \in FromStdout => Capturable(r) = r BY <3>2 DEF Capturable
    <3>4. r \in PinnedExe => launched[r] = 0 BY <3>1 DEF Intact
    <3> QED BY <2>1, <3>1, <3>2, <3>3, <3>4 DEF Attributable
  <2> QED BY <2>2, <2>3
<1>9. CASE FinishRaises(r) BY <1>9 DEF FinishRaises, Move
<1>10. CASE Killed(r) BY <1>10 DEF Killed
<1>11. CASE OpenReport(r) BY <1>11 DEF OpenReport
<1>12. CASE WriteReport(r) BY <1>12 DEF WriteReport
<1>13. CASE WriteStdout(r) BY <1>13 DEF WriteStdout
<1>14. CASE Exit(r) BY <1>14 DEF Exit
<1>15. CASE ToolEnds(r) BY <1>15 DEF ToolEnds
<1>16. CASE Import(r) BY <1>16 DEF Import
<1> QED BY <1>1, <1>2, <1>3, <1>4, <1>5, <1>6, <1>7, <1>8, <1>9, <1>10, <1>11, <1>12, <1>13,
           <1>14, <1>15, <1>16 DEF RunStep, RunnerStep

(* Every step of runners, tools and the people around them keeps the        *)
(* invariant.                                                               *)
LEMMA RunInvStep == ASSUME RunInv, [RunNext]_runVars PROVE RunInv'
<1>1. RunTypes' BY RunTypesStep DEF RunInv
<1>2. ASSUME NEW r \in Run
      PROVE  LogInv(r)' /\ ToolInv(r)' /\ CompletionInv(r)' /\ (Passes(r)' => PassInv(r)')
  <2> USE DEF RunInv
  <2>1. ASSUME NEW q \in Run, RunStep(q), q # r
        PROVE  LogInv(r)' /\ ToolInv(r)' /\ CompletionInv(r)' /\ (Passes(r)' => PassInv(r)')
    BY <2>1, OthersKept DEF LogInv, ToolInv, CompletionInv, Passes, PassInv, Attributable
  <2>2. CASE RunStep(r) BY <2>2, OwnStep
  <2>3. CASE Upgrade
    BY <2>3 DEF Upgrade, RunTypes, LogInv, ToolInv, CompletionInv, Passes, PassInv, Attributable
  <2>4. ASSUME NEW p \in Path, Tidy(p)
        PROVE  LogInv(r)' /\ ToolInv(r)' /\ CompletionInv(r)' /\ (Passes(r)' => PassInv(r)')
    BY <2>4 DEF Tidy, LogInv, ToolInv, CompletionInv, Passes, PassInv, Attributable
  <2>5. CASE UNCHANGED runVars
    BY <2>5 DEF runVars, LogInv, ToolInv, CompletionInv, Passes, PassInv, Attributable
  <2> QED BY <2>1, <2>2, <2>3, <2>4, <2>5 DEF RunNext
<1> QED BY <1>1, <1>2 DEF RunInv

(* A managed run that passes carries its own report, if it can be told from *)
(* others, of a tool that ended by itself and was the pinned one: for any   *)
(* runs, paths, formats, pins and bounds (engine.py:179-284).              *)
THEOREM PassesAreGenuine == RunSpec => []PassIsGenuine
<1>1. RunInit => RunInv
  BY RunAssumption DEF RunInit, RunInv, RunTypes, Completions, Open, LogInv, ToolInv,
     CompletionInv, Passes
<1>2. RunInv /\ [RunNext]_runVars => RunInv' BY RunInvStep
<1>3. RunInv => PassIsGenuine
  BY RunAssumption DEF RunInv, PassInv, PassIsGenuine, PassingReportIsOwn, KilledNeverPasses,
     PinnedExecutableRan
<1> QED BY <1>1, <1>2, <1>3, PTL DEF RunSpec

-----------------------------------------------------------------------------
(* Captures of directories. *)

Manifests(n) == UNION {[F -> 1..n] : F \in SUBSET File}

CaptureTypes ==
    /\ edits \in Nat
    /\ tree \in [File -> 0..edits]
    /\ repo \in [head : 0..edits, dirty : BOOLEAN]
    /\ listing \subseteq File
    /\ {observed, manifest, recorded} \subseteq Manifests(edits)

(* A file that is still there holds what was seen of it, or newer bytes.    *)
NotNewer(seen) == \A f \in DOMAIN seen : tree[f] = 0 \/ seen[f] <= tree[f]

(* The tree as it was when the pass listed it: its files are those hashed   *)
(* and those still to be, each no older than what was seen before the pass *)
(* and no newer than what the pass sees of it.                             *)
Separates(seen, t) ==
    /\ t \in Manifests(edits)
    /\ DOMAIN t = listing \cup DOMAIN observed
    /\ \A f \in DOMAIN t \cap DOMAIN seen : seen[f] <= t[f]
    /\ \A f \in DOMAIN observed : t[f] <= observed[f]
    /\ NotNewer(t)

(* The first pass is followed by the second, and what is registered by the  *)
(* pass of a drift check: the tree listed between them is in the window.   *)
PassesInv ==
    /\ phase = "pass2" => \E t \in window : Separates(manifest, t)
    /\ phase = "drift" => \E t \in window : Separates(recorded, t)

CaptureInv ==
    /\ CaptureTypes
    /\ Content(tree) \in window /\ repo \in repos
    /\ NotNewer(observed) /\ NotNewer(manifest) /\ NotNewer(recorded)
    /\ PassesInv
    /\ ObservedAtOnce

(* A manifest gives some of the files a version. *)
LEMMA ManifestIs ==
    ASSUME NEW n, NEW m
    PROVE  m \in Manifests(n) <=> DOMAIN m \subseteq File /\ m \in [DOMAIN m -> 1..n]
<1>1. ASSUME m \in Manifests(n) PROVE DOMAIN m \subseteq File /\ m \in [DOMAIN m -> 1..n]
  <2>1. PICK F \in SUBSET File : m \in [F -> 1..n] BY <1>1 DEF Manifests
  <2> QED BY <2>1
<1>2. ASSUME DOMAIN m \subseteq File, m \in [DOMAIN m -> 1..n] PROVE m \in Manifests(n)
  BY <1>2 DEF Manifests
<1> QED BY <1>1, <1>2

(* A manifest stays one when newer versions exist. *)
LEMMA ManifestsGrow ==
    ASSUME NEW n \in Nat, NEW m \in Manifests(n) PROVE m \in Manifests(n + 1)
<1>1. DOMAIN m \subseteq File /\ m \in [DOMAIN m -> 1..n] BY ManifestIs
<1>2. 1..n \subseteq 1..(n + 1) OBVIOUS
<1>3. m \in [DOMAIN m -> 1..(n + 1)] BY <1>1, <1>2
<1> QED BY <1>1, <1>3, ManifestIs

(* The tree at one instant, as a manifest. *)
LEMMA ContentIs ==
    ASSUME CaptureTypes
    PROVE  /\ Content(tree) \in Manifests(edits)
           /\ DOMAIN Content(tree) = Present(tree) /\ Present(tree) \subseteq File
           /\ \A f \in Present(tree) : Content(tree)[f] = tree[f] /\ tree[f] # 0
           /\ NotNewer(Content(tree))
<1>1. /\ DOMAIN Content(tree) = Present(tree) /\ Present(tree) \subseteq File
      /\ \A f \in Present(tree) : Content(tree)[f] = tree[f] /\ tree[f] # 0
  BY DEF Content, Present
<1>2. \A f \in Present(tree) : tree[f] \in 1..edits BY <1>1 DEF CaptureTypes
<1>3. Content(tree) \in [Present(tree) -> 1..edits] BY <1>2 DEF Content
<1>4. Content(tree) \in Manifests(edits) BY <1>1, <1>3, ManifestIs
<1>5. NotNewer(Content(tree)) BY <1>1, <1>2 DEF NotNewer
<1> QED BY <1>1, <1>4, <1>5

(* When a pass lists the tree, the tree itself separates what was seen.     *)
LEMMA ListingSeparates ==
    ASSUME CaptureTypes, NEW seen, NotNewer(seen), NEW to, List(to),
           UNCHANGED <<tree, edits>>
    PROVE  Separates(seen, Content(tree))'
<1>1. /\ DOMAIN observed' = {} /\ listing' = Present(tree)
  BY DEF List, NoFiles
<1>2. Content(tree)' = Content(tree) /\ NotNewer(Content(tree))' BY ContentIs
    DEF NotNewer, Content, Present
<1>3. \A f \in DOMAIN Content(tree) \cap DOMAIN seen : seen[f] <= Content(tree)[f]
  BY ContentIs DEF NotNewer
<1> QED BY <1>1, <1>2, <1>3, ContentIs DEF Separates

(* Once it has seen everything, and what it saw is what was seen before,   *)
(* the tree that separates the two is what was seen.                       *)
LEMMA SeparatedAlike ==
    ASSUME CaptureTypes, NEW seen, NEW t, Separates(seen, t), listing = {}, observed = seen
    PROVE  t = seen
<1>1. t \in [DOMAIN t -> 1..edits] /\ seen \in [DOMAIN seen -> 1..edits]
  BY ManifestIs DEF Separates, CaptureTypes
<1>2. DOMAIN t = DOMAIN seen BY DEF Separates
<1>3. ASSUME NEW f \in DOMAIN t PROVE t[f] = seen[f]
  <2>1. t[f] \in Nat /\ seen[f] \in Nat BY <1>1, <1>2 DEF CaptureTypes
  <2>2. seen[f] <= t[f] /\ t[f] <= seen[f] BY <1>2 DEF Separates
  <2> QED BY <2>1, <2>2
<1> QED BY <1>1, <1>2, <1>3

-----------------------------------------------------------------------------
(* The steps of a capture. *)

(* Hashing the next file: what the pass sees is there now. *)
LEMMA HashFileStep ==
    ASSUME CaptureInv, HashFile
    PROVE  CaptureTypes' /\ NotNewer(observed)' /\ PassesInv'
<1> USE DEF CaptureInv
<1> DEFINE f == Min(listing)
<1>1. f \in listing /\ f \in File
  <2>1. File \subseteq Nat /\ IsFiniteSet(File) BY CaptureAssumption, FS_Interval DEF File
  <2>2. listing \subseteq File /\ listing # {} BY DEF HashFile, CaptureTypes
  <2>3. IsFiniteSet(listing) BY <2>1, <2>2, FS_Subset
  <2>4. \E x \in listing : \A y \in listing : x <= y BY <2>1, <2>2, <2>3, LeastExists
  <2> QED BY <2>2, <2>4 DEF Min
<1> HIDE DEF f
<1>2. UNCHANGED <<tree, repo, edits, manifest, recorded, window>>
      /\ phase \in {"pass1", "pass2", "drift"}
  BY DEF HashFile, people
<1>3. CASE tree[f] = 0
  <2>1. phase' \in {"stale", "failed"} /\ listing' = {} /\ observed' = observed
    BY <1>3 DEF HashFile, f
  <2> QED BY <1>2, <2>1 DEF CaptureTypes, NotNewer, PassesInv
<1>4. CASE tree[f] # 0
  <2>1. /\ observed' = [g \in DOMAIN observed \cup {f} |-> IF g = f THEN tree[f] ELSE observed[g]]
        /\ listing' = listing \ {f} /\ phase' = phase
    BY <1>4 DEF HashFile, f
  <2>2. tree[f] \in 1..edits BY <1>1, <1>4 DEF CaptureTypes
  <2>3. observed' \in Manifests(edits)
    <3>1. DOMAIN observed \subseteq File /\ observed \in [DOMAIN observed -> 1..edits]
      BY ManifestIs DEF CaptureTypes
    <3>2. DOMAIN observed' \subseteq File /\ observed' \in [DOMAIN observed' -> 1..edits]
      BY <1>1, <2>1, <2>2, <3>1
    <3> QED BY <3>2, ManifestIs
  <2>4. CaptureTypes' BY <1>2, <2>1, <2>3 DEF CaptureTypes
  <2>5. NotNewer(observed)' BY <1>2, <2>1, <2>2 DEF NotNewer, CaptureTypes
  <2>6. ASSUME NEW seen, NEW t, Separates(seen, t) PROVE Separates(seen, t)'
    <3>1. DOMAIN t = listing' \cup DOMAIN observed'
      BY <1>1, <2>1, <2>6 DEF Separates
    <3>2. t[f] <= observed'[f]
      BY <1>1, <1>4, <2>1, <2>6 DEF Separates, NotNewer
    <3>3. \A g \in DOMAIN observed' : t[g] <= observed'[g]
      BY <2>1, <2>6, <3>2 DEF Separates
    <3>4. NotNewer(t)' BY <1>2, <2>6 DEF Separates, NotNewer
    <3> QED BY <1>2, <2>6, <3>1, <3>3, <3>4 DEF Separates
  <2>7. PassesInv'
    <3>1. (phase' = "pass2" => \E t \in window' : Separates(manifest, t)')
          /\ (phase' = "drift" => \E t \in window' : Separates(recorded, t)')
      BY <1>2, <2>1, <2>6 DEF PassesInv
    <3> QED BY <1>2, <3>1 DEF PassesInv, Separates, NotNewer
  <2> QED BY <2>4, <2>5, <2>7
<1> QED BY <1>3, <1>4

(* Work on the tree and the worktree: new bytes are newer than anything     *)
(* seen, and the trees there were stay in the window.                      *)
LEMMA WorkStep ==
    ASSUME CaptureInv, NEW t, NEW r, Work(t, r),
           t \in [File -> 0..(edits + 1)], r \in [head : 0..(edits + 1), dirty : BOOLEAN],
           \A f \in File : t[f] \in {tree[f], 0, edits + 1}
    PROVE  CaptureInv'
<1> USE DEF CaptureInv
<1>1. /\ edits' = edits + 1 /\ tree' = t /\ repo' = r
      /\ window' = window \cup {Content(t)} /\ repos' = repos \cup {r}
      /\ UNCHANGED <<phase, listing, observed, manifest, recorded, commit, pinned>>
  BY DEF Work
<1>2. edits \in Nat /\ {observed, manifest, recorded} \subseteq Manifests(edits)
  BY DEF CaptureTypes
<1>3. CaptureTypes'
  BY <1>1, <1>2, ManifestsGrow DEF CaptureTypes
<1>4. ASSUME NEW m \in Manifests(edits), NotNewer(m) PROVE NotNewer(m)'
  <2>1. DOMAIN m \subseteq File /\ m \in [DOMAIN m -> 1..edits] BY ManifestIs
  <2>2. ASSUME NEW f \in DOMAIN m PROVE t[f] = 0 \/ m[f] <= t[f]
    <3>1. m[f] <= edits + 1 BY <1>2, <2>1
    <3>2. tree[f] = 0 \/ m[f] <= tree[f] BY <1>4 DEF NotNewer
    <3>3. f \in File BY <2>1
    <3>4. t[f] \in {tree[f], 0, edits + 1} BY <3>3
    <3> QED BY <3>1, <3>2, <3>4
  <2> QED BY <1>1, <2>2 DEF NotNewer
<1>5. NotNewer(observed)' /\ NotNewer(manifest)' /\ NotNewer(recorded)'
  BY <1>1, <1>2, <1>4 DEF NotNewer
<1>6. ASSUME NEW seen, NEW u, Separates(seen, u) PROVE Separates(seen, u)'
  BY <1>1, <1>2, <1>4, <1>6, ManifestsGrow DEF Separates
<1>7. PassesInv'
  <2>1. (phase' = "pass2" => \E u \in window' : Separates(manifest, u)')
        /\ (phase' = "drift" => \E u \in window' : Separates(recorded, u)')
    BY <1>1, <1>6 DEF PassesInv
  <2> QED BY <1>1, <2>1 DEF PassesInv, Separates, NotNewer
<1>8. Content(tree)' = Content(t) BY <1>1 DEF Content, Present
<1>9. Content(tree)' \in window' /\ repo' \in repos' BY <1>1, <1>8
<1>10. ObservedAtOnce'
  BY <1>1 DEF ObservedAtOnce, CapturedAtOnce, FreshAtOnce, GitFreshAtOnce
<1> QED BY <1>3, <1>5, <1>7, <1>9, <1>10

(* Every step of captures, checks and the people around them keeps the      *)
(* invariant.                                                               *)
LEMMA CaptureInvStep == ASSUME CaptureInv, [CaptureNext]_captureVars PROVE CaptureInv'
<1> USE DEF CaptureInv
<1>1. ASSUME UNCHANGED people, UNCHANGED <<window, repos>>
      PROVE  /\ Content(tree)' \in window' /\ repo' \in repos'
             /\ UNCHANGED <<tree, repo, edits, window, repos>>
  BY <1>1 DEF people, Content, Present
<1>2. ASSUME UNCHANGED people, window' = {Content(tree)}, repos' = {repo}
      PROVE  /\ Content(tree)' \in window' /\ repo' \in repos'
             /\ UNCHANGED <<tree, repo, edits>>
  BY <1>2 DEF people, Content, Present
<1>3. ASSUME NEW seen, NotNewer(seen), UNCHANGED tree PROVE NotNewer(seen)'
  BY <1>3 DEF NotNewer
<1>4. CASE StartCapture
  <2>1. /\ phase' = "pass1" /\ listing' = Present(tree) /\ observed' = NoFiles
        /\ UNCHANGED <<tree, repo, edits, manifest, recorded>>
        /\ Content(tree)' \in window' /\ repo' \in repos'
    BY <1>2, <1>4 DEF StartCapture, List, people
  <2>2. NoFiles \in Manifests(edits) BY ManifestIs DEF NoFiles
  <2>3. CaptureTypes' BY <2>1, <2>2, ContentIs DEF CaptureTypes
  <2>4. NotNewer(observed)' /\ NotNewer(manifest)' /\ NotNewer(recorded)'
    BY <2>1 DEF NotNewer, NoFiles
  <2> QED BY <2>1, <2>3, <2>4
      DEF PassesInv, ObservedAtOnce, CapturedAtOnce, FreshAtOnce, GitFreshAtOnce
<1>5. CASE HashFile
  <2>1. UNCHANGED <<people, manifest, recorded, commit, pinned, window, repos>>
        /\ phase' \in {phase, "stale", "failed"} /\ phase \in {"pass1", "pass2", "drift"}
    BY <1>5 DEF HashFile
  <2>2. NotNewer(manifest)' /\ NotNewer(recorded)' BY <2>1 DEF NotNewer, people
  <2> QED BY <1>1, <1>5, <2>1, <2>2, HashFileStep
         DEF ObservedAtOnce, CapturedAtOnce, FreshAtOnce, GitFreshAtOnce
<1>6. CASE SecondPass
  <2>1. /\ manifest' = observed
        /\ UNCHANGED <<tree, repo, edits, recorded, commit, pinned, window, repos>>
        /\ Content(tree)' \in window' /\ repo' \in repos'
    BY <1>1, <1>6 DEF SecondPass, people
  <2>2. CASE observed = NoFiles
    <3>1. phase' = "failed" /\ UNCHANGED <<listing, observed>> BY <1>6, <2>2 DEF SecondPass
    <3> QED BY <2>1, <3>1
        DEF CaptureTypes, NotNewer, PassesInv, ObservedAtOnce, CapturedAtOnce,
            FreshAtOnce, GitFreshAtOnce
  <2>3. CASE observed # NoFiles
    <3>1. phase' = "pass2" /\ List("pass2") BY <1>6, <2>3 DEF SecondPass, List
    <3>2. listing' = Present(tree) /\ observed' = NoFiles BY <3>1 DEF List
    <3>3. NoFiles \in Manifests(edits) BY ManifestIs DEF NoFiles
    <3>4. CaptureTypes' BY <2>1, <3>2, <3>3, ContentIs DEF CaptureTypes
    <3>5. NotNewer(observed)' /\ NotNewer(manifest)' /\ NotNewer(recorded)'
      BY <2>1, <3>2 DEF NotNewer, NoFiles
    <3>6. Separates(manifest, Content(tree))'
      BY <2>1, ListingSeparates, <3>1 DEF Separates
    <3>7. PassesInv' BY <2>1, <3>1, <3>6 DEF PassesInv
    <3> QED BY <2>1, <3>1, <3>4, <3>5, <3>7
           DEF ObservedAtOnce, CapturedAtOnce, FreshAtOnce, GitFreshAtOnce
  <2> QED BY <2>2, <2>3
<1>7. CASE Register
  <2>1. /\ UNCHANGED <<tree, repo, edits, listing, observed, manifest, commit, pinned,
                       window, repos>>
        /\ Content(tree)' \in window' /\ repo' \in repos' /\ phase = "pass2" /\ listing = {}
    BY <1>1, <1>7 DEF Register, people
  <2>2. CASE Stable
    <3>1. phase' = "captured" /\ recorded' = manifest BY <1>7, <2>2 DEF Register
    <3>2. PICK t \in window : Separates(manifest, t) BY <2>1 DEF PassesInv
    <3>3. manifest \in window BY <2>1, <2>2, <3>2, SeparatedAlike DEF Stable
    <3> QED BY <2>1, <3>1, <3>3
        DEF CaptureTypes, NotNewer, PassesInv, ObservedAtOnce, CapturedAtOnce,
            FreshAtOnce, GitFreshAtOnce
  <2>3. CASE ~Stable
    <3>1. phase' = "failed" /\ recorded' = recorded BY <1>7, <2>3 DEF Register
    <3> QED BY <2>1, <3>1
        DEF CaptureTypes, NotNewer, PassesInv, ObservedAtOnce, CapturedAtOnce,
            FreshAtOnce, GitFreshAtOnce
  <2> QED BY <2>2, <2>3
<1>8. CASE StartDrift
  <2>1. /\ phase' = "drift" /\ List("drift")
        /\ UNCHANGED <<tree, repo, edits, manifest, recorded>> /\ window' = {Content(tree)}
        /\ Content(tree)' \in window' /\ repo' \in repos'
    BY <1>2, <1>8 DEF StartDrift, List, people
  <2>2. listing' = Present(tree) /\ observed' = NoFiles BY <2>1 DEF List
  <2>3. NoFiles \in Manifests(edits) BY ManifestIs DEF NoFiles
  <2>4. CaptureTypes' BY <2>1, <2>2, <2>3, ContentIs DEF CaptureTypes
  <2>5. NotNewer(observed)' /\ NotNewer(manifest)' /\ NotNewer(recorded)'
    BY <2>1, <2>2 DEF NotNewer, NoFiles
  <2>6. Separates(recorded, Content(tree))' BY <2>1, ListingSeparates DEF Separates
  <2>7. PassesInv' BY <2>1, <2>6 DEF PassesInv
  <2> QED BY <2>1, <2>4, <2>5, <2>7
         DEF ObservedAtOnce, CapturedAtOnce, FreshAtOnce, GitFreshAtOnce
<1>9. CASE EndDrift
  <2>1. /\ UNCHANGED <<tree, repo, edits, listing, observed, manifest, recorded, commit,
                       pinned, window, repos>>
        /\ Content(tree)' \in window' /\ repo' \in repos' /\ phase = "drift" /\ listing = {}
        /\ phase' = IF Unchanged THEN "fresh" ELSE "stale"
    BY <1>1, <1>9 DEF EndDrift, people
  <2>2. ASSUME Unchanged PROVE recorded \in window
    <3>1. PICK t \in window : Separates(recorded, t) BY <2>1 DEF PassesInv
    <3> QED BY <2>1, <2>2, <3>1, SeparatedAlike DEF Unchanged
  <2> QED BY <2>1, <2>2
      DEF CaptureTypes, NotNewer, PassesInv, ObservedAtOnce, CapturedAtOnce, FreshAtOnce,
          GitFreshAtOnce
<1>10. CASE RevParse
  <2>1. /\ UNCHANGED <<tree, repo, edits, listing, observed, manifest, recorded>>
        /\ phase' \in {"git", "git drift"}
        /\ Content(tree)' \in window' /\ repo' \in repos'
    BY <1>2, <1>10 DEF RevParse, people
  <2> QED BY <2>1
      DEF CaptureTypes, NotNewer, PassesInv, ObservedAtOnce, CapturedAtOnce, FreshAtOnce,
          GitFreshAtOnce
<1>11. CASE PinCommit
  <2>1. /\ UNCHANGED <<tree, repo, edits, listing, observed, manifest, recorded>>
        /\ phase' \in {"failed", "pinned"}
        /\ Content(tree)' \in window' /\ repo' \in repos'
    BY <1>1, <1>11 DEF PinCommit, people
  <2> QED BY <2>1
      DEF CaptureTypes, NotNewer, PassesInv, ObservedAtOnce, CapturedAtOnce, FreshAtOnce,
          GitFreshAtOnce
<1>12. CASE EndGitDrift
  <2>1. /\ UNCHANGED <<tree, repo, edits, listing, observed, manifest, recorded, commit,
                       pinned, window, repos>>
        /\ Content(tree)' \in window' /\ repo' \in repos'
        /\ phase' = IF SameWorktree THEN "git fresh" ELSE "git stale"
    BY <1>1, <1>12 DEF EndGitDrift, people
  <2>2. ASSUME SameWorktree, \A r \in repos : r.head = commit
        PROVE  [head |-> pinned, dirty |-> FALSE] \in repos
    <3>1. repo \in [head : 0..edits, dirty : BOOLEAN] /\ repo.head = pinned /\ repo.dirty = FALSE
      BY <2>2 DEF SameWorktree, CaptureTypes
    <3>2. repo = [head |-> pinned, dirty |-> FALSE] BY <3>1
    <3> QED BY <3>2
  <2> QED BY <2>1, <2>2
      DEF CaptureTypes, NotNewer, PassesInv, ObservedAtOnce, CapturedAtOnce, FreshAtOnce,
          GitFreshAtOnce
<1>13. ASSUME NEW f \in File, Edit(f) PROVE CaptureInv'
  <2> DEFINE t == [tree EXCEPT ![f] = edits + 1]
  <2>1. Work(t, repo) BY <1>13 DEF Edit
  <2>2. /\ t \in [File -> 0..(edits + 1)] /\ repo \in [head : 0..(edits + 1), dirty : BOOLEAN]
        /\ \A g \in File : t[g] \in {tree[g], 0, edits + 1}
    BY DEF CaptureTypes
  <2> HIDE DEF t
  <2> QED BY <2>1, <2>2, WorkStep
<1>14. ASSUME NEW f \in File, Delete(f) PROVE CaptureInv'
  <2> DEFINE t == [tree EXCEPT ![f] = 0]
  <2>1. Work(t, repo) BY <1>14 DEF Delete
  <2>2. /\ t \in [File -> 0..(edits + 1)] /\ repo \in [head : 0..(edits + 1), dirty : BOOLEAN]
        /\ \A g \in File : t[g] \in {tree[g], 0, edits + 1}
    BY DEF CaptureTypes
  <2> HIDE DEF t
  <2> QED BY <2>1, <2>2, WorkStep
<1>15. ASSUME Modify \/ Commit \/ Reset PROVE CaptureInv'
  <2> DEFINE t == tree
  <2> DEFINE Worktrees == [head : 0..(edits + 1), dirty : BOOLEAN]
  <2>1. edits \in Nat /\ repo \in Worktrees
    <3>1. edits \in Nat /\ repo \in [head : 0..edits, dirty : BOOLEAN] BY DEF CaptureTypes
    <3>2. repo.head \in 0..(edits + 1) /\ repo.dirty \in BOOLEAN BY <3>1
    <3>3. repo = [head |-> repo.head, dirty |-> repo.dirty] BY <3>1
    <3> QED BY <3>1, <3>2, <3>3
  <2>2. [repo EXCEPT !.dirty = TRUE] \in Worktrees BY <2>1
  <2>3. [repo EXCEPT !.dirty = FALSE] \in Worktrees BY <2>1
  <2>4. [head |-> edits + 1, dirty |-> FALSE] \in Worktrees BY <2>1
  <2>5. t \in [File -> 0..(edits + 1)] /\ \A g \in File : t[g] \in {tree[g], 0, edits + 1}
    BY DEF CaptureTypes
  <2> HIDE DEF Worktrees
  <2>6. PICK r \in Worktrees : Work(t, r)
    BY <1>15, <2>2, <2>3, <2>4 DEF Modify, Commit, Reset
  <2> USE DEF Worktrees
  <2> HIDE DEF t
  <2> QED BY <2>5, <2>6, WorkStep
<1>16. CASE UNCHANGED captureVars
  BY <1>16 DEF captureVars, CaptureTypes, Content, Present, NotNewer, PassesInv, Separates,
     ObservedAtOnce, CapturedAtOnce, FreshAtOnce, GitFreshAtOnce
<1> QED BY <1>4, <1>5, <1>6, <1>7, <1>8, <1>9, <1>10, <1>11, <1>12, <1>13, <1>14, <1>15, <1>16
       DEF CaptureNext

(* A directory that is registered, or passes the drift check, was there, as *)
(* it is recorded, at one instant of the operation, whatever people added, *)
(* changed and removed while it was read, file by file, for trees of any   *)
(* size; and a worktree that passes was clean at its commit, if nobody     *)
(* committed in between (tree_capture.py:7-22, engine.py:151-157).         *)
THEOREM CapturesAreInstants == CaptureSpec => []ObservedAtOnce
<1>1. CaptureInit => CaptureInv
  <2> SUFFICES ASSUME CaptureInit PROVE CaptureInv OBVIOUS
  <2>1. NoFiles \in Manifests(edits) BY ManifestIs DEF NoFiles
  <2> QED BY <2>1
      DEF CaptureInit, CaptureInv, CaptureTypes, NotNewer, NoFiles, PassesInv,
          ObservedAtOnce,
        CapturedAtOnce, FreshAtOnce, GitFreshAtOnce
<1>2. CaptureInv /\ [CaptureNext]_captureVars => CaptureInv' BY CaptureInvStep
<1>3. CaptureInv => ObservedAtOnce BY DEF CaptureInv
<1> QED BY <1>1, <1>2, <1>3, PTL DEF CaptureSpec

-----------------------------------------------------------------------------
(* Reports of tools that die, start again and write side by side. *)

(* What the collectors for KLayout and OpenSTA print in common: one first   *)
(* and one last line, and nothing a solver prints.                         *)
LEMMA FramedScripts ==
  ASSUME format \in {"klayout", "opensta"}
  PROVE  \A m \in 1..Len(Script) :
            /\ Script[m][1] = "begin" <=> m = 1
            /\ Script[m][1] = "end" <=> m = Len(Script)
            /\ Script[m][1] \notin {"solve", "outcome", "case"}
<1>1. CASE format = "klayout" BY <1>1 DEF Script, KlayoutScript
<1>2. CASE format = "opensta" BY <1>2 DEF Script, OpenstaScript
<1> QED BY <1>1, <1>2

(* A path is printed inside its section. *)
LEMMA PathsInSections ==
  ASSUME NEW m \in 1..Len(OpenstaScript), OpenstaScript[m][1] = "path"
  PROVE  /\ m - 1 \in 1..Len(OpenstaScript) /\ m + 1 \in 1..Len(OpenstaScript)
         /\ OpenstaScript[m][2] \in Modes
         /\ OpenstaScript[m - 1] = <<"open", OpenstaScript[m][2]>>
         /\ OpenstaScript[m + 1] = <<"close", OpenstaScript[m][2]>>
<1>1. m \in {5, 8} BY DEF OpenstaScript
<1> QED BY <1>1 DEF OpenstaScript, Modes

(* A solver prints an outcome right after it was invoked. *)
LEMMA YosysIs ==
  /\ Len(YosysScript) = 6
  /\ \A m \in 1..6 :
        /\ YosysScript[m][1] \in {"constraint", "solve", "outcome", "script end"}
        /\ YosysScript[m][1] = "solve" <=> m \in {2, 4}
        /\ YosysScript[m][1] = "outcome" <=> m \in {3, 5}
        /\ YosysScript[m][1] = "script end" <=> m = 6
BY DEF YosysScript

(* A document is closed by its last line. *)
LEMMA XmlIs ==
  /\ Len(XmlScript) = 4
  /\ \A m \in 1..4 : /\ XmlScript[m][1] \in {"root", "case", "close root"}
                     /\ XmlScript[m][1] = "close root" => m = 4
BY DEF XmlScript

(* The kinds of line in the scripts. *)
Kinds ==
    {"begin", "data", "end", "clocks", "constraints", "open", "path", "worst", "tns", "close",
     "constraint", "solve", "outcome", "script end", "root", "case", "close root"}

(* Every line of a script is a kind and a number, and a summary comes after *)
(* the path it summarises.                                                 *)
LEMMA ScriptIs ==
  ASSUME format \in {"klayout", "opensta", "yosys-sat", "junit", "klayout-rdb"}
  PROVE  /\ Len(Script) \in Nat \ {0}
         /\ \A m \in 1..Len(Script) :
               /\ Script[m][1] \in Kinds /\ Script[m][2] \in 0..6
               /\ Script[m][1] = "worst" =>
                     \E q \in 1..(m - 1) : Script[q] = <<"path", Script[m][2] - 2>>
               /\ Script[m][1] = "tns" =>
                     \E q \in 1..(m - 1) : Script[q] = <<"path", Script[m][2] - 4>>
<1>1. CASE format = "klayout"
  <2>1. \A m \in 1..3 : KlayoutScript[m][1] \in {"begin", "data", "end"} /\ KlayoutScript[m][2] = 0
    BY DEF KlayoutScript
  <2>2. Script = KlayoutScript /\ Len(KlayoutScript) = 3 BY <1>1 DEF Script, KlayoutScript
  <2>3. \A m \in 1..3 : KlayoutScript[m][1] \in Kinds \ {"worst", "tns"} BY <2>1 DEF Kinds
  <2> QED BY <2>1, <2>2, <2>3
<1>2. CASE format = "opensta"
  <2>1. Script = OpenstaScript /\ Len(OpenstaScript) = 22 BY <1>2 DEF Script, OpenstaScript
  <2> SUFFICES ASSUME NEW m \in 1..22
               PROVE  /\ OpenstaScript[m][1] \in Kinds /\ OpenstaScript[m][2] \in 0..6
                      /\ OpenstaScript[m][1] = "worst" => \E q \in 1..(m - 1) :
                            OpenstaScript[q] = <<"path", OpenstaScript[m][2] - 2>>
                      /\ OpenstaScript[m][1] = "tns" => \E q \in 1..(m - 1) :
                            OpenstaScript[q] = <<"path", OpenstaScript[m][2] - 4>>
    BY <2>1
  <2>2. OpenstaScript[m][1] \in
          {"begin", "end", "clocks", "constraints", "open", "path", "worst", "tns", "close"}
    BY DEF OpenstaScript
  <2>3. OpenstaScript[m][2] \in 0..6 BY DEF OpenstaScript
  <2>4. OpenstaScript[m][1] = "worst" =>
          m \in {11, 14} /\ OpenstaScript[m][2] = IF m = 11 THEN 3 ELSE 4
    BY DEF OpenstaScript
  <2>5. OpenstaScript[m][1] = "tns" =>
          m \in {17, 20} /\ OpenstaScript[m][2] = IF m = 17 THEN 5 ELSE 6
    BY DEF OpenstaScript
  <2>6. OpenstaScript[5] = <<"path", 1>> /\ OpenstaScript[8] = <<"path", 2>> BY DEF OpenstaScript
  <2>7. OpenstaScript[m][1] \in Kinds BY <2>2 DEF Kinds
  <2> QED BY <2>3, <2>4, <2>5, <2>6, <2>7
<1>3. CASE format = "yosys-sat"
  <2>1. /\ YosysScript[1][2] = 0 /\ YosysScript[2][2] = 0 /\ YosysScript[3][2] = 0
        /\ YosysScript[4][2] = 0 /\ YosysScript[5][2] = 0 /\ YosysScript[6][2] = 0
    BY DEF YosysScript
  <2>2. \A m \in 1..6 : YosysScript[m][2] = 0 BY <2>1
  <2>3. \A m \in 1..6 : YosysScript[m][1] \in Kinds \ {"worst", "tns"} BY YosysIs DEF Kinds
  <2>4. Script = YosysScript /\ Len(Script) = 6 BY <1>3, YosysIs DEF Script
  <2> QED BY <2>2, <2>3, <2>4
<1>4. CASE format \in {"junit", "klayout-rdb"}
  <2>1. XmlScript[1][2] = 0 /\ XmlScript[2][2] = 0 /\ XmlScript[3][2] = 0 /\ XmlScript[4][2] = 0
    BY DEF XmlScript
  <2>2. \A m \in 1..4 : XmlScript[m][2] = 0 BY <2>1
  <2>3. \A m \in 1..4 : XmlScript[m][1] \in Kinds \ {"worst", "tns"} BY XmlIs DEF Kinds
  <2>4. Script = XmlScript /\ Len(Script) = 4 BY <1>4, XmlIs DEF Script
  <2> QED BY <2>2, <2>3, <2>4
<1> QED BY <1>1, <1>2, <1>3, <1>4

Lines == [by : Process, k : Kinds \cup {"diagnostic"}, v : Int, n : Int]

ReportTypes ==
    /\ format \in Formats
    /\ report \in Seq(Lines)
    /\ alive \in [Process -> {"not_started", "running", "over"}]
    /\ printed \in [Process -> 0..Len(Script)]

(* The line is number m of its tool's script; some carry a number that the  *)
(* script or the format settles.                                           *)
Follows(l, m) ==
    /\ m \in 1..printed[l.by]
    /\ l.k = Script[m][1]
    /\ l.k \in {"open", "close", "path"} => l.v = Script[m][2]
    /\ l.k = "path" => l.n \in {-1, 0}
    /\ l.k = "outcome" => l.v \in {0, 1}
    /\ l.k = "case" => l.v \in {0, 1} \/ (format = "junit" /\ l.v = 2)

(* nth numbers the lines of each process as its script does: they are in    *)
(* order, none is missing and none is there twice.                         *)
Numbers(nth) ==
    /\ \A i \in DOMAIN report :
          IF report[i].k = "diagnostic" THEN nth[i] = 0 ELSE Follows(report[i], nth[i])
    /\ \A p \in Process : \A m \in 1..printed[p] :
          \E i \in DOMAIN report : report[i].by = p /\ nth[i] = m
    /\ \A i, j \in DOMAIN report :
          report[i].by = report[j].by /\ i < j /\ nth[j] # 0 => nth[i] < nth[j]

ReportInv ==
    /\ ReportTypes
    /\ \A p \in Process : alive[p] # "over" => printed[p] < Len(Script)
    /\ \E nth \in [DOMAIN report -> Nat] : Numbers(nth)

(* A tool that reports a summary has reported the path it is of. *)
LEMMA SlackReported ==
  ASSUME ReportInv, NEW p \in Process, NEW mode \in Int,
         NEW q \in 1..printed[p], Script[q] = <<"path", mode>>
  PROVE  Slack(p, mode) \in {-1, 0}
<1> PICK nth \in [DOMAIN report -> Nat] : Numbers(nth) BY DEF ReportInv
<1>1. PICK i \in DOMAIN report : report[i].by = p /\ nth[i] = q BY DEF Numbers
<1>2. Follows(report[i], nth[i]) BY <1>1 DEF Numbers
<1>3. i \in At({"path"}) /\ report[i].v = mode
  <2>1. Script[q][1] = "path" /\ Script[q][2] = mode OBVIOUS
  <2> QED BY <1>1, <1>2, <2>1 DEF Follows, At
<1>4. \A j \in At({"path"}) : report[j].n \in {-1, 0}
  <2> TAKE j \in At({"path"})
  <2>1. j \in DOMAIN report /\ report[j].k = "path" BY DEF At
  <2>2. Follows(report[j], nth[j]) BY <2>1 DEF Numbers
  <2> QED BY <2>1, <2>2 DEF Follows
<1> QED BY <1>1, <1>3, <1>4 DEF Slack

(* What a tool prints next is a line that follows its script. *)
LEMMA NextLine ==
  ASSUME TranscriptAssumption, ReportInv, NEW p \in Process, alive[p] = "running",
         NEW m, m = printed[p] + 1,
         NEW x \in Values(p, Script[m][1], Script[m][2])
  PROVE  /\ m \in 1..Len(Script)
         /\ [by |-> p, k |-> Script[m][1], v |-> x[1], n |-> x[2]] \in Lines
         /\ Script[m][1] \in {"open", "close", "path"} => x[1] = Script[m][2]
         /\ Script[m][1] = "path" => x[2] \in {-1, 0}
         /\ Script[m][1] = "outcome" => x[1] \in {0, 1}
         /\ Script[m][1] = "case" => x[1] \in {0, 1} \/ (format = "junit" /\ x[1] = 2)
<1> DEFINE k == Script[m][1]  v == Script[m][2]
<1>1. m \in 1..Len(Script) /\ k \in Kinds /\ v \in 0..6
  <2>1. format \in {"klayout", "opensta", "yosys-sat", "junit", "klayout-rdb"}
    BY DEF ReportInv, ReportTypes, TranscriptAssumption
  <2>2. m \in 1..Len(Script) BY <2>1, ScriptIs DEF ReportInv, ReportTypes
  <2> QED BY <2>1, <2>2, ScriptIs
<1>2. CASE k = "worst"
  <2>1. PICK q \in 1..(m - 1) : Script[q] = <<"path", v - 2>>
    BY <1>1, <1>2, ScriptIs DEF ReportInv, ReportTypes, TranscriptAssumption
  <2>2. Slack(p, v - 2) \in {-1, 0}
    <3>1. q \in 1..printed[p] BY <1>1, <2>1 DEF ReportInv, ReportTypes
    <3> QED BY <1>1, <2>1, <3>1, SlackReported
  <2>3. x \in Values(p, "worst", v) BY <1>2
  <2>4. x = <<v, Slack(p, v - 2)>> BY <2>3 DEF Values
  <2> QED BY <1>1, <1>2, <2>2, <2>4 DEF Lines
<1>3. CASE k = "tns"
  <2>1. PICK q \in 1..(m - 1) : Script[q] = <<"path", v - 4>>
    BY <1>1, <1>3, ScriptIs DEF ReportInv, ReportTypes, TranscriptAssumption
  <2>2. Slack(p, v - 4) \in {-1, 0}
    <3>1. q \in 1..printed[p] BY <1>1, <2>1 DEF ReportInv, ReportTypes
    <3> QED BY <1>1, <2>1, <3>1, SlackReported
  <2>3. x \in Values(p, "tns", v) BY <1>3
  <2>4. x \in {<<v, Slack(p, v - 4)>>, <<v, 0>>} BY <2>3 DEF Values
  <2> QED BY <1>1, <1>3, <2>2, <2>4 DEF Lines
<1>4. CASE k \notin {"worst", "tns"}
  <2>1. /\ x[1] \in Int /\ x[2] \in Int
        /\ k \in {"open", "close", "path"} => x[1] = v
        /\ k = "path" => x[2] \in {-1, 0}
        /\ k = "outcome" => x[1] \in {0, 1}
        /\ k = "case" => x[1] \in {0, 1} \/ (format = "junit" /\ x[1] = 2)
    BY <1>1, <1>4 DEF Values
  <2> QED BY <1>1, <2>1 DEF Lines
<1> QED BY <1>2, <1>3, <1>4

(* A line that is printed is the next of its process. *)
LEMMA WriteStep ==
  ASSUME TranscriptAssumption, ReportInv, NEW p \in Process, WriteLine(p)
  PROVE  ReportInv'
<1> DEFINE m == printed[p] + 1
<1>1. ReportTypes /\ alive[p] = "running" /\ Script' = Script /\ format' = format
  BY DEF ReportInv, WriteLine, Script
<1>2. printed' = [printed EXCEPT ![p] = m] /\ printed'[p] = m
  BY <1>1 DEF WriteLine, ReportTypes
<1>3. PICK x \in Values(p, Script[m][1], Script[m][2]) :
         report' = Append(report, [by |-> p, k |-> Script[m][1], v |-> x[1], n |-> x[2]])
  BY <1>2 DEF WriteLine
<1> DEFINE l == [by |-> p, k |-> Script[m][1], v |-> x[1], n |-> x[2]]
<1>4. /\ m \in 1..Len(Script) /\ l \in Lines
      /\ l.k \in {"open", "close", "path"} => l.v = Script[m][2]
      /\ l.k = "path" => l.n \in {-1, 0}
      /\ l.k = "outcome" => l.v \in {0, 1}
      /\ l.k = "case" => l.v \in {0, 1} \/ (format = "junit" /\ l.v = 2)
  BY <1>1, NextLine
<1>5. l.by = p /\ l.k = Script[m][1] /\ l.k # "diagnostic"
  BY <1>1, <1>4, ScriptIs DEF ReportTypes, TranscriptAssumption, Kinds
<1>6. /\ report \in Seq(Lines) /\ Len(report) \in Nat /\ report' = Append(report, l)
      /\ Len(report') = Len(report) + 1 /\ report'[Len(report) + 1] = l
      /\ \A i \in DOMAIN report : report'[i] = report[i]
      /\ DOMAIN report = 1..Len(report) /\ DOMAIN report' = 1..(Len(report) + 1)
  BY <1>1, <1>3, <1>4 DEF ReportTypes
<1>7. /\ printed \in [Process -> 0..Len(Script)]
      /\ \A q \in Process : printed'[q] = IF q = p THEN m ELSE printed[q]
  BY <1>1, <1>2 DEF ReportTypes
<1> HIDE DEF l, m
<1>8. ReportTypes'
  <2>1. report' \in Seq(Lines) BY <1>4, <1>6
  <2>2. printed' \in [Process -> 0..Len(Script')] BY <1>1, <1>2, <1>4, <1>7
  <2>3. alive' \in [Process -> {"not_started", "running", "over"}]
    BY <1>1 DEF WriteLine, ReportTypes
  <2> QED BY <1>1, <2>1, <2>2, <2>3 DEF ReportTypes, Lines
<1>9. \A q \in Process : alive'[q] # "over" => printed'[q] < Len(Script')
  <2>1. \A q \in Process : q # p => alive'[q] = alive[q] BY <1>1 DEF WriteLine, ReportTypes
  <2>2. alive'[p] # "over" => m # Len(Script)
    BY <1>1, <1>2 DEF WriteLine, ReportTypes
  <2> QED BY <1>1, <1>4, <1>7, <2>1, <2>2 DEF ReportInv
<1>10. PICK nth \in [DOMAIN report -> Nat] : Numbers(nth) BY DEF ReportInv
<1>11. PICK new \in [DOMAIN report' -> Nat] :
          new[Len(report) + 1] = m /\ \A i \in DOMAIN report : new[i] = nth[i]
  <2> DEFINE longer == [i \in 1..(Len(report) + 1) |-> IF i \in DOMAIN report THEN nth[i] ELSE m]
  <2>1. /\ longer \in [DOMAIN report' -> Nat] /\ longer[Len(report) + 1] = m
        /\ \A i \in DOMAIN report : longer[i] = nth[i]
    BY <1>4, <1>6
  <2> QED BY <2>1
<1>12. \A i \in DOMAIN report' :
         IF report'[i].k = "diagnostic" THEN new[i] = 0 ELSE Follows(report[i], new[i])'
  <2> TAKE i \in DOMAIN report'
  <2>1. CASE i \in DOMAIN report
    <3>1. IF report[i].k = "diagnostic" THEN nth[i] = 0 ELSE Follows(report[i], nth[i])
      BY <1>10, <2>1 DEF Numbers
    <3>2. report[i] \in Lines BY <1>6, <2>1
    <3>3. report[i].by \in Process BY <3>2 DEF Lines
    <3>4. \A q \in Process : 1..printed[q] \subseteq 1..printed'[q] BY <1>7 DEF m
    <3>5. CASE report[i].k = "diagnostic" BY <1>6, <1>11, <2>1, <3>1, <3>5
    <3>6. CASE report[i].k # "diagnostic"
      <4>1. Follows(report[i], nth[i])' BY <1>1, <1>6, <2>1, <3>1, <3>3, <3>4, <3>6 DEF Follows
      <4> QED BY <1>6, <1>11, <2>1, <3>6, <4>1
    <3> QED BY <3>5, <3>6
  <2>2. CASE i = Len(report) + 1
    BY <1>1, <1>4, <1>5, <1>6, <1>7, <1>11, <2>2 DEF Follows
  <2> QED BY <1>6, <2>1, <2>2
<1>13. \A q \in Process : \A o \in 1..printed'[q] :
         \E i \in DOMAIN report' : report'[i].by = q /\ new[i] = o
  <2> TAKE q \in Process
  <2> TAKE o \in 1..printed'[q]
  <2>1. CASE o \in 1..printed[q]
    <3>1. PICK i \in DOMAIN report : report[i].by = q /\ nth[i] = o BY <1>10, <2>1 DEF Numbers
    <3> QED BY <1>6, <1>11, <3>1
  <2>2. CASE q = p /\ o = m BY <1>5, <1>6, <1>11, <2>2
  <2> QED BY <1>7, <2>1, <2>2 DEF m
<1>14. \A i, j \in DOMAIN report' :
         report'[i].by = report'[j].by /\ i < j /\ new[j] # 0 => new[i] < new[j]
  <2> SUFFICES ASSUME NEW i \in DOMAIN report', NEW j \in DOMAIN report',
                      report'[i].by = report'[j].by, i < j, new[j] # 0
               PROVE  new[i] < new[j]
    OBVIOUS
  <2>1. i \in DOMAIN report BY <1>6
  <2>2. CASE j \in DOMAIN report BY <1>6, <1>10, <1>11, <2>1, <2>2 DEF Numbers
  <2>3. CASE j = Len(report) + 1
    <3>1. report[i].by = p /\ new[j] = m /\ new[i] = nth[i] BY <1>5, <1>6, <1>11, <2>1, <2>3
    <3>2. nth[i] = 0 \/ nth[i] \in 1..printed[p] BY <1>10, <2>1, <3>1 DEF Numbers, Follows
    <3> QED BY <1>7, <3>1, <3>2 DEF m
  <2> QED BY <1>6, <2>2, <2>3
<1>15. Numbers(new)' BY <1>12, <1>13, <1>14 DEF Numbers
<1> QED BY <1>8, <1>9, <1>11, <1>15 DEF ReportInv

(* A tool that breaks off prints an error at most. *)
LEMMA BreakStep ==
  ASSUME ReportInv, NEW p \in Process, Break(p)
  PROVE  ReportInv'
<1>1. /\ ReportTypes /\ Script' = Script /\ format' = format /\ printed' = printed
      /\ alive' = [alive EXCEPT ![p] = "over"]
  BY DEF ReportInv, Break, Script
<1>2. \A q \in Process : alive'[q] # "over" => printed'[q] < Len(Script')
  <2>1. \A q \in Process : alive'[q] = IF q = p THEN "over" ELSE alive[q]
    BY <1>1 DEF ReportTypes
  <2> QED BY <1>1, <2>1 DEF ReportInv
<1>3. PICK nth \in [DOMAIN report -> Nat] : Numbers(nth) BY DEF ReportInv
<1>4. CASE report' = report
  <2>1. ReportTypes' BY <1>1, <1>4 DEF ReportTypes, Lines
  <2>2. Numbers(nth)' BY <1>1, <1>3, <1>4 DEF Numbers, Follows
  <2> QED BY <1>2, <1>4, <2>1, <2>2 DEF ReportInv
<1> DEFINE l == [by |-> p, k |-> "diagnostic", v |-> 0, n |-> 0]
<1>5. CASE report' = Append(report, l)
  <2>1. l \in Lines /\ l.k = "diagnostic" BY DEF Lines
  <2> HIDE DEF l
  <2>2. /\ report \in Seq(Lines) /\ Len(report) \in Nat
        /\ Len(report') = Len(report) + 1 /\ report'[Len(report) + 1] = l
        /\ \A i \in DOMAIN report : report'[i] = report[i]
        /\ DOMAIN report = 1..Len(report) /\ DOMAIN report' = 1..(Len(report) + 1)
        /\ report' \in Seq(Lines)
    BY <1>1, <1>5, <2>1 DEF ReportTypes
  <2>3. ReportTypes' BY <1>1, <2>2 DEF ReportTypes, Lines
  <2>4. PICK new \in [DOMAIN report' -> Nat] :
           new[Len(report) + 1] = 0 /\ \A i \in DOMAIN report : new[i] = nth[i]
    <3> DEFINE longer == [i \in 1..(Len(report) + 1) |-> IF i \in DOMAIN report THEN nth[i] ELSE 0]
    <3>1. /\ longer \in [DOMAIN report' -> Nat] /\ longer[Len(report) + 1] = 0
          /\ \A i \in DOMAIN report : longer[i] = nth[i]
      BY <2>2
    <3> QED BY <3>1
  <2>5. Numbers(new)'
    <3>1. \A i \in DOMAIN report' :
            IF report'[i].k = "diagnostic" THEN new[i] = 0 ELSE Follows(report[i], new[i])'
      <4> TAKE i \in DOMAIN report'
      <4>1. CASE i \in DOMAIN report
        BY <1>1, <1>3, <2>2, <2>4, <4>1 DEF Numbers, Follows
      <4>2. CASE i = Len(report) + 1 BY <2>1, <2>2, <2>4, <4>2
      <4> QED BY <2>2, <4>1, <4>2
    <3>2. \A q \in Process : \A o \in 1..printed'[q] :
            \E i \in DOMAIN report' : report'[i].by = q /\ new[i] = o
      <4> TAKE q \in Process
      <4> TAKE o \in 1..printed'[q]
      <4>1. PICK i \in DOMAIN report : report[i].by = q /\ nth[i] = o BY <1>1, <1>3 DEF Numbers
      <4> QED BY <2>2, <2>4, <4>1
    <3>3. \A i, j \in DOMAIN report' :
            report'[i].by = report'[j].by /\ i < j /\ new[j] # 0 => new[i] < new[j]
      <4> SUFFICES ASSUME NEW i \in DOMAIN report', NEW j \in DOMAIN report',
                          report'[i].by = report'[j].by, i < j, new[j] # 0
                   PROVE  new[i] < new[j]
        OBVIOUS
      <4>1. i \in DOMAIN report /\ j \in DOMAIN report BY <2>2, <2>4
      <4> QED BY <1>3, <2>2, <2>4, <4>1 DEF Numbers
    <3> QED BY <3>1, <3>2, <3>3 DEF Numbers
  <2> QED BY <1>2, <2>3, <2>4, <2>5 DEF ReportInv
<1> QED BY <1>4, <1>5 DEF Break

(* Tools only add lines, each its own in the order of its script. *)
LEMMA ReportInvStep ==
  ASSUME TranscriptAssumption, ReportInv, [ReportNext]_reportVars
  PROVE  ReportInv'
<1>1. ASSUME UNCHANGED <<format, report, printed>>, NEW p \in Process, Launch(p)
      PROVE  ReportInv'
  <2>1. Script' = Script BY <1>1 DEF Script
  <2>2. ReportTypes' BY <1>1, <2>1 DEF ReportInv, ReportTypes, Launch, Lines
  <2>3. \A q \in Process : alive'[q] # "over" => printed'[q] < Len(Script')
    BY <1>1, <2>1 DEF ReportInv, ReportTypes, Launch
  <2>4. PICK nth \in [DOMAIN report -> Nat] : Numbers(nth) BY DEF ReportInv
  <2>5. Numbers(nth)' BY <1>1, <2>1, <2>4 DEF Numbers, Follows
  <2> QED BY <1>1, <2>2, <2>3, <2>5 DEF ReportInv
<1>2. ASSUME UNCHANGED reportVars PROVE ReportInv'
  <2>1. Script' = Script /\ UNCHANGED <<format, report, alive, printed>>
    BY <1>2 DEF Script, reportVars
  <2>2. ReportTypes' BY <2>1 DEF ReportInv, ReportTypes, Lines
  <2>3. PICK nth \in [DOMAIN report -> Nat] : Numbers(nth) BY DEF ReportInv
  <2>4. Numbers(nth)' BY <2>1, <2>3 DEF Numbers, Follows
  <2> QED BY <2>1, <2>2, <2>4 DEF ReportInv
<1>3. ASSUME NEW p \in Process, Launch(p) PROVE ReportInv' BY <1>1, <1>3 DEF Launch
<1>4. ASSUME NEW p \in Process, WriteLine(p) PROVE ReportInv' BY <1>4, WriteStep
<1>5. ASSUME NEW p \in Process, Break(p) PROVE ReportInv' BY <1>5, BreakStep
<1> QED BY <1>2, <1>3, <1>4, <1>5 DEF ReportNext

(* The lines of a kind are finitely many. *)
LEMMA AtFinite == ASSUME ReportTypes, NEW kinds PROVE IsFiniteSet(At(kinds))
<1>1. Len(report) \in Nat /\ DOMAIN report = 1..Len(report) BY DEF ReportTypes
<1>2. IsFiniteSet(1..Len(report)) BY <1>1, FS_Interval
<1>3. At(kinds) \in SUBSET (1..Len(report)) BY <1>1 DEF At
<1> QED BY <1>2, <1>3, FS_Subset

(* A frame has one beginning and one end. *)
LEMMA FrameEnds ==
  ASSUME ReportTypes, Framed
  PROVE  \E b, e : At({"begin"}) = {b} /\ At({"end"}) = {e}
<1>1. IsFiniteSet(At({"begin"})) /\ IsFiniteSet(At({"end"})) BY AtFinite
<1>2. Cardinality(At({"begin"})) = 1 /\ Cardinality(At({"end"})) = 1 BY DEF Framed
<1>3. \E b : At({"begin"}) = {b} BY <1>1, <1>2, FS_Singleton
<1>4. \E e : At({"end"}) = {e} BY <1>1, <1>2, FS_Singleton
<1> QED BY <1>3, <1>4

(* A line that is no error is in its place of a script. *)
LEMMA Placed ==
  ASSUME ReportTypes, NEW nth \in [DOMAIN report -> Nat], Numbers(nth),
         NEW i \in DOMAIN report, report[i].k # "diagnostic"
  PROVE  /\ report[i].by \in Process /\ report[i].k \in Kinds
         /\ report[i].v \in Int /\ report[i].n \in Int
         /\ Follows(report[i], nth[i])
         /\ nth[i] \in 1..printed[report[i].by] /\ nth[i] \in 1..Len(Script)
         /\ report[i].k = Script[nth[i]][1]
<1>1. report[i] \in Lines BY DEF ReportTypes
<1>2. /\ report[i].by \in Process /\ report[i].k \in Kinds
      /\ report[i].v \in Int /\ report[i].n \in Int
  BY <1>1 DEF Lines
<1>3. Follows(report[i], nth[i]) BY DEF Numbers
<1>4. printed[report[i].by] \in 0..Len(Script) BY <1>2 DEF ReportTypes
<1> QED BY <1>2, <1>3, <1>4 DEF Follows

(* In a framed report all lines are of one tool, which came to its end. *)
LEMMA FrameOfOne ==
  ASSUME TranscriptAssumption, ReportInv, format \in {"klayout", "opensta"}, Framed
  PROVE  \E p \in Process : Finished(p) /\ \A i \in DOMAIN report : report[i].by = p
<1>1. ReportTypes BY DEF ReportInv
<1> PICK nth \in [DOMAIN report -> Nat] : Numbers(nth) BY DEF ReportInv
<1>2. PICK b, e : At({"begin"}) = {b} /\ At({"end"}) = {e}
  BY <1>1, FrameEnds
<1>3. /\ b \in DOMAIN report /\ e \in DOMAIN report /\ report[e].k = "end"
      /\ \A i \in DOMAIN report : report[i].k = "begin" => i = b
      /\ \A i \in DOMAIN report : report[i].k # "diagnostic"
  BY <1>2 DEF At, Framed
<1>4. \A i \in DOMAIN report : report[i].by = report[b].by
  <2> TAKE i \in DOMAIN report
  <2>1. report[i].by \in Process /\ nth[i] \in 1..printed[report[i].by] BY <1>1, <1>3, Placed
  <2>2. 1 \in 1..printed[report[i].by] BY <1>1, <2>1 DEF ReportTypes
  <2>3. PICK j \in DOMAIN report : report[j].by = report[i].by /\ nth[j] = 1
    BY <2>1, <2>2 DEF Numbers
  <2>4. report[j].k = "begin" BY <1>1, <1>3, <2>3, Placed, FramedScripts
  <2> QED BY <1>3, <2>3, <2>4
<1>5. report[e].by \in Process /\ Finished(report[e].by)
  <2>1. /\ report[e].by \in Process /\ nth[e] \in 1..printed[report[e].by]
        /\ nth[e] = Len(Script)
    BY <1>1, <1>3, Placed, FramedScripts
  <2>2. printed[report[e].by] \in 0..Len(Script) /\ Len(Script) \in Nat
    BY <1>1, <2>1, ScriptIs DEF ReportTypes, TranscriptAssumption
  <2> QED BY <2>1, <2>2 DEF Finished
<1> QED BY <1>3, <1>4, <1>5

(* What a pass is to mean. *)
Clean ==
    /\ \A i \in DOMAIN report : ~Finding(report[i])
    /\ \A p \in Process : Cardinality({i \in At({"solve"}) : report[i].by = p})
                           = Cardinality({i \in At({"outcome"}) : report[i].by = p})

(* Nothing is left to match where nothing was proved. *)
LEMMA NothingSolved ==
  ASSUME \A i \in DOMAIN report : report[i].k \notin {"solve", "outcome"}
  PROVE  \A p \in Process : Cardinality({i \in At({"solve"}) : report[i].by = p})
                             = Cardinality({i \in At({"outcome"}) : report[i].by = p})
<1> TAKE p \in Process
<1>1. {i \in At({"solve"}) : report[i].by = p} = {i \in At({"outcome"}) : report[i].by = p}
  BY DEF At
<1> QED BY <1>1

(* In a framed report every numbered line but the two ends is in the body.  *)
LEMMA BodyHolds ==
  ASSUME ReportTypes, Framed, NEW i \in At(Numbered), report[i].k \notin {"begin", "end"}
  PROVE  i \in Body
<1>1. PICK b, e : At({"begin"}) = {b} /\ At({"end"}) = {e} BY FrameEnds
<1>2. b <= i /\ i <= e BY <1>1 DEF Framed
<1>3. i \in DOMAIN report /\ b \in DOMAIN report /\ e \in DOMAIN report /\ i # b /\ i # e
  BY <1>1 DEF At
<1>4. i \in Int /\ b \in Int /\ e \in Int BY <1>3 DEF ReportTypes
<1> QED BY <1>1, <1>2, <1>3, <1>4 DEF Body

(* KLayout: the data record of a report that passes says nothing was found. *)
LEMMA KlayoutClean ==
  ASSUME TranscriptAssumption, ReportInv, format = "klayout", Framed, Klayout = "pass"
  PROVE  Clean
<1>1. ReportTypes /\ Script = KlayoutScript BY DEF ReportInv, Script
<1> PICK nth \in [DOMAIN report -> Nat] : Numbers(nth) BY DEF ReportInv
<1>2. \A i \in DOMAIN report : report[i].k \in {"begin", "data", "end"}
  <2> TAKE i \in DOMAIN report
  <2>1. report[i].k # "diagnostic" BY DEF Framed, At
  <2>2. \A m \in 1..Len(KlayoutScript) : KlayoutScript[m][1] \in {"begin", "data", "end"}
    BY DEF KlayoutScript
  <2> QED BY <1>1, <2>1, <2>2, Placed
<1>3. \A d \in At({"data"}) \cap Body : ~(report[d].v > 0) BY DEF Klayout, Result
<1>4. \A i \in DOMAIN report : ~Finding(report[i])
  <2> SUFFICES ASSUME NEW i \in DOMAIN report, report[i].k = "data", report[i].v > 0 PROVE FALSE
    BY <1>2 DEF Finding
  <2>1. i \in At(Numbered) /\ i \in At({"data"}) BY DEF At, Numbered
  <2> QED BY <1>1, <1>3, <2>1, BodyHolds
<1> QED BY <1>2, <1>4, NothingSolved DEF Clean

(* OpenSTA: a violated path stands in its section, and the summary of the   *)
(* section says so.                                                        *)
LEMMA OpenstaClean ==
  ASSUME TranscriptAssumption, ReportInv, format = "opensta", Framed, Opensta = "pass"
  PROVE  Clean
<1>1. ReportTypes /\ Script = OpenstaScript BY DEF ReportInv, Script
<1> PICK nth \in [DOMAIN report -> Nat] : Numbers(nth) BY DEF ReportInv
<1>2. \A i \in DOMAIN report : report[i].k # "diagnostic" BY DEF Framed, At
<1>3. \A i \in DOMAIN report : report[i].k \notin {"solve", "outcome", "case", "data"}
  <2>1. \A m \in 1..Len(OpenstaScript) : OpenstaScript[m][1] # "data" BY DEF OpenstaScript
  <2> QED BY <1>1, <1>2, <2>1, Placed, FramedScripts
<1>4. /\ \A m \in Modes : ModeConsistent(m)
      /\ \A i \in At({"constraints"}) \cap Body : report[i].v # 0
      /\ \A m \in Modes : \A w \in Section(m + 2, "worst") : ~(report[w].n < 0)
  BY DEF Opensta, Result
<1>5. \A i \in DOMAIN report : report[i].k = "constraints" => report[i].v # 0
  <2> SUFFICES ASSUME NEW i \in DOMAIN report, report[i].k = "constraints" PROVE report[i].v # 0
    OBVIOUS
  <2>1. i \in At(Numbered) /\ i \in At({"constraints"}) BY DEF At, Numbered
  <2> QED BY <1>1, <1>4, <2>1, BodyHolds
<1>6. \A i \in At({"path"}) : report[i].n \in {-1, 0}
  <2> TAKE i \in At({"path"})
  <2>1. i \in DOMAIN report /\ report[i].k = "path" BY DEF At
  <2>2. Follows(report[i], nth[i]) BY <1>1, <1>2, <2>1, Placed
  <2> QED BY <2>1, <2>2 DEF Follows
<1>7. ASSUME NEW i \in DOMAIN report, report[i].k = "path", report[i].n < 0 PROVE FALSE
  <2> DEFINE m == nth[i]  mode == OpenstaScript[m][2]
  <2>1. PICK p \in Process : Finished(p) /\ \A j \in DOMAIN report : report[j].by = p
    BY FrameOfOne
  <2>2. m \in 1..Len(OpenstaScript) /\ OpenstaScript[m][1] = "path"
    BY <1>1, <1>2, <1>7, Placed
  <2>3. /\ m - 1 \in 1..printed[p] /\ m + 1 \in 1..printed[p] /\ mode \in Modes
        /\ OpenstaScript[m - 1] = <<"open", mode>> /\ OpenstaScript[m + 1] = <<"close", mode>>
    BY <1>1, <2>1, <2>2, PathsInSections DEF Finished
  <2>4. PICK o, c \in DOMAIN report : nth[o] = m - 1 /\ nth[c] = m + 1
    BY <2>3 DEF Numbers
  <2>5. /\ report[o].k = "open" /\ report[o].v = mode
        /\ report[c].k = "close" /\ report[c].v = mode
    <3>1. /\ OpenstaScript[m - 1][1] = "open" /\ OpenstaScript[m - 1][2] = mode
          /\ OpenstaScript[m + 1][1] = "close" /\ OpenstaScript[m + 1][2] = mode
      BY <2>3
    <3>2. Follows(report[o], nth[o]) /\ Follows(report[c], nth[c]) BY <1>1, <1>2, <2>4, Placed
    <3> HIDE DEF m, mode
    <3> QED BY <1>1, <2>4, <3>1, <3>2 DEF Follows
  <2>6. o < i /\ i < c
    <3>1. i \in Int /\ o \in Int /\ c \in Int BY <1>1, <1>7 DEF ReportTypes
    <3>2. nth[o] < nth[i] /\ nth[i] < nth[c] /\ nth[o] # 0 /\ nth[i] # 0 /\ nth[c] # 0
      BY <2>2, <2>3, <2>4
    <3>3. nth[i] \in Nat /\ nth[o] \in Nat /\ nth[c] \in Nat BY <1>7
    <3>4. \A j, k \in DOMAIN report : j < k /\ nth[k] # 0 => nth[j] < nth[k]
      BY <2>1 DEF Numbers
    <3>5. ~(i < o) /\ ~(c < i) BY <1>7, <3>2, <3>3, <3>4
    <3>6. i # o /\ i # c BY <3>2, <3>3
    <3> QED BY <3>1, <3>5, <3>6
  <2> HIDE DEF m, mode
  <2>7. o \in Mark("open", mode) /\ c \in Mark("close", mode)
    <3>1. o \in At(Numbered) /\ c \in At(Numbered) /\ o \in At({"open"}) /\ c \in At({"close"})
      BY <2>5 DEF At, Numbered
    <3>2. o \in Body /\ c \in Body BY <1>1, <2>5, <3>1, BodyHolds
    <3> QED BY <2>5, <3>1, <3>2 DEF Mark
  <2>8. i \in Section(mode, "path") BY <1>7, <2>6, <2>7 DEF Section, At
  <2>9. PICK w \in Section(mode + 2, "worst") :
          /\ report[w].n <= report[i].n
          /\ \E j \in Section(mode, "path") : report[w].n = report[j].n
    <3>1. ModeConsistent(mode) BY <1>4, <2>3
    <3>2. Section(mode + 2, "worst") # {} BY <3>1, FS_EmptySet DEF ModeConsistent
    <3> QED BY <2>8, <3>1, <3>2 DEF ModeConsistent
  <2>10. report[w].n \in {-1, 0} BY <1>6, <2>9 DEF Section
  <2> QED BY <1>4, <1>6, <1>7, <2>3, <2>9, <2>10 DEF At
<1> QED BY <1>2, <1>3, <1>5, <1>7, NothingSolved DEF Clean, Finding

(* A solver's transcript: each outcome follows its own process's solve.     *)
LEMMA YosysClean ==
  ASSUME TranscriptAssumption, ReportInv, format = "yosys-sat", YosysSat = "pass"
  PROVE  Clean
<1>1. ReportTypes /\ Script = YosysScript BY DEF ReportInv, Script
<1> PICK nth \in [DOMAIN report -> Nat] : Numbers(nth) BY DEF ReportInv
<1>2. /\ Paired /\ At({"diagnostic"}) = {}
      /\ \A i \in At({"outcome"}) : report[i].v # 1
  BY DEF YosysSat, Result
<1>3. \A i \in DOMAIN report : report[i].k \in {"constraint", "solve", "outcome", "script end"}
  BY <1>1, <1>2, Placed, YosysIs DEF At
<1>4. \A i \in DOMAIN report : ~Finding(report[i])
  <2> SUFFICES ASSUME NEW i \in DOMAIN report, report[i].k = "outcome", report[i].v > 0 PROVE FALSE
    BY <1>3 DEF Finding
  <2>1. Follows(report[i], nth[i]) BY <1>1, Placed
  <2>2. report[i].v \in {0, 1} BY <2>1 DEF Follows
  <2>3. report[i].v # 1 BY <1>2 DEF At
  <2> QED BY <2>2, <2>3
<1> DEFINE solves == At({"solve"})  outcomes == At({"outcome"})
<1>5. /\ \A i \in solves : i \in DOMAIN report /\ report[i].by \in Process /\ nth[i] \in {2, 4}
      /\ \A i \in outcomes : i \in DOMAIN report /\ report[i].by \in Process
                               /\ nth[i] \in {3, 5} /\ nth[i] \in 1..printed[report[i].by]
  <2>1. \A i \in solves \cup outcomes :
          i \in DOMAIN report /\ report[i].k # "diagnostic" /\ report[i].k \in {"solve", "outcome"}
    BY DEF At
  <2>2. \A i \in solves : report[i].k = "solve" BY DEF At
  <2>3. \A i \in outcomes : report[i].k = "outcome" BY DEF At
  <2> HIDE DEF solves, outcomes
  <2>4. \A i \in solves \cup outcomes :
          /\ report[i].by \in Process /\ nth[i] \in 1..printed[report[i].by] /\ nth[i] \in 1..6
          /\ report[i].k = YosysScript[nth[i]][1]
    <3> TAKE i \in solves \cup outcomes
    <3>1. /\ report[i].by \in Process /\ nth[i] \in 1..printed[report[i].by]
          /\ nth[i] \in 1..Len(Script) /\ report[i].k = Script[nth[i]][1]
      BY <1>1, <2>1, Placed
    <3> QED BY <1>1, <3>1, YosysIs
  <2> QED BY <2>1, <2>2, <2>3, <2>4, YosysIs
<1>6. \A i \in outcomes : \E j \in solves : report[j].by = report[i].by /\ nth[j] + 1 = nth[i]
  <2> TAKE i \in outcomes
  <2>1. /\ i \in DOMAIN report /\ report[i].by \in Process
        /\ nth[i] \in {3, 5} /\ nth[i] \in 1..printed[report[i].by]
    BY <1>5
  <2>2. nth[i] - 1 \in 1..printed[report[i].by] /\ nth[i] - 1 \in {2, 4}
    BY <1>1, <2>1 DEF ReportTypes
  <2>3. PICK j \in DOMAIN report : report[j].by = report[i].by /\ nth[j] = nth[i] - 1
    BY <2>1, <2>2 DEF Numbers
  <2>4. report[j].k # "diagnostic" BY <2>2, <2>3 DEF Numbers
  <2>5. nth[j] \in 1..6 /\ nth[j] \in {2, 4} /\ report[j].k = YosysScript[nth[j]][1]
    <3>1. nth[j] \in 1..Len(Script) /\ report[j].k = Script[nth[j]][1] BY <1>1, <2>4, Placed
    <3> QED BY <1>1, <2>2, <2>3, <3>1, YosysIs
  <2>6. report[j].k = "solve" BY <2>5, YosysIs
  <2> QED BY <2>1, <2>3, <2>6 DEF At
<1> DEFINE solved == [i \in outcomes |->
                        CHOOSE j \in solves : report[j].by = report[i].by /\ nth[j] + 1 = nth[i]]
<1>7. /\ solved \in [outcomes -> solves]
      /\ \A i \in outcomes : report[solved[i]].by = report[i].by /\ nth[solved[i]] + 1 = nth[i]
  BY <1>6
<1> HIDE DEF solved
<1>8. \A i, j \in outcomes : solved[i] = solved[j] => i = j
  <2> SUFFICES ASSUME NEW i \in outcomes, NEW j \in outcomes, solved[i] = solved[j] PROVE i = j
    OBVIOUS
  <2>1. report[i].by = report[j].by /\ nth[i] = nth[j] /\ nth[i] \in {3, 5} BY <1>5, <1>7
  <2>2. i \in DOMAIN report /\ j \in DOMAIN report BY <1>5
  <2>3. i \in Int /\ j \in Int BY <1>1, <2>2 DEF ReportTypes
  <2>4. ~(i < j) /\ ~(j < i) BY <2>1, <2>2 DEF Numbers
  <2> QED BY <2>3, <2>4
<1>9. IsFiniteSet(solves) /\ IsFiniteSet(outcomes) BY <1>1, AtFinite
<1>10. Cardinality(solves) = Cardinality(outcomes) BY <1>2 DEF Paired
<1> HIDE DEF solves, outcomes
<1>11. solved \in Surjection(outcomes, solves)
  <2>1. solved \in Injection(outcomes, solves) BY <1>7, <1>8 DEF Injection, IsInjective
  <2> QED BY <1>9, <1>10, <2>1, FS_Injection
<1>12. \A p \in Process : Cardinality({i \in solves : report[i].by = p})
                           = Cardinality({i \in outcomes : report[i].by = p})
  <2> TAKE p \in Process
  <2> DEFINE own == {i \in outcomes : report[i].by = p}  proofs == {i \in solves : report[i].by = p}
             mine == [i \in own |-> solved[i]]
  <2>1. mine \in [own -> proofs] BY <1>7
  <2>2. \A i, j \in own : mine[i] = mine[j] => i = j BY <1>8
  <2>3. \A j \in proofs : \E i \in own : mine[i] = j
    <3> TAKE j \in proofs
    <3>1. PICK i \in outcomes : solved[i] = j BY <1>11 DEF Surjection
    <3> QED BY <1>7, <3>1
  <2>4. IsFiniteSet(own) BY <1>9, FS_Subset
  <2> HIDE DEF own, proofs, mine
  <2>5. mine \in Injection(own, proofs) /\ mine \in Surjection(own, proofs)
    BY <2>1, <2>2, <2>3 DEF Injection, IsInjective, Surjection
  <2>6. ExistsBijection(own, proofs) BY <2>5 DEF ExistsBijection, Bijection
  <2>7. Cardinality(proofs) = Cardinality(own) BY <2>4, <2>6, FS_Bijection
  <2> QED BY <2>7 DEF own, proofs
<1> QED BY <1>4, <1>12 DEF Clean, solves, outcomes

(* A document that is well formed consists of test cases in one element. *)
LEMMA XmlLines ==
  ASSUME ReportTypes, WellFormedXml
  PROVE  /\ \A i \in DOMAIN report : report[i].k \in {"root", "case", "close root"}
         /\ Len(report) \in DOMAIN report /\ report[Len(report)].k = "close root"
<1>1. Len(report) \in Nat /\ DOMAIN report = 1..Len(report) BY DEF ReportTypes
<1>2. /\ Len(report) >= 2 /\ report[1].k = "root" /\ report[Len(report)].k = "close root"
      /\ \A i \in 2..(Len(report) - 1) : report[i].k = "case"
  BY DEF WellFormedXml
<1> PICK n \in Nat : n = Len(report) BY <1>1
<1>3. \A i \in 1..n : i = 1 \/ i = n \/ i \in 2..(n - 1) OBVIOUS
<1>4. \A i \in DOMAIN report : report[i].k \in {"root", "case", "close root"}
  BY <1>1, <1>2, <1>3
<1>5. n >= 2 /\ DOMAIN report = 1..n BY <1>1, <1>2
<1>6. n \in DOMAIN report BY <1>5
<1> QED BY <1>2, <1>4, <1>6

(* XML: every test case that was written is judged. *)
LEMMA XmlClean ==
  ASSUME TranscriptAssumption, ReportInv, format \in {"junit", "klayout-rdb"}, WellFormedXml,
         format = "junit" => Junit = "pass", format = "klayout-rdb" => KlayoutRdb = "pass"
  PROVE  Clean
<1>1. ReportTypes BY DEF ReportInv
<1> PICK nth \in [DOMAIN report -> Nat] : Numbers(nth) BY DEF ReportInv
<1>2. \A i \in At({"case"}) : report[i].v # 1 /\ (format = "junit" => report[i].v # 2)
  BY DEF Junit, KlayoutRdb, Result
<1>3. \A i \in DOMAIN report : ~Finding(report[i])
  <2> SUFFICES ASSUME NEW i \in DOMAIN report, report[i].k = "case", report[i].v > 0 PROVE FALSE
    BY <1>1, XmlLines DEF Finding
  <2>1. Follows(report[i], nth[i]) BY <1>1, Placed
  <2>2. report[i].v \in {0, 1} \/ (format = "junit" /\ report[i].v = 2) BY <2>1 DEF Follows
  <2>3. report[i].v # 1 /\ (format = "junit" => report[i].v # 2) BY <1>2 DEF At
  <2> QED BY <2>2, <2>3
<1>4. \A i \in DOMAIN report : report[i].k \notin {"solve", "outcome"} BY <1>1, XmlLines
<1> QED BY <1>3, <1>4, NothingSolved DEF Clean

(* The line that ends a script is there only when its tool has finished.    *)
LEMMA EndedMeansFinished ==
  ASSUME TranscriptAssumption, ReportInv, NEW i \in DOMAIN report,
         \/ format = "yosys-sat" /\ report[i].k = "script end"
         \/ format \in {"junit", "klayout-rdb"} /\ report[i].k = "close root"
  PROVE  \E p \in Process : Finished(p)
<1>1. ReportTypes BY DEF ReportInv
<1> PICK nth \in [DOMAIN report -> Nat] : Numbers(nth) BY DEF ReportInv
<1>2. /\ report[i].by \in Process /\ nth[i] \in 1..printed[report[i].by]
      /\ nth[i] \in 1..Len(Script) /\ report[i].k = Script[nth[i]][1]
  BY <1>1, Placed
<1>3. nth[i] = Len(Script)
  <2>1. CASE format = "yosys-sat"
    <3>1. Script = YosysScript BY <2>1 DEF Script
    <3> QED BY <1>2, <2>1, <3>1, YosysIs
  <2>2. CASE format \in {"junit", "klayout-rdb"}
    <3>1. Script = XmlScript BY <2>2 DEF Script
    <3> QED BY <1>2, <2>2, <3>1, XmlIs
  <2> QED BY <2>1, <2>2
<1>4. printed[report[i].by] \in 0..Len(Script) /\ Len(Script) \in Nat
  BY <1>1, <1>2, ScriptIs DEF ReportTypes, TranscriptAssumption
<1>5. Len(Script) \in 1..printed[report[i].by] BY <1>2, <1>3
<1>6. printed[report[i].by] = Len(Script) BY ONLY <1>4, <1>5
<1> QED BY <1>2, <1>6 DEF Finished

(* Whatever the adapter is, its verdict is complete. *)
LEMMA InvMeansComplete ==
  ASSUME TranscriptAssumption, ReportInv PROVE VerdictIsComplete
<1>1. CASE format \in {"klayout", "opensta"}
  <2>1. Status = IF Framed THEN (IF format = "klayout" THEN Klayout ELSE Opensta) ELSE "unknown"
    BY <1>1 DEF Status
  <2>2. VerdictOfFinishedTool BY <1>1, <2>1, FrameOfOne DEF VerdictOfFinishedTool
  <2>3. Status = "pass" => Clean BY <1>1, <2>1, KlayoutClean, OpenstaClean
  <2> QED BY <2>2, <2>3 DEF VerdictIsComplete, NoFindingDropped, Clean
<1>2. CASE format = "yosys-sat"
  <2>1. Status = YosysSat BY <1>2 DEF Status
  <2>2. YosysSat # "unknown" => \E i \in DOMAIN report : report[i].k = "script end"
    <3>1. YosysSat # "unknown" => Cardinality(At({"script end"})) = 1 BY DEF YosysSat, Paired
    <3>2. Cardinality({}) # 1 BY FS_EmptySet
    <3>3. YosysSat # "unknown" => At({"script end"}) # {} BY <3>1, <3>2
    <3> QED BY <3>3 DEF At
  <2>3. VerdictOfFinishedTool BY <1>2, <2>1, <2>2, EndedMeansFinished DEF VerdictOfFinishedTool
  <2>4. Status = "pass" => Clean BY <1>2, <2>1, YosysClean
  <2> QED BY <2>3, <2>4 DEF VerdictIsComplete, NoFindingDropped, Clean
<1>3. CASE format \in {"junit", "klayout-rdb"}
  <2>1. Status = IF format = "junit" THEN Junit ELSE KlayoutRdb BY <1>3 DEF Status
  <2>2. Status # "unknown" => WellFormedXml BY <1>3, <2>1 DEF Junit, KlayoutRdb
  <2>3. Status # "unknown" => \E i \in DOMAIN report : report[i].k = "close root"
    BY <2>2, XmlLines DEF ReportInv
  <2>4. VerdictOfFinishedTool BY <1>3, <2>3, EndedMeansFinished DEF VerdictOfFinishedTool
  <2>5. Status = "pass" => Clean BY <1>3, <2>1, <2>2, XmlClean
  <2> QED BY <2>4, <2>5 DEF VerdictIsComplete, NoFindingDropped, Clean
<1> QED BY <1>1, <1>2, <1>3 DEF ReportInv, ReportTypes, TranscriptAssumption

(* However the tools behind a report die, start again or write side by      *)
(* side: a verdict is only given on the report of a tool that came to its   *)
(* end, and one that passes leaves out nothing that anybody found           *)
(* (native.py:25-38, physical.py:19-133, parsers.py:52-134).               *)
THEOREM VerdictsAreComplete ==
  ASSUME TranscriptAssumption PROVE ReportSpec => []VerdictIsComplete
<1>1. ReportInit => ReportInv
  <2> SUFFICES ASSUME ReportInit PROVE ReportInv OBVIOUS
  <2>1. Len(Script) \in Nat \ {0} BY ScriptIs DEF ReportInit, TranscriptAssumption
  <2>2. ReportTypes BY <2>1 DEF ReportInit, ReportTypes
  <2>3. \A p \in Process : printed[p] = 0 BY DEF ReportInit
  <2>4. report = <<>> /\ DOMAIN report = {} BY DEF ReportInit
  <2>5. \E nth \in [DOMAIN report -> Nat] : Numbers(nth)
    <3>1. <<>> \in [DOMAIN report -> Nat] BY <2>4
    <3>2. Numbers(<<>>) BY <2>3, <2>4 DEF Numbers
    <3> QED BY <3>1, <3>2
  <2> QED BY <2>1, <2>2, <2>3, <2>5 DEF ReportInv
<1>2. ReportInv /\ [ReportNext]_reportVars => ReportInv' BY ReportInvStep
<1>3. ReportInv => VerdictIsComplete BY InvMeansComplete
<1> QED BY <1>1, <1>2, <1>3, PTL DEF ReportSpec
=============================================================================
