----------------------------- MODULE TreeCapture -----------------------------
(***************************************************************************)
(* Captures of things that are not one file: a directory is listed and     *)
(* then hashed file by file (tree_capture.py), a Git worktree is asked for *)
(* its commit and then whether it is clean (git_capture.py), while people  *)
(* go on working in both.  register_tree captures twice; the drift check   *)
(* of every later begin, finish and gate captures once and compares.       *)
(*                                                                         *)
(* New bytes are new: an edit gives a file a content it never had, a       *)
(* commit a hash it never had.  A writer who puts old bytes back between   *)
(* two observations is outside the promise (docs/SECURITY.md:13).          *)
(***************************************************************************)
EXTENDS Naturals, FiniteSets, FiniteSetsExt

CONSTANTS MaxFile,  \* files are numbered in the order they are captured
          MaxEdits  \* bound on what people do

File == 1..MaxFile
ASSUME CaptureAssumption == MaxFile \in Nat \ {0} /\ MaxEdits \in Nat

VARIABLES
    tree,      \* file -> its content; 0: there is no such file
    repo,      \* [head, dirty]: the Git worktree
    phase,     \* idle; pass1, pass2: capturing; captured; drift: checking;
               \* fresh, stale; failed; git, git drift: inspecting; pinned;
               \* git fresh, git stale
    listing,   \* the files still to be hashed in this pass
    observed,  \* what the pass has hashed
    manifest,  \* what the first pass observed
    recorded,  \* the manifest of the registered resource
    commit,    \* the answer of rev-parse HEAD
    pinned,    \* the commit of the registered worktree; 0: there is none
    window,    \* history: the trees there were since the operation started
    repos,     \* history: the worktrees there were since it started
    edits

captureVars == <<tree, repo, phase, listing, observed, manifest, recorded, commit, pinned,
                 window, repos, edits>>
people == <<tree, repo, edits>>

NoFiles == [f \in {} |-> 0]
Present(t) == {f \in File : t[f] # 0}
Content(t) == [f \in Present(t) |-> t[f]]

CaptureInit ==
    /\ tree = [f \in File |-> IF f = 1 THEN 1 ELSE 0]
    /\ repo = [head |-> 1, dirty |-> FALSE]
    /\ phase = "idle"
    /\ listing = {} /\ observed = NoFiles /\ manifest = NoFiles /\ recorded = NoFiles
    /\ commit = 0 /\ pinned = 0
    /\ window = {Content(tree)} /\ repos = {repo}
    /\ edits = 1

-----------------------------------------------------------------------------

(* directory.rglob, sorted: the listing is complete before a file is read. *)
List(to) ==
    /\ phase' = to
    /\ listing' = Present(tree)
    /\ observed' = NoFiles

StartCapture ==
    /\ phase \in {"idle", "fresh", "stale", "failed"}
    /\ List("pass1")
    /\ window' = {Content(tree)} /\ repos' = {repo}
    /\ UNCHANGED <<people, manifest, recorded, commit, pinned>>

(* The next file in order; one that is gone by now raises.  A file that    *)
(* changes while it is read raises too: reading it is one step.            *)
HashFile ==
    /\ phase \in {"pass1", "pass2", "drift"} /\ listing # {}
    /\ LET f == Min(listing) IN
         IF tree[f] = 0
           THEN /\ phase' = IF phase = "drift" THEN "stale" ELSE "failed"
                /\ listing' = {} /\ UNCHANGED observed
           ELSE /\ observed' = [g \in DOMAIN observed \cup {f} |->
                                   IF g = f THEN tree[f] ELSE observed[g]]
                /\ listing' = listing \ {f} /\ UNCHANGED phase
    /\ UNCHANGED <<people, manifest, recorded, commit, pinned, window, repos>>

(* The first pass ends; an empty directory is no evidence. *)
SecondPass ==
    /\ phase = "pass1" /\ listing = {}
    /\ manifest' = observed
    /\ IF observed = NoFiles
         THEN phase' = "failed" /\ UNCHANGED <<listing, observed>>
         ELSE List("pass2")
    /\ UNCHANGED <<people, recorded, commit, pinned, window, repos>>

(* "Directory changed during capture", or the manifest is registered. *)
Stable == observed = manifest

Register ==
    /\ phase = "pass2" /\ listing = {}
    /\ IF Stable THEN phase' = "captured" /\ recorded' = manifest
                 ELSE phase' = "failed" /\ UNCHANGED recorded
    /\ UNCHANGED <<people, listing, observed, manifest, commit, pinned, window, repos>>

(* Graph.drift of the registered tree: one pass. *)
StartDrift ==
    /\ phase \in {"captured", "fresh", "stale"}
    /\ List("drift")
    /\ window' = {Content(tree)} /\ repos' = {repo}
    /\ UNCHANGED <<people, manifest, recorded, commit, pinned>>

(* Fault: a file that was added is not noticed. *)
UnchangedListed == \A f \in DOMAIN recorded : f \in DOMAIN observed /\ observed[f] = recorded[f]

Unchanged == observed = recorded

EndDrift ==
    /\ phase = "drift" /\ listing = {}
    /\ phase' = IF Unchanged THEN "fresh" ELSE "stale"
    /\ UNCHANGED <<people, listing, observed, manifest, recorded, commit, pinned, window, repos>>

(* inspect_git: rev-parse HEAD first, status --porcelain after it; to       *)
(* capture the worktree, or in the drift check of the one captured.        *)
RevParse ==
    /\ \/ phase \in {"idle", "failed"} /\ pinned = 0 /\ phase' = "git"
       \/ phase \in {"pinned", "git fresh", "git stale"} /\ phase' = "git drift"
    /\ commit' = repo.head
    /\ window' = {Content(tree)} /\ repos' = {repo}
    /\ UNCHANGED <<people, listing, observed, manifest, recorded, pinned>>

(* "Cannot capture a dirty Git worktree", or its commit is registered. *)
PinCommit ==
    /\ phase = "git"
    /\ IF repo.dirty THEN phase' = "failed" /\ UNCHANGED pinned
                     ELSE phase' = "pinned" /\ pinned' = commit
    /\ UNCHANGED <<people, listing, observed, manifest, recorded, commit, window, repos>>

SameWorktree == commit = pinned /\ ~repo.dirty

EndGitDrift ==
    /\ phase = "git drift"
    /\ phase' = IF SameWorktree THEN "git fresh" ELSE "git stale"
    /\ UNCHANGED <<people, listing, observed, manifest, recorded, commit, pinned, window, repos>>

-----------------------------------------------------------------------------
(* People: a file gets new bytes or goes away, the worktree is edited,     *)
(* committed or reset.                                                     *)

Work(t, r) ==
    /\ edits < MaxEdits
    /\ edits' = edits + 1
    /\ tree' = t /\ repo' = r
    /\ window' = window \cup {Content(t)} /\ repos' = repos \cup {r}
    /\ UNCHANGED <<phase, listing, observed, manifest, recorded, commit, pinned>>

Edit(f)   == Work([tree EXCEPT ![f] = edits + 1], repo)
Delete(f) == tree[f] # 0 /\ Work([tree EXCEPT ![f] = 0], repo)
Modify    == ~repo.dirty /\ Work(tree, [repo EXCEPT !.dirty = TRUE])
Commit    == repo.dirty /\ Work(tree, [head |-> edits + 1, dirty |-> FALSE])
Reset     == repo.dirty /\ Work(tree, [repo EXCEPT !.dirty = FALSE])

CaptureNext ==
    \/ StartCapture \/ HashFile \/ SecondPass \/ Register
    \/ StartDrift \/ EndDrift \/ RevParse \/ PinCommit \/ EndGitDrift
    \/ \E f \in File : Edit(f) \/ Delete(f)
    \/ Modify \/ Commit \/ Reset

CaptureSpec == CaptureInit /\ [][CaptureNext]_captureVars

-----------------------------------------------------------------------------

(* The manifest that is registered lists exactly the files, with exactly   *)
(* the contents, that the directory held at one instant of the capture,    *)
(* although it was put together file by file while people added, changed   *)
(* and removed files (engine.py:154-157, tree_capture.py:14-22).           *)
CapturedAtOnce == phase = "captured" => recorded \in window

(* A tree the drift check lets pass was, at one instant of the check, the  *)
(* registered one, nothing added and nothing missing (graph.py:82-89).     *)
FreshAtOnce == phase = "fresh" => recorded \in window

(* A worktree the drift check lets pass was, at one instant of the check,   *)
(* clean at the registered commit, though HEAD and cleanliness are two     *)
(* questions and people edit and reset in between.  A commit in between is *)
(* the exception: the answer is the old commit and clean                   *)
(* (git_capture.py:24-25, graph.py:90-96).                                 *)
GitFreshAtOnce ==
    phase = "git fresh" /\ (\A r \in repos : r.head = commit)
        => [head |-> pinned, dirty |-> FALSE] \in repos

(* What is registered, or found unchanged, was there at one instant, though *)
(* it is observed bit by bit.                                              *)
ObservedAtOnce == CapturedAtOnce /\ FreshAtOnce /\ GitFreshAtOnce
=============================================================================
