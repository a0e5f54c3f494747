---------------------------- MODULE Transcripts ----------------------------
(***************************************************************************)
(* The report adapters of src/opentapeout (physical.py, native.py and the  *)
(* XML ones of parsers.py) against the reports tools really leave: a        *)
(* wrapper may start its tool again after it died, let two of them write    *)
(* to the same output, and be captured at any moment.                       *)
(*                                                                         *)
(* A report is the sequence of its lines (of its elements, for XML); a     *)
(* line is a record                                                        *)
(*   [by |-> the process that wrote it, k |-> its kind,                    *)
(*    v, n |-> the numbers it carries].                                    *)
(* Lines are written whole.  What a collector prints is taken from         *)
(* examples/physical and scripts/qualify_yosys.py.                         *)
(***************************************************************************)
EXTENDS Integers, FiniteSets, Sequences

CONSTANTS Process,    \* the processes that may write the report, in order
          Formats,    \* the adapters checked
          Overlapping \* the formats whose processes may run side by side

TranscriptAssumption ==
    /\ Process \subseteq Nat \ {0}
    /\ Formats \subseteq {"klayout", "opensta", "yosys-sat", "junit", "klayout-rdb"}
    /\ Overlapping \subseteq Formats

VARIABLES format,   \* the adapter the run was told to use
          report,   \* the lines at the report path
          alive,    \* process -> not_started; running; over
          printed   \* process -> the lines of its script it has printed

reportVars == <<format, report, alive, printed>>

(* The positions of the lines of these kinds. *)
At(kinds) == {i \in DOMAIN report : report[i].k \in kinds}

-----------------------------------------------------------------------------
(* What an honest tool writes. *)

Modes    == {1, 2}                 \* setup and hold
Sections == 1..6                   \* paths, worst slack and TNS of each mode

(* The kinds of line a tool prints, one after the other. *)
KlayoutScript == << <<"begin", 0>>, <<"data", 0>>, <<"end", 0>> >>
OpenstaScript ==
    << <<"begin", 0>>, <<"clocks", 0>>, <<"constraints", 0>>,
       <<"open", 1>>, <<"path", 1>>,  <<"close", 1>>, <<"open", 2>>, <<"path", 2>>,  <<"close", 2>>,
       <<"open", 3>>, <<"worst", 3>>, <<"close", 3>>, <<"open", 4>>, <<"worst", 4>>, <<"close", 4>>,
       <<"open", 5>>, <<"tns", 5>>,   <<"close", 5>>, <<"open", 6>>, <<"tns", 6>>,   <<"close", 6>>,
       <<"end", 0>> >>
YosysScript ==
    << <<"constraint", 0>>, <<"solve", 0>>, <<"outcome", 0>>, <<"solve", 0>>, <<"outcome", 0>>,
       <<"script end", 0>> >>
XmlScript == << <<"root", 0>>, <<"case", 0>>, <<"case", 0>>, <<"close root", 0>> >>

Script ==
    IF format = "klayout" THEN KlayoutScript
    ELSE IF format = "opensta" THEN OpenstaScript
    ELSE IF format = "yosys-sat" THEN YosysScript ELSE XmlScript

(* The slack of the path p reported. *)
Slack(p, mode) ==
    LET i == CHOOSE j \in At({"path"}) : report[j].by = p /\ report[j].v = mode
    IN  report[i].n

(* The numbers a line of this kind may carry.                               *)
(*   data: markers (or a mismatch) found, shapes (or devices) compared;     *)
(*   path: a reported slack; worst, tns: the tool's summary of the mode;    *)
(*   outcome: 1 for a counterexample; case: 1 failed, 2 skipped;            *)
(*   root: the declared number of tests.                                    *)
Values(p, k, v) ==
    CASE k = "data"                       -> {0, 1} \X {0, 1}
      [] k \in {"clocks", "constraints"}  -> {0, 1} \X {0}
      [] k = "path"                       -> {v} \X {-1, 0}
      [] k = "worst"                      -> {<<v, Slack(p, v - 2)>>}
      [] k = "tns"                        -> {<<v, IF Slack(p, v - 4) < 0 THEN Slack(p, v - 4) ELSE 0>>}
      [] k = "outcome"                    -> {0, 1} \X {0}
      [] k = "case"                       -> (IF format = "junit" THEN {0, 1, 2} ELSE {0, 1}) \X {0}
      [] k = "root"                       -> {<<2, 0>>}
      [] OTHER                            -> {<<v, 0>>}

ReportInit ==
    /\ format \in Formats
    /\ report = <<>>
    /\ alive = [p \in Process |-> "not_started"]
    /\ printed = [p \in Process |-> 0]

(* The wrapper starts the tool, for the first time or once more. *)
Launch(p) ==
    /\ alive[p] = "not_started"
    /\ \A q \in Process : q < p => alive[q] # "not_started"
    /\ format \in Overlapping \/ \A q \in Process : alive[q] # "running"
    /\ alive' = [alive EXCEPT ![p] = "running"]
    /\ UNCHANGED <<format, report, printed>>

(* The tool prints its next line. *)
WriteLine(p) ==
    /\ alive[p] = "running"
    /\ printed' = [printed EXCEPT ![p] = @ + 1]
    /\ LET step == Script[printed'[p]]
       IN  \E x \in Values(p, step[1], step[2]) :
             report' = Append(report, [by |-> p, k |-> step[1], v |-> x[1], n |-> x[2]])
    /\ alive' = [alive EXCEPT ![p] = IF printed'[p] = Len(Script) THEN "over" ELSE "running"]
    /\ UNCHANGED format

(* The tool reports an error on its output and stops, or stops at once. *)
Break(p) ==
    /\ alive[p] = "running"
    /\ alive' = [alive EXCEPT ![p] = "over"]
    /\ report' \in {report, Append(report, [by |-> p, k |-> "diagnostic", v |-> 0, n |-> 0])}
    /\ UNCHANGED <<format, printed>>

ReportNext == \E p \in Process : Launch(p) \/ WriteLine(p) \/ Break(p)

ReportSpec == ReportInit /\ [][ReportNext]_reportVars

-----------------------------------------------------------------------------
(* What the adapters make of it: "pass", "fail", or "unknown" (a report     *)
(* that is rejected is kept with that status).                              *)

Numbered == {"begin", "end", "data", "clocks", "constraints", "open", "close"}  \* OT_ lines

Result(bad) == IF bad THEN "fail" ELSE "pass"

(* Fault: the frame is a beginning and an end after it. *)
FramedLoosely ==
    /\ \E b \in At({"begin"}), e \in At({"end"}) : b < e
    /\ At({"diagnostic"}) = {}

(* _frame: one beginning and one end, in this order, no diagnostic, and no  *)
(* collector line outside.                                                  *)
Framed ==
    /\ Cardinality(At({"begin"})) = 1 /\ Cardinality(At({"end"})) = 1
    /\ At({"diagnostic"}) = {}
    /\ \A b \in At({"begin"}), e \in At({"end"}) :
          b < e /\ \A i \in At(Numbered) : b <= i /\ i <= e

(* The positions inside the frame. *)
Body == {i \in DOMAIN report : \E b \in At({"begin"}), e \in At({"end"}) : b < i /\ i < e}

(* _klayout: one data record, which compared something. *)
Klayout ==
    IF \E d \in Body : /\ At(Numbered) \cap Body = {d}
                       /\ report[d].k = "data" /\ report[d].n >= 1
      THEN Result(\E d \in At({"data"}) \cap Body : report[d].v > 0)
      ELSE "unknown"

(* The boundaries of a section of an OpenSTA transcript, and its lines.     *)
Mark(kind, i)    == {j \in At({kind}) \cap Body : report[j].v = i}
Section(i, kind) == {j \in At({kind}) : \E o \in Mark("open", i), c \in Mark("close", i) :
                                            o < j /\ j < c}

(* The six sections once each, in order, each closed before the next. *)
InOrder ==
    \A i, j \in Sections :
        /\ Cardinality(Mark("open", i)) = 1 /\ Cardinality(Mark("close", i)) = 1
        /\ \A o \in Mark("open", i), c \in Mark("close", j) : o < c <=> i <= j

(* Reported paths and the two summaries of a mode agree. *)
ModeConsistent(m) ==
    LET paths == Section(m, "path")
        worst == Section(m + 2, "worst")
        tns   == Section(m + 4, "tns")
    IN  /\ Cardinality(worst) = 1 /\ Cardinality(tns) = 1
        /\ \A w \in worst :
              /\ \A i \in paths : report[w].n <= report[i].n
              /\ \E i \in paths : report[w].n = report[i].n
              /\ \A t \in tns :
                    IF report[w].n >= 0 THEN report[t].n = 0 ELSE report[t].n <= report[w].n

(* _opensta. *)
Opensta ==
    LET clocks == At({"clocks"}) \cap Body
        constraints == At({"constraints"}) \cap Body
    IN  IF /\ Cardinality(clocks) = 1 /\ Cardinality(constraints) = 1
           /\ \A i \in clocks : report[i].v > 0
           /\ InOrder
           /\ \A m \in Modes : ModeConsistent(m)
          THEN Result(\/ \E i \in constraints : report[i].v = 0
                      \/ \E m \in Modes : \E w \in Section(m + 2, "worst") : report[w].n < 0)
          ELSE "unknown"

(* Every solver invocation is followed by its outcome before the next, and  *)
(* all of them by the one end of the script.                                *)
Paired ==
    LET solves   == At({"solve"})
        outcomes == At({"outcome"})
    IN  /\ Cardinality(solves) = Cardinality(outcomes)
        /\ Cardinality(At({"script end"})) = 1
        /\ \A e \in At({"script end"}), o \in outcomes : o < e
        /\ \A i \in solves \cup outcomes :
              LET before == {j \in solves : j < i}
                  done   == {j \in outcomes : j < i}
              IN  Cardinality(before) = Cardinality(done) + IF i \in solves THEN 0 ELSE 1

(* yosys_sat. *)
YosysSat ==
    IF /\ At({"constraint"}) # {} /\ At({"solve"}) # {} /\ At({"outcome"}) # {}
       /\ Paired /\ At({"diagnostic"}) = {}
      THEN Result(\E i \in At({"outcome"}) : report[i].v = 1)
      ELSE "unknown"

(* _xml: one element with everything inside. *)
WellFormedXml ==
    /\ Len(report) >= 2 /\ report[1].k = "root" /\ report[Len(report)].k = "close root"
    /\ \A i \in 2..(Len(report) - 1) : report[i].k = "case"

(* parse, of "junit": a skipped test leaves the report incomplete. *)
Junit ==
    LET cases == At({"case"})
    IN  IF /\ WellFormedXml /\ cases # {} /\ report[1].v = Cardinality(cases)
           /\ \A i \in cases : report[i].v # 2
          THEN Result(\E i \in cases : report[i].v = 1) ELSE "unknown"

(* parse, of "klayout-rdb": an element with v = 1 is a marker. *)
KlayoutRdb ==
    IF WellFormedXml THEN Result(\E i \in At({"case"}) : report[i].v = 1) ELSE "unknown"

(* parse. *)
Status ==
    CASE format = "yosys-sat"   -> YosysSat
      [] format = "junit"       -> Junit
      [] format = "klayout-rdb" -> KlayoutRdb
      [] format = "klayout"     -> IF Framed THEN Klayout ELSE "unknown"
      [] format = "opensta"     -> IF Framed THEN Opensta ELSE "unknown"

-----------------------------------------------------------------------------

Finished(p) == printed[p] = Len(Script)

(* A finding: a counterexample, a marker, a failed or skipped test, a       *)
(* violated path, missing constraints, an error.                            *)
Finding(l) ==
    \/ l.k = "diagnostic"
    \/ l.k \in {"outcome", "data", "case"} /\ l.v > 0
    \/ l.k = "constraints" /\ l.v = 0
    \/ l.k = "path" /\ l.n < 0

(* A verdict, and so a pass or a list of violations one may waive, is only  *)
(* given on the report of a tool that came to its end; for the collectors   *)
(* with a frame every line in it is that tool's (native.py:28-37,           *)
(* physical.py:19-37, parsers.py:52-60).                                    *)
VerdictOfFinishedTool ==
    Status \in {"pass", "fail"} =>
        \E p \in Process :
            /\ Finished(p)
            /\ format \in {"klayout", "opensta"} => \A i \in DOMAIN report : report[i].by = p

(* However processes die, start again or write side by side, a report       *)
(* passes only if nothing any of them wrote is a finding and every proof    *)
(* one of them began has an outcome (native.py:25-38, physical.py:38-133,   *)
(* parsers.py:80-134).                                                      *)
NoFindingDropped ==
    Status = "pass" =>
        /\ \A i \in DOMAIN report : ~Finding(report[i])
        /\ \A p \in Process : Cardinality({i \in At({"solve"}) : report[i].by = p})
                               = Cardinality({i \in At({"outcome"}) : report[i].by = p})

(* A verdict is that of a finished tool, and a pass covers everything that  *)
(* was found.                                                              *)
VerdictIsComplete == VerdictOfFinishedTool /\ NoFindingDropped
=============================================================================
