----------------------------- MODULE MCAnswers -----------------------------
(***************************************************************************)
(* What the program works out or reads off without changing its records,   *)
(* one at a time: the search for approvers, the graph algorithms, the      *)
(* rebuild plan and answers that take several transactions.  They share no *)
(* variable, so a behaviour is of one of them, `part', and leaves the      *)
(* others where they start.                                                *)
(***************************************************************************)
EXTENDS RoleMatching, LedgerReaders, RebuildPlan, GraphAlgorithms, TLC

VARIABLE part

vars == <<part, matchVars, graphsVars, rebuildVars, readersVars>>

(* A layout built from a netlist and a library, the netlist from RTL; the   *)
(* layout may also be registered with other dependencies.                  *)
PlanResource  == {"rtl", "lib", "net", "gds"}
PlanDepChoice == ("rtl" :> {{}}) @@ ("lib" :> {{}}) @@ ("net" :> {{"rtl"}})
                   @@ ("gds" :> {{"net", "lib"}, {"rtl", "net"}})

ASSUME GraphsAssumed == GraphAssumption
ASSUME PlansAssumed  == RebuildAssumption

Init ==
    /\ part \in {"roles", "graphs", "plans", "pages"}
    /\ MatchInit /\ (part # "roles" => options = [r \in Role |-> {}])
    /\ GraphsInit /\ RebuildInit /\ ReadersInit

RolesStep     == part = "roles" /\ MatchNext
                   /\ UNCHANGED <<part, graphsVars, rebuildVars, readersVars>>
GraphsStep(A) == part = "graphs" /\ A
                   /\ UNCHANGED <<part, matchVars, rebuildVars, readersVars>>
PlansStep     == part = "plans" /\ RebuildNext
                   /\ UNCHANGED <<part, matchVars, graphsVars, readersVars>>
PagesStep(A)  == part = "pages" /\ A
                   /\ UNCHANGED <<part, matchVars, graphsVars, rebuildVars>>

Next == RolesStep \/ GraphsStep(GraphsNext) \/ PlansStep \/ PagesStep(ReadersNext)

(* The fairness of the modules: what was begun is carried on. *)
Spec ==
    /\ Init /\ [][Next]_vars
    /\ WF_vars(RolesStep)
    /\ WF_vars(GraphsStep(TakeNext)) /\ WF_vars(GraphsStep(EndBuild))
    /\ WF_vars(GraphsStep(Select)) /\ WF_vars(GraphsStep(Explain))
    /\ WF_vars(GraphsStep(EndRead))
    /\ WF_vars(PagesStep(\E n \in PageSize : AuditPage(n)))

-----------------------------------------------------------------------------
(* Checked too: SearchDecides of RoleMatching, ComputesTheGraph of          *)
(* GraphAlgorithms, PlanSucceeds of RebuildPlan, ReadsOneHistory of        *)
(* LedgerReaders.                                                          *)

(* RoleMatching, GraphAlgorithms, LedgerReaders: every search, every loop  *)
(* and every export ends.                                                  *)
AnswersEnd ==
    /\ part = "roles" => SearchEnds
    /\ AlgorithmsEnd
    /\ AuditEnds
=============================================================================
