---------------------------- MODULE RoleMatching ----------------------------
(***************************************************************************)
(* policy.py:_assign_roles step by step: the search for augmenting paths    *)
(* that gives principals to the required approval roles.  Module           *)
(* RoleAssignment says what it must decide.                                *)
(*                                                                         *)
(* The nested calls of `augment' are the stack of the roles they are for;   *)
(* a call that waits for an inner one is trying the principal who holds     *)
(* the inner one's role.                                                   *)
(***************************************************************************)
EXTENDS RoleAssignment, Sequences, Naturals

CONSTANTS Role, Principal, Nobody

ASSUME MatchingAssumption ==
    /\ IsFiniteSet(Role) /\ IsFiniteSet(Principal)
    /\ Nobody \notin Role /\ Nobody \notin Principal

VARIABLES
    options,  \* role -> the principals with a valid approval for it (an input)
    pending,  \* the roles of the `for' loop still to come
    root,     \* the role the current call of the loop is for
    holds,    \* principal_to_role: the role a principal has so far, or Nobody
    stack,    \* the calls of `augment' in progress, innermost first
    visited,  \* the principals they have tried
    outcome   \* searching; found, none

matchVars == <<options, pending, root, holds, stack, visited, outcome>>

MatchInit ==
    /\ options \in [Role -> SUBSET Principal]
    /\ pending = Role
    /\ root = Nobody
    /\ holds = [p \in Principal |-> Nobody]
    /\ stack = <<>>
    /\ visited = {}
    /\ outcome = "searching"

-----------------------------------------------------------------------------

(* The next role of the loop, those with the fewest options first. *)
NextRole(r) ==
    /\ outcome = "searching" /\ stack = <<>>
    /\ r \in pending
    /\ \A s \in pending : Cardinality(options[r]) <= Cardinality(options[s])
    /\ pending' = pending \ {r}
    /\ root' = r
    /\ stack' = <<r>>
    /\ visited' = {}
    /\ UNCHANGED <<options, holds, outcome>>

(* `augment' tries a principal that has a role: can that role find another? *)
Displace(p) ==
    /\ stack # <<>>
    /\ p \in options[Head(stack)] \ visited
    /\ holds[p] # Nobody
    /\ stack' = <<holds[p]>> \o stack
    /\ visited' = visited \cup {p}
    /\ UNCHANGED <<options, pending, root, holds, outcome>>

(* The principals of the calls that return True, each with its new role.    *)
Reassigned(p) ==
    LET Trying(q) == {i \in 1..(Len(stack) - 1) : stack[i] = holds[q]}
    IN  [q \in Principal |->
            IF q = p THEN Head(stack)
            ELSE IF Trying(q) # {} THEN stack[1 + CHOOSE i \in Trying(q) : TRUE]
            ELSE holds[q]]

(* It tries a free principal: every call in progress returns True. *)
Assign(p) ==
    /\ stack # <<>>
    /\ p \in options[Head(stack)] \ visited
    /\ holds[p] = Nobody
    /\ holds' = Reassigned(p)
    /\ stack' = <<>>
    /\ visited' = visited \cup {p}
    /\ UNCHANGED <<options, pending, root, outcome>>

(* Fault: the first call that fails ends the search. *)
GiveUp ==
    /\ stack # <<>>
    /\ options[Head(stack)] \subseteq visited
    /\ stack' = <<>>
    /\ outcome' = "none"
    /\ UNCHANGED <<options, pending, root, holds, visited>>

(* Every option was tried: the call returns False to the one below it, or, *)
(* from the outermost one, to the loop, which returns None.                *)
Fail ==
    /\ stack # <<>>
    /\ options[Head(stack)] \subseteq visited
    /\ stack' = Tail(stack)
    /\ outcome' = IF Tail(stack) = <<>> THEN "none" ELSE outcome
    /\ UNCHANGED <<options, pending, root, holds, visited>>

(* The loop is over. *)
Return ==
    /\ outcome = "searching" /\ stack = <<>> /\ pending = {}
    /\ outcome' = "found"
    /\ UNCHANGED <<options, pending, root, holds, stack, visited>>

MatchNext ==
    \/ \E r \in Role : NextRole(r)
    \/ \E p \in Principal : Displace(p) \/ Assign(p)
    \/ Fail \/ Return

(* The function runs to its end. *)
MatchSpec == MatchInit /\ [][MatchNext]_matchVars /\ WF_matchVars(MatchNext)

-----------------------------------------------------------------------------

Pairs == {o \in Role \X Principal : o[2] \in options[o[1]]}

(* An assignment the search returns gives every required role its own       *)
(* approved principal (policy.py:122-135).                                  *)
FoundIsAssignment ==
    outcome = "found" =>
        \E f \in Assignments(Role, Pairs, TRUE) : \A r \in Role : holds[f[r]] = r

(* The search gives up only when there is no assignment: distinct           *)
(* reviewers who could sign together are never turned away                 *)
(* (policy.py:122-135).                                                     *)
NoneIsRight == outcome = "none" => ~Assignable(Role, Pairs, TRUE)

(* The search decides whether there is an assignment. *)
SearchDecides == FoundIsAssignment /\ NoneIsRight

(* It comes to an end on every input. *)
SearchEnds == <>(outcome # "searching")
=============================================================================
