--------------------------- MODULE RoleAssignment ---------------------------
(***************************************************************************)
(* What policy.py:_assign_roles decides: whether principals can be given   *)
(* to the required approval roles.  `options' is a set of                  *)
(* <<role, principal>> pairs, one for each valid approval.  The            *)
(* augmenting-path search of the code finds such an assignment exactly     *)
(* when one exists.                                                        *)
(***************************************************************************)
EXTENDS FiniteSets

(* The assignments of a principal with a valid approval to every role; with *)
(* `distinct' no principal fills two roles.                                *)
Assignments(roles, options, distinct) ==
    {f \in [roles -> {o[2] : o \in options}] :
        /\ \A r \in roles : <<r, f[r]>> \in options
        /\ distinct => \A r, s \in roles : f[r] = f[s] => r = s}

Assignable(roles, options, distinct) ==
    Assignments(roles, options, distinct) # {}
=============================================================================
