---------------------------- MODULE AnswersProofs ----------------------------
(***************************************************************************)
(* Answers the program works out or reads off are right: the search for    *)
(* approvers for any roles, principals and approvals, inventories and      *)
(* audits for any number of events, pages and restores, rebuild plans and  *)
(* the algorithms on graphs for any resources and any registrations.       *)
(***************************************************************************)
EXTENDS RoleMatching, LedgerReaders, RebuildPlan, GraphAlgorithms,
        InductionLemmas, SequenceTheorems, TLAPS

-----------------------------------------------------------------------------
(* The search for approvers. *)

MatchTypes ==
    /\ options \in [Role -> SUBSET Principal]
    /\ pending \subseteq Role /\ visited \subseteq Principal
    /\ root \in Role \cup {Nobody}
    /\ holds \in [Principal -> Role \cup {Nobody}]
    /\ stack \in Seq(Role)
    /\ outcome \in {"searching", "found", "none"}

(* A call of the loop that has not returned True, though it may have failed. *)
Unplaced == stack # <<>> \/ outcome = "none"

(* Whoever has a role approved for it, and nobody shares one. *)
IsMatching ==
    \A p \in Principal : holds[p] # Nobody =>
        /\ p \in options[holds[p]]
        /\ \A q \in Principal : holds[q] = holds[p] => q = p

(* The loop has placed every role it has taken, but the current one. *)
Placed ==
    /\ \A p \in Principal : holds[p] \notin pending
    /\ \A r \in Role \ pending :
          \/ \E p \in Principal : holds[p] = r
          \/ Unplaced /\ r = root
    /\ Unplaced => root \in Role \ pending /\ \A p \in Principal : holds[p] # root

(* The calls in progress: the outermost is for the root, every other for a  *)
(* role whose holder, tried by the call below it, may take that call's.    *)
StackInv ==
    /\ \A i, j \in 1..Len(stack) : stack[i] = stack[j] => i = j
    /\ stack # <<>> => stack[Len(stack)] = root
    /\ \A i \in 1..(Len(stack) - 1) :
          \E q \in visited : holds[q] = stack[i] /\ q \in options[stack[i + 1]]

(* Whoever was tried has a role, and that role has a call in progress or    *)
(* has tried all it has.                                                   *)
VisitedInv ==
    Unplaced => \A q \in visited :
        /\ holds[q] # Nobody
        /\ \/ \E i \in 1..Len(stack) : stack[i] = holds[q]
           \/ options[holds[q]] \subseteq visited

OutcomeInv ==
    /\ outcome = "found" => pending = {}
    /\ outcome # "searching" => stack = <<>>
    /\ outcome = "none" => options[root] \subseteq visited

MatchInv ==
    MatchTypes /\ IsMatching /\ Placed /\ StackInv /\ VisitedInv /\ OutcomeInv

(* Whoever has a call's role is the one the call below it is trying.        *)
LEMMA CallsAreDistinct ==
    ASSUME MatchInv, NEW p \in Principal, p \notin visited, holds[p] # Nobody, stack # <<>>,
           NEW i \in 1..Len(stack)
    PROVE  stack[i] # holds[p]
<1> USE DEF MatchInv
<1>1. CASE i = Len(stack) BY <1>1 DEF Placed, Unplaced, StackInv
<1>2. CASE i # Len(stack)
  <2>1. Len(stack) \in Nat BY LenProperties DEF MatchTypes
  <2>2. i \in 1..(Len(stack) - 1) BY <1>2, <2>1
  <2>3. PICK q \in visited : holds[q] = stack[i] BY <2>2 DEF StackInv
  <2> QED BY <2>3 DEF IsMatching, MatchTypes
<1> QED BY <1>1, <1>2

(* The loop turns to its next role with nobody tried. *)
LEMMA NextRoleStep == ASSUME MatchInv, NEW r \in Role, NextRole(r) PROVE MatchInv'
<1> USE DEF MatchInv, NextRole
<1>1. /\ stack' = <<r>> /\ Len(stack') = 1 /\ stack'[1] = r /\ stack' # <<>>
      /\ stack' \in Seq(Role)
  OBVIOUS
<1>2. MatchTypes' BY <1>1 DEF MatchTypes
<1>3. IsMatching' BY DEF IsMatching
<1>4. Placed' BY <1>1 DEF Placed, Unplaced
<1>5. StackInv' BY <1>1 DEF StackInv
<1>6. VisitedInv' /\ OutcomeInv' BY <1>1 DEF VisitedInv, OutcomeInv
<1> QED BY <1>2, <1>3, <1>4, <1>5, <1>6

(* A principal who has a role already is tried, and the search descends to  *)
(* that role.                                                               *)
LEMMA DisplaceStep == ASSUME MatchInv, NEW p \in Principal, Displace(p) PROVE MatchInv'
<1> USE DEF MatchInv
<1>1. /\ stack # <<>> /\ stack \in Seq(Role) /\ Len(stack) \in Nat \ {0}
      /\ holds[p] \in Role /\ p \in options[stack[1]] /\ p \notin visited
      /\ visited' = visited \cup {p} /\ UNCHANGED <<options, pending, root, holds, outcome>>
      /\ outcome = "searching" /\ holds[p] # Nobody
  BY EmptySeq, MatchingAssumption DEF Displace, MatchTypes, OutcomeInv
<1>2. /\ stack' \in Seq(Role) /\ Len(stack') = Len(stack) + 1 /\ stack'[1] = holds[p]
      /\ \A i \in 1..Len(stack) : stack'[i + 1] = stack[i]
  <2>1. stack' = <<holds[p]>> \o stack /\ <<holds[p]>> \in Seq(Role) /\ Len(<<holds[p]>>) = 1
        /\ <<holds[p]>>[1] = holds[p]
    BY <1>1 DEF Displace
  <2> QED BY <1>1, <2>1, ConcatProperties
<1>3. stack' # <<>> BY <1>1, <1>2, EmptySeq
<1>4. \A i \in 2..Len(stack') : i - 1 \in 1..Len(stack) /\ stack'[i] = stack[i - 1]
  BY <1>1, <1>2
<1>5. MatchTypes' BY <1>1, <1>2 DEF MatchTypes
<1>6. IsMatching' BY <1>1 DEF IsMatching
<1>7. Placed' BY <1>1, <1>3 DEF Placed, Unplaced
<1>8. StackInv'
  <2>1. ASSUME NEW i \in 1..Len(stack'), NEW j \in 1..Len(stack'), stack'[i] = stack'[j]
        PROVE  i = j
    <3>1. \A k \in 1..Len(stack) : stack[k] # holds[p] BY <1>1, CallsAreDistinct
    <3>2. CASE i = 1 \/ j = 1 BY <1>1, <1>2, <1>4, <2>1, <3>1, <3>2
    <3>3. CASE i # 1 /\ j # 1
      <4>1. i \in 2..Len(stack') /\ j \in 2..Len(stack') BY <1>1, <1>2, <3>3
      <4>2. stack[i - 1] = stack[j - 1] /\ i - 1 \in 1..Len(stack) /\ j - 1 \in 1..Len(stack)
        BY <1>4, <2>1, <4>1
      <4>3. i - 1 = j - 1 BY <4>2 DEF StackInv
      <4> QED BY <4>1, <4>3
    <3> QED BY <3>2, <3>3
  <2>2. stack'[Len(stack')] = root' BY <1>1, <1>2 DEF StackInv
  <2>3. ASSUME NEW i \in 1..(Len(stack') - 1)
        PROVE  \E q \in visited' : holds'[q] = stack'[i] /\ q \in options'[stack'[i + 1]]
    <3>1. i \in 1..Len(stack) BY <1>1, <1>2
    <3>2. stack'[i + 1] = stack[i] BY <1>2, <3>1
    <3>3. CASE i = 1 BY <1>1, <1>2, <3>2, <3>3
    <3>4. CASE i # 1
      <4>1. i \in 2..Len(stack') /\ i - 1 \in 1..(Len(stack) - 1) /\ (i - 1) + 1 = i
        BY <1>1, <1>2, <3>1, <3>4
      <4>2. PICK q \in visited : holds[q] = stack[i - 1] /\ q \in options[stack[i]]
        BY <4>1 DEF StackInv
      <4> QED BY <1>1, <1>4, <3>2, <4>1, <4>2
    <3> QED BY <3>3, <3>4
  <2> QED BY <2>1, <2>2, <2>3 DEF StackInv
<1>9. VisitedInv'
  <2> SUFFICES ASSUME NEW q \in visited'
               PROVE  /\ holds[q] # Nobody
                      /\ \/ \E i \in 1..Len(stack') : stack'[i] = holds[q]
                         \/ options[holds[q]] \subseteq visited'
    BY <1>1 DEF VisitedInv
  <2>1. CASE q = p
    <3>1. 1 \in 1..Len(stack') BY <1>1, <1>2
    <3> QED BY <1>1, <1>2, <2>1, <3>1
  <2>2. CASE q # p
    <3>1. q \in visited BY <1>1, <2>2
    <3>2. CASE \E i \in 1..Len(stack) : stack[i] = holds[q]
      <4>1. PICK i \in 1..Len(stack) : stack[i] = holds[q] BY <3>2
      <4>2. i + 1 \in 1..Len(stack') /\ stack'[i + 1] = holds[q] BY <1>1, <1>2, <4>1
      <4> QED BY <1>1, <3>1, <4>2 DEF VisitedInv, Unplaced
    <3>3. CASE ~ \E i \in 1..Len(stack) : stack[i] = holds[q]
      BY <1>1, <3>1, <3>3 DEF VisitedInv, Unplaced
    <3> QED BY <3>2, <3>3
  <2> QED BY <2>1, <2>2
<1>10. OutcomeInv' BY <1>1 DEF OutcomeInv
<1> QED BY <1>5, <1>6, <1>7, <1>8, <1>9, <1>10

(* A call that has tried all its principals returns without one. *)
LEMMA FailStep == ASSUME MatchInv, Fail PROVE MatchInv'
<1> USE DEF MatchInv
<1>1. /\ stack # <<>> /\ stack \in Seq(Role) /\ Len(stack) \in Nat \ {0}
      /\ options[stack[1]] \subseteq visited
      /\ UNCHANGED <<options, pending, root, holds, visited>> /\ outcome = "searching"
      /\ stack' = Tail(stack) /\ outcome' = IF stack' = <<>> THEN "none" ELSE outcome
  BY EmptySeq DEF Fail, MatchTypes, OutcomeInv
<1>2. /\ stack' \in Seq(Role) /\ Len(stack') = Len(stack) - 1
      /\ \A i \in 1..Len(stack') : stack'[i] = stack[i + 1]
  BY <1>1, HeadTailProperties
<1>3. (stack' = <<>> <=> Len(stack) = 1) /\ Unplaced /\ Unplaced'
  <2>1. stack' = <<>> => Len(stack') = 0 OBVIOUS
  <2>2. stack' # <<>> => Len(stack') # 0 BY <1>2, EmptySeq
  <2> QED BY <1>1, <1>2, <2>1, <2>2 DEF Unplaced
<1>4. MatchTypes' BY <1>1, <1>2 DEF MatchTypes
<1>5. IsMatching' BY <1>1 DEF IsMatching
<1>6. Placed' BY <1>1, <1>3 DEF Placed
<1>7. \A i \in 1..Len(stack') : i + 1 \in 1..Len(stack) BY <1>1, <1>2
<1>8. StackInv'
  <2>1. ASSUME NEW i \in 1..Len(stack'), NEW j \in 1..Len(stack'), stack'[i] = stack'[j]
        PROVE  i = j
    <3>1. i + 1 \in 1..Len(stack) /\ j + 1 \in 1..Len(stack) BY <1>7
    <3>2. stack[i + 1] = stack[j + 1] BY <1>2, <2>1
    <3>3. i + 1 = j + 1 BY <3>1, <3>2 DEF StackInv
    <3> QED BY <3>3
  <2>2. stack' # <<>> => stack'[Len(stack')] = root' BY <1>1, <1>2, <1>3 DEF StackInv
  <2>3. ASSUME NEW i \in 1..(Len(stack') - 1)
        PROVE  \E q \in visited' : holds'[q] = stack'[i] /\ q \in options'[stack'[i + 1]]
    <3>1. /\ i \in 1..Len(stack') /\ i + 1 \in 1..Len(stack') /\ i + 1 \in 1..(Len(stack) - 1)
      BY <1>1, <1>2
    <3>2. stack'[i] = stack[i + 1] /\ stack'[i + 1] = stack[(i + 1) + 1] BY <1>2, <3>1
    <3> QED BY <1>1, <3>1, <3>2 DEF StackInv
  <2> QED BY <2>1, <2>2, <2>3 DEF StackInv
<1>9. VisitedInv'
  <2> SUFFICES ASSUME NEW q \in visited
               PROVE  /\ holds[q] # Nobody
                      /\ \/ \E i \in 1..Len(stack') : stack'[i] = holds[q]
                         \/ options[holds[q]] \subseteq visited
    BY <1>1 DEF VisitedInv
  <2>1. holds[q] # Nobody BY <1>3 DEF VisitedInv
  <2>2. ASSUME NEW i \in 1..Len(stack), stack[i] = holds[q]
        PROVE  \/ \E j \in 1..Len(stack') : stack'[j] = holds[q]
               \/ options[holds[q]] \subseteq visited
    <3>1. CASE i = 1 BY <1>1, <2>2, <3>1
    <3>2. CASE i # 1
      <4>1. i - 1 \in 1..Len(stack') /\ (i - 1) + 1 = i BY <1>1, <1>2, <3>2
      <4> QED BY <1>2, <2>2, <4>1
    <3> QED BY <3>1, <3>2
  <2> QED BY <1>3, <2>1, <2>2 DEF VisitedInv
<1>10. OutcomeInv' BY <1>1, <1>3 DEF OutcomeInv, StackInv
<1> QED BY <1>4, <1>5, <1>6, <1>8, <1>9, <1>10

(* The principals along the calls that return True. *)
LEMMA ReassignedIs ==
    ASSUME MatchInv, NEW p \in Principal, stack # <<>>, holds[p] = Nobody
    PROVE  /\ DOMAIN Reassigned(p) = Principal
           /\ Reassigned(p) = [q \in Principal |-> Reassigned(p)[q]]
           /\ Reassigned(p)[p] = stack[1]
           /\ \A q \in Principal, i \in 1..(Len(stack) - 1) :
                 holds[q] = stack[i] => Reassigned(p)[q] = stack[i + 1]
           /\ \A q \in Principal \ {p} :
                 (\A i \in 1..(Len(stack) - 1) : stack[i] # holds[q])
                   => Reassigned(p)[q] = holds[q]
<1> USE DEF MatchInv
<1> DEFINE Trying(q) == {i \in 1..(Len(stack) - 1) : stack[i] = holds[q]}
<1>0. Len(stack) \in Nat \ {0} /\ Head(stack) = stack[1] BY EmptySeq DEF MatchTypes
<1>1. \A q \in Principal : Reassigned(p)[q] =
        IF q = p THEN stack[1]
        ELSE IF Trying(q) # {} THEN stack[1 + CHOOSE i \in Trying(q) : TRUE] ELSE holds[q]
  BY <1>0 DEF Reassigned
<1>2. ASSUME NEW q \in Principal, NEW i \in 1..(Len(stack) - 1), holds[q] = stack[i]
      PROVE  Reassigned(p)[q] = stack[i + 1]
  <2>1. q # p
    <3>1. i \in 1..Len(stack) BY <1>0
    <3>2. stack[i] \in Role BY <3>1, ElementOfSeq DEF MatchTypes
    <3> QED BY <1>2, <3>2, MatchingAssumption
  <2>2. Trying(q) = {i}
    <3>1. \A j \in 1..(Len(stack) - 1) : j \in 1..Len(stack) BY <1>0
    <3> QED BY <1>2, <3>1 DEF StackInv
  <2>3. (CHOOSE j \in Trying(q) : TRUE) = i BY <2>2
  <2>4. 1 + i = i + 1 OBVIOUS
  <2> HIDE DEF Trying
  <2> QED BY <1>1, <2>1, <2>2, <2>3, <2>4
<1>3. ASSUME NEW q \in Principal \ {p}, \A i \in 1..(Len(stack) - 1) : stack[i] # holds[q]
      PROVE  Reassigned(p)[q] = holds[q]
  <2>1. Trying(q) = {} BY <1>3
  <2> HIDE DEF Trying
  <2> QED BY <1>1, <2>1
<1>4. Reassigned(p)[p] = stack[1] BY <1>1
<1>5. /\ DOMAIN Reassigned(p) = Principal
      /\ Reassigned(p) = [q \in Principal |-> Reassigned(p)[q]]
  BY DEF Reassigned
<1> QED BY <1>2, <1>3, <1>4, <1>5

(* All calls in progress return True: each gets the principal it was        *)
(* trying, and the matching covers the root besides.                       *)
LEMMA AssignStep == ASSUME MatchInv, NEW p \in Principal, Assign(p) PROVE MatchInv'
<1> USE DEF MatchInv
<1>1. /\ stack # <<>> /\ stack \in Seq(Role) /\ Len(stack) \in Nat \ {0}
      /\ holds[p] = Nobody /\ p \in options[stack[1]] /\ p \notin visited
      /\ holds' = Reassigned(p) /\ stack' = <<>> /\ visited' = visited \cup {p}
      /\ UNCHANGED <<options, pending, root, outcome>> /\ outcome = "searching"
  BY EmptySeq DEF Assign, MatchTypes, OutcomeInv
<1>2. /\ holds' = [q \in Principal |-> holds'[q]] /\ holds'[p] = stack[1]
      /\ \A q \in Principal, i \in 1..(Len(stack) - 1) :
            holds[q] = stack[i] => holds'[q] = stack[i + 1]
      /\ \A q \in Principal \ {p} :
            (\A i \in 1..(Len(stack) - 1) : stack[i] # holds[q]) => holds'[q] = holds[q]
  BY <1>1, ReassignedIs
<1>3. /\ \A i \in 1..Len(stack) : stack[i] \in Role /\ stack[i] # Nobody
      /\ \A i \in 1..(Len(stack) - 1) : i \in 1..Len(stack) /\ i + 1 \in 1..Len(stack)
      /\ 1 \in 1..Len(stack)
  BY <1>1, ElementOfSeq, MatchingAssumption
<1>4. root = stack[Len(stack)] /\ Len(stack) \in 1..Len(stack) BY <1>1 DEF StackInv
<1>5. Unplaced /\ ~Unplaced' BY <1>1 DEF Unplaced

(* Where a principal's new role comes from. *)
<1>6. ASSUME NEW q \in Principal
      PROVE  \/ q = p /\ holds'[q] = stack[1]
             \/ \E i \in 1..(Len(stack) - 1) : holds[q] = stack[i] /\ holds'[q] = stack[i + 1]
             \/ /\ q # p /\ holds'[q] = holds[q]
                /\ \A i \in 1..Len(stack) : stack[i] # holds[q]
  <2>1. CASE q = p BY <1>2, <2>1
  <2>2. CASE \E i \in 1..(Len(stack) - 1) : stack[i] = holds[q] BY <1>2, <2>2
  <2>3. CASE q # p /\ \A i \in 1..(Len(stack) - 1) : stack[i] # holds[q]
    <3>1. holds[q] # stack[Len(stack)] BY <1>4, <1>5 DEF Placed
    <3>2. \A i \in 1..Len(stack) : i = Len(stack) \/ i \in 1..(Len(stack) - 1) BY <1>1
    <3> QED BY <1>2, <2>3, <3>1, <3>2
  <2> QED BY <2>1, <2>2, <2>3
<1>7. MatchTypes'
  <2>1. \A q \in Principal : holds'[q] \in Role \cup {Nobody} BY <1>3, <1>6 DEF MatchTypes
  <2>2. holds' \in [Principal -> Role \cup {Nobody}] BY <1>2, <2>1
  <2>3. stack' \in Seq(Role) BY <1>1, EmptySeq
  <2> QED BY <1>1, <2>2, <2>3 DEF MatchTypes
<1>8. IsMatching'
  <2>1. ASSUME NEW q \in Principal, holds'[q] # Nobody PROVE q \in options[holds'[q]]
    <3>1. ASSUME NEW i \in 1..(Len(stack) - 1), holds[q] = stack[i], holds'[q] = stack[i + 1]
          PROVE  q \in options[holds'[q]]
      <4>1. PICK s \in visited : holds[s] = stack[i] /\ s \in options[stack[i + 1]]
        BY DEF StackInv
      <4>2. s = q BY <1>3, <3>1, <4>1 DEF IsMatching, MatchTypes
      <4> QED BY <3>1, <4>1, <4>2
    <3> QED BY <1>1, <1>6, <2>1, <3>1 DEF IsMatching
  <2>2. ASSUME NEW q \in Principal, NEW s \in Principal, holds'[q] # Nobody,
               holds'[s] = holds'[q]
        PROVE  s = q
    <3> DEFINE Moved(x) == \E i \in 1..(Len(stack) - 1) :
                               holds[x] = stack[i] /\ holds'[x] = stack[i + 1]
               Kept(x)  == /\ x # p /\ holds'[x] = holds[x]
                           /\ \A i \in 1..Len(stack) : stack[i] # holds[x]
    <3>1. ASSUME NEW x \in Principal, NEW y \in Principal, holds'[x] = holds'[y],
                 x = p /\ holds'[x] = stack[1], y # p
          PROVE  Kept(y) => FALSE
      BY <1>3, <3>1
    <3>2. ASSUME NEW x \in Principal, NEW y \in Principal, holds'[x] = holds'[y],
                 x = p /\ holds'[x] = stack[1], Moved(y)
          PROVE  FALSE
      <4>1. PICK i \in 1..(Len(stack) - 1) : holds'[y] = stack[i + 1] BY <3>2
      <4>2. i + 1 = 1 BY <1>3, <3>2, <4>1 DEF StackInv
      <4> QED BY <4>2
    <3>3. ASSUME NEW x \in Principal, NEW y \in Principal, holds'[x] = holds'[y],
                 Moved(x), Moved(y)
          PROVE  x = y
      <4>1. PICK i \in 1..(Len(stack) - 1) : holds[x] = stack[i] /\ holds'[x] = stack[i + 1]
        BY <3>3
      <4>2. PICK j \in 1..(Len(stack) - 1) : holds[y] = stack[j] /\ holds'[y] = stack[j + 1]
        BY <3>3
      <4>3. i + 1 = j + 1 BY <1>3, <3>3, <4>1, <4>2 DEF StackInv
      <4>4. i = j BY <4>3
      <4> QED BY <1>3, <4>1, <4>2, <4>4 DEF IsMatching
    <3>4. ASSUME NEW x \in Principal, NEW y \in Principal, holds'[x] = holds'[y],
                 Moved(x), Kept(y)
          PROVE  FALSE
      BY <1>3, <3>4
    <3>5. (q = p /\ holds'[q] = stack[1]) \/ Moved(q) \/ Kept(q) BY <1>6
    <3>6. (s = p /\ holds'[s] = stack[1]) \/ Moved(s) \/ Kept(s) BY <1>6
    <3>7. Kept(q) /\ Kept(s) => s = q BY <2>2 DEF IsMatching
    <3> HIDE DEF Moved
    <3> QED BY <2>2, <3>1, <3>2, <3>3, <3>4, <3>5, <3>6, <3>7
  <2> QED BY <1>1, <2>1, <2>2 DEF IsMatching
<1>9. Placed'
  (* Every call's role has its new holder. *)
  <2>1. ASSUME NEW i \in 1..Len(stack) PROVE \E q \in Principal : holds'[q] = stack[i]
    <3>1. CASE i = 1 BY <1>2, <3>1
    <3>2. CASE i # 1
      <4>1. i - 1 \in 1..(Len(stack) - 1) /\ (i - 1) + 1 = i BY <1>1, <3>2
      <4>2. PICK s \in visited : holds[s] = stack[i - 1] BY <4>1 DEF StackInv
      <4>3. s \in Principal BY DEF MatchTypes
      <4> QED BY <1>2, <4>1, <4>2, <4>3
    <3> QED BY <3>1, <3>2
  <2>2. ASSUME NEW r \in Role \ pending PROVE \E q \in Principal : holds'[q] = r
    <3>1. CASE r = root BY <1>4, <2>1, <3>1
    <3>2. CASE r # root
      <4>1. PICK q \in Principal : holds[q] = r BY <3>2 DEF Placed
      <4>2. CASE \E i \in 1..Len(stack) : stack[i] = r BY <2>1, <4>2
      <4>3. CASE \A i \in 1..Len(stack) : stack[i] # r
        <5>1. q # p BY <1>1, <4>1, MatchingAssumption
        <5>2. \A i \in 1..(Len(stack) - 1) : stack[i] # holds[q] BY <1>3, <4>1, <4>3
        <5> QED BY <1>2, <4>1, <5>1, <5>2
      <4> QED BY <4>2, <4>3
    <3> QED BY <3>1, <3>2
  <2>3. ASSUME NEW i \in 1..Len(stack) PROVE stack[i] \notin pending
    <3>1. CASE i = Len(stack) BY <1>4, <1>5, <3>1 DEF Placed
    <3>2. CASE i # Len(stack)
      <4>1. i \in 1..(Len(stack) - 1) BY <1>1, <3>2
      <4>2. PICK s \in visited : holds[s] = stack[i] BY <4>1 DEF StackInv
      <4> QED BY <4>2 DEF Placed, MatchTypes
    <3> QED BY <3>1, <3>2
  <2>4. ASSUME NEW q \in Principal PROVE holds'[q] \notin pending
    BY <1>3, <1>6, <2>3 DEF Placed
  <2> QED BY <1>1, <1>5, <2>2, <2>4 DEF Placed
<1>10. StackInv'
  <2>1. Len(stack') = 0 BY <1>1
  <2> QED BY <1>1, <2>1 DEF StackInv
<1>11. VisitedInv' /\ OutcomeInv' BY <1>1, <1>5 DEF VisitedInv, OutcomeInv
<1> QED BY <1>7, <1>8, <1>9, <1>10, <1>11

(* Every step of the search keeps its invariant. *)
LEMMA MatchInvStep == ASSUME MatchInv, [MatchNext]_matchVars PROVE MatchInv'
<1>1. CASE Return
  BY <1>1 DEF Return, MatchInv, MatchTypes, IsMatching, Placed, Unplaced, StackInv, VisitedInv,
     OutcomeInv
<1>2. CASE UNCHANGED matchVars
  BY <1>2 DEF matchVars, MatchInv, MatchTypes, IsMatching, Placed, Unplaced, StackInv, VisitedInv,
     OutcomeInv
<1> QED BY <1>1, <1>2, NextRoleStep, DisplaceStep, AssignStep, FailStep DEF MatchNext

(* Once no role is pending, what the principals hold is an assignment. *)
LEMMA FoundIsRight == ASSUME MatchInv PROVE FoundIsAssignment
<1> USE DEF MatchInv
<1> SUFFICES ASSUME outcome = "found"
             PROVE  \E f \in Assignments(Role, Pairs, TRUE) : \A r \in Role : holds[f[r]] = r
  BY DEF FoundIsAssignment
<1>1. \A r \in Role : \E p \in Principal : holds[p] = r
  BY DEF Placed, Unplaced, OutcomeInv
<1> DEFINE f == [r \in Role |-> CHOOSE p \in Principal : holds[p] = r]
<1>2. \A r \in Role : f[r] \in Principal /\ holds[f[r]] = r BY <1>1
<1>3. f = [r \in Role |-> f[r]] OBVIOUS
<1> HIDE DEF f
<1>4. \A r \in Role : <<r, f[r]>> \in Pairs
  <2>1. \A r \in Role : f[r] \in options[r] BY <1>2, MatchingAssumption DEF IsMatching
  <2> QED BY <1>2, <2>1 DEF Pairs
<1>5. \A r \in Role : f[r] \in {o[2] : o \in Pairs}
  <2> SUFFICES ASSUME NEW r \in Role PROVE \E o \in Pairs : f[r] = o[2] OBVIOUS
  <2>1. f[r] = <<r, f[r]>>[2] OBVIOUS
  <2> QED BY <1>4, <2>1
<1>6. f \in [Role -> {o[2] : o \in Pairs}] BY <1>3, <1>5
<1>7. \A r, s \in Role : f[r] = f[s] => r = s BY <1>2
<1>8. f \in Assignments(Role, Pairs, TRUE) BY <1>4, <1>6, <1>7 DEF Assignments
<1> QED BY <1>2, <1>8

(* The roles that have tried everything are one more than the principals    *)
(* they tried, so they cannot each have one of their own.                  *)
LEMMA NoneLeft == ASSUME MatchInv PROVE NoneIsRight
<1> USE DEF MatchInv
<1> SUFFICES ASSUME outcome = "none", NEW f \in Assignments(Role, Pairs, TRUE) PROVE FALSE
  BY DEF NoneIsRight, Assignable
<1> DEFINE Tried == {holds[q] : q \in visited}
           All   == Tried \cup {root}
<1>1. /\ stack = <<>> /\ Unplaced /\ root \in Role /\ \A p \in Principal : holds[p] # root
      /\ options[root] \subseteq visited /\ visited \subseteq Principal
  BY DEF OutcomeInv, Unplaced, Placed, MatchTypes
<1>2. \A q \in visited : holds[q] \in Role /\ options[holds[q]] \subseteq visited
  <2>1. \A q \in visited : ~ \E i \in 1..Len(stack) : stack[i] = holds[q] BY <1>1
  <2> QED BY <1>1, <2>1 DEF VisitedInv, MatchTypes
<1>3. \A r \in All : r \in Role /\ options[r] \subseteq visited BY <1>1, <1>2
<1>4. IsFiniteSet(visited) BY <1>1, MatchingAssumption, FS_Subset
<1>5. ExistsBijection(visited, Tried)
  <2> DEFINE h == [q \in visited |-> holds[q]]
  <2>1. h \in [visited -> Tried] OBVIOUS
  <2>2. \A q, s \in visited : h[q] = h[s] => q = s BY <1>1, <1>2, MatchingAssumption DEF IsMatching
  <2>3. \A t \in Tried : \E q \in visited : h[q] = t OBVIOUS
  <2>4. h \in Bijection(visited, Tried)
    BY <2>1, <2>2, <2>3 DEF Bijection, Injection, Surjection, IsInjective
  <2> QED BY <2>4 DEF ExistsBijection
<1>6. IsFiniteSet(Tried) /\ Cardinality(Tried) = Cardinality(visited)
  <2> HIDE DEF Tried
  <2> QED BY <1>4, <1>5, FS_Bijection
<1>7. root \notin Tried BY <1>1
<1>8. Cardinality(All) = Cardinality(visited) + 1 /\ IsFiniteSet(All)
  <2> HIDE DEF Tried
  <2> QED BY <1>6, <1>7, FS_AddElement
<1>9. \A r \in Role : f[r] \in options[r]
  <2> SUFFICES ASSUME NEW r \in Role PROVE f[r] \in options[r] OBVIOUS
  <2>1. <<r, f[r]>> \in Pairs BY DEF Assignments
  <2> QED BY <2>1 DEF Pairs
<1>10. \A r, s \in Role : f[r] = f[s] => r = s BY DEF Assignments
<1> DEFINE g == [r \in All |-> f[r]]
<1>11. g \in Injection(All, visited)
  <2>1. \A r \in All : g[r] = f[r] /\ f[r] \in visited BY <1>3, <1>9
  <2>2. g \in [All -> visited] BY <2>1
  <2>3. \A r, s \in All : g[r] = g[s] => r = s BY <1>3, <1>10
  <2> HIDE DEF g
  <2> QED BY <2>2, <2>3 DEF Injection, IsInjective
<1>12. Cardinality(All) <= Cardinality(visited)
  <2> HIDE DEF All, g
  <2> QED BY <1>4, <1>11, FS_Injection
<1>13. Cardinality(visited) \in Nat BY <1>4, FS_CardinalityType
<1> HIDE DEF All
<1> QED BY <1>8, <1>12, <1>13

(* The search finds an assignment exactly when there is one, for any number *)
(* of roles and principals: no group of independent reviewers that could   *)
(* sign a release is turned away, and none passes that could not           *)
(* (policy.py:118-135).                                                    *)
THEOREM SearchIsExact == MatchSpec => []SearchDecides
<1>1. MatchInit => MatchInv
  <2> SUFFICES ASSUME MatchInit PROVE MatchInv OBVIOUS
  <2>1. stack = <<>> /\ stack \in Seq(Role) /\ Len(stack) = 0 BY DEF MatchInit
  <2> QED BY <2>1, MatchingAssumption DEF MatchInit, MatchInv, MatchTypes, IsMatching, Placed,
         Unplaced, StackInv, VisitedInv, OutcomeInv
<1>2. MatchInv /\ [MatchNext]_matchVars => MatchInv' BY MatchInvStep
<1>3. MatchInv => SearchDecides BY FoundIsRight, NoneLeft DEF SearchDecides
<1> QED BY <1>1, <1>2, <1>3, PTL DEF MatchSpec

-----------------------------------------------------------------------------
(* The readers of the ledger. First the candidates of a ledger that grows. *)

IsFold(f, log) ==
    f = [n \in 0..Len(log) |->
            IF n = 0 THEN <<>>
            ELSE IF log[n] \in IsCandidate THEN Append(f[n - 1], log[n]) ELSE f[n - 1]]

(* The recursion Candidates is defined by has a solution on every ledger. *)
LEMMA FoldExists == ASSUME NEW log \in Seq(Nat) PROVE \E f : IsFold(f, log)
<1> DEFINE k == Len(log)
           g == [x \in (1..k) \X Seq(Nat) |->
                    IF log[x[1]] \in IsCandidate THEN Append(x[2], log[x[1]]) ELSE x[2]]
<1>1. k \in Nat /\ \A n \in 1..k : log[n] \in Nat BY LenProperties, ElementOfSeq
<1>2. g \in [(1..k) \X Seq(Nat) -> Seq(Nat)]
  <2> SUFFICES ASSUME NEW x \in (1..k) \X Seq(Nat) PROVE g[x] \in Seq(Nat) OBVIOUS
  <2>1. x[1] \in 1..k /\ x[2] \in Seq(Nat) OBVIOUS
  <2>2. Append(x[2], log[x[1]]) \in Seq(Nat) BY <1>1, <2>1, AppendProperties
  <2> QED BY <2>1, <2>2
<1>3. <<>> \in Seq(Nat) BY EmptySeq
<1>4. \A n \in 1..k, v \in Seq(Nat) :
         g[<<n, v>>] = IF log[n] \in IsCandidate THEN Append(v, log[n]) ELSE v
  OBVIOUS
<1> HIDE DEF g, k
<1>5. PICK f \in [0..k -> Seq(Nat)] : f[0] = <<>> /\ \A n \in 1..k : f[n] = g[<<n, f[n - 1]>>]
  <2>1. g \in Steps(k, Seq(Nat)) BY <1>2 DEF Steps
  <2>2. RecursionTo(k, Seq(Nat), <<>>, g) BY <1>1, <1>3, <2>1, RecursionExists
  <2> QED BY <2>2 DEF RecursionTo
<1>6. ASSUME NEW n \in 1..k
      PROVE  f[n] = IF log[n] \in IsCandidate THEN Append(f[n - 1], log[n]) ELSE f[n - 1]
  <2>1. n - 1 \in 0..k BY <1>1
  <2>2. f[n - 1] \in Seq(Nat) BY <1>5, <2>1
  <2> QED BY <1>4, <1>5, <2>2
<1>7. \A n \in 0..k : n = 0 \/ n \in 1..k BY <1>1
<1>8. \A n \in 0..k : f[n] = IF n = 0 THEN <<>>
                             ELSE IF log[n] \in IsCandidate THEN Append(f[n - 1], log[n])
                                  ELSE f[n - 1]
  BY <1>5, <1>6, <1>7
<1>9. f = [n \in 0..k |-> IF n = 0 THEN <<>>
                          ELSE IF log[n] \in IsCandidate THEN Append(f[n - 1], log[n])
                               ELSE f[n - 1]]
  BY <1>5, <1>8
<1> QED BY <1>9 DEF IsFold, k

(* Two folds agree as far as their ledgers do. *)
LEMMA FoldsAgree ==
    ASSUME NEW s \in Seq(Nat), NEW t \in Seq(Nat), NEW k \in Nat, k <= Len(s), k <= Len(t),
           \A n \in 1..k : s[n] = t[n], NEW f, IsFold(f, s), NEW h, IsFold(h, t)
    PROVE  f[k] = h[k]
<1> DEFINE S == {n \in 0..k : f[n] = h[n]}
<1>1. Len(s) \in Nat /\ Len(t) \in Nat BY LenProperties
<1>2. \A n \in 0..k : n \in 0..Len(s) /\ n \in 0..Len(t) BY <1>1
<1>3. 0 \in S BY <1>2 DEF IsFold
<1>4. ASSUME NEW n \in 1..k, n - 1 \in S PROVE n \in S
  <2>1. n \in 0..k /\ n # 0 /\ f[n - 1] = h[n - 1] /\ s[n] = t[n] BY <1>4
  <2>2. f[n] = IF s[n] \in IsCandidate THEN Append(f[n - 1], s[n]) ELSE f[n - 1]
    BY <1>2, <2>1 DEF IsFold
  <2>3. h[n] = IF t[n] \in IsCandidate THEN Append(h[n - 1], t[n]) ELSE h[n - 1]
    BY <1>2, <2>1 DEF IsFold
  <2> QED BY <2>1, <2>2, <2>3
<1> HIDE DEF S
<1>5. 0..k \subseteq S BY <1>3, <1>4, SegmentInduction
<1>6. k \in S BY <1>5
<1> QED BY <1>6 DEF S

(* What Candidates is, and what an event adds to it. *)
LEMMA CandidatesFold ==
    ASSUME NEW log \in Seq(Nat) PROVE \E f : IsFold(f, log) /\ Candidates(log) = f[Len(log)]
<1> DEFINE F == CHOOSE f : IsFold(f, log)
<1>1. IsFold(F, log) BY FoldExists
<1>2. Candidates(log) = F[Len(log)] BY DEF Candidates, IsFold
<1> HIDE DEF F
<1> QED BY <1>1, <1>2

(* A ledger without events has no candidates. *)
LEMMA CandidatesEmpty == Candidates(<<>>) = <<>>
<1>1. <<>> \in Seq(Nat) /\ Len(<<>>) = 0 BY EmptySeq
<1>2. PICK f : IsFold(f, <<>>) /\ Candidates(<<>>) = f[0] BY <1>1, CandidatesFold
<1>3. f[0] = <<>> BY <1>1, <1>2 DEF IsFold
<1> QED BY <1>2, <1>3

(* An event appended to the ledger adds a candidate exactly if it is one. *)
LEMMA CandidatesAppend ==
    ASSUME NEW log \in Seq(Nat), NEW e \in Nat
    PROVE  Candidates(Append(log, e)) =
              IF e \in IsCandidate THEN Append(Candidates(log), e) ELSE Candidates(log)
<1> DEFINE t == Append(log, e)
<1>1. /\ t \in Seq(Nat) /\ Len(t) = Len(log) + 1 /\ Len(log) \in Nat /\ t[Len(log) + 1] = e
      /\ \A n \in 1..Len(log) : t[n] = log[n]
  BY AppendProperties, LenProperties
<1> HIDE DEF t
<1>2. PICK h : IsFold(h, t) /\ Candidates(t) = h[Len(log) + 1] BY <1>1, CandidatesFold
<1>3. PICK f : IsFold(f, log) /\ Candidates(log) = f[Len(log)] BY CandidatesFold
<1>4. h[Len(log)] = f[Len(log)]
  <2> DEFINE k == Len(log)
  <2>1. k \in Nat /\ k <= Len(t) /\ k <= Len(log) /\ \A n \in 1..k : t[n] = log[n] BY <1>1
  <2>2. IsFold(h, t) /\ IsFold(f, log) /\ t \in Seq(Nat) BY <1>1, <1>2, <1>3
  <2> HIDE DEF k
  <2>3. h[k] = f[k] BY <2>1, <2>2, FoldsAgree
  <2> QED BY <2>3 DEF k
<1>5. h[Len(log) + 1] = IF e \in IsCandidate THEN Append(h[Len(log)], e) ELSE h[Len(log)]
  <2>1. Len(log) + 1 \in 0..Len(t) /\ Len(log) + 1 # 0 /\ (Len(log) + 1) - 1 = Len(log) BY <1>1
  <2> QED BY <1>1, <1>2, <2>1 DEF IsFold
<1> QED BY <1>2, <1>3, <1>4, <1>5 DEF t

-----------------------------------------------------------------------------
(* The invariant of the readers. *)

ReadersTypes ==
    /\ ledger \in Seq(Nat) /\ made \in Nat /\ restores \in Nat
    /\ got \in Seq(Nat) /\ target \in Seq(Nat) /\ names \in Seq(Nat) /\ offset \in Nat
    /\ shown \in Seq(Seq(Nat))

(* The cursor stands at the end of what the export has, and the end that   *)
(* its first page fixed is the ledger that page was made from.             *)
AuditInv ==
    /\ after = [seq |-> Len(got), hash |-> got]
    /\ phase \in {"listing", "listed"} \/ until = [seq |-> Len(target), hash |-> target]
    /\ phase = "audited" => got = target

Increasing(s, m) ==
    /\ s \in Seq(Nat)
    /\ \A i, j \in 1..Len(s) : i < j => s[i] < s[j]
    /\ \A i \in 1..Len(s) : s[i] <= m

(* The pages of the listing so far are the first candidates of the ledger, *)
(* and candidates are only ever added behind those of the first page.      *)
ListingInv ==
    /\ phase \in {"listing", "listed"} \/ (offset = 0 /\ names = <<>>)
    /\ restores = 0 =>
        /\ Increasing(Candidates(ledger), made)
        /\ phase \in {"listing", "listed"} => IsPrefix(Candidates(target), Candidates(ledger))
        /\ phase = "listing" =>
            offset <= Len(Candidates(ledger)) /\ names = SubSeq(Candidates(ledger), 1, offset)
        /\ phase = "listed" =>
            IsInjective(names) /\ Range(Candidates(target)) \subseteq Range(names)

(* The parts of the summary page so far are prefixes of each other and of  *)
(* the ledger.                                                             *)
ShownInv ==
    /\ phase = "paging" => Len(shown) > 0
    /\ restores = 0 /\ phase \in {"paging", "shown"} =>
         \A i \in 1..(Len(shown) - 1) : IsPrefix(shown[i], shown[i + 1])
    /\ restores = 0 /\ phase = "paging" => IsPrefix(shown[Len(shown)], ledger)

ReadersInv == ReadersTypes /\ AuditInv /\ ListingInv /\ ShownInv

(* The candidates of a ledger are a sequence of events. *)
LEMMA CandidatesIsSeq == ASSUME NEW log \in Seq(Nat) PROVE Candidates(log) \in Seq(Nat)
<1>1. PICK f : IsFold(f, log) /\ Candidates(log) = f[Len(log)] BY CandidatesFold
<1> DEFINE k == Len(log)
           S == {n \in 0..k : f[n] \in Seq(Nat)}
<1>2. k \in Nat /\ \A n \in 1..k : log[n] \in Nat BY LenProperties, ElementOfSeq
<1>3. 0 \in S BY <1>1, <1>2, EmptySeq DEF IsFold
<1>4. ASSUME NEW n \in 1..k, n - 1 \in S PROVE n \in S
  <2>1. n \in 0..k /\ n # 0 /\ f[n - 1] \in Seq(Nat) /\ log[n] \in Nat BY <1>2, <1>4
  <2>2. f[n] = IF log[n] \in IsCandidate THEN Append(f[n - 1], log[n]) ELSE f[n - 1]
    BY <1>1, <2>1 DEF IsFold
  <2>3. Append(f[n - 1], log[n]) \in Seq(Nat) BY <2>1, AppendProperties
  <2> QED BY <2>1, <2>2, <2>3
<1> HIDE DEF S, k
<1>5. k \in S
  <2>1. 0..k \subseteq S BY <1>2, <1>3, <1>4, SegmentInduction
  <2> QED BY <1>2, <2>1
<1> QED BY <1>1, <1>5 DEF S, k

(* Prefixes, element by element. *)
LEMMA PrefixElements ==
    ASSUME NEW S, NEW s \in Seq(S), NEW t \in Seq(S)
    PROVE  IsPrefix(s, t) <=> Len(s) <= Len(t) /\ \A i \in 1..Len(s) : s[i] = t[i]
<1>1. Len(s) \in Nat /\ Len(t) \in Nat BY LenProperties
<1> SUFFICES ASSUME Len(s) <= Len(t)
             PROVE  SubSeq(s, 1, Len(s)) = SubSeq(t, 1, Len(s))
                    <=> \A i \in 1..Len(s) : s[i] = t[i]
  BY <1>1 DEF IsPrefix
<1> DEFINE u == SubSeq(t, 1, Len(s))
<1>2. u \in Seq(S) /\ Len(u) = Len(s) /\ \A i \in 1..Len(s) : u[i] = t[i]
  <2>1. \A i \in 1..Len(s) : t[i] \in S BY <1>1, ElementOfSeq
  <2>2. \A i \in 1..Len(s) : i \in 1..(Len(s) - 1 + 1) /\ 1 + i - 1 = i BY <1>1
  <2>3. Len(u) = IF 1 <= Len(s) THEN Len(s) - 1 + 1 ELSE 0 BY <1>1, <2>1, SubSeqProperties
  <2>4. Len(u) = Len(s) BY <1>1, <2>3
  <2> QED BY <1>1, <2>1, <2>2, <2>4, SubSeqProperties
<1>3. SubSeq(s, 1, Len(s)) = s BY SubSeqFull
<1> HIDE DEF u
<1>4. (\A i \in 1..Len(s) : s[i] = t[i]) => s = u
  <2> SUFFICES ASSUME \A i \in 1..Len(s) : s[i] = t[i] PROVE s = u OBVIOUS
  <2>1. \A i \in 1..Len(s) : s[i] = u[i] BY <1>2
  <2> QED BY <1>2, <2>1, SeqEqual
<1>5. s = u => \A i \in 1..Len(s) : s[i] = t[i] BY <1>2
<1> QED BY <1>3, <1>4, <1>5 DEF u

(* A sequence is its own prefix. *)
LEMMA PrefixItself == ASSUME NEW S, NEW s \in Seq(S) PROVE IsPrefix(s, s)
<1>1. Len(s) <= Len(s) BY LenProperties
<1> QED BY <1>1, PrefixElements

(* What is appended leaves the prefixes as they are. *)
LEMMA PrefixOfAppend ==
    ASSUME NEW S, NEW s \in Seq(S), NEW t \in Seq(S), NEW e \in S, IsPrefix(s, t)
    PROVE  IsPrefix(s, Append(t, e))
<1>1. Len(s) <= Len(t) /\ \A i \in 1..Len(s) : s[i] = t[i] BY PrefixElements
<1>2. Append(t, e) \in Seq(S) /\ Len(Append(t, e)) = Len(t) + 1
      /\ \A i \in 1..Len(t) : Append(t, e)[i] = t[i]
  BY AppendProperties
<1>3. Len(s) \in Nat /\ Len(t) \in Nat BY LenProperties
<1>4. Len(s) <= Len(Append(t, e)) BY <1>1, <1>2, <1>3
<1>5. \A i \in 1..Len(s) : s[i] = Append(t, e)[i] BY <1>1, <1>2, <1>3
<1> QED BY <1>2, <1>4, <1>5, PrefixElements

(* A ledger's candidates grow with it, at their end. *)
LEMMA CandidatesGrow ==
    ASSUME NEW log \in Seq(Nat), NEW e \in Nat
    PROVE  /\ Candidates(log) \in Seq(Nat) /\ Candidates(Append(log, e)) \in Seq(Nat)
           /\ IsPrefix(Candidates(log), Candidates(Append(log, e)))
           /\ \A s \in Seq(Nat) : IsPrefix(s, Candidates(log))
                  => IsPrefix(s, Candidates(Append(log, e)))
<1>1. Candidates(log) \in Seq(Nat) BY CandidatesIsSeq
<1>2. Candidates(Append(log, e)) \in Seq(Nat) BY AppendProperties, CandidatesIsSeq
<1> DEFINE c == Candidates(log)
           d == Candidates(Append(log, e))
<1>3. d = IF e \in IsCandidate THEN Append(c, e) ELSE c BY CandidatesAppend
<1>4. c \in Seq(Nat) /\ d \in Seq(Nat) BY <1>1, <1>2
<1> HIDE DEF c, d
<1>5. \A s \in Seq(Nat) : IsPrefix(s, c) => IsPrefix(s, d)
  <2>1. ASSUME NEW s \in Seq(Nat), IsPrefix(s, c) PROVE IsPrefix(s, Append(c, e))
    BY <1>4, <2>1, PrefixOfAppend
  <2> QED BY <1>3, <2>1
<1>6. IsPrefix(c, d) BY <1>4, <1>5, PrefixItself
<1> QED BY <1>4, <1>5, <1>6 DEF c, d

(* Events are numbered as they are made, so a new one is above the others. *)
LEMMA IncreasingAppend ==
    ASSUME NEW s, NEW m \in Nat, Increasing(s, m)
    PROVE  Increasing(s, m + 1) /\ Increasing(Append(s, m + 1), m + 1)
<1>1. s \in Seq(Nat) /\ (\A i, j \in 1..Len(s) : i < j => s[i] < s[j])
      /\ (\A i \in 1..Len(s) : s[i] <= m)
  BY DEF Increasing
<1>2. Len(s) \in Nat /\ \A i \in 1..Len(s) : s[i] \in Nat BY <1>1, LenProperties, ElementOfSeq
<1>3. Increasing(s, m + 1)
  <2>1. \A i \in 1..Len(s) : s[i] <= m + 1 BY <1>1, <1>2
  <2> QED BY <1>1, <2>1 DEF Increasing
<1> DEFINE t == Append(s, m + 1)
<1>4. t \in Seq(Nat) /\ Len(t) = Len(s) + 1 /\ (\A i \in 1..Len(s) : t[i] = s[i])
      /\ t[Len(s) + 1] = m + 1
  BY <1>1, AppendProperties
<1> HIDE DEF t
<1>5. \A i \in 1..Len(t) : i \in 1..Len(s) \/ i = Len(s) + 1 BY <1>2, <1>4
<1>6. ASSUME NEW i \in 1..Len(t) PROVE t[i] <= m + 1
  <2>1. CASE i \in 1..Len(s)
    <3>1. t[i] = s[i] /\ s[i] \in Nat /\ s[i] <= m BY <1>1, <1>2, <1>4, <2>1
    <3> QED BY <3>1
  <2>2. CASE i = Len(s) + 1
    <3>1. t[i] = m + 1 BY <1>4, <2>2
    <3> QED BY <3>1
  <2> QED BY <1>5, <2>1, <2>2
<1>7. ASSUME NEW i \in 1..Len(t), NEW j \in 1..Len(t), i < j PROVE t[i] < t[j]
  <2>1. i \in 1..Len(s) BY <1>2, <1>4, <1>7
  <2>2. CASE j \in 1..Len(s) BY <1>1, <1>4, <1>7, <2>1, <2>2
  <2>3. CASE j = Len(s) + 1
    <3>1. t[i] = s[i] /\ s[i] \in Nat /\ s[i] <= m BY <1>1, <1>2, <1>4, <2>1
    <3>2. t[j] = m + 1 BY <1>4, <2>3
    <3> QED BY <3>1, <3>2
  <2> QED BY <1>5, <2>2, <2>3
<1> QED BY <1>3, <1>4, <1>6, <1>7 DEF Increasing, t

(* AtMost is the smaller of the two. *)
LEMMA AtMostIs ==
    ASSUME NEW m \in Nat, NEW n \in Nat
    PROVE  AtMost(m, n) \in Nat /\ AtMost(m, n) <= m /\ AtMost(m, n) <= n
           /\ (m <= n => AtMost(m, n) = m) /\ (n <= m => AtMost(m, n) = n)
BY DEF AtMost

(* A page joined to the pages before it. *)
LEMMA PageJoins ==
    ASSUME NEW s \in Seq(Nat), NEW n \in Nat, NEW m \in Nat, n <= m, m <= Len(s)
    PROVE  SubSeq(s, 1, n) \o SubSeq(s, n + 1, m) = SubSeq(s, 1, m)
           /\ SubSeq(s, 1, n) \in Seq(Nat) /\ Len(SubSeq(s, 1, n)) = n
<1>1. Len(s) \in Nat /\ \A i \in 1..Len(s) : s[i] \in Nat BY LenProperties, ElementOfSeq
<1>2. 1 \in 1..(Len(s) + 1) /\ n \in (1 - 1)..Len(s) /\ m \in n..Len(s) BY <1>1
<1>3. SubSeq(s, 1, n) \o SubSeq(s, n + 1, m) = SubSeq(s, 1, m)
  BY <1>2, ConcatAdjacentSubSeq
<1>4. \A i \in 1..n : s[i] \in Nat BY <1>1
<1>5. SubSeq(s, 1, n) \in Seq(Nat)
      /\ Len(SubSeq(s, 1, n)) = IF 1 <= n THEN n - 1 + 1 ELSE 0
  BY <1>4, SubSeqProperties
<1> QED BY <1>3, <1>5

-----------------------------------------------------------------------------

(* The listing's invariant outside a listing. *)
LEMMA ListingIdle ==
    ASSUME ReadersInv, UNCHANGED <<ledger, made, restores>>,
           phase' \notin {"listing", "listed"}, offset' = 0, names' = <<>>
    PROVE  ListingInv'
<1>1. restores = 0 => Increasing(Candidates(ledger), made) BY DEF ReadersInv, ListingInv
<1>2. Candidates(ledger)' = Candidates(ledger) BY DEF Candidates
<1>3. (restores = 0 => Increasing(Candidates(ledger), made))' BY <1>1, <1>2 DEF Increasing
<1> QED BY <1>3 DEF ListingInv

(* A page continues the export, ends it, or is refused because the cursor is*)
(* not on the ledger.                                                       *)
LEMMA AuditPageStep ==
    ASSUME ReadersInv, NEW n \in PageSize, AuditPage(n) PROVE ReadersInv'
<1>1. /\ ledger \in Seq(Nat) /\ got \in Seq(Nat) /\ target \in Seq(Nat)
      /\ after = [seq |-> Len(got), hash |-> got]
      /\ until = [seq |-> Len(target), hash |-> target]
      /\ phase = "auditing"
  BY DEF ReadersInv, ReadersTypes, AuditInv, AuditPage
<1>2. /\ UNCHANGED <<ledger, made, restores, names, offset, shown>>
      /\ phase' \in {"refused", "audited", "auditing"}
  BY <1>1 DEF AuditPage, world, list
<1>3. ListingInv' /\ ShownInv'
  <2>1. offset = 0 /\ names = <<>> BY <1>1 DEF ReadersInv, ListingInv
  <2>2. ListingInv' BY <1>2, <2>1, ListingIdle
  <2>3. ShownInv' BY <1>2 DEF ShownInv
  <2> QED BY <2>2, <2>3
<1>4. CASE ~CursorValid
  <2>1. UNCHANGED <<got, after, until, target>> /\ phase' = "refused"
    BY <1>4 DEF AuditPage, export
  <2>2. ReadersTypes' BY <1>2, <2>1 DEF ReadersInv, ReadersTypes
  <2>3. AuditInv' BY <1>1, <2>1 DEF AuditInv
  <2> QED BY <1>3, <2>2, <2>3 DEF ReadersInv
<1>5. CASE CursorValid
  <2> DEFINE m == PageEnd(n)
  <2>1. /\ got' = got \o SubSeq(ledger, after.seq + 1, m)
        /\ after' = [seq |-> m, hash |-> Hash(m)]
        /\ until' = [seq |-> End, hash |-> Hash(End)]
        /\ target' = IF until.seq = 0 THEN ledger ELSE target
        /\ phase' = IF m = End THEN "audited" ELSE phase
    BY <1>5 DEF AuditPage
  <2>2. /\ after.seq = Len(got) /\ after.hash = got
        /\ until.seq = Len(target) /\ until.hash = target
        /\ Len(got) \in Nat /\ Len(target) \in Nat /\ Len(ledger) \in Nat
        /\ n \in Nat
    BY <1>1, LenProperties, ReadersAssumption
  <2>3. /\ End \in Nat /\ Len(got) <= End /\ End <= Len(ledger)
        /\ (until.seq = 0 => End = Len(ledger)) /\ (until.seq # 0 => End = Len(target))
    BY <1>5, <2>2 DEF CursorValid, End
  <2>4. m \in Nat /\ Len(got) <= m /\ m <= End
    <3>1. m = AtMost(End, Len(got) + n) /\ Len(got) + n \in Nat BY <2>2 DEF PageEnd
    <3>2. m \in Nat /\ m <= End BY <2>3, <3>1, AtMostIs
    <3>3. m = End \/ m = Len(got) + n BY <3>1 DEF AtMost
    <3> QED BY <2>2, <2>3, <3>2, <3>3
  <2>5. SubSeq(ledger, 1, Len(got)) = got
    <3>1. CASE Len(got) = 0
      <4>1. SubSeq(ledger, 1, 0) = <<>> BY SubSeqEmpty
      <4>2. got = <<>> BY <1>1, <3>1, EmptySeq
      <4> QED BY <3>1, <4>1, <4>2
    <3>2. CASE Len(got) # 0 BY <1>5, <2>2, <3>2 DEF CursorValid, Hash
    <3> QED BY <3>1, <3>2
  <2> HIDE DEF m
  <2>6. got' = SubSeq(ledger, 1, m) /\ got' \in Seq(Nat) /\ Len(got') = m
    <3>0. m <= Len(ledger) BY <2>2, <2>3, <2>4
    <3>1. SubSeq(ledger, 1, Len(got)) \o SubSeq(ledger, Len(got) + 1, m) = SubSeq(ledger, 1, m)
      BY <1>1, <2>2, <2>4, <3>0, PageJoins
    <3>2. got' = SubSeq(ledger, 1, m) BY <2>1, <2>2, <2>5, <3>1
    <3>3. m <= Len(ledger) /\ m <= m BY <2>2, <2>3, <2>4
    <3>4. SubSeq(ledger, 1, m) \in Seq(Nat) /\ Len(SubSeq(ledger, 1, m)) = m
      BY <1>1, <2>4, <3>3, PageJoins
    <3> QED BY <3>2, <3>4
  <2>7. target' \in Seq(Nat) /\ Hash(End) = target' /\ Len(target') = End
    <3>1. CASE until.seq = 0
      <4>1. End = Len(ledger) /\ target' = ledger BY <2>1, <2>3, <3>1
      <4>2. SubSeq(ledger, 1, Len(ledger)) = ledger BY <1>1, SubSeqFull
      <4> QED BY <1>1, <4>1, <4>2 DEF Hash
    <3>2. CASE until.seq # 0
      <4>1. End = Len(target) /\ target' = target BY <2>1, <2>3, <3>2
      <4>2. Hash(End) = target BY <1>5, <2>2, <3>2, <4>1 DEF CursorValid
      <4> QED BY <1>1, <4>1, <4>2
    <3> QED BY <3>1, <3>2
  <2>8. after' = [seq |-> Len(got'), hash |-> got'] BY <2>1, <2>6 DEF Hash
  <2>9. until' = [seq |-> Len(target'), hash |-> target'] BY <2>1, <2>7
  <2>10. phase' = "audited" => got' = target' BY <1>1, <2>1, <2>6, <2>7 DEF Hash
  <2>11. ReadersTypes' BY <1>2, <2>6, <2>7 DEF ReadersInv, ReadersTypes
  <2>12. AuditInv' BY <2>8, <2>9, <2>10 DEF AuditInv
  <2> QED BY <1>3, <2>11, <2>12 DEF ReadersInv
<1> QED BY <1>4, <1>5

(* An export, fresh or continued, keeps what there is and has no end yet. *)
LEMMA BeginAuditStep == ASSUME ReadersInv, BeginAudit PROVE ReadersInv'
<1>1. /\ UNCHANGED <<ledger, made, restores, got, after, offset, names, shown>>
      /\ phase' = "auditing" /\ phase \in {"idle", "audited"}
      /\ until' = Start /\ target' = <<>>
  BY DEF BeginAudit, world, list
<1>2. <<>> \in Seq(Nat) /\ Len(<<>>) = 0 BY EmptySeq
<1>3. ReadersTypes' BY <1>1, <1>2 DEF ReadersInv, ReadersTypes
<1>4. AuditInv'
  <2>1. until' = [seq |-> Len(target'), hash |-> target'] BY <1>1, <1>2 DEF Start
  <2>2. after' = [seq |-> Len(got'), hash |-> got'] BY <1>1 DEF ReadersInv, AuditInv
  <2> QED BY <1>1, <2>1, <2>2 DEF AuditInv
<1>5. ListingInv'
  <2>1. offset = 0 /\ names = <<>> BY <1>1 DEF ReadersInv, ListingInv
  <2> QED BY <1>1, <2>1, ListingIdle
<1>6. ShownInv' BY <1>1 DEF ShownInv
<1> QED BY <1>3, <1>4, <1>5, <1>6 DEF ReadersInv

(* After an answer or a refusal the next one starts anew. *)
LEMMA AgainStep == ASSUME ReadersInv, Again PROVE ReadersInv'
<1>1. /\ UNCHANGED <<ledger, made, restores>>
      /\ phase' = "idle" /\ got' = <<>> /\ after' = Start /\ until' = Start /\ target' = <<>>
      /\ offset' = 0 /\ names' = <<>> /\ shown' = <<>>
  BY DEF Again, world
<1>2. <<>> \in Seq(Nat) /\ Len(<<>>) = 0 /\ <<>> \in Seq(Seq(Nat)) BY EmptySeq
<1>3. ReadersTypes' BY <1>1, <1>2 DEF ReadersInv, ReadersTypes
<1>4. AuditInv' BY <1>1, <1>2 DEF AuditInv, Start
<1>5. ListingInv' BY <1>1, ListingIdle
<1>6. ShownInv' BY <1>1 DEF ShownInv
<1> QED BY <1>3, <1>4, <1>5, <1>6 DEF ReadersInv

(* A fresh listing has nothing yet. *)
LEMMA BeginListingStep == ASSUME ReadersInv, BeginListing PROVE ReadersInv'
<1>1. /\ UNCHANGED <<ledger, made, restores, got, after, until, offset, names, shown>>
      /\ phase = "idle" /\ phase' = "listing" /\ target' = ledger
  BY DEF BeginListing, world, export, list
<1>2. ReadersTypes' BY <1>1 DEF ReadersInv, ReadersTypes
<1>3. AuditInv' BY <1>1 DEF ReadersInv, AuditInv
<1>4. ListingInv'
  <2>1. offset = 0 /\ names = <<>> BY <1>1 DEF ReadersInv, ListingInv
  <2>2. Candidates(ledger) \in Seq(Nat) BY CandidatesIsSeq DEF ReadersInv, ReadersTypes
  <2>3. IsPrefix(Candidates(ledger), Candidates(ledger)) BY <2>2, PrefixItself
  <2>4. offset' <= Len(Candidates(ledger)) BY <1>1, <2>1, <2>2, LenProperties
  <2>5. names' = SubSeq(Candidates(ledger), 1, offset')
    <3>1. SubSeq(Candidates(ledger), 1, 0) = <<>> BY SubSeqEmpty
    <3> QED BY <1>1, <2>1, <3>1
  <2>6. restores = 0 => Increasing(Candidates(ledger), made) BY DEF ReadersInv, ListingInv
  <2>7. Candidates(ledger)' = Candidates(ledger) /\ Candidates(target)' = Candidates(ledger)
    BY <1>1 DEF Candidates
  <2>8. (restores = 0 => Increasing(Candidates(ledger), made))'
    BY <1>1, <2>6, <2>7 DEF Increasing
  <2> QED BY <1>1, <2>3, <2>4, <2>5, <2>7, <2>8 DEF ListingInv
<1>5. ShownInv' BY <1>1 DEF ShownInv
<1> QED BY <1>2, <1>3, <1>4, <1>5 DEF ReadersInv

(* The names of a finished listing. *)
LEMMA ListingIsComplete ==
    ASSUME NEW c, NEW m, Increasing(c, m), NEW d \in Seq(Nat), IsPrefix(d, c)
    PROVE  IsInjective(c) /\ Range(d) \subseteq Range(c)
<1>1. c \in Seq(Nat) /\ \A i, j \in 1..Len(c) : i < j => c[i] < c[j] BY DEF Increasing
<1>2. /\ Len(c) \in Nat /\ DOMAIN c = 1..Len(c) /\ \A i \in 1..Len(c) : c[i] \in Nat
      /\ Len(d) \in Nat /\ DOMAIN d = 1..Len(d)
  BY <1>1, LenProperties, ElementOfSeq
<1>3. IsInjective(c)
  <2>1. ASSUME NEW i \in 1..Len(c), NEW j \in 1..Len(c), c[i] = c[j] PROVE i = j
    <3>1. i < j \/ i = j \/ j < i BY <1>2
    <3>2. ~(i < j) BY <1>1, <1>2, <2>1
    <3>3. ~(j < i) BY <1>1, <1>2, <2>1
    <3> QED BY <3>1, <3>2, <3>3
  <2> QED BY <1>2, <2>1 DEF IsInjective
<1>4. Range(d) \subseteq Range(c)
  <2>1. Len(d) <= Len(c) /\ \A i \in 1..Len(d) : d[i] = c[i] BY <1>1, PrefixElements
  <2>2. \A i \in 1..Len(d) : i \in 1..Len(c) BY <1>2, <2>1
  <2> QED BY <1>2, <2>1, <2>2 DEF Range
<1> QED BY <1>3, <1>4

(* A page adds the candidates from the offset on; the listing ends with the *)
(* last one.                                                                *)
LEMMA ListingPageStep ==
    ASSUME ReadersInv, NEW n \in PageSize, ListingPage(n) PROVE ReadersInv'
<1> DEFINE c == Candidates(ledger)
           m == AtMost(Len(c), offset + n)
<1>1. /\ UNCHANGED <<ledger, made, restores, got, after, until, target, shown>>
      /\ phase = "listing" /\ names' = names \o SubSeq(c, offset + 1, m)
      /\ IF offset + n < Len(c)
           THEN offset' = offset + n /\ phase' = phase
           ELSE phase' = "listed" /\ offset' = offset
  BY DEF ListingPage, NextOffset, world, export
<1>2. /\ c \in Seq(Nat) /\ Len(c) \in Nat /\ Candidates(target) \in Seq(Nat)
      /\ offset \in Nat /\ n \in Nat /\ names \in Seq(Nat)
  BY CandidatesIsSeq, LenProperties, ReadersAssumption DEF ReadersInv, ReadersTypes
<1>3. phase' \in {"listing", "listed"} /\ offset' \in Nat BY <1>1, <1>2
<1>4. c' = c /\ Candidates(target)' = Candidates(target) BY <1>1 DEF Candidates
<1>5. restores = 0 =>
        Increasing(c, made) /\ IsPrefix(Candidates(target), c)
        /\ offset <= Len(c) /\ names = SubSeq(c, 1, offset)
  BY <1>1 DEF ReadersInv, ListingInv
<1>6. m \in Nat /\ m <= Len(c) /\ (offset <= Len(c) => offset <= m)
      /\ (offset + n < Len(c) => m = offset + n) /\ (~(offset + n < Len(c)) => m = Len(c))
  <2>1. offset + n \in Nat /\ offset <= offset + n BY <1>2
  <2> HIDE DEF c
  <2> QED BY <1>2, <2>1 DEF AtMost
<1> HIDE DEF m
<1>7. names' \in Seq(Nat)
  <2>1. \A i \in (offset + 1)..m : i \in 1..Len(c) BY <1>2, <1>6
  <2>2. \A i \in (offset + 1)..m : c[i] \in Nat BY <1>2, <2>1, ElementOfSeq
  <2> HIDE DEF c
  <2>3. SubSeq(c, offset + 1, m) \in Seq(Nat) BY <1>2, <1>6, <2>2, SubSeqProperties
  <2> QED BY <1>1, <1>2, <2>3, ConcatProperties
<1>8. restores = 0 => names' = SubSeq(c, 1, m)
  <2> HIDE DEF c
  <2>1. SUFFICES ASSUME restores = 0 PROVE names' = SubSeq(c, 1, m) OBVIOUS
  <2>2. offset <= m BY <1>5, <1>6, <2>1
  <2>3. SubSeq(c, 1, offset) \o SubSeq(c, offset + 1, m) = SubSeq(c, 1, m)
    BY <1>2, <1>6, <2>2, PageJoins
  <2> QED BY <1>1, <1>5, <2>1, <2>3
<1> HIDE DEF c
<1>9. ReadersTypes' BY <1>1, <1>3, <1>7 DEF ReadersInv, ReadersTypes
<1>10. AuditInv' BY <1>1, <1>3 DEF ReadersInv, AuditInv
<1>11. ShownInv' BY <1>3 DEF ShownInv
<1>12. restores = 0 =>
        /\ phase' = "listing" => offset' <= Len(c) /\ names' = SubSeq(c, 1, offset')
        /\ phase' = "listed" => IsInjective(names') /\ Range(Candidates(target)) \subseteq Range(names')
  <2>1. SUFFICES ASSUME restores = 0
                 PROVE  /\ phase' = "listing" => offset' <= Len(c) /\ names' = SubSeq(c, 1, offset')
                        /\ phase' = "listed" => IsInjective(names')
                               /\ Range(Candidates(target)) \subseteq Range(names')
    OBVIOUS
  <2>2. CASE offset + n < Len(c)
    <3>1. phase' = "listing" /\ offset' = m BY <1>1, <1>6, <2>2
    <3> QED BY <1>6, <1>8, <2>1, <3>1
  <2>3. CASE ~(offset + n < Len(c))
    <3>1. phase' = "listed" /\ m = Len(c) BY <1>1, <1>6, <2>3
    <3>2. SubSeq(c, 1, Len(c)) = c BY <1>2, SubSeqFull
    <3>3. names' = c BY <1>8, <2>1, <3>1, <3>2
    <3>4. Increasing(c, made) /\ IsPrefix(Candidates(target), c) BY <1>5, <2>1
    <3>5. IsInjective(c) /\ Range(Candidates(target)) \subseteq Range(c)
      BY <1>2, <3>4, ListingIsComplete
    <3> QED BY <3>1, <3>3, <3>5
  <2> QED BY <2>2, <2>3
<1>13. ListingInv'
  <2>1. (restores = 0 => Increasing(c, made))' BY <1>1, <1>4, <1>5 DEF Increasing
  <2>2. restores' = 0 => IsPrefix(Candidates(target), c)' BY <1>1, <1>4, <1>5 DEF IsPrefix
  <2> QED BY <1>1, <1>3, <1>4, <1>12, <2>1, <2>2 DEF ListingInv, c
<1> QED BY <1>9, <1>10, <1>11, <1>13 DEF ReadersInv

(* The first part of the summary page is the ledger as it is. *)
LEMMA PageStateStep == ASSUME ReadersInv, PageState PROVE ReadersInv'
<1>1. /\ UNCHANGED <<ledger, made, restores, got, after, until, target, offset, names>>
      /\ phase = "idle" /\ phase' = "paging" /\ shown' = <<ledger>>
  BY DEF PageState, world, export, list
<1>2. ledger \in Seq(Nat) BY DEF ReadersInv, ReadersTypes
<1>3. shown' \in Seq(Seq(Nat)) /\ Len(shown') = 1 /\ shown'[1] = ledger BY <1>1, <1>2
<1>4. ReadersTypes' BY <1>1, <1>3 DEF ReadersInv, ReadersTypes
<1>5. AuditInv' BY <1>1 DEF ReadersInv, AuditInv
<1>6. ListingInv'
  <2>1. offset = 0 /\ names = <<>> BY <1>1 DEF ReadersInv, ListingInv
  <2> QED BY <1>1, <2>1, ListingIdle
<1>7. ShownInv'
  <2>1. IsPrefix(ledger, ledger) BY <1>2, PrefixItself
  <2>2. IsPrefix(shown'[Len(shown')], ledger') /\ 1..(Len(shown') - 1) = {} BY <1>1, <1>3, <2>1
  <2> QED BY <1>1, <1>3, <2>2 DEF ShownInv, IsPrefix
<1> QED BY <1>4, <1>5, <1>6, <1>7 DEF ReadersInv

(* A page leaves exports and listings alone. *)
LEMMA PageStepRest ==
    ASSUME ReadersInv, phase = "paging", phase' \in {"paging", "shown", "refused"},
           UNCHANGED <<ledger, made, restores, got, after, until, target, offset, names>>
    PROVE  AuditInv' /\ ListingInv'
<1>1. AuditInv' BY DEF ReadersInv, AuditInv
<1>2. offset = 0 /\ names = <<>> BY DEF ReadersInv, ListingInv
<1> QED BY <1>1, <1>2, ListingIdle

(* One more part is read from the ledger as it is by then. *)
LEMMA ShownGrows ==
    ASSUME ReadersInv, phase = "paging", shown' = Append(shown, ledger),
           UNCHANGED <<ledger, restores>>
    PROVE  /\ shown' \in Seq(Seq(Nat)) /\ Len(shown') > 0
           /\ restores = 0 =>
                /\ \A i \in 1..(Len(shown') - 1) : IsPrefix(shown'[i], shown'[i + 1])
                /\ IsPrefix(shown'[Len(shown')], ledger)
<1> DEFINE S == Seq(Nat)
           n == Len(shown)
<1>1. ledger \in S /\ shown \in Seq(S) /\ n \in Nat /\ n > 0
  <2>1. ledger \in S /\ shown \in Seq(S) BY DEF ReadersInv, ReadersTypes
  <2> QED BY <2>1, LenProperties DEF ReadersInv, ShownInv
<1>2. restores = 0 =>
        (\A i \in 1..(n - 1) : IsPrefix(shown[i], shown[i + 1])) /\ IsPrefix(shown[n], ledger)
  BY DEF ReadersInv, ShownInv
<1>3. IsPrefix(ledger, ledger) BY <1>1, PrefixItself
<1> HIDE DEF S
<1>4. /\ shown' \in Seq(S) /\ Len(shown') = n + 1 /\ shown'[n + 1] = ledger
      /\ \A i \in 1..n : shown'[i] = shown[i]
  BY <1>1, AppendProperties
<1> HIDE DEF n
<1>5. ASSUME restores = 0, NEW i \in 1..n PROVE IsPrefix(shown'[i], shown'[i + 1])
  <2>1. CASE i = n BY <1>1, <1>2, <1>4, <1>5, <2>1
  <2>2. CASE i # n
    <3>1. i \in 1..(n - 1) /\ i + 1 \in 1..n BY <1>1, <1>5, <2>2
    <3> QED BY <1>2, <1>4, <1>5, <3>1
  <2> QED BY <2>1, <2>2
<1>6. Len(shown') - 1 = n /\ Len(shown') > 0 /\ shown'[Len(shown')] = ledger BY <1>1, <1>4
<1>7. shown' \in Seq(Seq(Nat)) BY <1>4 DEF S
<1> QED BY <1>3, <1>5, <1>6, <1>7

(* A gate adds a part, or the page fails. *)
LEMMA PageGateStep == ASSUME ReadersInv, PageGate PROVE ReadersInv'
<1>1. /\ UNCHANGED <<ledger, made, restores, got, after, until, target, offset, names>>
      /\ phase = "paging"
      /\ \/ phase' = "paging" /\ shown' = Append(shown, ledger)
         \/ phase' = "refused" /\ UNCHANGED shown
  BY DEF PageGate, world, export, list
<1>2. CASE phase' = "paging" /\ shown' = Append(shown, ledger)
  <2>1. /\ shown' \in Seq(Seq(Nat)) /\ Len(shown') > 0
        /\ restores = 0 =>
             /\ \A i \in 1..(Len(shown') - 1) : IsPrefix(shown'[i], shown'[i + 1])
             /\ IsPrefix(shown'[Len(shown')], ledger)
    BY <1>1, <1>2, ShownGrows
  <2>2. ReadersTypes' BY <1>1, <1>2, <2>1 DEF ReadersInv, ReadersTypes
  <2>3. ShownInv' BY <1>1, <1>2, <2>1 DEF ShownInv, IsPrefix
  <2> QED BY <1>1, <1>2, <2>2, <2>3, PageStepRest DEF ReadersInv
<1>3. CASE phase' = "refused" /\ UNCHANGED shown
  <2>1. ReadersTypes' BY <1>1, <1>3 DEF ReadersInv, ReadersTypes
  <2>2. ShownInv' BY <1>3 DEF ShownInv
  <2> QED BY <1>1, <1>3, <2>1, <2>2, PageStepRest DEF ReadersInv
<1> QED BY <1>1, <1>2, <1>3

(* The checkpoint is that of the ledger as it is by then. *)
LEMMA PageCheckpointStep == ASSUME ReadersInv, PageCheckpoint PROVE ReadersInv'
<1>1. /\ UNCHANGED <<ledger, made, restores, got, after, until, target, offset, names>>
      /\ phase = "paging" /\ phase' = "shown" /\ shown' = Append(shown, ledger)
  BY DEF PageCheckpoint, world, export, list
<1>2. /\ shown' \in Seq(Seq(Nat)) /\ Len(shown') > 0
      /\ restores = 0 =>
           \A i \in 1..(Len(shown') - 1) : IsPrefix(shown'[i], shown'[i + 1])
  BY <1>1, ShownGrows
<1>3. ReadersTypes' BY <1>1, <1>2 DEF ReadersInv, ReadersTypes
<1>4. ShownInv' BY <1>1, <1>2 DEF ShownInv, IsPrefix
<1> QED BY <1>1, <1>3, <1>4, PageStepRest DEF ReadersInv

(* An event is added: every prefix of the ledger, and of its candidates,   *)
(* remains one.                                                            *)
LEMMA GrowStep == ASSUME ReadersInv, Grow PROVE ReadersInv'
<1> DEFINE c == Candidates(ledger)
           d == Candidates(Append(ledger, made + 1))
<1>1. /\ UNCHANGED <<restores, phase, got, after, until, target, offset, names, shown>>
      /\ made' = made + 1 /\ ledger' = Append(ledger, made + 1)
  BY DEF Grow, export, list
<1>2. ledger \in Seq(Nat) /\ made \in Nat /\ made + 1 \in Nat
      /\ shown \in Seq(Seq(Nat)) /\ target \in Seq(Nat) /\ offset \in Nat
  BY DEF ReadersInv, ReadersTypes
<1>3. ledger' \in Seq(Nat) BY <1>1, <1>2, AppendProperties
<1>4. ReadersTypes' BY <1>1, <1>2, <1>3 DEF ReadersInv, ReadersTypes
<1>5. AuditInv' BY <1>1 DEF ReadersInv, AuditInv
<1>6. ListingInv'
  <2>1. c \in Seq(Nat) /\ d \in Seq(Nat) /\ Candidates(target) \in Seq(Nat)
        /\ IsPrefix(c, d) /\ \A s \in Seq(Nat) : IsPrefix(s, c) => IsPrefix(s, d)
    BY <1>2, CandidatesGrow, CandidatesIsSeq
  <2>2. d = IF made + 1 \in IsCandidate THEN Append(c, made + 1) ELSE c
    BY <1>2, CandidatesAppend
  <2>3. Candidates(ledger)' = d /\ Candidates(target)' = Candidates(target)
    BY <1>1 DEF Candidates
  <2>4. restores = 0 =>
          /\ Increasing(c, made)
          /\ phase \in {"listing", "listed"} => IsPrefix(Candidates(target), c)
          /\ phase = "listing" => offset <= Len(c) /\ names = SubSeq(c, 1, offset)
          /\ phase = "listed" => IsInjective(names) /\ Range(Candidates(target)) \subseteq Range(names)
    BY DEF ReadersInv, ListingInv
  <2>5. phase \in {"listing", "listed"} \/ (offset = 0 /\ names = <<>>)
    BY DEF ReadersInv, ListingInv
  <2> HIDE DEF c, d
  <2>6. restores = 0 => Increasing(d, made + 1) BY <1>2, <2>2, <2>4, IncreasingAppend
  <2>7. restores = 0 /\ phase \in {"listing", "listed"} => IsPrefix(Candidates(target), d)
    BY <2>1, <2>4
  <2>8. restores = 0 /\ phase = "listing" => offset <= Len(d) /\ names = SubSeq(d, 1, offset)
    <3>1. SUFFICES ASSUME offset <= Len(c), names = SubSeq(c, 1, offset)
                   PROVE  offset <= Len(d) /\ names = SubSeq(d, 1, offset)
      BY <2>4
    <3>2. Len(c) \in Nat /\ Len(d) \in Nat BY <2>1, LenProperties
    <3>3. Len(c) <= Len(d) /\ \A i \in 1..Len(c) : c[i] = d[i] BY <2>1, PrefixElements
    <3>4. offset <= Len(d) BY <1>2, <3>1, <3>2, <3>3
    <3>5. \A i \in 1..offset : i \in 1..Len(c) /\ i \in 1..Len(d) BY <1>2, <3>1, <3>2, <3>4
    <3>6. \A i \in 1..offset : c[i] \in Nat /\ d[i] \in Nat BY <2>1, <3>5, ElementOfSeq
    <3>7. /\ SubSeq(c, 1, offset) \in Seq(Nat) /\ SubSeq(d, 1, offset) \in Seq(Nat)
          /\ Len(SubSeq(c, 1, offset)) = offset /\ Len(SubSeq(d, 1, offset)) = offset
          /\ \A i \in 1..offset : SubSeq(c, 1, offset)[i] = c[i] /\ SubSeq(d, 1, offset)[i] = d[i]
      <4>1. \A i \in 1..offset : i \in 1..(offset - 1 + 1) /\ 1 + i - 1 = i BY <1>2
      <4>2. (IF 1 <= offset THEN offset - 1 + 1 ELSE 0) = offset BY <1>2
      <4> QED BY <1>2, <3>6, <4>1, <4>2, SubSeqProperties
    <3>8. \A i \in 1..offset : SubSeq(c, 1, offset)[i] = SubSeq(d, 1, offset)[i]
      BY <3>3, <3>5, <3>7
    <3>9. SubSeq(c, 1, offset) = SubSeq(d, 1, offset) BY <3>7, <3>8, SeqEqual
    <3> QED BY <3>1, <3>4, <3>9
  <2>9. (restores = 0 => Increasing(Candidates(ledger), made))' BY <1>1, <2>3, <2>6 DEF Increasing
  <2>10. restores' = 0 /\ phase' \in {"listing", "listed"}
         => IsPrefix(Candidates(target), Candidates(ledger))'
    BY <1>1, <2>3, <2>7 DEF IsPrefix
  <2> QED BY <1>1, <2>3, <2>4, <2>5, <2>8, <2>9, <2>10 DEF ListingInv
<1>7. ShownInv'
  <2>1. ShownInv BY DEF ReadersInv
  <2>2. restores = 0 /\ phase = "paging" => IsPrefix(shown[Len(shown)], ledger')
    <3>1. SUFFICES ASSUME restores = 0, phase = "paging"
                   PROVE  IsPrefix(shown[Len(shown)], ledger')
      OBVIOUS
    <3>2. Len(shown) \in 1..Len(shown) BY <1>2, <2>1, <3>1, LenProperties DEF ShownInv
    <3>3. shown[Len(shown)] \in Seq(Nat) BY <1>2, <3>2, ElementOfSeq
    <3>4. IsPrefix(shown[Len(shown)], ledger) BY <2>1, <3>1 DEF ShownInv
    <3> QED BY <1>1, <1>2, <3>3, <3>4, PrefixOfAppend
  <2> QED BY <1>1, <2>1, <2>2 DEF ShownInv, IsPrefix
<1> QED BY <1>4, <1>5, <1>6, <1>7 DEF ReadersInv

(* A backup is restored: what is left does not speak of the ledger that was. *)
LEMMA RestoreStep == ASSUME ReadersInv, Restore PROVE ReadersInv'
<1>1. /\ UNCHANGED <<made, phase, got, after, until, target, offset, names, shown>>
      /\ restores' = restores + 1
  BY DEF Restore, export, list
<1>2. PICK n \in 1..(Len(ledger) - 1) : ledger' = SubSeq(ledger, 1, n) BY DEF Restore
<1>3. ledger \in Seq(Nat) /\ restores \in Nat BY DEF ReadersInv, ReadersTypes
<1>4. Len(ledger) \in Nat BY <1>3, LenProperties
<1>5. ledger' \in Seq(Nat)
  <2>1. n \in Nat /\ n <= n /\ n <= Len(ledger) BY <1>4
  <2> QED BY <1>2, <1>3, <2>1, PageJoins
<1>6. restores' \in Nat /\ restores' # 0 BY <1>1, <1>3
<1>7. ReadersTypes' BY <1>1, <1>5, <1>6 DEF ReadersInv, ReadersTypes
<1>8. AuditInv' BY <1>1 DEF ReadersInv, AuditInv
<1>9. ListingInv' BY <1>1, <1>6 DEF ReadersInv, ListingInv
<1>10. ShownInv' BY <1>1, <1>6 DEF ReadersInv, ShownInv
<1> QED BY <1>7, <1>8, <1>9, <1>10 DEF ReadersInv

(* The invariant speaks of the readers' variables only. *)
LEMMA ReadersIdle == ASSUME ReadersInv, UNCHANGED readersVars PROVE ReadersInv'
<1>1. UNCHANGED <<ledger, made, restores, phase, got, after, until, target, offset, names, shown>>
  BY DEF readersVars
<1>2. ReadersTypes' /\ AuditInv' BY <1>1 DEF ReadersInv, ReadersTypes, AuditInv
<1>3. ListingInv'
  <2>1. ListingInv BY DEF ReadersInv
  <2>2. Candidates(ledger)' = Candidates(ledger) /\ Candidates(target)' = Candidates(target)
    BY <1>1 DEF Candidates
  <2> QED BY <1>1, <2>1, <2>2 DEF ListingInv, Increasing, IsPrefix, IsInjective, Range
<1>4. ShownInv'
  <2>1. ShownInv BY DEF ReadersInv
  <2> QED BY <1>1, <2>1 DEF ShownInv, IsPrefix
<1> QED BY <1>2, <1>3, <1>4 DEF ReadersInv

(* An export, a listing and a summary page, each put together from several *)
(* transactions, are of one history of the ledger, in whatever order and   *)
(* however often events are added and backups restored between them        *)
(* (team_web.py:101-140, web.py:17-37).                                    *)
THEOREM AnswersAreOneHistory == ReadersSpec => []ReadsOneHistory
<1>1. ReadersInit => ReadersInv
  <2> SUFFICES ASSUME ReadersInit PROVE ReadersInv OBVIOUS
  <2>1. /\ ledger = <<1>> /\ made = 1 /\ restores = 0 /\ phase = "idle"
        /\ got = <<>> /\ after = Start /\ until = Start /\ target = <<>>
        /\ offset = 0 /\ names = <<>> /\ shown = <<>>
    BY DEF ReadersInit
  <2>2. <<>> \in Seq(Nat) /\ <<>> \in Seq(Seq(Nat)) /\ Len(<<>>) = 0 /\ <<1>> \in Seq(Nat)
    BY EmptySeq
  <2>3. ReadersTypes BY <2>1, <2>2 DEF ReadersTypes
  <2>4. AuditInv BY <2>1, <2>2 DEF AuditInv, Start
  <2>5. Increasing(Candidates(ledger), made)
    <3>1. Append(<<>>, 1) = <<1>> OBVIOUS
    <3>2. Candidates(Append(<<>>, 1)) =
             IF 1 \in IsCandidate THEN Append(Candidates(<<>>), 1) ELSE Candidates(<<>>)
      BY <2>2, CandidatesAppend
    <3>3. Increasing(<<>>, 0) BY <2>2 DEF Increasing
    <3>4. Increasing(<<>>, 0 + 1) /\ Increasing(Append(<<>>, 0 + 1), 0 + 1)
      BY <3>3, IncreasingAppend
    <3>5. 0 + 1 = 1 OBVIOUS
    <3>6. Candidates(ledger) = Append(<<>>, 1) \/ Candidates(ledger) = <<>>
      BY <2>1, <3>1, <3>2, CandidatesEmpty
    <3> QED BY <2>1, <3>4, <3>5, <3>6
  <2>6. ListingInv BY <2>1, <2>5 DEF ListingInv
  <2>7. ShownInv BY <2>1 DEF ShownInv
  <2> QED BY <2>3, <2>4, <2>6, <2>7 DEF ReadersInv
<1>2. ReadersInv /\ [ReadersNext]_readersVars => ReadersInv'
  <2> SUFFICES ASSUME ReadersInv, [ReadersNext]_readersVars PROVE ReadersInv' OBVIOUS
  <2>1. CASE UNCHANGED readersVars BY <2>1, ReadersIdle
  <2>2. CASE BeginAudit BY <2>2, BeginAuditStep
  <2>3. CASE BeginListing BY <2>3, BeginListingStep
  <2>4. CASE PageState BY <2>4, PageStateStep
  <2>5. CASE PageGate BY <2>5, PageGateStep
  <2>6. CASE PageCheckpoint BY <2>6, PageCheckpointStep
  <2>7. CASE Again BY <2>7, AgainStep
  <2>8. ASSUME NEW n \in PageSize, AuditPage(n) PROVE ReadersInv' BY <2>8, AuditPageStep
  <2>9. ASSUME NEW n \in PageSize, ListingPage(n) PROVE ReadersInv' BY <2>9, ListingPageStep
  <2>10. CASE Grow BY <2>10, GrowStep
  <2>11. CASE Restore BY <2>11, RestoreStep
  <2> QED
    BY <2>1, <2>2, <2>3, <2>4, <2>5, <2>6, <2>7, <2>8, <2>9, <2>10, <2>11 DEF ReadersNext
<1>3. ReadersInv => ReadsOneHistory
  BY DEF ReadersInv, AuditInv, ListingInv, ShownInv, ReadsOneHistory, AuditIsOneHistory,
         ListingComplete, PageBelowCheckpoint
<1> QED BY <1>1, <1>2, <1>3, PTL DEF ReadersSpec
-----------------------------------------------------------------------------
(* Following a rebuild plan. *)

(* Max of a nonempty finite set of numbers is its greatest. *)
LEMMA MaxIsGreatest ==
    ASSUME NEW S, S \subseteq Nat, IsFiniteSet(S), S # {}
    PROVE  Max(S) \in S /\ \A y \in S : y <= Max(S)
<1> DEFINE From(x) == {y \in S : x <= y}
           T == {From(x) : x \in S}
<1>1. T \subseteq SUBSET S /\ T # {} OBVIOUS
<1>2. PICK m \in T : \A u \in T : u \subseteq m => u = m
  <2> HIDE DEF T
  <2>1. IsFiniteSet(S) /\ T \subseteq SUBSET S /\ T # {} BY <1>1
  <2> QED BY ONLY <2>1, SmallestExists
<1>3. PICK x \in S : m = From(x) OBVIOUS
<1>4. ASSUME NEW y \in S PROVE y <= x
  <2>1. SUFFICES ASSUME x < y PROVE FALSE OBVIOUS
  <2>2. From(y) \subseteq From(x) /\ x \in From(x) /\ x \notin From(y)
    <3>1. x \in Nat /\ y \in Nat /\ \A z \in S : z \in Nat OBVIOUS
    <3>2. ~(y <= x) /\ x <= x /\ \A z \in S : y <= z => x <= z BY <2>1, <3>1
    <3> QED BY <3>2
  <2>3. From(y) \in T OBVIOUS
  <2> HIDE DEF From, T
  <2> QED BY <1>2, <1>3, <2>2, <2>3
<1>5. \E z \in S : \A y \in S : z >= y BY <1>4
<1>6. Max(S) \in S /\ \A y \in S : Max(S) >= y BY <1>5 DEF Max
<1> QED BY <1>6

(* Levels over a part A of a graph that is well-founded: 0 for what depends *)
(* on nothing in A, and else one more than the highest it depends on.      *)
IsLevel(f, A, deps) ==
    f = [r \in A |-> IF deps[r] \cap A = {} THEN 0
                     ELSE 1 + Max({f[d] : d \in deps[r] \cap A})]

(* There are such levels. *)
LEMMA LevelsExist ==
    ASSUME NEW A, IsFiniteSet(A), NEW deps, Founded(A, deps) PROVE \E f : IsLevel(f, A, deps)
<1> DEFINE Done(S) == (\A r \in S : deps[r] \cap A \subseteq S) /\ \E f : IsLevel(f, S, deps)
           T == {A \ S : S \in {U \in SUBSET A : Done(U)}}
<1>1. Done({})
  <2>1. IsLevel([r \in {} |-> 0], {}, deps) BY DEF IsLevel
  <2> QED BY <2>1
<1>2. T \subseteq SUBSET A /\ T # {} BY <1>1
<1>3. PICK m \in T : \A u \in T : u \subseteq m => u = m
  <2> HIDE DEF T
  <2> QED BY <1>2, SmallestExists
<1>4. PICK S \in SUBSET A : Done(S) /\ m = A \ S OBVIOUS
<1>5. CASE m = {}
  <2>1. S = A BY <1>4, <1>5
  <2> QED BY <1>4, <2>1
<1>6. CASE m # {}
  <2>1. PICK r \in m : deps[r] \cap m = {} BY <1>4, <1>6 DEF Founded
  <2> DEFINE U == S \cup {r}
  <2>2. r \in A /\ r \notin S /\ U \in SUBSET A BY <1>4, <2>1
  <2>3. deps[r] \cap A \subseteq S BY <1>4, <2>1
  <2>4. \A x \in U : deps[x] \cap A \subseteq U BY <1>4, <2>3
  <2>5. PICK f : IsLevel(f, S, deps) BY <1>4
  <2> DEFINE g == [x \in U |-> IF x = r THEN IF deps[r] \cap A = {} THEN 0
                                             ELSE 1 + Max({f[d] : d \in deps[r] \cap A})
                               ELSE f[x]]
  <2>6. ASSUME NEW x \in U
        PROVE  /\ deps[x] \cap U = deps[x] \cap A
               /\ {g[d] : d \in deps[x] \cap A} = {f[d] : d \in deps[x] \cap A}
    <3>1. deps[x] \cap A \subseteq S BY <1>4, <2>3
    <3>2. \A d \in S : g[d] = f[d] BY <2>2
    <3> HIDE DEF g
    <3> QED BY <2>2, <3>1, <3>2
  <2>7. ASSUME NEW x \in U
        PROVE  g[x] = IF deps[x] \cap U = {} THEN 0
                      ELSE 1 + Max({g[d] : d \in deps[x] \cap U})
    <3>1. CASE x = r
      <4>1. g[x] = IF deps[r] \cap A = {} THEN 0 ELSE 1 + Max({f[d] : d \in deps[r] \cap A})
        BY <3>1
      <4> HIDE DEF g
      <4> QED BY <2>6, <3>1, <4>1
    <3>2. CASE x # r
      <4>1. x \in S /\ g[x] = f[x] BY <3>2
      <4>2. deps[x] \cap S = deps[x] \cap A BY <1>4, <4>1
      <4>3. f[x] = IF deps[x] \cap S = {} THEN 0 ELSE 1 + Max({f[d] : d \in deps[x] \cap S})
        BY <2>5, <4>1 DEF IsLevel
      <4> HIDE DEF g
      <4> QED BY <2>6, <4>1, <4>2, <4>3
    <3> QED BY <3>1, <3>2
  <2>8. g = [x \in U |-> IF deps[x] \cap U = {} THEN 0
                         ELSE 1 + Max({g[d] : d \in deps[x] \cap U})]
    BY <2>7
  <2> HIDE DEF g
  <2>9. Done(U) BY <2>4, <2>8 DEF IsLevel
  <2> HIDE DEF Done, U
  <2>10. A \ U \in T BY <2>2, <2>9
  <2>11. A \ U \subseteq m /\ r \in m /\ r \notin A \ U BY <1>4, <2>1 DEF U
  <2> QED BY <1>3, <2>10, <2>11
<1> QED BY <1>5, <1>6

(* Levels are numbers, and every member is above what it depends on. *)
LEMMA LevelsRise ==
    ASSUME NEW A, IsFiniteSet(A), NEW deps, Founded(A, deps), NEW f, IsLevel(f, A, deps)
    PROVE  \A r \in A : f[r] \in Nat /\ \A d \in deps[r] \cap A : f[d] < f[r]
<1> DEFINE Good(r) == f[r] \in Nat /\ \A d \in deps[r] \cap A : f[d] < f[r]
           Bad == {r \in A : ~Good(r)}
<1>1. ASSUME NEW r \in A, \A d \in deps[r] \cap A : Good(d) PROVE Good(r)
  <2> DEFINE below == deps[r] \cap A
             S == {f[d] : d \in below}
  <2>1. f[r] = IF below = {} THEN 0 ELSE 1 + Max(S) BY DEF IsLevel
  <2>2. CASE below = {} BY <2>1, <2>2
  <2>3. CASE below # {}
    <3>1. S \subseteq Nat /\ S # {} BY <1>1, <2>3
    <3>2. IsFiniteSet(S)
      <4>1. IsFiniteSet(below) BY FS_Subset
      <4> HIDE DEF below
      <4> DEFINE h == [d \in below |-> f[d]]
      <4>2. h \in Surjection(below, S) BY DEF Surjection
      <4> QED BY <4>1, <4>2, FS_Surjection
    <3> HIDE DEF S
    <3>3. Max(S) \in Nat /\ \A y \in S : y <= Max(S) BY <3>1, <3>2, MaxIsGreatest
    <3>4. f[r] = 1 + Max(S) BY <2>1, <2>3
    <3>5. \A y \in S : y < f[r] BY <3>1, <3>3, <3>4
    <3>6. \A d \in below : f[d] \in S BY DEF S
    <3> QED BY <3>3, <3>4, <3>5, <3>6
  <2> QED BY <2>2, <2>3
<1> HIDE DEF Good
<1>2. Bad = {}
  <2> SUFFICES ASSUME Bad # {} PROVE FALSE OBVIOUS
  <2>1. Bad \in SUBSET A OBVIOUS
  <2>2. PICK r \in Bad : deps[r] \cap Bad = {} BY <2>1 DEF Founded
  <2> QED BY <1>1, <2>2
<1> QED BY <1>2 DEF Good

(* The tasks that remain, and the resources that are as the plan wants     *)
(* them: outside the plan, or rebuilt.                                     *)
Remaining == DOMAIN wave \ rebuilt
Settled   == DOMAIN resources \ Remaining

RebuildTypes ==
    /\ IsFiniteSet(DOMAIN resources) /\ DOMAIN resources \subseteq Tracked
    /\ Valid(resources)
    /\ DOMAIN workspace = Tracked /\ workspace = [r \in Tracked |-> workspace[r]]
    /\ rebuilt \subseteq produced /\ produced \subseteq DOMAIN wave
    /\ DOMAIN wave \subseteq DOMAIN resources
    /\ ~following => DOMAIN wave = {}

(* The waves: a task is in a later one than the tasks it depends on, what   *)
(* depends on a task is one, and the teams take the waves in order.        *)
WavesInv ==
    /\ \A r \in DOMAIN wave : wave[r] \in Nat
    /\ \A r \in DOMAIN wave : \A d \in resources[r].deps \cap DOMAIN wave : wave[d] < wave[r]
    /\ following => \A r \in DOMAIN resources :
                        resources[r].deps \cap DOMAIN wave # {} => r \in DOMAIN wave
    /\ \A r \in produced : \A t \in DOMAIN wave : wave[t] < wave[r] => t \in rebuilt

(* What is settled is fresh: its bytes are those registered and its pins   *)
(* the fingerprints there are now.  What is produced has bytes.            *)
SettledFresh ==
    following =>
        /\ \A k \in Settled :
              /\ workspace[k] = resources[k].sha
              /\ \A d \in resources[k].deps : resources[k].pins[d] = Fingerprint(resources, d)
        /\ \A r \in produced : workspace[r] # Absent

RebuildInv == RebuildTypes /\ WavesInv /\ SettledFresh

(* Everything a settled resource depends on is settled. *)
LEMMA SettledClosed ==
    ASSUME RebuildInv, following
    PROVE  \A k \in Settled : resources[k].deps \subseteq Settled
<1> SUFFICES ASSUME NEW k \in Settled, NEW d \in resources[k].deps, d \in Remaining
             PROVE  FALSE
  BY DEF RebuildInv, RebuildTypes, Valid, Grounded, Settled
<1>1. d \in DOMAIN wave /\ d \notin rebuilt /\ k \in DOMAIN resources BY DEF Remaining, Settled
<1>2. k \in DOMAIN wave BY <1>1 DEF RebuildInv, WavesInv
<1>3. k \in produced BY <1>2 DEF Settled, Remaining, RebuildInv, RebuildTypes
<1>4. wave[d] < wave[k] BY <1>1, <1>2 DEF RebuildInv, WavesInv
<1> QED BY <1>1, <1>3, <1>4 DEF RebuildInv, WavesInv

(* The closure of settled resources is fresh, and settled. *)
LEMMA SettledIsFresh ==
    ASSUME RebuildInv, following, NEW roots, roots \subseteq Settled
    PROVE  /\ Closure(resources, roots) \subseteq Settled
           /\ Fresh(resources, workspace, Closure(resources, roots))
<1>1. Valid(resources) /\ Settled \subseteq DOMAIN resources
  BY DEF RebuildInv, RebuildTypes, Settled
<1>2. \A some \in SUBSET Settled : Closure(resources, some) \subseteq Settled
  <2> SUFFICES ASSUME NEW some \in SUBSET Settled
               PROVE  Closure(resources, some) \subseteq Settled
    OBVIOUS
  <2>1. some \subseteq DOMAIN resources /\ Settled \in SUBSET DOMAIN resources BY <1>1
  <2> QED BY <1>1, <2>1, SettledClosed, ClosureIsLeast
<1>3. ASSUME NEW k \in Closure(resources, roots) PROVE ~Stale(resources, k)
  <2>1. {k} \in SUBSET Settled BY <1>2
  <2>2. Closure(resources, {k}) \subseteq Settled BY <1>2, <2>1
  <2> QED BY <2>2 DEF Stale, RebuildInv, SettledFresh
<1>4. Drift(resources, workspace, Closure(resources, roots)) = {}
  <2>1. Closure(resources, roots) \subseteq Settled BY <1>2
  <2> QED BY <2>1 DEF Drift, RebuildInv, SettledFresh
<1> QED BY <1>2, <1>3, <1>4 DEF Fresh

(* Whoever is due may register, and the graph stays valid. *)
LEMMA DueIsAccepted ==
    ASSUME RebuildInv, NEW r \in produced \ rebuilt, Due(r)
    PROVE  /\ MayRegister(r, resources[r].deps)
           /\ Valid(Registered(r, resources[r].deps))
<1> DEFINE deps == resources[r].deps
           new  == Registered(r, deps)
<1>1. following /\ r \in DOMAIN wave /\ r \in DOMAIN resources /\ Valid(resources)
  BY DEF Due, RebuildInv, RebuildTypes
<1>2. deps \subseteq DOMAIN resources \ {r}
  <2>1. deps \subseteq DOMAIN resources BY <1>1 DEF Valid, Grounded
  <2>2. {r} \in SUBSET DOMAIN resources BY <1>1
  <2>3. \E x \in {r} : resources[x].deps \cap {r} = {} BY <1>1, <2>2 DEF Valid, Acyclic
  <2> QED BY <2>1, <2>3
<1>3. deps \subseteq Settled
  <2> SUFFICES ASSUME NEW d \in deps, d \in Remaining PROVE FALSE BY <1>2 DEF Settled
  <2>1. d \in DOMAIN wave /\ d \notin rebuilt BY DEF Remaining
  <2>2. wave[d] < wave[r] BY <1>1, <2>1 DEF RebuildInv, WavesInv
  <2> QED BY <2>1, <2>2 DEF Due
<1>4. Fresh(resources, workspace, Closure(resources, deps)) BY <1>1, <1>3, SettledIsFresh
<1>5. workspace[r] # Absent BY <1>1 DEF RebuildInv, SettledFresh
<1>6. Valid(new)
  <2>1. /\ DOMAIN new = DOMAIN resources
        /\ \A k \in DOMAIN resources : new[k].deps = resources[k].deps
    BY <1>1 DEF Registered
  <2> HIDE DEF new
  <2> QED BY <1>1, <2>1 DEF Valid, Grounded, Acyclic
<1> HIDE DEF deps, new
<1> QED BY <1>2, <1>4, <1>5, <1>6 DEF MayRegister, deps, new

(* What the invariant says is what a team that follows the plan relies on. *)
LEMMA InvSucceeds == ASSUME RebuildInv PROVE PlanSucceeds
<1>1. PlannedRebuildAccepted BY DueIsAccepted DEF PlannedRebuildAccepted
<1>2. FollowedPlanFreshens
  <2> SUFFICES ASSUME following, rebuilt = DOMAIN wave
               PROVE  Fresh(resources, workspace, DOMAIN resources)
    BY DEF FollowedPlanFreshens
  <2>1. Settled = DOMAIN resources BY DEF Settled, Remaining
  <2>2. Closure(resources, DOMAIN resources) = DOMAIN resources
    BY ClosureIsLeast DEF RebuildInv, RebuildTypes
  <2> QED BY <2>1, <2>2, SettledIsFresh
<1> QED BY <1>1, <1>2 DEF PlanSucceeds

(* Before the plan resources are registered and files edited. *)
LEMMA RegisterFirstStep ==
    ASSUME RebuildInv, NEW r \in Tracked, RegisterFirst(r) PROVE RebuildInv'
<1>1. PICK deps : resources' = Registered(r, deps) /\ Valid(Registered(r, deps))
  BY DEF RegisterFirst
<1>2. DOMAIN resources' = DOMAIN resources \cup {r} BY <1>1 DEF Registered
<1>3. Valid(resources)' BY <1>1 DEF Valid, Grounded, Acyclic
<1>4. IsFiniteSet(DOMAIN resources') BY <1>2, FS_AddElement DEF RebuildInv, RebuildTypes
<1>5. /\ ~following /\ DOMAIN wave = {} /\ produced = {} /\ rebuilt = {}
      /\ UNCHANGED <<workspace, wave, following, produced, rebuilt>>
  BY DEF RegisterFirst, RebuildInv, RebuildTypes
<1>6. RebuildTypes' BY <1>2, <1>3, <1>4, <1>5 DEF RebuildInv, RebuildTypes
<1>7. WavesInv' /\ SettledFresh' BY <1>5 DEF WavesInv, SettledFresh
<1> QED BY <1>6, <1>7 DEF RebuildInv

(* An edit before the plan, too, is nothing the plan has settled. *)
LEMMA EditStep == ASSUME RebuildInv, NEW r \in Tracked, Edit(r) PROVE RebuildInv'
<1>1. /\ ~following /\ DOMAIN wave = {} /\ produced = {} /\ rebuilt = {}
      /\ UNCHANGED <<resources, wave, following, produced, rebuilt>>
  BY DEF Edit, RebuildInv, RebuildTypes
<1>2. DOMAIN workspace' = Tracked /\ workspace' = [k \in Tracked |-> workspace'[k]]
  BY DEF Edit, RebuildInv, RebuildTypes
<1>3. Valid(resources)' BY <1>1 DEF Valid, Grounded, Acyclic, RebuildInv, RebuildTypes
<1>4. RebuildTypes' BY <1>1, <1>2, <1>3 DEF RebuildInv, RebuildTypes
<1>5. WavesInv' /\ SettledFresh' BY <1>1 DEF WavesInv, SettledFresh
<1> QED BY <1>4, <1>5 DEF RebuildInv

(* What is affected is registered, and so is affected what depends on it.   *)
LEMMA AffectedUpward ==
    ASSUME NEW graph, Valid(graph), NEW files, NEW changed \in SUBSET DOMAIN graph
    PROVE  /\ Affected(graph, files, changed) \subseteq DOMAIN graph
           /\ \A r \in DOMAIN graph :
                 graph[r].deps \cap Affected(graph, files, changed) # {}
                    => r \in Affected(graph, files, changed)
<1> DEFINE drifted == Drift(graph, files, DOMAIN graph)
           roots   == changed \cup drifted
           behind   == {k \in DOMAIN graph : Stale(graph, k)}
           below   == UNION {Impact(graph, r) : r \in roots}
           A       == Affected(graph, files, changed)
<1>1. A = roots \cup behind \cup below
  <2>1. A = roots \cup behind \cup UNION {Impact(graph, r) : r \in roots} BY DEF Affected
  <2> QED BY <2>1
<1>2. roots \subseteq DOMAIN graph BY DEF Drift
<1> HIDE DEF A, drifted, roots
<1>3. A \subseteq DOMAIN graph BY <1>1, <1>2 DEF Impact
<1>4. ASSUME NEW r \in DOMAIN graph, NEW d \in graph[r].deps, d \in A PROVE r \in A
  <2>1. d \in Closure(graph, {r}) /\ Closure(graph, {d}) \subseteq Closure(graph, {r})
    <3>1. {r} \subseteq DOMAIN graph OBVIOUS
    <3>2. d \in Closure(graph, {r}) BY <3>1, ClosureIsLeast
    <3> QED BY <3>1, <3>2, ClosureWithin
  <2>2. CASE d \in roots
    <3>1. r = d \/ r \in Impact(graph, d) BY <2>1 DEF Impact
    <3> QED BY <1>1, <2>2, <3>1
  <2>3. CASE d \in behind
    <3>1. Stale(graph, r) BY <2>1, <2>3 DEF Stale
    <3> QED BY <1>1, <3>1
  <2>4. CASE d \in below
    <3>1. PICK x \in roots : d \in Impact(graph, x) BY <2>4
    <3>2. x \in Closure(graph, {r}) BY <2>1, <3>1 DEF Impact
    <3>3. r = x \/ r \in Impact(graph, x) BY <3>2 DEF Impact
    <3> QED BY <1>1, <3>1, <3>3
  <2> QED BY <1>1, <1>4, <2>2, <2>3, <2>4
<1> QED BY <1>3, <1>4 DEF A

(* The plan's waves. *)
LEMMA WavesRise ==
    ASSUME Valid(resources), NEW A, A \subseteq DOMAIN resources, IsFiniteSet(A)
    PROVE  /\ DOMAIN Waves(A) = A
           /\ \A r \in A : /\ Waves(A)[r] \in Nat
                           /\ \A d \in resources[r].deps \cap A : Waves(A)[d] < Waves(A)[r]
<1> DEFINE deps  == [r \in DOMAIN resources |-> resources[r].deps]
           level == CHOOSE f : f = [r \in A |->
                        IF resources[r].deps \cap A = {} THEN 0
                        ELSE 1 + Max({f[d] : d \in resources[r].deps \cap A})]
<1>1. \A r \in A : deps[r] = resources[r].deps OBVIOUS
<1>2. Founded(A, deps)
  <2>1. \A S \in SUBSET A : S # {} => \E r \in S : resources[r].deps \cap S = {}
    BY DEF Valid, Acyclic
  <2> HIDE DEF deps
  <2> QED BY <1>1, <2>1 DEF Founded
<1>3. Waves(A) = level BY DEF Waves
<1> HIDE DEF deps
<1>4. \A f : IsLevel(f, A, deps)
                <=> f = [r \in A |-> IF resources[r].deps \cap A = {} THEN 0
                                     ELSE 1 + Max({f[d] : d \in resources[r].deps \cap A})]
  BY <1>1 DEF IsLevel
<1>5. IsLevel(level, A, deps)
  <2>1. PICK f : IsLevel(f, A, deps) BY <1>2, LevelsExist
  <2>2. f = [r \in A |-> IF resources[r].deps \cap A = {} THEN 0
                         ELSE 1 + Max({f[d] : d \in resources[r].deps \cap A})]
    BY <1>4, <2>1
  <2>3. level = [r \in A |-> IF resources[r].deps \cap A = {} THEN 0
                             ELSE 1 + Max({level[d] : d \in resources[r].deps \cap A})]
    BY <2>2
  <2> HIDE DEF level
  <2> QED BY <1>4, <2>3
<1> HIDE DEF level
<1>6. DOMAIN level = A BY <1>5 DEF IsLevel
<1>7. \A r \in A : level[r] \in Nat /\ \A d \in deps[r] \cap A : level[d] < level[r]
  BY <1>2, <1>5, LevelsRise
<1> QED BY <1>1, <1>3, <1>6, <1>7

(* A plan settles what is not affected. *)
LEMMA MakePlanStep ==
    ASSUME RebuildInv, NEW changed \in SUBSET DOMAIN resources, MakePlan(changed)
    PROVE  RebuildInv'
<1> DEFINE A == Affected(resources, workspace, changed)
<1>1. /\ ~following /\ following' /\ wave' = Waves(A)
      /\ rebuilt' = {} /\ produced' = {} /\ UNCHANGED <<resources, workspace>>
  BY DEF MakePlan, RebuildInv, RebuildTypes
<1>2. Valid(resources) /\ IsFiniteSet(DOMAIN resources) BY DEF RebuildInv, RebuildTypes
<1>3. /\ A \subseteq DOMAIN resources
      /\ \A r \in DOMAIN resources : resources[r].deps \cap A # {} => r \in A
  BY <1>2, AffectedUpward
<1>4. /\ \A k \in DOMAIN resources \ A : ~Stale(resources, k)
      /\ \A k \in DOMAIN resources \ A : k \in Tracked => workspace[k] = resources[k].sha
  BY DEF Affected, Drift
<1> HIDE DEF A
<1>5. /\ DOMAIN wave' = A
      /\ \A r \in A : wave'[r] \in Nat /\ \A d \in resources[r].deps \cap A : wave'[d] < wave'[r]
  BY <1>1, <1>2, <1>3, WavesRise, FS_Subset
<1>6. Valid(resources)' BY <1>1, <1>2 DEF Valid, Grounded, Acyclic
<1>7. RebuildTypes' BY <1>1, <1>3, <1>5, <1>6 DEF RebuildInv, RebuildTypes
<1>8. WavesInv' BY <1>1, <1>3, <1>5 DEF WavesInv
<1>9. SettledFresh'
  <2>1. Settled' = DOMAIN resources \ A BY <1>1, <1>5 DEF Settled, Remaining
  <2>2. ASSUME NEW k \in DOMAIN resources \ A
        PROVE  /\ workspace[k] = resources[k].sha
               /\ \A d \in resources[k].deps : resources[k].pins[d] = Fingerprint(resources, d)
    <3>1. k \in Tracked BY DEF RebuildInv, RebuildTypes
    <3>2. k \in Closure(resources, {k}) BY DEF Closure
    <3> QED BY <1>4, <3>1, <3>2 DEF Stale
  <2>3. \A d : Fingerprint(resources, d)' = Fingerprint(resources, d)
    BY <1>1 DEF Fingerprint, Closure
  <2> QED BY <1>1, <2>1, <2>2, <2>3 DEF SettledFresh
<1> QED BY <1>7, <1>8, <1>9 DEF RebuildInv

(* Producing a task's bytes touches nothing that is settled. *)
LEMMA ProduceStep ==
    ASSUME RebuildAssumption, RebuildInv, NEW r \in Tracked, Produce(r) PROVE RebuildInv'
<1>1. /\ following /\ r \in DOMAIN wave /\ r \notin rebuilt
      /\ \A t \in DOMAIN wave : wave[t] < wave[r] => t \in rebuilt
      /\ produced' = produced \cup {r}
      /\ UNCHANGED <<resources, wave, following, rebuilt>>
  BY DEF Produce, Due
<1>2. PICK c \in Bytes : workspace' = [workspace EXCEPT ![r] = c] BY DEF Produce
<1>3. /\ DOMAIN workspace' = Tracked /\ workspace' = [k \in Tracked |-> workspace'[k]]
      /\ workspace'[r] = c /\ \A k \in Tracked \ {r} : workspace'[k] = workspace[k]
  BY <1>2 DEF RebuildInv, RebuildTypes
<1>4. Valid(resources)' BY <1>1 DEF Valid, Grounded, Acyclic, RebuildInv, RebuildTypes
<1>5. RebuildTypes' BY <1>1, <1>3, <1>4 DEF RebuildInv, RebuildTypes
<1>6. WavesInv' BY <1>1 DEF RebuildInv, WavesInv
<1>7. SettledFresh'
  <2>1. Settled' = Settled BY <1>1 DEF Settled, Remaining
  <2>2. \A k \in Settled : k \in Tracked /\ k # r
    BY <1>1 DEF Settled, Remaining, RebuildInv, RebuildTypes
  <2>3. \A k \in produced : k \in Tracked BY DEF RebuildInv, RebuildTypes
  <2>4. \A d : Fingerprint(resources, d)' = Fingerprint(resources, d)
    BY <1>1 DEF Fingerprint, Closure
  <2>5. c # Absent BY DEF RebuildAssumption
  <2> QED BY <1>1, <1>3, <2>1, <2>2, <2>3, <2>4, <2>5 DEF RebuildInv, SettledFresh
<1> QED BY <1>5, <1>6, <1>7 DEF RebuildInv

(* Registering a task settles it, and leaves the fingerprints below what    *)
(* was settled as they are.                                                *)
LEMMA RebuildStep == ASSUME RebuildInv, NEW r \in Tracked, Rebuild(r) PROVE RebuildInv'
<1> DEFINE deps == resources[r].deps
<1>1. /\ following /\ Due(r) /\ r \in DOMAIN wave /\ r \notin rebuilt /\ r \in produced
      /\ rebuilt' = rebuilt \cup {r}
      /\ UNCHANGED <<workspace, wave, following, produced>>
  BY DEF Rebuild, Due
<1>2. /\ r \in DOMAIN resources /\ Valid(resources) /\ Valid(resources')
      /\ MayRegister(r, deps)
  BY <1>1, DueIsAccepted DEF Rebuild, RebuildInv, RebuildTypes
<1>3. /\ DOMAIN resources' = DOMAIN resources
      /\ \A k \in DOMAIN resources \ {r} : resources'[k] = resources[k]
      /\ resources'[r].sha = workspace[r] /\ resources'[r].deps = deps
      /\ \A d \in deps : resources'[r].pins[d] = Fingerprint(resources, d)
  BY <1>2 DEF Rebuild, Registered
<1>4. \A k \in DOMAIN resources : resources'[k].deps = resources[k].deps BY <1>3
<1> HIDE DEF deps
<1>5. Valid(resources)' BY <1>2 DEF Valid, Grounded, Acyclic
<1>6. RebuildTypes' BY <1>1, <1>3, <1>5 DEF RebuildInv, RebuildTypes
<1>7. WavesInv' BY <1>1, <1>3, <1>4 DEF RebuildInv, RebuildTypes, WavesInv
<1>8. Settled' = Settled \cup {r} /\ r \notin Settled
  BY <1>1, <1>2, <1>3 DEF Settled, Remaining
<1>9. ASSUME NEW d \in Settled PROVE Fingerprint(resources', d) = Fingerprint(resources, d)
  <2>1. {d} \subseteq DOMAIN resources /\ {d} \subseteq Settled BY DEF Settled
  <2>2. Closure(resources, {d}) \subseteq Settled BY <1>1, <2>1, SettledIsFresh
  <2>3. \A k \in Closure(resources, {d}) : k \in DOMAIN resources' /\ resources'[k] = resources[k]
    BY <1>3, <1>8, <2>2 DEF Settled
  <2>4. d \in Closure(resources, {d}) BY <1>2, <2>1, ClosureIsLeast
  <2> QED BY <1>2, <2>1, <2>3, <2>4, SnapshotSame
<1>10. deps \subseteq Settled
  <2> SUFFICES ASSUME NEW d \in deps, d \in Remaining PROVE FALSE
    BY <1>2 DEF Settled, MayRegister
  <2>1. d \in DOMAIN wave /\ d \notin rebuilt BY DEF Remaining
  <2>2. wave[d] < wave[r] BY <1>1, <2>1 DEF RebuildInv, WavesInv, deps
  <2> QED BY <1>1, <2>1, <2>2 DEF Due
<1>11. ASSUME NEW k \in Settled'
       PROVE  /\ workspace[k] = resources'[k].sha
              /\ \A d \in resources'[k].deps : resources'[k].pins[d] = Fingerprint(resources', d)
  <2>1. CASE k = r BY <1>3, <1>9, <1>10, <2>1
  <2>2. CASE k # r
    <3>1. k \in Settled /\ k \in DOMAIN resources /\ resources'[k] = resources[k]
      BY <1>3, <1>8, <2>2 DEF Settled
    <3>2. resources[k].deps \subseteq Settled BY <1>1, <3>1, SettledClosed
    <3> QED BY <1>1, <1>9, <3>1, <3>2 DEF RebuildInv, SettledFresh
  <2> QED BY <2>1, <2>2
<1>12. \A d : Fingerprint(resources, d)' = Fingerprint(resources', d) BY DEF Fingerprint, Closure
<1>13. SettledFresh' BY <1>1, <1>11, <1>12 DEF RebuildInv, SettledFresh
<1> QED BY <1>6, <1>7, <1>13 DEF RebuildInv

(* Teams that follow a rebuild plan are never turned away, and when its    *)
(* last wave is rebuilt everything is fresh, for any graph of resources,   *)
(* and however the teams of a wave take turns (planning.py:45-81).          *)
THEOREM PlansSucceed == ASSUME RebuildAssumption PROVE RebuildSpec => []PlanSucceeds
<1>1. RebuildInit => RebuildInv
  <2> SUFFICES ASSUME RebuildInit PROVE RebuildInv OBVIOUS
  <2>1. DOMAIN resources = {} /\ DOMAIN wave = {} BY DEF RebuildInit
  <2>2. RebuildTypes
    BY <2>1, FS_EmptySet DEF RebuildInit, RebuildTypes, Valid, Grounded, Acyclic
  <2> QED BY <2>1, <2>2 DEF RebuildInit, RebuildInv, WavesInv, SettledFresh
<1>2. RebuildInv /\ [RebuildNext]_rebuildVars => RebuildInv'
  <2> SUFFICES ASSUME RebuildInv, [RebuildNext]_rebuildVars PROVE RebuildInv' OBVIOUS
  <2>1. CASE UNCHANGED rebuildVars
    <3>1. UNCHANGED <<resources, workspace, wave, following, produced, rebuilt>>
      BY <2>1 DEF rebuildVars
    <3>2. Valid(resources)' = Valid(resources) BY <3>1 DEF Valid, Grounded, Acyclic
    <3>3. RebuildTypes' /\ WavesInv'
      BY <3>1, <3>2 DEF RebuildInv, RebuildTypes, WavesInv
    <3>4. \A d : Fingerprint(resources, d)' = Fingerprint(resources, d)
      BY <3>1 DEF Fingerprint, Closure
    <3>5. SettledFresh' BY <3>1, <3>4 DEF RebuildInv, SettledFresh, Settled, Remaining
    <3> QED BY <3>3, <3>5 DEF RebuildInv
  <2>2. CASE RebuildNext
    BY <2>2, RegisterFirstStep, EditStep, MakePlanStep, ProduceStep, RebuildStep
    DEF RebuildNext
  <2> QED BY <2>1, <2>2
<1>3. RebuildInv => PlanSucceeds BY InvSucceeds
<1> QED BY <1>1, <1>2, <1>3, PTL DEF RebuildSpec
-----------------------------------------------------------------------------
(* Queues: sequences by what they hold. *)

(* The elements of a set, each once, in some order. *)
LEMMA SetToSeqLists ==
    ASSUME NEW S, IsFiniteSet(S)
    PROVE  SetToSeq(S) \in Seq(S) /\ Range(SetToSeq(S)) = S /\ IsInjective(SetToSeq(S))
<1> DEFINE n == Cardinality(S)
<1>1. n \in Nat /\ ExistsBijection(1..n, S) BY FS_CardinalityType
<1>2. PICK f \in Bijection(1..n, S) : TRUE BY <1>1 DEF ExistsBijection
<1>3. f \in [1..n -> S] /\ IsInjective(f)
  BY <1>2 DEF Bijection, Injection, IsInjective
<1>4. SetToSeq(S) \in [1..n -> S] /\ IsInjective(SetToSeq(S)) BY <1>3 DEF SetToSeq
<1> DEFINE s == SetToSeq(S)
<1> HIDE DEF s, n
<1>5. s \in Injection(1..n, S) BY <1>4 DEF Injection, IsInjective, s
<1>6. s \in Surjection(1..n, S)
  <2>1. IsFiniteSet(1..n) /\ Cardinality(1..n) = n BY <1>1, FS_Interval
  <2> QED BY <1>5, <2>1, FS_Injection DEF n
<1>7. Range(s) = S BY <1>4, <1>6 DEF Surjection, Range, s
<1>8. s \in Seq(S) BY <1>1, <1>4, SeqDef DEF s
<1> QED BY <1>4, <1>7, <1>8 DEF s

(* What is joined to a queue is held after it. *)
LEMMA ConcatHolds ==
    ASSUME NEW S, NEW s \in Seq(S), NEW t \in Seq(S)
    PROVE  /\ s \o t \in Seq(S) /\ Range(s \o t) = Range(s) \cup Range(t)
           /\ IsInjective(s) /\ IsInjective(t) /\ Range(s) \cap Range(t) = {}
                 => IsInjective(s \o t)
<1>1. /\ s \o t \in Seq(S) /\ Len(s \o t) = Len(s) + Len(t)
      /\ \A i \in 1..(Len(s) + Len(t)) :
            (s \o t)[i] = IF i <= Len(s) THEN s[i] ELSE t[i - Len(s)]
  BY ConcatProperties
<1>2. Range(s \o t) = Range(s) \cup Range(t) BY RangeConcatenation
<1>3. ASSUME IsInjective(s), IsInjective(t), Range(s) \cap Range(t) = {}
      PROVE  IsInjective(s \o t)
  <2> DEFINE u == s \o t
  <2>1. Len(s) \in Nat /\ Len(t) \in Nat /\ DOMAIN s = 1..Len(s) /\ DOMAIN t = 1..Len(t)
        /\ DOMAIN u = 1..(Len(s) + Len(t))
    BY <1>1, LenProperties
  <2> HIDE DEF u
  <2>2. ASSUME NEW i \in DOMAIN u
        PROVE  \/ i \in DOMAIN s /\ u[i] = s[i] /\ u[i] \in Range(s)
               \/ i - Len(s) \in DOMAIN t /\ u[i] = t[i - Len(s)] /\ u[i] \in Range(t)
    <3>1. CASE i <= Len(s)
      <4>1. i \in DOMAIN s /\ u[i] = s[i] BY <1>1, <2>1, <3>1 DEF u
      <4> QED BY <4>1 DEF Range
    <3>2. CASE ~(i <= Len(s))
      <4>1. i - Len(s) \in DOMAIN t /\ u[i] = t[i - Len(s)] BY <1>1, <2>1, <3>2 DEF u
      <4> QED BY <4>1 DEF Range
    <3> QED BY <3>1, <3>2
  <2>3. ASSUME NEW i \in DOMAIN u, NEW j \in DOMAIN u, u[i] = u[j] PROVE i = j
    <3>1. CASE i \in DOMAIN s /\ u[i] = s[i] /\ u[i] \in Range(s)
      <4>1. j \in DOMAIN s /\ u[j] = s[j] BY <1>3, <2>2, <2>3, <3>1
      <4> QED BY <1>3, <2>3, <3>1, <4>1 DEF IsInjective
    <3>2. CASE i - Len(s) \in DOMAIN t /\ u[i] = t[i - Len(s)] /\ u[i] \in Range(t)
      <4>1. j - Len(s) \in DOMAIN t /\ u[j] = t[j - Len(s)] BY <1>3, <2>2, <2>3, <3>2
      <4>2. i - Len(s) = j - Len(s) BY <1>3, <2>3, <3>2, <4>1 DEF IsInjective
      <4> QED BY <2>1, <4>2
    <3> QED BY <2>2, <3>1, <3>2
  <2> QED BY <2>3 DEF IsInjective, u
<1> QED BY <1>1, <1>2, <1>3

(* A queue holds its head and what its tail holds. *)
LEMMA HeadTailHolds ==
    ASSUME NEW S, NEW s \in Seq(S), s # <<>>
    PROVE  /\ Head(s) \in S /\ Tail(s) \in Seq(S)
           /\ Range(s) = {Head(s)} \cup Range(Tail(s))
           /\ IsInjective(s) => Head(s) \notin Range(Tail(s)) /\ IsInjective(Tail(s))
<1>1. /\ Head(s) \in S /\ Tail(s) \in Seq(S) /\ Len(Tail(s)) = Len(s) - 1
      /\ \A i \in 1..Len(Tail(s)) : Tail(s)[i] = s[i + 1]
  BY HeadTailProperties
<1>2. /\ Len(s) \in Nat \ {0} /\ DOMAIN s = 1..Len(s)
      /\ DOMAIN Tail(s) = 1..(Len(s) - 1) /\ Head(s) = s[1]
  BY <1>1, EmptySeq, LenProperties
<1> DEFINE t == Tail(s)
<1> HIDE DEF t
<1>3. \A i \in DOMAIN t : i + 1 \in DOMAIN s /\ i + 1 # 1 /\ t[i] = s[i + 1]
  BY <1>1, <1>2 DEF t
<1>4. \A i \in DOMAIN s : i = 1 \/ (i - 1 \in DOMAIN t /\ s[i] = t[i - 1])
  <2> SUFFICES ASSUME NEW i \in DOMAIN s, i # 1 PROVE i - 1 \in DOMAIN t /\ s[i] = t[i - 1]
    OBVIOUS
  <2>1. i - 1 \in DOMAIN t /\ (i - 1) + 1 = i BY <1>2 DEF t
  <2> QED BY <1>3, <2>1
<1>5. 1 \in DOMAIN s BY <1>2
<1>6. Range(s) = {s[1]} \cup Range(t) BY <1>3, <1>4, <1>5 DEF Range
<1>7. IsInjective(s) => s[1] \notin Range(t) BY <1>3, <1>5 DEF IsInjective, Range
<1>8. IsInjective(s) => IsInjective(t)
  <2> SUFFICES ASSUME IsInjective(s), NEW i \in DOMAIN t, NEW j \in DOMAIN t, t[i] = t[j]
               PROVE  i = j
    BY DEF IsInjective
  <2>1. i + 1 = j + 1 BY <1>3 DEF IsInjective
  <2>2. i \in Int /\ j \in Int BY <1>2 DEF t
  <2> QED BY <2>1, <2>2
<1> QED BY <1>1, <1>2, <1>6, <1>7, <1>8 DEF t

(* A stack holds its top and what is below. *)
LEMMA FrontLastHolds ==
    ASSUME NEW S, NEW s \in Seq(S), s # <<>>
    PROVE  /\ Last(s) \in S /\ Front(s) \in Seq(S)
           /\ Range(s) = Range(Front(s)) \cup {Last(s)}
<1>1. Len(s) \in Nat \ {0} /\ DOMAIN s = 1..Len(s) BY EmptySeq, LenProperties
<1> DEFINE n == Len(s)
           f == Front(s)
<1> HIDE DEF n, f
<1>2. f \in Seq(S) /\ DOMAIN f = 1..(n - 1) /\ \A i \in 1..(n - 1) : f[i] = s[i]
  <2>1. n - 1 \in Int /\ 1 \in Int /\ \A i \in 1..(n - 1) : s[i] \in S BY <1>1 DEF n
  <2>2. /\ SubSeq(s, 1, n - 1) \in Seq(S)
        /\ Len(SubSeq(s, 1, n - 1)) = IF 1 <= n - 1 THEN n - 1 - 1 + 1 ELSE 0
        /\ \A i \in 1..(n - 1 - 1 + 1) : SubSeq(s, 1, n - 1)[i] = s[1 + i - 1]
    BY <2>1, SubSeqProperties
  <2>3. f = SubSeq(s, 1, n - 1) BY DEF f, Front, n
  <2>4. Len(f) = n - 1 BY <1>1, <2>2, <2>3 DEF n
  <2>5. DOMAIN f = 1..Len(f) BY <2>2, <2>3, LenProperties
  <2>6. \A i \in 1..(n - 1) : 1 + i - 1 = i /\ i \in 1..(n - 1 - 1 + 1) BY <1>1 DEF n
  <2> QED BY <2>2, <2>3, <2>4, <2>5, <2>6
<1>3. DOMAIN s = DOMAIN f \cup {n} /\ \A i \in DOMAIN f : f[i] = s[i] BY <1>1, <1>2 DEF n
<1>4. Range(s) = Range(f) \cup {s[n]} BY <1>3 DEF Range
<1>5. s[n] \in S BY <1>1 DEF n
<1> QED BY <1>2, <1>4, <1>5 DEF Last, n, f

(* What is appended is held too. *)
LEMMA AppendHolds ==
    ASSUME NEW S, NEW s \in Seq(S), NEW e \in S
    PROVE  /\ Append(s, e) \in Seq(S) /\ Range(Append(s, e)) = Range(s) \cup {e}
           /\ Len(s) \in Nat /\ DOMAIN s = 1..Len(s) /\ DOMAIN Append(s, e) = 1..(Len(s) + 1)
           /\ \A i \in 1..Len(s) : Append(s, e)[i] = s[i]
           /\ Append(s, e)[Len(s) + 1] = e
           /\ IsInjective(s) /\ e \notin Range(s) => IsInjective(Append(s, e))
<1> DEFINE a == Append(s, e)
<1>1. /\ a \in Seq(S) /\ Len(a) = Len(s) + 1
      /\ \A i \in 1..Len(s) : a[i] = s[i]
      /\ a[Len(s) + 1] = e
  BY AppendProperties
<1> HIDE DEF a
<1>2. Len(s) \in Nat /\ DOMAIN s = 1..Len(s) /\ DOMAIN a = 1..(Len(s) + 1)
  BY <1>1, LenProperties
<1>3. DOMAIN a = DOMAIN s \cup {Len(s) + 1} /\ Len(s) + 1 \notin DOMAIN s BY <1>2
<1>4. Range(a) = Range(s) \cup {e} BY <1>1, <1>2, <1>3 DEF Range
<1>5. IsInjective(s) /\ e \notin Range(s) => IsInjective(a)
  BY <1>1, <1>2, <1>3 DEF IsInjective, Range
<1> QED BY <1>1, <1>2, <1>4, <1>5 DEF a

(* A sequence without repetitions is as long as what it holds is large. *)
LEMMA InjectiveLength ==
    ASSUME NEW S, NEW s \in Seq(S), IsInjective(s)
    PROVE  IsFiniteSet(Range(s)) /\ Len(s) = Cardinality(Range(s))
<1>1. Len(s) \in Nat /\ DOMAIN s = 1..Len(s) /\ s \in [1..Len(s) -> S] BY LenProperties
<1>2. s \in Bijection(1..Len(s), Range(s))
  BY <1>1 DEF Bijection, Injection, Surjection, IsInjective, Range
<1>3. ExistsBijection(1..Len(s), Range(s)) BY <1>2 DEF ExistsBijection
<1>4. IsFiniteSet(Range(s)) BY <1>1, <1>3, FS_NatBijection
<1> QED BY <1>1, <1>3, <1>4, FS_CountingElements

-----------------------------------------------------------------------------
(* The digests and the staleness of part of a graph, the dependencies of    *)
(* which are in it, are computed.                                          *)
Computed(graph, keys, fingerprints, old) ==
    /\ DOMAIN fingerprints = keys /\ DOMAIN old = keys
    /\ \A k \in keys :
          /\ graph[k].deps \subseteq keys
          /\ fingerprints[k] = [record |-> graph[k],
                                below  |-> [d \in graph[k].deps |-> fingerprints[d]]]
          /\ old[k] <=> \E d \in graph[k].deps :
                            graph[k].pins[d] # fingerprints[d] \/ old[d]

(* A graph that was accepted. *)
Accepted(g) ==
    /\ Valid(g.res) /\ IsFiniteSet(DOMAIN g.res)
    /\ Computed(g.res, DOMAIN g.res, g.digests, g.stale)

(* Equal digests have equal subgraphs below them, and the other way round. *)
LEMMA DigestsAreSubgraphs ==
    ASSUME NEW g, Accepted(g), NEW h, Accepted(h), NEW k \in DOMAIN g.res \cap DOMAIN h.res
    PROVE  g.digests[k] = h.digests[k] <=> Fingerprint(g.res, k) = Fingerprint(h.res, k)
<1> DEFINE C == Closure(g.res, {k})
<1>1. /\ k \in C /\ C \subseteq DOMAIN g.res
      /\ \A j \in C : g.res[j].deps \subseteq C
      /\ \A S \in SUBSET DOMAIN g.res :
            k \in S /\ (\A j \in S : g.res[j].deps \subseteq S) => C \subseteq S
  BY ClosureIsLeast DEF Accepted
<1>2. /\ \A j \in DOMAIN g.res : g.digests[j] =
            [record |-> g.res[j], below |-> [d \in g.res[j].deps |-> g.digests[d]]]
      /\ \A j \in DOMAIN h.res : h.digests[j] =
            [record |-> h.res[j], below |-> [d \in h.res[j].deps |-> h.digests[d]]]
      /\ \A j \in DOMAIN g.res : g.res[j].deps \subseteq DOMAIN g.res
      /\ \A j \in DOMAIN h.res : h.res[j].deps \subseteq DOMAIN h.res
  BY DEF Accepted, Computed
<1> HIDE DEF C
<1>3. ASSUME g.digests[k] = h.digests[k] PROVE Fingerprint(g.res, k) = Fingerprint(h.res, k)
  <2> DEFINE E == {j \in DOMAIN g.res \cap DOMAIN h.res : g.digests[j] = h.digests[j]}
  <2>1. ASSUME NEW j \in E PROVE g.res[j] = h.res[j] /\ g.res[j].deps \subseteq E
    <3>1. [record |-> g.res[j], below |-> [d \in g.res[j].deps |-> g.digests[d]]]
             = [record |-> h.res[j], below |-> [d \in h.res[j].deps |-> h.digests[d]]]
      BY <1>2
    <3>2. /\ g.res[j] = h.res[j]
          /\ [d \in g.res[j].deps |-> g.digests[d]] = [d \in h.res[j].deps |-> h.digests[d]]
      BY <3>1
    <3>3. ASSUME NEW d \in g.res[j].deps PROVE d \in E
      <4>1. d \in DOMAIN g.res /\ d \in DOMAIN h.res BY <1>2, <3>2
      <4>2. [e \in g.res[j].deps |-> g.digests[e]][d] = [e \in h.res[j].deps |-> h.digests[e]][d]
        BY <3>2
      <4>3. g.digests[d] = h.digests[d] BY <3>2, <4>2
      <4> QED BY <4>1, <4>3
    <3> QED BY <3>2, <3>3
  <2>2. k \in E /\ E \in SUBSET DOMAIN g.res BY <1>3
  <2> HIDE DEF E
  <2>3. C \subseteq E BY <1>1, <2>1, <2>2
  <2>4. \A j \in C : j \in DOMAIN h.res /\ h.res[j] = g.res[j] BY <2>1, <2>3 DEF E
  <2>5. Valid(g.res) /\ Valid(h.res) /\ {k} \subseteq DOMAIN g.res BY DEF Accepted
  <2> QED BY <1>1, <2>4, <2>5, SnapshotSame DEF C
<1>4. ASSUME Fingerprint(g.res, k) = Fingerprint(h.res, k) PROVE g.digests[k] = h.digests[k]
  <2>1. C = Closure(h.res, {k}) /\ \A j \in C : g.res[j] = h.res[j]
    <3>1. /\ DOMAIN Fingerprint(g.res, k) = C
          /\ DOMAIN Fingerprint(h.res, k) = Closure(h.res, {k})
          /\ \A j \in C : Fingerprint(g.res, k)[j] = g.res[j]
          /\ \A j \in Closure(h.res, {k}) : Fingerprint(h.res, k)[j] = h.res[j]
      BY DEF Fingerprint, C
    <3> QED BY <1>4, <3>1
  <2>2. C \subseteq DOMAIN h.res BY <2>1 DEF Closure
  <2> DEFINE Bad == {j \in C : g.digests[j] # h.digests[j]}
  <2>3. ASSUME Bad # {} PROVE FALSE
    <3>1. PICK j \in Bad : g.res[j].deps \cap Bad = {}
      <4>1. Bad \in SUBSET DOMAIN g.res BY <1>1
      <4> HIDE DEF Bad
      <4> QED BY <2>3, <4>1 DEF Accepted, Valid, Acyclic
    <3>2. /\ j \in C /\ g.res[j].deps \subseteq C
          /\ \A d \in g.res[j].deps : g.digests[d] = h.digests[d]
      BY <1>1, <3>1
    <3>3. g.res[j] = h.res[j] /\ j \in DOMAIN g.res /\ j \in DOMAIN h.res
      BY <1>1, <2>1, <2>2, <3>2
    <3>4. [d \in g.res[j].deps |-> g.digests[d]] = [d \in g.res[j].deps |-> h.digests[d]]
      BY <3>2
    <3>5. g.digests[j] = [record |-> g.res[j], below |-> [d \in g.res[j].deps |-> h.digests[d]]]
      BY <1>2, <3>3, <3>4
    <3>6. h.digests[j] = [record |-> g.res[j], below |-> [d \in g.res[j].deps |-> h.digests[d]]]
      BY <1>2, <3>3
    <3>7. g.digests[j] = h.digests[j] BY <3>5, <3>6
    <3> QED BY <3>1, <3>7
  <2> QED BY <1>1, <2>3
<1> QED BY <1>3, <1>4

(* Staleness comes from a pin that is not current, there or further down.   *)
LEMMA StaleComesFromBelow ==
    ASSUME NEW g, Accepted(g), NEW k \in DOMAIN g.res
    PROVE  g.stale[k] <=> \E j \in Closure(g.res, {k}) : \E d \in g.res[j].deps :
                             g.res[j].pins[d] # g.digests[d]
<1> DEFINE OutOfPlace == {j \in DOMAIN g.res : \E d \in g.res[j].deps :
                                                  g.res[j].pins[d] # g.digests[d]}
<1>1. \A j \in DOMAIN g.res :
         /\ g.res[j].deps \subseteq DOMAIN g.res
         /\ g.stale[j] <=> j \in OutOfPlace \/ \E d \in g.res[j].deps : g.stale[d]
  BY DEF Accepted, Computed
<1>2. \A j \in DOMAIN g.res :
         /\ j \in Closure(g.res, {j}) /\ Closure(g.res, {j}) \subseteq DOMAIN g.res
         /\ g.res[j].deps \subseteq Closure(g.res, {j})
         /\ \A S \in SUBSET DOMAIN g.res :
               j \in S /\ (\A i \in S : g.res[i].deps \subseteq S)
                  => Closure(g.res, {j}) \subseteq S
  <2> SUFFICES ASSUME NEW j \in DOMAIN g.res
               PROVE  /\ j \in Closure(g.res, {j}) /\ Closure(g.res, {j}) \subseteq DOMAIN g.res
                      /\ g.res[j].deps \subseteq Closure(g.res, {j})
                      /\ \A S \in SUBSET DOMAIN g.res :
                            j \in S /\ (\A i \in S : g.res[i].deps \subseteq S)
                               => Closure(g.res, {j}) \subseteq S
    OBVIOUS
  <2>1. {j} \subseteq DOMAIN g.res OBVIOUS
  <2> QED BY <2>1, ClosureIsLeast DEF Accepted
<1>3. \A j \in DOMAIN g.res : \A d \in g.res[j].deps :
         Closure(g.res, {d}) \subseteq Closure(g.res, {j})
  <2> SUFFICES ASSUME NEW j \in DOMAIN g.res, NEW d \in g.res[j].deps
               PROVE  Closure(g.res, {d}) \subseteq Closure(g.res, {j})
    OBVIOUS
  <2>1. {j} \subseteq DOMAIN g.res /\ d \in Closure(g.res, {j}) BY <1>2
  <2> QED BY <2>1, ClosureWithin DEF Accepted
<1> HIDE DEF OutOfPlace
<1>4. ASSUME ~g.stale[k] PROVE Closure(g.res, {k}) \cap OutOfPlace = {}
  <2> DEFINE S == {j \in DOMAIN g.res : ~g.stale[j]}
  <2>1. k \in S /\ S \in SUBSET DOMAIN g.res /\ \A i \in S : g.res[i].deps \subseteq S
    BY <1>1, <1>4
  <2>2. S \cap OutOfPlace = {} BY <1>1
  <2> HIDE DEF S
  <2>3. Closure(g.res, {k}) \subseteq S BY <1>2, <2>1
  <2> QED BY <2>2, <2>3
<1>5. ASSUME g.stale[k] PROVE Closure(g.res, {k}) \cap OutOfPlace # {}
  <2> DEFINE T == {j \in DOMAIN g.res : g.stale[j] /\ Closure(g.res, {j}) \cap OutOfPlace = {}}
  <2>1. SUFFICES ASSUME T # {} PROVE FALSE BY <1>5
  <2>2. PICK j \in T : g.res[j].deps \cap T = {}
    <3>1. T \in SUBSET DOMAIN g.res OBVIOUS
    <3> HIDE DEF T
    <3> QED BY <2>1, <3>1 DEF Accepted, Valid, Acyclic
  <2>3. j \notin OutOfPlace BY <1>2
  <2>4. PICK d \in g.res[j].deps : g.stale[d] BY <1>1, <2>3
  <2>5. d \in DOMAIN g.res /\ d \notin T BY <1>1, <2>2
  <2>6. Closure(g.res, {d}) \cap OutOfPlace # {} BY <2>4, <2>5
  <2>7. Closure(g.res, {d}) \subseteq Closure(g.res, {j}) BY <1>3
  <2> QED BY <2>6, <2>7
<1>6. g.stale[k] <=> \E j \in Closure(g.res, {k}) : j \in OutOfPlace BY <1>4, <1>5
<1>7. \A j \in Closure(g.res, {k}) : j \in DOMAIN g.res BY <1>2
<1> QED BY <1>6, <1>7 DEF OutOfPlace

-----------------------------------------------------------------------------
(* The ordering. The resources in order come after what they depend on, the *)
(* queue holds those whose dependencies are in order, and the digests are   *)
(* those of a finished graph.                                              *)
BuildingInv ==
    LET taken == Range(order)
    IN  /\ Grounded(res) /\ IsFiniteSet(DOMAIN res)
        /\ order \in Seq(DOMAIN res) /\ IsInjective(order)
        /\ \A i \in DOMAIN order : res[order[i]].deps \subseteq {order[j] : j \in 1..(i - 1)}
        /\ queue \in Seq(DOMAIN res) /\ IsInjective(queue)
        /\ Range(queue) = {k \in DOMAIN res \ taken : res[k].deps \subseteq taken}
        /\ indegree = [k \in DOMAIN res |-> Cardinality(res[k].deps \ taken)]
        /\ Computed(res, taken, digests, stale)

(* What an ordering that ends has taken decides about cycles. *)
LEMMA OrderDecides ==
    ASSUME BuildingInv, queue = <<>> PROVE AllTaken <=> Valid(res)
<1> DEFINE taken == Range(order)
<1>1. /\ Grounded(res) /\ IsFiniteSet(DOMAIN res)
      /\ order \in Seq(DOMAIN res) /\ IsInjective(order)
      /\ \A i \in DOMAIN order : res[order[i]].deps \subseteq {order[j] : j \in 1..(i - 1)}
      /\ Range(queue) = {k \in DOMAIN res \ taken : res[k].deps \subseteq taken}
  BY DEF BuildingInv
<1>2. /\ taken \subseteq DOMAIN res /\ Len(order) \in Nat /\ DOMAIN order = 1..Len(order)
      /\ Len(order) = Cardinality(taken)
  BY <1>1, LenProperties, RangeOfSeq, InjectiveLength
<1>3. AllTaken <=> taken = DOMAIN res
  <2>1. taken \in SUBSET DOMAIN res BY <1>2
  <2> HIDE DEF taken
  <2>2. Cardinality(DOMAIN res) = Cardinality(taken) => DOMAIN res = taken
    BY <1>1, <2>1, FS_Subset
  <2> QED BY <1>2, <2>2 DEF AllTaken
<1>4. ASSUME taken = DOMAIN res PROVE Acyclic(res)
  <2> SUFFICES ASSUME NEW S \in SUBSET DOMAIN res, S # {}
               PROVE  \E r \in S : res[r].deps \cap S = {}
    BY DEF Acyclic
  <2> DEFINE I == {i \in DOMAIN order : order[i] \in S}
  <2>1. I # {}
    <3>1. PICK r \in S : r \in taken BY <1>4
    <3> QED BY <3>1 DEF Range
  <2>2. I \subseteq Nat /\ IsFiniteSet(I)
    <3>1. IsFiniteSet(DOMAIN order) BY <1>2, FS_Interval
    <3>2. I \in SUBSET DOMAIN order OBVIOUS
    <3> HIDE DEF I
    <3> QED BY <1>2, <3>1, <3>2, FS_Subset
  <2>3. PICK i \in I : \A y \in I : i <= y
    <3> HIDE DEF I
    <3> QED BY <2>1, <2>2, LeastExists
  <2>4. \A j \in 1..(i - 1) : order[j] \notin S
    <3> SUFFICES ASSUME NEW j \in 1..(i - 1), order[j] \in S PROVE FALSE OBVIOUS
    <3>1. i \in 1..Len(order) BY <1>2
    <3>2. j \in 1..Len(order) /\ ~(i <= j) BY <1>2, <3>1
    <3> QED BY <1>2, <2>3, <3>2
  <2>5. order[i] \in S /\ res[order[i]].deps \cap S = {} BY <1>1, <2>4
  <2> QED BY <2>5
<1>5. ASSUME Acyclic(res) PROVE taken = DOMAIN res
  <2> DEFINE S == DOMAIN res \ taken
  <2>1. SUFFICES ASSUME S # {} PROVE FALSE BY <1>2
  <2>2. PICK r \in S : res[r].deps \cap S = {}
    <3>1. S \in SUBSET DOMAIN res OBVIOUS
    <3> HIDE DEF S
    <3> QED BY <1>5, <2>1, <3>1 DEF Acyclic
  <2>3. r \in Range(queue) BY <1>1, <2>2 DEF Grounded
  <2> QED BY <2>3 DEF Range
<1> QED BY <1>1, <1>3, <1>4, <1>5 DEF Valid

(* One more resource in order, and its digest. *)
LEMMA ComputedOneMore ==
    ASSUME NEW graph, NEW keys, NEW fingerprints, NEW old, Computed(graph, keys, fingerprints, old),
           NEW key, key \notin keys, graph[key].deps \subseteq keys,
           NEW new, NEW behind,
           DOMAIN new = keys \cup {key}, DOMAIN behind = keys \cup {key},
           \A k \in keys : new[k] = fingerprints[k] /\ behind[k] = old[k],
           new[key] = [record |-> graph[key],
                       below |-> [d \in graph[key].deps |-> fingerprints[d]]],
           behind[key] <=> \E d \in graph[key].deps :
                               graph[key].pins[d] # fingerprints[d] \/ old[d]
    PROVE  Computed(graph, keys \cup {key}, new, behind)
<1> SUFFICES ASSUME NEW k \in keys \cup {key}
             PROVE  /\ graph[k].deps \subseteq keys
                    /\ new[k] = [record |-> graph[k], below |-> [d \in graph[k].deps |-> new[d]]]
                    /\ behind[k] <=> \E d \in graph[k].deps :
                                         graph[k].pins[d] # new[d] \/ behind[d]
  BY DEF Computed
<1>1. /\ graph[k].deps \subseteq keys
      /\ new[k] = [record |-> graph[k], below |-> [d \in graph[k].deps |-> fingerprints[d]]]
      /\ behind[k] <=> \E d \in graph[k].deps :
                           graph[k].pins[d] # fingerprints[d] \/ old[d]
  <2>1. CASE k = key BY <2>1
  <2>2. CASE k \in keys BY <2>2 DEF Computed
  <2> QED BY <2>1, <2>2
<1>2. [d \in graph[k].deps |-> fingerprints[d]] = [d \in graph[k].deps |-> new[d]] BY <1>1
<1>3. \A d \in graph[k].deps : new[d] = fingerprints[d] /\ behind[d] = old[d] BY <1>1
<1>4. new[k] = [record |-> graph[k], below |-> [d \in graph[k].deps |-> new[d]]] BY <1>1, <1>2
<1> QED BY <1>1, <1>3, <1>4

(* The turn of the ordering: the head of the queue is taken. *)
LEMMA TakeNextStep == ASSUME BuildingInv, TakeNext PROVE BuildingInv'
<1> DEFINE key   == Head(queue)
           fresh == [d \in res[key].deps |-> digests[d]]
           known == DOMAIN digests \cup {key}
           taken == Range(order)
           ready == ReadyAfter(key)
<1>1. /\ queue # <<>> /\ res' = res
      /\ order' = Append(order, key)
      /\ digests' = [k \in known |-> IF k = key THEN Digest(key, fresh) ELSE digests[k]]
      /\ stale' = [k \in known |-> IF k = key THEN OutOfDate(key, fresh) ELSE stale[k]]
      /\ indegree' = [k \in DOMAIN res |->
                        IF k \in Children(res, key) THEN indegree[k] - 1 ELSE indegree[k]]
      /\ queue' = Tail(queue) \o SetToSeq(ready)
  BY DEF TakeNext
<1>2. /\ Grounded(res) /\ IsFiniteSet(DOMAIN res)
      /\ order \in Seq(DOMAIN res) /\ IsInjective(order)
      /\ \A i \in DOMAIN order : res[order[i]].deps \subseteq {order[j] : j \in 1..(i - 1)}
      /\ queue \in Seq(DOMAIN res) /\ IsInjective(queue)
      /\ Range(queue) = {k \in DOMAIN res \ taken : res[k].deps \subseteq taken}
      /\ indegree = [k \in DOMAIN res |-> Cardinality(res[k].deps \ taken)]
      /\ Computed(res, taken, digests, stale)
  BY DEF BuildingInv
<1> HIDE DEF key, taken, ready
<1>3. /\ key \in DOMAIN res /\ Tail(queue) \in Seq(DOMAIN res)
      /\ Range(queue) = {key} \cup Range(Tail(queue))
      /\ key \notin Range(Tail(queue)) /\ IsInjective(Tail(queue))
  BY <1>1, <1>2, HeadTailHolds DEF key
<1>4. key \notin taken /\ res[key].deps \subseteq taken BY <1>2, <1>3
<1>5. /\ order' \in Seq(DOMAIN res) /\ Range(order') = taken \cup {key} /\ IsInjective(order')
      /\ Len(order) \in Nat /\ DOMAIN order = 1..Len(order) /\ DOMAIN order' = 1..(Len(order) + 1)
      /\ \A i \in 1..Len(order) : order'[i] = order[i]
      /\ order'[Len(order) + 1] = key
  BY <1>1, <1>2, <1>3, <1>4, AppendHolds DEF taken
<1>6. \A i \in DOMAIN order' : res[order'[i]].deps \subseteq {order'[j] : j \in 1..(i - 1)}
  <2> SUFFICES ASSUME NEW i \in 1..(Len(order) + 1)
               PROVE  res[order'[i]].deps \subseteq {order'[j] : j \in 1..(i - 1)}
    BY <1>5
  <2>1. {order[j] : j \in 1..(i - 1)} = {order'[j] : j \in 1..(i - 1)}
    <3>1. \A j \in 1..(i - 1) : j \in 1..Len(order) BY <1>5
    <3> QED BY <1>5, <3>1
  <2>2. CASE i \in 1..Len(order) BY <1>2, <1>5, <2>1, <2>2
  <2>3. CASE i = Len(order) + 1
    <3>1. taken = {order[j] : j \in 1..(i - 1)} BY <1>5, <2>3 DEF taken, Range
    <3> QED BY <1>4, <1>5, <2>1, <2>3, <3>1
  <2> QED BY <1>5, <2>2, <2>3
<1>7. \A k \in DOMAIN res : IsFiniteSet(res[k].deps \ taken)
  <2> SUFFICES ASSUME NEW k \in DOMAIN res PROVE IsFiniteSet(res[k].deps \ taken) OBVIOUS
  <2>1. res[k].deps \ taken \in SUBSET DOMAIN res BY <1>2 DEF Grounded
  <2> QED BY <1>2, <2>1, FS_Subset
<1>8. indegree' = [k \in DOMAIN res |-> Cardinality(res[k].deps \ Range(order'))]
  <2> SUFFICES ASSUME NEW k \in DOMAIN res
               PROVE  (IF k \in Children(res, key) THEN indegree[k] - 1 ELSE indegree[k])
                         = Cardinality(res[k].deps \ (taken \cup {key}))
    BY <1>1, <1>5
  <2>1. res[k].deps \ (taken \cup {key}) = (res[k].deps \ taken) \ {key} OBVIOUS
  <2>2. key \in res[k].deps \ taken <=> k \in Children(res, key) BY <1>4 DEF Children
  <2>3. Cardinality((res[k].deps \ taken) \ {key})
           = IF key \in res[k].deps \ taken THEN Cardinality(res[k].deps \ taken) - 1
                                            ELSE Cardinality(res[k].deps \ taken)
    BY <1>7, FS_RemoveElement
  <2> QED BY <1>2, <2>1, <2>2, <2>3
<1>9. ready = {k \in DOMAIN res : res[k].deps \ taken = {key}}
  <2> SUFFICES ASSUME NEW k \in DOMAIN res
               PROVE  k \in Children(res, key) /\ indegree[k] = 1 <=> res[k].deps \ taken = {key}
    BY DEF ready, ReadyAfter, Children
  <2>1. key \in res[k].deps \ taken <=> k \in Children(res, key) BY <1>4 DEF Children
  <2>2. indegree[k] = 1 <=> \E x : res[k].deps \ taken = {x}
    <3>1. indegree[k] = Cardinality(res[k].deps \ taken) BY <1>2
    <3> QED BY <1>7, <3>1, FS_Singleton
  <2> QED BY <2>1, <2>2
<1>10. \A k \in taken : res[k].deps \subseteq taken BY <1>2 DEF Computed
<1>11. Range(queue') = {k \in DOMAIN res \ Range(order') : res[k].deps \subseteq Range(order')}
       /\ queue' \in Seq(DOMAIN res) /\ IsInjective(queue')
  <2>1. IsFiniteSet(ready)
    <3>1. ready \in SUBSET DOMAIN res BY <1>9
    <3> QED BY <1>2, <3>1, FS_Subset
  <2> DEFINE joined == SetToSeq(ready)
  <2> HIDE DEF joined
  <2>2. joined \in Seq(ready) /\ Range(joined) = ready /\ IsInjective(joined)
    BY <2>1, SetToSeqLists DEF joined
  <2>3. joined \in Seq(DOMAIN res)
    <3>1. ready \subseteq DOMAIN res BY <1>9
    <3> QED BY <2>2, <3>1, SeqMonotonic
  <2>4. Range(Tail(queue)) \cap ready = {} BY <1>2, <1>3, <1>4, <1>9
  <2>5. /\ queue' \in Seq(DOMAIN res) /\ Range(queue') = Range(Tail(queue)) \cup ready
        /\ IsInjective(queue')
    <3>1. queue' = Tail(queue) \o joined BY <1>1 DEF joined
    <3>2. Range(Tail(queue)) \cap Range(joined) = {} BY <2>2, <2>4
    <3>3. /\ Tail(queue) \o joined \in Seq(DOMAIN res)
          /\ Range(Tail(queue) \o joined) = Range(Tail(queue)) \cup Range(joined)
          /\ IsInjective(Tail(queue) \o joined)
      <4> DEFINE rest == Tail(queue)
                 D    == DOMAIN res
      <4>1. rest \in Seq(D) /\ IsInjective(rest) BY <1>3
      <4>2. joined \in Seq(D) /\ IsInjective(joined) BY <2>2, <2>3
      <4>3. Range(rest) \cap Range(joined) = {} BY <3>2
      <4> HIDE DEF rest, D
      <4>4. /\ rest \o joined \in Seq(D) /\ IsInjective(rest \o joined)
            /\ Range(rest \o joined) = Range(rest) \cup Range(joined)
        BY ONLY <4>1, <4>2, <4>3, ConcatHolds
      <4> QED BY <4>4 DEF rest, D
    <3> QED BY <2>2, <3>1, <3>3
  <2>6. ASSUME NEW k \in DOMAIN res
        PROVE  k \in Range(Tail(queue)) \cup ready
                  <=> k \notin taken \cup {key} /\ res[k].deps \subseteq taken \cup {key}
    <3>1. CASE k = key BY <1>3, <1>4, <1>9, <3>1
    <3>2. CASE k \in taken BY <1>2, <1>3, <1>9, <1>10, <3>2
    <3>3. CASE k # key /\ k \notin taken
      <4>1. k \in Range(Tail(queue)) <=> res[k].deps \subseteq taken BY <1>2, <1>3, <3>3
      <4> QED BY <1>9, <3>3, <4>1
    <3> QED BY <3>1, <3>2, <3>3
  <2>7. Range(Tail(queue)) \cup ready \subseteq DOMAIN res BY <1>2, <1>3, <1>9
  <2> QED BY <1>5, <2>5, <2>6, <2>7
<1>12. Computed(res, Range(order'), digests', stale')
  <2>1. DOMAIN digests = taken /\ known = taken \cup {key} BY <1>2 DEF Computed
  <2>2. /\ DOMAIN digests' = taken \cup {key} /\ DOMAIN stale' = taken \cup {key}
        /\ \A k \in taken : digests'[k] = digests[k] /\ stale'[k] = stale[k]
        /\ digests'[key] = Digest(key, fresh)
        /\ stale'[key] = OutOfDate(key, fresh)
    BY <1>1, <1>4, <2>1
  <2>3. digests'[key] = [record |-> res[key], below |-> [d \in res[key].deps |-> digests[d]]]
    BY <2>2 DEF Digest
  <2>4. stale'[key] <=> \E d \in res[key].deps : res[key].pins[d] # digests[d] \/ stale[d]
    BY <2>2 DEF OutOfDate
  <2> HIDE DEF known, fresh
  <2>5. Computed(res, taken, digests, stale) /\ key \notin taken /\ res[key].deps \subseteq taken
    BY <1>2, <1>4
  <2>6. Computed(res, taken \cup {key}, digests', stale')
    BY ONLY <2>2, <2>3, <2>4, <2>5, ComputedOneMore
  <2> QED BY <1>5, <2>6
<1>13. Grounded(res)' /\ IsFiniteSet(DOMAIN res)' BY <1>1, <1>2 DEF Grounded
<1>14. Computed(res, Range(order), digests, stale)'
  <2>1. Range(order)' = Range(order') BY DEF Range
  <2>2. Computed(res', Range(order'), digests', stale') BY <1>1, <1>12
  <2> QED BY <2>1, <2>2 DEF Computed
<1> QED BY <1>1, <1>5, <1>6, <1>8, <1>11, <1>13, <1>14 DEF BuildingInv

(* A registration begins an ordering of a graph that may have a cycle. *)
LEMMA RegisterBegins ==
    ASSUME Accepted(built), NEW r, NEW sha, NEW deps, Register(r, sha, deps)
    PROVE  BuildingInv'
<1> DEFINE record  == [sha |-> sha, deps |-> deps, pins |-> [d \in deps |-> built.digests[d]]]
           updated == [k \in DOMAIN built.res \cup {r} |-> IF k = r THEN record ELSE built.res[k]]
           ready   == {k \in DOMAIN updated : updated[k].deps = {}}
<1>1. /\ deps \subseteq DOMAIN built.res \ {r}
      /\ res' = updated /\ order' = <<>> /\ digests' = <<>> /\ stale' = <<>>
      /\ indegree' = [k \in DOMAIN updated |-> Cardinality(updated[k].deps)]
      /\ queue' = SetToSeq(ready)
  BY DEF Register
<1>2. Grounded(updated)
  <2>1. \A k \in DOMAIN built.res : built.res[k].deps \subseteq DOMAIN built.res
    BY DEF Accepted, Valid, Grounded
  <2> QED BY <1>1, <2>1 DEF Grounded
<1>3. IsFiniteSet(DOMAIN updated)
  <2>1. DOMAIN updated = DOMAIN built.res \cup {r} OBVIOUS
  <2> QED BY <2>1, FS_AddElement DEF Accepted
<1> HIDE DEF record, updated
<1>4. /\ SetToSeq(ready) \in Seq(ready) /\ Range(SetToSeq(ready)) = ready
      /\ IsInjective(SetToSeq(ready))
  <2>1. ready \in SUBSET DOMAIN updated OBVIOUS
  <2>2. IsFiniteSet(ready) BY <1>3, <2>1, FS_Subset
  <2> QED BY <2>2, SetToSeqLists
<1>5. queue' \in Seq(DOMAIN res') /\ IsInjective(queue') /\ Range(queue') = ready
  <2>1. ready \subseteq DOMAIN updated OBVIOUS
  <2> HIDE DEF ready
  <2>2. SetToSeq(ready) \in Seq(DOMAIN updated) BY <1>4, <2>1, SeqMonotonic
  <2> QED BY <1>1, <1>4, <2>2
<1>6. DOMAIN order' = {} /\ Range(order') = {} /\ IsInjective(order') /\ order' \in Seq(DOMAIN res')
  BY <1>1 DEF Range, IsInjective
<1>7. Computed(res', {}, digests', stale') BY <1>1 DEF Computed
<1>8. Computed(res, Range(order), digests, stale)'
  <2>1. Range(order)' = Range(order') BY DEF Range
  <2> QED BY <1>6, <1>7, <2>1 DEF Computed
<1>9. Range(queue') = {k \in DOMAIN res' \ Range(order') : res'[k].deps \subseteq Range(order')}
  BY <1>1, <1>5, <1>6
<1>10. indegree' = [k \in DOMAIN res' |-> Cardinality(res'[k].deps \ Range(order'))]
  <2>1. \A k \in DOMAIN updated : updated[k].deps \ Range(order') = updated[k].deps BY <1>6
  <2> QED BY <1>1, <2>1
<1>11. Grounded(res)' /\ IsFiniteSet(DOMAIN res)' BY <1>1, <1>2, <1>3 DEF Grounded
<1>12. \A i \in DOMAIN order' : res'[order'[i]].deps \subseteq {order'[j] : j \in 1..(i - 1)}
  BY <1>6
<1> QED BY <1>5, <1>6, <1>8, <1>9, <1>10, <1>11, <1>12 DEF BuildingInv

(* An ordering that ends with every resource taken has the accepted graph. *)
LEMMA EndBuildAccepts ==
    ASSUME BuildingInv, Accepted(built), Accepted(before), EndBuild
    PROVE  Accepted(built') /\ Accepted(before')
<1>1. CASE ~AllTaken
  <2>1. built' = built /\ before' = before BY <1>1 DEF EndBuild
  <2> QED BY <2>1
<1>2. CASE AllTaken
  <2>1. built' = [res |-> res, digests |-> digests, stale |-> stale] /\ before' = built
        /\ queue = <<>>
    BY <1>2 DEF EndBuild
  <2>2. Valid(res) BY <1>2, <2>1, OrderDecides
  <2>3. Range(order) = DOMAIN res
    <3>1. /\ order \in Seq(DOMAIN res) /\ IsInjective(order) /\ IsFiniteSet(DOMAIN res)
      BY DEF BuildingInv
    <3>2. Range(order) \in SUBSET DOMAIN res BY <3>1, RangeOfSeq
    <3>3. Cardinality(DOMAIN res) = Cardinality(Range(order))
      BY <1>2, <3>1, InjectiveLength DEF AllTaken
    <3> QED BY <3>1, <3>2, <3>3, FS_Subset
  <2>4. Computed(res, DOMAIN res, digests, stale) /\ IsFiniteSet(DOMAIN res)
    BY <2>3 DEF BuildingInv
  <2>5. built'.res = res /\ built'.digests = digests /\ built'.stale = stale BY <2>1
  <2>6. Accepted(built') BY <2>2, <2>4, <2>5 DEF Accepted
  <2> QED BY <2>1, <2>6
<1> QED BY <1>1, <1>2

-----------------------------------------------------------------------------
(* The closure. What is selected or queued is below the roots, and what is  *)
(* selected has its dependencies among it.                                 *)
ClosingInv ==
    LET reached == selected \cup Range(queue)
    IN  /\ start \subseteq DOMAIN built.res
        /\ queue \in Seq(DOMAIN built.res)
        /\ start \subseteq reached
        /\ reached \subseteq Closure(built.res, start)
        /\ \A k \in selected : built.res[k].deps \subseteq reached

(* When nothing is queued the selection is the closure. *)
LEMMA ClosingEnds ==
    ASSUME Accepted(built), ClosingInv, queue = <<>> PROVE selected = Closure(built.res, start)
<1>1. Range(queue) = {} BY DEF Range
<1>2. /\ start \subseteq selected /\ selected \in SUBSET DOMAIN built.res
      /\ selected \subseteq Closure(built.res, start)
      /\ \A k \in selected : built.res[k].deps \subseteq selected
  BY <1>1 DEF ClosingInv, Closure
<1>3. Closure(built.res, start) \subseteq selected
  BY <1>2, ClosureIsLeast DEF Accepted, ClosingInv
<1> QED BY <1>2, <1>3

(* The closure begins with its roots queued. *)
LEMMA CloseBegins ==
    ASSUME Accepted(built), NEW roots \in SUBSET DOMAIN built.res, Close(roots)
    PROVE  ClosingInv'
<1>1. /\ start' = roots /\ selected' = {} /\ queue' = SetToSeq(roots) /\ built' = built
  BY DEF Close
<1>2. SetToSeq(roots) \in Seq(roots) /\ Range(SetToSeq(roots)) = roots
  <2>1. IsFiniteSet(roots) BY FS_Subset DEF Accepted
  <2> QED BY <2>1, SetToSeqLists
<1>3. queue' \in Seq(DOMAIN built.res) /\ Range(queue') = roots
  BY <1>1, <1>2, SeqMonotonic
<1>4. roots \subseteq Closure(built.res, roots) BY ClosureIsLeast DEF Accepted
<1>5. Closure(built.res, start)' = Closure(built.res, roots) BY <1>1 DEF Closure
<1>6. Range(queue)' = Range(queue') BY DEF Range
<1> QED BY <1>1, <1>3, <1>4, <1>5, <1>6 DEF ClosingInv

(* A turn of the closure. *)
LEMMA SelectStep == ASSUME Accepted(built), ClosingInv, Select PROVE ClosingInv'
<1> DEFINE key  == Last(queue)
           more == IF key \in selected THEN <<>> ELSE SetToSeq(built.res[key].deps)
           D    == DOMAIN built.res
           C    == Closure(built.res, start)
<1>1. /\ queue # <<>> /\ selected' = selected \cup {key}
      /\ queue' = Front(queue) \o more
      /\ start' = start /\ built' = built
  BY DEF Select
<1>2. /\ start \subseteq D /\ queue \in Seq(D)
      /\ start \subseteq selected \cup Range(queue)
      /\ selected \cup Range(queue) \subseteq C
      /\ \A k \in selected : built.res[k].deps \subseteq selected \cup Range(queue)
  BY DEF ClosingInv
<1>3. Valid(built.res) /\ IsFiniteSet(D) /\ \A k \in D : built.res[k].deps \subseteq D
  BY DEF Accepted, Valid, Grounded
<1>4. C \subseteq D /\ \A k \in C : built.res[k].deps \subseteq C
  BY <1>2, <1>3, ClosureIsLeast
<1> HIDE DEF key, more, D, C
<1>5. key \in D /\ Front(queue) \in Seq(D) /\ Range(queue) = Range(Front(queue)) \cup {key}
  BY <1>1, <1>2, FrontLastHolds DEF key
<1>6. more \in Seq(D) /\ Range(more) = IF key \in selected THEN {} ELSE built.res[key].deps
  <2>1. CASE key \in selected BY <2>1 DEF more, Range
  <2>2. CASE key \notin selected
    <3>1. IsFiniteSet(built.res[key].deps) BY <1>3, <1>5, FS_Subset
    <3>2. more \in Seq(built.res[key].deps) /\ Range(more) = built.res[key].deps
      BY <2>2, <3>1, SetToSeqLists DEF more
    <3> QED BY <1>3, <1>5, <2>2, <3>2, SeqMonotonic
  <2> QED BY <2>1, <2>2
<1>7. queue' \in Seq(D) /\ Range(queue') = Range(Front(queue)) \cup Range(more)
  BY <1>1, <1>5, <1>6, ConcatHolds
<1> DEFINE reached == selected' \cup Range(queue')
<1>8. reached = selected \cup Range(queue) \cup Range(more) BY <1>1, <1>5, <1>7
<1>9. start \subseteq reached BY <1>2, <1>8
<1>10. reached \subseteq C BY <1>2, <1>4, <1>5, <1>6, <1>8
<1>11. ASSUME NEW k \in selected' PROVE built.res[k].deps \subseteq reached
  <2>1. CASE k \in selected BY <1>2, <1>8, <2>1
  <2>2. CASE k \notin selected BY <1>1, <1>6, <1>8, <2>2
  <2> QED BY <2>1, <2>2
<1>12. Closure(built.res, start)' = C BY <1>1 DEF Closure, C
<1>13. Range(queue)' = Range(queue') BY DEF Range
<1> QED BY <1>1, <1>2, <1>7, <1>9, <1>10, <1>11, <1>12, <1>13 DEF ClosingInv, D

-----------------------------------------------------------------------------
(* The walk. A resource is explained by a chain of dependencies from a root. *)
Explains(path, k) ==
    /\ path \in Seq(DOMAIN built.res)
    /\ Len(path) \in Nat \ {0}
    /\ path[1] \in start /\ path[Len(path)] = k
    /\ \A i \in 1..(Len(path) - 1) : path[i] \in built.res[path[i + 1]].deps

(* The queue holds the explained resources whose children are still to be   *)
(* looked at, those with shorter paths first, and no path is more than one  *)
(* longer than the first.                                                  *)
WalkingInv ==
    /\ start \subseteq DOMAIN paths /\ DOMAIN paths \subseteq DOMAIN built.res
    /\ queue \in Seq(DOMAIN paths) /\ IsInjective(queue)
    /\ \A k \in DOMAIN paths :
          Explains(paths[k], k) /\ \E r \in start : r \in Closure(built.res, {k})
    /\ \A i, j \in DOMAIN queue :
          i < j => Len(paths[queue[i]]) <= Len(paths[queue[j]])
    /\ queue # <<>> => \A k \in DOMAIN paths : Len(paths[k]) <= Len(paths[Head(queue)]) + 1
    /\ \A p \in DOMAIN paths \ Range(queue) : \A c \in Children(built.res, p) :
          c \in DOMAIN paths /\ Len(paths[c]) <= Len(paths[p]) + 1

(* When nothing is queued the paths are right. *)
LEMMA WalkingEnds ==
    ASSUME Accepted(built), WalkingInv, queue = <<>>
    PROVE  /\ DOMAIN paths = start \cup UNION {Impact(built.res, r) : r \in start}
           /\ \A k \in DOMAIN paths :
                 /\ paths[k][1] \in start /\ paths[k][Len(paths[k])] = k
                 /\ \A i \in 1..(Len(paths[k]) - 1) :
                       paths[k][i] \in built.res[paths[k][i + 1]].deps
                 /\ \A p \in built.res[k].deps \cap DOMAIN paths :
                       Len(paths[k]) <= Len(paths[p]) + 1
<1> DEFINE P == DOMAIN paths
           D == DOMAIN built.res
           down == UNION {Impact(built.res, r) : r \in start}
<1>1. Range(queue) = {} BY DEF Range
<1>2. /\ start \subseteq P /\ P \subseteq D
      /\ \A k \in P : Explains(paths[k], k) /\ \E r \in start : r \in Closure(built.res, {k})
      /\ \A p \in P : \A c \in Children(built.res, p) :
            c \in P /\ Len(paths[c]) <= Len(paths[p]) + 1
  BY <1>1 DEF WalkingInv
<1> HIDE DEF P
<1>3. P \subseteq start \cup down
  <2> SUFFICES ASSUME NEW k \in P, k \notin start PROVE k \in down OBVIOUS
  <2>1. PICK r \in start : r \in Closure(built.res, {k}) BY <1>2
  <2>2. k \in Impact(built.res, r) BY <1>2, <2>1 DEF Impact
  <2> QED BY <2>2
<1>4. down \subseteq P
  <2> SUFFICES ASSUME NEW r \in start, NEW k \in Impact(built.res, r), k \notin P PROVE FALSE
    OBVIOUS
  <2> DEFINE S == D \ P
  <2>1. k \in D /\ r \in Closure(built.res, {k}) BY DEF Impact
  <2>2. ASSUME NEW x \in S PROVE built.res[x].deps \subseteq S
    <3>1. built.res[x].deps \subseteq D BY DEF Accepted, Valid, Grounded
    <3>2. \A p \in built.res[x].deps : x \in Children(built.res, p) BY DEF Children
    <3> QED BY <1>2, <3>1, <3>2
  <2>3. {k} \subseteq S /\ S \in SUBSET D /\ {k} \subseteq D BY <2>1
  <2> HIDE DEF S
  <2>4. Closure(built.res, {k}) \subseteq S
    BY <2>2, <2>3, ClosureIsLeast DEF Accepted
  <2>5. r \in P /\ r \in S BY <1>2, <2>1, <2>4
  <2> QED BY <2>5 DEF S
<1>5. ASSUME NEW k \in P
      PROVE  /\ paths[k][1] \in start /\ paths[k][Len(paths[k])] = k
             /\ \A i \in 1..(Len(paths[k]) - 1) :
                   paths[k][i] \in built.res[paths[k][i + 1]].deps
             /\ \A p \in built.res[k].deps \cap P : Len(paths[k]) <= Len(paths[p]) + 1
  <2>1. \A p \in built.res[k].deps : k \in Children(built.res, p) BY <1>2 DEF Children
  <2> QED BY <1>2, <2>1 DEF Explains
<1> QED BY <1>2, <1>3, <1>4, <1>5 DEF P

(* The walk begins with its roots, each explained by itself. *)
LEMMA WalkBegins ==
    ASSUME Accepted(built), NEW roots \in SUBSET DOMAIN built.res, Walk(roots)
    PROVE  WalkingInv'
<1>1. /\ start' = roots /\ paths' = [k \in roots |-> <<k>>] /\ queue' = SetToSeq(roots)
      /\ built' = built
  BY DEF Walk
<1>2. SetToSeq(roots) \in Seq(roots) /\ Range(SetToSeq(roots)) = roots
      /\ IsInjective(SetToSeq(roots))
  <2>1. IsFiniteSet(roots) BY FS_Subset DEF Accepted
  <2> QED BY <2>1, SetToSeqLists
<1>3. queue' \in Seq(roots) /\ Range(queue') = roots /\ IsInjective(queue') BY <1>1, <1>2
<1>4. DOMAIN paths' = roots /\ \A k \in roots : paths'[k] = <<k>> /\ Len(paths'[k]) = 1
  BY <1>1
<1>5. ASSUME NEW k \in roots
      PROVE  /\ <<k>> \in Seq(DOMAIN built.res) /\ Len(<<k>>) = 1 /\ <<k>>[1] = k
             /\ k \in Closure(built.res, {k})
  <2>1. {k} \subseteq DOMAIN built.res OBVIOUS
  <2>2. k \in Closure(built.res, {k}) BY <2>1, ClosureIsLeast DEF Accepted
  <2> DEFINE D == DOMAIN built.res
  <2>3. k \in D OBVIOUS
  <2> HIDE DEF D
  <2>4. <<k>> \in Seq(D) BY <2>3
  <2>5. Len(<<k>>) = 1 /\ <<k>>[1] = k OBVIOUS
  <2> QED BY <2>2, <2>4, <2>5 DEF D
<1>6. ASSUME NEW k \in roots
      PROVE  Explains(paths[k], k)' /\ \E r \in start' : r \in Closure(built.res, {k})'
  <2>1. Explains(paths[k], k)'
    <3>1. /\ paths'[k] \in Seq(DOMAIN built'.res)
          /\ paths'[k][1] \in start' /\ paths'[k][1] = k /\ Len(paths'[k]) = 1
      BY <1>1, <1>4, <1>5
    <3>2. \A i \in 1..(Len(paths'[k]) - 1) : FALSE BY <1>4
    <3> QED BY <3>1, <3>2 DEF Explains
  <2>2. Closure(built.res, {k})' = Closure(built.res, {k}) BY <1>1 DEF Closure
  <2> QED BY <1>1, <1>5, <2>1, <2>2
<1>7. \A i \in DOMAIN queue' : queue'[i] \in roots BY <1>3 DEF Range
<1>8. /\ \A i, j \in DOMAIN queue' : i < j => Len(paths'[queue'[i]]) <= Len(paths'[queue'[j]])
      /\ queue' # <<>> => \A k \in roots : Len(paths'[k]) <= Len(paths'[Head(queue')]) + 1
  <2>1. queue' # <<>> => Head(queue') \in roots BY <1>3, HeadTailHolds
  <2> QED BY <1>4, <1>7, <2>1
<1>9. Range(queue)' = Range(queue') BY DEF Range
<1> QED BY <1>1, <1>3, <1>4, <1>6, <1>8, <1>9 DEF WalkingInv

(* A turn of the walk: the children of the head are explained. *)
LEMMA ExplainStep == ASSUME Accepted(built), WalkingInv, Explain PROVE WalkingInv'
<1> DEFINE parent == Head(queue)
           new    == NewlyReached(parent)
           P      == DOMAIN paths
           D      == DOMAIN built.res
           L      == Len(paths[parent])
           tail   == Tail(queue)
           joined == SetToSeq(new)
<1>1. /\ queue # <<>>
      /\ paths' = [k \in P \cup new |-> IF k \in new THEN Append(paths[parent], k) ELSE paths[k]]
      /\ queue' = tail \o joined
      /\ start' = start /\ built' = built
  BY DEF Explain
<1>2. /\ start \subseteq P /\ P \subseteq D
      /\ queue \in Seq(P) /\ IsInjective(queue)
      /\ \A k \in P : Explains(paths[k], k) /\ \E r \in start : r \in Closure(built.res, {k})
      /\ \A i, j \in DOMAIN queue :
            i < j => Len(paths[queue[i]]) <= Len(paths[queue[j]])
      /\ \A k \in P : Len(paths[k]) <= L + 1
      /\ \A p \in P \ Range(queue) : \A c \in Children(built.res, p) :
            c \in P /\ Len(paths[c]) <= Len(paths[p]) + 1
  BY <1>1 DEF WalkingInv
<1>3. /\ parent \in P /\ tail \in Seq(P)
      /\ Range(queue) = {parent} \cup Range(tail)
      /\ parent \notin Range(tail) /\ IsInjective(tail)
  BY <1>1, <1>2, HeadTailHolds
<1>4. new \cap P = {} /\ \A c : c \in new <=> c \in D \ P /\ parent \in built.res[c].deps
  BY DEF NewlyReached, Children
<1>5. joined \in Seq(new) /\ Range(joined) = new /\ IsInjective(joined)
  <2>1. new \in SUBSET D BY <1>4
  <2>2. IsFiniteSet(new) BY <2>1, FS_Subset DEF Accepted
  <2> QED BY <2>2, SetToSeqLists
<1> HIDE DEF parent, new, P, D, L, tail, joined
<1>6. queue' \in Seq(P \cup new) /\ IsInjective(queue') /\ Range(queue') = Range(tail) \cup new
  <2>1. tail \in Seq(P \cup new) /\ joined \in Seq(P \cup new) BY <1>3, <1>5, SeqMonotonic
  <2>2. Range(tail) \cap Range(joined) = {} BY <1>3, <1>4, <1>5, RangeOfSeq
  <2>3. IsInjective(tail) /\ IsInjective(joined) BY <1>3, <1>5
  <2>4. /\ tail \o joined \in Seq(P \cup new) /\ IsInjective(tail \o joined)
        /\ Range(tail \o joined) = Range(tail) \cup Range(joined)
    BY ONLY <2>1, <2>2, <2>3, ConcatHolds
  <2> QED BY <1>1, <1>5, <2>4
<1>7. \A k \in P : Len(paths[k]) \in Nat BY <1>2 DEF Explains
<1>8. L \in Nat BY <1>3, <1>7 DEF L
<1>9. ASSUME NEW c \in new
      PROVE  /\ paths'[c] = Append(paths[parent], c) /\ Len(paths'[c]) = L + 1
             /\ paths'[c] \in Seq(D) /\ paths'[c][1] \in start /\ paths'[c][L + 1] = c
             /\ \A i \in 1..L : paths'[c][i] \in built.res[paths'[c][i + 1]].deps
  <2>1. paths'[c] = Append(paths[parent], c) BY <1>1
  <2> DEFINE path == paths[parent]
             a    == paths'[c]
  <2>2. /\ path \in Seq(D) /\ L = Len(path) /\ L \in Nat \ {0}
        /\ path[1] \in start /\ path[L] = parent
        /\ \A i \in 1..(L - 1) : path[i] \in built.res[path[i + 1]].deps
    BY <1>2, <1>3 DEF Explains, L, D
  <2>3. c \in D /\ parent \in built.res[c].deps BY <1>4
  <2> HIDE DEF path, a
  <2>4. a = Append(path, c) BY <2>1 DEF a, path
  <2>5. /\ a \in Seq(D) /\ Len(a) = L + 1 /\ a[L + 1] = c
        /\ \A i \in 1..L : a[i] = path[i]
    BY <2>2, <2>3, <2>4, AppendProperties
  <2>6. a[1] \in start BY <2>2, <2>5
  <2>7. ASSUME NEW i \in 1..L PROVE a[i] \in built.res[a[i + 1]].deps
    <3>1. CASE i = L BY <2>2, <2>3, <2>5, <3>1
    <3>2. CASE i # L
      <4>1. i \in 1..(L - 1) /\ i + 1 \in 1..L BY <2>2, <3>2
      <4> QED BY <2>2, <2>5, <4>1
    <3> QED BY <3>1, <3>2
  <2> QED BY <2>1, <2>5, <2>6, <2>7 DEF a
<1>10. DOMAIN paths' = P \cup new /\ \A k \in P : paths'[k] = paths[k] BY <1>1, <1>4
<1>11. start \subseteq P \cup new /\ P \cup new \subseteq D BY <1>2, <1>4
<1>12. ASSUME NEW k \in P \cup new
       PROVE  /\ Explains(paths[k], k)'
              /\ \E r \in start' : r \in Closure(built.res, {k})'
  <2>1. Closure(built.res, {k})' = Closure(built.res, {k}) BY <1>1 DEF Closure
  <2>2. CASE k \in P
    <3>1. Explains(paths[k], k) /\ paths'[k] = paths[k] BY <1>2, <1>10, <2>2
    <3>2. Explains(paths[k], k)' BY <1>1, <3>1 DEF Explains
    <3> QED BY <1>1, <1>2, <2>1, <2>2, <3>2
  <2>3. CASE k \in new
    <3>1. L + 1 \in Nat \ {0} /\ (L + 1) - 1 = L BY <1>8
    <3>2. Explains(paths[k], k)'
      <4>1. /\ paths'[k] \in Seq(DOMAIN built'.res) /\ Len(paths'[k]) \in Nat \ {0}
            /\ paths'[k][1] \in start' /\ paths'[k][Len(paths'[k])] = k
        BY <1>1, <1>9, <2>3, <3>1 DEF D
      <4>2. \A i \in 1..(Len(paths'[k]) - 1) : paths'[k][i] \in built'.res[paths'[k][i + 1]].deps
        <5>1. Len(paths'[k]) - 1 = L /\ built' = built BY <1>1, <1>9, <2>3, <3>1
        <5>2. \A i \in 1..L : paths'[k][i] \in built.res[paths'[k][i + 1]].deps BY <1>9, <2>3
        <5> QED BY ONLY <5>1, <5>2
      <4> QED BY <4>1, <4>2 DEF Explains
    <3>3. PICK r \in start : r \in Closure(built.res, {parent}) BY <1>2, <1>3
    <3>4. {k} \subseteq DOMAIN built.res /\ parent \in built.res[k].deps BY <1>4, <2>3 DEF D
    <3>5. parent \in Closure(built.res, {k}) BY <3>4, ClosureIsLeast DEF Accepted
    <3>6. r \in Closure(built.res, {k}) BY <3>3, <3>4, <3>5, ClosureWithin DEF Accepted
    <3> QED BY <1>1, <2>1, <3>2, <3>6
  <2> QED BY <2>2, <2>3
<1>13. \A k \in P \cup new : Len(paths'[k]) <= L + 1 BY <1>2, <1>8, <1>9, <1>10
<1>14. /\ Len(tail) \in Nat /\ Len(joined) \in Nat
       /\ DOMAIN queue = 1..(Len(tail) + 1) /\ DOMAIN queue' = 1..(Len(tail) + Len(joined))
       /\ \A i \in 1..Len(tail) : queue'[i] = queue[i + 1] /\ queue'[i] \in P
       /\ \A i \in DOMAIN queue' : ~(i <= Len(tail)) => queue'[i] \in new
       /\ queue[1] = parent
  <2>1. /\ Len(tail) = Len(queue) - 1 /\ Len(queue) \in Nat \ {0} /\ DOMAIN queue = 1..Len(queue)
        /\ \A i \in 1..Len(tail) : tail[i] = queue[i + 1]
        /\ parent = queue[1] /\ Len(tail) \in Nat
    BY <1>1, <1>2, <1>3, HeadTailProperties, EmptySeq, LenProperties DEF tail, parent
  <2>2. tail \in Seq(P \cup new) /\ joined \in Seq(P \cup new) BY <1>3, <1>5, SeqMonotonic
  <2>3. /\ Len(joined) \in Nat /\ DOMAIN joined = 1..Len(joined)
        /\ Len(queue') = Len(tail) + Len(joined)
        /\ \A i \in 1..(Len(tail) + Len(joined)) :
              queue'[i] = IF i <= Len(tail) THEN tail[i] ELSE joined[i - Len(tail)]
    BY <1>1, <2>2, ConcatProperties, LenProperties
  <2>4. DOMAIN queue' = 1..(Len(tail) + Len(joined)) BY <1>6, <2>3, LenProperties
  <2>5. ASSUME NEW i \in 1..Len(tail) PROVE queue'[i] = queue[i + 1] /\ queue'[i] \in P
    <3>1. i <= Len(tail) /\ i \in 1..(Len(tail) + Len(joined)) BY <2>1, <2>3
    <3>2. tail[i] \in P BY <1>3, ElementOfSeq
    <3> QED BY <2>1, <2>3, <3>1, <3>2
  <2>6. ASSUME NEW i \in DOMAIN queue', ~(i <= Len(tail)) PROVE queue'[i] \in new
    <3>1. i \in 1..(Len(tail) + Len(joined)) BY <2>4
    <3>2. i - Len(tail) \in 1..Len(joined) BY <2>1, <2>3, <2>6, <3>1
    <3>3. queue'[i] = joined[i - Len(tail)] BY <2>3, <2>6, <3>1
    <3> QED BY <1>5, <2>3, <3>2, <3>3 DEF Range
  <2>7. Len(queue) = Len(tail) + 1 BY <2>1
  <2> QED BY <2>1, <2>3, <2>4, <2>5, <2>6, <2>7
<1>15. ASSUME NEW i \in DOMAIN queue'
       PROVE  Len(paths'[queue'[i]]) \in Nat /\ L <= Len(paths'[queue'[i]])
  <2>1. CASE i <= Len(tail)
    <3>1. i \in 1..Len(tail) /\ 1 \in DOMAIN queue /\ i + 1 \in DOMAIN queue /\ 1 < i + 1
      BY <1>14, <2>1
    <3>2. Len(paths[queue[1]]) <= Len(paths[queue[i + 1]]) BY <1>2, <3>1
    <3> QED BY <1>7, <1>10, <1>14, <3>1, <3>2 DEF L
  <2>2. CASE ~(i <= Len(tail)) BY <1>8, <1>9, <1>14, <2>2
  <2> QED BY <2>1, <2>2
<1>16. ASSUME NEW i \in DOMAIN queue', NEW j \in DOMAIN queue', i < j
       PROVE  Len(paths'[queue'[i]]) <= Len(paths'[queue'[j]])
  <2>1. CASE j <= Len(tail)
    <3>1. /\ i \in 1..Len(tail) /\ j \in 1..Len(tail)
          /\ i + 1 \in DOMAIN queue /\ j + 1 \in DOMAIN queue /\ i + 1 < j + 1
      BY <1>14, <1>16, <2>1
    <3>2. Len(paths[queue[i + 1]]) <= Len(paths[queue[j + 1]]) BY <1>2, <3>1
    <3> QED BY <1>10, <1>14, <3>1, <3>2
  <2>2. CASE ~(j <= Len(tail))
    <3>1. Len(paths'[queue'[j]]) = L + 1 BY <1>9, <1>14, <2>2
    <3>2. queue'[i] \in P \cup new
      <4>1. queue'[i] \in Range(queue') BY DEF Range
      <4> QED BY <1>6, <4>1, RangeOfSeq
    <3> QED BY <1>13, <3>1, <3>2
  <2> QED BY <2>1, <2>2
<1>17. ASSUME queue' # <<>>, NEW k \in P \cup new
       PROVE  Len(paths'[k]) <= Len(paths'[Head(queue')]) + 1
  <2>1. 1 \in DOMAIN queue' /\ Head(queue') = queue'[1]
    <3>1. Len(queue') \in Nat \ {0} /\ DOMAIN queue' = 1..Len(queue')
      BY <1>6, <1>17, EmptySeq, LenProperties
    <3> QED BY <1>17, <3>1
  <2>2. Len(paths'[k]) \in Nat BY <1>7, <1>8, <1>9, <1>10
  <2> QED BY <1>8, <1>13, <1>15, <2>1, <2>2
<1>18. ASSUME NEW p \in (P \cup new) \ Range(queue'), NEW c \in Children(built.res, p)
       PROVE  c \in P \cup new /\ Len(paths'[c]) <= Len(paths'[p]) + 1
  <2>1. p \in P /\ p \notin Range(tail) BY <1>6
  <2>2. CASE p = parent
    <3>1. c \in P \cup new BY <1>4, <2>2 DEF Children, D
    <3>2. paths'[p] = paths[parent] BY <1>10, <2>1, <2>2
    <3> QED BY <1>13, <3>1, <3>2 DEF L
  <2>3. CASE p # parent
    <3>1. p \in P \ Range(queue) BY <1>3, <2>1, <2>3
    <3>2. c \in P /\ Len(paths[c]) <= Len(paths[p]) + 1 BY <1>2, <3>1
    <3> QED BY <1>10, <2>1, <3>2
  <2> QED BY <2>2, <2>3
<1>19. /\ Range(queue)' = Range(queue')
       /\ \A p : Children(built.res, p)' = Children(built.res, p)
  BY <1>1 DEF Range, Children
<1> QED
  BY <1>1, <1>6, <1>10, <1>11, <1>12, <1>16, <1>17, <1>18, <1>19 DEF WalkingInv, D

-----------------------------------------------------------------------------
(* The invariant: the graphs there are were accepted, and the algorithm     *)
(* that runs keeps its own.                                                *)
GraphInv ==
    /\ Accepted(built) /\ Accepted(before)
    /\ doing = "building" => BuildingInv
    /\ doing = "closing" => ClosingInv
    /\ doing = "walking" => WalkingInv

(* The algorithms' invariants speak of the variables they use only. *)
LEMMA GraphsUntouched ==
    /\ BuildingInv /\ UNCHANGED <<building, queue>> => BuildingInv'
    /\ ClosingInv /\ UNCHANGED <<built, start, queue, selected>> => ClosingInv'
    /\ WalkingInv /\ UNCHANGED <<built, start, queue, paths>> => WalkingInv'
<1>1. BuildingInv /\ UNCHANGED <<building, queue>> => BuildingInv'
  <2> SUFFICES ASSUME BuildingInv, UNCHANGED <<building, queue>> PROVE BuildingInv' OBVIOUS
  <2>1. res' = res /\ order' = order /\ indegree' = indegree /\ digests' = digests
        /\ stale' = stale /\ queue' = queue
    BY DEF building
  <2>2. /\ Range(order)' = Range(order) /\ Range(queue)' = Range(queue)
        /\ IsInjective(order)' = IsInjective(order) /\ IsInjective(queue)' = IsInjective(queue)
        /\ Grounded(res)' = Grounded(res)
    BY <2>1 DEF Range, IsInjective, Grounded
  <2>3. Computed(res, Range(order), digests, stale)' <=> Computed(res, Range(order), digests, stale)
    BY <2>1, <2>2 DEF Computed
  <2> QED BY <2>1, <2>2, <2>3 DEF BuildingInv
<1>2. ClosingInv /\ UNCHANGED <<built, start, queue, selected>> => ClosingInv'
  <2> SUFFICES ASSUME ClosingInv, UNCHANGED <<built, start, queue, selected>> PROVE ClosingInv'
    OBVIOUS
  <2>1. built' = built /\ start' = start /\ queue' = queue /\ selected' = selected OBVIOUS
  <2>2. Range(queue)' = Range(queue) /\ Closure(built.res, start)' = Closure(built.res, start)
    BY <2>1 DEF Range, Closure
  <2> QED BY <2>1, <2>2 DEF ClosingInv
<1>3. WalkingInv /\ UNCHANGED <<built, start, queue, paths>> => WalkingInv'
  <2> SUFFICES ASSUME WalkingInv, UNCHANGED <<built, start, queue, paths>> PROVE WalkingInv'
    OBVIOUS
  <2>1. /\ Range(queue)' = Range(queue) /\ IsInjective(queue)' = IsInjective(queue)
        /\ \A k : Closure(built.res, {k})' = Closure(built.res, {k})
        /\ \A k : Children(built.res, k)' = Children(built.res, k)
    BY DEF Closure, Range, IsInjective, Children
  <2>2. \A k : Explains(paths[k], k)' = Explains(paths[k], k) BY DEF Explains
  <2> QED BY <2>1, <2>2 DEF WalkingInv
<1> QED BY <1>1, <1>2, <1>3

(* Every step of the algorithms keeps the invariant. *)
LEMMA GraphStep == ASSUME GraphInv, GraphsNext PROVE GraphInv'
<1>1. Accepted(built)' = Accepted(built') /\ Accepted(before)' = Accepted(before')
  BY DEF Accepted, Valid, Grounded, Acyclic, Computed
<1>2. ASSUME NEW r, NEW sha, NEW deps, Register(r, sha, deps) PROVE GraphInv'
  <2>1. BuildingInv' BY <1>2, RegisterBegins DEF GraphInv
  <2>2. built' = built /\ before' = before /\ doing' = "building" BY <1>2 DEF Register
  <2> QED BY <1>1, <2>1, <2>2 DEF GraphInv
<1>3. ASSUME TakeNext PROVE GraphInv'
  <2>1. built' = built /\ before' = before /\ doing = "building" /\ doing' = "building"
    BY <1>3 DEF TakeNext
  <2>2. BuildingInv' BY <1>3, <2>1, TakeNextStep DEF GraphInv
  <2> QED BY <1>1, <2>1, <2>2 DEF GraphInv
<1>4. ASSUME EndBuild PROVE GraphInv'
  <2>1. doing = "building" /\ doing' = "idle" BY <1>4 DEF EndBuild
  <2>2. Accepted(built') /\ Accepted(before') BY <1>4, <2>1, EndBuildAccepts DEF GraphInv
  <2> QED BY <1>1, <2>1, <2>2 DEF GraphInv
<1>5. ASSUME NEW roots \in SUBSET DOMAIN built.res, Close(roots) PROVE GraphInv'
  <2>1. ClosingInv' BY <1>5, CloseBegins DEF GraphInv
  <2>2. built' = built /\ before' = before /\ doing' = "closing" BY <1>5 DEF Close
  <2> QED BY <1>1, <2>1, <2>2 DEF GraphInv
<1>6. ASSUME NEW roots \in SUBSET DOMAIN built.res, Walk(roots) PROVE GraphInv'
  <2>1. WalkingInv' BY <1>6, WalkBegins DEF GraphInv
  <2>2. built' = built /\ before' = before /\ doing' = "walking" BY <1>6 DEF Walk
  <2> QED BY <1>1, <2>1, <2>2 DEF GraphInv
<1>7. ASSUME Select PROVE GraphInv'
  <2>1. built' = built /\ before' = before /\ doing = "closing" /\ doing' = "closing"
    BY <1>7 DEF Select
  <2>2. ClosingInv' BY <1>7, <2>1, SelectStep DEF GraphInv
  <2> QED BY <1>1, <2>1, <2>2 DEF GraphInv
<1>8. ASSUME Explain PROVE GraphInv'
  <2>1. built' = built /\ before' = before /\ doing = "walking" /\ doing' = "walking"
    BY <1>8 DEF Explain
  <2>2. WalkingInv' BY <1>8, <2>1, ExplainStep DEF GraphInv
  <2> QED BY <1>1, <2>1, <2>2 DEF GraphInv
<1>9. ASSUME EndRead PROVE GraphInv'
  <2>1. built' = built /\ before' = before /\ doing' = "idle" BY <1>9 DEF EndRead
  <2> QED BY <1>1, <2>1 DEF GraphInv
<1> QED BY <1>2, <1>3, <1>4, <1>5, <1>6, <1>7, <1>8, <1>9 DEF GraphsNext

(* What the invariant says is what the algorithms are for. *)
LEMMA GraphComputed == ASSUME GraphInv PROVE ComputesTheGraph
<1>1. OrderingDecides BY OrderDecides DEF GraphInv, OrderingDecides, BuildingInv
<1>2. DigestIsSubgraph
  <2> SUFFICES ASSUME NEW k \in DOMAIN before.res \cap DOMAIN built.res
               PROVE  built.digests[k] = before.digests[k]
                         <=> Fingerprint(built.res, k) = Fingerprint(before.res, k)
    BY DEF DigestIsSubgraph
  <2> QED BY DigestsAreSubgraphs DEF GraphInv
<1>3. StaleIsTransitive BY StaleComesFromBelow DEF GraphInv, StaleIsTransitive
<1>4. SearchesExact
  <2> SUFFICES ASSUME queue = <<>> PROVE SearchesExact
    BY DEF SearchesExact
  <2>1. doing = "closing" => selected = Closure(built.res, start) BY ClosingEnds DEF GraphInv
  <2>2. doing = "walking" => WalkingInv /\ Accepted(built) BY DEF GraphInv
  <2> QED BY <2>1, <2>2, WalkingEnds DEF SearchesExact
<1> QED BY <1>1, <1>2, <1>3, <1>4 DEF ComputesTheGraph

(* On every graph registrations lead to, and on those they are refused for: *)
(* the ordering takes all resources exactly when there is no cycle, digests *)
(* are equal exactly when everything below is, staleness comes from below,  *)
(* the closure is what lies below its roots, and affected_paths explains    *)
(* what lies downstream, and that only, by shortest chains (graph.py:25-76, *)
(* planning.py:19-34).                                                     *)
THEOREM GraphsComputed == GraphsSpec => []ComputesTheGraph
<1>1. GraphsInit => GraphInv
  <2> SUFFICES ASSUME GraphsInit PROVE GraphInv OBVIOUS
  <2>1. /\ built.res = <<>> /\ built.digests = <<>> /\ built.stale = <<>> /\ before = built
        /\ doing = "idle"
    BY DEF GraphsInit, Empty
  <2>2. DOMAIN built.res = {} /\ DOMAIN built.digests = {} /\ DOMAIN built.stale = {} BY <2>1
  <2>3. Accepted(built)
    BY <2>2, FS_EmptySet DEF Accepted, Valid, Grounded, Acyclic, Computed
  <2> QED BY <2>1, <2>3 DEF GraphInv
<1>2. GraphInv /\ [GraphsNext]_graphsVars => GraphInv'
  <2> SUFFICES ASSUME GraphInv, UNCHANGED graphsVars PROVE GraphInv' BY GraphStep
  <2>1. UNCHANGED <<built, before, doing, building, queue, start, selected, paths>> BY DEF graphsVars
  <2>2. Accepted(built)' = Accepted(built') /\ Accepted(before)' = Accepted(before')
    BY DEF Accepted, Valid, Grounded, Acyclic, Computed
  <2> QED BY <2>1, <2>2, GraphsUntouched DEF GraphInv
<1>3. GraphInv => ComputesTheGraph BY GraphComputed
<1> QED BY <1>1, <1>2, <1>3, PTL DEF GraphsSpec
=============================================================================
