------------------------- MODULE MCSealPublication --------------------------
(***************************************************************************)
(* Three invocations: two of the same release, to different files, and the *)
(* delivery taken from it, to the file the second one writes.              *)
(***************************************************************************)
EXTENDS SealPublication, TLC

MCKeyOf   == ("s1" :> "RC1") @@ ("s2" :> "RC1") @@ ("d1" :> "D1")
MCPathOf  == ("s1" :> "x") @@ ("s2" :> "y") @@ ("d1" :> "y")
MCNeedsOf == ("s1" :> {}) @@ ("s2" :> {}) @@ ("d1" :> {"RC1"})

(* Two invocations that seal different releases to one output file. *)
RcKeyOf   == ("s1" :> "RC1") @@ ("s2" :> "RC2")
RcPathOf  == [s \in {"s1", "s2"} |-> "x"]
RcNeedsOf == [s \in {"s1", "s2"} |-> {}]
=============================================================================
