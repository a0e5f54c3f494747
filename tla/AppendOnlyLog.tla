---------------------------- MODULE AppendOnlyLog ----------------------------
(***************************************************************************)
(* What the ledger promises its users: one history that grows by whole     *)
(* operations whose objects are kept, and readers that see a history the   *)
(* ledger really had.                                                      *)
(***************************************************************************)
EXTENDS Sequences

CONSTANTS Process,   \* the processes that open the workspace
          Op,        \* operations that write
          EventsOf,  \* operation -> the events it appends, in order
          Digest,    \* the digests of objects
          RefsOf     \* event -> the digests of the objects it names

VARIABLES history,   \* the events that took effect
          kept,      \* the digests of the objects that were linked
          view       \* the history each process read last

logVars == <<history, kept, view>>

LogInit ==
    /\ history = <<>>
    /\ kept = {}
    /\ view = [p \in Process |-> <<>>]

(* An object is linked; it stays. *)
Keep ==
    /\ \E d \in Digest : kept' = kept \cup {d}
    /\ UNCHANGED <<history, view>>

(* An operation takes effect as a whole, at the end of the history, and its *)
(* objects are there.                                                      *)
Extend ==
    /\ \E o \in Op :
          /\ \A i \in DOMAIN EventsOf[o] : RefsOf[EventsOf[o][i]] \subseteq kept
          /\ history' = history \o EventsOf[o]
    /\ UNCHANGED <<kept, view>>

(* A process reads all there is. *)
Look(p) ==
    /\ view' = [view EXCEPT ![p] = history]
    /\ UNCHANGED <<history, kept>>

LogNext == Keep \/ Extend \/ \E p \in Process : Look(p)

LogSpec == LogInit /\ [][LogNext]_logVars
=============================================================================
