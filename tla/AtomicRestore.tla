--------------------------- MODULE AtomicRestore ---------------------------
(***************************************************************************)
(* What a restore promises: the files of the target change by the whole    *)
(* snapshot at once, or not at all.                                        *)
(***************************************************************************)
EXTENDS Naturals

CONSTANTS N, Content, Absent

VARIABLE tree

Init == tree \in [1..N -> Content \cup {Absent}]

\* All N files of a snapshot are published in one step.
RestoreAll(f) == tree' = f

Next == \E f \in [1..N -> Content] : RestoreAll(f)

Spec == Init /\ [][Next]_tree
=============================================================================
