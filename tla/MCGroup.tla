------------------------------- MODULE MCGroup -------------------------------
(***************************************************************************)
(* There are two polls of two options, for the owner and a voter; one time   *)
(* open to every plan and an earlier one for the first plan alone, listed    *)
(* second, for the owner and two guests; two requirements of at most two     *)
(* pieces, for the same; and two people with two texts of a note.            *)
(***************************************************************************)
EXTENDS Group, TLC

OneScoped == <<None, "p1">>
LaterFirst == <<2, 1>>

\* No action tells one poll, option or guest from another.
GroupSymmetry ==
    Permutations(PollIds) \cup Permutations(Options) \cup Permutations(Group \ {Owner})
==============================================================================
