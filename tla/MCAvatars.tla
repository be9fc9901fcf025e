------------------------------ MODULE MCAvatars ------------------------------
(***************************************************************************)
(* Two tabs, two photos, three revisions and two removals.                   *)
(***************************************************************************)
EXTENDS Avatars, TLC

Symmetry == Permutations(Tabs) \cup Permutations(Hashes)
=============================================================================
