------------------------------ MODULE MCCopies -------------------------------
(***************************************************************************)
(* Two tabs of the owner edit with two texts; the meeting has one option,    *)
(* two photos and six versions, so each photo can come, go and come back;    *)
(* the profile is open in two tabs, with three revisions and two removals.   *)
(***************************************************************************)
EXTENDS Copies, TLC

\* No action tells one tab, text or photo from another.
CopiesSymmetry ==
    Permutations(Tabs) \cup Permutations(Texts) \cup Permutations(Hashes)
==============================================================================
