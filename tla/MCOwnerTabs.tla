----------------------------- MODULE MCOwnerTabs -----------------------------
(* Two tabs of the owner of one draft, two texts.                            *)
EXTENDS OwnerTabs, TLC

TabSymmetry == Permutations(Tabs) \cup Permutations(Texts)
==============================================================================
