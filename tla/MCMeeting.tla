------------------------------ MODULE MCMeeting ------------------------------
(* Meeting with one guest, two options of each kind, two texts, slots, links.*)
EXTENDS Meeting, TLC

\* Links, texts and slots are told apart by nothing but equality.
MeetingSymmetry ==
    Permutations(Links) \cup Permutations(Texts) \cup Permutations(Slots)
==============================================================================
