------------------------------- MODULE MCLive --------------------------------
(* Streams on two meetings, of which the Manager has room for one.           *)
EXTENDS Live, TLC

\* No action tells one connection, or one meeting, from another.
LiveSymmetry == Permutations(Conns) \cup Permutations(Meetings)
==============================================================================
