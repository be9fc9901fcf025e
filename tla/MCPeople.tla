------------------------------ MODULE MCPeople -------------------------------
(***************************************************************************)
(* Two tabs of one browser with one account have three tokens: a login and   *)
(* two rotations, or two logins and a rotation.  Three people with two ids   *)
(* make a request, its removal and a new one, or requests of two pairs,      *)
(* around one overview; and beside the invitations two friends, or one who   *)
(* is removed during a batch and comes back.  Tabs and people but the owner  *)
(* are the same opaque values: one symmetry serves both.                     *)
(***************************************************************************)
EXTENDS People, TLC

\* No action tells one tab, person but the owner, or token from another.
PeopleSymmetry == Permutations(Tabs) \cup Permutations(Tokens)
==============================================================================
