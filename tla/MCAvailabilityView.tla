------------------------- MODULE MCAvailabilityView --------------------------
(* One time open to every plan, one that starts as early for the first plan  *)
(* alone.                                                                    *)
EXTENDS AvailabilityView, TLC

OneScoped == <<None, "p1">>
SameStart == <<1, 1>>

\* No action tells one guest from another.
GuestSymmetry == Permutations(Users \ {Owner})
==============================================================================
