------------------------------- MODULE CreateOnce -------------------------------
(***************************************************************************)
(* What an idempotency key promises: of all the requests that carry it, one  *)
(* creates a meeting, and each is told either of that meeting or that the    *)
(* key stands for another request.                                           *)
(***************************************************************************)
CONSTANTS Calls, Bodies, Ids, None

VARIABLES
    body,  \* by call, what it asks for, None before it is made
    made,  \* the meeting and the body it was made from, None before
    told   \* by call, the answer that reached its client, None before

vars == <<body, made, told>>

Init ==
    /\ body = [c \in Calls |-> None]
    /\ made = None
    /\ told = [c \in Calls |-> None]

Call(c) ==
    /\ body[c] = None
    /\ \E b \in Bodies : body' = [body EXCEPT ![c] = b]
    /\ UNCHANGED <<made, told>>

Make ==
    /\ made = None
    /\ \E c \in Calls, i \in Ids :
        /\ body[c] # None
        /\ made' = [id |-> i, body |-> body[c]]
    /\ UNCHANGED <<body, told>>

Tell(c) ==
    /\ body[c] # None /\ made # None /\ told[c] = None
    /\ told' = [told EXCEPT ![c] = IF made.body = body[c] THEN made.id ELSE "conflict"]
    /\ UNCHANGED <<body, made>>

Next == Make \/ \E c \in Calls : Call(c) \/ Tell(c)

Spec == Init /\ [][Next]_vars
=============================================================================
