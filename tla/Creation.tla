-------------------------------- MODULE Creation --------------------------------
(***************************************************************************)
(* Requests of one person that create a meeting with one idempotency key:    *)
(* they race for the reservation of the key, fail at any statement, and      *)
(* their answers are lost, after which the same request may be sent again.   *)
(*                                                                          *)
(* A transaction that reserves a key which another has reserved and not      *)
(* committed waits for that other to end.  Rows of idempotency_keys are      *)
(* never deleted, though each has an expires_at.                             *)
(***************************************************************************)
EXTENDS FiniteSets

CONSTANTS
    Calls,
    Bodies,  \* request hashes
    Ids,     \* uuids of meetings
    None

ASSUME CreationAssumption ==
    /\ {"conflict", "error"} \cap Ids = {}
    /\ None \notin Calls \cup Bodies \cup Ids \cup {"conflict", "error"}
    /\ None \notin [body : Bodies, response : Ids] \cup [id : Ids, body : Bodies]

VARIABLES
    body,      \* by call, its body, None before it is made
    step,      \* by call: idle, asked, reserved, completed
    reserved,  \* the transaction that holds the uncommitted row, None without
    row,       \* the committed row, None without
    meetings,  \* the committed meetings
    reply,     \* by call, the answer under way, None without
    told       \* by call, the answer that arrived, None before

vars == <<body, step, reserved, row, meetings, reply, told>>

Answers == Ids \cup {"conflict", "error"}

Init ==
    /\ body = [c \in Calls |-> None]
    /\ step = [c \in Calls |-> "idle"]
    /\ reserved = None /\ row = None
    /\ meetings = {}
    /\ reply = [c \in Calls |-> None]
    /\ told = [c \in Calls |-> None]

(* Plausible mistakes in the operators below; no action uses them.           *)
AsIfUnreserved(c) == row = None
AnyBody(c) == TRUE
ForgottenBody(c, i) == [body |-> body[c], response |-> None]
KeepsReservation(c) == reserved
------------------------------------------------------------------------------
(* The client; a request is sent again only with the same body, after an     *)
(* error or when no answer came.                                             *)
Send(c, b) ==
    /\ step[c] = "idle" /\ reply[c] = None /\ told[c] = None
    /\ body[c] \in {None, b}
    /\ body' = [body EXCEPT ![c] = b]
    /\ step' = [step EXCEPT ![c] = "asked"]
    /\ UNCHANGED <<reserved, row, meetings, reply, told>>

Deliver(c) ==
    /\ reply[c] # None
    /\ told' = IF reply[c] = "error" THEN told ELSE [told EXCEPT ![c] = reply[c]]
    /\ reply' = [reply EXCEPT ![c] = None]
    /\ UNCHANGED <<body, step, reserved, row, meetings>>

Lose(c) ==
    /\ reply[c] # None
    /\ reply' = [reply EXCEPT ![c] = None]
    /\ UNCHANGED <<body, step, reserved, row, meetings, told>>

------------------------------------------------------------------------------
(* The transaction.                                                          *)

Answer(c, a) ==
    /\ step' = [step EXCEPT ![c] = "idle"]
    /\ reply' = [reply EXCEPT ![c] = a]

(* ON CONFLICT DO NOTHING waits for a row that may yet be rolled back.       *)
ReserveIdempotencyKey(c) == row = None /\ reserved = None

Reserve(c) ==
    /\ step[c] = "asked"
    /\ ReserveIdempotencyKey(c)
    /\ reserved' = c
    /\ step' = [step EXCEPT ![c] = "reserved"]
    /\ UNCHANGED <<body, row, meetings, reply, told>>

SameRequest(c) == row.body = body[c]

(* No row was inserted: the committed one answers.  A response that is not   *)
(* complete is an error.                                                     *)
Replay(c) ==
    /\ step[c] = "asked"
    /\ row # None
    /\ Answer(c, IF ~SameRequest(c) THEN "conflict"
                 ELSE IF row.response = None THEN "error"
                 ELSE row.response)
    /\ UNCHANGED <<body, reserved, row, meetings, told>>

(* The meeting, its owner as participant and, for a fixed plan, its options; *)
(* then the response is stored with the key.                                 *)
Complete(c) ==
    /\ step[c] = "reserved"
    /\ step' = [step EXCEPT ![c] = "completed"]
    /\ UNCHANGED <<body, reserved, row, meetings, reply, told>>

CompleteIdempotencyKey(c, i) == [body |-> body[c], response |-> i]

Released(c) == None

(* A commit whose outcome the server does not learn is answered as an error. *)
Commit(c) ==
    /\ step[c] = "completed"
    /\ \E i \in Ids \ meetings :
        /\ row' = CompleteIdempotencyKey(c, i)
        /\ meetings' = meetings \cup {i}
        /\ Answer(c, i) \/ Answer(c, "error")
    /\ reserved' = Released(c)
    /\ UNCHANGED <<body, told>>

(* A statement fails, the client goes away or the process dies: the          *)
(* transaction is rolled back.                                               *)
RollBack(c) ==
    /\ step[c] \in {"asked", "reserved", "completed"}
    /\ Answer(c, "error")
    /\ reserved' = IF reserved = c THEN Released(c) ELSE reserved
    /\ UNCHANGED <<body, row, meetings, told>>

Next ==
    \E c \in Calls :
        \/ \E b \in Bodies : Send(c, b)
        \/ Deliver(c) \/ Lose(c)
        \/ Reserve(c) \/ Replay(c) \/ Complete(c) \/ Commit(c) \/ RollBack(c)

(* Statements are executed, and PostgreSQL grants a waiting insertion in its *)
(* turn.  Nothing is assumed of clients, answers and failures.               *)
Fairness ==
    \A c \in Calls :
        SF_vars(Reserve(c)) /\ WF_vars(Replay(c)) /\ WF_vars(Complete(c)) /\ WF_vars(Commit(c))

Spec == Init /\ [][Next]_vars /\ Fairness

------------------------------------------------------------------------------
(* Values are of their types, and the transaction that holds the key is past *)
(* the reservation.                                                          *)
TypeOK ==
    /\ body \in [Calls -> Bodies \cup {None}]
    /\ step \in [Calls -> {"idle", "asked", "reserved", "completed"}]
    /\ reserved \in Calls \cup {None}
    /\ \A c \in Calls : step[c] \in {"reserved", "completed"} <=> reserved = c
    /\ row \in [body : Bodies, response : Ids] \cup {None}
    /\ meetings \subseteq Ids
    /\ reply \in [Calls -> Answers \cup {None}]
    /\ told \in [Calls -> Ids \cup {"conflict", None}]

(* However requests race, fail and are sent again, one key makes at most one *)
(* meeting, which its row names (ReserveIdempotencyKey, Create).             *)
OneMeetingPerKey == meetings = IF row = None THEN {} ELSE {row.response}

(* Requests that were told of a meeting were told of the same one, and asked *)
(* for the same: a client that is told "conflict" asked for something else   *)
(* (request_hash).                                                           *)
AnswersAgree ==
    \A c \in Calls :
        /\ told[c] \in Ids => row # None /\ told[c] = row.response /\ body[c] = row.body
        /\ told[c] = "conflict" => row # None /\ body[c] # row.body

(* The transactions implement what the key promises.                         *)
Promise == INSTANCE CreateOnce WITH made <- IF row = None THEN None
                                             ELSE [id |-> row.response, body |-> row.body]
ImplementsCreateOnce == Promise!Spec

(* Nobody waits for ever behind another's reservation: every request is      *)
(* answered, if only with an error.                                          *)
EveryRequestIsAnswered ==
    \A c \in Calls : step[c] = "asked" ~> step[c] = "idle"
=============================================================================
