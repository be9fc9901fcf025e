---------------------------- MODULE CreationProofs ----------------------------
(***************************************************************************)
(* What a key keeps for every number of requests, bodies and meetings: it    *)
(* makes one meeting, its answers agree, and the transactions implement what *)
(* CreateOnce promises.                                                      *)
(***************************************************************************)
EXTENDS Creation, TLAPS

(* An answer about the key, under way or arrived, is what its row says.      *)
Agrees(c, a) ==
    /\ a \in Ids => row # None /\ a = row.response /\ body[c] = row.body
    /\ a = "conflict" => row # None /\ body[c] # row.body

RepliesAgree == \A c \in Calls : Agrees(c, reply[c])

(* A call is in one place: not made, with the server, on its way back, told. *)
Sequential ==
    \A c \in Calls :
        /\ step[c] # "idle" => body[c] # None /\ reply[c] = None
        /\ reply[c] # None \/ told[c] # None => body[c] # None
        /\ step[c] # "idle" \/ reply[c] # None => told[c] = None

(* Whoever holds the reservation found no row, and nobody has made one since. *)
ReservedIsNew == reserved # None => row = None

IInv ==
    /\ TypeOK /\ OneMeetingPerKey /\ AnswersAgree
    /\ RepliesAgree /\ Sequential /\ ReservedIsNew

LEMMA InitHolds == Init => IInv
  BY CreationAssumption
  DEF Init, IInv, TypeOK, OneMeetingPerKey, AnswersAgree, RepliesAgree, Agrees,
      Sequential, ReservedIsNew, Answers

------------------------------------------------------------------------------
(* The type invariant, one action at a time.                                 *)
LEMMA TypeStep == IInv /\ [Next]_vars => TypeOK'
  <1> SUFFICES ASSUME IInv, [Next]_vars PROVE TypeOK'
    OBVIOUS
  <1> USE CreationAssumption DEF IInv, TypeOK, Answers
  <1>1. CASE UNCHANGED vars
    BY <1>1 DEF vars
  <1>2. ASSUME NEW c \in Calls, NEW b \in Bodies, Send(c, b) PROVE TypeOK'
    BY <1>2 DEF Send
  <1>3. ASSUME NEW c \in Calls, Deliver(c) PROVE TypeOK'
    BY <1>3 DEF Deliver
  <1>4. ASSUME NEW c \in Calls, Lose(c) PROVE TypeOK'
    BY <1>4 DEF Lose
  <1>5. ASSUME NEW c \in Calls, Reserve(c) PROVE TypeOK'
    BY <1>5 DEF Reserve, ReserveIdempotencyKey
  <1>6. ASSUME NEW c \in Calls, Replay(c) PROVE TypeOK'
    <2>1. row.response \in Ids
      BY <1>6 DEF Replay
    <2>2. \E a \in Answers : reply' = [reply EXCEPT ![c] = a]
      BY <1>6, <2>1 DEF Replay, Answer
    <2>3. QED
      BY <1>6, <2>2 DEF Replay, Answer
  <1>7. ASSUME NEW c \in Calls, Complete(c) PROVE TypeOK'
    BY <1>7 DEF Complete
  <1>8. ASSUME NEW c \in Calls, Commit(c) PROVE TypeOK'
    BY <1>8 DEF Commit, CompleteIdempotencyKey, Released, Answer, Sequential
  <1>9. ASSUME NEW c \in Calls, RollBack(c) PROVE TypeOK'
    BY <1>9 DEF RollBack, Released, Answer
  <1>10. QED
    BY <1>1, <1>2, <1>3, <1>4, <1>5, <1>6, <1>7, <1>8, <1>9 DEF Next

(* The rest of the invariant.                                                *)
LEMMA InductiveStep == IInv /\ [Next]_vars => IInv'
  <1> SUFFICES ASSUME IInv, [Next]_vars PROVE IInv'
    OBVIOUS
  <1>0. TypeOK'
    BY TypeStep
  <1> DEFINE Rest == OneMeetingPerKey /\ AnswersAgree /\ RepliesAgree /\ Sequential /\ ReservedIsNew
  <1> USE CreationAssumption
      DEF IInv, TypeOK, OneMeetingPerKey, AnswersAgree, RepliesAgree, Agrees, Sequential,
          ReservedIsNew, Answers
  <1>1. CASE UNCHANGED vars
    BY <1>1 DEF vars
  <1>2. ASSUME NEW c \in Calls, NEW b \in Bodies, Send(c, b) PROVE Rest'
    BY <1>2 DEF Send
  <1>3. ASSUME NEW c \in Calls, Deliver(c) PROVE Rest'
    BY <1>3 DEF Deliver
  <1>4. ASSUME NEW c \in Calls, Lose(c) PROVE Rest'
    BY <1>4 DEF Lose
  <1>5. ASSUME NEW c \in Calls, Reserve(c) PROVE Rest'
    BY <1>5 DEF Reserve, ReserveIdempotencyKey
  <1>6. ASSUME NEW c \in Calls, Replay(c) PROVE Rest'
    BY <1>6 DEF Replay, Answer, SameRequest
  <1>7. ASSUME NEW c \in Calls, Complete(c) PROVE Rest'
    BY <1>7 DEF Complete
  <1>8. ASSUME NEW c \in Calls, Commit(c) PROVE Rest'
    <2>1. row = None /\ meetings = {} /\ reserved = c /\ body[c] \in Bodies
      BY <1>8 DEF Commit
    <2>2. PICK i \in Ids : /\ row' = [body |-> body[c], response |-> i]
                           /\ meetings' = {i}
                           /\ Answer(c, i) \/ Answer(c, "error")
      BY <1>8, <2>1 DEF Commit, CompleteIdempotencyKey
    <2>3. row' # None /\ row'.response = i /\ row'.body = body[c]
      BY <2>1, <2>2
    <2>4. \A d \in Calls : reply[d] \notin Ids \cup {"conflict"} /\ told[d] \notin Ids \cup {"conflict"}
      BY <2>1
    <2>5. QED
      BY <1>8, <2>1, <2>2, <2>3, <2>4 DEF Commit, Answer, Released
  <1>9. ASSUME NEW c \in Calls, RollBack(c) PROVE Rest'
    BY <1>9 DEF RollBack, Released, Answer
  <1>10. Rest'
    BY <1>1, <1>2, <1>3, <1>4, <1>5, <1>6, <1>7, <1>8, <1>9 DEF Next
  <1>11. QED
    BY <1>0, <1>10

LEMMA Inductive == Spec => []IInv
  BY InitHolds, InductiveStep, PTL DEF Spec

------------------------------------------------------------------------------
(* Values stay of their types, and the transaction that holds the key is     *)
(* past the reservation, for every number of requests (Create).              *)
THEOREM CallsAreTyped == Spec => []TypeOK
  <1>1. IInv => TypeOK
    BY DEF IInv
  <1>2. QED
    BY <1>1, Inductive, PTL

(* However requests race, fail and are sent again, one key makes at most one *)
(* meeting, which its row names (ReserveIdempotencyKey).                     *)
THEOREM KeysMakeOneMeeting == Spec => []OneMeetingPerKey
  <1>1. IInv => OneMeetingPerKey
    BY DEF IInv
  <1>2. QED
    BY <1>1, Inductive, PTL

(* All who are told of a meeting are told of the same one and asked for the  *)
(* same; a conflict is told only to who asked for something else.            *)
THEOREM AnswersAlwaysAgree == Spec => []AnswersAgree
  <1>1. IInv => AnswersAgree
    BY DEF IInv
  <1>2. QED
    BY <1>1, Inductive, PTL

(* The transactions implement what the key promises: only the commit makes   *)
(* something, and an answer that arrives tells what was made.                *)
THEOREM CreatesOnce == Spec => ImplementsCreateOnce
  <1> DEFINE made == IF row = None THEN None ELSE [id |-> row.response, body |-> row.body]
  <1>1. Init => Promise!Init
    BY DEF Init, Promise!Init
  <1>2. ASSUME IInv, Next
        PROVE  Promise!Next \/ UNCHANGED <<body, made, told>>
    <2> USE CreationAssumption DEF IInv, TypeOK
    <2>1. ASSUME NEW c \in Calls, NEW b \in Bodies, Send(c, b)
          PROVE  Promise!Call(c) \/ UNCHANGED <<body, made, told>>
      <3>1. CASE body[c] = None
        BY <2>1, <3>1 DEF Send, Promise!Call
      <3>2. CASE body[c] = b
        BY <1>2, <2>1, <3>2 DEF Send
      <3>3. QED
        BY <2>1, <3>1, <3>2 DEF Send
    <2>2. ASSUME NEW c \in Calls, Deliver(c)
          PROVE  Promise!Tell(c) \/ UNCHANGED <<body, made, told>>
      <3>1. CASE reply[c] = "error"
        BY <2>2, <3>1 DEF Deliver
      <3>2. CASE reply[c] # "error"
        <4>1. told' = [told EXCEPT ![c] = reply[c]] /\ UNCHANGED <<body, row>>
          BY <2>2, <3>2 DEF Deliver
        <4>2. row # None /\ body[c] # None /\ told[c] = None
          BY <1>2, <2>2, <3>2 DEF Deliver, RepliesAgree, Agrees, Sequential, Answers
        <4>3. made # None /\ made.id = row.response /\ made.body = row.body
          BY <1>2, <4>2
        <4>4. reply[c] = IF made.body = body[c] THEN made.id ELSE "conflict"
          BY <1>2, <2>2, <3>2, <4>2, <4>3 DEF Deliver, RepliesAgree, Agrees, Answers
        <4>5. QED
          BY <4>1, <4>2, <4>3, <4>4 DEF Promise!Tell
      <3>3. QED
        BY <3>1, <3>2
    <2>3. ASSUME NEW c \in Calls, Commit(c) PROVE Promise!Make
      <3>1. row = None /\ body[c] \in Bodies /\ UNCHANGED <<body, told>>
        BY <1>2, <2>3 DEF Commit, ReservedIsNew, Sequential
      <3>2. PICK i \in Ids : row' = [body |-> body[c], response |-> i]
        BY <2>3 DEF Commit, CompleteIdempotencyKey
      <3>3. made' = [id |-> i, body |-> body[c]] /\ made = None
        BY <3>1, <3>2
      <3>4. QED
        BY <3>1, <3>3 DEF Promise!Make
    <2>4. ASSUME NEW c \in Calls,
                 Lose(c) \/ Reserve(c) \/ Replay(c) \/ Complete(c) \/ RollBack(c)
          PROVE  UNCHANGED <<body, made, told>>
      BY <2>4 DEF Lose, Reserve, Replay, Complete, RollBack
    <2>5. QED
      BY <1>2, <2>1, <2>2, <2>3, <2>4 DEF Next, Promise!Next
  <1>3. IInv /\ [Next]_vars => [Promise!Next]_(Promise!vars)
    BY <1>2 DEF vars, Promise!vars
  <1>4. QED
    BY <1>1, <1>3, Inductive, PTL DEF Spec, ImplementsCreateOnce, Promise!Spec
=============================================================================
