---------------------------- MODULE PeopleProofs -----------------------------
(***************************************************************************)
(* What People keeps for every number of tabs, accounts, tokens, requests    *)
(* and batches: rotations form lines, each with one working token, only a    *)
(* lost answer leaves a browser with one that is used up, and whoever is a   *)
(* friend or invited as one has agreed to be.                                *)
(***************************************************************************)
EXTENDS People, TLAPS

(* Refresh sessions.                                                         *)

SessionsTyped == sessions \in [Tokens -> Row \cup {None}]

(* The token a line began with was issued.                                   *)
LoginsIssued == \A x \in Issued : sessions[x].login \in Issued

Rows == SessionsTyped /\ LoginsIssued /\ LinesAreChains /\ OneActivePerLogin

(* The ways in which the table changes.                                      *)
Creates == \E u \in Users, x \in Fresh : sessions' = CreateRefreshSession(sessions, x, u, x)
Rotates(x) == Rotatable(x) /\ \E next \in Fresh : sessions' = RotateSession(x, next)
Revokes(x) == sessions' = RevokeRefreshSession(x)
Expires == \E x \in Issued :
    /\ sessions[x].status = "active"
    /\ sessions' = [sessions EXCEPT ![x].status = "expired"]

(* Nothing issued goes, and only x becomes used up.                          *)
Spares(x) ==
    /\ Issued \subseteq Issued'
    /\ \A y \in Issued : y # x /\ sessions[y].status # "revoked" => sessions'[y].status # "revoked"

USE SessionsAssumption

------------------------------------------------------------------------------
(* Lemmas about the table alone.                                             *)

LEMMA RowsAreRows ==
  ASSUME SessionsTyped
  PROVE  /\ \A x \in Issued : x \in Tokens /\ x # None /\ sessions[x] \in Row
         /\ \A x \in Fresh : x \in Tokens /\ x # None /\ sessions[x] = None
  BY DEF SessionsTyped, Issued, Fresh

LEMMA CreateKeeps ==
  ASSUME Rows, Creates
  PROVE  Rows' /\ Spares(None)
  <1>1. PICK u \in Users, x \in Fresh : sessions' = [sessions EXCEPT ![x] = Session(u, x)]
    BY DEF Creates, CreateRefreshSession
  <1>2. Session(u, x) \in Row /\ x \in Tokens /\ sessions[x] = None
    BY <1>1, RowsAreRows DEF Session, Row, Rows
  <1>3. SessionsTyped'
    BY <1>1, <1>2 DEF Rows, SessionsTyped
  <1>4. Issued' = Issued \cup {x}
    BY <1>1, <1>2 DEF Rows, SessionsTyped, Issued
  <1>5. /\ \A y \in Issued : y # x /\ sessions'[y] = sessions[y]
        /\ sessions'[x] = Session(u, x)
    BY <1>1, <1>2 DEF Rows, SessionsTyped, Issued
  <1>6. x # None
    BY <1>2
  <1>7. LoginsIssued'
    BY <1>4, <1>5 DEF Rows, LoginsIssued, Session
  <1>8. LinesAreChains'
    BY <1>4, <1>5, <1>6 DEF Rows, LinesAreChains, Session
  <1>9. OneActivePerLogin'
    BY <1>4, <1>5 DEF Rows, OneActivePerLogin, LoginsIssued, Session
  <1>10. Spares(None)
    BY <1>4, <1>5 DEF Spares
  <1>11. QED
    BY <1>3, <1>7, <1>8, <1>9, <1>10 DEF Rows

LEMMA RotateKeeps ==
  ASSUME Rows, NEW x, Rotates(x)
  PROVE  Rows' /\ Spares(x)
  <1>1. PICK next \in Fresh : sessions' = RotateSession(x, next)
    BY DEF Rotates
  <1>2. /\ x \in Issued /\ x \in Tokens /\ sessions[x] \in Row /\ sessions[x].status = "active"
        /\ next \in Tokens /\ sessions[next] = None /\ next # None /\ next # x
    BY <1>1, RowsAreRows DEF Rotates, Rotatable, GetRefreshSessionForUpdate, Expired, Row, Rows
  <1> DEFINE new == [user |-> sessions[x].user, login |-> sessions[x].login, status |-> "active",
                     replacedBy |-> None]
             spent == [sessions[x] EXCEPT !.status = "revoked", !.replacedBy = next]
  <1>3. new \in Row /\ spent \in Row
    BY <1>2 DEF Row
  <1>4. /\ sessions' \in [Tokens -> Row \cup {None}]
        /\ sessions'[next] = new /\ sessions'[x] = spent
        /\ \A y \in Tokens \ {x, next} : sessions'[y] = sessions[y]
    <2>1. sessions' = [[sessions EXCEPT ![next] = new] EXCEPT ![x].status = "revoked",
                                                               ![x].replacedBy = next]
      BY <1>1 DEF RotateSession, RotateRefreshSession, CreateRefreshSession, Session
    <2>2. [sessions EXCEPT ![next] = new][x] = sessions[x]
      BY <1>2 DEF Rows, SessionsTyped
    <2> HIDE DEF new
    <2>3. sessions' = [[sessions EXCEPT ![next] = new] EXCEPT ![x] = spent]
      BY <2>1, <2>2, <1>2 DEF Rows, SessionsTyped, Row
    <2> HIDE DEF spent
    <2>4. QED
      BY <2>3, <1>2, <1>3 DEF Rows, SessionsTyped
  <1>5. Issued' = Issued \cup {next} /\ next \notin Issued
    BY <1>2, <1>3, <1>4 DEF Issued
  <1>6. SessionsTyped'
    BY <1>4 DEF SessionsTyped
  <1>7. /\ spent.status = "revoked" /\ spent.replacedBy = next
        /\ spent.login = sessions[x].login /\ spent.user = sessions[x].user
    BY <1>2 DEF Row
  <1>8. LoginsIssued'
    <2>1. ASSUME NEW y \in Issued' PROVE sessions'[y].login \in Issued
      <3>1. CASE y \in {x, next}
        <4>1. sessions[x].login \in Issued
          BY <1>2 DEF Rows, LoginsIssued
        <4>2. new.login = sessions[x].login
          OBVIOUS
        <4>3. sessions'[y].login = sessions[x].login
          BY <3>1, <4>2, <1>4, <1>7
        <4>4. QED
          BY <4>1, <4>3
      <3>2. CASE y \notin {x, next}
        BY <3>2, <1>4, <1>5, RowsAreRows DEF Rows, LoginsIssued
      <3>3. QED
        BY <3>1, <3>2
    <2>2. QED
      BY <2>1, <1>5 DEF LoginsIssued
  <1>9. sessions[x].replacedBy = None
    BY <1>2 DEF Rows, LinesAreChains
  <1>10. LinesAreChains'
    <2> SUFFICES ASSUME NEW y \in Issued', sessions'[y].replacedBy # None
                 PROVE  LET n == sessions'[y].replacedBy IN
                        /\ sessions'[y].status = "revoked"
                        /\ n \in Issued' /\ n # y
                        /\ sessions'[n].login = sessions'[y].login
                        /\ sessions'[n].user = sessions'[y].user
                        /\ \A z \in Issued' : sessions'[z].replacedBy = n => z = y
      BY DEF LinesAreChains
    <2> DEFINE n == sessions'[y].replacedBy
    <2>0. \A z \in Issued : sessions[z].replacedBy # next
      BY <1>2, <1>5 DEF Rows, LinesAreChains
    <2>1. CASE y = x
      <3>1. n = next
        BY <2>1, <1>4, <1>7
      <3>2. \A z \in Issued' : sessions'[z].replacedBy = next => z = x
        BY <2>0, <1>2, <1>4, <1>5, RowsAreRows DEF Rows
      <3>3. QED
        BY <2>1, <3>1, <3>2, <1>2, <1>4, <1>5, <1>7
    <2>2. CASE y = next
      BY <2>2, <1>4
    <2>3. CASE y \in Issued /\ y # x
      <3>1. sessions'[y] = sessions[y] /\ n = sessions[y].replacedBy
        BY <2>3, <1>4, <1>5, RowsAreRows DEF Rows
      <3>2. /\ sessions[y].status = "revoked" /\ n \in Issued /\ n # y
            /\ sessions[n].login = sessions[y].login /\ sessions[n].user = sessions[y].user
            /\ \A z \in Issued : sessions[z].replacedBy = n => z = y
        BY <2>3, <3>1 DEF Rows, LinesAreChains
      <3>3. sessions'[n].login = sessions[n].login /\ sessions'[n].user = sessions[n].user
        BY <3>2, <1>4, <1>5, <1>7, RowsAreRows DEF Rows
      <3>4. \A z \in Issued' : sessions'[z].replacedBy = n => z = y
        <4> SUFFICES ASSUME NEW z \in Issued', sessions'[z].replacedBy = n PROVE z = y
          OBVIOUS
        <4>1. z # x
          BY <3>2, <1>4, <1>5, <1>7
        <4>2. z # next
          BY <3>2, <1>4, RowsAreRows DEF Rows
        <4>3. z \in Issued /\ sessions'[z] = sessions[z]
          BY <4>1, <4>2, <1>4, <1>5, RowsAreRows DEF Rows
        <4>4. QED
          BY <4>3, <3>2
      <3>5. QED
        BY <3>1, <3>2, <3>3, <3>4, <1>5
    <2>4. QED
      BY <2>1, <2>2, <2>3, <1>5
  <1>11. OneActivePerLogin'
    <2> SUFFICES ASSUME NEW y \in Issued', NEW z \in Issued',
                        sessions'[y].login = sessions'[z].login,
                        sessions'[y].status # "revoked", sessions'[z].status # "revoked"
                 PROVE  y = z
      BY DEF OneActivePerLogin
    <2>1. y # x /\ z # x
      BY <1>4, <1>7
    <2>2. \A w \in Issued \ {x} : /\ sessions'[w] = sessions[w]
                                  /\ sessions[w].status # "revoked" => sessions[w].login # new.login
      BY <1>2, <1>4, <1>5, RowsAreRows DEF Rows, OneActivePerLogin
    <2>3. QED
      BY <2>1, <2>2, <1>2, <1>4, <1>5 DEF Rows, OneActivePerLogin
  <1>12. Spares(x)
    BY <1>2, <1>4, <1>5, RowsAreRows DEF Spares, Rows
  <1>13. QED
    BY <1>6, <1>8, <1>10, <1>11, <1>12 DEF Rows

(* A row that only changes its status, in which it was not replaced.         *)
LEMMA StatusKeeps ==
  ASSUME Rows, NEW x \in Issued, NEW status \in {"expired", "revoked"},
         sessions[x].replacedBy = None \/ status = "revoked",
         sessions[x].status # "revoked" \/ status = "revoked",
         sessions' = [sessions EXCEPT ![x].status = status]
  PROVE  Rows' /\ Spares(IF status = "revoked" THEN x ELSE None)
  <1>1. x \in Tokens /\ sessions[x] \in Row
    BY RowsAreRows DEF Rows
  <1>2. /\ sessions' \in [Tokens -> Row \cup {None}]
        /\ sessions'[x] = [sessions[x] EXCEPT !.status = status] /\ sessions'[x] \in Row
        /\ \A y \in Tokens \ {x} : sessions'[y] = sessions[y]
    BY <1>1 DEF Rows, SessionsTyped, Row
  <1>3. Issued' = Issued
    BY <1>1, <1>2 DEF Issued
  <1>4. \A y \in Issued : /\ sessions'[y].login = sessions[y].login
                          /\ sessions'[y].user = sessions[y].user
                          /\ sessions'[y].replacedBy = sessions[y].replacedBy
                          /\ sessions'[y].status = IF y = x THEN status ELSE sessions[y].status
    BY <1>1, <1>2, RowsAreRows DEF Rows, Row
  <1>5. LoginsIssued' /\ LinesAreChains' /\ OneActivePerLogin'
    <2>1. LoginsIssued'
      BY <1>3, <1>4 DEF Rows, LoginsIssued
    <2>2. LinesAreChains'
      BY <1>3, <1>4 DEF Rows, LinesAreChains
    <2>3. OneActivePerLogin'
      BY <1>3, <1>4 DEF Rows, OneActivePerLogin
    <2>4. QED
      BY <2>1, <2>2, <2>3
  <1>6. QED
    BY <1>2, <1>3, <1>4, <1>5 DEF Rows, SessionsTyped, Spares

LEMMA RevokeKeeps ==
  ASSUME Rows, NEW x, Revokes(x)
  PROVE  Rows' /\ Spares(x)
  <1>1. CASE x \in Issued
    BY <1>1, StatusKeeps DEF Revokes, RevokeRefreshSession
  <1>2. CASE x \notin Issued
    <2>1. sessions' = sessions
      BY <1>2 DEF Revokes, RevokeRefreshSession
    <2>2. QED
      BY <2>1 DEF Rows, SessionsTyped, LoginsIssued, LinesAreChains, OneActivePerLogin,
                  Spares, Issued
  <1>3. QED
    BY <1>1, <1>2

LEMMA ExpireKeeps ==
  ASSUME Rows, Expires
  PROVE  Rows' /\ Spares(None)
  <1>1. PICK x \in Issued : /\ sessions[x].status = "active"
                            /\ sessions' = [sessions EXCEPT ![x].status = "expired"]
    BY DEF Expires
  <1>2. sessions[x].replacedBy = None
    BY <1>1 DEF Rows, LinesAreChains
  <1>3. QED
    BY <1>1, <1>2, StatusKeeps

LEMMA SameKeeps ==
  ASSUME Rows, UNCHANGED sessions
  PROVE  Rows' /\ Spares(None)
  BY DEF Rows, SessionsTyped, LoginsIssued, LinesAreChains, OneActivePerLogin, Spares, Issued

(* Every step changes the table in one of these ways, if at all.             *)
LEMMA TableStep ==
  ASSUME [Next]_vars
  PROVE  \/ UNCHANGED sessions \/ Creates \/ Expires
         \/ \E x : Rotates(x) \/ Revokes(x)
  <1>1. CASE UNCHANGED vars
    BY <1>1 DEF vars
  <1>2. ASSUME NEW t \in Tabs, AskRefresh(t) \/ AskLogout(t) \/ Reload(t)
        PROVE  UNCHANGED sessions
    BY <1>2 DEF AskRefresh, AskLogout, Asks, Reload
  <1>3. ASSUME NEW t \in Tabs, NEW u \in Users, NEW x \in Tokens, Register(t, u, x) \/ Login(t, u, x)
        PROVE  Creates
    BY <1>3 DEF Register, Login, Enters, Creates
  <1>4. ASSUME NEW t \in Tabs, NEW x \in Tokens, Refresh(t, x)
        PROVE  \E y : Rotates(y)
    BY <1>4 DEF Refresh, Rotates
  <1>5. ASSUME NEW t \in Tabs, RefuseRefresh(t)
        PROVE  UNCHANGED sessions \/ \E y : Rotates(y)
    BY <1>5 DEF RefuseRefresh, Rotates
  <1>6. ASSUME NEW t \in Tabs, Logout(t)
        PROVE  UNCHANGED sessions \/ \E y : Revokes(y)
    BY <1>6 DEF Logout, Revokes
  <1>7. ASSUME NEW t \in Tabs, NEW k \in Kinds, Deliver(t, k) \/ Lose(t, k)
        PROVE  UNCHANGED sessions
    BY <1>7 DEF Deliver, Lose
  <1>8. ASSUME NEW m \in late, HandleLate(m)
        PROVE  UNCHANGED sessions \/ \E y : Rotates(y) \/ Revokes(y)
    BY <1>8 DEF HandleLate, Rotates, Revokes
  <1>9. ASSUME NEW x \in Tokens, Expire(x)
        PROVE  Expires
    BY <1>9 DEF Expire, Expires
  <1>10. QED
    BY <1>1, <1>2, <1>3, <1>4, <1>5, <1>6, <1>7, <1>8, <1>9 DEF Next

LEMMA RowsInductive == Spec => []Rows
  <1>1. Init => Rows
    BY DEF Init, Rows, SessionsTyped, LoginsIssued, LinesAreChains, OneActivePerLogin, Issued
  <1>2. Rows /\ [Next]_vars => Rows'
    BY TableStep, CreateKeeps, RotateKeeps, RevokeKeeps, ExpireKeeps, SameKeeps
  <1>3. QED
    BY <1>1, <1>2, PTL DEF Spec

(* However refreshes race and repeat, the rotations that follow a login form *)
(* one line (RotateSession).                                                 *)
THEOREM RotationsFormLines == Spec => []LinesAreChains
  <1>1. Rows => LinesAreChains
    BY DEF Rows
  <1>2. QED
    BY <1>1, RowsInductive, PTL

(* A login never has two tokens that work (RotateSession, RevokeSession).    *)
THEOREM LoginsHaveOneToken == Spec => []OneActivePerLogin
  <1>1. Rows => OneActivePerLogin
    BY DEF Rows
  <1>2. QED
    BY <1>1, RowsInductive, PTL

------------------------------------------------------------------------------
(* The types of everything else.                                             *)

(* An entry is answered when it is made.                                     *)
EntriesAnswered == \A t \in Tabs : ~Asked(t, "enter")

LEMMA Typed == Spec => [](TypeOK /\ EntriesAnswered)
  <1>1. Init => TypeOK /\ EntriesAnswered
    <2>1. Init => TypeOK
      BY DEF Init, TypeOK
    <2>2. Init => EntriesAnswered
      BY DEF Init, EntriesAnswered, Asked, Kinds
    <2>3. QED
      BY <2>1, <2>2
  <1>2. ASSUME TypeOK, EntriesAnswered, Rows, [Next]_vars PROVE TypeOK'
    <2> USE <1>2 DEF TypeOK
    <2>0. sessions' \in [Tokens -> Row \cup {None}]
      BY TableStep, CreateKeeps, RotateKeeps, RevokeKeeps, ExpireKeeps, SameKeeps
      DEF Rows, SessionsTyped
    <2>1. CASE UNCHANGED vars
      BY <2>1 DEF vars
    <2>2. ASSUME NEW t \in Tabs, NEW k \in {"refresh", "logout"}, Asks(t, k, cookie) PROVE TypeOK'
      BY <2>2, <2>0 DEF Asks, Kinds, Request
    <2>3. ASSUME NEW t \in Tabs, Reload(t) PROVE TypeOK'
      BY <2>3, <2>0 DEF Reload
    <2>4. ASSUME NEW t \in Tabs, NEW u \in Users, NEW x \in Tokens, Register(t, u, x) \/ Login(t, u, x)
          PROVE  TypeOK'
      <3>1. [sent |-> None, step |-> "answered", ok |-> TRUE, set |-> x] \in Answer
        BY DEF Answer
      <3>2. call' \in [Tabs -> [Kinds -> Request \cup Answer \cup {None}]]
        <4>1. \E a \in Answer : call' = [call EXCEPT ![t]["enter"] = a]
          BY <2>4, <3>1 DEF Register, Login, Enters
        <4>2. "enter" \in Kinds
          BY DEF Kinds
        <4>3. QED
          BY <4>1, <4>2
      <3>3. users' \subseteq Users
        BY <2>4 DEF Register, Login
      <3>4. UNCHANGED <<cookie, page, late, stranded>>
        BY <2>4 DEF Register, Login, Enters
      <3>5. QED
        BY <2>0, <3>2, <3>3, <3>4
    <2>5. ASSUME NEW t \in Tabs, NEW k \in Kinds, NEW ok \in BOOLEAN, NEW y \in Tokens \cup {None},
                 Asked(t, k), Reply(t, k, ok, y), UNCHANGED <<users, cookie, page, late, stranded>>
          PROVE  TypeOK'
      <3>1. call[t][k].sent \in Tokens \cup {None}
        BY <2>5 DEF Asked, Request, Answer
      <3>2. [sent |-> call[t][k].sent, step |-> "answered", ok |-> ok, set |-> y] \in Answer
        BY <3>1 DEF Answer
      <3>3. call' \in [Tabs -> [Kinds -> Request \cup Answer \cup {None}]]
        BY <2>5, <3>2 DEF Reply
      <3>4. QED
        BY <2>5, <2>0, <3>3
    <2>6. ASSUME NEW t \in Tabs,
                 (\E x \in Tokens : Refresh(t, x)) \/ RefuseRefresh(t) \/ Logout(t)
          PROVE  TypeOK'
      BY <2>6, <2>5 DEF Refresh, RefuseRefresh, Logout, Kinds, Fresh
    <2>7. ASSUME NEW t \in Tabs, NEW k \in Kinds, Deliver(t, k) PROVE TypeOK'
      <3>1. call[t][k].set \in Tokens \cup {None} /\ call[t][k].ok \in BOOLEAN
        BY <2>7 DEF Deliver, Request, Answer
      <3>2. PageAfter(t, k, call[t][k].ok) \in {"booting", "in", "out"}
        BY <3>1 DEF PageAfter, Kinds
      <3>3. QED
        BY <2>7, <2>0, <3>1, <3>2 DEF Deliver, CookieAfter
    <2>8. ASSUME NEW t \in Tabs, NEW k \in Kinds, Lose(t, k) PROVE TypeOK'
      <3>1. PageAfter(t, k, FALSE) \in {"booting", "in", "out"}
        BY DEF PageAfter, Kinds
      <3>2. late' \subseteq Sent
        <4>1. CASE late' = late
          BY <4>1
        <4>2. CASE /\ call[t][k].step = "asked" /\ call[t][k].sent # None
                   /\ late' = late \cup {[kind |-> k, sent |-> call[t][k].sent]}
          <5>1. k \in {"refresh", "logout"}
            BY <2>8, <4>2, <1>2 DEF Lose, EntriesAnswered, Asked, Kinds
          <5>2. call[t][k].sent \in Tokens
            BY <2>8, <4>2 DEF Lose, Request, Answer
          <5>3. [kind |-> k, sent |-> call[t][k].sent] \in Sent
            BY <5>1, <5>2 DEF Sent
          <5>4. QED
            BY <4>2, <5>3
        <4>3. QED
          BY <2>8, <4>1, <4>2 DEF Lose
      <3>3. stranded' \in BOOLEAN
        BY <2>8 DEF Lose
      <3>4. QED
        BY <2>8, <2>0, <3>1, <3>2, <3>3 DEF Lose
    <2>9. ASSUME NEW m \in late, HandleLate(m) PROVE TypeOK'
      BY <2>9, <2>0 DEF HandleLate
    <2>10. ASSUME NEW x \in Tokens, Expire(x) PROVE TypeOK'
      BY <2>10, <2>0 DEF Expire
    <2>11. QED
      BY <2>1, <2>2, <2>3, <2>4, <2>6, <2>7, <2>8, <2>9, <2>10
      DEF Next, AskRefresh, AskLogout
  <1>3. ASSUME TypeOK, EntriesAnswered, [Next]_vars PROVE EntriesAnswered'
    <2> SUFFICES ASSUME NEW t \in Tabs, Asked(t, "enter")' PROVE FALSE
      BY DEF EntriesAnswered
    <2>0. ~Asked(t, "enter") /\ "enter" \in Kinds
      BY <1>3 DEF EntriesAnswered, Kinds
    <2>1. UNCHANGED call[t]["enter"] => FALSE
      BY <2>0 DEF Asked
    <2>2. ASSUME NEW s \in Tabs, NEW k \in Kinds, NEW a, call' = [call EXCEPT ![s][k] = a],
                 a = None \/ a.step # "asked" \/ k # "enter"
          PROVE  FALSE
      BY <1>3, <2>0, <2>1, <2>2 DEF TypeOK, Asked
    <2>3. ASSUME NEW s \in Tabs, AskRefresh(s) \/ AskLogout(s) PROVE FALSE
      BY <2>2, <2>3 DEF AskRefresh, AskLogout, Asks, Kinds
    <2>4. ASSUME NEW s \in Tabs, NEW u \in Users, NEW x \in Tokens, Register(s, u, x) \/ Login(s, u, x)
          PROVE  FALSE
      BY <2>2, <2>4 DEF Register, Login, Enters, Kinds
    <2>5. ASSUME NEW s \in Tabs,
                 (\E x \in Tokens : Refresh(s, x)) \/ RefuseRefresh(s) \/ Logout(s)
          PROVE  FALSE
      BY <2>2, <2>5 DEF Refresh, RefuseRefresh, Logout, Reply, Kinds
    <2>6. ASSUME NEW s \in Tabs, NEW k \in Kinds, Deliver(s, k) \/ Lose(s, k) PROVE FALSE
      BY <2>2, <2>6 DEF Deliver, Lose
    <2>7. CASE UNCHANGED call
      BY <2>1, <2>7
    <2>8. QED
      BY <1>3, <2>3, <2>4, <2>5, <2>6, <2>7 DEF Next, vars, Reload, HandleLate, Expire
  <1>4. QED
    BY <1>1, <1>2, <1>3, RowsInductive, PTL DEF Spec

(* Rows, requests and answers are of their types.                            *)
THEOREM SessionsAreTyped == Spec => []TypeOK
  BY Typed, PTL

------------------------------------------------------------------------------
(* What requests and answers carry.                                          *)

(* x is in the cookie, or in a request that is or may yet be handled.        *)
Sends(x) ==
    \/ cookie = x
    \/ \E t \in Tabs, k \in Kinds : call[t][k] # None /\ call[t][k].sent = x
    \/ \E m \in late : m.sent = x

Answered(t, k) == call[t][k] # None /\ call[t][k].step = "answered"
Brings(t, k, x) == Answered(t, k) /\ call[t][k].set = x

SentIsIssued == \A x \in Tokens : Sends(x) => x \in Issued

(* An answer on its way brings a token that works and nobody has used.       *)
UndeliveredWorks ==
    \A t \in Tabs, k \in Kinds, x \in Tokens : Brings(t, k, x) =>
        /\ x \in Issued /\ sessions[x].status # "revoked" /\ ~Sends(x)
        /\ \A s \in Tabs, j \in Kinds : Brings(s, j, x) => s = t /\ j = k

DeadIsAnswered ==
    \/ cookie = None
    \/ sessions[cookie].status # "revoked"
    \/ stranded
    \/ \E t \in Tabs, k \in Kinds : Answered(t, k) /\ call[t][k].sent = cookie

Known == SentIsIssued /\ UndeliveredWorks /\ DeadIsAnswered

(* What is sent after a step was sent before it, what is brought was         *)
(* brought, and nothing of it was used up.                                   *)
LEMMA FewerKnown ==
  ASSUME Known,
         \A x \in Tokens : Sends(x)' =>
             Sends(x) \/ \E t \in Tabs, k \in Kinds : Brings(t, k, x) /\ ~Brings(t, k, x)',
         \A t \in Tabs, k \in Kinds, x \in Tokens : Brings(t, k, x)' => Brings(t, k, x),
         Issued \subseteq Issued',
         \A t \in Tabs, k \in Kinds, x \in Tokens : Brings(t, k, x) => sessions'[x].status # "revoked"
  PROVE  SentIsIssued' /\ UndeliveredWorks'
  <1>1. SentIsIssued'
    BY DEF Known, SentIsIssued, UndeliveredWorks
  <1>2. ASSUME NEW t \in Tabs, NEW k \in Kinds, NEW x \in Tokens, Brings(t, k, x)'
        PROVE  /\ x \in Issued' /\ sessions'[x].status # "revoked" /\ ~Sends(x)'
               /\ \A s \in Tabs, j \in Kinds : Brings(s, j, x)' => s = t /\ j = k
    BY <1>2 DEF Known, UndeliveredWorks
  <1>3. UndeliveredWorks'
    BY <1>2 DEF UndeliveredWorks
  <1>4. QED
    BY <1>1, <1>3

(* The request at (s, j) is asked with the cookie of the moment.             *)
LEMMA AskKnown ==
  ASSUME TypeOK, Known, NEW s \in Tabs, NEW j \in Kinds, Asks(s, j, cookie)
  PROVE  Known'
  <1>1. /\ call[s][j] = None /\ call'[s][j] = [sent |-> cookie, step |-> "asked"]
        /\ \A t \in Tabs, k \in Kinds : t # s \/ k # j => call'[t][k] = call[t][k]
        /\ UNCHANGED <<sessions, cookie, late, stranded>>
    BY DEF TypeOK, Asks
  <1>2. \A x : Sends(x)' => Sends(x)
    BY <1>1 DEF Sends
  <1>3. \A t \in Tabs, k \in Kinds : /\ Answered(t, k)' => Answered(t, k)
                                     /\ Answered(t, k) => Answered(t, k)' /\ call'[t][k] = call[t][k]
    BY <1>1 DEF Answered
  <1>4. \A t \in Tabs, k \in Kinds, x \in Tokens : Brings(t, k, x)' => Brings(t, k, x)
    BY <1>3 DEF Brings
  <1>5. Issued' = Issued
    BY <1>1 DEF Issued
  <1>6. \A t \in Tabs, k \in Kinds, x \in Tokens : Brings(t, k, x) => sessions'[x].status # "revoked"
    BY <1>1 DEF Known, UndeliveredWorks
  <1>7. SentIsIssued' /\ UndeliveredWorks'
    BY <1>2, <1>4, <1>5, <1>6, FewerKnown
  <1>8. DeadIsAnswered'
    BY <1>1, <1>3 DEF Known, DeadIsAnswered
  <1>9. QED
    BY <1>7, <1>8 DEF Known

(* The request at (s, j), which sent x, is answered: with a new token, or    *)
(* with none.  Only x can have been used up.                                 *)
LEMMA AnswerKnown ==
  ASSUME TypeOK, Known, NEW s \in Tabs, NEW j \in Kinds, NEW x \in Tokens \cup {None},
         NEW y \in Tokens \cup {None}, NEW ok \in BOOLEAN,
         ~Answered(s, j),
         x = None \/ (call[s][j] # None /\ call[s][j].sent = x),
         y = None \/ (y \in Fresh /\ y \in Issued' /\ sessions'[y].status # "revoked"),
         Spares(x),
         call' = [call EXCEPT ![s][j] = [sent |-> x, step |-> "answered", ok |-> ok, set |-> y]],
         UNCHANGED <<cookie, late, stranded>>
  PROVE  Known'
  <1> DEFINE answer == [sent |-> x, step |-> "answered", ok |-> ok, set |-> y]
  <1>1. /\ call'[s][j] = answer
        /\ \A t \in Tabs, k \in Kinds : t # s \/ k # j => call'[t][k] = call[t][k]
    BY DEF TypeOK
  <1>2. answer # None
    <2>1. answer \in Answer
      BY DEF Answer
    <2>2. QED
      BY <2>1
  <1>3. \A z \in Tokens : Sends(z)' => Sends(z)
    <2> SUFFICES ASSUME NEW z \in Tokens, Sends(z)' PROVE Sends(z)
      OBVIOUS
    <2>1. CASE cookie' = z \/ \E m \in late' : m.sent = z
      BY <2>1 DEF Sends
    <2>2. ASSUME NEW t \in Tabs, NEW k \in Kinds, call'[t][k] # None, call'[t][k].sent = z
          PROVE  Sends(z)
      <3>1. CASE t = s /\ k = j
        BY <3>1, <2>2, <1>1 DEF Sends
      <3>2. CASE t # s \/ k # j
        BY <3>2, <2>2, <1>1 DEF Sends
      <3>3. QED
        BY <3>1, <3>2
    <2>3. QED
      BY <2>1, <2>2 DEF Sends
  <1>4. \A t \in Tabs, k \in Kinds, z \in Tokens :
            Brings(t, k, z)' <=> (Brings(t, k, z) \/ (t = s /\ k = j /\ z = y))
    <2> SUFFICES ASSUME NEW t \in Tabs, NEW k \in Kinds, NEW z \in Tokens
                 PROVE  Brings(t, k, z)' <=> (Brings(t, k, z) \/ (t = s /\ k = j /\ z = y))
      OBVIOUS
    <2>1. CASE t = s /\ k = j
      BY <2>1, <1>1, <1>2 DEF Brings, Answered
    <2>2. CASE t # s \/ k # j
      BY <2>2, <1>1 DEF Brings, Answered
    <2>3. QED
      BY <2>1, <2>2
  <1>5. \A t \in Tabs, k \in Kinds, z \in Tokens : Brings(t, k, z) =>
            z \in Issued' /\ sessions'[z].status # "revoked"
    <2> SUFFICES ASSUME NEW t \in Tabs, NEW k \in Kinds, NEW z \in Tokens, Brings(t, k, z)
                 PROVE  z \in Issued' /\ sessions'[z].status # "revoked"
      OBVIOUS
    <2>1. z \in Issued /\ sessions[z].status # "revoked" /\ ~Sends(z)
      BY DEF Known, UndeliveredWorks
    <2>2. z # x
      BY <2>1 DEF Sends
    <2>3. QED
      BY <2>1, <2>2 DEF Spares
  <1>6. SentIsIssued'
    BY <1>3 DEF Known, SentIsIssued, Spares
  <1>7. UndeliveredWorks'
    <2>1. ASSUME NEW t \in Tabs, NEW k \in Kinds, Brings(t, k, y), y \in Tokens PROVE y = None
      BY <2>1 DEF Known, UndeliveredWorks, Fresh
    <2>2. ~Sends(y) \/ y = None
      BY DEF Known, SentIsIssued, Fresh
    <2> SUFFICES ASSUME NEW t \in Tabs, NEW k \in Kinds, NEW z \in Tokens, Brings(t, k, z)'
                 PROVE  /\ z \in Issued' /\ sessions'[z].status # "revoked" /\ ~Sends(z)'
                        /\ \A r \in Tabs, l \in Kinds : Brings(r, l, z)' => r = t /\ l = k
      BY DEF UndeliveredWorks
    <2>3. z # None
      OBVIOUS
    <2>4. CASE Brings(t, k, z)
      <3>1. z # y
        BY <2>1, <2>3, <2>4
      <3>2. ~Sends(z) /\ \A r \in Tabs, l \in Kinds : Brings(r, l, z) => r = t /\ l = k
        BY <2>4 DEF Known, UndeliveredWorks
      <3>3. QED
        BY <2>4, <3>1, <3>2, <1>3, <1>4, <1>5
    <2>5. CASE ~Brings(t, k, z)
      <3>1. t = s /\ k = j /\ z = y
        BY <2>5, <1>4
      <3>2. QED
        BY <3>1, <2>1, <2>2, <2>3, <1>3, <1>4
    <2>6. QED
      BY <2>4, <2>5
  <1>8. DeadIsAnswered'
    <2> SUFFICES ASSUME cookie # None, ~stranded, sessions'[cookie].status = "revoked"
                 PROVE  \E t \in Tabs, k \in Kinds : Answered(t, k)' /\ call'[t][k].sent = cookie
      BY DEF DeadIsAnswered
    <2>1. CASE sessions[cookie].status = "revoked"
      <3>1. PICK t \in Tabs, k \in Kinds : Answered(t, k) /\ call[t][k].sent = cookie
        BY <2>1 DEF Known, DeadIsAnswered
      <3>2. t # s \/ k # j
        BY <3>1
      <3>3. QED
        BY <3>1, <3>2, <1>1 DEF Answered
    <2>2. CASE sessions[cookie].status # "revoked"
      <3>1. cookie \in Tokens /\ cookie \in Issued
        BY DEF TypeOK, Known, SentIsIssued, Sends
      <3>2. cookie = x
        BY <2>2, <3>1 DEF Spares
      <3>3. Answered(s, j)' /\ call'[s][j].sent = cookie
        BY <3>2, <1>1, <1>2 DEF Answered
      <3>4. QED
        BY <3>3
    <2>3. QED
      BY <2>1, <2>2
  <1>9. QED
    BY <1>6, <1>7, <1>8 DEF Known

LEMMA DeliverKnown ==
  ASSUME TypeOK, Known, NEW s \in Tabs, NEW j \in Kinds, Deliver(s, j)
  PROVE  Known'
  <1>1. /\ call'[s][j] = None
        /\ \A t \in Tabs, k \in Kinds : t # s \/ k # j => call'[t][k] = call[t][k]
        /\ Answered(s, j) /\ cookie' = call[s][j].set /\ stranded' = (stranded /\ cookie' = cookie)
        /\ UNCHANGED <<sessions, late>>
    BY DEF TypeOK, Deliver, Answered, CookieAfter
  <1>2. call[s][j].set \in Tokens \cup {None}
    BY <1>1 DEF TypeOK, Answered, Request, Answer
  <1>3. \A t \in Tabs, k \in Kinds, x \in Tokens : Brings(t, k, x)' => Brings(t, k, x)
    BY <1>1 DEF Brings, Answered
  <1>4. \A x \in Tokens : Sends(x)' => Sends(x) \/ (Brings(s, j, x) /\ ~Brings(s, j, x)')
    BY <1>1 DEF Sends, Brings, Answered
  <1>5. Issued' = Issued
    BY <1>1 DEF Issued
  <1>6. \A t \in Tabs, k \in Kinds, x \in Tokens : Brings(t, k, x) => sessions'[x].status # "revoked"
    BY <1>1 DEF Known, UndeliveredWorks
  <1>7. SentIsIssued' /\ UndeliveredWorks'
    BY <1>3, <1>4, <1>5, <1>6, FewerKnown
  <1>8. DeadIsAnswered'
    <2>1. CASE cookie' = None
      BY <2>1 DEF DeadIsAnswered
    <2>2. CASE cookie' # None
      <3>1. Brings(s, j, cookie') /\ cookie' \in Tokens
        BY <2>2, <1>1, <1>2 DEF Brings
      <3>2. sessions'[cookie'].status # "revoked"
        BY <3>1, <1>6
      <3>3. QED
        BY <3>2 DEF DeadIsAnswered
    <2>3. QED
      BY <2>1, <2>2
  <1>9. QED
    BY <1>7, <1>8 DEF Known

LEMMA LoseKnown ==
  ASSUME TypeOK, Known, NEW s \in Tabs, NEW j \in Kinds, Lose(s, j)
  PROVE  Known'
  <1>1. /\ call[s][j] # None /\ call'[s][j] = None
        /\ \A t \in Tabs, k \in Kinds : t # s \/ k # j => call'[t][k] = call[t][k]
        /\ UNCHANGED <<sessions, cookie>>
    BY DEF TypeOK, Lose
  <1>2. \A m \in late' : m \in late \/ m.sent = call[s][j].sent
    BY DEF Lose
  <1>3. \A x \in Tokens : Sends(x)' => Sends(x)
    BY <1>1, <1>2 DEF Sends
  <1>4. \A t \in Tabs, k \in Kinds, x \in Tokens : Brings(t, k, x)' => Brings(t, k, x)
    BY <1>1 DEF Brings, Answered
  <1>5. Issued' = Issued
    BY <1>1 DEF Issued
  <1>6. \A t \in Tabs, k \in Kinds, x \in Tokens : Brings(t, k, x) => sessions'[x].status # "revoked"
    BY <1>1 DEF Known, UndeliveredWorks
  <1>7. SentIsIssued' /\ UndeliveredWorks'
    BY <1>3, <1>4, <1>5, <1>6, FewerKnown
  <1>8. DeadIsAnswered'
    <2> SUFFICES ASSUME cookie # None, ~stranded', sessions[cookie].status = "revoked"
                 PROVE  \E t \in Tabs, k \in Kinds : Answered(t, k)' /\ call'[t][k].sent = cookie
      BY <1>1 DEF DeadIsAnswered
    <2>1. ~stranded /\ (Answered(s, j) => call[s][j].sent # cookie)
      <3>1. CASE stranded' = (stranded \/ (cookie # None /\ call[s][j].sent = cookie))
        BY <3>1
      <3>2. CASE call[s][j].step = "asked" /\ stranded' = stranded
        BY <3>2 DEF Answered
      <3>3. QED
        BY <3>1, <3>2 DEF Lose
    <2>2. PICK t \in Tabs, k \in Kinds : Answered(t, k) /\ call[t][k].sent = cookie
      BY <2>1 DEF Known, DeadIsAnswered
    <2>3. t # s \/ k # j
      BY <2>1, <2>2
    <2>4. QED
      BY <2>2, <2>3, <1>1 DEF Answered
  <1>9. QED
    BY <1>7, <1>8 DEF Known

(* Nothing awaited changes; only x can have been used up, and if it was the  *)
(* cookie that is a loss.                                                    *)
LEMMA ApartKnown ==
  ASSUME TypeOK, Known, NEW x \in Tokens \cup {None}, x = None \/ Sends(x), Spares(x),
         UNCHANGED call, late' \subseteq late, cookie' \in {cookie, None},
         \/ cookie' # cookie \/ stranded'
         \/ stranded' = stranded /\ (sessions' = sessions \/ x = None \/ x # cookie)
  PROVE  Known'
  <1>1. \A t \in Tabs, k \in Kinds : Answered(t, k)' <=> Answered(t, k)
    BY DEF Answered
  <1>2. \A t \in Tabs, k \in Kinds : \A z : Brings(t, k, z)' <=> Brings(t, k, z)
    BY <1>1 DEF Brings
  <1>3. \A z \in Tokens : Sends(z)' => Sends(z)
    BY DEF Sends
  <1>4. \A t \in Tabs, k \in Kinds, z \in Tokens : Brings(t, k, z) => sessions'[z].status # "revoked"
    BY DEF Known, UndeliveredWorks, Spares
  <1>5. SentIsIssued' /\ UndeliveredWorks'
    BY <1>2, <1>3, <1>4, FewerKnown DEF Spares
  <1>6. DeadIsAnswered'
    <2> SUFFICES ASSUME cookie' # None, ~stranded', sessions'[cookie'].status = "revoked"
                 PROVE  \E t \in Tabs, k \in Kinds : Answered(t, k)' /\ call'[t][k].sent = cookie'
      BY DEF DeadIsAnswered
    <2>1. cookie' = cookie /\ ~stranded /\ (sessions' = sessions \/ x # cookie)
      OBVIOUS
    <2>2. cookie \in Issued
      BY <2>1 DEF TypeOK, Known, SentIsIssued, Sends
    <2>3. sessions[cookie].status = "revoked"
      BY <2>1, <2>2 DEF Spares
    <2>4. PICK t \in Tabs, k \in Kinds : Answered(t, k) /\ call[t][k].sent = cookie
      BY <2>1, <2>3 DEF Known, DeadIsAnswered
    <2>5. QED
      BY <2>1, <2>4, <1>1
  <1>7. QED
    BY <1>5, <1>6 DEF Known

(* A new row is issued and works.                                            *)
LEMMA CreatedWorks ==
  ASSUME Rows, NEW u \in Users, NEW x \in Fresh,
         sessions' = CreateRefreshSession(sessions, x, u, x)
  PROVE  x \in Issued' /\ sessions'[x].status # "revoked"
  <1>1. sessions'[x] = Session(u, x) /\ x \in Tokens
    BY DEF CreateRefreshSession, Rows, SessionsTyped, Fresh
  <1>2. Session(u, x) \in Row /\ Session(u, x).status = "active"
    BY <1>1 DEF Session, Row
  <1>3. QED
    BY <1>1, <1>2 DEF Issued

LEMMA RotatedWorks ==
  ASSUME Rows, NEW x, Rotatable(x), NEW next \in Fresh, sessions' = RotateSession(x, next)
  PROVE  next \in Issued' /\ sessions'[next].status # "revoked"
  <1>1. x \in Tokens /\ sessions[x] \in Row /\ x # next /\ next \in Tokens
    BY RowsAreRows DEF Rows, Rotatable, GetRefreshSessionForUpdate, Fresh
  <1> DEFINE new == Session(sessions[x].user, sessions[x].login)
  <1>2. new \in Row /\ new.status = "active"
    BY <1>1 DEF Session, Row
  <1> HIDE DEF new
  <1>3. sessions'[next] = new
    BY <1>1 DEF RotateSession, RotateRefreshSession, CreateRefreshSession, new, Rows, SessionsTyped
  <1>4. QED
    BY <1>1, <1>2, <1>3 DEF Issued

LEMMA KnownInductive ==
  ASSUME TypeOK, EntriesAnswered, Rows, Known, [Next]_vars
  PROVE  Known'
  <1>1. ASSUME UNCHANGED <<sessions, cookie, call, late, stranded>> PROVE Known'
    BY <1>1 DEF Known, SentIsIssued, UndeliveredWorks, DeadIsAnswered, Sends, Brings, Answered, Issued
  <1>2. ASSUME NEW t \in Tabs, AskRefresh(t) \/ AskLogout(t) PROVE Known'
    BY <1>2, AskKnown DEF AskRefresh, AskLogout, Kinds
  <1>3. ASSUME NEW t \in Tabs, NEW u \in Users, NEW x \in Tokens, Register(t, u, x) \/ Login(t, u, x)
        PROVE  Known'
    <2>1. /\ x \in Fresh /\ call[t]["enter"] = None /\ "enter" \in Kinds
          /\ sessions' = CreateRefreshSession(sessions, x, u, x)
          /\ call' = [call EXCEPT ![t]["enter"] = [sent |-> None, step |-> "answered",
                                                   ok |-> TRUE, set |-> x]]
          /\ UNCHANGED <<cookie, late, stranded>>
      BY <1>3 DEF Register, Login, Enters, Kinds
    <2>2. x \in Issued' /\ sessions'[x].status # "revoked"
      BY <2>1, CreatedWorks
    <2>3. Spares(None)
      BY <2>1, CreateKeeps DEF Creates
    <2>4. ~Answered(t, "enter")
      BY <2>1 DEF Answered
    <2>5. QED
      BY <2>1, <2>2, <2>3, <2>4, AnswerKnown
  <1>4. ASSUME NEW t \in Tabs, NEW k \in Kinds, NEW ok \in BOOLEAN, NEW y \in Tokens \cup {None},
               Asked(t, k), Reply(t, k, ok, y), UNCHANGED <<cookie, late, stranded>>,
               Spares(call[t][k].sent),
               y = None \/ (y \in Fresh /\ y \in Issued' /\ sessions'[y].status # "revoked")
        PROVE  Known'
    <2>1. call[t][k] # None /\ call[t][k].sent \in Tokens \cup {None}
      BY <1>4 DEF TypeOK, Asked, Request, Answer
    <2>2. ~Answered(t, k)
      BY <1>4 DEF Asked, Answered
    <2>3. call' = [call EXCEPT ![t][k] = [sent |-> call[t][k].sent, step |-> "answered",
                                          ok |-> ok, set |-> y]]
      BY <1>4 DEF Reply, TypeOK
    <2>4. QED
      BY <1>4, <2>1, <2>2, <2>3, AnswerKnown
  <1>5. ASSUME NEW t \in Tabs, NEW next \in Tokens, Refresh(t, next) PROVE Known'
    <2>1. Spares(call[t]["refresh"].sent)
      BY <1>5, RotateKeeps DEF Refresh, Rotates
    <2>2. next \in Fresh /\ next \in Issued' /\ sessions'[next].status # "revoked"
      BY <1>5, RotatedWorks DEF Refresh
    <2>3. QED
      BY <1>4, <1>5, <2>1, <2>2 DEF Refresh, Kinds
  <1>6. ASSUME NEW t \in Tabs, RefuseRefresh(t) PROVE Known'
    <2>1. Spares(call[t]["refresh"].sent)
      <3>1. CASE UNCHANGED sessions
        BY <3>1 DEF Spares, Issued
      <3>2. CASE Rotates(call[t]["refresh"].sent)
        BY <3>2, RotateKeeps
      <3>3. QED
        BY <1>6, <3>1, <3>2 DEF RefuseRefresh, Rotates
    <2>2. QED
      BY <1>4, <1>6, <2>1 DEF RefuseRefresh, Kinds
  <1>7. ASSUME NEW t \in Tabs, Logout(t) PROVE Known'
    <2>1. Spares(call[t]["logout"].sent)
      <3>1. CASE UNCHANGED sessions
        BY <3>1 DEF Spares, Issued
      <3>2. CASE Revokes(call[t]["logout"].sent)
        BY <3>2, RevokeKeeps
      <3>3. QED
        BY <1>7, <3>1, <3>2 DEF Logout, Revokes
    <2>2. QED
      BY <1>4, <1>7, <2>1 DEF Logout, Kinds
  <1>8. ASSUME NEW t \in Tabs, NEW k \in Kinds, Deliver(t, k) \/ Lose(t, k) PROVE Known'
    BY <1>8, DeliverKnown, LoseKnown
  <1>9. ASSUME NEW m \in late, HandleLate(m) PROVE Known'
    <2>1. m.sent \in Tokens /\ Sends(m.sent)
      BY DEF TypeOK, Sent, Sends
    <2>2. Spares(m.sent)
      <3>1. CASE UNCHANGED sessions
        BY <3>1 DEF Spares, Issued
      <3>2. CASE Rotates(m.sent)
        BY <3>2, RotateKeeps
      <3>3. CASE Revokes(m.sent)
        BY <3>3, RevokeKeeps
      <3>4. QED
        BY <1>9, <3>1, <3>2, <3>3 DEF HandleLate, Rotates, Revokes
    <2>3. stranded' \/ (stranded' = stranded /\ (sessions' = sessions \/ m.sent # cookie))
      BY <1>9 DEF HandleLate, TypeOK
    <2>4. UNCHANGED call /\ late' \subseteq late /\ cookie' = cookie
      BY <1>9 DEF HandleLate
    <2>5. QED
      BY <2>1, <2>2, <2>3, <2>4, ApartKnown
  <1>10. ASSUME NEW x \in Tokens, Expire(x) PROVE Known'
    <2>1. Spares(None)
      BY <1>10, ExpireKeeps DEF Expire, Expires
    <2>2. UNCHANGED call /\ late' = late /\ cookie' \in {cookie, None}
      BY <1>10 DEF Expire
    <2>3. cookie' # cookie \/ stranded' = stranded
      BY <1>10 DEF Expire, TypeOK
    <2>4. QED
      BY <2>1, <2>2, <2>3, ApartKnown
  <1>11. QED
    BY <1>1, <1>2, <1>3, <1>5, <1>6, <1>7, <1>8, <1>9, <1>10 DEF Next, vars, Reload

(* When no request with it is awaited, the browser holds a token that is     *)
(* used up only if an answer was lost: neither tabs that refresh at once nor *)
(* a logout beside a refresh leave it with a dead cookie (handleRefresh,     *)
(* clearRefreshCookie).                                                      *)
THEOREM OnlyLossStrands == Spec => []DeadCookieMeansLoss
  <1>1. Init => Known
    BY DEF Init, Known, SentIsIssued, UndeliveredWorks, DeadIsAnswered, Sends, Brings, Answered, Kinds
  <1>2. Known => DeadCookieMeansLoss
    BY DEF Known, DeadIsAnswered, DeadCookieMeansLoss, Answered
  <1>3. QED
    BY <1>1, <1>2, KnownInductive, RowsInductive, Typed, PTL DEF Spec

------------------------------------------------------------------------------
(* The composition.                                                          *)

(* FriendshipsProofs with the variables of Book and with those of Invite.    *)
BookFacts == INSTANCE FriendshipsProofs WITH Users <- People, Reader <- Owner,
    page <- friendPage
InviteFacts == INSTANCE FriendshipsProofs WITH Users <- People, Reader <- Owner,
    rows <- friendships, used <- given, accepts <- asked, view <- overview,
    page <- friendPage

(* Each part of the composition behaves as it does alone.                    *)
THEOREM PeopleAreTheirParts == PeopleSpec => Spec /\ Book!Spec /\ Invite!FriendInvitationsSpec
  <1>1. PeopleInit => Init /\ Book!Init /\ Invite!FriendInvitationsInit
    BY DEF PeopleInit
  <1>2. [PeopleNext]_<<part, vars, bookVars, inviteVars>> =>
            /\ [Next]_vars /\ [Book!Next]_Book!friendVars
            /\ [Invite!FriendInvitationsNext]_Invite!vars
    BY DEF PeopleNext, vars, bookVars, inviteVars, Book!friendVars, Invite!friendVars,
           Invite!meetingVars, Invite!vars
  <1>3. QED
    BY <1>1, <1>2, PTL DEF PeopleSpec, Spec, Book!Spec, Invite!FriendInvitationsSpec

(* The facts are about the very same steps.                                  *)
LEMMA BookIsTheirs ==
    /\ BookFacts!FriendshipsAssumption
    /\ BookFacts!Init <=> Book!Init
    /\ [BookFacts!Next]_BookFacts!friendVars <=> [Book!Next]_Book!friendVars
  BY BookAssumed
  DEF BookFacts!Row, Book!Row, BookFacts!FriendshipsAssumption,
      Book!FriendshipsAssumption, BookFacts!friendVars, Book!friendVars, BookFacts!Lists,
      Book!Lists, BookFacts!Kinds, Book!Kinds, BookFacts!Rows, Book!Rows, BookFacts!Pair,
      Book!Pair, BookFacts!Taken, Book!Taken, BookFacts!InsertFriendRequest,
      Book!InsertFriendRequest, BookFacts!AcceptFriendRequest, Book!AcceptFriendRequest,
      BookFacts!DeletePendingFriendRequest, Book!DeletePendingFriendRequest,
      BookFacts!DeleteAcceptedFriendship, Book!DeleteAcceptedFriendship,
      BookFacts!ListFriends, Book!ListFriends, BookFacts!ListIncoming, Book!ListIncoming,
      BookFacts!ListOutgoing, Book!ListOutgoing, BookFacts!Listed, Book!Listed,
      BookFacts!SearchUsersByNickname, Book!SearchUsersByNickname, BookFacts!Init,
      Book!Init, BookFacts!Disturb, Book!Disturb, BookFacts!Send, Book!Send,
      BookFacts!AskAccept, Book!AskAccept, BookFacts!Accept, Book!Accept,
      BookFacts!DeleteRequest, Book!DeleteRequest, BookFacts!RemoveFriend,
      Book!RemoveFriend, BookFacts!ListRead, Book!ListRead, BookFacts!OpenOverview,
      Book!OpenOverview, BookFacts!CountList, Book!CountList, BookFacts!ReadList,
      Book!ReadList, BookFacts!Change, Book!Change, BookFacts!Next, Book!Next,
      BookFacts!Cardinality, Book!Cardinality

LEMMA InvitationsAreTheirs ==
    /\ InviteFacts!FriendshipsAssumption /\ InviteFacts!OwnerAssumption
    /\ InviteFacts!FriendInvitationsInit <=> Invite!FriendInvitationsInit
    /\ [InviteFacts!FriendInvitationsNext]_InviteFacts!vars
         <=> [Invite!FriendInvitationsNext]_Invite!vars
  BY InviteAssumed
  DEF InviteFacts!Row, Invite!Row, InviteFacts!FriendshipsAssumption,
      Invite!FriendshipsAssumption, InviteFacts!friendVars, Invite!friendVars,
      InviteFacts!Lists, Invite!Lists, InviteFacts!Kinds, Invite!Kinds, InviteFacts!Rows,
      Invite!Rows, InviteFacts!Pair, Invite!Pair, InviteFacts!Taken, Invite!Taken,
      InviteFacts!InsertFriendRequest, Invite!InsertFriendRequest,
      InviteFacts!AcceptFriendRequest, Invite!AcceptFriendRequest,
      InviteFacts!DeletePendingFriendRequest, Invite!DeletePendingFriendRequest,
      InviteFacts!DeleteAcceptedFriendship, Invite!DeleteAcceptedFriendship,
      InviteFacts!ListFriends, Invite!ListFriends, InviteFacts!ListIncoming,
      Invite!ListIncoming, InviteFacts!ListOutgoing, Invite!ListOutgoing,
      InviteFacts!Listed, Invite!Listed, InviteFacts!SearchUsersByNickname,
      Invite!SearchUsersByNickname, InviteFacts!Init, Invite!Init, InviteFacts!Disturb,
      Invite!Disturb, InviteFacts!Send, Invite!Send, InviteFacts!AskAccept,
      Invite!AskAccept, InviteFacts!Accept, Invite!Accept, InviteFacts!DeleteRequest,
      Invite!DeleteRequest, InviteFacts!RemoveFriend, Invite!RemoveFriend,
      InviteFacts!ListRead, Invite!ListRead, InviteFacts!OpenOverview,
      Invite!OpenOverview, InviteFacts!CountList, Invite!CountList, InviteFacts!ReadList,
      Invite!ReadList, InviteFacts!Change, Invite!Change, InviteFacts!Next, Invite!Next,
      InviteFacts!OwnerAssumption, Invite!OwnerAssumption, InviteFacts!meetingVars,
      Invite!meetingVars, InviteFacts!vars, Invite!vars, InviteFacts!Statuses,
      Invite!Statuses, InviteFacts!Guests, Invite!Guests, InviteFacts!Friends,
      Invite!Friends, InviteFacts!Tracked, Invite!Tracked,
      InviteFacts!FriendInvitationsInit, Invite!FriendInvitationsInit,
      InviteFacts!AddressBook, Invite!AddressBook, InviteFacts!Candidates,
      Invite!Candidates, InviteFacts!BeginBatch, Invite!BeginBatch, InviteFacts!Invites,
      Invite!Invites, InviteFacts!Insert, Invite!Insert, InviteFacts!Inserted,
      Invite!Inserted, InviteFacts!CommitBatch, Invite!CommitBatch, InviteFacts!RollBack,
      Invite!RollBack, InviteFacts!Open, Invite!Open, InviteFacts!Marked, Invite!Marked,
      InviteFacts!AcceptInvitation, Invite!AcceptInvitation,
      InviteFacts!DeclineInvitation, Invite!DeclineInvitation, InviteFacts!JoinByLink,
      Invite!JoinByLink, InviteFacts!End, Invite!End, InviteFacts!FriendInvitationsNext,
      Invite!FriendInvitationsNext

LEMMA BookInductive ==
    Book!Spec => [](Book!TypeOK /\ Book!FriendsAgreed /\ Book!OverviewSound)
  <1>1. BookFacts!Spec <=> Book!Spec
    BY BookIsTheirs, PTL DEF BookFacts!Spec, Book!Spec
  <1>2. BookFacts!TypeOK => Book!TypeOK
    BY DEF BookFacts!TypeOK, Book!TypeOK, BookFacts!Row, Book!Row, BookFacts!Rows, Book!Rows,
           BookFacts!Kinds, Book!Kinds
  <1>3. BookFacts!FriendsAgreed => Book!FriendsAgreed
    BY DEF BookFacts!FriendsAgreed, Book!FriendsAgreed, BookFacts!Rows, Book!Rows,
           BookFacts!Pair, Book!Pair
  <1>4. BookFacts!OverviewSound => Book!OverviewSound
    BY DEF BookFacts!OverviewSound, Book!OverviewSound, 
           BookFacts!Cardinality, Book!Cardinality, BookFacts!Kinds, Book!Kinds,
           BookFacts!Listed, Book!Listed, BookFacts!ListFriends, Book!ListFriends,
           BookFacts!ListIncoming, Book!ListIncoming, BookFacts!ListOutgoing,
           Book!ListOutgoing, BookFacts!Rows, Book!Rows, BookFacts!Pair, Book!Pair
  <1>5. QED
    BY <1>1, <1>2, <1>3, <1>4, BookIsTheirs, BookFacts!BookIsTyped,
       BookFacts!FriendsHaveAgreed, BookFacts!OverviewsAreSound, PTL

LEMMA InvitationsInductive ==
    Invite!FriendInvitationsSpec =>
        [](Invite!TypeOK /\ Invite!InvitationsTypeOK) /\ Invite!InvitedWereFriends
  <1>1. InviteFacts!FriendInvitationsSpec <=> Invite!FriendInvitationsSpec
    BY InvitationsAreTheirs, PTL DEF InviteFacts!FriendInvitationsSpec, Invite!FriendInvitationsSpec
  <1>2. InviteFacts!TypeOK => Invite!TypeOK
    BY DEF InviteFacts!TypeOK, Invite!TypeOK, InviteFacts!Row, Invite!Row, InviteFacts!Rows,
           Invite!Rows, InviteFacts!Kinds, Invite!Kinds
  <1>3. InviteFacts!InvitationsTypeOK => Invite!InvitationsTypeOK
    BY DEF InviteFacts!InvitationsTypeOK, Invite!InvitationsTypeOK, InviteFacts!Guests,
           Invite!Guests, InviteFacts!Statuses, Invite!Statuses
  <1>4. InviteFacts!InvitedWereFriends => Invite!InvitedWereFriends
    BY PTL DEF InviteFacts!InvitedWereFriends, Invite!InvitedWereFriends, InviteFacts!Guests,
       Invite!Guests, InviteFacts!vars, Invite!vars, InviteFacts!friendVars, Invite!friendVars,
       InviteFacts!meetingVars, Invite!meetingVars
  <1>5. QED
    BY <1>1, <1>2, <1>3, <1>4, InvitationsAreTheirs, InviteFacts!InvitationsKeepTheBook,
       InviteFacts!BookIsTyped, InviteFacts!InvitationsAreTyped,
       InviteFacts!InvitedHadBeenFriends, PTL

(* Sessions, requests between people, overviews and invitations are of their *)
(* types.                                                                    *)
THEOREM PeopleAreTyped == PeopleSpec => []PeopleTypeOK
  BY PeopleAreTheirParts, SessionsAreTyped, BookInductive, InvitationsInductive, PTL
  DEF PeopleTypeOK

(* However requests cross, are withdrawn and come again, two people have one *)
(* row between them and friends accepted this very request                   *)
(* (friendships_user_pair_key, Accept).                                      *)
THEOREM FriendsHaveAgreedThroughout == PeopleSpec => []FriendsAgreed
  BY PeopleAreTheirParts, BookInductive, PTL DEF FriendsAgreed

(* No row is in two lists of one overview, and a row nobody touched is in    *)
(* its list and counted (Overview).                                          *)
THEOREM OverviewsStaySound == PeopleSpec => []OverviewSound
  BY PeopleAreTheirParts, BookInductive, PTL DEF OverviewSound

(* A batch invites only who was a friend during it, and an answer stands     *)
(* (Send, Accept, Decline).                                                  *)
THEOREM OnlyFriendsAreInvited == PeopleSpec => InvitedWereFriends
  BY PeopleAreTheirParts, InvitationsInductive, PTL DEF InvitedWereFriends
==============================================================================
