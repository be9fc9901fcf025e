------------------------------- MODULE Sessions -------------------------------
(***************************************************************************)
(* Accounts and their refresh sessions: registration, login, rotation and    *)
(* logout, asked for by the tabs of one browser, which share its cookie.     *)
(*                                                                          *)
(* A refresh token and the row of its hash are one value.  Each handler is   *)
(* one transaction on one row (GetRefreshSessionForUpdate locks it), so it   *)
(* is one step; what interleaves are requests, answers and losses of both.   *)
(***************************************************************************)
EXTENDS Naturals, FiniteSets

CONSTANTS
    Tabs,
    Users,
    Tokens,
    MaxLate,  \* bound of the model on the requests nobody awaits
    None

Row == [user : Users, login : Tokens, status : {"active", "expired", "revoked"},
        replacedBy : Tokens \cup {None}]
Kinds == {"refresh", "enter", "logout"}
Sent == [kind : {"refresh", "logout"}, sent : Tokens]
Request == [sent : Tokens \cup {None}, step : {"asked"}]
Answer == [sent : Tokens \cup {None}, step : {"answered"}, ok : BOOLEAN,
           set : Tokens \cup {None}]

ASSUME SessionsAssumption ==
    /\ None \notin Tokens \cup Users \cup Row \cup Request \cup Answer
    /\ MaxLate \in Nat

VARIABLES
    users,     \* users, by e-mail
    sessions,  \* refresh_sessions, by token; whether it expired matters no
               \* more once it is revoked
    cookie,    \* ryden_refresh of the browser
    page,      \* by tab: booting, user set, or user null
    call,      \* by tab and kind, the request awaited
    late,      \* requests under way that nobody awaits
    stranded   \* history: the answer to a request with this cookie was lost

vars == <<users, sessions, cookie, page, call, late, stranded>>

Issued == {x \in Tokens : sessions[x] # None}
Fresh == Tokens \ Issued

------------------------------------------------------------------------------
Init ==
    /\ users = {}
    /\ sessions = [x \in Tokens |-> None]
    /\ cookie = None
    /\ page = [t \in Tabs |-> "booting"]
    /\ call = [t \in Tabs |-> [k \in Kinds |-> None]]
    /\ late = {} /\ stranded = FALSE

(* Plausible mistakes in the operators below; no action uses them.           *)
AnyRow(x) == x \in Issued
KeepsCurrent(S, x, next) == [S EXCEPT ![x].replacedBy = next]
ForgetsUser(S, x, u, login) ==
    [S EXCEPT ![x] = [user |-> None, login |-> login, status |-> "active", replacedBy |-> None]]
OnlyOnSuccess(a) == IF a.ok THEN a.set ELSE cookie
------------------------------------------------------------------------------
(* The statements.                                                           *)

Session(u, login) ==
    [user |-> u, login |-> login, status |-> "active", replacedBy |-> None]

(* login is history: the token with which the line of rotations began.       *)
CreateRefreshSession(S, x, u, login) == [S EXCEPT ![x] = Session(u, login)]

(* The row is there and is not revoked; a second rotation of one token waits *)
(* for the row and then finds it revoked.                                    *)
GetRefreshSessionForUpdate(x) == x \in Issued /\ sessions[x].status # "revoked"

(* No row is affected once the session has expired.                          *)
Expired(x) == sessions[x].status = "expired"

RotateRefreshSession(S, x, next) ==
    [S EXCEPT ![x].status = "revoked", ![x].replacedBy = next]

RevokeRefreshSession(x) ==
    IF x \in Issued THEN [sessions EXCEPT ![x].status = "revoked"]
    ELSE sessions

RotateSession(x, next) ==
    LET current == sessions[x]
    IN  RotateRefreshSession(CreateRefreshSession(sessions, next, current.user, current.login),
                             x, next)

Rotatable(x) ==
    x # None /\ GetRefreshSessionForUpdate(x) /\ ~Expired(x)

------------------------------------------------------------------------------
(* The pages.                                                                *)

Asks(t, k, token) ==
    /\ call[t][k] = None
    /\ call' = [call EXCEPT ![t][k] = [sent |-> token, step |-> "asked"]]
    /\ UNCHANGED <<users, sessions, cookie, page, late, stranded>>

(* bootstrap, and every request that is answered 401; refreshPromise is      *)
(* shared by all of them.  The browser attaches its cookie of the moment.    *)
AskRefresh(t) == page[t] # "out" /\ Asks(t, "refresh", cookie)

AskLogout(t) == page[t] = "in" /\ Asks(t, "logout", cookie)

------------------------------------------------------------------------------
(* The server.                                                               *)

Asked(t, k) == call[t][k] # None /\ call[t][k].step = "asked"

Reply(t, k, ok, token) ==
    call' = [call EXCEPT ![t][k] = [sent |-> @.sent, step |-> "answered",
                                    ok |-> ok, set |-> token]]

(* The form of a page without a user.  An entry that is refused (a wrong     *)
(* password, a taken e-mail or nickname) changes nothing anywhere.           *)
Enters(t, u, x) ==
    /\ page[t] = "out" /\ call[t]["enter"] = None
    /\ x \in Fresh
    /\ sessions' = CreateRefreshSession(sessions, x, u, x)
    /\ call' = [call EXCEPT ![t]["enter"] = [sent |-> None, step |-> "answered",
                                             ok |-> TRUE, set |-> x]]
    /\ UNCHANGED <<cookie, page, late, stranded>>

(* User and session in one transaction.                                      *)
Register(t, u, x) ==
    /\ u \notin users /\ users' = users \cup {u}
    /\ Enters(t, u, x)

Login(t, u, x) ==
    /\ u \in users /\ UNCHANGED users
    /\ Enters(t, u, x)

Refresh(t, next) ==
    /\ Asked(t, "refresh")
    /\ Rotatable(call[t]["refresh"].sent) /\ next \in Fresh
    /\ sessions' = RotateSession(call[t]["refresh"].sent, next)
    /\ Reply(t, "refresh", TRUE, next)
    /\ UNCHANGED <<users, cookie, page, late, stranded>>

(* Every error clears the cookie, that of a database included, which may     *)
(* have committed the rotation and failed to say so.                         *)
RefuseRefresh(t) ==
    /\ Asked(t, "refresh")
    /\ Reply(t, "refresh", FALSE, None)
    /\ \/ UNCHANGED sessions
       \/ /\ Rotatable(call[t]["refresh"].sent)
          /\ \E next \in Fresh : sessions' = RotateSession(call[t]["refresh"].sent, next)
    /\ UNCHANGED <<users, cookie, page, late, stranded>>

(* handleLogout answers 204 and clears the cookie, also when the database    *)
(* failed, which is only logged.                                             *)
Logout(t) ==
    /\ Asked(t, "logout")
    /\ sessions' \in {sessions, RevokeRefreshSession(call[t]["logout"].sent)}
    /\ Reply(t, "logout", TRUE, None)
    /\ UNCHANGED <<users, cookie, page, late, stranded>>

(* A request whose client is gone is handled all the same.                   *)
HandleLate(m) ==
    /\ late' = late \ {m}
    /\ \/ /\ m.kind = "refresh" /\ Rotatable(m.sent)
          /\ \E next \in Fresh : sessions' = RotateSession(m.sent, next)
       \/ /\ m.kind = "logout"
          /\ sessions' = RevokeRefreshSession(m.sent)
       \/ UNCHANGED sessions
    /\ stranded' = (stranded \/ (sessions' # sessions /\ m.sent = cookie))
    /\ UNCHANGED <<users, cookie, page, call>>

(* Time passes, which matters for a session that is not revoked; the browser *)
(* drops an expired cookie when its own clock says so.                       *)
Expire(x) ==
    /\ x \in Issued /\ sessions[x].status = "active"
    /\ sessions' = [sessions EXCEPT ![x].status = "expired"]
    /\ cookie' \in {cookie} \cup (IF cookie = x THEN {None} ELSE {})
    /\ stranded' = (stranded /\ cookie' = cookie)
    /\ UNCHANGED <<users, page, call, late>>

------------------------------------------------------------------------------
(* Answers.                                                                  *)

PageAfter(t, k, ok) ==
    CASE k = "refresh" -> IF page[t] = "booting" THEN IF ok THEN "in" ELSE "out" ELSE page[t]
      [] k = "enter" -> IF ok THEN "in" ELSE "out"
      [] k = "logout" -> "out"

(* setRefreshCookie or clearRefreshCookie.                                   *)
CookieAfter(a) == a.set

Deliver(t, k) ==
    /\ call[t][k] # None /\ call[t][k].step = "answered"
    /\ cookie' = CookieAfter(call[t][k])
    /\ page' = [page EXCEPT ![t] = PageAfter(t, k, call[t][k].ok)]
    /\ call' = [call EXCEPT ![t][k] = None]
    /\ stranded' = (stranded /\ cookie' = cookie)
    /\ UNCHANGED <<users, sessions, late>>

(* The answer is lost, or the request is given up and may yet be handled;    *)
(* without either the page goes on as after a refusal.                       *)
Lose(t, k) ==
    /\ call[t][k] # None
    /\ \/ /\ call[t][k].step = "answered"
          /\ stranded' = (stranded \/ (cookie # None /\ call[t][k].sent = cookie))
          /\ UNCHANGED late
       \/ /\ call[t][k].step = "asked"
          /\ late' = IF call[t][k].sent # None /\ Cardinality(late) < MaxLate
                     THEN late \cup {[kind |-> k, sent |-> call[t][k].sent]}
                     ELSE late
          /\ UNCHANGED stranded
    /\ page' = [page EXCEPT ![t] = PageAfter(t, k, FALSE)]
    /\ call' = [call EXCEPT ![t][k] = None]
    /\ UNCHANGED <<users, sessions, cookie>>

(* The page is loaded anew once nothing is under way.                        *)
Reload(t) ==
    /\ \A k \in Kinds : call[t][k] = None
    /\ page' = [page EXCEPT ![t] = "booting"]
    /\ UNCHANGED <<users, sessions, cookie, call, late, stranded>>

Next ==
    \/ \E t \in Tabs :
        \/ AskRefresh(t) \/ AskLogout(t)
        \/ \E u \in Users, x \in Tokens : Register(t, u, x) \/ Login(t, u, x)
        \/ \E x \in Tokens : Refresh(t, x)
        \/ RefuseRefresh(t) \/ Logout(t) \/ Reload(t)
        \/ \E k \in Kinds : Deliver(t, k) \/ Lose(t, k)
    \/ \E m \in late : HandleLate(m)
    \/ \E x \in Tokens : Expire(x)

Spec == Init /\ [][Next]_vars

------------------------------------------------------------------------------
(* Rows, requests and answers are of their types.                            *)
TypeOK ==
    /\ users \subseteq Users
    /\ sessions \in [Tokens -> Row \cup {None}]
    /\ cookie \in Tokens \cup {None}
    /\ page \in [Tabs -> {"booting", "in", "out"}]
    /\ call \in [Tabs -> [Kinds -> Request \cup Answer \cup {None}]]
    /\ late \subseteq Sent
    /\ stranded \in BOOLEAN

(* However refreshes of the same token race and repeat, the rotations that   *)
(* follow a login form one line: a token is replaced when it is revoked, by  *)
(* a session of the same login and account that replaces no other            *)
(* (RotateSession).                                                          *)
LinesAreChains ==
    \A x \in Issued :
        LET y == sessions[x].replacedBy IN
        y # None =>
            /\ sessions[x].status = "revoked"
            /\ y \in Issued /\ y # x
            /\ sessions[y].login = sessions[x].login
            /\ sessions[y].user = sessions[x].user
            /\ \A z \in Issued : sessions[z].replacedBy = y => z = x

(* A login never has two tokens that work: the loser of a race of refreshes  *)
(* gets none (RotateSession, RevokeSession).                                 *)
OneActivePerLogin ==
    \A x, y \in Issued :
        /\ sessions[x].login = sessions[y].login
        /\ sessions[x].status # "revoked" /\ sessions[y].status # "revoked"
        => x = y

(* When no request with it is awaited, the browser holds a token that is     *)
(* used up only if an answer was lost: neither two tabs that refresh at      *)
(* once, nor a logout beside a refresh, leave it with a dead cookie          *)
(* (handleRefresh clears it on every refusal).                               *)
DeadCookieMeansLoss ==
    \/ cookie = None
    \/ sessions[cookie].status # "revoked"
    \/ stranded
    \/ \E t \in Tabs, k \in Kinds : call[t][k] # None /\ call[t][k].sent = cookie
=============================================================================
