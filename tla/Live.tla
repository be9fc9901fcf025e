-------------------------------- MODULE Live ---------------------------------
(***************************************************************************)
(* internal/live and the handler of GET /meetings/{id}/events: one process  *)
(* tells the open event streams when the version of their meeting moves.    *)
(*                                                                          *)
(* The Manager keeps a group per meeting somebody watches, with the newest  *)
(* version it knows, and a channel of one slot per subscriber.  Its map is  *)
(* guarded by one mutex; a poll holds it to list the groups and to publish, *)
(* and not while the database answers.  A stream authorizes itself, with a  *)
(* read of the meeting, before it subscribes, and reports the version it    *)
(* read then, so commits, polls and other streams come in between.          *)
(***************************************************************************)
EXTENDS Naturals, FiniteSets

CONSTANTS
    Meetings,
    Conns,           \* requests of the events endpoint
    MaxMeetings,     \* Options.MaxMeetings
    MaxSubscribers,  \* Options.MaxSubscribersPerID
    MaxVersion       \* bound of the model on the version of a meeting

ASSUME LiveAssumption ==
    MaxMeetings \in Nat \ {0} /\ MaxSubscribers \in Nat \ {0} /\ MaxVersion \in Nat \ {0}

Nothing == 0         \* no version: they start at 1

VARIABLES
    db,      \* meetings.version
    group,   \* Manager.meetings: version of the group, Nothing without one
    conn,    \* progress of a request: idle, authorized, subscribed, streaming
    topic,   \* the meeting in the path of the request
    read,    \* result.Version of the authorizing read
    events,  \* Subscription.Events, a channel of one slot
    told,    \* the version last written to the stream
    joined,  \* version of the group when the stream joined it (history)
    poll     \* the poll under way: its step, the groups listed, their versions

streamVars == <<conn, topic, read, events, told, joined>>
vars == <<db, group, streamVars, poll>>

Versions == 1..MaxVersion
Slot == Versions \cup {Nothing}
Idle == [step |-> "idle", ids |-> {}, found |-> [m \in Meetings |-> Nothing]]

Watched == {m \in Meetings : group[m] # Nothing}
Listening(c) == conn[c] \in {"subscribed", "streaming"}
Subscribers(m) == {c \in Conns : Listening(c) /\ topic[c] = m}

(* Plausible mistakes in the operators below; no action uses them.           *)
KeepFirst(m, version, old) ==
    [c \in Conns |-> IF c \in Subscribers(m) /\ old[c] = Nothing THEN version ELSE old[c]]
Different(m, version) == version # group[m]
ForgetLeaver(c) == UNCHANGED group

------------------------------------------------------------------------------
Init ==
    /\ db = [m \in Meetings |-> 1]
    /\ group = [m \in Meetings |-> Nothing]
    /\ conn = [c \in Conns |-> "idle"]
    /\ topic \in [Conns -> Meetings]
    /\ read = [c \in Conns |-> Nothing] /\ events = read /\ told = read /\ joined = read
    /\ poll = Idle

(* A request elsewhere commits a change of the meeting.                      *)
Commit(m) ==
    /\ db[m] < MaxVersion
    /\ db' = [db EXCEPT ![m] = @ + 1]
    /\ UNCHANGED <<group, streamVars, poll>>

(* meetings.Get: the caller takes part, and this is the version.             *)
Authorize(c) ==
    /\ conn[c] = "idle"
    /\ conn' = [conn EXCEPT ![c] = "authorized"]
    /\ read' = [read EXCEPT ![c] = db[topic[c]]]
    /\ UNCHANGED <<db, group, topic, events, told, joined, poll>>

(* publishLatest for every subscriber of m: the slot ends with the newest.   *)
Published(m, version, old) ==
    [c \in Conns |-> IF c \in Subscribers(m) THEN version ELSE old[c]]

Newer(m, version) == version > group[m]

Full(m) == Cardinality(Subscribers(m)) >= MaxSubscribers

(* The handler returns: what it held is gone.                                *)
Ends(S, value) == [c \in Conns |-> IF c \in S THEN Nothing ELSE value[c]]
Return(S) ==
    /\ conn' = [c \in Conns |-> IF c \in S THEN "idle" ELSE conn[c]]
    /\ read' = Ends(S, read) /\ told' = Ends(S, told) /\ joined' = Ends(S, joined)

(* A new group takes the version of its first subscriber; a newer version is *)
(* published to the others even when the group turns out to be full.         *)
Join(c, m) ==
    /\ group[m] # Nothing \/ Cardinality(Watched) < MaxMeetings
    /\ group' = [group EXCEPT ![m] = IF Newer(m, read[c]) THEN read[c] ELSE @]
    /\ events' = IF Newer(m, read[c]) THEN Published(m, read[c], events) ELSE events
    /\ IF Full(m)
       THEN Return({c})
       ELSE /\ conn' = [conn EXCEPT ![c] = "subscribed"]
            /\ joined' = [joined EXCEPT ![c] = group'[m]]
            /\ UNCHANGED <<read, told>>

RefuseGroup(c, m) ==
    /\ group[m] = Nothing /\ Cardinality(Watched) >= MaxMeetings
    /\ Return({c})
    /\ UNCHANGED <<group, events>>

Subscribe(c) ==
    /\ conn[c] = "authorized"
    /\ Join(c, topic[c]) \/ RefuseGroup(c, topic[c])
    /\ UNCHANGED <<db, topic, poll>>

(* The first event of the stream, with the version of the authorizing read.  *)
Ready(c) ==
    /\ conn[c] = "subscribed"
    /\ conn' = [conn EXCEPT ![c] = "streaming"]
    /\ told' = [told EXCEPT ![c] = read[c]]
    /\ UNCHANGED <<db, group, topic, read, events, joined, poll>>

Deliver(c) ==
    /\ conn[c] = "streaming" /\ events[c] # Nothing
    /\ told' = [told EXCEPT ![c] = events[c]]
    /\ events' = [events EXCEPT ![c] = Nothing]
    /\ UNCHANGED <<db, group, conn, topic, read, joined, poll>>

(* unsubscribe; the last one to leave takes the group away.                  *)
Leave(c) ==
    group' = IF Subscribers(topic[c]) = {c}
             THEN [group EXCEPT ![topic[c]] = Nothing] ELSE group

(* The client goes away, a write fails or the server closes the stream.      *)
Disconnect(c) ==
    /\ conn[c] # "idle"
    /\ IF Listening(c) THEN Leave(c) ELSE UNCHANGED group
    /\ Return({c})
    /\ events' = Ends({c}, events)
    /\ UNCHANGED <<db, topic, poll>>

------------------------------------------------------------------------------
(* Manager.poll in its three steps: snapshotMeetingIDs, Versions without the *)
(* mutex, and publication.                                                   *)
PollStart ==
    /\ poll.step = "idle" /\ Watched # {}
    /\ poll' = [Idle EXCEPT !.step = "asked", !.ids = Watched]
    /\ UNCHANGED <<db, group, streamVars>>

PollAnswer ==
    /\ poll.step = "asked"
    /\ poll' = [poll EXCEPT !.step = "answered",
                            !.found = [m \in Meetings |->
                                         IF m \in poll.ids THEN db[m] ELSE Nothing]]
    /\ UNCHANGED <<db, group, streamVars>>

PollFail ==
    /\ poll.step = "asked"
    /\ poll' = Idle
    /\ UNCHANGED <<db, group, streamVars>>

(* Groups that went away meanwhile, or know better, are left alone.          *)
PollPublish ==
    /\ poll.step = "answered"
    /\ LET news == {m \in poll.ids \cap Watched : Newer(m, poll.found[m])}
       IN /\ group' = [m \in Meetings |-> IF m \in news THEN poll.found[m] ELSE group[m]]
          /\ events' = [c \in Conns |->
                          IF topic[c] \in news
                          THEN Published(topic[c], poll.found[topic[c]], events)[c]
                          ELSE events[c]]
    /\ poll' = Idle
    /\ UNCHANGED <<db, conn, topic, read, told, joined>>

(* The process dies and another starts: streams and groups are memory only.  *)
Restart ==
    /\ group' = [m \in Meetings |-> Nothing]
    /\ Return(Conns)
    /\ events' = Ends(Conns, events)
    /\ poll' = Idle
    /\ UNCHANGED <<db, topic>>

Next ==
    \/ \E m \in Meetings : Commit(m)
    \/ \E c \in Conns : Authorize(c) \/ Subscribe(c)
    \/ \E c \in Conns : Ready(c) \/ Deliver(c) \/ Disconnect(c)
    \/ PollStart \/ PollAnswer \/ PollFail \/ PollPublish
    \/ Restart

(* The ticker keeps polling, the handler goroutine keeps running while its   *)
(* stream is open, and not every poll fails for ever.                        *)
Fairness ==
    /\ \A c \in Conns : WF_vars(Ready(c)) /\ WF_vars(Deliver(c))
    /\ WF_vars(PollStart) /\ SF_vars(PollAnswer) /\ WF_vars(PollPublish)

Spec == Init /\ [][Next]_vars
FairSpec == Spec /\ Fairness

------------------------------------------------------------------------------
TypeOK ==
    /\ db \in [Meetings -> Versions] /\ group \in [Meetings -> Slot]
    /\ conn \in [Conns -> {"idle", "authorized", "subscribed", "streaming"}]
    /\ topic \in [Conns -> Meetings]
    /\ read \in [Conns -> Slot] /\ events \in [Conns -> Slot]
    /\ told \in [Conns -> Slot] /\ joined \in [Conns -> Slot]
    /\ poll \in [step : {"idle", "asked", "answered"}, ids : SUBSET Meetings,
                 found : [Meetings -> Slot]]

(* The table holds the groups somebody listens to and no other, within the   *)
(* two limits: an abandoned or refused stream gives its capacity back.       *)
TableExact ==
    /\ \A m \in Meetings : m \in Watched <=> Subscribers(m) # {}
    /\ Cardinality(Watched) <= MaxMeetings
    /\ \A m \in Meetings : Cardinality(Subscribers(m)) <= MaxSubscribers

(* No stream and no group is ahead of the database, even when a poll answers *)
(* about a group that was dropped and made anew meanwhile; what is queued is *)
(* the newest version the Manager knows; and a stream with nothing queued    *)
(* has been told that version, unless it is the one the group had when the   *)
(* stream joined it: with one slot per subscriber a publication may be       *)
(* merged, never lost.                                                       *)
NothingDropped ==
    /\ \A m \in Meetings : group[m] <= db[m]
    /\ \A c \in Conns : Listening(c) =>
         told[c] <= group[topic[c]] /\ events[c] \in {Nothing, group[topic[c]]}
    /\ \A c \in Conns : conn[c] = "streaming" /\ events[c] = Nothing =>
         group[topic[c]] \in {told[c], joined[c]}

(* What a stream is told only grows.                                         *)
Increasing(c) ==
    conn[c] = "streaming" /\ conn'[c] = "streaming" /\ told'[c] # told[c] =>
        told'[c] > told[c]
ToldIncreases == [][\A c \in Conns : Increasing(c)]_vars

(* A version committed beyond what the Manager knows reaches every stream    *)
(* that stays open.                                                          *)
NewsArrives ==
    \A c \in Conns, v \in Versions :
        (conn[c] = "streaming" /\ group[topic[c]] < v /\ v <= db[topic[c]])
            ~> (told[c] >= v \/ conn[c] # "streaming")

(* openapi.yaml of the events endpoint: "`ready` reports the version         *)
(* authorized for the connection and `meeting.updated` reports a newer       *)
(* version": a stream that stays open is told of every version the meeting   *)
(* has reached.                                                              *)
ReportsNewerVersion ==
    \A c \in Conns, v \in Versions :
        (conn[c] = "streaming" /\ v <= db[topic[c]])
            ~> (told[c] >= v \/ conn[c] # "streaming")
==============================================================================
