------------------------------ MODULE LiveProofs ------------------------------
(***************************************************************************)
(* What the live manager keeps for every number of meetings, streams and    *)
(* every limit: nothing told is lost, ahead of the database, or older than   *)
(* what was told before; and what the pages on top of it keep (LiveTabs).    *)
(***************************************************************************)
EXTENDS LiveTabs, FiniteSetTheorems, TLAPS

(* Nothing the process remembers is ahead of the database.                   *)
NotAhead ==
    /\ \A m \in Meetings : group[m] <= db[m] /\ poll.found[m] <= db[m]
    /\ \A c \in Conns : read[c] <= db[topic[c]]

(* Groups are exactly the meetings somebody listens to.                      *)
GroupsExact == \A m \in Meetings : group[m] # Nothing <=> Subscribers(m) # {}

(* One stream beside its group.  What the stream was not told is queued, or  *)
(* was already known to the group it joined.                                 *)
StreamSound(c) ==
    /\ conn[c] # "idle" => read[c] # Nothing
    /\ ~Listening(c) => events[c] = Nothing /\ told[c] = Nothing
    /\ Listening(c) =>
         /\ read[c] <= group[topic[c]] /\ told[c] <= group[topic[c]]
         /\ events[c] \in {Nothing, group[topic[c]]}
    /\ conn[c] = "subscribed" /\ events[c] = Nothing => group[topic[c]] = joined[c]
    /\ conn[c] = "streaming" /\ events[c] = Nothing => group[topic[c]] \in {told[c], joined[c]}

StreamsSound == \A c \in Conns : StreamSound(c)

IInv == TypeOK /\ NotAhead /\ GroupsExact /\ StreamsSound

USE LiveAssumption DEF Nothing

------------------------------------------------------------------------------
LEMMA InitHolds == Init => IInv
  <1> SUFFICES ASSUME Init PROVE IInv
    OBVIOUS
  <1>1. TypeOK
    BY DEF Init, TypeOK, Versions, Slot, Idle
  <1>2. NotAhead
    BY DEF Init, NotAhead, Idle
  <1>3. GroupsExact
    BY DEF Init, GroupsExact, Subscribers, Listening
  <1>4. StreamsSound
    BY DEF Init, StreamsSound, StreamSound, Listening
  <1>5. QED
    BY <1>1, <1>2, <1>3, <1>4 DEF IInv

(* Versions are numbers.                                                     *)
LEMMA Numbers ==
  ASSUME TypeOK
  PROVE  /\ \A m \in Meetings : db[m] \in Nat /\ db[m] >= 1 /\ group[m] \in Nat /\ poll.found[m] \in Nat
         /\ \A c \in Conns : /\ topic[c] \in Meetings
                             /\ read[c] \in Nat /\ told[c] \in Nat
                             /\ events[c] \in Nat /\ joined[c] \in Nat
  BY DEF TypeOK, Versions, Slot

------------------------------------------------------------------------------
(* The steps, one lemma each.                                                *)

LEMMA CommitKeeps ==
  ASSUME IInv, NEW m \in Meetings, Commit(m)
  PROVE  IInv'
  <1>1. TypeOK'
    BY DEF IInv, TypeOK, Commit, streamVars, Versions
  <1>2. NotAhead'
    BY Numbers DEF IInv, TypeOK, NotAhead, Commit, streamVars
  <1>3. GroupsExact' /\ StreamsSound'
    BY DEF IInv, GroupsExact, StreamsSound, StreamSound, Subscribers, Listening, Commit, streamVars
  <1>4. QED
    BY <1>1, <1>2, <1>3 DEF IInv

LEMMA AuthorizeKeeps ==
  ASSUME IInv, NEW c \in Conns, Authorize(c)
  PROVE  IInv'
  <1>1. TypeOK'
    BY DEF IInv, TypeOK, Authorize, Slot
  <1>2. NotAhead'
    BY Numbers DEF IInv, TypeOK, NotAhead, Authorize
  <1>3. \A d \in Conns : Listening(d)' <=> Listening(d)
    BY DEF IInv, TypeOK, Authorize, Listening
  <1>4. GroupsExact'
    BY <1>3 DEF IInv, GroupsExact, Subscribers, Authorize
  <1>5. StreamsSound'
    BY <1>3, Numbers DEF IInv, TypeOK, StreamsSound, StreamSound, Listening, Authorize
  <1>6. QED
    BY <1>1, <1>2, <1>4, <1>5 DEF IInv

LEMMA ReadyKeeps ==
  ASSUME IInv, NEW c \in Conns, Ready(c)
  PROVE  IInv'
  <1>1. TypeOK'
    BY DEF IInv, TypeOK, Ready
  <1>2. NotAhead'
    BY DEF IInv, NotAhead, Ready
  <1>3. \A d \in Conns : Listening(d)' <=> Listening(d)
    BY DEF IInv, TypeOK, Ready, Listening
  <1>4. GroupsExact'
    BY <1>3 DEF IInv, GroupsExact, Subscribers, Ready
  <1>5. StreamsSound'
    BY <1>3, Numbers DEF IInv, TypeOK, StreamsSound, StreamSound, Listening, Ready
  <1>6. QED
    BY <1>1, <1>2, <1>4, <1>5 DEF IInv

LEMMA DeliverKeeps ==
  ASSUME IInv, NEW c \in Conns, Deliver(c)
  PROVE  IInv'
  <1>1. TypeOK'
    BY DEF IInv, TypeOK, Deliver, Slot
  <1>2. NotAhead'
    BY DEF IInv, NotAhead, Deliver
  <1>3. \A d \in Conns : Listening(d)' <=> Listening(d)
    BY DEF Deliver, Listening
  <1>4. GroupsExact'
    BY <1>3 DEF IInv, GroupsExact, Subscribers, Deliver
  <1>5. StreamsSound'
    BY <1>3, Numbers DEF IInv, TypeOK, StreamsSound, StreamSound, Listening, Deliver
  <1>6. QED
    BY <1>1, <1>2, <1>4, <1>5 DEF IInv

(* Streams that return.                                                      *)
LEMMA Returned ==
  ASSUME TypeOK, NEW S \in SUBSET Conns, Return(S)
  PROVE  /\ conn' \in [Conns -> {"idle", "authorized", "subscribed", "streaming"}]
         /\ read' \in [Conns -> Slot] /\ told' \in [Conns -> Slot] /\ joined' \in [Conns -> Slot]
         /\ \A d \in S : conn'[d] = "idle" /\ read'[d] = Nothing /\ told'[d] = Nothing
         /\ \A d \in Conns \ S : /\ conn'[d] = conn[d] /\ read'[d] = read[d]
                                 /\ told'[d] = told[d] /\ joined'[d] = joined[d]
  BY DEF TypeOK, Return, Ends, Slot

LEMMA DisconnectKeeps ==
  ASSUME IInv, NEW c \in Conns, Disconnect(c)
  PROVE  IInv'
  <1>1. TypeOK /\ UNCHANGED <<db, topic, poll>>
    BY DEF IInv, Disconnect
  <1>2. /\ conn'[c] = "idle" /\ read'[c] = Nothing /\ told'[c] = Nothing /\ events'[c] = Nothing
        /\ \A d \in Conns \ {c} : /\ conn'[d] = conn[d] /\ read'[d] = read[d] /\ events'[d] = events[d]
                                  /\ told'[d] = told[d] /\ joined'[d] = joined[d]
    BY <1>1, Returned DEF Disconnect, Ends
  <1>3. \A m \in Meetings : Subscribers(m)' = Subscribers(m) \ {c}
    BY <1>1, <1>2 DEF Subscribers, Listening
  <1>4. \A m \in Meetings : group'[m] = IF Subscribers(m) = {c} THEN Nothing ELSE group[m]
    <2>1. \A m \in Meetings : Subscribers(m) = {c} => m = topic[c] /\ Listening(c)
      BY DEF Subscribers
    <2>2. QED
      BY <1>1, <2>1, Numbers DEF Disconnect, Leave, TypeOK
  <1>5. TypeOK'
    <2>1. group' \in [Meetings -> Slot]
      BY <1>1 DEF Disconnect, Leave, TypeOK, Slot
    <2>2. events' \in [Conns -> Slot]
      BY <1>1 DEF Disconnect, Ends, TypeOK, Slot
    <2>3. /\ conn' \in [Conns -> {"idle", "authorized", "subscribed", "streaming"}]
          /\ read' \in [Conns -> Slot] /\ told' \in [Conns -> Slot] /\ joined' \in [Conns -> Slot]
      BY <1>1, Returned DEF Disconnect
    <2>4. QED
      BY <1>1, <2>1, <2>2, <2>3 DEF TypeOK
  <1>6. NotAhead'
    BY <1>1, <1>2, <1>4, Numbers DEF IInv, NotAhead
  <1>7. GroupsExact'
    <2> SUFFICES ASSUME NEW m \in Meetings
                 PROVE  group'[m] # Nothing <=> Subscribers(m)' # {}
      BY DEF GroupsExact
    <2>1. group[m] # Nothing <=> Subscribers(m) # {}
      BY DEF IInv, GroupsExact
    <2>2. Subscribers(m) \ {c} # {} <=> Subscribers(m) # {} /\ Subscribers(m) # {c}
      OBVIOUS
    <2>3. QED
      BY <2>1, <2>2, <1>3, <1>4
  <1>8. StreamsSound'
    <2> SUFFICES ASSUME NEW d \in Conns PROVE StreamSound(d)'
      BY DEF StreamsSound
    <2>1. CASE d = c
      BY <2>1, <1>2 DEF StreamSound, Listening
    <2>2. CASE d # c
      <3>1. Listening(d) => d \in Subscribers(topic[d])
        BY DEF Subscribers
      <3>2. Listening(d) => group'[topic[d]] = group[topic[d]]
        BY <2>2, <3>1, <1>1, <1>4, Numbers
      <3>3. QED
        BY <2>2, <3>2, <1>1, <1>2 DEF IInv, StreamsSound, StreamSound, Listening
    <2>3. QED
      BY <2>1, <2>2
  <1>9. QED
    BY <1>5, <1>6, <1>7, <1>8 DEF IInv

LEMMA RestartKeeps ==
  ASSUME IInv, Restart
  PROVE  IInv'
  <1>1. TypeOK /\ UNCHANGED <<db, topic>> /\ poll' = Idle
    BY DEF IInv, Restart
  <1>2. /\ \A d \in Conns : /\ conn'[d] = "idle" /\ read'[d] = Nothing /\ told'[d] = Nothing
                            /\ events'[d] = Nothing
        /\ \A m \in Meetings : group'[m] = Nothing
    BY <1>1, Returned DEF Restart, Ends
  <1>3. TypeOK'
    <2>1. group' \in [Meetings -> Slot] /\ events' \in [Conns -> Slot]
      BY DEF Restart, Ends, Slot
    <2>2. Idle \in [step : {"idle", "asked", "answered"}, ids : SUBSET Meetings, found : [Meetings -> Slot]]
      BY DEF Idle, Slot
    <2>3. QED
      BY <1>1, <2>1, <2>2, Returned DEF Restart, TypeOK
  <1>4. NotAhead'
    BY <1>1, <1>2, Numbers DEF NotAhead, Idle
  <1>5. GroupsExact' /\ StreamsSound'
    BY <1>2 DEF GroupsExact, StreamsSound, StreamSound, Subscribers, Listening
  <1>6. QED
    BY <1>3, <1>4, <1>5 DEF IInv

(* A stream joins the group of its meeting, is turned away by a full one, or *)
(* finds no room for a group.                                                *)
LEMMA SubscribeKeeps ==
  ASSUME IInv, NEW c \in Conns, Subscribe(c)
  PROVE  IInv'
  <1> DEFINE m == topic[c]
             newest == IF read[c] > group[m] THEN read[c] ELSE group[m]
  <1>1. /\ TypeOK /\ m \in Meetings /\ conn[c] = "authorized" /\ ~Listening(c)
        /\ UNCHANGED <<db, topic, poll>>
        /\ read[c] \in Nat \ {Nothing} /\ read[c] <= db[m] /\ group[m] \in Nat
        /\ events[c] = Nothing /\ told[c] = Nothing
    BY Numbers DEF IInv, NotAhead, StreamsSound, StreamSound, Subscribe, Listening
  <1>2. CASE RefuseGroup(c, m)
    <2>1. /\ conn'[c] = "idle" /\ read'[c] = Nothing /\ told'[c] = Nothing
          /\ \A d \in Conns \ {c} : /\ conn'[d] = conn[d] /\ read'[d] = read[d]
                                    /\ told'[d] = told[d] /\ joined'[d] = joined[d]
          /\ UNCHANGED <<group, events>>
      BY <1>1, <1>2, Returned DEF RefuseGroup
    <2>2. TypeOK'
      <3>1. /\ conn' \in [Conns -> {"idle", "authorized", "subscribed", "streaming"}]
            /\ read' \in [Conns -> Slot] /\ told' \in [Conns -> Slot] /\ joined' \in [Conns -> Slot]
        BY <1>1, <1>2, Returned DEF RefuseGroup
      <3>2. QED
        BY <1>1, <2>1, <3>1 DEF TypeOK
    <2>3. NotAhead'
      BY <1>1, <2>1, Numbers DEF IInv, NotAhead
    <2>4. \A d \in Conns : Listening(d)' <=> Listening(d)
      BY <1>1, <2>1 DEF Listening
    <2>5. GroupsExact'
      BY <1>1, <2>1, <2>4 DEF IInv, GroupsExact, Subscribers
    <2>6. StreamsSound'
      BY <1>1, <2>1, <2>4 DEF IInv, StreamsSound, StreamSound, Listening
    <2>7. QED
      BY <2>2, <2>3, <2>5, <2>6 DEF IInv
  <1>3. CASE Join(c, m)
    <2>1. /\ group' = [group EXCEPT ![m] = newest]
          /\ newest \in Slot /\ newest # Nothing /\ newest <= db[m] /\ newest >= group[m]
          /\ newest >= read[c]
      BY <1>1, <1>3, Numbers DEF Join, Newer, TypeOK, IInv, NotAhead
    <2> HIDE DEF newest
    <2>2. /\ group'[m] = newest /\ group' \in [Meetings -> Slot]
          /\ \A n \in Meetings \ {m} : group'[n] = group[n]
      BY <1>1, <2>1 DEF TypeOK
    <2>3. /\ events' \in [Conns -> Slot]
          /\ \A d \in Conns : events'[d] =
               IF d \in Subscribers(m) /\ read[c] > group[m] THEN read[c] ELSE events[d]
      BY <1>1, <1>3 DEF Join, Newer, Published, TypeOK
    <2>4. read[c] > group[m] => newest = read[c]
      BY DEF newest
    <2>5. ~(read[c] > group[m]) => newest = group[m]
      BY DEF newest
    <2>6. c \notin Subscribers(m)
      BY <1>1 DEF Subscribers
    <2>7. ASSUME NEW d \in Conns, d # c,
                 conn'[d] = conn[d], read'[d] = read[d], told'[d] = told[d], joined'[d] = joined[d]
          PROVE  StreamSound(d)'
      <3>1. StreamSound(d) /\ topic'[d] = topic[d] /\ topic[d] \in Meetings
        BY <1>1, Numbers DEF IInv, StreamsSound
      <3>2. Listening(d)' <=> Listening(d)
        BY <2>7 DEF Listening
      <3>3. CASE topic[d] # m \/ ~Listening(d)
        <4>1. events'[d] = events[d]
          BY <2>3, <3>3 DEF Subscribers
        <4>2. QED
          BY <2>7, <3>1, <3>2, <3>3, <4>1, <2>2 DEF StreamSound, Listening
      <3>4. CASE topic[d] = m /\ Listening(d)
        <4>1. d \in Subscribers(m)
          BY <3>4 DEF Subscribers
        <4>2. CASE read[c] > group[m]
          <5>1. events'[d] = newest /\ group'[topic'[d]] = newest
            BY <4>1, <4>2, <2>2, <2>3, <2>4, <3>1, <3>4
          <5>2. read[d] <= newest /\ told[d] <= newest
            BY <2>1, <3>1, <3>4, <1>1, Numbers DEF StreamSound, Slot, Versions
          <5>3. QED
            BY <2>1, <2>7, <3>1, <3>2, <3>4, <5>1, <5>2 DEF StreamSound, Listening
        <4>3. CASE ~(read[c] > group[m])
          <5>1. events'[d] = events[d] /\ group'[topic'[d]] = group[topic[d]]
            BY <4>3, <2>2, <2>3, <2>5, <3>1, <3>4
          <5>2. QED
            BY <2>7, <3>1, <3>2, <5>1 DEF StreamSound, Listening
        <4>4. QED
          BY <4>2, <4>3
      <3>5. QED
        BY <3>3, <3>4
    <2>8. CASE Full(m)
      <3>1. /\ conn'[c] = "idle" /\ read'[c] = Nothing /\ told'[c] = Nothing
            /\ \A d \in Conns \ {c} : /\ conn'[d] = conn[d] /\ read'[d] = read[d]
                                      /\ told'[d] = told[d] /\ joined'[d] = joined[d]
        BY <1>1, <1>3, <2>8, Returned DEF Join
      <3>2. group[m] # Nothing
        <4>1. Subscribers(m) # {}
          BY <2>8, FS_EmptySet DEF Full
        <4>2. QED
          BY <1>1, <4>1 DEF IInv, GroupsExact
      <3>3. TypeOK'
        <4>1. /\ conn' \in [Conns -> {"idle", "authorized", "subscribed", "streaming"}]
              /\ read' \in [Conns -> Slot] /\ told' \in [Conns -> Slot] /\ joined' \in [Conns -> Slot]
          BY <1>1, <1>3, <2>8, Returned DEF Join
        <4>2. QED
          BY <1>1, <2>2, <2>3, <4>1 DEF TypeOK
      <3>4. NotAhead'
        BY <1>1, <2>1, <2>2, <3>1, Numbers DEF IInv, NotAhead
      <3>5. GroupsExact'
        <4>1. \A d \in Conns : Listening(d)' <=> Listening(d)
          BY <1>1, <3>1 DEF Listening
        <4>2. QED
          BY <1>1, <2>1, <2>2, <3>2, <4>1 DEF IInv, GroupsExact, Subscribers
      <3>6. StreamSound(c)'
        BY <1>1, <2>3, <2>6, <3>1 DEF StreamSound, Listening
      <3>7. StreamsSound'
        BY <2>7, <3>1, <3>6 DEF StreamsSound
      <3>8. QED
        BY <3>3, <3>4, <3>5, <3>7 DEF IInv
    <2>9. CASE ~Full(m)
      <3>1. /\ conn' = [conn EXCEPT ![c] = "subscribed"]
            /\ joined' = [joined EXCEPT ![c] = newest]
            /\ UNCHANGED <<read, told>>
        BY <1>3, <2>2, <2>9 DEF Join
      <3>2. /\ conn'[c] = "subscribed" /\ joined'[c] = newest
            /\ \A d \in Conns \ {c} : conn'[d] = conn[d] /\ joined'[d] = joined[d]
        BY <1>1, <3>1 DEF TypeOK
      <3>3. TypeOK'
        BY <1>1, <2>1, <2>2, <2>3, <3>1 DEF TypeOK
      <3>4. NotAhead'
        BY <1>1, <2>1, <2>2, <3>1, Numbers DEF IInv, NotAhead
      <3>5. GroupsExact'
        <4>1. \A d \in Conns : Listening(d)' <=> Listening(d) \/ d = c
          BY <1>1, <3>2 DEF Listening
        <4>2. \A n \in Meetings : Subscribers(n)' = IF n = m THEN Subscribers(n) \cup {c} ELSE Subscribers(n)
          BY <1>1, <4>1 DEF Subscribers
        <4>3. QED
          BY <1>1, <2>1, <2>2, <4>2 DEF IInv, GroupsExact
      <3>6. StreamSound(c)'
        <4>1. events'[c] = Nothing /\ group'[topic'[c]] = newest /\ read'[c] = read[c] /\ told'[c] = told[c]
          BY <1>1, <2>2, <2>3, <2>6, <3>1
        <4>2. QED
          BY <1>1, <2>1, <3>2, <4>1 DEF StreamSound, Listening, Slot, Versions
      <3>7. StreamsSound'
        BY <2>7, <3>1, <3>2, <3>6 DEF StreamsSound
      <3>8. QED
        BY <3>3, <3>4, <3>5, <3>7 DEF IInv
    <2>10. QED
      BY <2>8, <2>9
  <1>4. QED
    BY <1>2, <1>3 DEF Subscribe

(* The poll moves without touching groups or streams.                        *)
LEMMA PollMoves ==
  ASSUME IInv, PollStart \/ PollAnswer \/ PollFail
  PROVE  IInv'
  <1>1. UNCHANGED <<db, group, streamVars>> /\ TypeOK
    BY DEF IInv, PollStart, PollAnswer, PollFail
  <1>2. /\ poll' \in [step : {"idle", "asked", "answered"}, ids : SUBSET Meetings,
                      found : [Meetings -> Slot]]
        /\ \A m \in Meetings : poll'.found[m] \in {Nothing, db[m]}
    <2>1. CASE PollStart
      BY <2>1 DEF PollStart, Idle, Watched, Slot
    <2>2. CASE PollAnswer
      BY <2>2, <1>1 DEF PollAnswer, TypeOK, Slot
    <2>3. CASE PollFail
      BY <2>3 DEF PollFail, Idle, Slot
    <2>4. QED
      BY <2>1, <2>2, <2>3
  <1>3. TypeOK'
    BY <1>1, <1>2 DEF TypeOK, streamVars
  <1>4. NotAhead'
    BY <1>1, <1>2, Numbers DEF IInv, NotAhead, streamVars
  <1>5. GroupsExact' /\ StreamsSound'
    BY <1>1 DEF IInv, GroupsExact, StreamsSound, StreamSound, Subscribers, Listening, streamVars
  <1>6. QED
    BY <1>3, <1>4, <1>5 DEF IInv

LEMMA PollPublishKeeps ==
  ASSUME IInv, PollPublish
  PROVE  IInv'
  <1> DEFINE news == {m \in poll.ids \cap Watched : Newer(m, poll.found[m])}
  <1>1. /\ TypeOK /\ UNCHANGED <<db, conn, topic, read, told, joined>> /\ poll' = Idle
        /\ group' = [m \in Meetings |-> IF m \in news THEN poll.found[m] ELSE group[m]]
        /\ events' = [c \in Conns |-> IF topic[c] \in news
                                      THEN Published(topic[c], poll.found[topic[c]], events)[c]
                                      ELSE events[c]]
    BY DEF IInv, PollPublish
  <1>2. \A m \in news : /\ m \in Meetings /\ group[m] # Nothing /\ poll.found[m] > group[m]
                        /\ poll.found[m] \in Slot
    BY <1>1 DEF Watched, Newer, TypeOK
  <1> HIDE DEF news
  <1>3. \A m \in Meetings : /\ group'[m] \in Slot /\ group'[m] <= db[m] /\ group'[m] >= group[m]
                            /\ group'[m] = Nothing <=> group[m] = Nothing
                            /\ m \notin news => group'[m] = group[m]
    BY <1>1, <1>2, Numbers DEF IInv, NotAhead, TypeOK
  <1>4. \A c \in Conns : /\ events'[c] \in Slot
                         /\ events'[c] = IF topic[c] \in news /\ Listening(c) THEN group'[topic[c]]
                                         ELSE events[c]
    <2> SUFFICES ASSUME NEW c \in Conns
                 PROVE  /\ events'[c] \in Slot
                        /\ events'[c] = IF topic[c] \in news /\ Listening(c) THEN group'[topic[c]]
                                        ELSE events[c]
      OBVIOUS
    <2>1. topic[c] \in Meetings /\ events[c] \in Slot
      BY <1>1 DEF TypeOK
    <2>2. c \in Subscribers(topic[c]) <=> Listening(c)
      BY DEF Subscribers
    <2>3. QED
      BY <2>1, <2>2, <1>1, <1>2 DEF Published
  <1>5. TypeOK'
    <2>1. Idle \in [step : {"idle", "asked", "answered"}, ids : SUBSET Meetings, found : [Meetings -> Slot]]
      BY DEF Idle, Slot
    <2>2. group' \in [Meetings -> Slot] /\ events' \in [Conns -> Slot]
      BY <1>1, <1>3, <1>4
    <2>3. QED
      BY <1>1, <2>1, <2>2 DEF TypeOK
  <1>6. NotAhead'
    BY <1>1, <1>3, Numbers DEF IInv, NotAhead, Idle
  <1>7. \A c \in Conns : Listening(c)' <=> Listening(c)
    BY <1>1 DEF Listening
  <1>8. GroupsExact'
    BY <1>1, <1>3, <1>7 DEF IInv, GroupsExact, Subscribers
  <1>9. StreamsSound'
    <2> SUFFICES ASSUME NEW c \in Conns PROVE StreamSound(c)'
      BY DEF StreamsSound
    <2>1. StreamSound(c) /\ topic[c] \in Meetings
      BY Numbers DEF IInv, StreamsSound
    <2>2. Listening(c) => read[c] <= group'[topic[c]] /\ told[c] <= group'[topic[c]]
      BY <1>1, <1>3, <2>1, Numbers DEF StreamSound, Slot, Versions
    <2>3. CASE topic[c] \in news /\ Listening(c)
      <3>1. events'[c] = group'[topic[c]] /\ group'[topic[c]] # Nothing
        BY <1>2, <1>3, <1>4, <2>1, <2>3
      <3>2. QED
        BY <1>1, <1>7, <2>1, <2>2, <2>3, <3>1 DEF StreamSound, Listening
    <2>4. CASE ~(topic[c] \in news /\ Listening(c))
      <3>1. events'[c] = events[c] /\ (Listening(c) => group'[topic[c]] = group[topic[c]])
        BY <1>3, <1>4, <2>1, <2>4
      <3>2. QED
        BY <1>1, <1>7, <2>1, <2>4, <3>1 DEF StreamSound, Listening
    <2>5. QED
      BY <2>3, <2>4
  <1>10. QED
    BY <1>5, <1>6, <1>8, <1>9 DEF IInv

LEMMA StepHolds ==
  ASSUME IInv, [Next]_vars
  PROVE  IInv'
  <1>1. CASE UNCHANGED vars
    BY <1>1 DEF vars, streamVars, IInv, TypeOK, NotAhead, GroupsExact, StreamsSound, StreamSound,
                Subscribers, Listening
  <1>2. QED
    BY <1>1, CommitKeeps, AuthorizeKeeps, SubscribeKeeps, ReadyKeeps, DeliverKeeps, DisconnectKeeps,
       PollMoves, PollPublishKeeps, RestartKeeps DEF Next

LEMMA Inductive == Spec => []IInv
  BY InitHolds, StepHolds, PTL DEF Spec

------------------------------------------------------------------------------
(* Versions, groups, streams and the poll are of their types.                *)
THEOREM LiveIsTyped == Spec => []TypeOK
  <1>1. IInv => TypeOK
    BY DEF IInv
  <1>2. QED
    BY <1>1, Inductive, PTL

(* However polls, joins, departures and commits interleave, no publication   *)
(* is lost and nobody is ahead of the database (publishLatest, Subscribe,    *)
(* poll).                                                                    *)
THEOREM NothingIsDropped == Spec => []NothingDropped
  <1>1. IInv => NothingDropped
    BY Numbers DEF IInv, NotAhead, StreamsSound, StreamSound, NothingDropped, Listening
  <1>2. QED
    BY <1>1, Inductive, PTL

(* What a stream is told only grows (handleMeetingEvents).                   *)
THEOREM ToldOnlyGrows == Spec => ToldIncreases
  <1>1. ASSUME IInv, [Next]_vars, NEW c \in Conns PROVE Increasing(c)
    <2> SUFFICES ASSUME conn[c] = "streaming", conn'[c] = "streaming", told'[c] # told[c]
                 PROVE  told'[c] > told[c]
      BY DEF Increasing
    <2>0. TypeOK
      BY <1>1 DEF IInv
    <2>1. CASE Deliver(c)
      <3>1. told'[c] = events[c] /\ events[c] # Nothing
        BY <2>0, <2>1 DEF Deliver, TypeOK
      <3>2. told[c] <= events[c]
        BY <1>1, <3>1 DEF IInv, StreamsSound, StreamSound, Listening
      <3>3. QED
        BY <2>0, <3>1, <3>2, Numbers
    <2>2. CASE UNCHANGED told
      BY <2>2
    <2>3. ASSUME NEW d \in Conns, Ready(d) \/ (d # c /\ Deliver(d)) PROVE FALSE
      BY <2>0, <2>3 DEF Ready, Deliver, TypeOK
    <2>4. ASSUME NEW S \in SUBSET Conns, Return(S) PROVE FALSE
      BY <2>0, <2>4, Returned
    <2>5. ASSUME NEW d \in Conns, Subscribe(d) PROVE FALSE
      BY <2>4, <2>5 DEF Subscribe, Join, RefuseGroup
    <2>6. ASSUME NEW d \in Conns, Disconnect(d) PROVE FALSE
      BY <2>4, <2>6 DEF Disconnect
    <2>7. CASE Restart
      BY <2>4, <2>7 DEF Restart
    <2>8. QED
      BY <1>1, <2>1, <2>2, <2>3, <2>5, <2>6, <2>7
      DEF Next, vars, streamVars, Commit, Authorize, PollStart, PollAnswer, PollFail, PollPublish
  <1>2. IInv /\ [Next]_vars => [\A c \in Conns : Increasing(c)]_vars
    BY <1>1
  <1>3. QED
    BY <1>2, Inductive, PTL DEF Spec, ToldIncreases

------------------------------------------------------------------------------
(* The limits of the manager.                                                *)

Limits ==
    /\ IsFiniteSet(Watched) /\ Cardinality(Watched) <= MaxMeetings
    /\ \A m \in Meetings : /\ IsFiniteSet(Subscribers(m))
                           /\ Cardinality(Subscribers(m)) <= MaxSubscribers

LEMMA FewerFit ==
  ASSUME Limits, Watched' \subseteq Watched,
         \A m \in Meetings : Subscribers(m)' \subseteq Subscribers(m)
  PROVE  Limits'
  <1>1. ASSUME NEW S, IsFiniteSet(S), NEW T \in SUBSET S, NEW n \in Nat, Cardinality(S) <= n
        PROVE  IsFiniteSet(T) /\ Cardinality(T) <= n
    BY <1>1, FS_Subset, FS_CardinalityType
  <1>2. IsFiniteSet(Watched)' /\ Cardinality(Watched)' <= MaxMeetings
    BY <1>1 DEF Limits
  <1>3. ASSUME NEW m \in Meetings
        PROVE  IsFiniteSet(Subscribers(m))' /\ Cardinality(Subscribers(m))' <= MaxSubscribers
    BY <1>1 DEF Limits
  <1>4. QED
    BY <1>2, <1>3 DEF Limits

LEMMA OneMoreFits ==
  ASSUME NEW S, IsFiniteSet(S), NEW x, NEW n \in Nat, x \in S \/ Cardinality(S) < n, Cardinality(S) <= n
  PROVE  IsFiniteSet(S \cup {x}) /\ Cardinality(S \cup {x}) <= n
  <1>1. Cardinality(S) \in Nat
    BY FS_CardinalityType
  <1>2. /\ IsFiniteSet(S \cup {x})
        /\ Cardinality(S \cup {x}) = IF x \in S THEN Cardinality(S) ELSE Cardinality(S) + 1
    BY FS_AddElement
  <1>3. QED
    BY <1>1, <1>2

LEMMA SubscribeFits ==
  ASSUME IInv, Limits, NEW c \in Conns, Subscribe(c)
  PROVE  Limits'
  <1> DEFINE m == topic[c]
  <1>1. TypeOK /\ m \in Meetings /\ conn[c] = "authorized" /\ topic' = topic
    BY Numbers DEF IInv, Subscribe
  <1>2. CASE RefuseGroup(c, m)
    <2>1. Watched' = Watched
      BY <1>2 DEF RefuseGroup, Watched
    <2>2. \A n \in Meetings : Subscribers(n)' \subseteq Subscribers(n)
      BY <1>1, <1>2, Returned DEF RefuseGroup, Subscribers, Listening
    <2>3. QED
      BY <2>1, <2>2, FewerFit
  <1>3. CASE Join(c, m)
    <2>1. Watched' \subseteq Watched \cup {m} /\ (m \in Watched \/ Cardinality(Watched) < MaxMeetings)
      BY <1>1, <1>3 DEF Join, Watched, TypeOK
    <2>2. IsFiniteSet(Watched)' /\ Cardinality(Watched)' <= MaxMeetings
      <3>1. IsFiniteSet(Watched \cup {m}) /\ Cardinality(Watched \cup {m}) <= MaxMeetings
        BY <2>1, OneMoreFits DEF Limits
      <3>2. QED
        BY <2>1, <3>1, FS_Subset, FS_CardinalityType
    <2>3. ASSUME NEW n \in Meetings
          PROVE  IsFiniteSet(Subscribers(n))' /\ Cardinality(Subscribers(n))' <= MaxSubscribers
      <3>1. CASE n # m \/ Full(m)
        <4>1. Subscribers(n)' \subseteq Subscribers(n)
          <5>1. CASE Full(m)
            BY <1>1, <1>3, <5>1, Returned DEF Join, Subscribers, Listening
          <5>2. CASE ~Full(m) /\ n # m
            BY <1>1, <1>3, <5>2 DEF Join, TypeOK, Subscribers, Listening
          <5>3. QED
            BY <3>1, <5>1, <5>2
        <4>2. QED
          BY <4>1, FS_Subset, FS_CardinalityType DEF Limits
      <3>2. CASE n = m /\ ~Full(m)
        <4>1. Subscribers(n)' \subseteq Subscribers(m) \cup {c}
          BY <1>1, <1>3, <3>2 DEF Join, TypeOK, Subscribers, Listening
        <4>2. Cardinality(Subscribers(m)) < MaxSubscribers
          BY <3>2, <1>1, FS_CardinalityType DEF Full, Limits
        <4>3. IsFiniteSet(Subscribers(m) \cup {c}) /\ Cardinality(Subscribers(m) \cup {c}) <= MaxSubscribers
          BY <1>1, <4>2, OneMoreFits DEF Limits
        <4>4. QED
          BY <4>1, <4>3, FS_Subset, FS_CardinalityType
      <3>3. QED
        BY <3>1, <3>2
    <2>4. QED
      BY <2>2, <2>3 DEF Limits
  <1>4. QED
    BY <1>2, <1>3 DEF Subscribe

LEMMA StepFits ==
  ASSUME IInv, Limits, [Next]_vars
  PROVE  Limits'
  <1>0. TypeOK
    BY DEF IInv
  <1>1. ASSUME UNCHANGED <<group, conn, topic>> PROVE Limits'
    BY <1>1 DEF Limits, Watched, Subscribers, Listening
  <1>2. ASSUME NEW c \in Conns, Authorize(c) \/ Ready(c) \/ Deliver(c) PROVE Limits'
    <2>1. \A d \in Conns : Listening(d)' <=> Listening(d)
      BY <1>0, <1>2 DEF Authorize, Ready, Deliver, Listening, TypeOK
    <2>2. UNCHANGED <<group, topic>>
      BY <1>2 DEF Authorize, Ready, Deliver
    <2>3. Watched' \subseteq Watched /\ \A m \in Meetings : Subscribers(m)' \subseteq Subscribers(m)
      BY <2>1, <2>2 DEF Watched, Subscribers
    <2>4. QED
      BY <2>3, FewerFit
  <1>3. ASSUME NEW S \in SUBSET Conns, Return(S), topic' = topic, Watched' \subseteq Watched
        PROVE  Limits'
    <2>1. \A m \in Meetings : Subscribers(m)' \subseteq Subscribers(m)
      BY <1>0, <1>3, Returned DEF Subscribers, Listening
    <2>2. QED
      BY <1>3, <2>1, FewerFit
  <1>4. ASSUME NEW c \in Conns, Disconnect(c) PROVE Limits'
    <2>1. Watched' \subseteq Watched
      BY <1>0, <1>4, Numbers DEF Disconnect, Leave, Watched, TypeOK
    <2>2. QED
      BY <1>3, <1>4, <2>1 DEF Disconnect
  <1>5. CASE Restart
    <2>1. Watched' \subseteq Watched
      BY <1>5 DEF Restart, Watched
    <2>2. QED
      BY <1>3, <1>5, <2>1 DEF Restart
  <1>6. CASE PollPublish
    <2>1. Watched' \subseteq Watched
      BY <1>0, <1>6 DEF PollPublish, Watched
    <2>2. \A m \in Meetings : Subscribers(m)' \subseteq Subscribers(m)
      BY <1>6 DEF PollPublish, Subscribers, Listening
    <2>3. QED
      BY <2>1, <2>2, FewerFit
  <1>7. QED
    BY <1>1, <1>2, <1>4, <1>5, <1>6, SubscribeFits
    DEF Next, vars, streamVars, Commit, PollStart, PollAnswer, PollFail

(* The manager holds exactly the groups somebody listens to, within its two  *)
(* limits: an abandoned or refused stream gives its capacity back            *)
(* (Subscribe, unsubscribe).                                                 *)
THEOREM TableIsExact == Spec => []TableExact
  <1>1. Init => Limits
    <2> SUFFICES ASSUME Init PROVE Limits
      OBVIOUS
    <2>1. Watched = {} /\ \A m \in Meetings : Subscribers(m) = {}
      BY DEF Init, Watched, Subscribers, Listening
    <2>2. QED
      BY <2>1, FS_EmptySet DEF Limits
  <1>2. IInv /\ Limits => TableExact
    BY DEF IInv, GroupsExact, Limits, TableExact, Watched
  <1>3. QED
    BY <1>1, <1>2, StepFits, Inductive, PTL DEF Spec

------------------------------------------------------------------------------
(* The pages.                                                                *)

LEMMA TabStepsAreLive == [TabNext]_allVars => [Next]_vars
  BY DEF TabNext, allVars, Serve, Connect, Updated, ReloadRead, ReloadDone, ReloadFail, OwnRead,
     OwnDone, OwnFail, Next

(* The manager under the pages behaves as it does alone, so that all of the  *)
(* above holds of it.                                                        *)
THEOREM TabsRunLive == TabSpec => Spec
  <1>1. TabInit => Init
    BY DEF TabInit
  <1> QED
    BY <1>1, TabStepsAreLive, PTL DEF TabSpec, Spec

TabTypeOK ==
    /\ shown \in [Conns -> Slot] /\ queued \in [Conns -> Slot] /\ own \in [Conns -> Slot]
    /\ reload \in [Conns -> [step : {"none", "asked", "read", "failed"}, version : Slot]]
    /\ undone \in [Conns -> BOOLEAN]

(* No page and no load of one has a version the database has not.            *)
PagesNotAhead ==
    \A c \in Conns : /\ shown[c] <= db[topic[c]] /\ queued[c] <= db[topic[c]]
                     /\ own[c] <= db[topic[c]] /\ reload[c].version <= db[topic[c]]

TabInv == TabTypeOK /\ PagesNotAhead /\ NoUpdateForgotten

LEMMA TabNumbers ==
  ASSUME TypeOK, TabTypeOK, NEW c \in Conns
  PROVE  /\ shown[c] \in Nat /\ queued[c] \in Nat /\ own[c] \in Nat
         /\ reload[c].version \in Nat /\ undone[c] \in BOOLEAN
         /\ db[topic[c]] \in Nat /\ db[topic[c]] \in Slot /\ told[c] \in Nat /\ events[c] \in Nat
  BY DEF TypeOK, TabTypeOK, Slot, Versions

LEMMA TabInitHolds == TabInit => TabInv
  <1> SUFFICES ASSUME TabInit PROVE TabInv
    OBVIOUS
  <1>1. TabTypeOK
    BY DEF TabInit, TabTypeOK, AtRest, Slot
  <1>2. PagesNotAhead
    BY DEF TabInit, Init, PagesNotAhead, AtRest
  <1>3. NoUpdateForgotten
    BY DEF TabInit, Init, NoUpdateForgotten
  <1> QED
    BY <1>1, <1>2, <1>3 DEF TabInv

(* A version that the stream reports is one the database has.                *)
LEMMA EventsAreCommitted ==
  ASSUME IInv, NEW c \in Conns, conn[c] = "streaming"
  PROVE  told[c] <= db[topic[c]] /\ events[c] <= db[topic[c]]
  BY Numbers DEF IInv, NotAhead, StreamsSound, StreamSound, Listening

(* Steps of the server never make a page wait for more: streams that stay    *)
(* open keep what they were told, new ones have been told what they read.    *)
LEMMA ServeKeepsTold ==
  ASSUME IInv, Serve \/ (\E d \in Conns : Connect(d)), NEW c \in Conns,
         conn'[c] = "streaming", told'[c] # read'[c]
  PROVE  conn[c] = "streaming" /\ told'[c] = told[c] /\ read'[c] = read[c]
  <1>0. TypeOK
    BY DEF IInv
  <1>1. ASSUME NEW S \in SUBSET Conns, Return(S)
        PROVE  conn[c] = "streaming" /\ told'[c] = told[c] /\ read'[c] = read[c]
    BY <1>0, <1>1, Returned
  <1>2. CASE \E d \in Conns : Subscribe(d)
    <2>1. PICK d \in Conns : Subscribe(d)
      BY <1>2
    <2>2. CASE Return({d})
      BY <1>1, <2>2
    <2>3. CASE conn' = [conn EXCEPT ![d] = "subscribed"] /\ UNCHANGED <<read, told>>
      BY <1>0, <2>3 DEF TypeOK
    <2> QED
      BY <2>1, <2>2, <2>3 DEF Subscribe, Join, RefuseGroup
  <1>3. CASE \E d \in Conns : Ready(d)
    BY <1>0, <1>3 DEF Ready, TypeOK
  <1>4. CASE \E d \in Conns : Disconnect(d)
    BY <1>1, <1>4 DEF Disconnect
  <1>5. CASE Restart
    BY <1>1, <1>5 DEF Restart
  <1>6. CASE \E d \in Conns : Connect(d)
    BY <1>0, <1>6 DEF Connect, Authorize, TypeOK
  <1>7. CASE UNCHANGED streamVars
    BY <1>7 DEF streamVars
  <1>8. CASE PollPublish
    BY <1>8 DEF PollPublish
  <1> QED
    BY <1>2, <1>3, <1>4, <1>5, <1>6, <1>7, <1>8
    DEF Serve, Commit, PollStart, PollAnswer, PollFail

LEMMA ServerMoves ==
  ASSUME IInv, Next
  PROVE  topic' = topic /\ \A c \in Conns : db[topic[c]] <= db'[topic[c]]
  <1>1. topic' = topic
    BY DEF Next, Commit, Authorize, Subscribe, Ready, Deliver, Disconnect, PollStart, PollAnswer,
       PollFail, PollPublish, Restart, streamVars
  <1>2. ASSUME NEW m \in Meetings PROVE db[m] <= db'[m]
    <2>1. CASE UNCHANGED db
      BY <2>1, Numbers DEF IInv
    <2>2. ASSUME NEW n \in Meetings, Commit(n) PROVE db[m] <= db'[m]
      BY <2>2, Numbers DEF IInv, TypeOK, Commit
    <2> QED
      BY <2>1, <2>2 DEF Next, Authorize, Subscribe, Ready, Deliver, Disconnect, PollStart,
         PollAnswer, PollFail, PollPublish, Restart
  <1> QED
    BY <1>1, <1>2, Numbers DEF IInv

LEMMA TabServeHolds ==
  ASSUME IInv, TabInv, Serve \/ (\E d \in Conns : Connect(d)), UNCHANGED tabVars
  PROVE  TabInv'
  <1>1. Next
    BY DEF Serve, Connect, Next
  <1>2. TabTypeOK'
    BY DEF TabInv, TabTypeOK, tabVars
  <1>3. PagesNotAhead'
    <2> SUFFICES ASSUME NEW c \in Conns
                 PROVE  /\ shown[c] <= db'[topic[c]] /\ queued[c] <= db'[topic[c]]
                        /\ own[c] <= db'[topic[c]] /\ reload[c].version <= db'[topic[c]]
      BY <1>1, ServerMoves DEF PagesNotAhead, tabVars
    <2>1. db[topic[c]] <= db'[topic[c]]
      BY <1>1, ServerMoves
    <2>2. db'[topic[c]] \in Nat
      BY <1>1, ServerMoves, StepHolds, Numbers DEF IInv, TypeOK, Versions
    <2>3. /\ shown[c] <= db[topic[c]] /\ queued[c] <= db[topic[c]]
          /\ own[c] <= db[topic[c]] /\ reload[c].version <= db[topic[c]]
      BY DEF TabInv, PagesNotAhead
    <2> QED
      BY <2>1, <2>2, <2>3, TabNumbers DEF TabInv, IInv
  <1>4. NoUpdateForgotten'
    BY ServeKeepsTold DEF TabInv, NoUpdateForgotten, Coming, tabVars
  <1> QED
    BY <1>2, <1>3, <1>4 DEF TabInv

(* Of a page that has changed alone: what the other pages have is as it was. *)
Sound(c) ==
    /\ shown[c] <= db[topic[c]] /\ queued[c] <= db[topic[c]]
    /\ own[c] <= db[topic[c]] /\ reload[c].version <= db[topic[c]]
    /\ conn[c] = "streaming" /\ told[c] # read[c] =>
         \/ shown[c] >= told[c] \/ Coming(c, told[c])
         \/ reload[c].step = "failed" \/ undone[c]

LEMMA OnePageChanges ==
  ASSUME TypeOK, TabInv, NEW c \in Conns, UNCHANGED <<db, conn, topic, read>>, TabTypeOK', Sound(c)',
         \A d \in Conns \ {c} :
            /\ told'[d] = told[d] /\ shown'[d] = shown[d] /\ queued'[d] = queued[d]
            /\ own'[d] = own[d] /\ reload'[d] = reload[d] /\ undone'[d] = undone[d]
  PROVE  TabInv'
  <1>1. ASSUME NEW d \in Conns PROVE Sound(d)'
    <2>1. CASE d = c
      BY <2>1
    <2>2. CASE d # c
      <3>1. Sound(d)
        BY DEF TabInv, PagesNotAhead, NoUpdateForgotten, Sound
      <3> QED
        BY <2>2, <3>1 DEF Sound, Coming
    <2> QED
      BY <2>1, <2>2
  <1>2. PagesNotAhead' /\ NoUpdateForgotten'
    BY <1>1 DEF PagesNotAhead, NoUpdateForgotten, Sound
  <1> QED
    BY <1>2 DEF TabInv

LEMMA UpdatedHolds ==
  ASSUME IInv, TabInv, NEW c \in Conns, Updated(c)
  PROVE  TabInv'
  <1> DEFINE v == events[c]
  <1>1. TypeOK /\ TabTypeOK /\ Sound(c)
    BY DEF IInv, TabInv, PagesNotAhead, NoUpdateForgotten, Sound
  <1>2. /\ conn[c] = "streaming" /\ v <= db[topic[c]] /\ v \in Slot /\ v \in Nat
        /\ UNCHANGED <<db, conn, topic, read, shown, own, undone>>
        /\ ReloadFromLive(c, v)
    BY <1>1, EventsAreCommitted, TabNumbers DEF Updated, Deliver, TypeOK
  <1>3. told' = [told EXCEPT ![c] = v]
    BY DEF Updated, Deliver
  <1>4. told'[c] = v /\ \A d \in Conns \ {c} : told'[d] = told[d]
    BY <1>1, <1>3 DEF TypeOK
  <1> HIDE DEF v
  <1>5. CASE v <= shown[c]
    <2>1. UNCHANGED <<queued, reload>>
      BY <1>2, <1>5 DEF ReloadFromLive
    <2>2. TabTypeOK'
      BY <1>1, <1>2, <2>1 DEF TabTypeOK
    <2>3. Sound(c)'
      BY <1>1, <1>2, <1>4, <1>5, <2>1 DEF Sound
    <2> QED
      BY <1>1, <1>2, <1>4, <2>1, <2>2, <2>3, OnePageChanges
  <1>6. CASE ~(v <= shown[c]) /\ Reloading(c)
    <2>1. /\ queued' = [queued EXCEPT ![c] = IF v > @ THEN v ELSE @]
          /\ UNCHANGED reload
      BY <1>2, <1>6 DEF ReloadFromLive
    <2>2. /\ queued'[c] = IF v > queued[c] THEN v ELSE queued[c]
          /\ \A d \in Conns \ {c} : queued'[d] = queued[d]
      BY <1>1, <2>1 DEF TabTypeOK
    <2>3. TabTypeOK'
      BY <1>1, <1>2, <2>1 DEF TabTypeOK
    <2>4. queued'[c] >= v /\ queued'[c] <= db[topic[c]]
      BY <1>1, <1>2, <2>2, TabNumbers DEF Sound
    <2>5. Sound(c)'
      BY <1>1, <1>2, <1>4, <1>6, <2>1, <2>4 DEF Sound, Coming, Reloading
    <2> QED
      BY <1>1, <1>2, <1>4, <2>1, <2>2, <2>3, <2>5, OnePageChanges
  <1>7. CASE ~(v <= shown[c]) /\ ~Reloading(c)
    <2>1. /\ queued' = [queued EXCEPT ![c] = Nothing]
          /\ reload' = [reload EXCEPT ![c] = [AtRest EXCEPT !.step = "asked"]]
      BY <1>2, <1>7 DEF ReloadFromLive
    <2>2. /\ queued'[c] = Nothing /\ reload'[c] = [step |-> "asked", version |-> Nothing]
          /\ \A d \in Conns \ {c} : queued'[d] = queued[d] /\ reload'[d] = reload[d]
      BY <1>1, <2>1 DEF TabTypeOK, AtRest
    <2>3. TabTypeOK'
      BY <1>1, <1>2, <2>1 DEF TabTypeOK, AtRest, Slot
    <2>4. Sound(c)'
      BY <1>1, <1>2, <1>4, <2>2, TabNumbers DEF Sound, Coming
    <2> QED
      BY <1>1, <1>2, <1>4, <2>2, <2>3, <2>4, OnePageChanges
  <1> QED
    BY <1>5, <1>6, <1>7

LEMMA ReloadHolds ==
  ASSUME IInv, TabInv, NEW c \in Conns, ReloadRead(c) \/ ReloadDone(c) \/ ReloadFail(c)
  PROVE  TabInv'
  <1>1. TypeOK /\ TabTypeOK /\ Sound(c) /\ UNCHANGED <<vars, own>>
    BY DEF IInv, TabInv, PagesNotAhead, NoUpdateForgotten, Sound, ReloadRead, ReloadDone, ReloadFail
  <1>2. UNCHANGED <<db, conn, topic, read, told>>
    BY <1>1 DEF vars, streamVars
  <1>3. CASE ReloadRead(c)
    <2> DEFINE r == [step |-> "read", version |-> db[topic[c]]]
    <2>1. reload' = [reload EXCEPT ![c] = r] /\ UNCHANGED <<shown, queued, undone>>
      BY <1>3 DEF ReloadRead
    <2>2. r \in [step : {"none", "asked", "read", "failed"}, version : Slot]
      BY <1>1, TabNumbers
    <2>3. TabTypeOK'
      BY <1>1, <2>1, <2>2 DEF TabTypeOK
    <2>4. reload'[c] = r /\ \A d \in Conns \ {c} : reload'[d] = reload[d]
      BY <1>1, <2>1 DEF TabTypeOK
    <2>5. Sound(c)'
      BY <1>1, <1>2, <2>1, <2>4, EventsAreCommitted, TabNumbers DEF Sound, Coming
    <2> QED
      BY <1>1, <1>2, <2>1, <2>3, <2>4, <2>5, OnePageChanges
  <1>4. CASE ReloadDone(c)
    <2> DEFINE version_ == reload[c].version
    <2>1. /\ reload[c].step = "read" /\ version_ \in Slot
          /\ shown' = [shown EXCEPT ![c] = version_]
          /\ undone' = [undone EXCEPT ![c] = @ \/ version_ < shown[c]]
      BY <1>1, <1>4 DEF ReloadDone, Show, TabTypeOK
    <2>2. /\ shown'[c] = version_
          /\ \A d \in Conns \ {c} : shown'[d] = shown[d]
      BY <1>1, <2>1 DEF TabTypeOK
    <2>3. /\ undone'[c] = (undone[c] \/ version_ < shown[c])
          /\ \A d \in Conns \ {c} : undone'[d] = undone[d]
          /\ undone' \in [Conns -> BOOLEAN]
      BY <1>1, <2>1, TabNumbers DEF TabTypeOK
    <2>4. CASE queued[c] > version_
      <3>1. /\ queued' = [queued EXCEPT ![c] = Nothing]
            /\ reload' = [reload EXCEPT ![c] = [AtRest EXCEPT !.step = "asked"]]
        BY <1>4, <2>4 DEF ReloadDone
      <3>2. /\ queued'[c] = Nothing /\ reload'[c] = [step |-> "asked", version |-> Nothing]
            /\ \A d \in Conns \ {c} : queued'[d] = queued[d] /\ reload'[d] = reload[d]
        BY <1>1, <3>1 DEF TabTypeOK, AtRest
      <3>3. TabTypeOK'
        BY <1>1, <2>1, <2>3, <3>1 DEF TabTypeOK, AtRest, Slot
      <3>4. Sound(c)'
        BY <1>1, <1>2, <2>2, <3>2, TabNumbers DEF Sound, Coming
      <3> QED
        BY <1>1, <1>2, <2>2, <2>3, <3>2, <3>3, <3>4, OnePageChanges
    <2>5. CASE ~(queued[c] > version_)
      <3>1. reload' = [reload EXCEPT ![c] = AtRest] /\ UNCHANGED queued
        BY <1>4, <2>5 DEF ReloadDone
      <3>2. /\ reload'[c] = AtRest /\ AtRest.version = Nothing
            /\ \A d \in Conns \ {c} : reload'[d] = reload[d]
        BY <1>1, <3>1 DEF TabTypeOK, AtRest
      <3>3. TabTypeOK'
        BY <1>1, <2>1, <2>3, <3>1 DEF TabTypeOK, AtRest, Slot
      <3>4. conn[c] = "streaming" /\ told[c] # read[c] =>
              version_ >= told[c] \/ version_ < shown[c] \/ undone[c]
        BY <1>1, <2>1, <2>5, TabNumbers DEF Sound, Coming
      <3>5. Sound(c)'
        <4>1. (conn[c] = "streaming" /\ told[c] # read[c] => shown[c] >= told[c] \/ undone[c])'
          BY <1>2, <2>2, <2>3, <3>4
        <4>2. (/\ shown[c] <= db[topic[c]] /\ queued[c] <= db[topic[c]]
               /\ own[c] <= db[topic[c]] /\ reload[c].version <= db[topic[c]])'
          BY <1>1, <1>2, <2>2, <3>1, <3>2, TabNumbers DEF Sound
        <4> QED
          BY <4>1, <4>2 DEF Sound
      <3> QED
        BY <1>1, <1>2, <2>2, <2>3, <3>1, <3>2, <3>3, <3>5, OnePageChanges
    <2> QED
      BY <2>4, <2>5
  <1>5. CASE ReloadFail(c)
    <2>1. /\ reload' = [reload EXCEPT ![c] = [AtRest EXCEPT !.step = "failed"]]
          /\ UNCHANGED <<shown, queued, undone>>
      BY <1>5 DEF ReloadFail
    <2>2. /\ reload'[c] = [step |-> "failed", version |-> Nothing]
          /\ \A d \in Conns \ {c} : reload'[d] = reload[d]
      BY <1>1, <2>1 DEF TabTypeOK, AtRest
    <2>3. TabTypeOK'
      BY <1>1, <2>1 DEF TabTypeOK, AtRest, Slot
    <2>4. Sound(c)'
      BY <1>1, <1>2, <2>1, <2>2, TabNumbers DEF Sound
    <2> QED
      BY <1>1, <1>2, <2>1, <2>2, <2>3, <2>4, OnePageChanges
  <1> QED
    BY <1>3, <1>4, <1>5

LEMMA OwnHolds ==
  ASSUME IInv, TabInv, NEW c \in Conns, OwnRead(c) \/ OwnDone(c) \/ OwnFail(c)
  PROVE  TabInv'
  <1>1. TypeOK /\ TabTypeOK /\ Sound(c) /\ UNCHANGED <<vars, queued, reload>>
    BY DEF IInv, TabInv, PagesNotAhead, NoUpdateForgotten, Sound, OwnRead, OwnDone, OwnFail
  <1>2. UNCHANGED <<db, conn, topic, read, told>>
    BY <1>1 DEF vars, streamVars
  <1>3. CASE OwnRead(c) \/ OwnFail(c)
    <2>1. PICK v \in {Nothing, db[topic[c]]} :
            own' = [own EXCEPT ![c] = v] /\ UNCHANGED <<shown, undone>>
      BY <1>3 DEF OwnRead, OwnFail
    <2>2. v \in Slot /\ v <= db[topic[c]]
      BY <1>1, <2>1, TabNumbers DEF Slot
    <2>3. own'[c] = v /\ \A d \in Conns \ {c} : own'[d] = own[d]
      BY <1>1, <2>1 DEF TabTypeOK
    <2>4. TabTypeOK'
      BY <1>1, <2>1, <2>2 DEF TabTypeOK
    <2>5. Sound(c)'
      BY <1>1, <1>2, <2>1, <2>2, <2>3 DEF Sound, Coming
    <2> QED
      BY <1>1, <1>2, <2>1, <2>3, <2>4, <2>5, OnePageChanges
  <1>4. CASE OwnDone(c)
    <2>1. /\ shown' = [shown EXCEPT ![c] = own[c]]
          /\ undone' = [undone EXCEPT ![c] = @ \/ own[c] < shown[c]]
          /\ own' = [own EXCEPT ![c] = Nothing] /\ own[c] \in Slot
      BY <1>1, <1>4 DEF OwnDone, Show, TabTypeOK
    <2>2. /\ shown'[c] = own[c] /\ own'[c] = Nothing
          /\ \A d \in Conns \ {c} : shown'[d] = shown[d] /\ own'[d] = own[d]
      BY <1>1, <2>1 DEF TabTypeOK
    <2>3. /\ undone'[c] = (undone[c] \/ own[c] < shown[c])
          /\ \A d \in Conns \ {c} : undone'[d] = undone[d]
          /\ undone' \in [Conns -> BOOLEAN]
      BY <1>1, <2>1, TabNumbers DEF TabTypeOK
    <2>4. TabTypeOK'
      BY <1>1, <2>1, <2>3 DEF TabTypeOK, Slot
    <2>5. shown[c] >= told[c] => shown'[c] >= told[c] \/ undone'[c]
      BY <1>1, <2>2, <2>3, TabNumbers
    <2>6. Sound(c)'
      <3>1. (/\ shown[c] <= db[topic[c]] /\ queued[c] <= db[topic[c]]
             /\ own[c] <= db[topic[c]] /\ reload[c].version <= db[topic[c]])'
        BY <1>1, <1>2, <2>2, TabNumbers DEF Sound
      <3>2. (conn[c] = "streaming" /\ told[c] # read[c] =>
               \/ shown[c] >= told[c] \/ Coming(c, told[c])
               \/ reload[c].step = "failed" \/ undone[c])'
        BY <1>1, <1>2, <2>3, <2>5 DEF Sound, Coming
      <3> QED
        BY <3>1, <3>2 DEF Sound
    <2> QED
      BY <1>1, <1>2, <2>2, <2>3, <2>4, <2>6, OnePageChanges
  <1> QED
    BY <1>3, <1>4

LEMMA TabStepHolds == IInv /\ TabInv /\ [TabNext]_allVars => TabInv'
  <1> SUFFICES ASSUME IInv, TabInv, [TabNext]_allVars PROVE TabInv'
    OBVIOUS
  <1>1. CASE UNCHANGED allVars
    BY <1>1 DEF allVars, vars, streamVars, tabVars, TabInv, TabTypeOK, PagesNotAhead,
       NoUpdateForgotten, Coming
  <1> QED
    BY <1>1, TabServeHolds, UpdatedHolds, ReloadHolds, OwnHolds DEF TabNext, Connect

LEMMA TabInductive == TabSpec => []TabInv
  BY TabInitHolds, TabStepHolds, TabsRunLive, Inductive, PTL DEF TabSpec

(* However updates, reloads and loads of one's own overlap, fail and         *)
(* overtake each other, no update that a page was told of is forgotten:      *)
(* the safety half of UpdateIsShown (reloadFromLive).                        *)
THEOREM UpdatesAreNotForgotten == TabSpec => []NoUpdateForgotten
  <1>1. TabInv => NoUpdateForgotten
    BY DEF TabInv
  <1> QED
    BY <1>1, TabInductive, PTL

(* No page is ahead of the database.                                         *)
THEOREM PagesAreNotAhead == TabSpec => []PagesNotAhead
  <1>1. TabInv => PagesNotAhead
    BY DEF TabInv
  <1> QED
    BY <1>1, TabInductive, PTL
==============================================================================
