------------------------------ MODULE LiveTabs -------------------------------
(***************************************************************************)
(* The web client on top of Live: the page of a meeting (MeetingDetailView) *)
(* in one tab per connection.  It shows the copy its last finished load     *)
(* brought, keeps a stream open and reloads in the background when the      *)
(* stream reports a newer version; each change its user makes reloads too,  *)
(* so two loads can be under way and finish in either order.                *)
(*                                                                          *)
(* A load asks for the meeting first and keeps that version; the requests   *)
(* for polls, votes and the rest come after it and are not modelled.        *)
(***************************************************************************)
EXTENDS Live

VARIABLES
    shown,   \* meetingVersionRef: version of the copy on the page, Nothing before it
    queued,  \* queuedLiveVersionRef
    reload,  \* the loop of reloadFromLive: its step and the version it has read
    own,     \* version read by load() after a change of one's own or on opening
    undone   \* an older copy has replaced a newer one on the page (history)

tabVars == <<shown, queued, reload, own, undone>>
allVars == <<vars, tabVars>>

AtRest == [step |-> "none", version |-> Nothing]
Reloading(c) == reload[c].step \in {"asked", "read"}

(* Plausible mistakes in the operators below; no action uses them.           *)
IgnoreWhileReloading(c, v) ==
    IF v <= shown[c] \/ Reloading(c) THEN UNCHANGED <<queued, reload>>
    ELSE /\ queued' = queued
         /\ reload' = [reload EXCEPT ![c] = [AtRest EXCEPT !.step = "asked"]]

TabInit ==
    /\ Init
    /\ shown = [c \in Conns |-> Nothing] /\ queued = shown /\ own = shown
    /\ reload = [c \in Conns |-> AtRest] /\ undone = [c \in Conns |-> FALSE]

(* reloadFromLive up to its first await: an update that comes while a reload *)
(* is under way is left for the loop.                                        *)
ReloadFromLive(c, v) ==
    IF v <= shown[c] THEN UNCHANGED <<queued, reload>>
    ELSE IF Reloading(c)
         THEN /\ queued' = [queued EXCEPT ![c] = IF v > @ THEN v ELSE @]
              /\ UNCHANGED reload
         ELSE /\ queued' = [queued EXCEPT ![c] = Nothing]
              /\ reload' = [reload EXCEPT ![c] = [AtRest EXCEPT !.step = "asked"]]

(* The page opens its stream once it has a copy.                             *)
Connect(c) ==
    /\ shown[c] # Nothing
    /\ Authorize(c)
    /\ UNCHANGED tabVars

(* The callback of watchMeeting acts on meeting.updated and not on ready.    *)
Updated(c) ==
    /\ Deliver(c)
    /\ ReloadFromLive(c, events[c])
    /\ UNCHANGED <<shown, own, undone>>

ReloadRead(c) ==
    /\ reload[c].step = "asked"
    /\ reload' = [reload EXCEPT ![c] = [step |-> "read", version |-> db[topic[c]]]]
    /\ UNCHANGED <<vars, shown, queued, own, undone>>

(* setMeeting: the page takes whatever copy a load ends with.                *)
Show(c, version) ==
    /\ shown' = [shown EXCEPT ![c] = version]
    /\ undone' = [undone EXCEPT ![c] = @ \/ version < shown[c]]

(* The page takes the copy; a newer update queued meanwhile goes round again. *)
ReloadDone(c) ==
    /\ reload[c].step = "read"
    /\ Show(c, reload[c].version)
    /\ IF queued[c] > reload[c].version
       THEN /\ queued' = [queued EXCEPT ![c] = Nothing]
            /\ reload' = [reload EXCEPT ![c] = [AtRest EXCEPT !.step = "asked"]]
       ELSE /\ reload' = [reload EXCEPT ![c] = AtRest]
            /\ UNCHANGED queued
    /\ UNCHANGED <<vars, own>>

(* A request fails: load returns false and the loop gives up.                *)
ReloadFail(c) ==
    /\ Reloading(c)
    /\ reload' = [reload EXCEPT ![c] = [AtRest EXCEPT !.step = "failed"]]
    /\ UNCHANGED <<vars, shown, queued, own, undone>>

(* load() when the page opens and after a change of one's own.               *)
OwnRead(c) ==
    /\ own[c] = Nothing
    /\ own' = [own EXCEPT ![c] = db[topic[c]]]
    /\ UNCHANGED <<vars, shown, queued, reload, undone>>

OwnDone(c) ==
    /\ own[c] # Nothing
    /\ Show(c, own[c])
    /\ own' = [own EXCEPT ![c] = Nothing]
    /\ UNCHANGED <<vars, queued, reload>>

OwnFail(c) ==
    /\ own[c] # Nothing
    /\ own' = [own EXCEPT ![c] = Nothing]
    /\ UNCHANGED <<vars, shown, queued, reload, undone>>

Serve ==
    \/ \E m \in Meetings : Commit(m)
    \/ \E c \in Conns : Subscribe(c) \/ Ready(c) \/ Disconnect(c)
    \/ PollStart \/ PollAnswer \/ PollFail \/ PollPublish
    \/ Restart

TabNext ==
    \/ Serve /\ UNCHANGED tabVars
    \/ \E c \in Conns : \/ Connect(c) \/ Updated(c)
                        \/ ReloadRead(c) \/ ReloadDone(c) \/ ReloadFail(c)
                        \/ OwnRead(c) \/ OwnDone(c) \/ OwnFail(c)

(* As in Live; and a request of the page is answered or fails.               *)
TabFairness ==
    /\ \A c \in Conns : /\ WF_allVars(Ready(c) /\ UNCHANGED tabVars)
                        /\ WF_allVars(Updated(c))
                        /\ WF_allVars(ReloadRead(c))
                        /\ WF_allVars(ReloadDone(c) \/ ReloadFail(c))
    /\ WF_allVars(PollStart /\ UNCHANGED tabVars)
    /\ SF_allVars(PollAnswer /\ UNCHANGED tabVars)
    /\ WF_allVars(PollPublish /\ UNCHANGED tabVars)

TabSpec == TabInit /\ [][TabNext]_allVars
FairTabSpec == TabSpec /\ TabFairness

------------------------------------------------------------------------------
(* What a page has been told of as meeting.updated, while its stream is      *)
(* open, is on the page, or a load is under way or due that will bring it,   *)
(* unless a request of the reload failed or an older load overtook it: what  *)
(* reloadFromLive does with an update that finds it busy loses nothing.      *)
Coming(c, v) ==
    \/ reload[c].step = "asked"
    \/ reload[c].step = "read" /\ (reload[c].version >= v \/ queued[c] >= v)
NoUpdateForgotten ==
    \A c \in Conns : conn[c] = "streaming" /\ told[c] # read[c] =>
        \/ shown[c] >= told[c] \/ Coming(c, told[c])
        \/ reload[c].step = "failed" \/ undone[c]

Told(c, v) == conn[c] = "streaming" /\ told[c] = v
Settled(c, v) ==
    \/ shown[c] >= v
    \/ conn[c] # "streaming" \/ reload[c].step = "failed" \/ undone[c]

(* A version that came as meeting.updated is shown, unless the stream ends,  *)
(* a request of the reload fails or an older load overtakes it: updates that *)
(* arrive during a reload are not forgotten.                                 *)
UpdateIsShown ==
    \A c \in Conns, v \in Versions :
        (Told(c, v) /\ told[c] # read[c]) ~> Settled(c, v)

(* openapi.yaml of the events endpoint: "clients reload normal API resources *)
(* after receiving a newer version".  The version received with ready counts *)
(* too: it is the one a reconnecting tab learns first.                       *)
NewerVersionIsShown ==
    \A c \in Conns, v \in Versions : Told(c, v) ~> Settled(c, v)
==============================================================================
