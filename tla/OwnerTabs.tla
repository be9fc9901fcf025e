------------------------------ MODULE OwnerTabs ------------------------------
(***************************************************************************)
(* Optimistic concurrency, end to end: an owner with a draft open in several *)
(* tabs edits its title (Update) and the text of a plan option               *)
(* (UpdatePlanOption), each edit carrying the version of the copy shown.     *)
(*                                                                          *)
(* meeting.Get is not a transaction: the row of the meeting is read first,   *)
(* the plan options by a later statement.  The page (web/src/App.tsx) loads  *)
(* for two reasons, which may overtake each other: after a save of its own,  *)
(* and because the live stream has announced a change.                       *)
(***************************************************************************)
EXTENDS Naturals

CONSTANTS
    Tabs,
    Texts,
    MaxVersion,  \* bound of the model on the version counter
    None

ASSUME TabsAssumption == None \notin Texts /\ MaxVersion \in Nat \ {0}

VARIABLES
    version, title, plan,  \* meetings.version, meetings.title, plan_options
    copy,   \* meeting, the state of the page
    fetch,  \* Get under way, by tab and reason
    form,   \* text the open plan form was filled with, None when closed
    sent    \* the save under way

vars == <<version, title, plan, copy, fetch, form, sent>>

Reasons == {"own", "live"}
Copy == [version : 1..MaxVersion, title : Texts, plan : Texts]
Rows == [version : 1..MaxVersion, title : Texts, plan : Texts \cup {None}]
Save == [field : {"title", "plan"}, expected : 1..MaxVersion, basis : Texts, text : Texts,
         step : {"asked", "saved", "refused"}]

(* Plausible mistakes in the operators below; no action uses them.           *)
AnyVersion(expected) == TRUE
VersionReadLast(c, k) ==
    fetch' = [fetch EXCEPT ![c][k].plan = plan, ![c][k].version = version]
ClearsOther(field, text) ==
    /\ version < MaxVersion /\ version' = version + 1
    /\ title' = IF field = "title" THEN text ELSE title
    /\ plan' = IF field = "plan" THEN text ELSE None

------------------------------------------------------------------------------
(* Pages that have loaded the draft.                                         *)
Init ==
    /\ version = 1 /\ title \in Texts /\ plan \in Texts
    /\ copy = [c \in Tabs |-> [version |-> 1, title |-> title, plan |-> plan]]
    /\ fetch = [c \in Tabs |-> [k \in Reasons |-> None]]
    /\ form = [c \in Tabs |-> None]
    /\ sent = [c \in Tabs |-> None]

Touch == version < MaxVersion /\ version' = version + 1

(* Any other request that changes the meeting.                               *)
OtherChange ==
    /\ Touch
    /\ UNCHANGED <<title, plan, copy, fetch, form, sent>>

(* mutateAndReport loads after a save; reloadFromLive when a version above   *)
(* the one shown has been announced.                                         *)
Wanted(c, k) ==
    IF k = "own" THEN sent[c] # None /\ sent[c].step = "saved"
    ELSE copy[c].version < version

(* GetMeetingForUser, the first statement of Get.                            *)
ReadRow(c, k) ==
    /\ fetch[c][k] = None /\ Wanted(c, k)
    /\ fetch' = [fetch EXCEPT ![c][k] = [version |-> version, title |-> title, plan |-> None]]
    /\ UNCHANGED <<version, title, plan, copy, form, sent>>

(* ListPlanOptions.                                                          *)
PlansAfterRow(c, k) == fetch' = [fetch EXCEPT ![c][k].plan = plan]

ReadPlans(c, k) ==
    /\ fetch[c][k] # None /\ fetch[c][k].plan = None
    /\ PlansAfterRow(c, k)
    /\ UNCHANGED <<version, title, plan, copy, form, sent>>

(* The awaiting save is over, and a plan form it came from closes.           *)
Finish(c) ==
    /\ form' = IF sent[c].field = "plan" THEN [form EXCEPT ![c] = None] ELSE form
    /\ sent' = [sent EXCEPT ![c] = None]

(* setMeeting: what arrives last is shown, be it older than what was shown.  *)
Show(c, k) ==
    /\ fetch[c][k] # None /\ fetch[c][k].plan # None
    /\ copy' = [copy EXCEPT ![c] = fetch[c][k]]
    /\ fetch' = [fetch EXCEPT ![c][k] = None]
    /\ IF k = "own" THEN Finish(c) ELSE UNCHANGED <<form, sent>>
    /\ UNCHANGED <<version, title, plan>>

(* load returns false, which mutateAndReport ignores.                        *)
LoadFails(c, k) ==
    /\ fetch[c][k] # None
    /\ fetch' = [fetch EXCEPT ![c][k] = None]
    /\ IF k = "own" THEN Finish(c) ELSE UNCHANGED <<form, sent>>
    /\ UNCHANGED <<version, title, plan, copy>>

(* PlanOptionEditForm: defaultValue is read once, when the form opens.       *)
OpenForm(c) ==
    /\ form[c] = None /\ sent[c] = None
    /\ form' = [form EXCEPT ![c] = copy[c].plan]
    /\ UNCHANGED <<version, title, plan, copy, fetch, sent>>

CloseForm(c) ==
    /\ form[c] # None /\ sent[c] = None
    /\ form' = [form EXCEPT ![c] = None]
    /\ UNCHANGED <<version, title, plan, copy, fetch, sent>>

Ask(c, field, basis, text) ==
    /\ sent[c] = None
    /\ sent' = [sent EXCEPT ![c] = [field |-> field, expected |-> copy[c].version,
                                     basis |-> basis, text |-> text, step |-> "asked"]]
    /\ UNCHANGED <<version, title, plan, copy, fetch, form>>

(* MeetingMetadataEditor is keyed by the version: it always shows the copy.  *)
AskTitle(c, text) == Ask(c, "title", copy[c].title, text)
(* The plan form is not: its text stays, its version is that of the copy.    *)
AskPlan(c, text) == form[c] # None /\ Ask(c, "plan", form[c], text)

(* locked.Version != input.ExpectedVersion                                   *)
AtVersion(expected) == expected = version

Store(field, text) ==
    /\ Touch
    /\ title' = IF field = "title" THEN text ELSE title
    /\ plan' = IF field = "plan" THEN text ELSE plan

Handle(c) ==
    /\ sent[c] # None /\ sent[c].step = "asked"
    /\ \/ /\ AtVersion(sent[c].expected)
          /\ Store(sent[c].field, sent[c].text)
          /\ sent' = [sent EXCEPT ![c].step = "saved"]
       \/ /\ ~AtVersion(sent[c].expected)
          /\ sent' = [sent EXCEPT ![c].step = "refused"]
          /\ UNCHANGED <<version, title, plan>>
    /\ UNCHANGED <<copy, fetch, form>>

(* The answer is an error, or is lost on the way: the form stays as it is.   *)
Unsaved(c) ==
    /\ sent[c] # None /\ sent[c].step # "asked" /\ fetch[c]["own"] = None
    /\ sent' = [sent EXCEPT ![c] = None]
    /\ UNCHANGED <<version, title, plan, copy, fetch, form>>

Next ==
    \/ OtherChange
    \/ \E c \in Tabs, k \in Reasons :
         ReadRow(c, k) \/ ReadPlans(c, k) \/ Show(c, k) \/ LoadFails(c, k)
    \/ \E c \in Tabs : OpenForm(c) \/ CloseForm(c) \/ Handle(c) \/ Unsaved(c)
    \/ \E c \in Tabs, text \in Texts : AskTitle(c, text) \/ AskPlan(c, text)

Spec == Init /\ [][Next]_vars

------------------------------------------------------------------------------
TypeOK ==
    /\ version \in 1..MaxVersion /\ title \in Texts /\ plan \in Texts
    /\ copy \in [Tabs -> Copy]
    /\ fetch \in [Tabs -> [Reasons -> Rows \cup {None}]]
    /\ form \in [Tabs -> Texts \cup {None}]
    /\ sent \in [Tabs -> Save \cup {None}]

(* A copy that carries the current version is the current content, though it *)
(* was read by several statements with commits in between: the version is    *)
(* read first, so a torn copy carries a version that is gone.                *)
CurrentCopyIsExact ==
    \A c \in Tabs : copy[c].version = version =>
        copy[c] = [version |-> version, title |-> title, plan |-> plan]

(* A save of field replaces the text that was in its form.                   *)
ReplacesWhatItShowed(field) ==
    \A c \in Tabs :
        sent[c] # None /\ sent[c].field = field /\ version' # version /\ sent'[c] # sent[c]
        => sent[c].basis = (IF field = "title" THEN title ELSE plan)

(* No title is overwritten by somebody who had not seen it.                  *)
NoLostTitle == [][ReplacesWhatItShowed("title")]_vars

(* The same of a plan option, as the stale edit of the integration test is   *)
(* refused (internal/integration/flow_test.go:359).                          *)
NoLostPlan == [][ReplacesWhatItShowed("plan")]_vars
==============================================================================
