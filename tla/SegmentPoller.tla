---------------------------- MODULE SegmentPoller ----------------------------
(***************************************************************************)
(* One Segment on its channel's tab (Segment.js): the run/pause control    *)
(* (toggleProcessing), the synchronous getInfo of updateInfo() and the     *)
(* asynchronous one its update timer issues (updateInfoAsync), whose       *)
(* answers come back through updateInfoCallback in any order, or as a      *)
(* fault or a timeout after 10 s.                                          *)
(*                                                                         *)
(* Of a getInfo answer only the processing flag matters to the control:    *)
(* info is this.infoSettings.processing.value, prev is                     *)
(* this.prevSettings.processing.value (Absent while the property does not  *)
(* exist), icon the state of the startStopAnchor: "run" shows the pause    *)
(* image and pauses on click, "pause" the reverse, "none" neither image    *)
(* nor click handler.  The CE serves an asynchronous request from its      *)
(* state when the timer fires: a request served later carries a later      *)
(* state, which the model reaches by firing later.                         *)
(*                                                                         *)
(* Of the counters only their freshness is kept: fresh says the row's      *)
(* counters tbody was built from the counters updateInfo stored last;      *)
(* visible is its View/Hide state.  controls says whether Channel.display  *)
(* got past this row to build the tab's buttons and interval slider.       *)
(*                                                                         *)
(* Each handler (a click, a slider change, a timer tick, a callback) runs  *)
(* to completion, its synchronous remote calls included: one step.         *)
(***************************************************************************)
EXTENDS Naturals

CONSTANTS
    MaxInFlight,   \* bound on the asynchronous getInfo requests in flight
    FaultyCalls,   \* the remote calls that may fault
    Absent         \* a property the Segment object does not have

Calls == {"getInfo", "getInfoAsync", "startup", "pause",
          "activateChannel", "pauseChannel"}

ASSUME FaultyCalls \subseteq Calls

\* The results a remote call may return: TRUE is success.
Outcomes(call) == IF call \in FaultyCalls THEN BOOLEAN ELSE {TRUE}

VARIABLES
    ceRun,      \* the segment is processing on the CE
    timerOn,    \* the Segment's timer_id is set (its interval is not "Off")
    inflight,   \* asynchronous getInfo answers in flight, by the flag they carry
    info,       \* infoSettings.processing.value, or Absent
    prev,       \* prevSettings.processing.value, or Absent
    icon,       \* the run/pause control: "run", "pause" or "none"
    visible,    \* countersVisible(): the counters tbody is shown
    fresh,      \* the counters tbody was built from the stored counters
    controls    \* Channel.display built the tab's buttons and slider

vars == <<ceRun, timerOn, inflight, info, prev, icon, visible, fresh, controls>>

TypeOK ==
    /\ ceRun \in BOOLEAN
    /\ timerOn \in BOOLEAN
    /\ inflight \in [BOOLEAN -> 0..MaxInFlight]
    /\ info \in BOOLEAN \cup {Absent}
    /\ prev \in BOOLEAN \cup {Absent}
    /\ icon \in {"run", "pause", "none"}
    /\ visible \in BOOLEAN
    /\ fresh \in BOOLEAN
    /\ controls \in BOOLEAN

\* Mutant: "init" not translated (newState = state), so no case matches.
IconForUntranslated(p) == "init"

\* toggleProcessing("init"): the state the control takes from a flag.
IconFor(p) == IF p THEN "run" ELSE "pause"

\* Segment.display of a new row: toggleProcessing("init") reads
\* infoSettings.processing, a TypeError when no getInfo answer was stored
\* (ok false); the new anchor then has no image and no handler.
DisplayedIcon(ok, p) == IF ok THEN IconFor(p) ELSE "none"

(***************************************************************************)
(* The Segment has been built and displayed in one handler: its            *)
(* constructor (getSegments) or applyChangesToCE ran updateInfo()          *)
(* synchronously, and display() then ran toggleProcessing("init"), which   *)
(* throws a TypeError when the getInfo failed and infoSettings is          *)
(* undefined, leaving the new anchor without image or handler.  The timer  *)
(* was set with the channel's interval.  The new row's counters tbody is  *)
(* filled from the stored counters and hidden.  The TypeError also ends    *)
(* Channel.display before the Activate All, Pause All and Remove Channel   *)
(* buttons and the interval slider are built.                              *)
(***************************************************************************)
Init ==
    /\ ceRun \in BOOLEAN
    /\ timerOn \in BOOLEAN
    /\ inflight = [p \in BOOLEAN |-> 0]
    /\ prev = Absent
    /\ \E ok \in Outcomes("getInfo") :
        /\ info = IF ok THEN ceRun ELSE Absent
        /\ icon = DisplayedIcon(ok, ceRun)
        /\ controls = ok
    /\ visible = FALSE
    /\ fresh = TRUE

\* Mutant: prevSettings copied after the new infoSettings is stored.
SampleAfterStore(p) ==
    /\ info' = p
    /\ prev' = p

\* updateInfo on an answer with flag p: the old infoSettings, if any,
\* becomes prevSettings, and the new one is stored.
Sample(p) ==
    /\ prev' = IF info # Absent THEN info ELSE prev
    /\ info' = p

\* updateInfo's last test: prevSettings exists and the flag differs.
ProcessingChanged == prev' # Absent /\ info' # prev'

\* Mutant: the countersVisible() test of updateInfo inverted.
RefreshCountersInverted == fresh' = ~visible

\* updateInfo: if (this.countersVisible()) this.display(true) -- the
\* tbody is emptied and refilled from the counters just stored; a hidden
\* one keeps what it showed.
RefreshCounters == fresh' = visible

(***************************************************************************)
(* Segment.updateInfo(response) with flag p: store it (new counters       *)
(* included), rebuild the counters tbody by display(true) when it is       *)
(* visible, and, when the flag changed, toggleProcessing("init").          *)
(***************************************************************************)
UpdateInfo(p) ==
    /\ Sample(p)
    /\ RefreshCounters
    /\ icon' = IF ProcessingChanged THEN IconFor(p) ELSE icon

(***************************************************************************)
(* The interval timer evaluates updateInfoAsync: an asynchronous getInfo   *)
(* the CE answers from its current state.                                  *)
(***************************************************************************)
Fire ==
    /\ timerOn
    /\ inflight[TRUE] + inflight[FALSE] < MaxInFlight
    /\ inflight' = [inflight EXCEPT ![ceRun] = @ + 1]
    /\ UNCHANGED <<ceRun, timerOn, info, prev, icon, visible, fresh, controls>>

\* updateInfoCallback with an answer carrying p: updateInfo(response).
Receive(p) ==
    /\ inflight[p] > 0
    /\ inflight' = [inflight EXCEPT ![p] = @ - 1]
    /\ UpdateInfo(p)
    /\ UNCHANGED <<ceRun, timerOn, visible, controls>>

\* updateInfoCallback with a fault or timeout response: response.value()
\* is empty, updateInfo logs "Did not receive info" and returns.
TimeOut(p) ==
    /\ inflight[p] > 0
    /\ FALSE \in Outcomes("getInfoAsync")
    /\ inflight' = [inflight EXCEPT ![p] = @ - 1]
    /\ UNCHANGED <<ceRun, timerOn, info, prev, icon, visible, fresh, controls>>

(***************************************************************************)
(* A click on the control calls toggleProcessing(run ? "run" : "pause"),   *)
(* the opposite of what it shows: startTraffic or stopTraffic (the         *)
(* "startup" or "pause" call, its result ignored), then updateInfo()       *)
(* with a synchronous getInfo (a fault logged, nothing stored), whose      *)
(* own "init" the caller then overrides: the control shows the state       *)
(* asked for.                                                              *)
(***************************************************************************)
ToggleProcessing(run) ==
    /\ icon # "none"
    /\ run = (icon = "pause")
    /\ \E done \in Outcomes(IF run THEN "startup" ELSE "pause"),
          read \in Outcomes("getInfo") :
        LET ce == IF done THEN run ELSE ceRun IN
        /\ ceRun' = ce
        /\ IF read THEN Sample(ce) /\ RefreshCounters
                   ELSE UNCHANGED <<info, prev, fresh>>
    /\ icon' = IconFor(run)
    /\ UNCHANGED <<timerOn, inflight, visible, controls>>

\* The channel's slider: resetSegmentTimers, whose setUpdateTimer clears
\* the timer and sets a new one unless the interval is "Off".  Answers
\* already in flight still arrive.
SetUpdateTimer(iv) ==
    /\ controls
    /\ timerOn' = iv
    /\ UNCHANGED <<ceRun, inflight, info, prev, icon, visible, fresh, controls>>

(***************************************************************************)
(* The tab's Activate All or Pause All button: Channel.activate or         *)
(* Channel.pause, one channel-wide call the CE applies to every segment of *)
(* the channel or refuses (logged).  Nothing on the tab is updated: the    *)
(* segment's control learns of it from a later getInfo.                    *)
(***************************************************************************)
ChannelSetAll(run) ==
    /\ controls
    /\ \E ok \in Outcomes(IF run THEN "activateChannel" ELSE "pauseChannel") :
          ceRun' = IF ok THEN run ELSE ceRun
    /\ UNCHANGED <<timerOn, inflight, info, prev, icon, visible, fresh, controls>>

(***************************************************************************)
(* A click on the row's View/Hide image: toggleCounters shows or hides the *)
(* counters tbody as it is, without rebuilding it.                         *)
(***************************************************************************)
ToggleCounters ==
    /\ visible' = ~visible
    /\ UNCHANGED <<ceRun, timerOn, inflight, info, prev, icon, fresh, controls>>

\* Another client of the CE (or the CE itself) starts or pauses the
\* segment: what updateInfo's change test is there to notice.
OtherClientToggles ==
    /\ ceRun' = ~ceRun
    /\ UNCHANGED <<timerOn, inflight, info, prev, icon, visible, fresh, controls>>

Next ==
    \/ Fire
    \/ \E p \in BOOLEAN : Receive(p) \/ TimeOut(p)
    \/ \E run \in BOOLEAN : ToggleProcessing(run)
    \/ \E iv \in BOOLEAN : SetUpdateTimer(iv)
    \/ \E run \in BOOLEAN : ChannelSetAll(run)
    \/ ToggleCounters
    \/ OtherClientToggles

Spec == Init /\ [][Next]_vars

(***************************************************************************)
(* Fairness.  setInterval keeps evaluating its code while the timer is     *)
(* set; every XHR ends in its callback (an answer, a fault or the 10 s     *)
(* timeout).  Of the CE only this is assumed: it does not fail every one   *)
(* of infinitely many polls.  The operator and other clients owe nothing.  *)
(***************************************************************************)
Fairness ==
    /\ WF_vars(Fire)
    /\ \A p \in BOOLEAN : WF_vars(Receive(p) \/ TimeOut(p))
    /\ \A p \in BOOLEAN : SF_vars(Receive(p))

FairSpec == Spec /\ Fairness

-----------------------------------------------------------------------------
(* Properties *)

(***************************************************************************)
(* Once the segment's processing state settles on the CE (whoever set it)  *)
(* and its timer stays set, the run/pause control comes to show that       *)
(* state and keeps showing it: stale answers still in flight, faults and   *)
(* timeouts of polls, and clicks whose own updateInfo overrides the change *)
(* test are all outlived.                                                  *)
(***************************************************************************)
IconFollowsCE ==
    \A b \in BOOLEAN :
        <>[](ceRun = b /\ timerOn) => <>[](icon = IconFor(b))

(***************************************************************************)
(* Once the counters are on view and the timer stays set, the tbody comes  *)
(* to show the counters of the latest stored getInfo answer and keeps      *)
(* showing them: toggleCounters reveals whatever the tbody last held, and  *)
(* only updateInfo's display(true) rebuilds it, whether the answer comes   *)
(* from a poll, late or reordered, or from a click's synchronous getInfo.  *)
(***************************************************************************)
CountersCatchUp ==
    <>[](visible /\ timerOn) => <>[]fresh

====
