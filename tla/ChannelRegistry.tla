-------------------------- MODULE ChannelRegistry --------------------------
(***************************************************************************)
(* The client's registry of channels and segments (ChannelManager.js,      *)
(* Channel.js, Segment.js) against the CE's own list, and the per-segment  *)
(* update timers.                                                          *)
(*                                                                         *)
(* channelMgr.channels maps a channel name to a Channel; a Channel's       *)
(* segments object maps a segment name to a Segment, and after a           *)
(* successful getSegments also holds the key "length" (a number).  Every   *)
(* Segment constructor starts a window.setInterval whose code is the       *)
(* string "channelMgr.channels['c'].segments['s'].updateInfoAsync()": the  *)
(* timer names its segment by path, so it is modelled by that path, and    *)
(* timers counts the live timers per path.  held is the set of registered  *)
(* Segments whose timer_id is set; a timer that no registered Segment      *)
(* holds can never be cleared.  The slider's interval matters only through *)
(* setUpdateTimer's test newInterval < max - min: on[c].                   *)
(*                                                                         *)
(* All remote calls are synchronous, so each operator handler is one step; *)
(* a timer firing is a step of its own between handlers.                   *)
(***************************************************************************)
EXTENDS Naturals, FiniteSets

CONSTANTS
    Chans,          \* channel names
    Segs,           \* segment names
    LengthName,     \* the segment name "length"
    MaxTimers,      \* bound on the live timers of one path
    FaultyCalls     \* the remote calls that may fault

VARIABLES
    ceChans,    \* the channels on the CE
    ceSegs,     \* the segments of each channel on the CE
    loaded,     \* the ChannelManager constructor has run
    managed,    \* the keys of channelMgr.channels
    segs,       \* the keys of each channel's segments holding a Segment
    lengthKey,  \* segments.length holds a number (set by getSegments)
    on,         \* the channel's updateInterval starts timers
    held,       \* registered Segments whose timer_id is set
    timers,     \* live setInterval timers per channel and segment path
    lastPoll    \* the outcome of the last timer evaluation

vars == <<ceChans, ceSegs, loaded, managed, segs, lengthKey, on, held,
          timers, lastPoll>>

Calls == {"listChannels", "listSegments", "addChannel", "removeChannel",
          "removeSegment", "add", "segmentExists", "load", "macro"}

ASSUME FaultyCalls \subseteq Calls

\* The results a remote call may return: TRUE is success.
Outcomes(call) == IF call \in FaultyCalls THEN BOOLEAN ELSE {TRUE}

TypeOK ==
    /\ ceChans \subseteq Chans
    /\ ceSegs \in [Chans -> SUBSET Segs]
    /\ loaded \in BOOLEAN
    /\ managed \subseteq Chans
    /\ segs \in [Chans -> SUBSET Segs]
    /\ lengthKey \in [Chans -> BOOLEAN]
    /\ on \in [Chans -> BOOLEAN]
    /\ held \in [Chans -> SUBSET Segs]
    /\ timers \in [Chans -> [Segs -> 0..MaxTimers]]
    /\ lastPoll \in {"none", "ok", "error"}

(***************************************************************************)
(* Any CE state in which a channel's segments exist only in that channel,  *)
(* before the page has built its ChannelManager.                           *)
(***************************************************************************)
Init ==
    /\ ceChans \in SUBSET Chans
    /\ ceSegs \in [Chans -> SUBSET Segs]
    /\ \A c \in Chans \ ceChans : ceSegs[c] = {}
    /\ loaded = FALSE
    /\ managed = {}
    /\ segs = [c \in Chans |-> {}]
    /\ lengthKey = [c \in Chans |-> FALSE]
    /\ on = [c \in Chans |-> TRUE]
    /\ held = [c \in Chans |-> {}]
    /\ timers = [c \in Chans |-> [s \in Segs |-> 0]]
    /\ lastPoll = "none"

(***************************************************************************)
(* Channel.clearSegments: clearUpdateTimer on every value that is a        *)
(* Segment; the timers of the channel's paths that remain.                 *)
(***************************************************************************)
ClearSegmentsRow(c) ==
    [s \in Segs |-> timers[c][s] - (IF s \in held[c] THEN 1 ELSE 0)]

\* Mutant: the Segment constructor always starts the default interval.
SegmentTimerDefault(c) == TRUE

(***************************************************************************)
(* The interval a new Segment starts its timer with: its channel's, when   *)
(* channelMgr already holds the channel, else the default (2500 ms, on).   *)
(***************************************************************************)
SegmentTimerOn(c) == IF c \in managed THEN on[c] ELSE TRUE

(***************************************************************************)
(* Channel.getSegments after a successful listSegments: one new Segment    *)
(* per listed name, then segments.length = i overwrites the Segment named  *)
(* "length" with a number.                                                 *)
(***************************************************************************)
\* Mutant: the numeric "length" key taken for a Segment (instanceof dropped).
LoadedNamesWithLengthKey(names) == names \cup {LengthName}

LoadedNames(names) == names \ {LengthName}

TimersAfterLoad(c, names, iv) ==
    [s \in Segs |-> ClearSegmentsRow(c)[s] + (IF iv /\ s \in names THEN 1 ELSE 0)]

TimersInBound(t) == \A c \in Chans, s \in Segs : t[c][s] <= MaxTimers

\* getSegments of channel c, listing names, new Segments' timers on iff iv.
GetSegments(c, names, iv) ==
    /\ segs' = [segs EXCEPT ![c] = LoadedNames(names)]
    /\ held' = [held EXCEPT ![c] = IF iv THEN LoadedNames(names) ELSE {}]
    /\ lengthKey' = [lengthKey EXCEPT ![c] = TRUE]
    /\ timers' = [timers EXCEPT ![c] = TimersAfterLoad(c, names, iv)]
    /\ TimersInBound(timers')

(***************************************************************************)
(* ChannelManager.getChannels (the constructor, and refresh): clear every  *)
(* channel's segments, then listChannels; if it faults, rval.arraySize()   *)
(* throws and channels stays {}.  Otherwise every listed channel becomes   *)
(* a new Channel(name, false), whose getSegments may fault on its own      *)
(* (valid = false, but the channel is kept).  The channels are not yet in  *)
(* channelMgr while their Segments are built: the default interval.        *)
(***************************************************************************)
GetChannels ==
    \E ok \in Outcomes("listChannels"), listed \in SUBSET ceChans :
        /\ "listSegments" \notin FaultyCalls => listed = ceChans
        /\ loaded' = TRUE
        /\ on' = [c \in Chans |-> TRUE]
        /\ managed' = IF ok THEN ceChans ELSE {}
        /\ LET got == IF ok THEN listed ELSE {} IN
           /\ segs' = [c \in Chans |-> IF c \in got THEN LoadedNames(ceSegs[c]) ELSE {}]
           /\ held' = segs'
           /\ lengthKey' = [c \in Chans |-> c \in got]
           /\ timers' = [c \in Chans |->
                           IF c \in got THEN TimersAfterLoad(c, ceSegs[c], TRUE)
                           ELSE ClearSegmentsRow(c)]
           /\ TimersInBound(timers')
        /\ UNCHANGED <<ceChans, ceSegs, lastPoll>>

\* ChannelManager.isManaged: the channel is in channelMgr.channels.
IsManaged(c) == c \in managed

\* ChannelManager.channelExistsOnCE: the channel is in the CE's list.
ChannelExistsOnCE(c) == c \in ceChans

\* new Channel(c, true): channel.addChannel on the CE, a fault leaving the
\* Channel invalid (not kept); the new Channel has no segments.
NewChannel(c) ==
    /\ \E created \in Outcomes("addChannel") : created
    /\ ceChans' = ceChans \cup {c}
    /\ segs' = [segs EXCEPT ![c] = {}]
    /\ held' = [held EXCEPT ![c] = {}]
    /\ lengthKey' = [lengthKey EXCEPT ![c] = FALSE]

(***************************************************************************)
(* ChannelManager.addChannel(c).  A managed channel only reloads its       *)
(* segments (the result of getSegments is ignored).  Otherwise a new       *)
(* Channel: when the CE already lists c, its getSegments decides valid;    *)
(* else channel.addChannel creates it.  An invalid Channel is dropped.     *)
(***************************************************************************)
AddChannel(c) ==
    /\ loaded
    /\ \E ok \in Outcomes("listSegments") :
        \/ /\ IsManaged(c)
           /\ IF ok THEN GetSegments(c, ceSegs[c], SegmentTimerOn(c))
                    ELSE UNCHANGED <<segs, held, lengthKey, timers>>
           /\ UNCHANGED <<ceChans, ceSegs, managed, on>>
        \/ /\ ~IsManaged(c)
           /\ ChannelExistsOnCE(c)
           /\ ok
           /\ GetSegments(c, ceSegs[c], SegmentTimerOn(c))
           /\ managed' = managed \cup {c}
           /\ on' = [on EXCEPT ![c] = TRUE]
           /\ UNCHANGED <<ceChans, ceSegs>>
        \/ /\ ~IsManaged(c)
           /\ ~ChannelExistsOnCE(c)
           /\ NewChannel(c)
           /\ managed' = managed \cup {c}
           /\ on' = [on EXCEPT ![c] = TRUE]
           /\ UNCHANGED <<ceSegs, timers>>
    /\ UNCHANGED <<loaded, lastPoll>>

\* Channel.destroy: channel.removeChannel, a fault only logged.
ChannelDestroy(c) ==
    \E ok \in Outcomes("removeChannel") :
        /\ ceChans' = IF ok THEN ceChans \ {c} ELSE ceChans
        /\ ceSegs' = IF ok THEN [ceSegs EXCEPT ![c] = {}] ELSE ceSegs

\* Mutant: the channel deleted on the CE but kept in channelMgr.channels.
RemoveChannelKeepsManaged(c) ==
    /\ loaded
    /\ c \in managed
    /\ ChannelDestroy(c)
    /\ UNCHANGED <<loaded, managed, segs, held, lengthKey, on, timers, lastPoll>>

(***************************************************************************)
(* The "Delete Channel" button: Channel.destroy asks the CE to remove the  *)
(* channel and only logs a refusal; the channel is then deleted from       *)
(* channelMgr.channels in every case, its Segments' timers left running.   *)
(***************************************************************************)
RemoveChannel(c) ==
    /\ loaded
    /\ c \in managed
    /\ ChannelDestroy(c)
    /\ managed' = managed \ {c}
    /\ segs' = [segs EXCEPT ![c] = {}]
    /\ held' = [held EXCEPT ![c] = {}]
    /\ lengthKey' = [lengthKey EXCEPT ![c] = FALSE]
    /\ UNCHANGED <<loaded, on, timers, lastPoll>>

\* Mutant: removeSegment does not call Channel.refresh after the CE removed it.
RemoveSegmentNoRefresh(c, s) ==
    /\ loaded
    /\ c \in managed
    /\ s \in segs[c]
    /\ \E ok \in Outcomes("removeSegment") :
        /\ ceSegs' = IF ok THEN [ceSegs EXCEPT ![c] = @ \ {s}] ELSE ceSegs
    /\ UNCHANGED <<ceChans, loaded, managed, on, lastPoll, segs, held, lengthKey, timers>>

\* Channel.refresh: the segment rows removed, then getSegments.
ChannelRefresh(c, names, iv) == GetSegments(c, names, iv)

(***************************************************************************)
(* The "Remove Segment" button of a segment row (rows exist for values     *)
(* that are Segments): channel.removeSegment; on success Channel.refresh   *)
(* reloads the channel's segments with its own interval.                   *)
(***************************************************************************)
RemoveSegment(c, s) ==
    /\ loaded
    /\ c \in managed
    /\ s \in segs[c]
    /\ \E ok \in Outcomes("removeSegment"), reloaded \in Outcomes("listSegments") :
        \/ /\ ~ok
           /\ UNCHANGED <<ceSegs, segs, held, lengthKey, timers>>
        \/ /\ ok
           /\ ceSegs' = [ceSegs EXCEPT ![c] = @ \ {s}]
           /\ IF reloaded THEN ChannelRefresh(c, ceSegs'[c], on[c])
                          ELSE UNCHANGED <<segs, held, lengthKey, timers>>
    /\ UNCHANGED <<ceChans, loaded, managed, on, lastPoll>>

(***************************************************************************)
(* The interval slider's change handler, Channel.resetSegmentTimers:       *)
(* setUpdateTimer (clear, then set if on) on every value that is a Segment.*)
(***************************************************************************)
ResetSegmentTimers(c, iv) ==
    /\ loaded
    /\ c \in managed
    /\ on' = [on EXCEPT ![c] = iv]
    /\ held' = [held EXCEPT ![c] = IF iv THEN segs[c] ELSE {}]
    /\ timers' = [timers EXCEPT ![c] =
                    [s \in Segs |-> ClearSegmentsRow(c)[s]
                                    + (IF iv /\ s \in segs[c] THEN 1 ELSE 0)]]
    /\ TimersInBound(timers')
    /\ UNCHANGED <<ceChans, ceSegs, loaded, managed, segs, lengthKey, lastPoll>>

(***************************************************************************)
(* DLL.validate's duplicate check for a new segment's identifier:          *)
(* segments.hasOwnProperty(name).                                          *)
(***************************************************************************)
IsDuplicate(c, s) == s \in segs[c] \/ (s = LengthName /\ lengthKey[c])

\* new Segment(c, s, true, dll): a Segment object whose setUpdateTimer, with
\* the channel's interval or the default one, starts a timer when iv.
NewSegment(c, s, iv) ==
    /\ timers' = [timers EXCEPT ![c][s] = @ + (IF iv THEN 1 ELSE 0)]
    /\ TimersInBound(timers')

\* Segment.existsOnCE after the add: channel.segmentExists, a fault false.
SegmentExistsOnCE(c, s, seen) == seen /\ s \in ceSegs'[c]

\* Channel.addSegment: segments[s] = segRef (replacing a numeric length
\* entry named s), the Segment's timer held when it has one.
AddSegment(c, s, iv) ==
    /\ segs' = [segs EXCEPT ![c] = @ \cup {s}]
    /\ held' = IF iv THEN [held EXCEPT ![c] = @ \cup {s}] ELSE held
    /\ lengthKey' = IF s = LengthName THEN [lengthKey EXCEPT ![c] = FALSE] ELSE lengthKey

(***************************************************************************)
(* SegmentDLL.applyChangesToCE for a new segment of a managed channel:     *)
(* new Segment(..., noQuery) starts its timer, add creates the instance,   *)
(* and only when existsOnCE then answers yes is the Segment registered by  *)
(* Channel.addSegment.  The settings writes in between are SettingForm's.  *)
(***************************************************************************)
CreateSegment(c, s) ==
    /\ loaded
    /\ c \in managed
    /\ ~IsDuplicate(c, s)
    /\ \E added \in Outcomes("add"), seen \in Outcomes("segmentExists") :
        /\ ceSegs' = IF added THEN [ceSegs EXCEPT ![c] = @ \cup {s}] ELSE ceSegs
        /\ LET iv == SegmentTimerOn(c)
           IN /\ NewSegment(c, s, iv)
              /\ IF SegmentExistsOnCE(c, s, seen)
                    THEN AddSegment(c, s, iv)
                    ELSE UNCHANGED <<segs, held, lengthKey>>
    /\ UNCHANGED <<ceChans, loaded, managed, on, lastPoll>>

\* Macro.execute on success: the CE's template method adds segments to c.
MacroCall(c, tmpl) == ceSegs' = [ceSegs EXCEPT ![c] = @ \cup tmpl]

(***************************************************************************)
(* MacroDLL.applyChangesToCE from channel c's template menu: a refused     *)
(* load ends the handler; Macro.execute then calls the module's method on  *)
(* the CE with the channel name, which adds the template's segments, and  *)
(* only on success does channelMgr.addChannel(c) reload the managed       *)
(* channel (its own result ignored).                                       *)
(***************************************************************************)
MacroExecute(c) ==
    /\ loaded
    /\ c \in managed
    /\ \E ok \in Outcomes("load"), executed \in Outcomes("macro"),
         tmpl \in SUBSET Segs, reloaded \in Outcomes("listSegments") :
        \/ /\ ~(ok /\ executed)
           /\ UNCHANGED <<ceSegs, segs, held, lengthKey, timers>>
        \/ /\ ok /\ executed
           /\ MacroCall(c, tmpl)
           /\ IF reloaded THEN GetSegments(c, ceSegs'[c], SegmentTimerOn(c))
                          ELSE UNCHANGED <<segs, held, lengthKey, timers>>
    /\ UNCHANGED <<ceChans, loaded, managed, on, lastPoll>>

(***************************************************************************)
(* A timer fires and its code string is evaluated: it reaches a Segment    *)
(* only if the channel is managed and the key holds a Segment; otherwise   *)
(* the evaluation throws a TypeError.                                      *)
(***************************************************************************)
TimerFires(c, s) ==
    /\ timers[c][s] > 0
    /\ lastPoll' = IF c \in managed /\ s \in segs[c] THEN "ok" ELSE "error"
    /\ UNCHANGED <<ceChans, ceSegs, loaded, managed, segs, lengthKey, on,
                   held, timers>>

Next ==
    \/ GetChannels
    \/ \E c \in Chans :
        \/ AddChannel(c)
        \/ RemoveChannel(c)
        \/ MacroExecute(c)
        \/ \E iv \in BOOLEAN : ResetSegmentTimers(c, iv)
        \/ \E s \in Segs : RemoveSegment(c, s) \/ CreateSegment(c, s) \/ TimerFires(c, s)

Spec == Init /\ [][Next]_vars

-----------------------------------------------------------------------------
(***************************************************************************)
(* Every Segment of a channel polls exactly when the channel's interval    *)
(* slider says so, whichever of getChannels, addChannel, Channel.refresh,  *)
(* resetSegmentTimers or applyChangesToCE created it.                      *)
(***************************************************************************)
HeldMatchesInterval ==
    \A c \in managed : held[c] = IF on[c] THEN segs[c] ELSE {}

(***************************************************************************)
(* No timer's code is ever evaluated against a path that holds no Segment  *)
(* (it would throw on every tick, forever).                                *)
(***************************************************************************)
NoOrphanTimerFires == lastPoll # "error"

(***************************************************************************)
(* Every channel in channelMgr.channels is a channel the CE has: a refused *)
(* channel.removeChannel leaves the CE's channel unmanaged (removeChannel  *)
(* deletes it locally anyway), never the reverse, and neither a refused    *)
(* addChannel, a channel invalid after a faulting listSegments, nor a      *)
(* faulting listChannels in getChannels leaves a managed channel the CE    *)
(* lacks.                                                                  *)
(***************************************************************************)
ManagedOnCE == managed \subseteq ceChans
====
