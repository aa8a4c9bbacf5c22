--------------------------- MODULE MCSegmentPoller ---------------------------
(* SegmentPoller instantiated for TLC. *)
EXTENDS SegmentPoller

\* Only the asynchronous polls may fail.  A fault of the getInfo that
\* builds the Segment, or of startup/pause, breaks IconFollowsCE (see the
\* hazards at Segment.js:434 and Segment.js:453).
AsyncFaults == {"getInfoAsync"}

=============================================================================
