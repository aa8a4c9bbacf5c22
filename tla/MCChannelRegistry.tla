------------------------- MODULE MCChannelRegistry -------------------------
(* Two channels and two segment names for ChannelRegistry; the name        *)
(* "length" is len, among the segment names only where a run asks for it.  *)
EXTENDS ChannelRegistry, TLC

CONSTANTS c1, c2, s1, s2, len

MCChans == {c1, c2}
MCSegs == {s1, s2}
AllCalls == Calls

\* Channels and segment names are interchangeable unless one is "length".
NameSymmetry == Permutations(MCChans) \cup Permutations(MCSegs)
====
