--------------------------- MODULE MCTimelineLines ---------------------------
(***************************************************************************)
(* Tables of three lines over five points in time, the last of them the    *)
(* largest the integers hold.                                              *)
(***************************************************************************)
EXTENDS TimelineLines, TLC

CONSTANT words

MCRunes == (words :> 0)
Times == {0, 2, 3, 4, 7}

MCLines ==
  {[idx |-> i, start |-> s, end |-> e, text |-> words, speaker |-> NoSpeaker,
    desc |-> FALSE] : i \in 0..2, s \in Times, e \in Times}

\* A line that ends before it starts is flagged like one of no duration.
MCForward == {line \in MCLines : line.start <= line.end}
=============================================================================
