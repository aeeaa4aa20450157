--------------------------- MODULE MCEditSegment ---------------------------
(***************************************************************************)
(* Small instances of EditSegment: one media with two lines a gap apart,   *)
(* one speaker of the media and one that was never registered.             *)
(***************************************************************************)
EXTENDS EditSegment, TLC

CONSTANTS r1, r2, r3, alice, bob, m1, p1, p2, words, spaces

MCMedia == {m1}
MCSpeaker == {p1, p2}
MCText == {words, spaces}
MCBlank == {spaces}
MCRunes == (words :> 20) @@ (spaces :> 3)

Line(i, s, e) == [media |-> m1, idx |-> i, start |-> s, end |-> e,
                  text |-> words, speaker |-> NoSpeaker, desc |-> FALSE,
                  version |-> 1, status |-> "draft"]

MCSeedMedia == (m1 :> "draft")
MCSegment == 1..2
MCSeedSegments == (1 :> Line(0, 0, 3000)) @@ (2 :> Line(1, 5000, 8000))

MCSeedSpeakers == (p1 :> m1) @@ (p2 :> None)

NoChange == [start |-> Keep, end |-> Keep, text |-> Keep, speaker |-> Keep,
             desc |-> Keep]

\* Two edits that are sound each for itself: start and end meet when both
\* apply, and the second line's end would come before its start.
TimingEdits == {[NoChange EXCEPT !.start = 2000],
                [NoChange EXCEPT !.end = 2000]}

\* Besides: blank the text, name a speaker that is there and one that is not.
MCEdits == TimingEdits \cup
           {[NoChange EXCEPT !.text = spaces],
            [NoChange EXCEPT !.speaker = p1],
            [NoChange EXCEPT !.speaker = p2]}

\* The two timings, one of them with a speaker that is there, and a speaker
\* that is not.
SpokenEdits == {[NoChange EXCEPT !.start = 2000, !.speaker = p1],
                [NoChange EXCEPT !.end = 2000],
                [NoChange EXCEPT !.speaker = p2]}

\* Without an edit that only names the speaker.
SerialEdits == {e \in MCEdits : e.speaker # p1}

Requests == Permutations(Request)
=============================================================================
