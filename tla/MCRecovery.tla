------------------------------ MODULE MCRecovery ------------------------------
(***************************************************************************)
(* Small instances of Recovery: two media, one with two lines a gap apart  *)
(* and one with a line too fast to read, so that each has a finding.       *)
(***************************************************************************)
EXTENDS Recovery, TLC

CONSTANTS r1, r2, boot, alice, m1, m2, p1, words, many

MCMedia == {m1, m2}
MCSpeaker == {p1}
MCText == {words, many}
MCRunes == (words :> 20) @@ (many :> 60)

MCSeedMedia == (m1 :> "draft") @@ (m2 :> "draft")
MCSeedSpeakers == (p1 :> m1)

Line(m, i, s, e, text) ==
  [media |-> m, idx |-> i, start |-> s, end |-> e, text |-> text,
   speaker |-> NoSpeaker, desc |-> FALSE, version |-> 1, status |-> "draft"]

MCSegment == 1..3
MCSeedSegments == (1 :> Line(m1, 0, 0, 3000, words)) @@
                  (2 :> Line(m1, 1, 5000, 8000, words)) @@
                  (3 :> Line(m2, 0, 0, 3000, many))

NoChange == [start |-> Keep, end |-> Keep, text |-> Keep, speaker |-> Keep,
             desc |-> Keep]

\* A line that becomes too fast to read.
MCEdits == {[NoChange EXCEPT !.text = many]}

Pair(a, b) == (r1 :> a) @@ (r2 :> b) @@ (boot :> "none")

\* An edit next to a readiness probe; a publish next to a recomputation.
MCMixes == {Pair("edit", "ready"), Pair("publish", "recompute")}
=============================================================================
