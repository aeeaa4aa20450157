---------------------------- MODULE MCEditSession ----------------------------
(***************************************************************************)
(* Editors who all want to change the text of the one line there is.       *)
(***************************************************************************)
EXTENDS EditSession, TLC

CONSTANTS alice, bob, m1, words, more

MCText == {words, more}
MCRunes == (words :> 20) @@ (more :> 24)
MCRequest == UNION {{e} \X (1..MaxTries[e]) : e \in Editor}
MCSeedMedia == (m1 :> "draft")
MCSeedSegments ==
  (1 :> [media |-> m1, idx |-> 0, start |-> 0, end |-> 3000, text |-> words,
         speaker |-> NoSpeaker, desc |-> FALSE, version |-> 1,
         status |-> "draft"])
MCSeedSpeakers == <<>>

NewText == [start |-> Keep, end |-> Keep, text |-> more, speaker |-> Keep,
            desc |-> Keep]
MCEdits == {NewText}
MCWants == [e \in Editor |-> NewText]

\* alice submits once; bob wants two edits, submits as often as all edits need
\* and clicks once.
MCGoal == [e \in Editor |-> IF e = alice THEN 1 ELSE 2]
MCMaxTries == [e \in Editor |-> IF e = alice THEN 1 ELSE 3]
MCMaxClicks == [e \in Editor |-> IF e = alice THEN 0 ELSE 1]
=============================================================================
