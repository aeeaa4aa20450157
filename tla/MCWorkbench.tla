----------------------------- MODULE MCWorkbench -----------------------------
(***************************************************************************)
(* Small instances of Workbench: one media with a line of dialogue, a      *)
(* media that is not there yet, a speaker of the first one and two that    *)
(* are not: yet to be registered, or named by a batch and never there.     *)
(***************************************************************************)
EXTENDS Workbench, TLC

CONSTANTS r1, r2, r3, r4, alice, m1, m2, p1, p2, p3, words

MCMedia == {m1, m2}
MCSpeaker == {p1, p2, p3}
MCText == {words}
MCRunes == (words :> 20)

MCSeedMedia == (m1 :> "draft") @@ (m2 :> None)
MCSeedSpeakers == (p1 :> m1) @@ (p2 :> None) @@ (p3 :> None)

Line(i, s, e) == [media |-> m1, idx |-> i, start |-> s, end |-> e,
                  text |-> words, speaker |-> NoSpeaker, desc |-> FALSE,
                  version |-> 1, status |-> "draft"]

MCSegment == 1..3
MCSeedSegments == (1 :> Line(0, 0, 3000)) @@ (2 :> None) @@ (3 :> None)

NoChange == [start |-> Keep, end |-> Keep, text |-> Keep, speaker |-> Keep,
             desc |-> Keep]

MCEdits == {[NoChange EXCEPT !.end = 2000, !.speaker = p1],
            [NoChange EXCEPT !.speaker = p2]}

Input(i, s, e, p) == [idx |-> i, start |-> s, end |-> e, text |-> words,
                      speaker |-> p, desc |-> FALSE]

\* Three batches the import takes, of which the second shares no index with the
\* third and names a speaker nobody registered; one with an index twice, one
\* whose index is taken, one each with a negative index, no duration and no
\* line.
MCBatches == {<<Input(1, 5000, 8000, p1), Input(2, 8000, 9000, NoSpeaker)>>,
              <<Input(1, 2000, 4000, p2)>>,
              <<Input(2, 3000, 4000, p1)>>,
              <<Input(1, 3000, 4000, p1), Input(1, 4000, 5000, p1)>>,
              <<Input(0, 3000, 4000, p1)>>,
              <<Input(-1, 3000, 4000, p1)>>,
              <<Input(1, 3000, 3000, p1)>>,
              <<>>}

MCOneLine == {<<Input(1, 3000, 4000, p1)>>}

Mix(a, b, c, d) == (r1 :> a) @@ (r2 :> b) @@ (r3 :> c) @@ (r4 :> d)

\* Two publishers and two who withdraw; a version compared with a later one
\* while a line is edited; a media and its lines created while the totals are
\* collected; and requests that meet in the lines and speakers of a media.
Together == {<<"publish", "publish", "withdraw", "withdraw">>,
             <<"publish", "publish", "compare", "edit">>,
             <<"media", "import", "stats", "none">>,
             <<"publish", "withdraw", "stats", "none">>,
             <<"speaker", "edit", "publish", "none">>,
             <<"import", "edit", "speaker", "none">>,
             <<"import", "recompute", "publish", "none">>,
             <<"media", "import", "speaker", "none">>}

\* Two imports, one after the other or into two media, of which one is new.
ApartImports == {<<"import", "import", "media", "none">>}

\* With r1 and r2 either way round, so that they are interchangeable.
MCMixes == {Mix(t[1], t[2], t[3], t[4]) : t \in Together \cup ApartImports}
             \cup {Mix(t[2], t[1], t[3], t[4]) : t \in Together \cup ApartImports}

FirstTwo == Permutations({r1, r2})

Pair(a, b) == Mix(a, b, "none", "none")
TwoImports == {Pair("import", "import")}

TwoPublishers == {Pair("publish", "publish")}
=============================================================================
