---------------------------- MODULE TimelineLines ----------------------------
(***************************************************************************)
(* What Analyze promises about a table of lines, whatever the lines: a     *)
(* table is built up line by line and each table on the way is analysed.   *)
(* Analyze looks at neighbours in the sorted order only; the promises are  *)
(* about all the lines.                                                    *)
(***************************************************************************)
EXTENDS Timeline

CONSTANTS
  Segment,     \* row ids, numbered in insertion order
  Lines        \* the rows there can be

ASSUME LinesAssumption ==
  /\ Segment \subseteq Nat
  /\ IsFiniteSet(Segment)
  /\ Lines \subseteq [idx : Nat, start : Int, end : Int, text : Text,
                      speaker : {NoSpeaker}, desc : BOOLEAN]
  /\ \A line \in Lines : /\ line.start \in 0..(IntHalf - 1)
                         /\ line.end \in 0..(IntHalf - 1)

VARIABLE rows

Init == rows = [s \in {} |-> 0]

AddLine ==
  \E s \in Segment, line \in Lines :
    /\ \A t \in Segment : t \in DOMAIN rows <=> t < s
    /\ rows' = [t \in DOMAIN rows \cup {s} |-> IF t = s THEN line ELSE rows[t]]

\* The table is as long as it gets.
Full == DOMAIN rows = Segment /\ UNCHANGED rows

Next == AddLine \/ Full

Spec == Init /\ [][Next]_rows
-----------------------------------------------------------------------------
Findings == Analyze(rows, {})

Flagged(rule) == {f.seg : f \in {g \in Findings : g.rule = rule}}

\* Lines without overlap finding do not overlap: when no neighbours do, no two
\* lines on screen do, lines of no duration in between included.  (With the
\* tolerance of 0 that Default sets.)
NoOverlapMissed ==
  OverlapToleranceMs = 0 /\ Flagged("overlap") = {} =>
    \A a, b \in DOMAIN rows :
      a # b /\ Positive(rows[a]) /\ Positive(rows[b])
        => rows[a].end <= rows[b].start \/ rows[b].end <= rows[a].start

\* The lines that start with line b or ahead of it.
Earlier(b) == {a \in DOMAIN rows \ {b} : rows[a].start <= rows[b].start}

\* Nothing is on screen for longer than the threshold ahead of line b.
Silence(b) ==
  /\ Earlier(b) # {}
  /\ \A a \in Earlier(b) : rows[b].start - rows[a].end > GapThresholdMs

\* Every silence between lines is reported as a gap, and when no lines overlap
\* nothing else is, up to the largest times an int64 holds.  (The service keeps
\* lines of no duration out, and the tolerance is the 0 of Default.)
GapsExact ==
  (\A s \in DOMAIN rows : Positive(rows[s])) =>
    LET silent == {b \in DOMAIN rows : Silence(b)} IN
    /\ silent \subseteq Flagged("gap")
    /\ OverlapToleranceMs = 0 /\ Flagged("overlap") = {}
         => Flagged("gap") = silent

\* The findings by their lines, forgetting the row ids.
Reported(table) == {<<table[f.seg], f.rule>> : f \in Analyze(table, {})}

Reorderings ==
  {p \in [DOMAIN rows -> DOMAIN rows] :
     \A s, t \in DOMAIN rows : p[s] = p[t] => s = t}

\* The findings are those of the lines, not of the order they were imported in:
\* with unique indexes, lines listed in any order are given the same findings
\* (DESIGN.md:39, the same input gives the same result).
OrderIrrelevant ==
  (\A s, t \in DOMAIN rows : rows[s].idx = rows[t].idx => s = t) =>
    \A p \in Reorderings :
      Reported([s \in DOMAIN rows |-> rows[p[s]]]) = Reported(rows)
=============================================================================
