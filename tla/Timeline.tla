------------------------------ MODULE Timeline ------------------------------
(***************************************************************************)
(* The analysis engine of internal/timeline: which findings a set of       *)
(* subtitle rows gives rise to.                                            *)
(*                                                                         *)
(* "rows" is what ListSegments returned: a function from row ids to rows.  *)
(* Row ids are the SQLite rowids, numbers that grow in insertion order;    *)
(* they break the ties the ORDER BY and the stable sort leave open.        *)
(* A text is a value with a length in runes; Blank holds the texts that    *)
(* strings.TrimSpace empties.                                              *)
(***************************************************************************)
EXTENDS Integers, FiniteSets

CONSTANTS
  Text,                \* the texts a row can carry
  Blank,               \* those that are empty once trimmed
  Runes,               \* Runes[t]: the length of t in runes
  NoSpeaker,           \* the empty speaker id
  MaxCPS,              \* config.Thresholds, internal/config/config.go
  MaxSegmentChars,
  GapThresholdMs,
  OverlapToleranceMs,
  IntHalf              \* int64 is -IntHalf .. IntHalf - 1

ASSUME TextAssumption ==
  /\ Blank \subseteq Text
  /\ Runes \in [Text -> Nat]

ASSUME ThresholdAssumption ==
  /\ MaxCPS \in Nat
  /\ MaxSegmentChars \in Nat
  /\ IntHalf \in Nat \ {0}
  /\ GapThresholdMs \in 0..(IntHalf - 1)
  /\ OverlapToleranceMs \in 0..(IntHalf - 1)

RowRule == {"unknown_speaker", "non_positive_duration", "descriptive_missing",
            "empty", "long_line", "overspeed"}
PairRule == {"overlap", "gap"}
Rule == RowRule \cup PairRule

\* Two's-complement subtraction of int64 values.
Minus(a, b) == ((a - b + IntHalf) % (2 * IntHalf)) - IntHalf

Positive(row) == row.start < row.end

\* ReadingSpeedCPS: no speed when the subtraction comes out non-positive;
\* otherwise runes / (ms / 1000) > MaxCPS, multiplied out.
Overspeed(row) ==
  LET ms == Minus(row.end, row.start)
  IN  ms > 0 /\ Runes[row.text] * 1000 > MaxCPS * ms

\* The rules of analyzeOne that a single row breaks.
Breaks(row, rule, valid) ==
  \/ /\ rule = "unknown_speaker"
     /\ row.speaker # NoSpeaker
     /\ row.speaker \notin valid
  \/ rule = "non_positive_duration" /\ ~Positive(row)
  \/ /\ Positive(row)
     /\ row.text \in Blank
     /\ rule = IF row.desc THEN "descriptive_missing" ELSE "empty"
  \/ /\ Positive(row)
     /\ row.text \notin Blank
     /\ \/ rule = "long_line" /\ Runes[row.text] > MaxSegmentChars
        \/ rule = "overspeed" /\ Overspeed(row)

\* The order Analyze sorts into: start, then index, then the order the rows
\* were listed in, which for equal starts and indexes is the rowid order.
BeforeAsListed(rows, a, b) ==
  \/ rows[a].start < rows[b].start
  \/ rows[a].start = rows[b].start /\ a < b

BeforeByIndex(rows, a, b) ==
  \/ rows[a].idx < rows[b].idx
  \/ rows[a].idx = rows[b].idx /\ a < b

Before(rows, a, b) ==
  \/ rows[a].start < rows[b].start
  \/ /\ rows[a].start = rows[b].start
     /\ \/ rows[a].idx < rows[b].idx
        \/ rows[a].idx = rows[b].idx /\ a < b

Adjacent(rows, a, b) ==
  /\ Before(rows, a, b)
  /\ ~\E c \in DOMAIN rows : Before(rows, a, c) /\ Before(rows, c, b)

Overlaps(prev, cur) == cur.start < Minus(prev.end, OverlapToleranceMs)

\* The rule that neighbours break. A previous row of no duration is skipped.
PairBreaksFromThreshold(prev, cur, rule) ==
  /\ Positive(prev)
  /\ IF Overlaps(prev, cur)
       THEN rule = "overlap"
       ELSE rule = "gap" /\ Minus(cur.start, prev.end) >= GapThresholdMs

PairBreaks(prev, cur, rule) ==
  /\ Positive(prev)
  /\ IF Overlaps(prev, cur)
       THEN rule = "overlap"
       ELSE rule = "gap" /\ Minus(cur.start, prev.end) > GapThresholdMs

\* Analyze gives at most one finding per row and rule, so its result is a set.
Analyze(rows, valid) ==
  {f \in [seg : DOMAIN rows, rule : Rule] :
     \/ f.rule \in RowRule /\ Breaks(rows[f.seg], f.rule, valid)
     \/ /\ f.rule \in PairRule
        /\ \E p \in DOMAIN rows :
             /\ Adjacent(rows, p, f.seg)
             /\ PairBreaks(rows[p], rows[f.seg], f.rule)}
=============================================================================
