------------------------ MODULE TimelineLines_proofs ------------------------
(***************************************************************************)
(* What looking at neighbours in the sorted order is enough for, in every  *)
(* table of lines, however long, at any times and with any thresholds.     *)
(***************************************************************************)
EXTENDS TimelineLines, FiniteSetTheorems, WellFoundedInduction, TLAPS

LEMMA LeastNat ==
  ASSUME NEW S, S \subseteq Nat, S # {}
  PROVE  \E m \in S : \A k \in S : m <= k
<1> DEFINE R == {ss \in Nat \X Nat : ss[1] < ss[2]}
<1>1. IsWellFoundedOn(R, Nat)
  BY NatLessThanWellFounded DEF OpToRel
<1>2. PICK m \in S : \A k \in S : <<k, m>> \notin R
  <2> HIDE DEF R
  <2> QED
    BY <1>1, WFMin
<1>3. \A k \in S : ~(k < m)
  BY <1>2
<1> QED
  BY <1>3

LEMMA GreatestNat ==
  ASSUME NEW S, NEW n \in Nat, S \subseteq 0..n, S # {}
  PROVE  \E m \in S : \A k \in S : k <= m
<1> DEFINE T == {n - x : x \in S}
<1>1. T \subseteq Nat
  OBVIOUS
<1>2. T # {}
  OBVIOUS
<1>3. PICK t \in T : \A u \in T : t <= u
  <2> HIDE DEF T
  <2> QED
    BY <1>1, <1>2, LeastNat
<1>4. PICK m \in S : t = n - m
  OBVIOUS
<1>5. ASSUME NEW k \in S PROVE k <= m
  <2>1. t <= n - k
    BY <1>3
  <2> QED
    BY <1>4, <2>1
<1> QED
  BY <1>5

\* Differences of times fit in an int64.
LEMMA MinusExact ==
  ASSUME NEW a \in 0..(IntHalf - 1), NEW b \in 0..(IntHalf - 1)
  PROVE  Minus(a, b) = a - b
BY ThresholdAssumption DEF Minus

-----------------------------------------------------------------------------
(***************************************************************************)
(* The sorted order.                                                       *)
(***************************************************************************)

Table(f) == DOMAIN f \subseteq Segment /\ \A s \in DOMAIN f : f[s] \in Lines

LEMMA Typed ==
  ASSUME NEW f, Table(f), NEW s \in DOMAIN f
  PROVE  /\ s \in Nat
         /\ f[s].idx \in Nat
         /\ f[s].start \in 0..(IntHalf - 1)
         /\ f[s].end \in 0..(IntHalf - 1)
BY LinesAssumption DEF Table

LEMMA BeforeIsOrder ==
  ASSUME NEW f, Table(f)
  PROVE  /\ \A a \in DOMAIN f : ~Before(f, a, a)
         /\ \A a, b \in DOMAIN f : a = b \/ Before(f, a, b) \/ Before(f, b, a)
         /\ \A a, b, c \in DOMAIN f :
              Before(f, a, b) /\ Before(f, b, c) => Before(f, a, c)
<1> USE ThresholdAssumption
<1>1. \A a \in DOMAIN f : ~Before(f, a, a)
  BY Typed DEF Before
<1>2. ASSUME NEW a \in DOMAIN f, NEW b \in DOMAIN f
      PROVE  a = b \/ Before(f, a, b) \/ Before(f, b, a)
  BY Typed DEF Before
<1>3. ASSUME NEW a \in DOMAIN f, NEW b \in DOMAIN f, NEW c \in DOMAIN f,
             Before(f, a, b), Before(f, b, c)
      PROVE  Before(f, a, c)
  BY <1>3, Typed DEF Before
<1> QED
  BY <1>1, <1>2, <1>3

\* How many lines of S come ahead of x.
Rank(f, S, x) == Cardinality({y \in S : Before(f, y, x)})

LEMMA RankGrows ==
  ASSUME NEW f, Table(f), NEW S, S \subseteq DOMAIN f,
         NEW x \in S, NEW y \in S, Before(f, x, y)
  PROVE  Rank(f, S, x) < Rank(f, S, y)
<1> DEFINE A == {z \in S : Before(f, z, x)}
           B == {z \in S : Before(f, z, y)}
<1>1. IsFiniteSet(S)
  BY LinesAssumption, FS_Subset DEF Table
<1>2. A \subseteq B /\ x \in B /\ x \notin A
  BY BeforeIsOrder
<1>3. IsFiniteSet(A) /\ IsFiniteSet(B)
  BY <1>1, FS_Subset
<1>4. Cardinality(A) <= Cardinality(B) /\ (Cardinality(A) = Cardinality(B) => A = B)
  <2> HIDE DEF A, B
  <2> QED
    BY <1>2, <1>3, FS_Subset
<1>5. Cardinality(A) \in Nat /\ Cardinality(B) \in Nat
  BY <1>3, FS_CardinalityType
<1> QED
  BY <1>2, <1>4, <1>5 DEF Rank

LEMMA FirstAndLast ==
  ASSUME NEW f, Table(f), NEW S, S \subseteq DOMAIN f, S # {}
  PROVE  /\ \E x \in S : \A y \in S : y = x \/ Before(f, x, y)
         /\ \E x \in S : \A y \in S : y = x \/ Before(f, y, x)
<1> DEFINE Ranks == {Rank(f, S, x) : x \in S}
<1>1. IsFiniteSet(S)
  BY LinesAssumption, FS_Subset DEF Table
<1>2. Cardinality(S) \in Nat
  BY <1>1, FS_CardinalityType
<1>3. ASSUME NEW x \in S PROVE Rank(f, S, x) \in 0..Cardinality(S)
  <2>1. {y \in S : Before(f, y, x)} \subseteq S
    OBVIOUS
  <2> QED
    BY <1>1, <1>2, <2>1, FS_Subset, FS_CardinalityType DEF Rank
<1>4. Ranks \subseteq 0..Cardinality(S) /\ Ranks \subseteq Nat /\ Ranks # {}
  BY <1>2, <1>3
<1>5. \E x \in S : \A y \in S : Rank(f, S, x) <= Rank(f, S, y)
  <2>1. PICK m \in Ranks : \A k \in Ranks : m <= k
    <3> HIDE DEF Ranks
    <3> QED
      BY <1>2, <1>4, LeastNat
  <2> QED
    BY <2>1
<1>6. \E x \in S : \A y \in S : Rank(f, S, y) <= Rank(f, S, x)
  <2>1. PICK m \in Ranks : \A k \in Ranks : k <= m
    <3> HIDE DEF Ranks
    <3> QED
      BY <1>2, <1>4, GreatestNat
  <2> QED
    BY <2>1
<1>7. \A x, y \in S : Rank(f, S, x) <= Rank(f, S, y) => y = x \/ Before(f, x, y)
  BY <1>3, RankGrows, BeforeIsOrder
<1>8. \E x \in S : \A y \in S : y = x \/ Before(f, x, y)
  BY <1>5, <1>7
<1>9. \E x \in S : \A y \in S : y = x \/ Before(f, y, x)
  BY <1>6, <1>7
<1> QED
  BY <1>8, <1>9

-----------------------------------------------------------------------------
(***************************************************************************)
(* The table of the specification.                                         *)
(***************************************************************************)

LEMMA TableHolds == Spec => []Table(rows)
<1>1. Init => Table(rows)
  BY DEF Init, Table
<1>2. Table(rows) /\ [Next]_rows => Table(rows)'
  BY DEF Table, Next, AddLine, Full
<1> QED
  BY <1>1, <1>2, PTL DEF Spec

\* A line with neighbours ahead is flagged for what it breaks with them.
LEMMA PairFlagged ==
  ASSUME Table(rows), NEW p \in DOMAIN rows, NEW b \in DOMAIN rows,
         Adjacent(rows, p, b), NEW rule \in PairRule,
         PairBreaks(rows[p], rows[b], rule)
  PROVE  b \in Flagged(rule)
<1>1. [seg |-> b, rule |-> rule] \in Findings
  BY DEF Findings, Analyze, Rule
<1> QED
  BY <1>1 DEF Flagged

\* The next line of a positive one starts after it is over, if not flagged.
LEMMA NextStartsLater ==
  ASSUME Table(rows), OverlapToleranceMs = 0, Flagged("overlap") = {},
         NEW p \in DOMAIN rows, NEW b \in DOMAIN rows,
         Adjacent(rows, p, b), Positive(rows[p])
  PROVE  rows[p].end <= rows[b].start
<1>1. ~Overlaps(rows[p], rows[b])
  BY PairFlagged DEF PairBreaks, PairRule
<1>2. Minus(rows[p].end, 0) = rows[p].end
  BY Typed, MinusExact, ThresholdAssumption
<1> QED
  BY <1>1, <1>2, Typed, ThresholdAssumption DEF Overlaps

\* So does every later line: it comes no earlier than the next.
LEMMA LaterStartsLater ==
  ASSUME Table(rows), OverlapToleranceMs = 0, Flagged("overlap") = {},
         NEW a \in DOMAIN rows, NEW b \in DOMAIN rows,
         Before(rows, a, b), Positive(rows[a])
  PROVE  rows[a].end <= rows[b].start
<1> DEFINE After == {x \in DOMAIN rows : Before(rows, a, x)}
<1>1. PICK c \in After : \A x \in After : x = c \/ Before(rows, c, x)
  <2>1. After \subseteq DOMAIN rows /\ After # {}
    OBVIOUS
  <2> HIDE DEF After
  <2> QED
    BY <2>1, FirstAndLast
<1>2. Adjacent(rows, a, c)
  BY <1>1, BeforeIsOrder DEF Adjacent
<1>3. rows[a].end <= rows[c].start
  BY <1>2, NextStartsLater
<1>4. rows[c].start <= rows[b].start
  BY <1>1, Typed, ThresholdAssumption DEF Before
<1> QED
  BY <1>3, <1>4, Typed, ThresholdAssumption

LEMMA TableMissesNoOverlap == Table(rows) => NoOverlapMissed
<1> SUFFICES ASSUME Table(rows), OverlapToleranceMs = 0, Flagged("overlap") = {},
                    NEW a \in DOMAIN rows, NEW b \in DOMAIN rows, a # b,
                    Positive(rows[a]), Positive(rows[b])
             PROVE  rows[a].end <= rows[b].start \/ rows[b].end <= rows[a].start
  BY DEF NoOverlapMissed
<1> QED
  BY BeforeIsOrder, LaterStartsLater

\* Comparing neighbours is enough to find that lines overlap: in no table does
\* an overlap between any two lines go without a finding.
THEOREM OverlapsFound == Spec => []NoOverlapMissed
BY TableHolds, TableMissesNoOverlap, PTL

-----------------------------------------------------------------------------
(***************************************************************************)
(* Silence.                                                                *)
(***************************************************************************)

\* The line ahead of a silent one is its last neighbour, and no overlap.
LEMMA SilenceFlagged ==
  ASSUME Table(rows), \A s \in DOMAIN rows : Positive(rows[s]),
         NEW b \in DOMAIN rows, Silence(b)
  PROVE  b \in Flagged("gap")
<1> USE ThresholdAssumption
<1> DEFINE Ahead == {x \in DOMAIN rows : Before(rows, x, b)}
<1>1. \A a \in Earlier(b) : a \in Ahead
  BY Typed DEF Earlier, Silence, Positive, Before
<1>2. PICK p \in Ahead : \A x \in Ahead : x = p \/ Before(rows, x, p)
  <2>1. Ahead \subseteq DOMAIN rows /\ Ahead # {}
    BY <1>1 DEF Silence
  <2> HIDE DEF Ahead
  <2> QED
    BY <2>1, FirstAndLast
<1>3. Adjacent(rows, p, b)
  BY <1>2, BeforeIsOrder DEF Adjacent
<1>4. p \in Earlier(b)
  BY <1>2, BeforeIsOrder, Typed DEF Earlier, Before
<1>5. rows[b].start - rows[p].end > GapThresholdMs
  BY <1>4 DEF Silence
<1>6. /\ Minus(rows[b].start, rows[p].end) = rows[b].start - rows[p].end
      /\ Minus(rows[p].end, OverlapToleranceMs) = rows[p].end - OverlapToleranceMs
  BY Typed, MinusExact
<1>7. ~Overlaps(rows[p], rows[b])
  BY <1>5, <1>6, Typed DEF Overlaps
<1> QED
  BY <1>3, <1>5, <1>6, <1>7, PairFlagged DEF PairBreaks, PairRule

LEMMA GapIsSilence ==
  ASSUME Table(rows), \A s \in DOMAIN rows : Positive(rows[s]),
         OverlapToleranceMs = 0, Flagged("overlap") = {},
         NEW b \in Flagged("gap")
  PROVE  b \in DOMAIN rows /\ Silence(b)
<1> USE ThresholdAssumption
<1>1. PICK p \in DOMAIN rows :
        /\ b \in DOMAIN rows
        /\ Adjacent(rows, p, b)
        /\ PairBreaks(rows[p], rows[b], "gap")
  BY DEF Flagged, Findings, Analyze, RowRule
<1>2. rows[b].start - rows[p].end > GapThresholdMs
  <2>1. Minus(rows[b].start, rows[p].end) = rows[b].start - rows[p].end
    BY <1>1, Typed, MinusExact
  <2> QED
    BY <1>1, <2>1 DEF PairBreaks
<1>3. p \in Earlier(b)
  BY <1>1, BeforeIsOrder, Typed DEF Earlier, Before, Adjacent
<1>4. ASSUME NEW a \in Earlier(b) PROVE rows[b].start - rows[a].end > GapThresholdMs
  <2>1. a \in DOMAIN rows /\ a # b /\ rows[a].start <= rows[b].start
    BY DEF Earlier
  <2>2. Before(rows, a, b)
    <3> SUFFICES ASSUME Before(rows, b, a) PROVE FALSE
      BY <1>1, <2>1, BeforeIsOrder
    <3>1. rows[b].end <= rows[a].start
      BY <1>1, <2>1, LaterStartsLater
    <3> QED
      BY <1>1, <2>1, <3>1, Typed DEF Positive
  <2>3. a = p \/ Before(rows, a, p)
    BY <1>1, <2>1, <2>2, BeforeIsOrder DEF Adjacent
  <2>4. CASE Before(rows, a, p)
    <3>1. rows[a].end <= rows[p].start
      BY <1>1, <2>1, <2>4, LaterStartsLater
    <3> QED
      BY <1>1, <1>2, <2>1, <3>1, Typed DEF Positive
  <2> QED
    BY <1>2, <2>3, <2>4
<1> QED
  BY <1>1, <1>3, <1>4 DEF Silence

LEMMA TableGapsExact == Table(rows) => GapsExact
BY SilenceFlagged, GapIsSilence DEF GapsExact

\* In every table the silences are reported as gaps and, when no lines overlap,
\* nothing else is, up to the largest times an int64 holds.
THEOREM GapsReported == Spec => []GapsExact
BY TableHolds, TableGapsExact, PTL

-----------------------------------------------------------------------------
(***************************************************************************)
(* Lines listed in another order.                                          *)
(***************************************************************************)

LEMMA ReorderingReachesAll ==
  ASSUME Table(rows), NEW p \in Reorderings, NEW t \in DOMAIN rows
  PROVE  \E s \in DOMAIN rows : p[s] = t
<1> DEFINE D == DOMAIN rows
           T == {p[s] : s \in D}
<1>1. IsFiniteSet(D)
  BY LinesAssumption, FS_Subset DEF Table
<1>2. p \in [D -> D] /\ \A s, u \in D : p[s] = p[u] => s = u
  BY DEF Reorderings
<1>3. p \in Surjection(D, T) /\ p \in Injection(D, T)
  BY <1>2 DEF Surjection, Injection, IsInjective
<1>4. Cardinality(T) = Cardinality(D)
  <2> HIDE DEF D, T
  <2> QED
    BY <1>1, <1>3, FS_Surjection
<1>5. T \subseteq D
  BY <1>2
<1>6. T = D
  <2> HIDE DEF D, T
  <2> QED
    BY <1>1, <1>4, <1>5, FS_Subset
<1> QED
  BY <1>6

Relisted(p) == [s \in DOMAIN rows |-> rows[p[s]]]

UniqueIndexes == \A s, t \in DOMAIN rows : rows[s].idx = rows[t].idx => s = t

LEMMA SameOrder ==
  ASSUME Table(rows), UniqueIndexes, NEW p \in Reorderings,
         NEW a \in DOMAIN rows, NEW b \in DOMAIN rows
  PROVE  Before(Relisted(p), a, b) <=> Before(rows, p[a], p[b])
<1>1. p[a] \in DOMAIN rows /\ p[b] \in DOMAIN rows /\ (p[a] = p[b] => a = b)
  BY DEF Reorderings
<1>2. Relisted(p)[a] = rows[p[a]] /\ Relisted(p)[b] = rows[p[b]]
  BY DEF Relisted
<1>3. rows[p[a]].idx = rows[p[b]].idx => a = b /\ p[a] = p[b]
  BY <1>1 DEF UniqueIndexes
<1>4. ~(a < a) /\ ~(p[a] < p[a])
  BY <1>1, Typed
<1> QED
  BY <1>2, <1>3, <1>4 DEF Before

LEMMA SameNeighbours ==
  ASSUME Table(rows), UniqueIndexes, NEW p \in Reorderings,
         NEW a \in DOMAIN rows, NEW b \in DOMAIN rows
  PROVE  Adjacent(Relisted(p), a, b) <=> Adjacent(rows, p[a], p[b])
<1>1. DOMAIN Relisted(p) = DOMAIN rows
  BY DEF Relisted
<1>2. \A c \in DOMAIN rows : p[c] \in DOMAIN rows
  BY DEF Reorderings
<1>3. (\E c \in DOMAIN rows : /\ Before(Relisted(p), a, c)
                             /\ Before(Relisted(p), c, b))
        <=> \E c \in DOMAIN rows : /\ Before(rows, p[a], p[c])
                                  /\ Before(rows, p[c], p[b])
  BY SameOrder
<1>4. (\E c \in DOMAIN rows : /\ Before(rows, p[a], p[c])
                             /\ Before(rows, p[c], p[b]))
        <=> \E c \in DOMAIN rows : Before(rows, p[a], c) /\ Before(rows, c, p[b])
  BY <1>2, ReorderingReachesAll
<1> QED
  BY <1>1, <1>3, <1>4, SameOrder DEF Adjacent

LEMMA SameFindings ==
  ASSUME Table(rows), UniqueIndexes, NEW p \in Reorderings,
         NEW s \in DOMAIN rows, NEW rule \in Rule
  PROVE  [seg |-> s, rule |-> rule] \in Analyze(Relisted(p), {})
           <=> [seg |-> p[s], rule |-> rule] \in Analyze(rows, {})
<1>1. p[s] \in DOMAIN rows
  BY DEF Reorderings
<1>2. /\ DOMAIN Relisted(p) = DOMAIN rows
      /\ \A t \in DOMAIN rows : Relisted(p)[t] = rows[p[t]]
  BY DEF Relisted
<1>3. (\E q \in DOMAIN rows : /\ Adjacent(Relisted(p), q, s)
                             /\ PairBreaks(Relisted(p)[q], Relisted(p)[s], rule))
        <=> \E q \in DOMAIN rows : /\ Adjacent(rows, p[q], p[s])
                                  /\ PairBreaks(rows[p[q]], rows[p[s]], rule)
  BY <1>2, SameNeighbours
<1>4. (\E q \in DOMAIN rows : /\ Adjacent(rows, p[q], p[s])
                             /\ PairBreaks(rows[p[q]], rows[p[s]], rule))
        <=> \E q \in DOMAIN rows : /\ Adjacent(rows, q, p[s])
                                  /\ PairBreaks(rows[q], rows[p[s]], rule)
  <2>1. \A q \in DOMAIN rows : p[q] \in DOMAIN rows
    BY DEF Reorderings
  <2> QED
    BY <2>1, ReorderingReachesAll
<1> QED
  BY <1>1, <1>2, <1>3, <1>4 DEF Analyze

LEMMA TableOrderIrrelevant == Table(rows) => OrderIrrelevant
<1> SUFFICES ASSUME Table(rows), UniqueIndexes, NEW p \in Reorderings
             PROVE  Reported(Relisted(p)) = Reported(rows)
  BY DEF OrderIrrelevant, UniqueIndexes, Relisted
<1>1. DOMAIN Relisted(p) = DOMAIN rows
  BY DEF Relisted
<1>2. ASSUME NEW f, DOMAIN f = DOMAIN rows, NEW x \in Reported(f)
      PROVE  \E s \in DOMAIN rows, rule \in Rule :
               /\ [seg |-> s, rule |-> rule] \in Analyze(f, {})
               /\ x = <<f[s], rule>>
  <2>1. PICK g \in Analyze(f, {}) : x = <<f[g.seg], g.rule>>
    BY <1>2 DEF Reported
  <2>2. g \in [seg : DOMAIN rows, rule : Rule]
    BY <1>2 DEF Analyze
  <2>3. g = [seg |-> g.seg, rule |-> g.rule] /\ g.seg \in DOMAIN rows /\ g.rule \in Rule
    BY <2>2
  <2> QED
    BY <2>1, <2>3
<1>3. ASSUME NEW x \in Reported(Relisted(p)) PROVE x \in Reported(rows)
  <2>1. PICK s \in DOMAIN rows, rule \in Rule :
          /\ [seg |-> s, rule |-> rule] \in Analyze(Relisted(p), {})
          /\ x = <<rows[p[s]], rule>>
    <3>1. PICK s \in DOMAIN rows, rule \in Rule :
            /\ [seg |-> s, rule |-> rule] \in Analyze(Relisted(p), {})
            /\ x = <<Relisted(p)[s], rule>>
      BY <1>1, <1>2
    <3> QED
      BY <3>1 DEF Relisted
  <2>2. [seg |-> p[s], rule |-> rule] \in Analyze(rows, {})
    BY <2>1, SameFindings
  <2> QED
    BY <2>1, <2>2 DEF Reported
<1>4. ASSUME NEW x \in Reported(rows) PROVE x \in Reported(Relisted(p))
  <2>1. PICK t \in DOMAIN rows, rule \in Rule :
          /\ [seg |-> t, rule |-> rule] \in Analyze(rows, {})
          /\ x = <<rows[t], rule>>
    BY <1>2
  <2>2. PICK s \in DOMAIN rows : p[s] = t
    BY ReorderingReachesAll
  <2>3. [seg |-> s, rule |-> rule] \in Analyze(Relisted(p), {})
    BY <2>1, <2>2, SameFindings
  <2>4. Relisted(p)[s] = rows[t]
    BY <2>2 DEF Relisted
  <2> QED
    BY <2>1, <2>3, <2>4 DEF Reported
<1> QED
  BY <1>3, <1>4

\* The findings of a table are those of its lines: with unique indexes, lines
\* listed in any other order are given the same findings.
THEOREM OrderOfImportIrrelevant == Spec => []OrderIrrelevant
BY TableHolds, TableOrderIrrelevant, PTL
=============================================================================
