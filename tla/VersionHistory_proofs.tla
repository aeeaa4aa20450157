------------------------ MODULE VersionHistory_proofs ------------------------
(***************************************************************************)
(* What follows from the promise of publishing: versions and records are   *)
(* for good, flags have records, numbers stay within the count.            *)
(***************************************************************************)
EXTENDS VersionHistory, FiniteSetTheorems, TLAPS

\* The history is finite: it grows by one version at a time.
Grown == IsFiniteSet(There)

LEMMA AppendGrows ==
  ASSUME Grown, NEW v, NEW new, Append(v, new)
  PROVE  /\ Grown'
         /\ There' = There \cup {v}
         /\ v \notin There
         /\ history'[v] = new
         /\ \A w \in There : history'[w] = history[w]
         /\ UNCHANGED <<records, flagged>>
<1>1. /\ There' = There \cup {v}
      /\ v \notin There
      /\ history'[v] = new
      /\ \A w \in There : history'[w] = history[w]
      /\ UNCHANGED <<records, flagged>>
  BY DEF Append, There
<1>2. Grown'
  BY <1>1, FS_AddElement DEF Grown
<1> QED
  BY <1>1, <1>2

LEMMA GrownInit == Init => Grown
BY FS_EmptySet DEF Init, Grown, There

LEMMA GrownNext == Grown /\ [Next]_historyVars => Grown'
<1> SUFFICES ASSUME Grown, [Next]_historyVars PROVE Grown'
  OBVIOUS
<1>1. CASE \E v \in Version \cap There' : Append(v, history'[v])
  BY <1>1, AppendGrows
<1>2. CASE UNCHANGED history
  BY <1>2 DEF Grown, There
<1> QED
  BY <1>1, <1>2 DEF Next, Record, Flag, historyVars

-----------------------------------------------------------------------------
\* A version, once published, is never rewritten or withdrawn from the
\* history, and neither is a record or a flag (publish.go:1-4).
THEOREM VersionsFrozen == Spec => Frozen
<1> DEFINE Kept == /\ \A v \in There : history'[v] = history[v]
                   /\ records \subseteq records'
                   /\ flagged \subseteq flagged'
<1>1. Grown /\ [Next]_historyVars => [Kept]_historyVars
  <2> SUFFICES ASSUME Grown, Next PROVE Kept
    BY DEF Kept
  <2>1. ASSUME NEW v \in Version \cap There', Append(v, history'[v]) PROVE Kept
    BY <2>1, AppendGrows
  <2>2. ASSUME NEW w \in records', Record(w) PROVE Kept
    BY <2>2 DEF Record
  <2>3. ASSUME NEW v \in Version, Flag(v) PROVE Kept
    BY <2>3 DEF Flag
  <2> QED
    BY <2>1, <2>2, <2>3 DEF Next
<1> QED
  BY <1>1, GrownInit, GrownNext, PTL DEF Spec, Frozen

-----------------------------------------------------------------------------
\* Records are of versions that are there, each of its media.
RecordsMatch ==
  \A w \in records : w.version \in There /\ w.media = history[w.version].media

FlagInv == RecordsMatch /\ FlagRecorded

LEMMA FlagInvInit == Init => FlagInv
BY DEF Init, FlagInv, RecordsMatch, FlagRecorded

LEMMA FlagInvNext == Grown /\ FlagInv /\ [Next]_historyVars => FlagInv'
<1> SUFFICES ASSUME Grown, FlagInv, [Next]_historyVars PROVE FlagInv'
  OBVIOUS
<1>1. ASSUME NEW v \in Version \cap There', Append(v, history'[v]) PROVE FlagInv'
  <2>1. /\ There \subseteq There'
        /\ \A w \in There : history'[w] = history[w]
        /\ UNCHANGED <<records, flagged>>
    BY <1>1, AppendGrows
  <2> QED
    BY <2>1 DEF FlagInv, RecordsMatch, FlagRecorded
<1>2. ASSUME NEW w \in records', Record(w) PROVE FlagInv'
  BY <1>2 DEF Record, FlagInv, RecordsMatch, FlagRecorded, There
<1>3. ASSUME NEW v \in Version, Flag(v) PROVE FlagInv'
  BY <1>3 DEF Flag, FlagInv, RecordsMatch, FlagRecorded, There
<1>4. CASE UNCHANGED historyVars
  BY <1>4 DEF historyVars, FlagInv, RecordsMatch, FlagRecorded, There
<1> QED
  BY <1>1, <1>2, <1>3, <1>4 DEF Next

\* Whoever sees a flag finds the record behind it.
THEOREM FlagsRecorded == Spec => []FlagRecorded
<1>1. FlagInv => FlagRecorded
  BY DEF FlagInv
<1> QED
  BY <1>1, GrownInit, GrownNext, FlagInvInit, FlagInvNext, PTL DEF Spec

-----------------------------------------------------------------------------
\* What a media has is finite, and gets one more when a version is its own.
LEMMA CountGrows ==
  ASSUME Grown, NEW v, NEW new, Append(v, new), NEW m
  PROVE  /\ Cardinality(Of(m)) \in Nat
         /\ Cardinality(Of(m))' =
              IF new.media = m THEN Cardinality(Of(m)) + 1 ELSE Cardinality(Of(m))
<1>1. IsFiniteSet(Of(m))
  BY FS_Subset DEF Grown, Of
<1>2. Of(m)' = IF new.media = m THEN Of(m) \cup {v} ELSE Of(m)
  BY AppendGrows DEF Of
<1>3. v \notin Of(m)
  BY AppendGrows DEF Of
<1> QED
  BY <1>1, <1>2, <1>3, FS_AddElement, FS_CardinalityType

LEMMA CountedNext == Grown /\ NumbersCounted /\ [Next]_historyVars => NumbersCounted'
<1> SUFFICES ASSUME Grown, NumbersCounted, [Next]_historyVars PROVE NumbersCounted'
  OBVIOUS
<1>1. ASSUME NEW v \in Version \cap There', Append(v, history'[v])
      PROVE  NumbersCounted'
  <2> DEFINE new == history'[v]
  <2>1. /\ There' = There \cup {v}
        /\ \A w \in There : history'[w] = history[w]
    BY <1>1, AppendGrows
  <2>2. ASSUME NEW w \in There, NEW m, m = history[w].media
        PROVE  history[w].no \in 1..Cardinality(Of(m))'
    <3>1. history[w].no \in 1..Cardinality(Of(m))
      BY <2>2 DEF NumbersCounted
    <3>2. /\ Cardinality(Of(m)) \in Nat
          /\ \/ Cardinality(Of(m))' = Cardinality(Of(m))
             \/ Cardinality(Of(m))' = Cardinality(Of(m)) + 1
      BY <1>1, CountGrows
    <3> QED
      BY <3>1, <3>2
  <2>3. ASSUME NEW m, m = new.media
        PROVE  new.no \in 1..Cardinality(Of(m))'
    <3>1. new.no \in 1..(Cardinality(Of(m)) + 1)
      BY <1>1, <2>3 DEF Append
    <3>2. Cardinality(Of(m))' = Cardinality(Of(m)) + 1
      BY <1>1, <2>3, CountGrows
    <3> QED
      BY <3>1, <3>2
  <2>4. ASSUME NEW w \in There', NEW m, m = history'[w].media
        PROVE  history'[w].no \in 1..Cardinality(Of(m))'
    <3>1. CASE w = v
      BY <2>3, <2>4, <3>1
    <3>2. CASE w \in There
      BY <2>1, <2>2, <2>4, <3>2
    <3> QED
      BY <2>1, <3>1, <3>2
  <2> QED
    BY <2>4 DEF NumbersCounted, Of, There
<1>2. CASE UNCHANGED history
  BY <1>2 DEF NumbersCounted, Of, There
<1> QED
  BY <1>1, <1>2 DEF Next, Record, Flag, historyVars

\* The last number of a media tells how many versions it has at least.
THEOREM NumbersWithinCount == Spec => []NumbersCounted
<1>1. Init => NumbersCounted
  BY DEF Init, NumbersCounted, There
<1> QED
  BY <1>1, GrownInit, GrownNext, CountedNext, PTL DEF Spec
=============================================================================
