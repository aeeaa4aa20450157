-------------------------------- MODULE Stats --------------------------------
(***************************************************************************)
(* Service.Counts: GET /api/stats, the dashboard's totals.  They are read  *)
(* one COUNT at a time, lines and versions media by media, while other     *)
(* requests write.                                                         *)
(*                                                                         *)
(* The actions of one request; Workbench lets requests run side by side.   *)
(***************************************************************************)
EXTENDS Quality

VARIABLES
  left,       \* left[r]: the media whose rows are still to be counted
  tally,      \* tally[r]: the totals collected so far
  floor       \* floor[r]: the totals when the request arrived; no code has them

statsVars == <<left, tally, floor>>

StatsPC == {"count_segments", "count_media_versions", "count_speakers",
            "count_quality", "count_conflicts", "count_withdrawals"}

Zero == [media |-> 0, segments |-> 0, versions |-> 0, speakers |-> 0,
         quality |-> 0, conflicts |-> 0, withdrawals |-> 0]

\* The orders a list of S can have.
Orders(S) == {q \in [1..Cardinality(S) -> S] : {q[i] : i \in DOMAIN q} = S}

CountSegments(m) == Cardinality(DOMAIN ListSegments(m))
CountSpeakers == Cardinality({p \in Speaker : speakers[p] # None})

\* What an observer of the whole database would count.
Totals ==
  [media       |-> Cardinality(ListMedia),
   segments    |-> Cardinality({s \in Segment : segments[s] # None}),
   versions    |-> Cardinality(DOMAIN versions),
   speakers    |-> CountSpeakers,
   quality     |-> Cardinality(quality),
   conflicts   |-> Cardinality(conflicts),
   withdrawals |-> Cardinality(withdrawals)]

StatsInit ==
  /\ left = [r \in Request |-> <<>>]
  /\ tally = [r \in Request |-> Zero]
  /\ floor = [r \in Request |-> Zero]
-----------------------------------------------------------------------------
Replaced(r, column, n) == tally' = [tally EXCEPT ![r][column] = n]
Added(r, column, n) == tally' = [tally EXCEPT ![r][column] = @ + n]

StatsListMedia(r) ==
  /\ pc[r] = "new"
  /\ left' \in {[left EXCEPT ![r] = q] : q \in Orders(ListMedia)}
  /\ Added(r, "media", Cardinality(ListMedia))
  /\ floor' = [floor EXCEPT ![r] = Totals]
  /\ Goto(r, IF ListMedia = {} THEN "count_speakers" ELSE "count_segments")
  /\ UNCHANGED <<storeVars, listed, todo>>

StatsCountSegments(r) ==
  /\ pc[r] = "count_segments"
  /\ Added(r, "segments", CountSegments(Head(left[r])))
  /\ Goto(r, "count_media_versions")
  /\ UNCHANGED <<storeVars, listed, todo, left, floor>>

StatsCountVersions(r) ==
  /\ pc[r] = "count_media_versions"
  /\ Added(r, "versions", CountPublishVersions(Head(left[r])))
  /\ left' = [left EXCEPT ![r] = Tail(@)]
  /\ Goto(r, IF Len(left[r]) = 1 THEN "count_speakers" ELSE "count_segments")
  /\ UNCHANGED <<storeVars, listed, todo, floor>>

\* One COUNT over a table, and the next.
CountTable(r, label, column, n) ==
  /\ pc[r] = label
  /\ Added(r, column, n)
  /\ UNCHANGED <<storeVars, listed, todo, left, floor>>

StatsStep(r) ==
  \/ StatsListMedia(r)
  \/ StatsCountSegments(r)
  \/ StatsCountVersions(r)
  \/ /\ CountTable(r, "count_speakers", "speakers", CountSpeakers)
     /\ Goto(r, "count_quality")
  \/ /\ CountTable(r, "count_quality", "quality", Cardinality(quality))
     /\ Goto(r, "count_conflicts")
  \/ /\ CountTable(r, "count_conflicts", "conflicts", Cardinality(conflicts))
     /\ Goto(r, "count_withdrawals")
  \/ /\ CountTable(r, "count_withdrawals", "withdrawals", Cardinality(withdrawals))
     /\ Reply(r, "ok")
=============================================================================
