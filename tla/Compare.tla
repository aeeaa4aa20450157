------------------------------- MODULE Compare -------------------------------
(***************************************************************************)
(* publish.Compare and Service.CompareVersions: GET /api/versions/compare. *)
(* The lines of two frozen snapshots are matched by id and compared field  *)
(* by field.  The order of the listed differences is that of a Go map and  *)
(* is left open.                                                           *)
(*                                                                         *)
(* The actions of one request; Workbench lets requests run side by side.   *)
(***************************************************************************)
EXTENDS Quality

VARIABLES
  pair,       \* pair[r]: the ids of the two versions to compare
  first,      \* first[r]: the snapshot of the first one
  diff        \* diff[r]: what the client is answered

compareVars == <<pair, first, diff>>

ComparePC == {"get_second"}

CompareInit ==
  /\ pair = [r \in Request |-> None]
  /\ first = [r \in Request |-> None]
  /\ diff = [r \in Request |-> None]
-----------------------------------------------------------------------------
\* The fields diffSegment compares; index, language, version and status are
\* not among them.
TimingAndText == {"start", "end", "text"}
Field == {"start", "end", "text", "speaker", "desc"}

\* diffSegment: the fields that differ, each with its two values.
DiffSegment(a, b) ==
  [f \in {g \in Field : a[g] # b[g]} |-> [before |-> a[f], after |-> b[f]]]

\* Lines by their row ids, as they are in a snapshot.  The changes are given
\* for every line both have; a line without a change has none listed.
DiffOf(a, b) ==
  [added   |-> DOMAIN b \ DOMAIN a,
   removed |-> DOMAIN a \ DOMAIN b,
   changes |-> [s \in DOMAIN a \cap DOMAIN b |-> DiffSegment(a[s], b[s])]]

\* The answer to a request for the versions v and w: both ids must be given.
CompareGetFirst(r) ==
  /\ pc[r] = "new"
  /\ \/ Reply(r, "invalid") /\ UNCHANGED <<pair, first>>
     \/ \E v, w \in Request :
          LET p == GetPublishVersion(v) IN
          /\ pair' = [pair EXCEPT ![r] = <<v, w>>]
          /\ IF p = None
               THEN Reply(r, "notfound") /\ UNCHANGED first
               ELSE /\ first' = [first EXCEPT ![r] = p.snap.segments]
                    /\ Goto(r, "get_second")
  /\ UNCHANGED <<storeVars, listed, todo, diff>>

CompareGetSecond(r) ==
  LET p == GetPublishVersion(pair[r][2]) IN
  /\ pc[r] = "get_second"
  /\ IF p = None
       THEN Reply(r, "notfound") /\ UNCHANGED diff
       ELSE /\ diff' = [diff EXCEPT ![r] = DiffOf(first[r], p.snap.segments)]
            /\ Reply(r, "ok")
  /\ UNCHANGED <<storeVars, listed, todo, pair, first>>

CompareStep(r) == CompareGetFirst(r) \/ CompareGetSecond(r)
=============================================================================
