------------------------------- MODULE Quality -------------------------------
(***************************************************************************)
(* How a request runs, and qa.Recompute, the tail every write request      *)
(* shares.                                                                 *)
(*                                                                         *)
(* net/http serves each request in a goroutine of its own.  A request is a *)
(* sequence of store calls with no lock or transaction around them, so     *)
(* each call is a step and pc[r] names the next call of request r.  With   *)
(* Faults a call may also return an error, which ends the request there.   *)
(***************************************************************************)
EXTENDS Store

CONSTANT Faults      \* TRUE when a store call may fail

ASSUME FaultsAssumption == Faults \in BOOLEAN

VARIABLES
  pc,          \* pc[r]: the next store call of request r
  outcome,     \* outcome[r]: what the client is answered, None until then
  listed,      \* listed[r]: the rows Recompute has read and not yet analysed
  todo         \* todo[r]: the findings Recompute has still to insert

qaVars == <<pc, outcome, listed, todo>>

Outcome == {"ok", "invalid", "notfound", "conflict", "withdrawn", "error"}

ASSUME OutcomeAssumption == None \notin Outcome

Goto(r, label) ==
  /\ pc' = [pc EXCEPT ![r] = label]
  /\ UNCHANGED outcome

\* The handler returns; writeError turns the error into a status code.
Reply(r, answer) ==
  /\ pc' = [pc EXCEPT ![r] = "done"]
  /\ outcome' = [outcome EXCEPT ![r] = answer]

\* What follows once the last finding is in: the answer, or for Recover its next
\* media.
Return(r, next) == IF next = "done" THEN Reply(r, "ok") ELSE Goto(r, next)

\* A store call fails, or the process dies under the request: nothing is
\* undone.  Two calls of EditSegment have their errors dropped, and Patch is no
\* store call.
Fail(r) ==
  /\ Faults
  /\ pc[r] \notin {"last_actor", "mark_conflict", "patch", "done"}
  /\ Reply(r, "error")
  /\ UNCHANGED <<storeVars, listed, todo>>

QualityPC == {"list_segments", "list_speakers", "delete_quality", "add_quality"}

QualityInit ==
  /\ pc = [r \in Request |-> "new"]
  /\ outcome = [r \in Request |-> None]
  /\ listed = [r \in Request |-> None]
  /\ todo = [r \in Request |-> {}]
-----------------------------------------------------------------------------
RecomputeListSegments(r, m) ==
  /\ pc[r] = "list_segments"
  /\ listed' = [listed EXCEPT ![r] = ListSegments(m)]
  /\ Goto(r, "list_speakers")
  /\ UNCHANGED <<storeVars, todo>>

\* ListSpeakers, ValidSet and Analyze.  The listed rows are not used again.
RecomputeListSpeakers(r, m) ==
  /\ pc[r] = "list_speakers"
  /\ todo' = [todo EXCEPT ![r] = Analyze(listed[r], ListSpeakers(m))]
  /\ listed' = [listed EXCEPT ![r] = None]
  /\ Goto(r, "delete_quality")
  /\ UNCHANGED storeVars

RecomputeWithoutDelete(r, m, next) ==
  /\ pc[r] = "delete_quality"
  /\ IF todo[r] = {} THEN Return(r, next) ELSE Goto(r, "add_quality")
  /\ UNCHANGED <<storeVars, listed, todo>>

RecomputeDelete(r, m, next) ==
  /\ pc[r] = "delete_quality"
  /\ DeleteQualityForMedia(m)
  /\ IF todo[r] = {} THEN Return(r, next) ELSE Goto(r, "add_quality")
  /\ UNCHANGED <<listed, todo>>

\* One INSERT per finding.  The order of the inserts is left open.
RecomputeAdd(r, m, next) ==
  /\ pc[r] = "add_quality"
  /\ \E f \in todo[r] :
       /\ AddQuality([run |-> r, media |-> m, seg |-> f.seg, rule |-> f.rule])
       /\ todo' = [todo EXCEPT ![r] = @ \ {f}]
       /\ IF todo[r] = {f} THEN Return(r, next) ELSE UNCHANGED <<pc, outcome>>
  /\ UNCHANGED listed

Recompute(r, m, next) ==
  \/ RecomputeListSegments(r, m)
  \/ RecomputeListSpeakers(r, m)
  \/ RecomputeDelete(r, m, next)
  \/ RecomputeAdd(r, m, next)
=============================================================================
