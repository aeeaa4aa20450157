------------------------- MODULE EditSegment_proofs -------------------------
(***************************************************************************)
(* What EditSegment guarantees for every set of requests, rows, edits and  *)
(* base versions.                                                          *)
(***************************************************************************)
EXTENDS EditSegment, TLAPS

-----------------------------------------------------------------------------
(***************************************************************************)
(* The operators the handler is built from.                                *)
(***************************************************************************)

\* Patch makes a row of a row.
LEMMA PatchedType ==
  ASSUME NEW seg \in Row, NEW edit \in Edits
  PROVE  Patched(seg, edit) \in Row
<1>1. edit \in [start : Int \cup {Keep}, end : Int \cup {Keep},
                text : Text \cup {Keep},
                speaker : Speaker \cup {NoSpeaker, Keep},
                desc : BOOLEAN \cup {Keep}]
  BY EditAssumption
<1>2. /\ Given(edit.start, seg.start) \in Int
      /\ Given(edit.end, seg.end) \in Int
      /\ Given(edit.text, seg.text) \in Text
      /\ Given(edit.speaker, seg.speaker) \in Speaker \cup {NoSpeaker}
      /\ Given(edit.desc, seg.desc) \in BOOLEAN
  BY <1>1 DEF Given, Row
<1> DEFINE s1 == [seg EXCEPT !.start = Given(edit.start, seg.start)]
           s2 == [s1 EXCEPT !.end = Given(edit.end, seg.end)]
           s3 == [s2 EXCEPT !.text = Given(edit.text, seg.text)]
           s4 == [s3 EXCEPT !.speaker = Given(edit.speaker, seg.speaker)]
           s5 == [s4 EXCEPT !.desc = Given(edit.desc, seg.desc)]
<1>3. s1 \in Row
  BY <1>2 DEF Row
<1>4. s2 \in Row
  BY <1>2, <1>3 DEF Row
<1>5. s3 \in Row
  BY <1>2, <1>4 DEF Row
<1>6. s4 \in Row
  BY <1>2, <1>5 DEF Row
<1>7. s5 \in Row
  BY <1>2, <1>6 DEF Row
<1>8. [s5 EXCEPT !.version = seg.version + 1] \in Row
  <2>1. seg.version + 1 \in Int
    BY DEF Row
  <2> HIDE DEF s5
  <2> QED
    BY <1>7, <2>1 DEF Row
<1>9. Patched(seg, edit) = [s5 EXCEPT !.version = seg.version + 1]
  BY DEF Patched, Row
<1> QED
  BY <1>8, <1>9

\* Recompute reads rows.
LEMMA ListSegmentsType ==
  ASSUME segments \in [Segment -> Row \cup {None}], NEW m
  PROVE  IsRows(ListSegments(m))
BY DEF IsRows, ListSegments

\* Analyze reports on the rows it is given.
LEMMA AnalyzeType ==
  ASSUME NEW rows, IsRows(rows), NEW valid
  PROVE  Analyze(rows, valid) \subseteq Finding
BY DEF Analyze, IsRows, Finding

-----------------------------------------------------------------------------
(***************************************************************************)
(* Type correctness.                                                       *)
(***************************************************************************)

\* The seeded database is well typed.
LEMMA InitType == EditInit => TypeOK
<1> SUFFICES ASSUME EditInit PROVE TypeOK
  OBVIOUS
<1>1. segments \in [Segment -> Row \cup {None}]
  BY SeedAssumption DEF EditInit
<1>2. SeedQuality \subseteq QualityRow
  <2>1. ASSUME NEW m \in Media, NEW f \in Analyze(ListSegments(m), ListSpeakers(m))
        PROVE  [run |-> None, media |-> m, seg |-> f.seg, rule |-> f.rule] \in QualityRow
    <3>1. f \in Finding
      BY <1>1, <2>1, ListSegmentsType, AnalyzeType
    <3> QED
      BY <3>1 DEF Finding, QualityRow
  <2> QED
    BY <2>1 DEF SeedQuality
<1>3. TablesOK
  BY <1>1, <1>2, SeedAssumption DEF EditInit, TablesOK, MediaStatus
<1> QED
  BY <1>3 DEF EditInit, QualityInit, TypeOK, LocalsOK, Editing, EditPC, QualityPC

\* Taking up a request and reading its segment.
LEMMA GetSegmentType ==
  ASSUME TypeOK, NEW r \in Request, EditGetSegment(r)
  PROVE  TypeOK'
<1>1. PICK q \in EditRequest :
        /\ req' = [req EXCEPT ![r] = q]
        /\ \/ segments[q.seg] = None /\ Reply(r, "notfound") /\ UNCHANGED row
           \/ q.actor = NoActor /\ Reply(r, "invalid") /\ UNCHANGED row
           \/ /\ segments[q.seg] # None
              /\ q.actor # NoActor
              /\ row' = [row EXCEPT ![r] = segments[q.seg]]
              /\ \/ Goto(r, "last_actor")
                 \/ Goto(r, "patch")
  BY DEF EditGetSegment, GetSegment, NamedActor
<1>2. pc[r] = "new" /\ UNCHANGED <<storeVars, listed, todo, now, rev, conf>>
  BY DEF EditGetSegment
<1>3. segments[q.seg] \in Row \cup {None}
  BY DEF TypeOK, TablesOK, EditRequest
<1>4. TablesOK' /\ now' \in Nat
  BY <1>2 DEF TypeOK, TablesOK, storeVars
<1>5. pc' \in [Request -> EditPC] /\ outcome' \in [Request -> Outcome \cup {None}]
  BY <1>1 DEF TypeOK, Reply, Goto, EditPC, Outcome
<1>6. /\ req' \in [Request -> EditRequest \cup {None}]
      /\ row' \in [Request -> Row \cup {None}]
  BY <1>1, <1>3 DEF TypeOK
<1>7. ASSUME NEW p \in Request PROVE LocalsOK(p)'
  <2>1. CASE p # r
    BY <1>1, <1>2, <2>1 DEF TypeOK, LocalsOK, Reply, Goto, storeVars
  <2>2. CASE p = r
    BY <1>1, <1>2, <1>3, <2>2 DEF TypeOK, LocalsOK, Editing, Reply, Goto, storeVars
  <2> QED
    BY <2>1, <2>2
<1> QED
  BY <1>2, <1>4, <1>5, <1>6, <1>7 DEF TypeOK

\* Naming the last actor.
LEMMA LastActorType ==
  ASSUME TypeOK, NEW r \in Request, EditLastActor(r)
  PROVE  TypeOK'
<1>1. PICK a \in Actor \cup {"unknown"} :
        conf' = [conf EXCEPT ![r] =
                   [id |-> r, media |-> row[r].media, seg |-> req[r].seg,
                    actorA |-> a, actorB |-> req[r].actor,
                    base |-> row[r].version, attempted |-> req[r].base]]
  <2>1. Newest(ListRevisions(req[r].seg)) \subseteq Revision
    BY DEF TypeOK, TablesOK, Newest, ListRevisions
  <2>2. {v.actor : v \in Newest(ListRevisions(req[r].seg))} \subseteq Actor
    BY <2>1 DEF Revision
  <2> QED
    BY <2>2 DEF EditLastActor
<1>2. /\ pc[r] = "last_actor"
      /\ Goto(r, "add_conflict")
      /\ UNCHANGED <<storeVars, listed, todo, now, req, row, rev>>
  BY DEF EditLastActor
<1>3. req[r] \in EditRequest /\ req[r].actor # NoActor /\ row[r] \in Row
  BY <1>2 DEF TypeOK, LocalsOK, Editing, EditPC
<1>4. conf'[r] \in Conflict /\ conf' \in [Request -> Conflict \cup {None}]
  BY <1>1, <1>3, EditAssumption DEF TypeOK, Conflict, EditRequest, Row
<1>5. TablesOK'
  BY <1>2 DEF TypeOK, TablesOK, storeVars
<1>6. ASSUME NEW p \in Request PROVE LocalsOK(p)'
  BY <1>1, <1>2, <1>3, <1>4 DEF TypeOK, LocalsOK, Editing, Goto, storeVars
<1> QED
  BY <1>2, <1>4, <1>5, <1>6 DEF TypeOK, Goto, EditPC

\* Recording the conflict.
LEMMA AddConflictType ==
  ASSUME TypeOK, NEW r \in Request, EditAddConflict(r)
  PROVE  TypeOK'
<1>1. /\ pc[r] = "add_conflict"
      /\ AddConflict(conf[r])
      /\ Goto(r, "mark_conflict")
      /\ UNCHANGED <<listed, todo, editVars>>
  BY DEF EditAddConflict
<1>2. conf[r] \in Conflict
  BY <1>1 DEF TypeOK, LocalsOK
<1>3. TablesOK'
  BY <1>1, <1>2 DEF TypeOK, TablesOK, AddConflict
<1>4. ASSUME NEW p \in Request PROVE LocalsOK(p)'
  BY <1>1 DEF TypeOK, LocalsOK, Editing, EditPC, Goto, editVars, AddConflict
<1> QED
  BY <1>1, <1>3, <1>4 DEF TypeOK, Goto, EditPC, editVars

\* Marking the segment.
LEMMA MarkConflictType ==
  ASSUME TypeOK, NEW r \in Request, EditMarkConflict(r)
  PROVE  TypeOK'
<1>1. /\ pc[r] = "mark_conflict"
      /\ UpdateSegmentStatus(req[r].seg, "conflict") \/ UNCHANGED storeVars
      /\ Reply(r, "conflict")
      /\ UNCHANGED <<listed, todo, editVars>>
  BY DEF EditMarkConflict
<1>2. segments[req[r].seg] \in Row /\ req[r] \in EditRequest
  BY <1>1 DEF TypeOK, LocalsOK, Editing, EditPC
<1>3. [segments[req[r].seg] EXCEPT !.status = "conflict"] \in Row
  BY <1>2 DEF Row, SegmentStatus
<1>4. /\ TablesOK'
      /\ \A s \in Segment : segments[s] \in Row => segments'[s] \in Row
  <2>1. CASE UNCHANGED storeVars
    BY <2>1 DEF TypeOK, TablesOK, storeVars
  <2>2. CASE UpdateSegmentStatus(req[r].seg, "conflict")
    BY <1>3, <2>2 DEF TypeOK, TablesOK, UpdateSegmentStatus
  <2> QED
    BY <1>1, <2>1, <2>2
<1>5. ASSUME NEW p \in Request PROVE LocalsOK(p)'
  BY <1>1, <1>4 DEF TypeOK, LocalsOK, Editing, Reply, editVars, EditRequest
<1> QED
  BY <1>1, <1>4, <1>5 DEF TypeOK, Reply, EditPC, Outcome, editVars

\* Patching the row the handler holds.
LEMMA PatchType ==
  ASSUME TypeOK, NEW r \in Request, EditPatch(r)
  PROVE  TypeOK'
<1> DEFINE p == Patched(row[r], req[r].edit)
<1>1. /\ pc[r] = "patch"
      /\ row' = [row EXCEPT ![r] = p]
      /\ rev' = [rev EXCEPT ![r] = Audit(r, row[r], p)]
      /\ \/ Reply(r, "invalid")
         \/ Goto(r, "get_speaker")
         \/ Goto(r, "update_segment")
      /\ UNCHANGED <<storeVars, listed, todo, now, req, conf>>
  BY DEF EditPatch
<1>2. req[r] \in EditRequest /\ req[r].actor # NoActor /\ row[r] \in Row
  BY <1>1 DEF TypeOK, LocalsOK, Editing, EditPC
<1>3. p \in Row
  BY <1>2, PatchedType DEF EditRequest
<1> HIDE DEF p
<1>4. Audit(r, row[r], p) \in Revision
  BY <1>2, <1>3, EditAssumption DEF Audit, Revision, EditRequest, TypeOK
<1>5. /\ row' \in [Request -> Row \cup {None}]
      /\ rev' \in [Request -> Revision \cup {None}]
  BY <1>1, <1>3, <1>4 DEF TypeOK
<1>6. TablesOK'
  BY <1>1 DEF TypeOK, TablesOK, storeVars
<1>7. ASSUME NEW q \in Request PROVE LocalsOK(q)'
  <2>1. CASE q # r
    BY <1>1, <2>1 DEF TypeOK, LocalsOK, Editing, Goto, Reply, storeVars
  <2>2. CASE q = r
    BY <1>1, <1>2, <1>3, <1>4, <2>2
       DEF TypeOK, LocalsOK, Editing, EditPC, Goto, Reply, storeVars
  <2> QED
    BY <2>1, <2>2
<1> QED
  BY <1>1, <1>5, <1>6, <1>7 DEF TypeOK, Goto, Reply, EditPC, Outcome

\* Looking the speaker up.
LEMMA GetSpeakerType ==
  ASSUME TypeOK, NEW r \in Request, EditGetSpeaker(r)
  PROVE  TypeOK'
<1>1. /\ pc[r] = "get_speaker"
      /\ Reply(r, "notfound") \/ Goto(r, "update_segment")
      /\ UNCHANGED <<storeVars, listed, todo, editVars>>
  BY DEF EditGetSpeaker
<1>2. TablesOK'
  BY <1>1 DEF TypeOK, TablesOK, storeVars
<1>3. ASSUME NEW q \in Request PROVE LocalsOK(q)'
  BY <1>1 DEF TypeOK, LocalsOK, Editing, EditPC, Goto, Reply, storeVars, editVars
<1> QED
  BY <1>1, <1>2, <1>3 DEF TypeOK, Goto, Reply, EditPC, Outcome, editVars

\* Writing the row.
LEMMA UpdateSegmentType ==
  ASSUME TypeOK, NEW r \in Request, EditUpdateSegment(r)
  PROVE  TypeOK'
<1>1. /\ pc[r] = "update_segment"
      /\ UpdateSegment(req[r].seg, row[r])
      /\ Goto(r, "add_revision")
      /\ UNCHANGED <<listed, todo, editVars>>
  BY DEF EditUpdateSegment
<1>2. row[r] \in Row /\ req[r] \in EditRequest
  BY <1>1 DEF TypeOK, LocalsOK, Editing, EditPC
<1>3. /\ TablesOK'
      /\ \A s \in Segment : segments[s] \in Row => segments'[s] \in Row
  BY <1>1, <1>2 DEF TypeOK, TablesOK, UpdateSegment
<1>4. ASSUME NEW q \in Request PROVE LocalsOK(q)'
  BY <1>1, <1>3 DEF TypeOK, LocalsOK, Editing, EditPC, Goto, editVars, EditRequest
<1> QED
  BY <1>1, <1>3, <1>4 DEF TypeOK, Goto, EditPC, editVars

\* Writing the audit row.
LEMMA AddRevisionType ==
  ASSUME TypeOK, NEW r \in Request, EditAddRevision(r)
  PROVE  TypeOK'
<1>1. /\ pc[r] = "add_revision"
      /\ AddRevision(rev[r])
      /\ Goto(r, "list_segments")
      /\ UNCHANGED <<listed, todo, editVars>>
  BY DEF EditAddRevision
<1>2. rev[r] \in Revision
  BY <1>1 DEF TypeOK, LocalsOK
<1>3. TablesOK'
  BY <1>1, <1>2 DEF TypeOK, TablesOK, AddRevision
<1>4. ASSUME NEW q \in Request PROVE LocalsOK(q)'
  BY <1>1 DEF TypeOK, LocalsOK, Editing, EditPC, QualityPC, Goto, editVars, AddRevision
<1> QED
  BY <1>1, <1>3, <1>4 DEF TypeOK, Goto, EditPC, QualityPC, editVars

\* The four calls of Recompute.
LEMMA RecomputeType ==
  ASSUME TypeOK, NEW r \in Request, EditRecompute(r)
  PROVE  TypeOK'
<1> DEFINE m == row[r].media
<1>1. pc[r] \in QualityPC /\ UNCHANGED editVars
  BY DEF EditRecompute, Recompute, RecomputeListSegments, RecomputeListSpeakers,
         RecomputeDelete, RecomputeAdd, Return, QualityPC
<1>2. m \in Media
  BY <1>1 DEF TypeOK, LocalsOK, Editing, EditPC, QualityPC, Row
<1> HIDE DEF m
<1>3. CASE RecomputeListSegments(r, m)
  <2>1. /\ listed' = [listed EXCEPT ![r] = ListSegments(m)]
        /\ pc[r] = "list_segments"
        /\ Goto(r, "list_speakers")
        /\ UNCHANGED <<storeVars, todo>>
    BY <1>3 DEF RecomputeListSegments
  <2>2. IsRows(ListSegments(m))
    BY ListSegmentsType DEF TypeOK, TablesOK
  <2>3. TablesOK'
    BY <2>1 DEF TypeOK, TablesOK, storeVars
  <2>4. ASSUME NEW q \in Request PROVE LocalsOK(q)'
    BY <1>1, <2>1, <2>2
       DEF TypeOK, LocalsOK, Editing, EditPC, QualityPC, Goto, storeVars, editVars, IsRows
  <2> QED
    BY <1>1, <2>1, <2>3, <2>4 DEF TypeOK, Goto, EditPC, QualityPC, editVars
<1>4. CASE RecomputeListSpeakers(r, m)
  <2>1. /\ pc[r] = "list_speakers"
        /\ todo' = [todo EXCEPT ![r] = Analyze(listed[r], ListSpeakers(m))]
        /\ listed' = [listed EXCEPT ![r] = None]
        /\ Goto(r, "delete_quality")
        /\ UNCHANGED storeVars
    BY <1>4 DEF RecomputeListSpeakers
  <2>2. Analyze(listed[r], ListSpeakers(m)) \subseteq Finding
    BY <2>1, AnalyzeType DEF TypeOK, LocalsOK
  <2>3. TablesOK'
    BY <2>1 DEF TypeOK, TablesOK, storeVars
  <2>4. ASSUME NEW q \in Request PROVE LocalsOK(q)'
    BY <1>1, <2>1
       DEF TypeOK, LocalsOK, Editing, EditPC, QualityPC, Goto, storeVars, editVars, IsRows
  <2> QED
    BY <1>1, <2>1, <2>2, <2>3, <2>4 DEF TypeOK, Goto, EditPC, QualityPC, editVars
<1>5. CASE RecomputeDelete(r, m, "done")
  <2>1. /\ pc[r] = "delete_quality"
        /\ DeleteQualityForMedia(m)
        /\ Reply(r, "ok") \/ Goto(r, "add_quality")
        /\ UNCHANGED <<listed, todo>>
    BY <1>5 DEF RecomputeDelete, Return
  <2>2. TablesOK'
    BY <2>1 DEF TypeOK, TablesOK, DeleteQualityForMedia
  <2>3. ASSUME NEW q \in Request PROVE LocalsOK(q)'
    BY <1>1, <2>1 DEF TypeOK, LocalsOK, Editing, EditPC, QualityPC, Goto, Reply,
                      editVars, IsRows, DeleteQualityForMedia
  <2> QED
    BY <1>1, <2>1, <2>2, <2>3
       DEF TypeOK, Goto, Reply, EditPC, QualityPC, Outcome, editVars
<1>6. CASE RecomputeAdd(r, m, "done")
  <2>1. PICK f \in todo[r] :
          /\ AddQuality([run |-> r, media |-> m, seg |-> f.seg, rule |-> f.rule])
          /\ todo' = [todo EXCEPT ![r] = @ \ {f}]
          /\ Reply(r, "ok") \/ UNCHANGED <<pc, outcome>>
    BY <1>6 DEF RecomputeAdd, Return
  <2>2. pc[r] = "add_quality" /\ UNCHANGED listed
    BY <1>6 DEF RecomputeAdd, Return
  <2>3. [run |-> r, media |-> m, seg |-> f.seg, rule |-> f.rule] \in QualityRow
    BY <1>2 DEF TypeOK, Finding, QualityRow
  <2>4. TablesOK'
    BY <2>1, <2>3 DEF TypeOK, TablesOK, AddQuality
  <2>5. ASSUME NEW q \in Request PROVE LocalsOK(q)'
    BY <1>1, <2>1, <2>2
       DEF TypeOK, LocalsOK, Editing, EditPC, QualityPC, Reply, editVars, IsRows, AddQuality
  <2> QED
    BY <1>1, <2>1, <2>2, <2>4, <2>5 DEF TypeOK, Reply, EditPC, Outcome, editVars
<1> QED
  BY <1>3, <1>4, <1>5, <1>6 DEF EditRecompute, Recompute, m

\* A call that fails, the clock, and the server waiting.
LEMMA QuietTypes ==
  ASSUME TypeOK, (\E r \in Request : EditFail(r)) \/ Tick \/ UNCHANGED vars
  PROVE  TypeOK'
<1>1. CASE \E r \in Request : EditFail(r)
  <2>1. PICK r \in Request : EditFail(r)
    BY <1>1
  <2>2. Reply(r, "error") /\ UNCHANGED <<storeVars, listed, todo, editVars>>
    BY <2>1 DEF EditFail, Fail
  <2>3. TablesOK'
    BY <2>2 DEF TypeOK, TablesOK, storeVars
  <2>4. ASSUME NEW q \in Request PROVE LocalsOK(q)'
    BY <2>2 DEF TypeOK, LocalsOK, Editing, Reply, storeVars, editVars, IsRows
  <2> QED
    BY <2>2, <2>3, <2>4 DEF TypeOK, Reply, EditPC, Outcome, editVars
<1>2. CASE Tick \/ UNCHANGED vars
  BY <1>2 DEF TypeOK, TablesOK, LocalsOK, Tick, vars, storeVars, qaVars, editVars, IsRows
<1> QED
  BY <1>1, <1>2

\* Every step keeps the types.
LEMMA NextType == TypeOK /\ [Next]_vars => TypeOK'
<1> SUFFICES ASSUME TypeOK, [Next]_vars PROVE TypeOK'
  OBVIOUS
<1>1. ASSUME NEW r \in Request, EditStep(r) PROVE TypeOK'
  BY <1>1, GetSegmentType, LastActorType, AddConflictType, MarkConflictType,
     PatchType, GetSpeakerType, UpdateSegmentType, AddRevisionType,
     RecomputeType, QuietTypes DEF EditStep
<1> QED
  BY <1>1, QuietTypes DEF Next, Quiet

\* The tables and the variables of the handlers are well typed in every state
\* of every run, whatever requests arrive and whatever calls fail.
THEOREM TypeCorrect == Spec => []TypeOK
<1> QED
  BY InitType, NextType, PTL DEF Spec
-----------------------------------------------------------------------------
(***************************************************************************)
(* Durations.  A handler that is past the check holds a row that ends      *)
(* after it starts, and the row it holds is the row it writes.             *)
(***************************************************************************)

HeldDuration ==
  \A r \in Request :
    pc[r] \in {"get_speaker", "update_segment"} => Positive(row[r])

DurationInv == PositiveDuration /\ HeldDuration

LEMMA DurationInit == EditInit => DurationInv
BY SeedAssumption
   DEF EditInit, QualityInit, DurationInv, PositiveDuration, HeldDuration

LEMMA DurationNext == TypeOK /\ DurationInv /\ [Next]_vars => DurationInv'
<1> SUFFICES ASSUME TypeOK, DurationInv, [Next]_vars PROVE DurationInv'
  OBVIOUS
<1>1. ASSUME NEW r \in Request, EditGetSegment(r) PROVE DurationInv'
  <2>1. pc'[r] \in {"done", "last_actor", "patch"} /\ UNCHANGED segments
    BY <1>1 DEF EditGetSegment, Goto, Reply, storeVars, TypeOK
  <2>2. \A q \in Request \ {r} : pc'[q] = pc[q] /\ row'[q] = row[q]
    BY <1>1 DEF EditGetSegment, Goto, Reply, TypeOK
  <2> QED
    BY <2>1, <2>2 DEF DurationInv, PositiveDuration, HeldDuration
<1>2. ASSUME NEW r \in Request, EditPatch(r) PROVE DurationInv'
  <2> DEFINE p == Patched(row[r], req[r].edit)
  <2>1. /\ row' = [row EXCEPT ![r] = p]
        /\ UNCHANGED segments
        /\ IF p.end > p.start THEN Goto(r, "get_speaker") \/ Goto(r, "update_segment")
                              ELSE Reply(r, "invalid")
    BY <1>2 DEF EditPatch, EndAfterStart, storeVars
  <2>2. p \in Row
    <3>1. pc[r] = "patch"
      BY <1>2 DEF EditPatch
    <3>2. req[r] \in EditRequest /\ row[r] \in Row
      BY <3>1 DEF TypeOK, LocalsOK, Editing, EditPC
    <3> QED
      BY <3>2, PatchedType DEF EditRequest
  <2> HIDE DEF p
  <2>3. pc'[r] # "done" => Positive(row'[r])
    BY <2>1, <2>2 DEF Reply, Positive, TypeOK, Row
  <2>4. \A q \in Request \ {r} : pc'[q] = pc[q] /\ row'[q] = row[q]
    BY <2>1 DEF Goto, Reply, TypeOK
  <2> QED
    BY <2>1, <2>3, <2>4 DEF DurationInv, PositiveDuration, HeldDuration
<1>3. ASSUME NEW r \in Request, EditUpdateSegment(r) PROVE DurationInv'
  <2>1. /\ segments' = [segments EXCEPT ![req[r].seg] = row[r]]
        /\ pc' = [pc EXCEPT ![r] = "add_revision"]
        /\ pc[r] = "update_segment"
        /\ UNCHANGED row
    BY <1>3 DEF EditUpdateSegment, UpdateSegment, Goto, editVars
  <2> QED
    BY <2>1 DEF DurationInv, PositiveDuration, HeldDuration, TypeOK, TablesOK
<1>4. ASSUME NEW r \in Request, EditMarkConflict(r) PROVE DurationInv'
  <2>1. /\ \/ segments' = [segments EXCEPT ![req[r].seg] =
                             [segments[req[r].seg] EXCEPT !.status = "conflict"]]
           \/ UNCHANGED segments
        /\ pc' = [pc EXCEPT ![r] = "done"]
        /\ UNCHANGED row
    BY <1>4 DEF EditMarkConflict, UpdateSegmentStatus, Reply, storeVars, editVars
  <2>2. segments[req[r].seg] \in Row /\ segments[req[r].seg] # None
    BY <1>4, EditAssumption
       DEF EditMarkConflict, TypeOK, LocalsOK, Editing, EditPC
  <2>3. PositiveDuration'
    BY <2>1, <2>2 DEF DurationInv, PositiveDuration, Positive, TypeOK, TablesOK, Row
  <2> QED
    BY <2>1, <2>3 DEF DurationInv, HeldDuration, TypeOK
<1>5. ASSUME NEW r \in Request,
             \/ EditLastActor(r) \/ EditAddConflict(r) \/ EditGetSpeaker(r)
             \/ EditAddRevision(r) \/ EditRecompute(r) \/ EditFail(r)
      PROVE  DurationInv'
  <2>1. UNCHANGED <<segments, row>>
    BY <1>5 DEF EditLastActor, EditAddConflict, EditGetSpeaker, EditAddRevision,
         EditRecompute, EditFail, Fail, AddConflict, AddRevision, Recompute,
         RecomputeListSegments, RecomputeListSpeakers, RecomputeDelete, RecomputeAdd, Return,
         DeleteQualityForMedia, AddQuality, storeVars, editVars
  <2>2. /\ \A q \in Request \ {r} : pc'[q] = pc[q]
        /\ \/ pc'[r] \notin {"get_speaker", "update_segment"}
           \/ pc[r] = "get_speaker"
    BY <1>5 DEF EditLastActor, EditAddConflict, EditGetSpeaker, EditAddRevision,
         EditRecompute, EditFail, Fail, Recompute, RecomputeListSegments,
         RecomputeListSpeakers, RecomputeDelete, RecomputeAdd, Return, Goto, Reply, TypeOK
  <2> QED
    BY <2>1, <2>2 DEF DurationInv, PositiveDuration, HeldDuration
<1>6. CASE Tick \/ UNCHANGED vars
  BY <1>6 DEF Tick, vars, storeVars, qaVars, editVars,
              DurationInv, PositiveDuration, HeldDuration
<1> QED
  BY <1>1, <1>2, <1>3, <1>4, <1>5, <1>6 DEF Next, EditStep, Quiet

\* No interleaving of edits, failed calls included, stores a segment that ends
\* before it starts or as it starts.
THEOREM DurationsPositive == Spec => []PositiveDuration
<1>1. DurationInv => PositiveDuration
  BY DEF DurationInv
<1> QED
  BY <1>1, TypeCorrect, DurationInit, DurationNext, PTL DEF Spec
-----------------------------------------------------------------------------
(***************************************************************************)
(* Conflict marks.  The mark travels three ways: a handler sets it after   *)
(* its record is in, and a whole-row write may put back the mark of the    *)
(* row it was read from, whose record stays.                               *)
(***************************************************************************)

Recorded(s) == \E c \in conflicts : c.seg = s

\* What a handler knows about the marks and records of its segment.
HeldMark(r) ==
  /\ pc[r] \in {"patch", "get_speaker", "update_segment"} /\ row[r].status = "conflict"
       => Recorded(req[r].seg)
  /\ pc[r] = "add_conflict" => conf[r].seg = req[r].seg
  /\ pc[r] = "mark_conflict" => Recorded(req[r].seg)

MarkInv == ConflictMarkExplained /\ \A r \in Request : HeldMark(r)

LEMMA MarkInit == EditInit => MarkInv
BY SeedAssumption
   DEF EditInit, QualityInit, MarkInv, ConflictMarkExplained, HeldMark

\* Patch leaves the status of the row alone.
LEMMA PatchedStatus ==
  ASSUME NEW seg \in Row, NEW edit
  PROVE  Patched(seg, edit).status = seg.status
BY DEF Patched, Row

\* A step that takes no mark or record away, and leaves the locals of every
\* request but r alone, keeps what the others know.
LEMMA MarkFrame ==
  ASSUME MarkInv, NEW r \in Request, conflicts \subseteq conflicts',
         \A q \in Request \ {r} : /\ pc'[q] = pc[q]
                                  /\ req'[q] = req[q]
                                  /\ row'[q] = row[q]
                                  /\ conf'[q] = conf[q]
  PROVE  \A q \in Request \ {r} : HeldMark(q)'
BY DEF MarkInv, HeldMark, Recorded

LEMMA MarkNext == TypeOK /\ MarkInv /\ [Next]_vars => MarkInv'
<1> SUFFICES ASSUME TypeOK, MarkInv, [Next]_vars PROVE MarkInv'
  OBVIOUS
<1>1. ASSUME NEW r \in Request, EditGetSegment(r) PROVE MarkInv'
  <2>1. UNCHANGED <<segments, conflicts, conf>> /\ ConflictMarkExplained'
    BY <1>1 DEF EditGetSegment, storeVars, MarkInv, ConflictMarkExplained
  <2>2. \A q \in Request \ {r} : HeldMark(q)'
    <3>1. \A q \in Request \ {r} : pc'[q] = pc[q] /\ req'[q] = req[q] /\ row'[q] = row[q]
      BY <1>1 DEF EditGetSegment, Goto, Reply, TypeOK
    <3> QED
      BY <2>1, <3>1, MarkFrame
  <2>3. HeldMark(r)'
    <3>1. PICK g \in EditRequest :
            /\ req'[r] = g
            /\ \/ pc'[r] \in {"done", "last_actor"}
               \/ /\ pc'[r] = "patch"
                  /\ segments[g.seg] # None
                  /\ row'[r] = segments[g.seg]
      BY <1>1 DEF EditGetSegment, GetSegment, Goto, Reply, TypeOK
    <3>2. pc'[r] = "patch" /\ row'[r].status = "conflict" => Recorded(g.seg)
      BY <3>1 DEF MarkInv, ConflictMarkExplained, Recorded, EditRequest
    <3> QED
      BY <2>1, <3>1, <3>2 DEF HeldMark, Recorded
  <2> QED
    BY <2>1, <2>2, <2>3 DEF MarkInv
<1>2. ASSUME NEW r \in Request, EditLastActor(r) PROVE MarkInv'
  <2>1. /\ UNCHANGED <<segments, conflicts, req, row>>
        /\ pc' = [pc EXCEPT ![r] = "add_conflict"]
    BY <1>2 DEF EditLastActor, storeVars, Goto
  <2>2. conf'[r].seg = req[r].seg /\ \A q \in Request \ {r} : conf'[q] = conf[q]
    BY <1>2 DEF EditLastActor, TypeOK
  <2> QED
    BY <2>1, <2>2 DEF MarkInv, ConflictMarkExplained, HeldMark, Recorded, TypeOK
<1>3. ASSUME NEW r \in Request, EditAddConflict(r) PROVE MarkInv'
  <2>1. /\ UNCHANGED <<segments, req, row, conf>>
        /\ conflicts' = conflicts \cup {conf[r]}
        /\ pc[r] = "add_conflict"
        /\ pc' = [pc EXCEPT ![r] = "mark_conflict"]
    BY <1>3 DEF EditAddConflict, AddConflict, Goto, editVars
  <2> QED
    BY <2>1 DEF MarkInv, ConflictMarkExplained, HeldMark, Recorded, TypeOK
<1>4. ASSUME NEW r \in Request, EditMarkConflict(r) PROVE MarkInv'
  <2>1. /\ \/ segments' = [segments EXCEPT ![req[r].seg] =
                             [segments[req[r].seg] EXCEPT !.status = "conflict"]]
           \/ UNCHANGED segments
        /\ UNCHANGED <<conflicts, req, row, conf>>
        /\ pc[r] = "mark_conflict"
        /\ pc' = [pc EXCEPT ![r] = "done"]
    BY <1>4 DEF EditMarkConflict, UpdateSegmentStatus, Reply, storeVars, editVars
  <2>2. Recorded(req[r].seg)
    BY <2>1 DEF MarkInv, HeldMark
  <2>3. ConflictMarkExplained'
    BY <2>1, <2>2 DEF MarkInv, ConflictMarkExplained, Recorded, TypeOK, TablesOK
  <2> QED
    BY <2>1, <2>3 DEF MarkInv, HeldMark, Recorded, TypeOK
<1>5. ASSUME NEW r \in Request, EditPatch(r) PROVE MarkInv'
  <2>1. /\ UNCHANGED <<segments, conflicts, req, conf>>
        /\ pc[r] = "patch"
        /\ row'[r] = Patched(row[r], req[r].edit)
        /\ pc'[r] \in {"done", "get_speaker", "update_segment"}
        /\ \A q \in Request \ {r} : row'[q] = row[q] /\ pc'[q] = pc[q]
    BY <1>5 DEF EditPatch, Goto, Reply, storeVars, TypeOK
  <2>2. row'[r].status = row[r].status
    BY <2>1, PatchedStatus DEF TypeOK, LocalsOK, Editing, EditPC
  <2> QED
    BY <2>1, <2>2 DEF MarkInv, ConflictMarkExplained, HeldMark, Recorded
<1>6. ASSUME NEW r \in Request, EditUpdateSegment(r) PROVE MarkInv'
  <2>1. /\ segments' = [segments EXCEPT ![req[r].seg] = row[r]]
        /\ UNCHANGED <<conflicts, req, row, conf>>
        /\ pc[r] = "update_segment"
        /\ pc' = [pc EXCEPT ![r] = "add_revision"]
    BY <1>6 DEF EditUpdateSegment, UpdateSegment, Goto, editVars
  <2>2. ConflictMarkExplained'
    BY <2>1 DEF MarkInv, ConflictMarkExplained, HeldMark, Recorded, TypeOK, TablesOK
  <2> QED
    BY <2>1, <2>2 DEF MarkInv, HeldMark, Recorded, TypeOK
<1>7. ASSUME NEW r \in Request,
             EditGetSpeaker(r) \/ EditAddRevision(r) \/ EditRecompute(r) \/ EditFail(r)
      PROVE  MarkInv'
  <2>1. UNCHANGED <<segments, conflicts, req, row, conf>>
    BY <1>7 DEF EditGetSpeaker, EditAddRevision, EditRecompute, EditFail, Fail, AddRevision,
         Recompute, RecomputeListSegments, RecomputeListSpeakers, RecomputeDelete,
         RecomputeAdd, Return, DeleteQualityForMedia, AddQuality, storeVars, editVars
  <2>2. /\ \A q \in Request \ {r} : pc'[q] = pc[q]
        /\ \/ pc'[r] \in QualityPC \cup {"done"}
           \/ pc[r] = "get_speaker" /\ pc'[r] = "update_segment"
    BY <1>7 DEF EditGetSpeaker, EditAddRevision, EditRecompute, EditFail, Fail, Recompute,
         RecomputeListSegments, RecomputeListSpeakers, RecomputeDelete, RecomputeAdd, Return,
         Goto, Reply, TypeOK, QualityPC
  <2> QED
    BY <2>1, <2>2 DEF MarkInv, ConflictMarkExplained, HeldMark, Recorded, QualityPC
<1>8. CASE Tick \/ UNCHANGED vars
  BY <1>8 DEF Tick, vars, storeVars, qaVars, editVars,
              MarkInv, ConflictMarkExplained, HeldMark, Recorded
<1> QED
  BY <1>1, <1>2, <1>3, <1>4, <1>5, <1>6, <1>7, <1>8 DEF Next, EditStep, Quiet

\* A segment shown as conflicting always has a conflict record to explain it,
\* whatever edits race and whatever calls fail.
THEOREM MarksExplained == Spec => []ConflictMarkExplained
<1>1. MarkInv => ConflictMarkExplained
  BY DEF MarkInv
<1> QED
  BY <1>1, TypeCorrect, MarkInit, MarkNext, PTL DEF Spec
-----------------------------------------------------------------------------
(***************************************************************************)
(* The audit log, when store calls do not fail.  What makes the two        *)
(* properties inductive: a row a handler has read is one the log explains, *)
(* and the audit row it holds describes the very write it is about to make.*)
(***************************************************************************)

Traced(s, seg) ==
  \/ Content(seg) = Content(SeedSegments[s])
  \/ \E v \in Accepted : Explains(v, s, seg)

HeldAudit(r) ==
  /\ pc[r] = "patch" => row[r].version = req[r].base /\ Traced(req[r].seg, row[r])
  /\ pc[r] \in {"get_speaker", "update_segment", "add_revision"} =>
       /\ rev[r].seg = req[r].seg
       /\ rev[r].after = row[r]
       /\ rev[r].before.version = rev[r].base
       /\ rev[r].after.version = rev[r].base + 1
       /\ Traced(req[r].seg, rev[r].before)

AuditInv == RowTraceable /\ AuditTree /\ \A r \in Request : HeldAudit(r)

LEMMA AuditInit == EditInit => AuditInv
<1> SUFFICES ASSUME EditInit PROVE AuditInv
  OBVIOUS
<1>1. Accepted = {}
  BY DEF EditInit, QualityInit, Accepted
<1>2. RowTraceable
  BY DEF EditInit, RowTraceable
<1> QED
  BY <1>1, <1>2 DEF EditInit, QualityInit, AuditInv, AuditTree, HeldAudit

\* An image with the content of another carries its version.
LEMMA ContentVersion ==
  ASSUME NEW x, NEW y, Content(x) = Content(y)
  PROVE  x.version = y.version
BY DEF Content

\* The mark of a conflict is no part of the content.
LEMMA MarkKeepsContent ==
  ASSUME NEW x \in Row, NEW status
  PROVE  Content([x EXCEPT !.status = status]) = Content(x)
BY DEF Content, Row

\* A row that is traced stays traced while the accepted edits only grow.
LEMMA AuditFrame ==
  ASSUME AuditInv, NEW r \in Request, Accepted \subseteq Accepted',
         \A q \in Request \ {r} : /\ pc'[q] = pc[q]
                                  /\ req'[q] = req[q]
                                  /\ row'[q] = row[q]
                                  /\ rev'[q] = rev[q]
  PROVE  \A q \in Request \ {r} : HeldAudit(q)'
BY DEF AuditInv, HeldAudit, Traced, Explains

\* A step that neither accepts an edit nor writes a row.
LEMMA AcceptedSame ==
  ASSUME NEW r \in Request, UNCHANGED revisions,
         pc[r] # "add_revision", pc'[r] # "add_revision",
         \A q \in Request \ {r} : pc'[q] = pc[q] /\ rev'[q] = rev[q]
  PROVE  Accepted' = Accepted
BY DEF Accepted

LEMMA TablesFrame ==
  ASSUME AuditInv, Accepted' = Accepted,
         \A s \in Segment : segments[s] # None /\ segments'[s] # None =>
           Content(segments'[s]) = Content(segments[s]),
         \A s \in Segment : segments[s] = None => segments'[s] = None
  PROVE  RowTraceable' /\ AuditTree'
BY DEF AuditInv, RowTraceable, AuditTree, Explains

LEMMA AuditNext ==
  ASSUME Faults = FALSE
  PROVE  TypeOK /\ AuditInv /\ [Next]_vars => AuditInv'
<1> SUFFICES ASSUME TypeOK, AuditInv, [Next]_vars PROVE AuditInv'
  OBVIOUS
<1>1. ASSUME NEW r \in Request, EditGetSegment(r) PROVE AuditInv'
  <2>1. /\ UNCHANGED <<segments, revisions, rev>>
        /\ pc[r] = "new"
        /\ pc'[r] \in {"done", "last_actor", "patch"}
        /\ \A q \in Request \ {r} : /\ pc'[q] = pc[q]
                                    /\ req'[q] = req[q]
                                    /\ row'[q] = row[q]
    BY <1>1 DEF EditGetSegment, Goto, Reply, storeVars, TypeOK
  <2>2. Accepted' = Accepted
    BY <2>1, AcceptedSame
  <2>3. RowTraceable' /\ AuditTree'
    BY <2>1, <2>2, TablesFrame
  <2>4. \A q \in Request \ {r} : HeldAudit(q)'
    BY <2>1, <2>2, AuditFrame
  <2>5. HeldAudit(r)'
    <3>1. PICK g \in EditRequest :
            /\ req'[r] = g
            /\ pc'[r] = "patch" => /\ segments[g.seg] # None
                                   /\ row'[r] = segments[g.seg]
                                   /\ row'[r].version = g.base
      BY <1>1 DEF EditGetSegment, Stale, GetSegment, Goto, Reply, TypeOK
    <3>2. pc'[r] = "patch" => Traced(g.seg, row'[r])
      BY <3>1 DEF AuditInv, RowTraceable, Traced, EditRequest
    <3> QED
      BY <2>1, <2>2, <3>1, <3>2 DEF HeldAudit, Traced
  <2> QED
    BY <2>3, <2>4, <2>5 DEF AuditInv
<1>2. ASSUME NEW r \in Request, EditPatch(r) PROVE AuditInv'
  <2> DEFINE p == Patched(row[r], req[r].edit)
  <2>1. /\ UNCHANGED <<segments, revisions, req>>
        /\ pc[r] = "patch"
        /\ pc'[r] \in {"done", "get_speaker", "update_segment"}
        /\ row' = [row EXCEPT ![r] = p]
        /\ rev' = [rev EXCEPT ![r] = Audit(r, row[r], p)]
        /\ \A q \in Request \ {r} : pc'[q] = pc[q]
    BY <1>2 DEF EditPatch, Goto, Reply, storeVars, TypeOK
  <2>2. p.version = row[r].version + 1
    BY <2>1 DEF TypeOK, LocalsOK, Editing, EditPC, Patched, Row
  <2> HIDE DEF p
  <2>3. /\ row'[r] = p
        /\ rev'[r] = Audit(r, row[r], p)
        /\ \A q \in Request \ {r} : row'[q] = row[q] /\ rev'[q] = rev[q]
    BY <2>1 DEF TypeOK
  <2>4. Accepted' = Accepted
    BY <2>1, <2>3, AcceptedSame
  <2>5. RowTraceable' /\ AuditTree'
    BY <2>1, <2>4, TablesFrame
  <2>6. \A q \in Request \ {r} : HeldAudit(q)'
    BY <2>1, <2>3, <2>4, AuditFrame
  <2>7. row[r].version = req[r].base /\ Traced(req[r].seg, row[r])
    BY <2>1 DEF AuditInv, HeldAudit
  <2>8. HeldAudit(r)'
    BY <2>1, <2>2, <2>3, <2>4, <2>7 DEF HeldAudit, Audit, Traced
  <2> QED
    BY <2>5, <2>6, <2>8 DEF AuditInv
<1>3. ASSUME NEW r \in Request, EditUpdateSegment(r) PROVE AuditInv'
  <2>1. /\ segments' = [segments EXCEPT ![req[r].seg] = row[r]]
        /\ UNCHANGED <<revisions, req, row, rev>>
        /\ pc[r] = "update_segment"
        /\ pc' = [pc EXCEPT ![r] = "add_revision"]
    BY <1>3 DEF EditUpdateSegment, UpdateSegment, Goto, editVars
  <2>2. Accepted' = Accepted \cup {rev[r]}
    BY <2>1 DEF Accepted, TypeOK
  <2>3. /\ rev[r].seg = req[r].seg
        /\ rev[r].after = row[r]
        /\ rev[r].before.version = rev[r].base
        /\ rev[r].after.version = rev[r].base + 1
        /\ Traced(req[r].seg, rev[r].before)
    BY <2>1 DEF AuditInv, HeldAudit
  <2>4. RowTraceable'
    BY <2>1, <2>2, <2>3 DEF AuditInv, RowTraceable, Explains, TypeOK, TablesOK
  <2>5. rev[r].base \in Int
    BY <2>1 DEF TypeOK, LocalsOK, Revision
  <2>6. ASSUME NEW w \in Accepted, Explains(w, rev[r].seg, rev[r].before)
        PROVE  w # rev[r]
    <3>1. w.after.version = rev[r].before.version
      BY <2>6, ContentVersion DEF Explains
    <3> QED
      BY <2>3, <2>5, <3>1
  <2>7. AuditTree'
    <3> SUFFICES ASSUME NEW v \in Accepted'
                 PROVE  /\ v.after.version = v.base + 1
                        /\ \/ Content(v.before) = Content(SeedSegments[v.seg])
                           \/ \E w \in Accepted' : w # v /\ Explains(w, v.seg, v.before)
      BY DEF AuditTree, Explains
    <3>1. CASE v \in Accepted
      BY <2>2, <3>1 DEF AuditInv, AuditTree
    <3>2. CASE v = rev[r]
      BY <2>2, <2>3, <2>6, <3>2 DEF Traced
    <3> QED
      BY <2>2, <3>1, <3>2
  <2>8. \A q \in Request \ {r} : HeldAudit(q)'
    <3>1. \A q \in Request \ {r} : pc'[q] = pc[q]
      BY <2>1 DEF TypeOK
    <3> QED
      BY <2>1, <2>2, <3>1, AuditFrame
  <2>9. HeldAudit(r)'
    BY <2>1, <2>2, <2>3 DEF HeldAudit, Traced, TypeOK
  <2> QED
    BY <2>4, <2>7, <2>8, <2>9 DEF AuditInv
<1>4. ASSUME NEW r \in Request, EditAddRevision(r) PROVE AuditInv'
  <2>1. /\ revisions' = revisions \cup {rev[r]}
        /\ UNCHANGED <<segments, req, row, rev>>
        /\ pc[r] = "add_revision"
        /\ pc' = [pc EXCEPT ![r] = "list_segments"]
    BY <1>4 DEF EditAddRevision, AddRevision, Goto, editVars
  <2>2. Accepted' = Accepted
    BY <2>1 DEF Accepted, TypeOK
  <2>3. RowTraceable' /\ AuditTree'
    BY <2>1, <2>2, TablesFrame
  <2>4. \A q \in Request \ {r} : HeldAudit(q)'
    <3>1. \A q \in Request \ {r} : pc'[q] = pc[q]
      BY <2>1 DEF TypeOK
    <3> QED
      BY <2>1, <2>2, <3>1, AuditFrame
  <2>5. HeldAudit(r)'
    BY <2>1 DEF HeldAudit, TypeOK
  <2> QED
    BY <2>3, <2>4, <2>5 DEF AuditInv
<1>5. ASSUME NEW r \in Request, EditMarkConflict(r) PROVE AuditInv'
  <2>1. /\ \/ segments' = [segments EXCEPT ![req[r].seg] =
                             [segments[req[r].seg] EXCEPT !.status = "conflict"]]
           \/ UNCHANGED segments
        /\ UNCHANGED <<revisions, req, row, rev>>
        /\ pc[r] = "mark_conflict"
        /\ pc' = [pc EXCEPT ![r] = "done"]
    BY <1>5 DEF EditMarkConflict, UpdateSegmentStatus, Reply, storeVars, editVars
  <2>2. segments[req[r].seg] \in Row /\ req[r] \in EditRequest
    BY <2>1 DEF TypeOK, LocalsOK, Editing, EditPC
  <2>3. /\ \A s \in Segment : segments[s] # None /\ segments'[s] # None =>
             Content(segments'[s]) = Content(segments[s])
        /\ \A s \in Segment : segments[s] = None => segments'[s] = None
    <3> DEFINE s0 == req[r].seg
               marked == [segments[s0] EXCEPT !.status = "conflict"]
    <3>1. Content(marked) = Content(segments[s0])
      BY <2>2, MarkKeepsContent
    <3>2. segments[s0] # None
      BY <2>2, EditAssumption
    <3> HIDE DEF marked
    <3>3. segments' = [segments EXCEPT ![s0] = marked] \/ UNCHANGED segments
      BY <2>1 DEF marked
    <3> QED
      BY <3>1, <3>2, <3>3 DEF TypeOK, TablesOK
  <2>4. pc'[r] = "done" /\ \A q \in Request \ {r} : pc'[q] = pc[q]
    BY <2>1 DEF TypeOK
  <2>5. Accepted' = Accepted
    BY <2>1, <2>4, AcceptedSame
  <2>6. RowTraceable' /\ AuditTree'
    BY <2>3, <2>5, TablesFrame
  <2> QED
    BY <2>1, <2>4, <2>5, <2>6, AuditFrame DEF AuditInv, HeldAudit
<1>6. ASSUME NEW r \in Request,
             \/ EditLastActor(r) \/ EditAddConflict(r) \/ EditGetSpeaker(r)
             \/ EditRecompute(r)
      PROVE  AuditInv'
  <2>1. UNCHANGED <<segments, revisions, req, row, rev>>
    BY <1>6 DEF EditLastActor, EditAddConflict, EditGetSpeaker, EditRecompute,
         AddConflict, Recompute, RecomputeListSegments, RecomputeListSpeakers,
         RecomputeDelete, RecomputeAdd, Return, DeleteQualityForMedia, AddQuality,
         storeVars, editVars
  <2>2. /\ \A q \in Request \ {r} : pc'[q] = pc[q]
        /\ pc[r] # "add_revision"
        /\ \/ pc'[r] \in QualityPC \cup {"done", "add_conflict", "mark_conflict"}
           \/ pc[r] = "get_speaker" /\ pc'[r] = "update_segment"
    BY <1>6 DEF EditLastActor, EditAddConflict, EditGetSpeaker, EditRecompute,
         Recompute, RecomputeListSegments, RecomputeListSpeakers, RecomputeDelete,
         RecomputeAdd, Return, Goto, Reply, TypeOK, QualityPC
  <2>3. Accepted' = Accepted
    BY <2>1, <2>2, AcceptedSame DEF QualityPC
  <2>4. RowTraceable' /\ AuditTree'
    BY <2>1, <2>3, TablesFrame
  <2>5. \A q \in Request \ {r} : HeldAudit(q)'
    BY <2>1, <2>2, <2>3, AuditFrame
  <2>6. HeldAudit(r)'
    BY <2>1, <2>2, <2>3 DEF AuditInv, HeldAudit, Traced, QualityPC
  <2> QED
    BY <2>4, <2>5, <2>6 DEF AuditInv
<1>7. CASE Tick \/ UNCHANGED vars
  BY <1>7 DEF Tick, vars, storeVars, qaVars, editVars, AuditInv, RowTraceable,
              AuditTree, HeldAudit, Traced, Accepted, Explains
<1>8. \A r \in Request : ~EditFail(r)
  BY DEF EditFail, Fail
<1> QED
  BY <1>1, <1>2, <1>3, <1>4, <1>5, <1>6, <1>7, <1>8 DEF Next, EditStep, Quiet

LEMMA AuditInvHolds ==
  ASSUME Faults = FALSE
  PROVE  Spec => []AuditInv
<1>1. TypeOK /\ AuditInv /\ [Next]_vars => AuditInv'
  BY AuditNext
<1> QED
  BY <1>1, TypeCorrect, AuditInit, PTL DEF Spec

\* As long as store calls do not fail, the audit log accounts for every row,
\* however edits race.
THEOREM RowsTraced ==
  ASSUME Faults = FALSE
  PROVE  Spec => []RowTraceable
<1>1. AuditInv => RowTraceable
  BY DEF AuditInv
<1> QED
  BY <1>1, AuditInvHolds, PTL

\* And every accepted edit starts from the import or from another accepted one.
THEOREM AuditConnected ==
  ASSUME Faults = FALSE
  PROVE  Spec => []AuditTree
<1>1. AuditInv => AuditTree
  BY DEF AuditInv
<1> QED
  BY <1>1, AuditInvHolds, PTL

-----------------------------------------------------------------------------
(***************************************************************************)
(* The audit log when store calls fail.  A request that has come to write  *)
(* its row, or is done, is the one to hold to account for a row; what      *)
(* makes it inductive is that its audit row is in the log before it can be *)
(* told that all went well.                                                *)
(***************************************************************************)

Accountable == {"add_revision", "done"} \cup QualityPC

AccountFor(r, s) ==
  /\ pc[r] \in Accountable
  /\ rev[r] # None
  /\ Explains(rev[r], s, segments[s])
  /\ rev[r] \in revisions \/ outcome[r] \in {None, "error"}

HeldAccount(r) ==
  /\ pc[r] \in {"get_speaker", "update_segment", "add_revision"} =>
       /\ rev[r] # None
       /\ rev[r].seg = req[r].seg
       /\ rev[r].after = row[r]
  /\ pc[r] \in QualityPC => rev[r] \in revisions
  /\ pc[r] # "done" => outcome[r] = None

AccountInv ==
  /\ \A s \in Segment : segments[s] # None /\ segments[s].version # 1 =>
       \E r \in Request : AccountFor(r, s)
  /\ \A r \in Request : HeldAccount(r)

LEMMA AccountInit == EditInit => AccountInv
BY SeedAssumption DEF EditInit, QualityInit, AccountInv, HeldAccount, QualityPC

\* A step that writes no row leaves everyone to account for what they did.
LEMMA AccountFrame ==
  ASSUME AccountInv, NEW r \in Request, revisions \subseteq revisions',
         \A s \in Segment :
           /\ segments'[s] # None => segments[s] # None
           /\ segments[s] # None => Content(segments'[s]) = Content(segments[s]),
         \A q \in Request \ {r} : /\ pc'[q] = pc[q]
                                  /\ outcome'[q] = outcome[q]
                                  /\ req'[q] = req[q]
                                  /\ row'[q] = row[q]
                                  /\ rev'[q] = rev[q],
         HeldAccount(r)',
         pc[r] \in Accountable =>
           /\ pc'[r] \in Accountable
           /\ rev'[r] = rev[r]
           /\ rev[r] \in revisions' \/ outcome'[r] \in {None, "error"}
              \/ outcome'[r] = outcome[r]
  PROVE  AccountInv'
<1>1. ASSUME NEW s \in Segment, segments'[s] # None, segments'[s].version # 1
      PROVE  \E q \in Request : AccountFor(q, s)'
  <2>1. segments[s] # None /\ Content(segments'[s]) = Content(segments[s])
    BY <1>1
  <2>2. segments[s].version # 1
    BY <1>1, <2>1, ContentVersion
  <2>3. PICK q \in Request : AccountFor(q, s)
    BY <2>1, <2>2 DEF AccountInv
  <2>4. Explains(rev[q], s, segments'[s])
    BY <2>1, <2>3 DEF AccountFor, Explains
  <2>5. CASE q = r
    BY <2>3, <2>4, <2>5 DEF AccountFor
  <2>6. CASE q # r
    BY <2>3, <2>4, <2>6 DEF AccountFor
  <2> QED
    BY <2>5, <2>6
<1>2. \A q \in Request \ {r} : HeldAccount(q)'
  BY DEF AccountInv, HeldAccount
<1> QED
  BY <1>1, <1>2 DEF AccountInv

LEMMA AccountNext == TypeOK /\ AccountInv /\ [Next]_vars => AccountInv'
<1> SUFFICES ASSUME TypeOK, AccountInv, [Next]_vars PROVE AccountInv'
  OBVIOUS
<1>1. ASSUME NEW r \in Request, EditGetSegment(r) PROVE AccountInv'
  <2>1. /\ UNCHANGED <<segments, revisions, rev>>
        /\ pc[r] = "new"
        /\ pc'[r] \in {"done", "last_actor", "patch"}
        /\ pc'[r] # "done" => outcome' = outcome
        /\ \A q \in Request \ {r} : /\ pc'[q] = pc[q]
                                    /\ outcome'[q] = outcome[q]
                                    /\ req'[q] = req[q]
                                    /\ row'[q] = row[q]
    BY <1>1 DEF EditGetSegment, Goto, Reply, storeVars, TypeOK
  <2>2. HeldAccount(r)'
    BY <2>1 DEF HeldAccount, AccountInv, QualityPC
  <2> QED
    BY <2>1, <2>2, AccountFrame DEF Accountable, QualityPC
<1>2. ASSUME NEW r \in Request, EditPatch(r) PROVE AccountInv'
  <2> DEFINE p == Patched(row[r], req[r].edit)
  <2>1. /\ UNCHANGED <<segments, revisions, req>>
        /\ pc[r] = "patch"
        /\ pc'[r] \in {"done", "get_speaker", "update_segment"}
        /\ pc'[r] # "done" => outcome' = outcome
        /\ row' = [row EXCEPT ![r] = p]
        /\ rev' = [rev EXCEPT ![r] = Audit(r, row[r], p)]
        /\ \A q \in Request \ {r} : pc'[q] = pc[q] /\ outcome'[q] = outcome[q]
    BY <1>2 DEF EditPatch, Goto, Reply, storeVars, TypeOK
  <2>2. Audit(r, row[r], p) \in Revision
    <3>1. TypeOK'
      BY <1>2, PatchType
    <3>2. /\ req[r] \in EditRequest /\ req[r].actor # NoActor
          /\ row[r] \in Row /\ now \in Nat
      BY <2>1 DEF TypeOK, LocalsOK, Editing, EditPC
    <3>3. p \in Row
      BY <3>2, PatchedType DEF EditRequest
    <3> QED
      BY <3>2, <3>3, EditAssumption DEF Audit, Revision, EditRequest
  <2> HIDE DEF p
  <2>3. /\ row'[r] = p
        /\ rev'[r] = Audit(r, row[r], p)
        /\ \A q \in Request \ {r} : row'[q] = row[q] /\ rev'[q] = rev[q]
    BY <2>1 DEF TypeOK
  <2>4. HeldAccount(r)'
    BY <2>1, <2>2, <2>3, RevisionAssumption
       DEF HeldAccount, AccountInv, Audit, QualityPC
  <2> QED
    BY <2>1, <2>3, <2>4, AccountFrame DEF Accountable, QualityPC
<1>3. ASSUME NEW r \in Request, EditUpdateSegment(r) PROVE AccountInv'
  <2>1. /\ segments' = [segments EXCEPT ![req[r].seg] = row[r]]
        /\ UNCHANGED <<revisions, req, row, rev, outcome>>
        /\ pc[r] = "update_segment"
        /\ pc' = [pc EXCEPT ![r] = "add_revision"]
    BY <1>3 DEF EditUpdateSegment, UpdateSegment, Goto, editVars
  <2>2. HeldAccount(r) /\ req[r].seg \in Segment
    BY <2>1 DEF AccountInv, TypeOK, LocalsOK, Editing, EditPC, EditRequest
  <2>3. AccountFor(r, req[r].seg)'
    BY <2>1, <2>2
       DEF AccountFor, Accountable, HeldAccount, Explains, TypeOK, TablesOK
  <2>4. ASSUME NEW s \in Segment \ {req[r].seg},
               segments'[s] # None, segments'[s].version # 1
        PROVE  \E q \in Request : AccountFor(q, s)'
    <3>1. segments'[s] = segments[s]
      BY <2>1 DEF TypeOK, TablesOK
    <3>2. PICK q \in Request : AccountFor(q, s)
      BY <2>4, <3>1 DEF AccountInv
    <3>3. q # r
      BY <2>1, <3>2 DEF AccountFor, Accountable, QualityPC
    <3> QED
      BY <2>1, <3>1, <3>2, <3>3 DEF AccountFor, Explains, TypeOK
  <2>5. \A q \in Request : HeldAccount(q)'
    BY <2>1 DEF AccountInv, HeldAccount, TypeOK, QualityPC
  <2>6. \A s \in Segment : segments'[s] # None /\ segments'[s].version # 1 =>
          \E q \in Request : AccountFor(q, s)'
    <3> SUFFICES ASSUME NEW s \in Segment,
                        segments'[s] # None, segments'[s].version # 1
                 PROVE  \E q \in Request : AccountFor(q, s)'
      OBVIOUS
    <3>1. CASE s = req[r].seg
      BY <2>1, <2>3, <3>1 DEF AccountFor
    <3>2. CASE s # req[r].seg
      BY <2>4, <3>2
    <3> QED
      BY <3>1, <3>2
  <2> QED
    BY <2>5, <2>6 DEF AccountInv
<1>4. ASSUME NEW r \in Request, EditAddRevision(r) PROVE AccountInv'
  <2>1. /\ revisions' = revisions \cup {rev[r]}
        /\ UNCHANGED <<segments, req, row, rev, outcome>>
        /\ pc[r] = "add_revision"
        /\ pc' = [pc EXCEPT ![r] = "list_segments"]
    BY <1>4 DEF EditAddRevision, AddRevision, Goto, editVars
  <2>2. pc'[r] = "list_segments" /\ \A q \in Request \ {r} : pc'[q] = pc[q]
    BY <2>1 DEF TypeOK
  <2>3. HeldAccount(r)'
    BY <2>1, <2>2 DEF HeldAccount, AccountInv, QualityPC
  <2> QED
    BY <2>1, <2>2, <2>3, AccountFrame DEF Accountable, QualityPC
<1>5. ASSUME NEW r \in Request, EditMarkConflict(r) PROVE AccountInv'
  <2>1. /\ \/ segments' = [segments EXCEPT ![req[r].seg] =
                             [segments[req[r].seg] EXCEPT !.status = "conflict"]]
           \/ UNCHANGED segments
        /\ UNCHANGED <<revisions, req, row, rev>>
        /\ pc[r] = "mark_conflict"
        /\ pc' = [pc EXCEPT ![r] = "done"]
        /\ outcome' = [outcome EXCEPT ![r] = "conflict"]
    BY <1>5 DEF EditMarkConflict, UpdateSegmentStatus, Reply, storeVars, editVars
  <2>2. segments[req[r].seg] \in Row /\ req[r] \in EditRequest
    BY <2>1 DEF TypeOK, LocalsOK, Editing, EditPC
  <2>3. \A s \in Segment :
          /\ segments'[s] # None => segments[s] # None
          /\ segments[s] # None => Content(segments'[s]) = Content(segments[s])
    <3> DEFINE s0 == req[r].seg
               marked == [segments[s0] EXCEPT !.status = "conflict"]
    <3>1. Content(marked) = Content(segments[s0])
      BY <2>2, MarkKeepsContent
    <3>2. segments[s0] # None
      BY <2>2, EditAssumption
    <3> HIDE DEF marked
    <3>3. segments' = [segments EXCEPT ![s0] = marked] \/ UNCHANGED segments
      BY <2>1 DEF marked
    <3> QED
      BY <3>1, <3>2, <3>3 DEF TypeOK, TablesOK
  <2>4. pc'[r] = "done"
        /\ \A q \in Request \ {r} : pc'[q] = pc[q] /\ outcome'[q] = outcome[q]
    BY <2>1 DEF TypeOK
  <2>5. HeldAccount(r)'
    BY <2>4 DEF HeldAccount, QualityPC
  <2> QED
    BY <2>1, <2>3, <2>4, <2>5, AccountFrame DEF Accountable, QualityPC
<1>6. ASSUME NEW r \in Request,
             EditLastActor(r) \/ EditAddConflict(r) \/ EditGetSpeaker(r)
      PROVE  AccountInv'
  <2>1. /\ UNCHANGED <<segments, revisions, req, row, rev>>
        /\ pc[r] \in {"last_actor", "add_conflict", "get_speaker"}
        /\ \/ pc'[r] = "done"
           \/ /\ pc'[r] \in {"add_conflict", "mark_conflict"}
              /\ outcome' = outcome
           \/ /\ pc[r] = "get_speaker" /\ pc'[r] = "update_segment"
              /\ outcome' = outcome
        /\ \A q \in Request \ {r} : pc'[q] = pc[q] /\ outcome'[q] = outcome[q]
    BY <1>6 DEF EditLastActor, EditAddConflict, EditGetSpeaker, AddConflict,
                Goto, Reply, storeVars, editVars, TypeOK
  <2>2. HeldAccount(r)'
    BY <2>1 DEF AccountInv, HeldAccount, QualityPC
  <2> QED
    BY <2>1, <2>2, AccountFrame DEF Accountable, QualityPC
<1>7. ASSUME NEW r \in Request, EditRecompute(r) PROVE AccountInv'
  <2>1. /\ UNCHANGED <<segments, revisions, req, row, rev>>
        /\ pc[r] \in QualityPC
        /\ \/ pc'[r] \in QualityPC /\ outcome' = outcome
           \/ pc'[r] = "done"
        /\ \A q \in Request \ {r} : pc'[q] = pc[q] /\ outcome'[q] = outcome[q]
    BY <1>7 DEF EditRecompute, Recompute, RecomputeListSegments,
                RecomputeListSpeakers, RecomputeDelete, RecomputeAdd, Return,
                DeleteQualityForMedia, AddQuality, Goto, Reply, storeVars,
                editVars, TypeOK, QualityPC
  <2>2. rev[r] \in revisions
    BY <2>1 DEF AccountInv, HeldAccount
  <2>3. HeldAccount(r)'
    BY <2>1, <2>2 DEF AccountInv, HeldAccount, QualityPC
  <2> QED
    BY <2>1, <2>2, <2>3, AccountFrame DEF Accountable
<1>8. ASSUME NEW r \in Request, EditFail(r) PROVE AccountInv'
  <2>1. /\ UNCHANGED <<segments, revisions, req, row, rev>>
        /\ pc'[r] = "done" /\ outcome'[r] = "error"
        /\ \A q \in Request \ {r} : pc'[q] = pc[q] /\ outcome'[q] = outcome[q]
    BY <1>8 DEF EditFail, Fail, Reply, storeVars, editVars, TypeOK
  <2>2. HeldAccount(r)'
    BY <2>1 DEF HeldAccount, QualityPC
  <2> QED
    BY <2>1, <2>2, AccountFrame DEF Accountable
<1>9. CASE Tick \/ UNCHANGED vars
  BY <1>9 DEF Tick, vars, storeVars, qaVars, editVars, AccountInv, AccountFor,
              HeldAccount, Explains
<1> QED
  BY <1>1, <1>2, <1>3, <1>4, <1>5, <1>6, <1>7, <1>8, <1>9
     DEF Next, EditStep, Quiet

\* However edits race and whichever store calls fail, an edited row has its
\* audit row, or the edit that may have written it was not answered "ok".
THEOREM RowsAccounted == Spec => []RowAccounted
<1>1. AccountInv => RowAccounted
  BY DEF AccountInv, AccountFor, RowAccounted
<1> QED
  BY <1>1, TypeCorrect, AccountInit, AccountNext, PTL DEF Spec

-----------------------------------------------------------------------------
(***************************************************************************)
(* Edits served one after the other, with no store call failing, implement *)
(* OptimisticCell: to an editor the dozen store calls of an edit are one   *)
(* compare and swap.                                                       *)
(***************************************************************************)

Cells == [s \in Segment |-> IF segments[s] = None THEN None
                                                  ELSE Content(segments[s])]
AcceptedEdits == {[id |-> v.id, seg |-> v.seg, base |-> v.base,
                   after |-> Content(v.after)] : v \in Accepted}
RejectedEdits == {[id |-> c.id, seg |-> c.seg, base |-> c.attempted] : c \in conflicts}

\* The request has left its row in the audit log or among the conflicts.
Left(r) == (\E v \in Accepted : v.id = r) \/ (\E c \in conflicts : c.id = r)

\* What a request in flight knows, and with nobody else writing goes on
\* knowing, of the row it edits.
HeldCell(r) ==
  LET stored == segments[req[r].seg] IN
  /\ pc[r] \in {"new", "last_actor", "add_conflict", "patch", "get_speaker",
                "update_segment"} => ~Left(r)
  /\ pc[r] = "last_actor" => row[r] = stored /\ stored.version # req[r].base
  /\ pc[r] = "add_conflict" =>
       /\ conf[r].id = r
       /\ conf[r].seg = req[r].seg
       /\ conf[r].attempted = req[r].base
       /\ stored.version # req[r].base
  /\ pc[r] = "patch" => row[r] = stored /\ stored.version = req[r].base
  /\ pc[r] \in {"get_speaker", "update_segment"} =>
       /\ row[r] = Patched(stored, req[r].edit)
       /\ rev[r].id = r
       /\ rev[r].seg = req[r].seg
       /\ rev[r].base = stored.version
       /\ rev[r].after = row[r]

CellInv == \A r \in Request : HeldCell(r)

LEMMA CellInitial == EditInit => CellInv /\ Cell!Init
<1> SUFFICES ASSUME EditInit PROVE CellInv /\ Cell!Init
  OBVIOUS
<1>1. Accepted = {}
  BY DEF EditInit, QualityInit, Accepted
<1>2. CellInv
  BY <1>1 DEF EditInit, QualityInit, CellInv, HeldCell, Left
<1>3. Cell!Init
  BY <1>1, SeedAssumption DEF EditInit, Cell!Init, Content
<1> QED
  BY <1>2, <1>3

\* A row there is has a content.
LEMMA ContentSomething ==
  ASSUME NEW seg \in Row
  PROVE  Content(seg) # None
BY ContentAssumption DEF Content, Row

\* A patch does to the content what it does to the row.
LEMMA PatchedContent ==
  ASSUME NEW seg \in Row, NEW edit
  PROVE  /\ Content(Patched(seg, edit)) = Patched(Content(seg), edit)
         /\ Content(Patched(seg, edit)).version = seg.version + 1
         /\ Content(seg).version = seg.version
<1>1. Content(seg).version = seg.version
  BY DEF Content
<1> DEFINE a == Given(edit.start, seg.start)
           b == Given(edit.end, seg.end)
           c == Given(edit.text, seg.text)
           d == Given(edit.speaker, seg.speaker)
           e == Given(edit.desc, seg.desc)
           New == [start |-> a, end |-> b, text |-> c, speaker |-> d, desc |-> e,
                   version |-> seg.version + 1]
<1>2. /\ Patched(seg, edit).start = a
      /\ Patched(seg, edit).end = b
      /\ Patched(seg, edit).text = c
      /\ Patched(seg, edit).speaker = d
      /\ Patched(seg, edit).desc = e
      /\ Patched(seg, edit).version = seg.version + 1
  BY DEF Patched, Row
<1>3. Content(Patched(seg, edit)) = New
  <2> HIDE DEF a, b, c, d, e
  <2> QED
    BY <1>2 DEF Content
<1>4. Patched(Content(seg), edit) = New
  <2>1. Patched(Content(seg), edit) =
          [Content(seg) EXCEPT !.start = a, !.end = b, !.text = c, !.speaker = d,
                               !.desc = e, !.version = seg.version + 1]
    BY DEF Patched, Content
  <2> HIDE DEF a, b, c, d, e
  <2> QED
    BY <2>1 DEF Content
<1> QED
  BY <1>1, <1>3, <1>4

-----------------------------------------------------------------------------
(***************************************************************************)
(* The steps of the one request in flight.                                 *)
(***************************************************************************)

\* The others, at rest, only have to have left nothing.
LEMMA RestingHold ==
  ASSUME CellInv, NEW r \in Request, Alone(r),
         \A q \in Request \ {r} : pc'[q] = pc[q] /\ (Left(q)' => Left(q))
  PROVE  \A q \in Request \ {r} : HeldCell(q)'
BY DEF Alone, CellInv, HeldCell

LEMMA StutterStep ==
  ASSUME Cells' = Cells, Accepted' = Accepted, UNCHANGED conflicts
  PROVE  UNCHANGED Cell!cellVars
BY DEF Cell!cellVars, Cells

\* Steps that leave the lines, the audit log and the conflicts alone.
LEMMA QuietStep ==
  ASSUME TypeOK, CellInv, NEW r \in Request, Alone(r),
         UNCHANGED <<segments, revisions, conflicts>>,
         pc[r] # "add_revision", pc'[r] # "add_revision",
         \A q \in Request \ {r} : pc'[q] = pc[q] /\ rev'[q] = rev[q],
         HeldCell(r)'
  PROVE  CellInv' /\ UNCHANGED Cell!cellVars
<1>1. Accepted' = Accepted
  BY AcceptedSame
<1>2. \A q \in Request : Left(q)' = Left(q)
  BY <1>1 DEF Left
<1>3. \A q \in Request \ {r} : HeldCell(q)'
  BY <1>2, RestingHold
<1>4. UNCHANGED Cell!cellVars
  BY <1>1, StutterStep DEF Cells
<1> QED
  BY <1>3, <1>4 DEF CellInv

LEMMA GetSegmentStep ==
  ASSUME TypeOK, CellInv, NEW r \in Request, Alone(r), EditGetSegment(r)
  PROVE  CellInv' /\ UNCHANGED Cell!cellVars
<1>1. /\ UNCHANGED <<segments, revisions, conflicts, rev>>
      /\ pc[r] = "new"
      /\ pc'[r] \in {"done", "last_actor", "patch"}
      /\ \A q \in Request \ {r} : pc'[q] = pc[q]
  BY DEF EditGetSegment, Goto, Reply, storeVars, TypeOK
<1>2. ~Left(r)
  BY <1>1 DEF CellInv, HeldCell
<1>3. PICK g \in EditRequest :
        /\ req'[r] = g
        /\ pc'[r] = "patch" => /\ row'[r] = segments[g.seg]
                               /\ segments[g.seg].version = g.base
        /\ pc'[r] = "last_actor" => /\ row'[r] = segments[g.seg]
                                    /\ segments[g.seg].version # g.base
  BY DEF EditGetSegment, Stale, GetSegment, Goto, Reply, TypeOK
<1>4. Accepted' = Accepted
  BY <1>1, AcceptedSame
<1>5. HeldCell(r)'
  BY <1>1, <1>2, <1>3, <1>4 DEF HeldCell, Left
<1> QED
  BY <1>1, <1>5, QuietStep

LEMMA LastActorStep ==
  ASSUME TypeOK, CellInv, NEW r \in Request, Alone(r), EditLastActor(r)
  PROVE  CellInv' /\ UNCHANGED Cell!cellVars
<1>1. /\ UNCHANGED <<segments, revisions, conflicts, rev, req, row>>
      /\ pc[r] = "last_actor"
      /\ pc'[r] = "add_conflict"
      /\ \A q \in Request \ {r} : pc'[q] = pc[q]
  BY DEF EditLastActor, Goto, storeVars, TypeOK
<1>2. /\ conf'[r].id = r
      /\ conf'[r].seg = req[r].seg
      /\ conf'[r].attempted = req[r].base
  BY DEF EditLastActor, TypeOK
<1>3. ~Left(r) /\ segments[req[r].seg].version # req[r].base
  BY <1>1 DEF CellInv, HeldCell
<1>4. Accepted' = Accepted
  BY <1>1, AcceptedSame
<1>5. HeldCell(r)'
  BY <1>1, <1>2, <1>3, <1>4 DEF HeldCell, Left
<1> QED
  BY <1>1, <1>5, QuietStep

LEMMA PatchStep ==
  ASSUME TypeOK, CellInv, NEW r \in Request, Alone(r), EditPatch(r)
  PROVE  CellInv' /\ UNCHANGED Cell!cellVars
<1> DEFINE p == Patched(row[r], req[r].edit)
<1>1. /\ UNCHANGED <<segments, revisions, conflicts, req>>
      /\ pc[r] = "patch"
      /\ pc'[r] \in {"done", "get_speaker", "update_segment"}
      /\ row' = [row EXCEPT ![r] = p]
      /\ rev' = [rev EXCEPT ![r] = Audit(r, row[r], p)]
      /\ \A q \in Request \ {r} : pc'[q] = pc[q]
  BY DEF EditPatch, Goto, Reply, storeVars, TypeOK
<1>2. /\ ~Left(r)
      /\ row[r] = segments[req[r].seg]
      /\ row[r].version = req[r].base
  BY <1>1 DEF CellInv, HeldCell
<1>3. /\ row'[r] = p
      /\ rev'[r] = Audit(r, row[r], p)
      /\ \A q \in Request \ {r} : rev'[q] = rev[q]
  BY <1>1 DEF TypeOK
<1>4. Accepted' = Accepted
  BY <1>1, <1>3, AcceptedSame
<1>5. ~Left(r)'
  BY <1>1, <1>2, <1>4 DEF Left
<1>6. p = Patched(segments[req[r].seg], req[r].edit)
  BY <1>2
<1>7. HeldCell(r)'
  <2> HIDE DEF p
  <2> QED
    BY <1>1, <1>2, <1>3, <1>5, <1>6 DEF HeldCell, Audit
<1> QED
  BY <1>1, <1>3, <1>7, QuietStep

LEMMA GetSpeakerStep ==
  ASSUME TypeOK, CellInv, NEW r \in Request, Alone(r), EditGetSpeaker(r)
  PROVE  CellInv' /\ UNCHANGED Cell!cellVars
<1>1. /\ UNCHANGED <<segments, revisions, conflicts, req, row, rev>>
      /\ pc[r] = "get_speaker"
      /\ pc'[r] \in {"done", "update_segment"}
      /\ \A q \in Request \ {r} : pc'[q] = pc[q]
  BY DEF EditGetSpeaker, Goto, Reply, storeVars, editVars, TypeOK
<1>2. Accepted' = Accepted
  BY <1>1, AcceptedSame
<1>3. HeldCell(r)
  BY DEF CellInv
<1>4. HeldCell(r)'
  BY <1>1, <1>2, <1>3 DEF HeldCell, Left
<1> QED
  BY <1>1, <1>4, QuietStep

LEMMA RecomputeStepQuiet ==
  ASSUME TypeOK, CellInv, NEW r \in Request, Alone(r), EditRecompute(r)
  PROVE  CellInv' /\ UNCHANGED Cell!cellVars
<1>1. /\ UNCHANGED <<segments, revisions, conflicts, req, row, rev>>
      /\ pc[r] \in QualityPC
      /\ pc'[r] \in QualityPC \cup {"done"}
      /\ \A q \in Request \ {r} : pc'[q] = pc[q]
  BY DEF EditRecompute, Recompute, RecomputeListSegments, RecomputeListSpeakers,
         RecomputeDelete, RecomputeAdd, Return, DeleteQualityForMedia, AddQuality,
         Goto, Reply, storeVars, editVars, TypeOK, QualityPC
<1>2. HeldCell(r)'
  BY <1>1 DEF HeldCell, QualityPC
<1> QED
  BY <1>1, <1>2, QuietStep DEF QualityPC

LEMMA AddRevisionStep ==
  ASSUME TypeOK, CellInv, NEW r \in Request, Alone(r), EditAddRevision(r)
  PROVE  CellInv' /\ UNCHANGED Cell!cellVars
<1>1. /\ revisions' = revisions \cup {rev[r]}
      /\ UNCHANGED <<segments, conflicts, rev>>
      /\ pc[r] = "add_revision"
      /\ pc' = [pc EXCEPT ![r] = "list_segments"]
  BY DEF EditAddRevision, AddRevision, Goto, editVars
<1>2. Accepted' = Accepted
  BY <1>1 DEF Accepted, TypeOK
<1>3. \A q \in Request \ {r} : pc'[q] = pc[q] /\ (Left(q)' => Left(q))
  BY <1>1, <1>2 DEF TypeOK, Left
<1>4. \A q \in Request \ {r} : HeldCell(q)'
  BY <1>3, RestingHold
<1>5. pc'[r] = "list_segments"
  BY <1>1 DEF TypeOK
<1>6. HeldCell(r)'
  BY <1>5 DEF HeldCell
<1>7. UNCHANGED Cell!cellVars
  BY <1>1, <1>2, StutterStep DEF Cells
<1> QED
  BY <1>4, <1>6, <1>7 DEF CellInv

LEMMA MarkConflictStep ==
  ASSUME TypeOK, CellInv, NEW r \in Request, Alone(r), EditMarkConflict(r)
  PROVE  CellInv' /\ UNCHANGED Cell!cellVars
<1> DEFINE s0 == req[r].seg
           marked == [segments[s0] EXCEPT !.status = "conflict"]
<1>1. /\ segments' = [segments EXCEPT ![s0] = marked] \/ UNCHANGED segments
      /\ UNCHANGED <<revisions, conflicts, rev>>
      /\ pc[r] = "mark_conflict"
      /\ pc' = [pc EXCEPT ![r] = "done"]
  BY DEF EditMarkConflict, UpdateSegmentStatus, Reply, storeVars, editVars
<1>2. pc'[r] = "done" /\ \A q \in Request \ {r} : pc'[q] = pc[q]
  BY <1>1 DEF TypeOK
<1>3. Accepted' = Accepted
  BY <1>1, <1>2, AcceptedSame
<1>4. segments[s0] \in Row /\ marked \in Row
  <2>1. segments[s0] \in Row
    BY <1>1 DEF TypeOK, LocalsOK, Editing, EditPC
  <2> QED
    BY <2>1 DEF Row, SegmentStatus
<1>5. Content(marked) = Content(segments[s0]) /\ segments[s0] # None /\ marked # None
  BY <1>4, MarkKeepsContent, EditAssumption
<1>6. Cells' = Cells
  <2> HIDE DEF marked
  <2> QED
    BY <1>1, <1>5 DEF Cells, TypeOK, TablesOK
<1>7. \A q \in Request \ {r} : Left(q)' => Left(q)
  BY <1>1, <1>3 DEF Left
<1>8. \A q \in Request \ {r} : HeldCell(q)'
  BY <1>2, <1>7, RestingHold
<1>9. HeldCell(r)'
  BY <1>2 DEF HeldCell
<1>10. UNCHANGED Cell!cellVars
  BY <1>1, <1>3, <1>6, StutterStep
<1> QED
  BY <1>8, <1>9, <1>10 DEF CellInv

\* The conflict row is the rejection.
LEMMA AddConflictStep ==
  ASSUME TypeOK, CellInv, NEW r \in Request, Alone(r), EditAddConflict(r)
  PROVE  CellInv' /\ Cell!Next
<1> DEFINE s0 == req[r].seg
<1>1. /\ conflicts' = conflicts \cup {conf[r]}
      /\ UNCHANGED <<segments, revisions, rev>>
      /\ pc[r] = "add_conflict"
      /\ pc' = [pc EXCEPT ![r] = "mark_conflict"]
  BY DEF EditAddConflict, AddConflict, Goto, editVars
<1>2. pc'[r] = "mark_conflict" /\ \A q \in Request \ {r} : pc'[q] = pc[q]
  BY <1>1 DEF TypeOK
<1>3. Accepted' = Accepted
  BY <1>1, <1>2, AcceptedSame
<1>4. /\ ~Left(r)
      /\ conf[r].id = r
      /\ conf[r].seg = s0
      /\ conf[r].attempted = req[r].base
      /\ segments[s0].version # req[r].base
  BY <1>1 DEF CellInv, HeldCell
<1>5. /\ s0 \in Segment
      /\ req[r].base \in Bases
      /\ segments[s0] # None
  BY <1>1, EditAssumption DEF TypeOK, LocalsOK, Editing, EditPC, EditRequest
<1>6. CellInv'
  <2>1. \A q \in Request \ {r} : Left(q)' => Left(q)
    BY <1>1, <1>3, <1>4 DEF Left
  <2>2. \A q \in Request \ {r} : HeldCell(q)'
    BY <1>2, <2>1, RestingHold
  <2>3. HeldCell(r)'
    BY <1>2 DEF HeldCell
  <2> QED
    BY <2>2, <2>3 DEF CellInv
<1>7. UNCHANGED <<Cells, AcceptedEdits>>
  BY <1>1, <1>3 DEF Cells, AcceptedEdits
<1>8. RejectedEdits' = RejectedEdits
                         \cup {[id |-> r, seg |-> s0, base |-> req[r].base]}
  BY <1>1, <1>4 DEF RejectedEdits
<1>9. /\ \A a \in AcceptedEdits : a.id # r
      /\ \A a \in RejectedEdits : a.id # r
  BY <1>4 DEF Left, AcceptedEdits, RejectedEdits
<1>10. Cells[s0] # None /\ req[r].base # Cells[s0].version
  <2>1. segments[s0] \in Row
    BY <1>1 DEF TypeOK, LocalsOK, Editing, EditPC
  <2>2. Cells[s0] = Content(segments[s0])
    BY <1>5 DEF Cells
  <2>3. Cells[s0].version = segments[s0].version
    BY <2>1, <2>2, PatchedContent
  <2>4. Cells[s0] # None
    BY <2>1, <2>2, ContentSomething
  <2> QED
    BY <1>4, <2>3, <2>4
<1>11. PICK s \in Segment, b \in Bases : s = s0 /\ b = req[r].base
  BY <1>5
<1>12. Cell!Reject(r, s, b)
  BY <1>7, <1>8, <1>9, <1>10, <1>11
     DEF Cell!Reject, Cell!Used, Cells, AcceptedEdits, RejectedEdits
<1> QED
  BY <1>6, <1>12 DEF Cell!Next

\* Writing the row is the acceptance: the gate and the write are apart, but
\* nobody wrote in between.
LEMMA UpdateSegmentStep ==
  ASSUME TypeOK, CellInv, NEW r \in Request, Alone(r), EditUpdateSegment(r)
  PROVE  CellInv' /\ Cell!Next
<1> DEFINE s0 == req[r].seg
           new == Content(row[r])
<1>1. /\ segments' = [segments EXCEPT ![s0] = row[r]]
      /\ UNCHANGED <<revisions, conflicts, req, row, rev>>
      /\ pc[r] = "update_segment"
      /\ pc' = [pc EXCEPT ![r] = "add_revision"]
  BY DEF EditUpdateSegment, UpdateSegment, Goto, editVars
<1>2. pc'[r] = "add_revision" /\ \A q \in Request \ {r} : pc'[q] = pc[q]
  BY <1>1 DEF TypeOK
<1>3. /\ ~Left(r)
      /\ row[r] = Patched(segments[s0], req[r].edit)
      /\ rev[r].id = r
      /\ rev[r].seg = s0
      /\ rev[r].base = segments[s0].version
      /\ rev[r].after = row[r]
  BY <1>1 DEF CellInv, HeldCell
<1>4. /\ s0 \in Segment
      /\ req[r].edit \in Edits
      /\ segments[s0] \in Row
      /\ row[r] \in Row
  BY <1>1 DEF TypeOK, LocalsOK, Editing, EditPC, EditRequest
<1>5. segments[s0] # None /\ row[r] # None
  BY <1>4, EditAssumption
<1>6. Accepted' = Accepted \cup {rev[r]}
  BY <1>1 DEF Accepted, TypeOK
<1>7. CellInv'
  <2>1. \A q \in Request \ {r} : Left(q)' => Left(q)
    BY <1>1, <1>3, <1>6 DEF Left
  <2>2. \A q \in Request \ {r} : HeldCell(q)'
    BY <1>2, <2>1, RestingHold
  <2>3. HeldCell(r)'
    BY <1>2 DEF HeldCell
  <2> QED
    BY <2>2, <2>3 DEF CellInv
<1>8. /\ Cells[s0] = Content(segments[s0])
      /\ Cells[s0] # None
      /\ Cells[s0].version = segments[s0].version
      /\ new = Patched(Cells[s0], req[r].edit)
      /\ new.version = Cells[s0].version + 1
  <2>1. Cells[s0] = Content(segments[s0])
    BY <1>4, <1>5 DEF Cells
  <2>2. Cells[s0] # None
    BY <1>4, <2>1, ContentSomething
  <2> QED
    BY <1>3, <1>4, <2>1, <2>2, PatchedContent
<1>9. Cells' = [Cells EXCEPT ![s0] = new]
  BY <1>1, <1>4, <1>5 DEF Cells, TypeOK, TablesOK
<1>10. AcceptedEdits' = AcceptedEdits
          \cup {[id |-> r, seg |-> s0, base |-> Cells[s0].version, after |-> new]}
  BY <1>1, <1>3, <1>6, <1>8 DEF AcceptedEdits
<1>11. UNCHANGED RejectedEdits
  BY <1>1 DEF RejectedEdits
<1>12. /\ \A a \in AcceptedEdits : a.id # r
       /\ \A a \in RejectedEdits : a.id # r
  BY <1>3 DEF Left, AcceptedEdits, RejectedEdits
<1>13. PICK s \in Segment, c \in Edits : s = s0 /\ c = req[r].edit
  BY <1>4
<1>14. Cell!Accept(r, s, c)
  <2> HIDE DEF new
  <2> QED
    BY <1>8, <1>9, <1>10, <1>11, <1>12, <1>13
       DEF Cell!Accept, Cell!Used, Cells, AcceptedEdits, RejectedEdits
<1> QED
  BY <1>7, <1>14 DEF Cell!Next

LEMMA CellNext ==
  ASSUME Faults = FALSE
  PROVE  TypeOK /\ CellInv /\ [SerialNext]_vars
           => CellInv' /\ [Cell!Next]_(Cell!cellVars)
<1> SUFFICES ASSUME TypeOK, CellInv, [SerialNext]_vars
             PROVE  CellInv' /\ (Cell!Next \/ UNCHANGED Cell!cellVars)
  OBVIOUS
<1>1. ASSUME NEW r \in Request, Alone(r), EditStep(r)
      PROVE  CellInv' /\ (Cell!Next \/ UNCHANGED Cell!cellVars)
  <2>1. ~EditFail(r)
    BY DEF EditFail, Fail
  <2> QED
    BY <1>1, <2>1, GetSegmentStep, LastActorStep, AddConflictStep, MarkConflictStep,
       PatchStep, GetSpeakerStep, UpdateSegmentStep, AddRevisionStep,
       RecomputeStepQuiet DEF EditStep
<1>2. CASE Tick \/ UNCHANGED vars
  <2>1. UNCHANGED <<segments, revisions, conflicts, pc, req, row, rev, conf>>
    BY <1>2 DEF Tick, vars, storeVars, qaVars, editVars
  <2>2. Accepted' = Accepted
    BY <2>1 DEF Accepted
  <2>3. CellInv'
    BY <2>1, <2>2 DEF CellInv, HeldCell, Left
  <2>4. UNCHANGED Cell!cellVars
    BY <2>1, <2>2, StutterStep DEF Cells
  <2> QED
    BY <2>3, <2>4
<1> QED
  BY <1>1, <1>2 DEF SerialNext, Quiet

LEMMA SerialType == SerialSpec => []TypeOK
<1>1. [SerialNext]_vars => [Next]_vars
  BY DEF SerialNext, Next
<1> QED
  BY <1>1, InitType, NextType, PTL DEF SerialSpec

\* Edits that come one after the other, with no store call failing, compare and
\* swap: what CellIsAChain says of the abstract cell is true of the rows.
THEOREM CellImplemented ==
  ASSUME Faults = FALSE
  PROVE  SerialSpec => CellSpec
<1>1. EditInit => CellInv /\ Cell!Init
  BY CellInitial
<1>2. TypeOK /\ CellInv /\ [SerialNext]_vars
        => CellInv' /\ [Cell!Next]_(Cell!cellVars)
  BY CellNext
<1> QED
  BY <1>1, <1>2, SerialType, PTL DEF SerialSpec, CellSpec, Cell!Spec

-----------------------------------------------------------------------------
(***************************************************************************)
(* The findings a recomputation leaves behind.                             *)
(***************************************************************************)

Found(m) == {FindingOf(q) : q \in ListQuality(m)}
Due(m) == Analyze(ListSegments(m), ListSpeakers(m))
Once(m) == \A q, p \in ListQuality(m) : FindingOf(q) = FindingOf(p) => q = p

\* What a recomputation of media m has in hand, with nobody else at the media.
HeldFindings(r, m) ==
  /\ pc[r] = "list_speakers" => listed[r] = ListSegments(m)
  /\ pc[r] = "delete_quality" => todo[r] = Due(m)
  /\ pc[r] = "add_quality" => /\ todo[r] \subseteq Due(m)
                              /\ Found(m) = Due(m) \ todo[r]
                              /\ Once(m)

\* A recomputation that is not disturbed comes nearer to the exact findings
\* with every step, and has them when it is through; other media it leaves.
LEMMA RecomputeExact ==
  ASSUME segments \in [Segment -> Row \cup {None}], quality \subseteq QualityRow,
         DOMAIN pc = Request, DOMAIN listed = Request, DOMAIN todo = Request,
         NEW r \in Request, NEW m \in Media, NEW next,
         next \in {"done", "list_segments"},
         HeldFindings(r, m), Recompute(r, m, next)
  PROVE  /\ \/ pc'[r] \in {"list_speakers", "delete_quality", "add_quality"}
            \/ pc'[r] = next /\ FindingsExact(m)'
         /\ HeldFindings(r, m)'
         /\ \A n \in Media \ {m} : FindingsExact(n) => FindingsExact(n)'
<1>1. CASE RecomputeListSegments(r, m)
  <2>1. /\ pc'[r] = "list_speakers" /\ listed'[r] = ListSegments(m)
        /\ UNCHANGED <<segments, speakers, quality>>
    BY <1>1 DEF RecomputeListSegments, Goto, storeVars
  <2>2. ListSegments(m)' = ListSegments(m)
    BY <2>1 DEF ListSegments
  <2> QED
    BY <2>1, <2>2 DEF HeldFindings, FindingsExact, ListQuality, ListSegments,
       ListSpeakers
<1>2. CASE RecomputeListSpeakers(r, m)
  <2>1. /\ pc'[r] = "delete_quality" /\ pc[r] = "list_speakers"
        /\ todo'[r] = Analyze(listed[r], ListSpeakers(m))
        /\ UNCHANGED <<segments, speakers, quality>>
    BY <1>2 DEF RecomputeListSpeakers, Goto, storeVars
  <2>2. Due(m)' = Due(m)
    BY <2>1 DEF ListSegments, ListSpeakers, Due
  <2>3. todo'[r] = Due(m)
    BY <2>1 DEF HeldFindings, Due
  <2> QED
    BY <2>1, <2>2, <2>3 DEF HeldFindings, FindingsExact, ListQuality,
       ListSegments, ListSpeakers
<1>3. CASE RecomputeDelete(r, m, next)
  <2>1. /\ pc[r] = "delete_quality" /\ todo[r] = Due(m)
        /\ quality' = {q \in quality : q.media # m}
        /\ UNCHANGED <<segments, speakers, todo>>
        /\ pc'[r] = IF todo[r] = {} THEN next ELSE "add_quality"
    BY <1>3 DEF RecomputeDelete, DeleteQualityForMedia, Return, Reply, Goto,
       HeldFindings
  <2>2. /\ ListQuality(m)' = {}
        /\ \A n \in Media \ {m} : ListQuality(n)' = ListQuality(n)
    BY <2>1 DEF ListQuality
  <2>3. \A n : Due(n)' = Due(n)
    BY <2>1 DEF ListSegments, ListSpeakers, Due
  <2>4. \A n \in Media \ {m} : FindingsExact(n) => FindingsExact(n)'
    BY <2>2, <2>3 DEF FindingsExact, Due
  <2>5. Found(m)' = {} /\ Once(m)'
    BY <2>2 DEF Found, Once
  <2>6. CASE todo[r] = {}
    <3>1. FindingsExact(m)'
      BY <2>1, <2>3, <2>5, <2>6 DEF FindingsExact, Found, Once, Due
    <3> QED
      BY <2>1, <2>4, <2>6, <3>1 DEF HeldFindings
  <2>7. CASE todo[r] # {}
    <3>1. HeldFindings(r, m)'
      BY <2>1, <2>3, <2>5, <2>7 DEF HeldFindings
    <3> QED
      BY <2>1, <2>4, <2>7, <3>1
  <2> QED
    BY <2>6, <2>7
<1>4. CASE RecomputeAdd(r, m, next)
  <2>1. PICK f \in todo[r] :
          /\ pc[r] = "add_quality"
          /\ quality' = quality \cup
               {[run |-> r, media |-> m, seg |-> f.seg, rule |-> f.rule]}
          /\ UNCHANGED <<segments, speakers>>
          /\ todo'[r] = todo[r] \ {f}
          /\ pc'[r] = IF todo[r] = {f} THEN next ELSE "add_quality"
    BY <1>4 DEF RecomputeAdd, AddQuality, Return, Reply, Goto
  <2> DEFINE new == [run |-> r, media |-> m, seg |-> f.seg, rule |-> f.rule]
  <2>2. /\ todo[r] \subseteq Due(m)
        /\ Found(m) = Due(m) \ todo[r]
        /\ Once(m)
    BY <2>1 DEF HeldFindings
  <2>3. Due(m) \subseteq Finding
    BY AnalyzeType, ListSegmentsType DEF Due
  <2>4. f \in Finding /\ FindingOf(new) = f
    BY <2>2, <2>3 DEF Finding, FindingOf
  <2>5. new.media = m
    OBVIOUS
  <2> HIDE DEF new
  <2>6. quality' = quality \cup {new}
    BY <2>1 DEF new
  <2>7. /\ ListQuality(m)' = ListQuality(m) \cup {new}
        /\ \A n \in Media \ {m} : ListQuality(n)' = ListQuality(n)
    BY <2>5, <2>6 DEF ListQuality
  <2>8. \A n : Due(n)' = Due(n)
    BY <2>1 DEF ListSegments, ListSpeakers, Due
  <2>9. \A n \in Media \ {m} : FindingsExact(n) => FindingsExact(n)'
    BY <2>7, <2>8 DEF FindingsExact, Due
  <2>10. Found(m)' = Found(m) \cup {f}
    BY <2>4, <2>7 DEF Found
  <2>11. Once(m)'
    <3>1. \A q \in ListQuality(m) : FindingOf(q) # f
      BY <2>2 DEF Found
    <3> QED
      BY <2>2, <2>4, <2>7, <3>1 DEF Once
  <2>12. Found(m)' = Due(m) \ todo'[r] /\ todo'[r] \subseteq Due(m)
    BY <2>1, <2>2, <2>10
  <2>13. CASE todo[r] = {f}
    <3>1. FindingsExact(m)'
      BY <2>1, <2>8, <2>11, <2>12, <2>13 DEF FindingsExact, Found, Once, Due
    <3> QED
      BY <2>1, <2>9, <2>13, <3>1 DEF HeldFindings
  <2>14. CASE todo[r] # {f}
    <3>1. HeldFindings(r, m)'
      BY <2>1, <2>8, <2>11, <2>12, <2>14 DEF HeldFindings
    <3> QED
      BY <2>1, <2>9, <2>14, <3>1
  <2> QED
    BY <2>13, <2>14
<1> QED
  BY <1>1, <1>2, <1>3, <1>4 DEF Recompute

\* The analysis looks at neither the version nor the status of a row.
SameJudged(x, y) ==
  /\ x.start = y.start /\ x.end = y.end /\ x.idx = y.idx
  /\ x.text = y.text /\ x.speaker = y.speaker /\ x.desc = y.desc

LEMMA AnalyzeSame ==
  ASSUME NEW rows, NEW others, NEW valid, DOMAIN others = DOMAIN rows,
         \A s \in DOMAIN rows : SameJudged(others[s], rows[s])
  PROVE  Analyze(others, valid) = Analyze(rows, valid)
<1>1. ASSUME NEW a \in DOMAIN rows, NEW rule
      PROVE  Breaks(others[a], rule, valid) <=> Breaks(rows[a], rule, valid)
  BY SMT DEF SameJudged, Breaks, Positive, Overspeed
<1>2. ASSUME NEW a \in DOMAIN rows, NEW b \in DOMAIN rows
      PROVE  Before(others, a, b) <=> Before(rows, a, b)
  BY SMT DEF SameJudged, Before
<1>3. ASSUME NEW a \in DOMAIN rows, NEW b \in DOMAIN rows
      PROVE  Adjacent(others, a, b) <=> Adjacent(rows, a, b)
  BY <1>2 DEF Adjacent
<1>4. ASSUME NEW a \in DOMAIN rows, NEW b \in DOMAIN rows, NEW rule
      PROVE  PairBreaks(others[a], others[b], rule)
               <=> PairBreaks(rows[a], rows[b], rule)
  BY SMT DEF SameJudged, PairBreaks, Positive, Overlaps
<1>5. ASSUME NEW f \in [seg : DOMAIN rows, rule : Rule]
      PROVE  f \in Analyze(others, valid) <=> f \in Analyze(rows, valid)
  BY <1>1, <1>3, <1>4 DEF Analyze
<1> QED
  BY <1>5 DEF Analyze

\* Nor does the mark of a conflict change what is due.
LEMMA MarkKeepsDue ==
  ASSUME segments \in [Segment -> Row \cup {None}], UNCHANGED speakers,
         NEW s \in Segment, segments[s] \in Row, NEW status \in SegmentStatus,
         segments' = [segments EXCEPT ![s] = [segments[s] EXCEPT !.status = status]],
         NEW m
  PROVE  Due(m)' = Due(m)
<1> DEFINE marked == [segments[s] EXCEPT !.status = status]
<1>1. SameJudged(marked, segments[s]) /\ marked.media = segments[s].media
  BY DEF SameJudged, Row
<1>2. marked # None /\ segments[s] # None
  <2>1. marked \in Row
    BY DEF Row
  <2> QED
    BY <2>1, EditAssumption
<1>3. segments' = [segments EXCEPT ![s] = marked]
  OBVIOUS
<1> HIDE DEF marked
<1>4. DOMAIN ListSegments(m)' = DOMAIN ListSegments(m)
  BY <1>1, <1>2, <1>3 DEF ListSegments
<1>5. ASSUME NEW t \in DOMAIN ListSegments(m)
      PROVE  SameJudged(ListSegments(m)'[t], ListSegments(m)[t])
  BY <1>1, <1>3, <1>4 DEF ListSegments, SameJudged
<1>6. PICK rows : rows = ListSegments(m)
  OBVIOUS
<1>7. PICK others : others = ListSegments(m)'
  OBVIOUS
<1>8. Analyze(others, ListSpeakers(m)) = Analyze(rows, ListSpeakers(m))
  BY <1>4, <1>5, <1>6, <1>7, AnalyzeSame
<1>9. ListSpeakers(m)' = ListSpeakers(m)
  BY DEF ListSpeakers
<1> QED
  BY <1>6, <1>7, <1>8, <1>9 DEF Due

-----------------------------------------------------------------------------
(***************************************************************************)
(* Findings when requests come one after the other.  A media is exact      *)
(* unless the one request in flight has written a line of it and not yet   *)
(* recomputed.                                                             *)
(***************************************************************************)

Behind(r) == pc[r] \in {"add_revision"} \cup QualityPC

QualityInv ==
  /\ \A m \in Media : \/ FindingsExact(m)
                      \/ \E r \in Request : Behind(r) /\ row[r].media = m
  /\ \A r \in Request : pc[r] \in QualityPC => HeldFindings(r, row[r].media)

LEMMA QualityInvInit == EditInit => QualityInv
<1> SUFFICES ASSUME EditInit PROVE QualityInv
  OBVIOUS
<1>1. ASSUME NEW m \in Media PROVE FindingsExact(m)
  <2> DEFINE rows == {[run |-> None, media |-> m, seg |-> f.seg, rule |-> f.rule] :
                        f \in Due(m)}
  <2>1. Due(m) \subseteq Finding
    BY AnalyzeType, ListSegmentsType, InitType DEF Due, TypeOK, TablesOK
  <2>2. ListQuality(m) = rows
    BY DEF EditInit, SeedQuality, ListQuality, Due
  <2>3. {FindingOf(q) : q \in rows} = Due(m)
    <3>1. \A f \in Due(m) : FindingOf([run |-> None, media |-> m, seg |-> f.seg,
                                        rule |-> f.rule]) = f
      BY <2>1 DEF FindingOf, Finding
    <3> QED
      BY <3>1
  <2>4. \A q, p \in rows : FindingOf(q) = FindingOf(p) => q = p
    BY DEF FindingOf
  <2> QED
    BY <2>2, <2>3, <2>4 DEF FindingsExact, Due
<1> QED
  BY <1>1 DEF EditInit, QualityInit, QualityInv, QualityPC

\* Nothing an edit does ahead of its write or at its conflict row is seen here.
LEMMA QualityFrame ==
  ASSUME NEW r \in Request, QualityInv, Alone(r), ~Behind(r), ~Behind(r)',
         \A q \in Request \ {r} : pc'[q] = pc[q],
         UNCHANGED quality, \A m \in Media : Due(m)' = Due(m)
  PROVE  QualityInv'
<1>1. \A q \in Request : ~Behind(q) /\ ~Behind(q)'
  BY DEF Alone, Behind, QualityPC
<1>2. \A m \in Media : FindingsExact(m)'
  BY <1>1 DEF QualityInv, FindingsExact, Due, ListQuality
<1> QED
  BY <1>1, <1>2 DEF QualityInv, Behind

LEMMA QualityInvNext ==
  ASSUME Faults = FALSE
  PROVE  TypeOK /\ CellInv /\ QualityInv /\ [SerialNext]_vars => QualityInv'
<1> SUFFICES ASSUME TypeOK, CellInv, QualityInv, [SerialNext]_vars
             PROVE  QualityInv'
  OBVIOUS
<1>1. ASSUME NEW r \in Request, Alone(r),
             \/ EditGetSegment(r) \/ EditLastActor(r) \/ EditAddConflict(r)
             \/ EditPatch(r) \/ EditGetSpeaker(r)
      PROVE  QualityInv'
  <2>1. /\ UNCHANGED <<segments, speakers, quality>>
        /\ ~Behind(r)
        /\ pc'[r] \in {"last_actor", "add_conflict", "mark_conflict", "patch",
                       "get_speaker", "update_segment", "done"}
        /\ \A q \in Request \ {r} : pc'[q] = pc[q]
    BY <1>1 DEF EditGetSegment, EditLastActor, EditAddConflict, EditPatch,
       EditGetSpeaker, AddConflict, Goto, Reply, storeVars, TypeOK, Behind,
       QualityPC
  <2>2. \A m \in Media : Due(m)' = Due(m)
    BY <2>1 DEF Due, ListSegments, ListSpeakers
  <2>3. ~Behind(r)'
    BY <2>1 DEF Behind, QualityPC
  <2> QED
    BY <1>1, <2>1, <2>2, <2>3, QualityFrame
<1>2. ASSUME NEW r \in Request, Alone(r), EditMarkConflict(r)
      PROVE  QualityInv'
  <2>1. /\ \/ segments' = [segments EXCEPT ![req[r].seg] =
                             [segments[req[r].seg] EXCEPT !.status = "conflict"]]
           \/ UNCHANGED segments
        /\ UNCHANGED <<speakers, quality>>
        /\ pc[r] = "mark_conflict" /\ pc'[r] = "done"
        /\ \A q \in Request \ {r} : pc'[q] = pc[q]
    BY <1>2 DEF EditMarkConflict, UpdateSegmentStatus, Reply, storeVars, TypeOK
  <2>2. segments[req[r].seg] \in Row /\ req[r].seg \in Segment
    BY <2>1 DEF TypeOK, LocalsOK, Editing, EditPC, EditRequest
  <2>3. \A m \in Media : Due(m)' = Due(m)
    <3>1. CASE UNCHANGED segments
      BY <2>1, <3>1 DEF Due, ListSegments, ListSpeakers
    <3>2. CASE segments' = [segments EXCEPT ![req[r].seg] =
                              [segments[req[r].seg] EXCEPT !.status = "conflict"]]
      <4>1. segments \in [Segment -> Row \cup {None}]
        BY DEF TypeOK, TablesOK
      <4> QED
        BY <2>1, <2>2, <3>2, <4>1, MarkKeepsDue DEF SegmentStatus
    <3> QED
      BY <2>1, <3>1, <3>2
  <2>4. ~Behind(r) /\ ~Behind(r)'
    BY <2>1 DEF Behind, QualityPC
  <2> QED
    BY <1>2, <2>1, <2>3, <2>4, QualityFrame
<1>3. ASSUME NEW r \in Request, Alone(r), EditUpdateSegment(r)
      PROVE  QualityInv'
  <2> DEFINE s0 == req[r].seg
  <2>1. /\ segments' = [segments EXCEPT ![s0] = row[r]]
        /\ UNCHANGED <<speakers, quality, row>>
        /\ pc[r] = "update_segment" /\ pc' = [pc EXCEPT ![r] = "add_revision"]
    BY <1>3 DEF EditUpdateSegment, UpdateSegment, Goto, editVars
  <2>2. /\ s0 \in Segment /\ segments[s0] \in Row /\ row[r] \in Row
        /\ row[r] # None /\ segments[s0] # None
        /\ row[r] = Patched(segments[s0], req[r].edit)
    BY <2>1, EditAssumption
    DEF TypeOK, LocalsOK, Editing, EditPC, EditRequest, CellInv, HeldCell
  <2>3. row[r].media = segments[s0].media
    BY <2>2 DEF Patched, Row
  <2>4. ASSUME NEW m \in Media, m # row[r].media PROVE Due(m)' = Due(m)
    <3>1. ListSegments(m)' = ListSegments(m)
      <4>1. {t \in Segment : segments'[t] # None /\ segments'[t].media = m}
              = {t \in Segment : segments[t] # None /\ segments[t].media = m}
        BY <2>1, <2>2, <2>3, <2>4 DEF TypeOK, TablesOK
      <4>2. \A t \in Segment : segments[t] # None /\ segments[t].media = m
              => segments'[t] = segments[t]
        BY <2>1, <2>2, <2>3, <2>4 DEF TypeOK, TablesOK
      <4> QED
        BY <4>1, <4>2 DEF ListSegments
    <3>2. ListSpeakers(m)' = ListSpeakers(m)
      BY <2>1 DEF ListSpeakers
    <3> QED
      BY <3>1, <3>2 DEF Due
  <2>5. \A q \in Request : ~Behind(q) /\ pc'[q] \notin QualityPC
    BY <1>3, <2>1 DEF Alone, Behind, QualityPC, TypeOK
  <2>6. Behind(r)'
    BY <2>1 DEF Behind, TypeOK
  <2>7. \A m \in Media : m # row[r].media => FindingsExact(m)'
    BY <2>1, <2>4, <2>5 DEF QualityInv, FindingsExact, Due, ListQuality
  <2> QED
    BY <2>1, <2>5, <2>6, <2>7 DEF QualityInv
<1>4. ASSUME NEW r \in Request, Alone(r), EditAddRevision(r)
      PROVE  QualityInv'
  <2>1. /\ UNCHANGED <<segments, speakers, quality, row>>
        /\ pc[r] = "add_revision" /\ pc' = [pc EXCEPT ![r] = "list_segments"]
    BY <1>4 DEF EditAddRevision, AddRevision, Goto, editVars
  <2>2. \A m \in Media : FindingsExact(m)' = FindingsExact(m)
    BY <2>1 DEF FindingsExact, ListSegments, ListSpeakers, ListQuality
  <2>3. \A q \in Request : Behind(q)' = Behind(q)
    BY <1>4, <2>1 DEF Behind, QualityPC, TypeOK
  <2>4. \A q \in Request : pc'[q] \in QualityPC => q = r
    BY <1>4, <2>1 DEF Alone, QualityPC, TypeOK
  <2>5. pc'[r] = "list_segments"
    BY <2>1 DEF TypeOK
  <2>6. HeldFindings(r, row[r].media)'
    BY <2>5 DEF HeldFindings
  <2>7. ASSUME NEW m \in Media
        PROVE  FindingsExact(m)' \/ \E q \in Request : Behind(q)' /\ row'[q].media = m
    BY <2>1, <2>2, <2>3 DEF QualityInv
  <2> QED
    BY <2>4, <2>6, <2>7 DEF QualityInv
<1>5. ASSUME NEW r \in Request, Alone(r), EditRecompute(r)
      PROVE  QualityInv'
  <2>1. pc[r] \in QualityPC
    BY <1>5 DEF EditRecompute, Recompute, RecomputeListSegments,
       RecomputeListSpeakers, RecomputeDelete, RecomputeAdd, QualityPC
  <2>2. row[r] \in Row
    BY <2>1 DEF TypeOK, LocalsOK, Editing, EditPC, QualityPC
  <2>3. PICK m \in Media : m = row[r].media
    BY <2>2 DEF Row
  <2>4. Recompute(r, m, "done") /\ UNCHANGED row
    BY <1>5, <2>3 DEF EditRecompute, editVars
  <2>5. /\ segments \in [Segment -> Row \cup {None}] /\ quality \subseteq QualityRow
        /\ DOMAIN pc = Request /\ DOMAIN listed = Request /\ DOMAIN todo = Request
    BY DEF TypeOK, TablesOK
  <2>6. HeldFindings(r, m)
    BY <2>1, <2>3 DEF QualityInv
  <2>7. /\ \/ pc'[r] \in {"list_speakers", "delete_quality", "add_quality"}
           \/ pc'[r] = "done" /\ FindingsExact(m)'
        /\ HeldFindings(r, m)'
        /\ \A n \in Media \ {m} : FindingsExact(n) => FindingsExact(n)'
    BY <2>4, <2>5, <2>6, RecomputeExact
  <2>8. \A q \in Request \ {r} : pc'[q] = pc[q] /\ ~Behind(q)
    BY <1>5, <2>4 DEF Recompute, RecomputeListSegments,
       RecomputeListSpeakers, RecomputeDelete, RecomputeAdd, Return, Goto, Reply,
       TypeOK, Alone, Behind, QualityPC
  <2>9. \A n \in Media \ {m} : FindingsExact(n)'
    BY <2>3, <2>7, <2>8 DEF QualityInv
  <2>10. FindingsExact(m)' \/ Behind(r)'
    BY <2>7 DEF Behind, QualityPC
  <2>11. \A q \in Request : pc'[q] \in QualityPC => q = r
    BY <2>8 DEF Behind
  <2>12. \A n \in Media : \/ FindingsExact(n)'
                          \/ \E q \in Request : Behind(q)' /\ row'[q].media = n
    BY <2>3, <2>4, <2>9, <2>10
  <2>13. HeldFindings(r, row[r].media)'
    BY <2>3, <2>4, <2>7
  <2> QED
    BY <2>11, <2>12, <2>13 DEF QualityInv
<1>6. CASE Tick \/ UNCHANGED vars
  BY <1>6 DEF Tick, vars, storeVars, qaVars, editVars, QualityInv, Behind,
     FindingsExact, HeldFindings, Due, Found, Once, ListSegments, ListSpeakers,
     ListQuality
<1>7. \A r \in Request : ~EditFail(r)
  BY DEF EditFail, Fail
<1> QED
  BY <1>1, <1>2, <1>3, <1>4, <1>5, <1>6, <1>7 DEF SerialNext, EditStep, Quiet

\* Edits that come one after the other, with no store call failing, leave each
\* media with the findings of its lines as they are, each once.
THEOREM FindingsKeptExact ==
  ASSUME Faults = FALSE
  PROVE  SerialSpec => []QualityExact
<1>1. EditInit => CellInv /\ QualityInv
  BY CellInitial, QualityInvInit
<1>2. TypeOK /\ CellInv /\ [SerialNext]_vars => CellInv'
  BY CellNext
<1>3. TypeOK /\ CellInv /\ QualityInv /\ [SerialNext]_vars => QualityInv'
  BY QualityInvNext
<1>4. QualityInv => QualityExact
  BY DEF QualityInv, QualityExact, Idle, Behind, QualityPC
<1> QED
  BY <1>1, <1>2, <1>3, <1>4, SerialType, PTL DEF SerialSpec
=============================================================================
