----------------------------- MODULE EditSegment -----------------------------
(***************************************************************************)
(* Service.EditSegment: POST /api/segments/{id}/edit, from the first store *)
(* call to the findings it leaves behind.  An edit names the version it    *)
(* was based on; the handler compares it with the version of the row it    *)
(* read and then writes the whole row back.                                *)
(***************************************************************************)
EXTENDS Quality

CONSTANTS
  NoActor,       \* an actor that is blank once trimmed
  Keep,          \* a field the request body leaves out (a nil pointer)
  Edits,         \* the field changes requests ask for
  Bases,         \* the base versions requests name
  MaxNow,        \* bound on the clock
  SeedMedia,     \* the media there are before the requests arrive
  SeedSegments,  \* the rows imported into them
  SeedSpeakers   \* the speakers registered for them

ASSUME EditAssumption ==
  /\ Edits \subseteq [start   : Int \cup {Keep},
                      end     : Int \cup {Keep},
                      text    : Text \cup {Keep},
                      speaker : Speaker \cup {NoSpeaker, Keep},
                      desc    : BOOLEAN \cup {Keep}]
  /\ Bases \subseteq Int
  /\ MaxNow \in Nat
  /\ Keep \notin Speaker
  /\ None \notin Row

\* The seed is what ImportSegments and CreateSpeaker leave behind.
ASSUME SeedAssumption ==
  /\ SeedMedia \in [Media -> {"draft", None}]
  /\ SeedSegments \in [Segment -> Row \cup {None}]
  /\ \A s \in Segment : SeedSegments[s] # None =>
       /\ SeedMedia[SeedSegments[s].media] # None
       /\ Positive(SeedSegments[s])
       /\ SeedSegments[s].start >= 0
       /\ SeedSegments[s].version = 1
       /\ SeedSegments[s].status = "draft"
  /\ SeedSpeakers \in [Speaker -> Media \cup {None}]

VARIABLES
  now,     \* the clock, in the seconds created_at columns hold
  req,     \* req[r]: the decoded request
  row,     \* row[r]: the segment the handler holds: as read, then patched
  rev,     \* rev[r]: the audit row Patch made
  conf     \* conf[r]: the conflict row made of a stale edit

editVars == <<now, req, row, rev, conf>>
vars == <<storeVars, qaVars, editVars>>

EditRequest == [seg   : Segment,
                base  : Bases,
                actor : Actor \cup {NoActor},
                edit  : Edits]

ASSUME RequestAssumption == None \notin EditRequest

Revision == [id     : Request,
             seg    : Segment,
             actor  : Actor,
             base   : Int,
             before : Row,
             after  : Row,
             at     : Nat]

ASSUME RevisionAssumption == None \notin Revision

Conflict == [id        : Request,
             media     : Media,
             seg       : Segment,
             actorA    : Actor \cup {"unknown"},
             actorB    : Actor,
             base      : Int,
             attempted : Int]

EditPC == {"new", "last_actor", "add_conflict", "mark_conflict", "patch",
           "get_speaker", "update_segment", "add_revision"}
            \cup QualityPC \cup {"done"}

\* A finding row left by the import: one Recompute over the seed.
SeedQuality ==
  UNION {{[run |-> None, media |-> m, seg |-> f.seg, rule |-> f.rule] :
            f \in Analyze(ListSegments(m), ListSpeakers(m))} : m \in Media}

EditInit ==
  /\ media = SeedMedia
  /\ speakers = SeedSpeakers
  /\ segments = SeedSegments
  /\ revisions = {}
  /\ quality = SeedQuality
  /\ versions = [v \in {} |-> None]
  /\ withdrawals = {}
  /\ conflicts = {}
  /\ QualityInit
  /\ now = 0
  /\ req = [r \in Request |-> None]
  /\ row = [r \in Request |-> None]
  /\ rev = [r \in Request |-> None]
  /\ conf = [r \in Request |-> None]
-----------------------------------------------------------------------------
\* revision.Patch: the fields the request gives, and a version more.
Given(field, old) == IF field = Keep THEN old ELSE field

Patched(seg, edit) ==
  [seg EXCEPT !.start   = Given(edit.start, @),
              !.end     = Given(edit.end, @),
              !.text    = Given(edit.text, @),
              !.speaker = Given(edit.speaker, @),
              !.desc    = Given(edit.desc, @),
              !.version = @ + 1]

EndNotBeforeStart(seg) == seg.end >= seg.start
EndAfterStart(seg) == seg.end > seg.start

\* The audit row; "before" is the image taken ahead of the changes.
AuditTakenLate(r, before, after) ==
  [id |-> r, seg |-> req[r].seg, actor |-> req[r].actor, base |-> req[r].base,
   before |-> after, after |-> after, at |-> now]
Audit(r, before, after) ==
  [id |-> r, seg |-> req[r].seg, actor |-> req[r].actor, base |-> req[r].base,
   before |-> before, after |-> after, at |-> now]

\* The gate: the version the edit was based on is not the stored one.
OutdatedOnly(seg, base) == seg.version > base
StaleOrMarked(seg, base) == seg.version # base \/ seg.status = "conflict"
Stale(seg, base) == seg.version # base

AnyActor(actor) == TRUE
NamedActor(actor) == actor # NoActor

NamesSpeaker(edit) == edit.speaker \notin {Keep, NoSpeaker}

\* ORDER BY created_at DESC leaves rows of the same second in any order.
Newest(revs) == {v \in revs : \A w \in revs : w.at <= v.at}
-----------------------------------------------------------------------------
\* The request arrives and the segment is read.
EditGetSegment(r) ==
  /\ pc[r] = "new"
  /\ \E q \in EditRequest :
       LET seg == GetSegment(q.seg) IN
       /\ req' = [req EXCEPT ![r] = q]
       /\ IF seg = None
            THEN Reply(r, "notfound") /\ UNCHANGED row
          ELSE IF ~NamedActor(q.actor)
            THEN Reply(r, "invalid") /\ UNCHANGED row
          ELSE /\ row' = [row EXCEPT ![r] = seg]
               /\ Goto(r, IF Stale(seg, q.base) THEN "last_actor"
                                                ELSE "patch")
  /\ UNCHANGED <<storeVars, listed, todo, now, rev, conf>>

\* lastActor: the actor of the newest revision, "unknown" when there is none
\* or the query fails.
EditLastActor(r) ==
  /\ pc[r] = "last_actor"
  /\ \E a \in {v.actor : v \in Newest(ListRevisions(req[r].seg))}
                \cup (IF Faults \/ ListRevisions(req[r].seg) = {}
                        THEN {"unknown"} ELSE {}) :
       conf' = [conf EXCEPT ![r] =
                  [id |-> r, media |-> row[r].media, seg |-> req[r].seg,
                   actorA |-> a, actorB |-> req[r].actor,
                   base |-> row[r].version, attempted |-> req[r].base]]
  /\ Goto(r, "add_conflict")
  /\ UNCHANGED <<storeVars, listed, todo, now, req, row, rev>>

EditAddConflictOfKnownActor(r) ==
  /\ pc[r] = "add_conflict"
  /\ IF conf[r].actorA = "unknown" THEN UNCHANGED storeVars
                                   ELSE AddConflict(conf[r])
  /\ Goto(r, "mark_conflict")
  /\ UNCHANGED <<listed, todo, editVars>>

EditAddConflict(r) ==
  /\ pc[r] = "add_conflict"
  /\ AddConflict(conf[r])
  /\ Goto(r, "mark_conflict")
  /\ UNCHANGED <<listed, todo, editVars>>

\* The error of UpdateSegmentStatus is dropped.
EditMarkConflict(r) ==
  /\ pc[r] = "mark_conflict"
  /\ \/ UpdateSegmentStatus(req[r].seg, "conflict")
     \/ Faults /\ UNCHANGED storeVars
  /\ Reply(r, "conflict")
  /\ UNCHANGED <<listed, todo, editVars>>

\* Patch and the checks behind it: no store call, but the audit row takes its
\* time here.  The base version was compared by the caller already.
EditPatch(r) ==
  /\ pc[r] = "patch"
  /\ LET p == Patched(row[r], req[r].edit) IN
       /\ row' = [row EXCEPT ![r] = p]
       /\ rev' = [rev EXCEPT ![r] = Audit(r, row[r], p)]
       /\ IF ~EndAfterStart(p) THEN Reply(r, "invalid")
          ELSE Goto(r, IF NamesSpeaker(req[r].edit) THEN "get_speaker"
                                                    ELSE "update_segment")
  /\ UNCHANGED <<storeVars, listed, todo, now, req, conf>>

EditAnySpeaker(r) ==
  /\ pc[r] = "get_speaker"
  /\ Goto(r, "update_segment")
  /\ UNCHANGED <<storeVars, listed, todo, editVars>>

\* The speaker must exist; of which media it is nobody asks.
EditGetSpeaker(r) ==
  /\ pc[r] = "get_speaker"
  /\ IF GetSpeaker(req[r].edit.speaker) = None
       THEN Reply(r, "notfound")
       ELSE Goto(r, "update_segment")
  /\ UNCHANGED <<storeVars, listed, todo, editVars>>

EditUpdateSegment(r) ==
  /\ pc[r] = "update_segment"
  /\ UpdateSegment(req[r].seg, row[r])
  /\ Goto(r, "add_revision")
  /\ UNCHANGED <<listed, todo, editVars>>

EditAuditUnlessNoop(r) ==
  /\ pc[r] = "add_revision"
  /\ IF rev[r].after = [rev[r].before EXCEPT !.version = @ + 1]
       THEN UNCHANGED storeVars
       ELSE AddRevision(rev[r])
  /\ Goto(r, "list_segments")
  /\ UNCHANGED <<listed, todo, editVars>>

EditAddRevision(r) ==
  /\ pc[r] = "add_revision"
  /\ AddRevision(rev[r])
  /\ Goto(r, "list_segments")
  /\ UNCHANGED <<listed, todo, editVars>>

EditRecompute(r) == Recompute(r, row[r].media, "done") /\ UNCHANGED editVars

EditFail(r) == Fail(r) /\ UNCHANGED editVars

Tick ==
  /\ now < MaxNow
  /\ now' = now + 1
  /\ UNCHANGED <<storeVars, qaVars, req, row, rev, conf>>

EditStep(r) ==
  \/ EditGetSegment(r)
  \/ EditLastActor(r)
  \/ EditAddConflict(r)
  \/ EditMarkConflict(r)
  \/ EditPatch(r)
  \/ EditGetSpeaker(r)
  \/ EditUpdateSegment(r)
  \/ EditAddRevision(r)
  \/ EditRecompute(r)
  \/ EditFail(r)

\* Every request is answered: the server waits for more.
Quiet == (\A r \in Request : pc[r] = "done") /\ UNCHANGED vars

Next == (\E r \in Request : EditStep(r)) \/ Tick \/ Quiet

Spec == EditInit /\ [][Next]_vars

\* The requests one after the other: no request is in flight when the next
\* one is taken up.  The tests of the repository run this way.
Alone(r) == \A q \in Request \ {r} : pc[q] \in {"new", "done"}

SerialNext == (\E r \in Request : Alone(r) /\ EditStep(r)) \/ Tick \/ Quiet

SerialSpec == EditInit /\ [][SerialNext]_vars
-----------------------------------------------------------------------------
(***************************************************************************)
(* Properties.                                                             *)
(***************************************************************************)

TablesOK ==
  /\ media \in [Media -> MediaStatus \cup {None}]
  /\ speakers \in [Speaker -> Media \cup {None}]
  /\ segments \in [Segment -> Row \cup {None}]
  /\ revisions \subseteq Revision
  /\ quality \subseteq QualityRow
  /\ conflicts \subseteq Conflict

Editing == EditPC \ {"new", "done"}

\* What a request holds in its local variables at the calls that use them.
\* No segment is ever deleted, so the one it edits is still there.
LocalsOK(r) ==
  /\ pc[r] \in Editing =>
       /\ req[r] \in EditRequest
       /\ req[r].actor # NoActor
       /\ row[r] \in Row
       /\ segments[req[r].seg] \in Row
  /\ pc[r] \in {"get_speaker", "update_segment", "add_revision"} => rev[r] \in Revision
  /\ pc[r] \in {"add_conflict", "mark_conflict"} => conf[r] \in Conflict
  /\ pc[r] = "list_speakers" => IsRows(listed[r])

\* Every table and every local variable holds what the code declares it to
\* hold, at every point between two store calls.
TypeOK ==
  /\ TablesOK
  /\ now \in Nat
  /\ pc \in [Request -> EditPC]
  /\ outcome \in [Request -> Outcome \cup {None}]
  /\ req \in [Request -> EditRequest \cup {None}]
  /\ row \in [Request -> Row \cup {None}]
  /\ rev \in [Request -> Revision \cup {None}]
  /\ conf \in [Request -> Conflict \cup {None}]
  /\ todo \in [Request -> SUBSET Finding]
  /\ DOMAIN listed = Request
  /\ \A r \in Request : LocalsOK(r)

\* A stored row ends after it starts (the project document's invariant on
\* segments), although the check and the write are store calls apart and other
\* requests write in between: it holds because the whole row checked is the
\* row written, fields the request left alone included.
PositiveDuration ==
  \A s \in Segment : segments[s] # None => Positive(segments[s])

\* A segment marked "conflict" has a conflict row that explains it: the record
\* is written before the mark and the mark is not made when the record fails.
\* A whole-row write may carry the mark of the row it was based on.
ConflictMarkExplained ==
  \A s \in Segment :
    segments[s] # None /\ segments[s].status = "conflict"
      => \E c \in conflicts : c.seg = s

\* The columns an edit decides; status is not one of them.
Content(seg) ==
  [start |-> seg.start, end |-> seg.end, text |-> seg.text,
   speaker |-> seg.speaker, desc |-> seg.desc, version |-> seg.version]

ASSUME ContentAssumption ==
  None \notin [start : Int, end : Int, text : Text,
               speaker : Speaker \cup {NoSpeaker}, desc : BOOLEAN, version : Int]

\* The audit rows, and those of edits whose row is written and whose audit row
\* is the next call.
Accepted == revisions \cup {rev[r] : r \in {q \in Request : pc[q] = "add_revision"}}

Explains(v, s, seg) == v.seg = s /\ Content(v.after) = Content(seg)

\* The audit log accounts for the database: a row that differs from its import
\* is the "after" image of an accepted edit.  (Store calls that do not fail.)
RowTraceable ==
  \A s \in Segment :
    segments[s] # None /\ Content(segments[s]) # Content(SeedSegments[s])
      => \E v \in Accepted : Explains(v, s, segments[s])

\* The audit log is connected: an accepted edit started from the import or
\* from the "after" image of another accepted edit, of the version below.  With
\* edits racing it is a tree, not a chain.  (Store calls that do not fail.)
AuditTree ==
  \A v \in Accepted :
    /\ v.after.version = v.base + 1
    /\ \/ Content(v.before) = Content(SeedSegments[v.seg])
       \/ \E w \in Accepted : w # v /\ Explains(w, v.seg, v.before)

\* With calls that fail, or a process that dies, an edited row may lack its
\* audit row; but then its client was never told that the edit was accepted.
\* An edited row is one past its first version.
RowAccounted ==
  \A s \in Segment : segments[s] # None /\ segments[s].version # 1 =>
    \E r \in Request :
      /\ rev[r] # None
      /\ Explains(rev[r], s, segments[s])
      /\ rev[r] \in revisions \/ outcome[r] \in {None, "error"}

\* An edit is never silently overwritten (service.go:220-223): of two accepted
\* edits of a segment, the later one was based on the earlier one's result,
\* so no two of them name the same base version.
NoSilentOverwrite ==
  \A v, w \in revisions : v.seg = w.seg /\ v.base = w.base => v = w

Idle == \A r \in Request : pc[r] \in {"new", "done"}

FindingOf(q) == [seg |-> q.seg, rule |-> q.rule]

FindingsExact(m) ==
  LET found == ListQuality(m) IN
  /\ {FindingOf(q) : q \in found} = Analyze(ListSegments(m), ListSpeakers(m))
  /\ \A q, p \in found : FindingOf(q) = FindingOf(p) => q = p

\* With no request in flight the persisted findings of a media are those of
\* its segments as they are, each once (qa.go:2-4, and the test that a
\* recomputation replaces rather than accumulates).
QualityExact == Idle => \A m \in Media : FindingsExact(m)

\* A conflict row names the actor of the last write (service.go:221-222): the
\* one whose edit made the version the conflict row says is stored.
ConflictNamesLastWriter ==
  \A c \in conflicts : \A v \in revisions :
    v.seg = c.seg /\ v.after.version = c.base => c.actorA = v.actor

\* What an edit promises to an editor, in OptimisticCell's terms: the row is
\* the cell, audit rows are the accepted edits, conflict rows the rejected.
Cell == INSTANCE OptimisticCell WITH
  Editor <- Request,
  Change <- Edits,
  Apply <- LAMBDA edit, content : Patched(content, edit),
  Base <- Bases,
  cell <- [s \in Segment |-> IF segments[s] = None THEN None
                                                   ELSE Content(segments[s])],
  accepted <- {[id |-> v.id, seg |-> v.seg, base |-> v.base,
                after |-> Content(v.after)] : v \in Accepted},
  rejected <- {[id |-> c.id, seg |-> c.seg, base |-> c.attempted] : c \in conflicts}

\* Requests served one after the other compare and swap: each accepted edit
\* moves its segment from the version it names to the next, audited; each
\* other changes no content and leaves a conflict row.
CellSpec == Cell!Spec
=============================================================================
