------------------------------- MODULE Intake -------------------------------
(***************************************************************************)
(* Service.CreateMedia, CreateSpeaker, ImportSegments and                  *)
(* RecomputeQuality: how a media gets its rows, and the request that       *)
(* derives its findings anew.                                              *)
(*                                                                         *)
(* The actions of one request; Workbench lets requests run side by side.   *)
(***************************************************************************)
EXTENDS Quality

CONSTANT Batches       \* the batches clients import: sequences of inputs

ASSUME IntakeAssumption ==
  \A b \in Batches : b \in Seq([idx     : Int,
                                start   : Int,
                                end     : Int,
                                text    : Text,
                                speaker : Speaker \cup {NoSpeaker},
                                desc    : BOOLEAN])

VARIABLES
  into,       \* into[r]: the media the request names
  batch       \* batch[r]: the batch, until it is inserted

intakeVars == <<into, batch>>

IntakePC == {"imp_list_segments", "create_segments", "create_speaker"}

IntakeInit ==
  /\ into = [r \in Request |-> None]
  /\ batch = [r \in Request |-> <<>>]
-----------------------------------------------------------------------------
\* The checks of the loop over the inputs: an index is taken once the rows
\* there are or an input before it have it.
AcceptableOfNoDuration(in, used) ==
  /\ in.idx >= 0
  /\ in.idx \notin used
  /\ in.start >= 0
  /\ in.end >= in.start

Acceptable(in, used) ==
  /\ in.idx >= 0
  /\ in.idx \notin used
  /\ in.start >= 0
  /\ in.end > in.start

BatchCheckedAgainstRows(b, existing) ==
  \A i \in DOMAIN b : Acceptable(b[i], existing)

BatchAcceptable(b, existing) ==
  \A i \in DOMAIN b :
    Acceptable(b[i], existing \cup {b[j].idx : j \in 1..(i - 1)})

NewRow(m, in) ==
  [media |-> m, idx |-> in.idx, start |-> in.start, end |-> in.end,
   text |-> in.text, speaker |-> in.speaker, desc |-> in.desc,
   version |-> 1, status |-> "draft"]

\* The rowids SQLite gives the n rows of the next insertion.
NextRowids(n) ==
  {s \in Segment : /\ \A t \in Segment : segments[t] # None => t < s
                   /\ Cardinality({t \in Segment : t < s /\ segments[t] = None}) < n}

\* The rows of a batch by their rowids.
Numbered(ids, m, b) ==
  [s \in ids |-> NewRow(m, b[Cardinality({t \in ids : t <= s})])]

IndexesOf(rows) == {rows[s].idx : s \in DOMAIN rows}
-----------------------------------------------------------------------------
ImportGetMedia(r) ==
  /\ pc[r] = "new"
  /\ \E m \in Media, b \in Batches :
       /\ into' = [into EXCEPT ![r] = m]
       /\ batch' = [batch EXCEPT ![r] = b]
       /\ IF GetMedia(m) = None THEN Reply(r, "notfound")
          ELSE IF GetMedia(m) = "archived" \/ b = <<>> THEN Reply(r, "invalid")
          ELSE Goto(r, "imp_list_segments")
  /\ UNCHANGED <<storeVars, listed, todo>>

ImportListSegments(r) ==
  /\ pc[r] = "imp_list_segments"
  /\ IF BatchAcceptable(batch[r], IndexesOf(ListSegments(into[r])))
       THEN Goto(r, "create_segments")
       ELSE Reply(r, "invalid")
  /\ UNCHANGED <<storeVars, listed, todo, intakeVars>>

\* Segment bounds the rows there can be: with no room left the batch waits.
ImportCreateSegments(r) ==
  LET ids == NextRowids(Len(batch[r])) IN
  /\ pc[r] = "create_segments"
  /\ Cardinality(ids) = Len(batch[r])
  /\ CreateSegments(Numbered(ids, into[r], batch[r]))
  /\ Goto(r, "list_segments")
  /\ UNCHANGED <<listed, todo, intakeVars>>

ImportRecompute(r) == Recompute(r, into[r], "done") /\ UNCHANGED intakeVars

ImportStep(r) ==
  \/ ImportGetMedia(r)
  \/ ImportListSegments(r)
  \/ ImportCreateSegments(r)
  \/ ImportRecompute(r)
-----------------------------------------------------------------------------
\* A title that is blank or a negative duration is refused.
MediaCreate(r) ==
  /\ pc[r] = "new"
  /\ \/ Reply(r, "invalid") /\ UNCHANGED storeVars
     \/ /\ \E m \in Media : GetMedia(m) = None /\ CreateMedia(m)
        /\ Reply(r, "ok")
  /\ UNCHANGED <<listed, todo, intakeVars>>
-----------------------------------------------------------------------------
\* A label that is blank is refused.
SpeakerGetMedia(r) ==
  /\ pc[r] = "new"
  /\ \E m \in Media :
       /\ into' = [into EXCEPT ![r] = m]
       /\ IF GetMedia(m) = None
            THEN Reply(r, "notfound")
            ELSE Reply(r, "invalid") \/ Goto(r, "create_speaker")
  /\ UNCHANGED <<storeVars, listed, todo, batch>>

\* The new speaker gets an id no other has.
SpeakerCreate(r) ==
  /\ pc[r] = "create_speaker"
  /\ \E p \in Speaker : speakers[p] = None /\ CreateSpeaker(p, into[r])
  /\ Reply(r, "ok")
  /\ UNCHANGED <<listed, todo, intakeVars>>

SpeakerStep(r) == SpeakerGetMedia(r) \/ SpeakerCreate(r)
-----------------------------------------------------------------------------
RecomputeGetMedia(r) ==
  /\ pc[r] = "new"
  /\ \E m \in Media :
       /\ into' = [into EXCEPT ![r] = m]
       /\ IF GetMedia(m) = None THEN Reply(r, "notfound")
                                ELSE Goto(r, "list_segments")
  /\ UNCHANGED <<storeVars, listed, todo, batch>>

RecomputeStep(r) ==
  RecomputeGetMedia(r) \/ (Recompute(r, into[r], "done") /\ UNCHANGED intakeVars)
=============================================================================
