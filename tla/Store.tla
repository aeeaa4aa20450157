-------------------------------- MODULE Store --------------------------------
(***************************************************************************)
(* The SQLite database behind internal/store, one variable per table, and  *)
(* the statements the services issue against it.                           *)
(*                                                                         *)
(* The pool holds one connection (store.go:29), every statement is an      *)
(* autocommit statement of its own and CreateSegments is one transaction,  *)
(* so each operator below is atomic.  No table but for its primary key has *)
(* a uniqueness constraint.  Statements that write are actions on          *)
(* storeVars; statements that read are state functions.                    *)
(*                                                                         *)
(* Columns no rule depends on (titles, labels, notes, languages, colours,  *)
(* checksums, updated_at) are left out.  model.NewID is collision free: a  *)
(* row a request inserts is named after the request.                       *)
(***************************************************************************)
EXTENDS Timeline, Sequences

CONSTANTS
  Media,        \* media ids
  Speaker,      \* speaker ids
  Segment,      \* segment rows, numbered in insertion order
  Request,      \* the HTTP requests the server is given
  Actor,        \* the actors requests name
  None          \* no row

ASSUME StoreAssumption ==
  /\ Segment \subseteq Nat
  /\ IsFiniteSet(Media)
  /\ IsFiniteSet(Speaker)
  /\ IsFiniteSet(Segment)
  /\ IsFiniteSet(Request)
  /\ NoSpeaker \notin Speaker

VARIABLES
  media,        \* media[m]: its status, None when there is no such row
  speakers,     \* speakers[p]: the media p is registered for, or None
  segments,     \* segments[s]: the row, or None
  revisions,    \* the audit rows
  quality,      \* the persisted findings
  versions,     \* versions[r]: the row request r published, for those that did
  withdrawals,  \* the retraction rows
  conflicts     \* the rejected concurrent edits

storeVars == <<media, speakers, segments, revisions, quality, versions,
               withdrawals, conflicts>>

MediaStatus == {"draft", "ready", "published", "archived"}
SegmentStatus == {"draft", "proofed", "conflict", "published"}

ASSUME StatusAssumption == None \notin MediaStatus

Row == [media   : Media,
        idx     : Nat,
        start   : Int,
        end     : Int,
        text    : Text,
        speaker : Speaker \cup {NoSpeaker},
        desc    : BOOLEAN,
        version : Int,
        status  : SegmentStatus]

Finding == [seg : Segment, rule : Rule]

QualityRow == [run   : Request \cup {None},
               media : Media,
               seg   : Segment,
               rule  : Rule]

\* What a SELECT ... FROM segments WHERE media_id = ? returns.
IsRows(f) == DOMAIN f \subseteq Segment /\ f \in [DOMAIN f -> Row]
-----------------------------------------------------------------------------
\* A lookup by primary key: a missing row is None, which stands for
\* sql.ErrNoRows and which asNotFound turns into ErrNotFound.
GetMedia(m) == media[m]
GetSegment(s) == segments[s]
GetSpeaker(p) == speakers[p]
GetPublishVersion(v) == IF v \in DOMAIN versions THEN versions[v] ELSE None

\* Oldest first, and of one second in any order; creation times are left out.
ListMedia == {m \in Media : media[m] # None}

ListSegments(m) ==
  [s \in {t \in Segment : segments[t] # None /\ segments[t].media = m}
     |-> segments[s]]

ListSpeakers(m) == {p \in Speaker : speakers[p] = m}

ListRevisions(s) == {v \in revisions : v.seg = s}

ListQuality(m) == {q \in quality : q.media = m}

CountStandingVersions(m) ==
  Cardinality({v \in DOMAIN versions : /\ versions[v].media = m
                                       /\ ~versions[v].withdrawn})

CountPublishVersions(m) ==
  Cardinality({v \in DOMAIN versions : versions[v].media = m})
-----------------------------------------------------------------------------
UpdateMediaStatus(m, status) ==
  /\ media' = [media EXCEPT ![m] = status]
  /\ UNCHANGED <<speakers, segments, revisions, quality, versions,
                 withdrawals, conflicts>>

CreateMedia(m) ==
  /\ media' = [media EXCEPT ![m] = "draft"]
  /\ UNCHANGED <<speakers, segments, revisions, quality, versions,
                 withdrawals, conflicts>>

CreateSpeaker(p, m) ==
  /\ speakers' = [speakers EXCEPT ![p] = m]
  /\ UNCHANGED <<media, segments, revisions, quality, versions, withdrawals,
                 conflicts>>

\* One transaction: all the rows of the batch or none.
CreateSegments(batch) ==
  /\ segments' = [s \in Segment |-> IF s \in DOMAIN batch THEN batch[s]
                                                          ELSE segments[s]]
  /\ UNCHANGED <<media, speakers, revisions, quality, versions, withdrawals,
                 conflicts>>

\* Every mutable column, version and status included, with no condition on
\* the row but its id.
UpdateSegment(s, row) ==
  /\ segments' = [segments EXCEPT ![s] = row]
  /\ UNCHANGED <<media, speakers, revisions, quality, versions, withdrawals,
                 conflicts>>

UpdateSegmentStatusAndVersion(s, status) ==
  /\ segments' = [segments EXCEPT ![s] =
       [@ EXCEPT !.status = status, !.version = @ + 1]]
  /\ UNCHANGED <<media, speakers, revisions, quality, versions, withdrawals,
                 conflicts>>

UpdateSegmentStatus(s, status) ==
  /\ segments' = [segments EXCEPT ![s] = [@ EXCEPT !.status = status]]
  /\ UNCHANGED <<media, speakers, revisions, quality, versions, withdrawals,
                 conflicts>>

AddRevision(rev) ==
  /\ revisions' = revisions \cup {rev}
  /\ UNCHANGED <<media, speakers, segments, quality, versions, withdrawals,
                 conflicts>>

AddConflict(c) ==
  /\ conflicts' = conflicts \cup {c}
  /\ UNCHANGED <<media, speakers, segments, revisions, quality, versions,
                 withdrawals>>

DeleteQualityForMedia(m) ==
  /\ quality' = {q \in quality : q.media # m}
  /\ UNCHANGED <<media, speakers, segments, revisions, versions, withdrawals,
                 conflicts>>

AddQuality(q) ==
  /\ quality' = quality \cup {q}
  /\ UNCHANGED <<media, speakers, segments, revisions, versions, withdrawals,
                 conflicts>>

AddOrReplacePublishVersion(r, pv) ==
  /\ LET others == {v \in DOMAIN versions : \/ versions[v].media # pv.media
                                             \/ versions[v].no # pv.no}
     IN versions' = [v \in others \cup {r} |-> IF v = r THEN pv ELSE versions[v]]
  /\ UNCHANGED <<media, speakers, segments, revisions, quality, withdrawals,
                 conflicts>>

AddPublishVersion(r, pv) ==
  /\ versions' = [v \in DOMAIN versions \cup {r} |->
                    IF v = r THEN pv ELSE versions[v]]
  /\ UNCHANGED <<media, speakers, segments, revisions, quality, withdrawals,
                 conflicts>>

MarkWithdrawn(v) ==
  /\ versions' = [versions EXCEPT ![v] = [@ EXCEPT !.withdrawn = TRUE]]
  /\ UNCHANGED <<media, speakers, segments, revisions, quality, withdrawals,
                 conflicts>>

AddWithdrawal(w) ==
  /\ withdrawals' = withdrawals \cup {w}
  /\ UNCHANGED <<media, speakers, segments, revisions, quality, versions,
                 conflicts>>
=============================================================================
