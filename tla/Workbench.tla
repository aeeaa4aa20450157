------------------------------ MODULE Workbench ------------------------------
(***************************************************************************)
(* The service as the HTTP server drives it: requests of every kind, side  *)
(* by side over one database.  The handlers are those of EditSegment,      *)
(* Publish, Compare, Intake and Stats; here they are composed.  They meet  *)
(* in the tables only, so a step of one leaves the local variables of the  *)
(* others alone; and each answer moves the counters of GET /api/metrics.   *)
(***************************************************************************)
EXTENDS EditSegment, Publish, Compare, Intake, Stats

CONSTANT Mixes         \* which kinds of requests arrive together

Kinds == {"edit", "publish", "withdraw", "import", "speaker", "media",
          "recompute", "compare", "stats", "ready", "none"}

\* The routes whose handler decodes a body.
WithBody == {"edit", "publish", "withdraw", "import", "speaker", "media"}

ASSUME MixAssumption == Mixes \subseteq [Request -> Kinds]

VARIABLES
  kind,        \* kind[r]: the route of request r, "none" for a request not sent
  metrics      \* the counters

allVars == <<vars, publishVars, compareVars, intakeVars, statsVars, kind, metrics>>

NoneCounted == [requests |-> 0, sample_writes |-> 0, analyses |-> 0,
                edits |-> 0, publishes |-> 0, conflicts |-> 0]

WorkbenchInit ==
  /\ EditInit
  /\ PublishInit
  /\ CompareInit
  /\ IntakeInit
  /\ StatsInit
  /\ kind \in Mixes
  /\ metrics = NoneCounted
-----------------------------------------------------------------------------
\* decode: a body that is too large, is not JSON or has an unknown field.
BodyRefused(r) ==
  /\ kind[r] \in WithBody
  /\ pc[r] = "new"
  /\ Reply(r, "invalid")
  /\ UNCHANGED <<storeVars, listed, todo, editVars, publishVars, compareVars,
                 intakeVars, statsVars>>

EditRequested(r) ==
  /\ kind[r] = "edit"
  /\ EditStep(r)
  /\ UNCHANGED <<publishVars, compareVars, intakeVars, statsVars>>

PublishRequested(r) ==
  /\ kind[r] = "publish"
  /\ PublishStep(r)
  /\ UNCHANGED <<editVars, compareVars, intakeVars, statsVars>>

WithdrawRequested(r) ==
  /\ kind[r] = "withdraw"
  /\ WithdrawStep(r)
  /\ UNCHANGED <<editVars, compareVars, intakeVars, statsVars>>

CompareRequested(r) ==
  /\ kind[r] = "compare"
  /\ CompareStep(r)
  /\ UNCHANGED <<editVars, publishVars, intakeVars, statsVars>>

ImportRequested(r) ==
  /\ kind[r] = "import"
  /\ ImportStep(r)
  /\ UNCHANGED <<editVars, publishVars, compareVars, statsVars>>

MediaRequested(r) ==
  /\ kind[r] = "media"
  /\ MediaCreate(r)
  /\ UNCHANGED <<editVars, publishVars, compareVars, statsVars>>

RecomputeRequested(r) ==
  /\ kind[r] = "recompute"
  /\ RecomputeStep(r)
  /\ UNCHANGED <<editVars, publishVars, compareVars, statsVars>>

StatsRequested(r) ==
  /\ kind[r] = "stats"
  /\ StatsStep(r)
  /\ UNCHANGED <<editVars, publishVars, compareVars, intakeVars>>

\* The speakers that rows, as they are or were imported, and requests refer to.
\* Ids are random, so nobody refers to a speaker before it is there.
NamedSpeakers ==
  {segments[s].speaker : s \in {t \in Segment : segments[t] # None}}
    \cup {SeedSegments[s].speaker : s \in {t \in Segment : SeedSegments[t] # None}}
    \cup {req[q].edit.speaker : q \in {p \in Request : req[p] # None}}
    \cup UNION {{batch[q][i].speaker : i \in DOMAIN batch[q]} : q \in Request}

SpeakerRequested(r) ==
  /\ kind[r] = "speaker"
  /\ SpeakerStep(r)
  /\ \A p \in NamedSpeakers \cap Speaker : speakers'[p] = speakers[p]
  /\ UNCHANGED <<editVars, publishVars, compareVars, statsVars>>

\* The requests other than edits, whose failures EditStep has.
RequestFails(r) ==
  /\ kind[r] \notin {"edit", "none"}
  /\ Fail(r)
  /\ UNCHANGED <<editVars, publishVars, compareVars, intakeVars, statsVars>>

Handled(r) ==
  \/ BodyRefused(r)
  \/ EditRequested(r)
  \/ PublishRequested(r)
  \/ WithdrawRequested(r)
  \/ CompareRequested(r)
  \/ ImportRequested(r)
  \/ MediaRequested(r)
  \/ SpeakerRequested(r)
  \/ RecomputeRequested(r)
  \/ StatsRequested(r)
  \/ RequestFails(r)

One(condition) == IF condition THEN 1 ELSE 0

AnyAnswer(r) == outcome[r] = None /\ outcome'[r] # None
Success(r) == outcome'[r] = "ok"

\* The handlers count what they have answered.
Counted(r) ==
  LET Done(kinds) == One(kind[r] \in kinds /\ Success(r)) IN
  metrics' =
    [requests      |-> metrics.requests + One(pc[r] = "new"),
     sample_writes |-> metrics.sample_writes + Done({"import"}),
     analyses      |-> metrics.analyses + Done({"import", "edit", "recompute"}),
     edits         |-> metrics.edits + Done({"edit"}),
     publishes     |-> metrics.publishes + Done({"publish"}),
     conflicts     |-> metrics.conflicts + One(outcome'[r] = "conflict")]

Served(r) == Handled(r) /\ Counted(r)

\* The requests that were sent are answered.
WorkbenchQuiet ==
  /\ \A r \in Request : kind[r] = "none" \/ pc[r] = "done"
  /\ UNCHANGED allVars

WorkbenchNext ==
  \/ (\E r \in Request : Served(r)) /\ UNCHANGED kind
  \/ WorkbenchQuiet

WorkbenchSpec == WorkbenchInit /\ [][WorkbenchNext]_allVars

\* No two imports of a media are between the reading of the indexes in use and
\* the insertion.  Nothing in the code sees to it: it takes clients that import
\* into a media one after the other.
ImportsApart ==
  \A q, r \in Request :
    pc[q] = "create_segments" /\ pc[r] = "create_segments" /\ into[q] = into[r]
      => q = r

ApartSpec == WorkbenchInit /\ [][WorkbenchNext /\ ImportsApart']_allVars
-----------------------------------------------------------------------------
(***************************************************************************)
(* Properties.                                                             *)
(***************************************************************************)

IsVersion(v) ==
  /\ v = [media |-> v.media, no |-> v.no, snap |-> v.snap,
          withdrawn |-> v.withdrawn]
  /\ v.media \in Media
  /\ v.no \in Nat \ {0}
  /\ IsSnapshot(v.snap)
  /\ v.withdrawn \in BOOLEAN

\* Every table and every local variable of every handler holds what the code
\* declares it to hold; the snapshot of a stored version is complete, and the
\* version numbers start from 1.
WorkbenchTypeOK ==
  /\ TablesOK
  /\ DOMAIN versions \subseteq Request
  /\ \A v \in DOMAIN versions : IsVersion(versions[v])
  /\ withdrawals \subseteq Withdrawal
  /\ pc \in [Request -> EditPC \cup PublishPC \cup WithdrawPC \cup ComparePC
                         \cup IntakePC \cup StatsPC]
  /\ outcome \in [Request -> Outcome \cup {None}]
  /\ target \in [Request -> Media \cup {None}]
  /\ count \in [Request -> Nat]
  /\ wd \in [Request -> Withdrawal \cup {None}]
  /\ into \in [Request -> Media \cup {None}]
  /\ \A r \in Request : kind[r] = "edit" => LocalsOK(r)

VersionsOf(m) == {v \in DOMAIN versions : versions[v].media = m}

\* The number a publish takes is larger than every number of the media there
\* is when it counts: rows are only ever added, and withdrawing one does not
\* make the count smaller.
FreshNumber ==
  [][\A r \in Request :
       pc[r] = "count_versions" /\ pc'[r] = "add_version"
         => \A v \in VersionsOf(target[r]) :
              versions[v].no < NextNo(count'[r])]_allVars

\* Version numbers of a media are its version history's: no two rows share one
\* (publish.go:69, "used to assign the next number").
NumbersUnique ==
  \A m \in Media : \A v, w \in VersionsOf(m) :
    versions[v].no = versions[w].no => v = w

\* A media is marked published only when it has a version: the row is written
\* before the mark, and not made up for when writing it fails.
PublishedHasVersion ==
  \A m \in Media : media[m] = "published" => VersionsOf(m) # {}

\* A version flagged withdrawn has its withdrawal record, of its own media: the
\* record is written before the flag and a failure in between loses the flag,
\* never the record.
WithdrawnRecorded ==
  \A v \in DOMAIN versions :
    versions[v].withdrawn
      => \E w \in withdrawals : w.version = v /\ w.media = versions[v].media

\* A frozen version can be read on its own: when a line of the snapshot names a
\* speaker of the media, the snapshot has the speaker.  The lines are listed
\* before the speakers, and an edit gives a line only a speaker that is there.
SnapshotClosed ==
  \A v \in DOMAIN versions :
    LET s == versions[v].snap IN
    \A i \in DOMAIN s.segments :
      s.segments[i].speaker \in ListSpeakers(versions[v].media)
        => s.segments[i].speaker \in s.speakers

\* An index is unique in its media (the design document, on imports).
IndexUnique ==
  \A s, t \in Segment :
    /\ segments[s] # None /\ segments[t] # None
    /\ segments[s].media = segments[t].media
    /\ segments[s].idx = segments[t].idx
    => s = t

\* A line refers to a speaker that is nowhere only when it was imported so:
\* orphan references come in with a batch, no edit makes one, although the
\* whole-row write of an edit may carry one on.
OrphansImported ==
  \A v \in revisions :
    v.after.speaker \notin {v.before.speaker, NoSpeaker}
      => speakers[v.after.speaker] # None

\* What a client was told is in the tables: an accepted edit has its audit row
\* and a refused one its conflict row, a published version and the mark of its
\* media are there, a withdrawal has its record and its flag, and of every line
\* of an imported batch there is a row of that index.  No later request undoes
\* it, and neither does a restart.
AnsweredStored ==
  \A r \in Request :
    /\ kind[r] = "edit" /\ outcome[r] = "ok" => rev[r] \in revisions
    /\ kind[r] = "edit" /\ outcome[r] = "conflict" => conf[r] \in conflicts
    /\ kind[r] = "publish" /\ outcome[r] = "ok" =>
         /\ r \in DOMAIN versions
         /\ versions[r].snap = snap[r]
         /\ media[target[r]] = "published"
    /\ kind[r] = "withdraw" /\ outcome[r] = "ok" =>
         /\ wd[r] \in withdrawals
         /\ versions[wd[r].version].withdrawn
    /\ kind[r] = "import" /\ outcome[r] = "ok" =>
         \A i \in DOMAIN batch[r] : \E s \in Segment :
           /\ segments[s] # None
           /\ segments[s].media = into[r]
           /\ segments[s].idx = batch[r][i].idx

\* A comparison says all there is between two frozen versions, whatever was
\* edited while it ran: with the changes it lists the first snapshot's lines
\* read as the second's do, in every column an edit can change.
DiffComplete ==
  \A r \in Request : diff[r] # None =>
    LET a == versions[pair[r][1]].snap.segments
        b == versions[pair[r][2]].snap.segments
        Then(s, f) == IF f \in DOMAIN diff[r].changes[s]
                        THEN diff[r].changes[s][f].after
                        ELSE a[s][f]
    IN /\ DOMAIN b = (DOMAIN a \ diff[r].removed) \cup diff[r].added
       /\ \A s \in DOMAIN a \cap DOMAIN b :
            \A f \in {"start", "end", "text", "speaker", "desc"} :
              Then(s, f) = b[s][f]

\* Each total of the dashboard is one the database had between the request and
\* its answer, or between two such: nothing is counted twice or left out.
\* Findings are not among them, since their number can fall.
StatsBounded ==
  \A r \in Request : kind[r] = "stats" /\ outcome[r] = "ok" =>
    \A c \in DOMAIN Zero \ {"quality"} :
      floor[r][c] <= tally[r][c] /\ tally[r][c] <= Totals[c]

\* No counter is ahead of the rows it stands for: what is counted as an edit, a
\* publish or a conflict is in its table.
MetricsBacked ==
  /\ metrics.edits <= Cardinality(revisions)
  /\ metrics.publishes <= Cardinality(DOMAIN versions)
  /\ metrics.conflicts <= Cardinality(conflicts)

\* What publishing promises, in VersionHistory's terms.
History == INSTANCE VersionHistory WITH
  Version <- Request,
  history <- [v \in DOMAIN versions |->
                [media |-> versions[v].media, no |-> versions[v].no,
                 snap |-> versions[v].snap]],
  records <- withdrawals,
  flagged <- {v \in DOMAIN versions : versions[v].withdrawn}

\* However requests interleave and fail, versions are appended and never
\* rewritten, numbered within the count of their media, and flagged only when
\* their record is there.
HistorySpec == History!Spec
=============================================================================
