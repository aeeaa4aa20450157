-------------------------- MODULE Workbench_proofs --------------------------
(***************************************************************************)
(* What the requests of Workbench keep to among themselves, for any number *)
(* of them, any media and rows, and whichever store calls fail: publishing *)
(* implements VersionHistory, and the marks of versions and media have     *)
(* something behind them.                                                  *)
(***************************************************************************)
EXTENDS Workbench, EditSegment_proofs, FiniteSetTheorems, TLAPS

\* The calls between which a request holds what publishing rests on.
Publishing == PublishPC \cup WithdrawPC

IsVersionRow(v) == v = [media |-> v.media, no |-> v.no, snap |-> v.snap,
                        withdrawn |-> v.withdrawn]

\* What a request that publishes or withdraws knows of the tables.
HeldVersion(r) ==
  /\ pc[r] \in {"new"} \cup (PublishPC \ {"publish_media"}) => r \notin DOMAIN versions
  /\ pc[r] \in PublishPC => target[r] \in Media
  /\ pc[r] = "add_version" =>
       \A m \in Media : target[r] = m => count[r] \in 0..Cardinality(VersionsOf(m))
  /\ pc[r] = "publish_media" =>
       r \in DOMAIN versions /\ versions[r].media = target[r]
  /\ pc[r] \in WithdrawPC =>
       /\ wd[r].version \in DOMAIN versions
       /\ wd[r].media = versions[wd[r].version].media
  /\ pc[r] = "mark_withdrawn" => wd[r] \in withdrawals

RowsInv ==
  /\ DOMAIN versions \subseteq Request
  /\ versions = [v \in DOMAIN versions |-> versions[v]]
  /\ \A v \in DOMAIN versions : IsVersionRow(versions[v]) /\ versions[v].media \in Media

LocalsInv ==
  /\ DOMAIN pc = Request
  /\ DOMAIN target = Request
  /\ DOMAIN count = Request
  /\ DOMAIN wd = Request

PublishInv ==
  /\ RowsInv
  /\ LocalsInv
  /\ DOMAIN media = Media
  /\ \A r \in Request : HeldVersion(r)
  /\ WithdrawnRecorded
  /\ PublishedHasVersion

LEMMA PublishInvInit == WorkbenchInit => PublishInv
<1> SUFFICES ASSUME WorkbenchInit PROVE PublishInv
  OBVIOUS
<1>1. \A m \in Media : media[m] # "published"
  BY SeedAssumption, StatusAssumption DEF WorkbenchInit, EditInit, MediaStatus
<1>2. \A r \in Request : pc[r] = "new"
  BY DEF WorkbenchInit, EditInit, QualityInit
<1> QED
  BY <1>1, <1>2, SeedAssumption
     DEF WorkbenchInit, EditInit, QualityInit, PublishInit, PublishInv, RowsInv,
         LocalsInv, HeldVersion, WithdrawnRecorded, PublishedHasVersion,
         PublishPC, WithdrawPC

-----------------------------------------------------------------------------
(***************************************************************************)
(* Steps that have nothing to do with publishing.                          *)
(***************************************************************************)

\* The step leaves r at none of the calls of publishing, and the tables and
\* locals of publishing alone; a media it makes is a draft.
Aside(r) ==
  /\ UNCHANGED <<versions, withdrawals, target, count, wd>>
  /\ DOMAIN pc' = DOMAIN pc
  /\ \A q \in Request \ {r} : pc'[q] = pc[q]
  /\ pc'[r] \notin {"new"} \cup Publishing
  /\ media' = media \/ \E m \in Media : media' = [media EXCEPT ![m] = "draft"]

LEMMA AsideKeepsInv ==
  ASSUME PublishInv, NEW r \in Request, Aside(r)
  PROVE  PublishInv'
<1>1. RowsInv' /\ LocalsInv' /\ WithdrawnRecorded'
  BY DEF Aside, PublishInv, RowsInv, LocalsInv, IsVersionRow, WithdrawnRecorded
<1>2. \A m : VersionsOf(m)' = VersionsOf(m)
  BY DEF Aside, VersionsOf
<1>3. DOMAIN media' = Media /\ PublishedHasVersion'
  BY <1>2 DEF Aside, PublishInv, PublishedHasVersion
<1>4. HeldVersion(r)'
  BY DEF Aside, HeldVersion, Publishing, PublishPC, WithdrawPC
<1>5. ASSUME NEW q \in Request \ {r} PROVE HeldVersion(q)'
  <2>1. /\ pc'[q] = pc[q]
        /\ UNCHANGED <<versions, withdrawals, target, count, wd>>
    BY DEF Aside
  <2>2. HeldVersion(q)
    BY DEF PublishInv
  <2> QED
    BY <2>1, <2>2 DEF HeldVersion, VersionsOf
<1> QED
  BY <1>1, <1>3, <1>4, <1>5 DEF PublishInv

\* The label of a request moves and no other's does.
LEMMA LabelMoves ==
  ASSUME DOMAIN pc = Request, NEW r \in Request, NEW label,
         Goto(r, label) \/ (label = "done" /\ \E answer : Reply(r, answer))
  PROVE  /\ DOMAIN pc' = DOMAIN pc
         /\ pc'[r] = label
         /\ \A q \in Request \ {r} : pc'[q] = pc[q]
BY DEF Goto, Reply

LEMMA ReplyAside ==
  ASSUME DOMAIN pc = Request, NEW r \in Request, NEW answer, Reply(r, answer),
         UNCHANGED <<versions, withdrawals, target, count, wd>>,
         media' = media \/ \E m \in Media : media' = [media EXCEPT ![m] = "draft"]
  PROVE  Aside(r)
BY DEF Reply, Aside, Publishing, PublishPC, WithdrawPC

LEMMA GotoAside ==
  ASSUME DOMAIN pc = Request, NEW r \in Request, NEW label, Goto(r, label),
         label \notin {"new"} \cup Publishing, UNCHANGED media,
         UNCHANGED <<versions, withdrawals, target, count, wd>>
  PROVE  Aside(r)
BY DEF Goto, Aside

LEMMA RecomputeAside ==
  ASSUME DOMAIN pc = Request, NEW r \in Request, NEW m, Recompute(r, m, "done"),
         UNCHANGED <<target, count, wd>>
  PROVE  Aside(r)
<1> USE DEF Publishing, PublishPC, WithdrawPC
<1>1. UNCHANGED <<media, versions, withdrawals>>
  BY DEF Recompute, RecomputeListSegments, RecomputeListSpeakers, RecomputeDelete,
         RecomputeAdd, DeleteQualityForMedia, AddQuality, storeVars
<1>2. CASE RecomputeListSegments(r, m) \/ RecomputeListSpeakers(r, m)
  BY <1>1, <1>2, GotoAside DEF RecomputeListSegments, RecomputeListSpeakers
<1>3. CASE RecomputeDelete(r, m, "done")
  BY <1>1, <1>3, GotoAside, ReplyAside DEF RecomputeDelete, Return
<1>4. CASE RecomputeAdd(r, m, "done")
  <2>1. CASE UNCHANGED pc
    BY <1>1, <1>4, <2>1 DEF Aside, RecomputeAdd
  <2>2. CASE Return(r, "done")
    BY <1>1, <2>2, ReplyAside DEF Return
  <2> QED
    BY <1>4, <2>1, <2>2 DEF RecomputeAdd
<1> QED
  BY <1>2, <1>3, <1>4 DEF Recompute

LEMMA EditAside ==
  ASSUME DOMAIN pc = Request, NEW r \in Request, EditStep(r),
         UNCHANGED publishVars
  PROVE  Aside(r)
<1> USE DEF Publishing, PublishPC, WithdrawPC, publishVars, storeVars
<1>1. CASE EditGetSegment(r)
  <2>1. PICK q \in EditRequest :
          LET seg == GetSegment(q.seg) IN
          \/ \E answer : Reply(r, answer)
          \/ Goto(r, IF Stale(seg, q.base) THEN "last_actor" ELSE "patch")
    BY <1>1 DEF EditGetSegment
  <2>2. UNCHANGED storeVars
    BY <1>1 DEF EditGetSegment
  <2> QED
    BY <2>1, <2>2, ReplyAside, GotoAside
<1>2. CASE EditLastActor(r)
  BY <1>2, GotoAside DEF EditLastActor
<1>3. CASE EditAddConflict(r)
  BY <1>3, GotoAside DEF EditAddConflict, AddConflict
<1>4. CASE EditMarkConflict(r)
  BY <1>4, ReplyAside DEF EditMarkConflict, UpdateSegmentStatus
<1>5. CASE EditPatch(r)
  <2>1. \/ \E answer : Reply(r, answer)
        \/ Goto(r, IF NamesSpeaker(req[r].edit) THEN "get_speaker"
                                                ELSE "update_segment")
    BY <1>5 DEF EditPatch
  <2> QED
    BY <1>5, <2>1, ReplyAside, GotoAside DEF EditPatch
<1>6. CASE EditGetSpeaker(r)
  BY <1>6, ReplyAside, GotoAside DEF EditGetSpeaker
<1>7. CASE EditUpdateSegment(r)
  BY <1>7, GotoAside DEF EditUpdateSegment, UpdateSegment
<1>8. CASE EditAddRevision(r)
  BY <1>8, GotoAside DEF EditAddRevision, AddRevision
<1>9. CASE EditRecompute(r)
  BY <1>9, RecomputeAside DEF EditRecompute
<1>10. CASE EditFail(r)
  BY <1>10, ReplyAside DEF EditFail, Fail
<1> QED
  BY <1>1, <1>2, <1>3, <1>4, <1>5, <1>6, <1>7, <1>8, <1>9, <1>10 DEF EditStep

LEMMA ImportAside ==
  ASSUME DOMAIN pc = Request, NEW r \in Request, ImportStep(r),
         UNCHANGED publishVars
  PROVE  Aside(r)
<1> USE DEF Publishing, PublishPC, WithdrawPC, publishVars, storeVars
<1>1. CASE ImportGetMedia(r)
  <2>1. \/ \E answer : Reply(r, answer)
        \/ Goto(r, "imp_list_segments")
    BY <1>1 DEF ImportGetMedia
  <2> QED
    BY <1>1, <2>1, ReplyAside, GotoAside DEF ImportGetMedia
<1>2. CASE ImportListSegments(r)
  BY <1>2, ReplyAside, GotoAside DEF ImportListSegments
<1>3. CASE ImportCreateSegments(r)
  BY <1>3, GotoAside DEF ImportCreateSegments, CreateSegments
<1>4. CASE ImportRecompute(r)
  BY <1>4, RecomputeAside DEF ImportRecompute
<1> QED
  BY <1>1, <1>2, <1>3, <1>4 DEF ImportStep

LEMMA IntakeAside ==
  ASSUME DOMAIN pc = Request, NEW r \in Request, UNCHANGED publishVars,
         MediaCreate(r) \/ SpeakerStep(r) \/ RecomputeStep(r)
  PROVE  Aside(r)
<1> USE DEF Publishing, PublishPC, WithdrawPC, publishVars, storeVars
<1>1. CASE MediaCreate(r)
  BY <1>1, ReplyAside DEF MediaCreate, CreateMedia
<1>2. CASE SpeakerGetMedia(r)
  <2>1. (\E answer : Reply(r, answer)) \/ Goto(r, "create_speaker")
    BY <1>2 DEF SpeakerGetMedia
  <2> QED
    BY <1>2, <2>1, ReplyAside, GotoAside DEF SpeakerGetMedia
<1>3. CASE SpeakerCreate(r)
  BY <1>3, ReplyAside DEF SpeakerCreate, CreateSpeaker
<1>4. CASE RecomputeGetMedia(r)
  <2>1. (\E answer : Reply(r, answer)) \/ Goto(r, "list_segments")
    BY <1>4 DEF RecomputeGetMedia
  <2> QED
    BY <1>4, <2>1, ReplyAside, GotoAside DEF RecomputeGetMedia
<1>5. CASE Recompute(r, into[r], "done")
  BY <1>5, RecomputeAside
<1> QED
  BY <1>1, <1>2, <1>3, <1>4, <1>5 DEF SpeakerStep, RecomputeStep

LEMMA CompareAside ==
  ASSUME DOMAIN pc = Request, NEW r \in Request, CompareStep(r),
         UNCHANGED publishVars
  PROVE  Aside(r)
<1> USE DEF Publishing, PublishPC, WithdrawPC, publishVars, storeVars
<1>1. CASE CompareGetFirst(r)
  <2>1. (\E answer : Reply(r, answer)) \/ Goto(r, "get_second")
    BY <1>1 DEF CompareGetFirst
  <2> QED
    BY <1>1, <2>1, ReplyAside, GotoAside DEF CompareGetFirst
<1>2. CASE CompareGetSecond(r)
  <2>1. \E answer : Reply(r, answer)
    BY <1>2 DEF CompareGetSecond
  <2> QED
    BY <1>2, <2>1, ReplyAside DEF CompareGetSecond
<1> QED
  BY <1>1, <1>2 DEF CompareStep

LEMMA StatsAside ==
  ASSUME DOMAIN pc = Request, NEW r \in Request, StatsStep(r),
         UNCHANGED publishVars
  PROVE  Aside(r)
<1>1. UNCHANGED storeVars
  BY DEF StatsStep, StatsListMedia, StatsCountSegments, StatsCountVersions, CountTable
<1>2. \/ \E label \in StatsPC : Goto(r, label)
      \/ \E answer : Reply(r, answer)
  BY DEF StatsStep, StatsListMedia, StatsCountSegments, StatsCountVersions, StatsPC
<1>3. StatsPC \cap ({"new"} \cup Publishing) = {}
  BY DEF StatsPC, Publishing, PublishPC, WithdrawPC
<1> QED
  BY <1>1, <1>2, <1>3, ReplyAside, GotoAside DEF storeVars, publishVars

\* Every handler but Publish and Withdraw, and whatever fails.
LEMMA OthersAside ==
  ASSUME DOMAIN pc = Request, NEW r \in Request,
         Handled(r), ~PublishRequested(r), ~WithdrawRequested(r)
  PROVE  Aside(r)
<1>1. CASE BodyRefused(r) \/ RequestFails(r)
  BY <1>1, ReplyAside DEF BodyRefused, RequestFails, Fail, storeVars, publishVars
<1>2. CASE EditRequested(r)
  BY <1>2, EditAside DEF EditRequested
<1>3. CASE CompareRequested(r)
  BY <1>3, CompareAside DEF CompareRequested
<1>4. CASE ImportRequested(r)
  BY <1>4, ImportAside DEF ImportRequested
<1>5. CASE MediaRequested(r) \/ SpeakerRequested(r) \/ RecomputeRequested(r)
  BY <1>5, IntakeAside DEF MediaRequested, SpeakerRequested, RecomputeRequested
<1>6. CASE StatsRequested(r)
  BY <1>6, StatsAside DEF StatsRequested
<1> QED
  BY <1>1, <1>2, <1>3, <1>4, <1>5, <1>6 DEF Handled

-----------------------------------------------------------------------------
(***************************************************************************)
(* Publish.                                                                *)
(***************************************************************************)

LEMMA VersionsFinite ==
  ASSUME RowsInv, NEW m
  PROVE  IsFiniteSet(VersionsOf(m)) /\ Cardinality(VersionsOf(m)) \in Nat
BY StoreAssumption, FS_Subset, FS_CardinalityType DEF RowsInv, VersionsOf

\* A step of r in which no version and no record goes away keeps what the
\* other requests know.
LEMMA OthersHold ==
  ASSUME PublishInv, NEW r \in Request,
         RowsInv',
         DOMAIN versions \subseteq DOMAIN versions',
         DOMAIN versions' \subseteq DOMAIN versions \cup {r},
         \A v \in DOMAIN versions : versions'[v].media = versions[v].media,
         withdrawals \subseteq withdrawals',
         \A q \in Request \ {r} : /\ pc'[q] = pc[q]
                                  /\ target'[q] = target[q]
                                  /\ count'[q] = count[q]
                                  /\ wd'[q] = wd[q]
  PROVE  \A q \in Request \ {r} : HeldVersion(q)'
<1> SUFFICES ASSUME NEW q \in Request \ {r} PROVE HeldVersion(q)'
  OBVIOUS
<1>1. HeldVersion(q)
  BY DEF PublishInv
<1>2. /\ pc'[q] = pc[q]
      /\ target'[q] = target[q]
      /\ count'[q] = count[q]
      /\ wd'[q] = wd[q]
  OBVIOUS
<1>3. ASSUME NEW m PROVE Cardinality(VersionsOf(m)) <= Cardinality(VersionsOf(m))'
  <2>1. VersionsOf(m) \subseteq VersionsOf(m)'
    BY DEF VersionsOf
  <2>2. IsFiniteSet(VersionsOf(m)')
    BY StoreAssumption, FS_Subset DEF RowsInv, VersionsOf
  <2> QED
    BY <2>1, <2>2, FS_Subset
<1>4. ASSUME pc'[q] = "add_version", NEW m \in Media, target'[q] = m
      PROVE  count'[q] \in 0..Cardinality(VersionsOf(m)')
  <2>1. count[q] \in 0..Cardinality(VersionsOf(m))
    BY <1>1, <1>2, <1>4 DEF HeldVersion
  <2>2. Cardinality(VersionsOf(m)) \in Nat
    BY VersionsFinite DEF PublishInv
  <2>3. Cardinality(VersionsOf(m)') \in Nat
    BY StoreAssumption, FS_Subset, FS_CardinalityType DEF RowsInv, VersionsOf
  <2> QED
    BY <1>2, <1>3, <2>1, <2>2, <2>3
<1>5. /\ pc'[q] \in {"new"} \cup (PublishPC \ {"publish_media"}) => q \notin DOMAIN versions'
      /\ pc'[q] \in PublishPC => target'[q] \in Media
      /\ pc'[q] = "publish_media" =>
           q \in DOMAIN versions' /\ versions'[q].media = target'[q]
  BY <1>1, <1>2 DEF HeldVersion
<1>6. /\ pc'[q] \in WithdrawPC =>
           /\ wd'[q].version \in DOMAIN versions'
           /\ wd'[q].media = versions'[wd'[q].version].media
      /\ pc'[q] = "mark_withdrawn" => wd'[q] \in withdrawals'
  BY <1>1, <1>2 DEF HeldVersion
<1> QED
  BY <1>4, <1>5, <1>6 DEF HeldVersion

\* A step of r that only reads keeps the invariant if it keeps what r knows.
LEMMA ReadingKeepsInv ==
  ASSUME PublishInv, NEW r \in Request,
         UNCHANGED <<media, versions, withdrawals>>,
         LocalsInv', HeldVersion(r)',
         \A q \in Request \ {r} : /\ pc'[q] = pc[q]
                                  /\ target'[q] = target[q]
                                  /\ count'[q] = count[q]
                                  /\ wd'[q] = wd[q]
  PROVE  PublishInv'
<1>1. RowsInv' /\ WithdrawnRecorded'
  BY DEF PublishInv, RowsInv, IsVersionRow, WithdrawnRecorded
<1>2. DOMAIN media' = Media /\ PublishedHasVersion'
  <2>1. \A m : VersionsOf(m)' = VersionsOf(m)
    BY DEF VersionsOf
  <2> QED
    BY <2>1 DEF PublishInv, PublishedHasVersion
<1>3. \A q \in Request \ {r} : HeldVersion(q)'
  BY <1>1, OthersHold
<1> QED
  BY <1>1, <1>2, <1>3 DEF PublishInv

LEMMA PublishGetMediaKeepsInv ==
  ASSUME PublishInv, NEW r \in Request, PublishGetMedia(r)
  PROVE  PublishInv'
<1> USE DEF PublishPC, WithdrawPC
<1>1. UNCHANGED <<media, versions, withdrawals, count, wd>>
  BY DEF PublishGetMedia, storeVars
<1>2. PICK m \in Media :
        /\ target' = [target EXCEPT ![r] = m]
        /\ (\E answer : Reply(r, answer)) \/ Goto(r, "pub_list_segments")
  BY DEF PublishGetMedia
<1>3. /\ DOMAIN pc' = Request
      /\ pc'[r] \in {"done", "pub_list_segments"}
      /\ \A q \in Request \ {r} : pc'[q] = pc[q]
  BY <1>2, LabelMoves DEF PublishInv, LocalsInv
<1>4. LocalsInv' /\ target'[r] = m
  BY <1>1, <1>2, <1>3 DEF PublishInv, LocalsInv
<1>5. r \notin DOMAIN versions
  BY DEF PublishInv, HeldVersion, PublishGetMedia
<1>6. HeldVersion(r)'
  BY <1>1, <1>3, <1>4, <1>5 DEF HeldVersion
<1>7. \A q \in Request \ {r} : target'[q] = target[q]
  BY <1>2 DEF PublishInv, LocalsInv
<1> QED
  BY <1>1, <1>3, <1>4, <1>6, <1>7, ReadingKeepsInv

LEMMA PublishListKeepsInv ==
  ASSUME PublishInv, NEW r \in Request,
         PublishListSegments(r) \/ PublishListSpeakers(r)
  PROVE  PublishInv'
<1> USE DEF PublishPC, WithdrawPC
<1>1. /\ UNCHANGED <<media, versions, withdrawals, target, count, wd>>
      /\ pc[r] \in {"pub_list_segments", "pub_list_speakers"}
      /\ Goto(r, "pub_list_speakers") \/ Goto(r, "count_versions")
  BY DEF PublishListSegments, PublishListSpeakers, storeVars
<1>2. /\ DOMAIN pc' = Request
      /\ pc'[r] \in {"pub_list_speakers", "count_versions"}
      /\ \A q \in Request \ {r} : pc'[q] = pc[q]
  BY <1>1, LabelMoves DEF PublishInv, LocalsInv
<1>3. LocalsInv'
  BY <1>1, <1>2 DEF PublishInv, LocalsInv
<1>4. HeldVersion(r)
  BY DEF PublishInv
<1>5. HeldVersion(r)'
  BY <1>1, <1>2, <1>4 DEF HeldVersion
<1> QED
  BY <1>1, <1>2, <1>3, <1>5, ReadingKeepsInv

LEMMA PublishCountKeepsInv ==
  ASSUME PublishInv, NEW r \in Request, PublishCount(r)
  PROVE  PublishInv'
<1> USE DEF PublishPC, WithdrawPC
<1>1. /\ UNCHANGED <<media, versions, withdrawals, target, wd>>
      /\ count' = [count EXCEPT ![r] = CountPublishVersions(target[r])]
      /\ pc[r] = "count_versions"
      /\ Goto(r, "add_version")
  BY DEF PublishCount, storeVars
<1>2. /\ DOMAIN pc' = Request
      /\ pc'[r] = "add_version"
      /\ \A q \in Request \ {r} : pc'[q] = pc[q]
  BY <1>1, LabelMoves DEF PublishInv, LocalsInv
<1>3. LocalsInv' /\ count'[r] = CountPublishVersions(target[r])
  BY <1>1, <1>2 DEF PublishInv, LocalsInv
<1>4. HeldVersion(r)
  BY DEF PublishInv
<1>5. ASSUME NEW m \in Media, target'[r] = m
      PROVE  count'[r] \in 0..Cardinality(VersionsOf(m)')
  <2>1. VersionsOf(m)' = VersionsOf(m)
    BY <1>1 DEF VersionsOf
  <2>2. count'[r] = Cardinality(VersionsOf(m))
    BY <1>1, <1>3, <1>5 DEF CountPublishVersions, VersionsOf
  <2>3. Cardinality(VersionsOf(m)) \in Nat
    BY VersionsFinite DEF PublishInv
  <2> QED
    BY <2>1, <2>2, <2>3
<1>6. HeldVersion(r)'
  BY <1>1, <1>2, <1>4, <1>5 DEF HeldVersion
<1>7. \A q \in Request \ {r} : count'[q] = count[q]
  BY <1>1 DEF PublishInv, LocalsInv
<1> QED
  BY <1>1, <1>2, <1>3, <1>6, <1>7, ReadingKeepsInv

LEMMA PublishAddVersionKeepsInv ==
  ASSUME PublishInv, NEW r \in Request, PublishAddVersion(r)
  PROVE  PublishInv'
<1> USE DEF PublishPC, WithdrawPC
<1>1. /\ UNCHANGED <<media, withdrawals, target, count, wd>>
      /\ versions' = [v \in DOMAIN versions \cup {r} |->
                        IF v = r THEN Frozen(r) ELSE versions[v]]
      /\ pc[r] = "add_version"
      /\ Goto(r, "publish_media")
  BY DEF PublishAddVersion, AddPublishVersion, publishVars
<1>2. /\ DOMAIN pc' = Request
      /\ pc'[r] = "publish_media"
      /\ \A q \in Request \ {r} : pc'[q] = pc[q]
  BY <1>1, LabelMoves DEF PublishInv, LocalsInv
<1>3. HeldVersion(r)
  BY DEF PublishInv
<1>4. r \notin DOMAIN versions /\ target[r] \in Media
  BY <1>1, <1>3 DEF HeldVersion
<1>5. /\ DOMAIN versions' = DOMAIN versions \cup {r}
      /\ versions'[r] = Frozen(r)
      /\ \A v \in DOMAIN versions : versions'[v] = versions[v]
  BY <1>1, <1>4
<1>6. RowsInv' /\ LocalsInv'
  BY <1>1, <1>2, <1>4, <1>5 DEF PublishInv, RowsInv, LocalsInv, IsVersionRow, Frozen
<1>7. WithdrawnRecorded'
  BY <1>1, <1>5 DEF PublishInv, WithdrawnRecorded, Frozen
<1>8. PublishedHasVersion'
  <2>1. \A m \in Media : VersionsOf(m) \subseteq VersionsOf(m)'
    BY <1>5 DEF VersionsOf
  <2> QED
    BY <1>1, <2>1 DEF PublishInv, PublishedHasVersion
<1>9. HeldVersion(r)'
  <2>1. r \in DOMAIN versions' /\ versions'[r].media = target'[r]
    BY <1>1, <1>5 DEF Frozen
  <2> QED
    BY <1>1, <1>2, <1>4, <2>1 DEF HeldVersion
<1>10. \A q \in Request \ {r} : HeldVersion(q)'
  BY <1>1, <1>2, <1>5, <1>6, OthersHold
<1> QED
  BY <1>1, <1>6, <1>7, <1>8, <1>9, <1>10 DEF PublishInv

LEMMA PublishMarkMediaKeepsInv ==
  ASSUME PublishInv, NEW r \in Request, PublishMarkMedia(r)
  PROVE  PublishInv'
<1> USE DEF PublishPC, WithdrawPC
<1>1. /\ UNCHANGED <<versions, withdrawals, target, count, wd>>
      /\ media' = [media EXCEPT ![target[r]] = "published"]
      /\ pc[r] = "publish_media"
      /\ Reply(r, "ok")
  BY DEF PublishMarkMedia, UpdateMediaStatus, publishVars
<1>2. /\ DOMAIN pc' = Request
      /\ pc'[r] = "done"
      /\ \A q \in Request \ {r} : pc'[q] = pc[q]
  BY <1>1, LabelMoves DEF PublishInv, LocalsInv
<1>3. HeldVersion(r)
  BY DEF PublishInv
<1>4. r \in VersionsOf(target[r])
  BY <1>1, <1>3 DEF HeldVersion, VersionsOf
<1>5. RowsInv' /\ LocalsInv' /\ WithdrawnRecorded'
  BY <1>1, <1>2 DEF PublishInv, RowsInv, LocalsInv, IsVersionRow, WithdrawnRecorded
<1>6. DOMAIN media' = Media /\ PublishedHasVersion'
  <2>1. ASSUME NEW m \in Media, media'[m] = "published"
        PROVE  VersionsOf(m)' # {}
    <3>1. VersionsOf(m)' = VersionsOf(m)
      BY <1>1 DEF VersionsOf
    <3>2. CASE target[r] = m
      BY <1>4, <3>1, <3>2
    <3>3. CASE target[r] # m
      BY <1>1, <2>1, <3>1, <3>3 DEF PublishInv, PublishedHasVersion
    <3> QED
      BY <3>2, <3>3
  <2>2. DOMAIN media' = Media
    BY <1>1 DEF PublishInv
  <2> QED
    BY <2>1, <2>2 DEF PublishedHasVersion
<1>7. HeldVersion(r)'
  BY <1>2 DEF HeldVersion
<1>8. \A q \in Request \ {r} : HeldVersion(q)'
  BY <1>1, <1>2, <1>5, OthersHold
<1> QED
  BY <1>5, <1>6, <1>7, <1>8 DEF PublishInv

-----------------------------------------------------------------------------
(***************************************************************************)
(* Withdraw.                                                               *)
(***************************************************************************)

LEMMA WithdrawGetVersionKeepsInv ==
  ASSUME PublishInv, NEW r \in Request, WithdrawGetVersion(r)
  PROVE  PublishInv'
<1> USE DEF PublishPC, WithdrawPC
<1>1. UNCHANGED <<media, versions, withdrawals, target, count>>
  BY DEF WithdrawGetVersion, storeVars
<1>2. PICK v \in Request :
        \/ (\E answer : Reply(r, answer)) /\ UNCHANGED wd
        \/ /\ GetPublishVersion(v) # None
           /\ wd' = [wd EXCEPT ![r] = [id |-> r, version |-> v,
                                       media |-> GetPublishVersion(v).media]]
           /\ Goto(r, "add_withdrawal")
  BY DEF WithdrawGetVersion
<1>3. CASE (\E answer : Reply(r, answer)) /\ UNCHANGED wd
  <2>1. /\ DOMAIN pc' = Request
        /\ pc'[r] = "done"
        /\ \A q \in Request \ {r} : pc'[q] = pc[q]
    BY <1>3, LabelMoves DEF PublishInv, LocalsInv
  <2>2. LocalsInv' /\ HeldVersion(r)'
    BY <1>1, <1>3, <2>1 DEF PublishInv, LocalsInv, HeldVersion
  <2> QED
    BY <1>1, <1>3, <2>1, <2>2, ReadingKeepsInv
<1>4. CASE /\ GetPublishVersion(v) # None
           /\ wd' = [wd EXCEPT ![r] = [id |-> r, version |-> v,
                                       media |-> GetPublishVersion(v).media]]
           /\ Goto(r, "add_withdrawal")
  <2>1. /\ DOMAIN pc' = Request
        /\ pc'[r] = "add_withdrawal"
        /\ \A q \in Request \ {r} : pc'[q] = pc[q]
    BY <1>4, LabelMoves DEF PublishInv, LocalsInv
  <2>2. v \in DOMAIN versions /\ GetPublishVersion(v) = versions[v]
    BY <1>4 DEF GetPublishVersion
  <2>3. /\ wd'[r].version = v
        /\ wd'[r].media = versions[v].media
        /\ \A q \in Request \ {r} : wd'[q] = wd[q]
    BY <1>4, <2>2 DEF PublishInv, LocalsInv
  <2>4. LocalsInv'
    BY <1>1, <1>4, <2>1 DEF PublishInv, LocalsInv
  <2>5. HeldVersion(r)'
    BY <1>1, <2>1, <2>2, <2>3 DEF HeldVersion
  <2> QED
    BY <1>1, <2>1, <2>3, <2>4, <2>5, ReadingKeepsInv
<1> QED
  BY <1>2, <1>3, <1>4

LEMMA WithdrawAddRecordKeepsInv ==
  ASSUME PublishInv, NEW r \in Request, WithdrawAddRecord(r)
  PROVE  PublishInv'
<1> USE DEF PublishPC, WithdrawPC
<1>1. /\ UNCHANGED <<media, versions, target, count, wd>>
      /\ withdrawals' = withdrawals \cup {wd[r]}
      /\ pc[r] = "add_withdrawal"
      /\ Goto(r, "mark_withdrawn")
  BY DEF WithdrawAddRecord, AddWithdrawal, publishVars
<1>2. /\ DOMAIN pc' = Request
      /\ pc'[r] = "mark_withdrawn"
      /\ \A q \in Request \ {r} : pc'[q] = pc[q]
  BY <1>1, LabelMoves DEF PublishInv, LocalsInv
<1>3. HeldVersion(r)
  BY DEF PublishInv
<1>4. RowsInv' /\ LocalsInv' /\ WithdrawnRecorded'
  BY <1>1, <1>2 DEF PublishInv, RowsInv, LocalsInv, IsVersionRow, WithdrawnRecorded
<1>5. DOMAIN media' = Media /\ PublishedHasVersion'
  <2>1. \A m : VersionsOf(m)' = VersionsOf(m)
    BY <1>1 DEF VersionsOf
  <2> QED
    BY <1>1, <2>1 DEF PublishInv, PublishedHasVersion
<1>6. HeldVersion(r)'
  BY <1>1, <1>2, <1>3 DEF HeldVersion
<1>7. \A q \in Request \ {r} : HeldVersion(q)'
  BY <1>1, <1>2, <1>4, OthersHold
<1> QED
  BY <1>4, <1>5, <1>6, <1>7 DEF PublishInv

LEMMA WithdrawMarkKeepsInv ==
  ASSUME PublishInv, NEW r \in Request, WithdrawMark(r)
  PROVE  PublishInv'
<1> USE DEF PublishPC, WithdrawPC
<1> DEFINE x == wd[r].version
<1>1. /\ UNCHANGED <<media, withdrawals, target, count, wd>>
      /\ versions' = [versions EXCEPT ![x] = [@ EXCEPT !.withdrawn = TRUE]]
      /\ pc[r] = "mark_withdrawn"
      /\ Reply(r, "ok")
  BY DEF WithdrawMark, MarkWithdrawn, publishVars
<1>2. /\ DOMAIN pc' = Request
      /\ pc'[r] = "done"
      /\ \A q \in Request \ {r} : pc'[q] = pc[q]
  BY <1>1, LabelMoves DEF PublishInv, LocalsInv
<1>3. /\ x \in DOMAIN versions
      /\ wd[r].media = versions[x].media
      /\ wd[r] \in withdrawals
  BY <1>1 DEF PublishInv, HeldVersion
<1>4. IsVersionRow(versions[x])
  BY <1>3 DEF PublishInv, RowsInv
<1>5. /\ DOMAIN versions' = DOMAIN versions
      /\ versions'[x] = [versions[x] EXCEPT !.withdrawn = TRUE]
      /\ \A v \in DOMAIN versions \ {x} : versions'[v] = versions[v]
  BY <1>1, <1>3
<1>6. /\ versions'[x].media = versions[x].media
      /\ IsVersionRow(versions'[x])
  BY <1>4, <1>5 DEF IsVersionRow
<1>7. \A v \in DOMAIN versions : versions'[v].media = versions[v].media
  BY <1>5, <1>6
<1>8. RowsInv' /\ LocalsInv'
  <2>1. versions' = [v \in DOMAIN versions' |-> versions'[v]]
    BY <1>1 DEF PublishInv, RowsInv
  <2> QED
    BY <1>1, <1>2, <1>5, <1>6, <1>7, <2>1 DEF PublishInv, RowsInv, LocalsInv
<1>9. WithdrawnRecorded'
  <2> SUFFICES ASSUME NEW v \in DOMAIN versions', versions'[v].withdrawn
               PROVE  \E w \in withdrawals' : /\ w.version = v
                                             /\ w.media = versions'[v].media
    BY DEF WithdrawnRecorded
  <2>1. CASE v = x
    BY <1>1, <1>3, <1>6, <2>1
  <2>2. CASE v # x
    BY <1>1, <1>5, <2>2 DEF PublishInv, WithdrawnRecorded
  <2> QED
    BY <2>1, <2>2
<1>10. DOMAIN media' = Media /\ PublishedHasVersion'
  <2>1. \A m : VersionsOf(m)' = VersionsOf(m)
    BY <1>5, <1>7 DEF VersionsOf
  <2> QED
    BY <1>1, <2>1 DEF PublishInv, PublishedHasVersion
<1>11. HeldVersion(r)'
  BY <1>2 DEF HeldVersion
<1>12. \A q \in Request \ {r} : HeldVersion(q)'
  BY <1>1, <1>2, <1>5, <1>7, <1>8, OthersHold
<1> QED
  BY <1>8, <1>9, <1>10, <1>11, <1>12 DEF PublishInv

-----------------------------------------------------------------------------
(***************************************************************************)
(* Every request.                                                          *)
(***************************************************************************)

\* Where nobody does anything, nothing changes.
Resting == UNCHANGED <<vars, publishVars, compareVars, intakeVars, statsVars, kind>>

LEMMA PublishInvStutters ==
  ASSUME PublishInv, Resting
  PROVE  PublishInv'
<1>1. UNCHANGED <<media, versions, withdrawals, pc, target, count, wd>>
  BY DEF Resting, vars, storeVars, qaVars, publishVars
<1>2. RowsInv' /\ LocalsInv' /\ WithdrawnRecorded'
  BY <1>1 DEF PublishInv, RowsInv, LocalsInv, IsVersionRow, WithdrawnRecorded
<1>3. \A m : VersionsOf(m)' = VersionsOf(m)
  BY <1>1 DEF VersionsOf
<1>4. DOMAIN media' = Media /\ PublishedHasVersion'
  BY <1>1, <1>3 DEF PublishInv, PublishedHasVersion
<1>5. ASSUME NEW r \in Request PROVE HeldVersion(r)'
  <2>1. HeldVersion(r)
    BY DEF PublishInv
  <2> QED
    BY <1>1, <1>3, <2>1 DEF HeldVersion
<1> QED
  BY <1>2, <1>4, <1>5 DEF PublishInv

LEMMA PublishInvHandled ==
  ASSUME PublishInv, NEW r \in Request, Handled(r)
  PROVE  PublishInv'
<1>1. CASE PublishRequested(r)
  BY <1>1, PublishGetMediaKeepsInv, PublishListKeepsInv, PublishCountKeepsInv,
     PublishAddVersionKeepsInv, PublishMarkMediaKeepsInv
     DEF PublishRequested, PublishStep
<1>2. CASE WithdrawRequested(r)
  BY <1>2, WithdrawGetVersionKeepsInv, WithdrawAddRecordKeepsInv,
     WithdrawMarkKeepsInv DEF WithdrawRequested, WithdrawStep
<1>3. CASE ~PublishRequested(r) /\ ~WithdrawRequested(r)
  BY <1>3, OthersAside, AsideKeepsInv DEF PublishInv, LocalsInv
<1> QED
  BY <1>1, <1>2, <1>3

LEMMA PublishInvNext ==
  PublishInv /\ [WorkbenchNext]_allVars => PublishInv'
BY PublishInvStutters, PublishInvHandled
   DEF WorkbenchNext, WorkbenchQuiet, Served, Resting, allVars

LEMMA PublishInvHolds == WorkbenchSpec => []PublishInv
BY PublishInvInit, PublishInvNext, PTL DEF WorkbenchSpec

\* A version flagged withdrawn has its withdrawal record, of its own media,
\* whatever else is being served and whichever store calls fail.
THEOREM WithdrawalsRecorded == WorkbenchSpec => []WithdrawnRecorded
<1>1. PublishInv => WithdrawnRecorded
  BY DEF PublishInv
<1> QED
  BY <1>1, PublishInvHolds, PTL

\* No media is marked published without a version of it in the table.
THEOREM PublishedHaveVersions == WorkbenchSpec => []PublishedHasVersion
<1>1. PublishInv => PublishedHasVersion
  BY DEF PublishInv
<1> QED
  BY <1>1, PublishInvHolds, PTL

-----------------------------------------------------------------------------
(***************************************************************************)
(* Publishing implements VersionHistory.                                   *)
(***************************************************************************)

TheHistory == [v \in DOMAIN versions |->
                 [media |-> versions[v].media, no |-> versions[v].no,
                  snap |-> versions[v].snap]]

TheFlagged == {v \in DOMAIN versions : versions[v].withdrawn}

LEMMA HistoryInit == WorkbenchInit => History!Init
BY SeedAssumption DEF WorkbenchInit, EditInit, History!Init

\* The history counts its versions as the store does.
LEMMA SameCount ==
  ASSUME NEW S
  PROVE  History!Cardinality(S) = Cardinality(S)
BY DEF History!Cardinality, Cardinality

LEMMA HistoryStutters ==
  ASSUME UNCHANGED <<versions, withdrawals>>
  PROVE  UNCHANGED <<TheHistory, withdrawals, TheFlagged>>
BY DEF TheHistory, TheFlagged

\* Adding the row appends to the history.
LEMMA AddVersionAppends ==
  ASSUME PublishInv, NEW r \in Request, PublishAddVersion(r)
  PROVE  \E v \in Request \cap DOMAIN TheHistory' : History!Append(v, TheHistory'[v])
<1> USE DEF PublishPC, TheHistory, TheFlagged
<1>1. /\ UNCHANGED withdrawals
      /\ versions' = [v \in DOMAIN versions \cup {r} |->
                        IF v = r THEN Frozen(r) ELSE versions[v]]
      /\ pc[r] = "add_version"
  BY DEF PublishAddVersion, AddPublishVersion
<1>2. /\ r \notin DOMAIN versions
      /\ target[r] \in Media
      /\ count[r] \in 0..Cardinality(VersionsOf(target[r]))
  BY <1>1 DEF PublishInv, HeldVersion
<1>3. Cardinality(VersionsOf(target[r])) \in Nat
  BY VersionsFinite DEF PublishInv
<1>4. /\ TheHistory'[r].media = target[r]
      /\ TheHistory'[r].no = count[r] + 1
  BY <1>1 DEF Frozen, NextNo
<1>5. VersionsOf(target[r]) =
        {v \in DOMAIN TheHistory : TheHistory[v].media = target[r]}
  BY DEF VersionsOf
<1>6. TheHistory'[r].no \in 1..(Cardinality(VersionsOf(target[r])) + 1)
  BY <1>2, <1>3, <1>4
<1>7. TheHistory' = [v \in DOMAIN TheHistory \cup {r} |->
                       IF v = r THEN TheHistory'[r] ELSE TheHistory[v]]
  BY <1>1, <1>2
<1>8. UNCHANGED TheFlagged
  BY <1>1, <1>2 DEF Frozen
<1>9. TheHistory'[r].no
        \in 1..(History!Cardinality({v \in DOMAIN TheHistory :
                 TheHistory[v].media = TheHistory'[r].media}) + 1)
  BY <1>4, <1>5, <1>6, SameCount
<1>10. r \notin DOMAIN TheHistory /\ r \in DOMAIN TheHistory'
  BY <1>1, <1>2
<1> HIDE DEF TheHistory
<1> QED
  BY <1>1, <1>2, <1>4, <1>7, <1>8, <1>9, <1>10
     DEF History!Append, History!There, History!Of, TheHistory

LEMMA AddRecordRecords ==
  ASSUME PublishInv, NEW r \in Request, WithdrawAddRecord(r)
  PROVE  wd[r] \in withdrawals' /\ History!Record(wd[r])
<1>1. /\ UNCHANGED versions
      /\ withdrawals' = withdrawals \cup {wd[r]}
      /\ pc[r] = "add_withdrawal"
  BY DEF WithdrawAddRecord, AddWithdrawal
<1>2. /\ wd[r].version \in DOMAIN versions
      /\ wd[r].media = versions[wd[r].version].media
  BY <1>1 DEF PublishInv, HeldVersion, WithdrawPC
<1> QED
  BY <1>1, <1>2 DEF History!Record, History!There

LEMMA MarkFlags ==
  ASSUME PublishInv, NEW r \in Request, WithdrawMark(r)
  PROVE  \E v \in Request : History!Flag(v)
<1> DEFINE x == wd[r].version
<1>1. /\ UNCHANGED withdrawals
      /\ versions' = [versions EXCEPT ![x] = [@ EXCEPT !.withdrawn = TRUE]]
      /\ pc[r] = "mark_withdrawn"
  BY DEF WithdrawMark, MarkWithdrawn
<1>2. /\ x \in DOMAIN versions
      /\ wd[r] \in withdrawals
  BY <1>1 DEF PublishInv, HeldVersion, WithdrawPC
<1>3. IsVersionRow(versions[x]) /\ x \in Request
  BY <1>2 DEF PublishInv, RowsInv
<1>4. versions'[x] = [media |-> versions[x].media, no |-> versions[x].no,
                      snap |-> versions[x].snap, withdrawn |-> TRUE]
  BY <1>1, <1>2, <1>3 DEF IsVersionRow
<1>5. /\ DOMAIN versions' = DOMAIN versions
      /\ \A v \in DOMAIN versions : v # x => versions'[v] = versions[v]
  BY <1>1
<1>6. TheHistory' = TheHistory
  BY <1>2, <1>4, <1>5 DEF TheHistory
<1>7. TheFlagged' = TheFlagged \cup {x}
  BY <1>2, <1>4, <1>5 DEF TheFlagged
<1> QED
  BY <1>1, <1>2, <1>3, <1>6, <1>7 DEF History!Flag, TheHistory, TheFlagged

\* Each of the other steps is invisible to the history.
LEMMA HistoryHandled ==
  ASSUME PublishInv, NEW r \in Request, Handled(r)
  PROVE  History!Next \/ UNCHANGED History!historyVars
<1>0. ASSUME UNCHANGED <<versions, withdrawals>>
      PROVE  UNCHANGED History!historyVars
  BY <1>0 DEF History!historyVars
<1>1. CASE PublishAddVersion(r)
  BY <1>1, AddVersionAppends DEF History!Next, History!There, TheHistory
<1>2. CASE WithdrawAddRecord(r)
  BY <1>2, AddRecordRecords DEF History!Next
<1>3. CASE WithdrawMark(r)
  BY <1>3, MarkFlags DEF History!Next
<1>4. CASE /\ PublishRequested(r) \/ WithdrawRequested(r)
           /\ ~(PublishAddVersion(r) \/ WithdrawAddRecord(r) \/ WithdrawMark(r))
  <2>1. UNCHANGED <<versions, withdrawals>>
    BY <1>4 DEF PublishRequested, WithdrawRequested, PublishStep, WithdrawStep,
                PublishGetMedia, PublishListSegments, PublishListSpeakers,
                PublishCount, PublishMarkMedia, UpdateMediaStatus,
                WithdrawGetVersion, storeVars
  <2> QED
    BY <1>0, <2>1
<1>5. CASE ~PublishRequested(r) /\ ~WithdrawRequested(r)
  BY <1>0, <1>5, OthersAside DEF Aside, PublishInv, LocalsInv
<1> QED
  BY <1>1, <1>2, <1>3, <1>4, <1>5

LEMMA HistoryNext ==
  PublishInv /\ [WorkbenchNext]_allVars => [History!Next]_(History!historyVars)
<1>1. ASSUME UNCHANGED allVars PROVE UNCHANGED History!historyVars
  BY <1>1 DEF allVars, vars, storeVars, History!historyVars
<1> QED
  BY <1>1, HistoryHandled DEF WorkbenchNext, WorkbenchQuiet, Served

\* However the requests interleave and whichever store calls fail, publishing
\* and withdrawing do what VersionHistory promises, and so no version is
\* rewritten and no number is past the count (VersionHistory_proofs).
THEOREM HistoryImplemented == WorkbenchSpec => HistorySpec
BY HistoryInit, HistoryNext, PublishInvHolds, PTL
   DEF WorkbenchSpec, HistorySpec, History!Spec
-----------------------------------------------------------------------------
(***************************************************************************)
(* What a step of one request leaves alone: the local variables of every   *)
(* other request, and what the tables held before.                         *)
(***************************************************************************)

IsArray(f) == f = [q \in Request |-> f[q]]

Arrays ==
  /\ IsArray(pc) /\ IsArray(outcome) /\ IsArray(listed) /\ IsArray(todo)
  /\ IsArray(req) /\ IsArray(row) /\ IsArray(rev) /\ IsArray(conf)
  /\ IsArray(target) /\ IsArray(snap) /\ IsArray(count) /\ IsArray(wd)
  /\ IsArray(pair) /\ IsArray(first) /\ IsArray(diff)
  /\ IsArray(into) /\ IsArray(batch)
  /\ IsArray(left) /\ IsArray(tally) /\ IsArray(floor)

\* The local variables of request q keep their values.
SameLocals(q) ==
  /\ pc'[q] = pc[q] /\ outcome'[q] = outcome[q]
  /\ listed'[q] = listed[q] /\ todo'[q] = todo[q]
  /\ req'[q] = req[q] /\ row'[q] = row[q] /\ rev'[q] = rev[q] /\ conf'[q] = conf[q]
  /\ target'[q] = target[q] /\ snap'[q] = snap[q] /\ count'[q] = count[q]
  /\ wd'[q] = wd[q]
  /\ pair'[q] = pair[q] /\ first'[q] = first[q] /\ diff'[q] = diff[q]
  /\ into'[q] = into[q] /\ batch'[q] = batch[q]
  /\ left'[q] = left[q] /\ tally'[q] = tally[q] /\ floor'[q] = floor[q]

\* g is f but perhaps for the entry of r.
Touched(f, g, r) == g = f \/ \E x : g = [f EXCEPT ![r] = x]

LEMMA TouchedEntry ==
  ASSUME NEW f, NEW g, NEW r \in Request, IsArray(f), Touched(f, g, r)
  PROVE  IsArray(g) /\ \A q \in Request \ {r} : g[q] = f[q]
<1>1. CASE g = f
  BY <1>1
<1>2. CASE \E x : g = [f EXCEPT ![r] = x]
  <2>1. PICK x : g = [f EXCEPT ![r] = x]
    BY <1>2
  <2>2. DOMAIN f = Request
    BY DEF IsArray
  <2> QED
    BY <2>1, <2>2 DEF IsArray
<1> QED
  BY <1>1, <1>2 DEF Touched

QaTouched(r) ==
  /\ Touched(pc, pc', r)
  /\ Touched(outcome, outcome', r)
  /\ Touched(listed, listed', r)
  /\ Touched(todo, todo', r)

EditTouched(r) ==
  /\ Touched(req, req', r)
  /\ Touched(row, row', r)
  /\ Touched(rev, rev', r)
  /\ Touched(conf, conf', r)

PublishTouched(r) ==
  /\ Touched(target, target', r)
  /\ Touched(snap, snap', r)
  /\ Touched(count, count', r)
  /\ Touched(wd, wd', r)

CompareTouched(r) ==
  /\ Touched(pair, pair', r)
  /\ Touched(first, first', r)
  /\ Touched(diff, diff', r)

IntakeTouched(r) ==
  /\ Touched(into, into', r)
  /\ Touched(batch, batch', r)

StatsTouched(r) ==
  /\ Touched(left, left', r)
  /\ Touched(tally, tally', r)
  /\ Touched(floor, floor', r)

LocalsTouched(r) ==
  /\ QaTouched(r)
  /\ EditTouched(r)
  /\ PublishTouched(r)
  /\ CompareTouched(r)
  /\ IntakeTouched(r)
  /\ StatsTouched(r)

LEMMA TouchedLocals ==
  ASSUME Arrays, NEW r \in Request, LocalsTouched(r)
  PROVE  Arrays' /\ \A q \in Request \ {r} : SameLocals(q)
<1> USE TouchedEntry
<1>1. /\ IsArray(pc') /\ \A q \in Request \ {r} : pc'[q] = pc[q]
      /\ IsArray(outcome') /\ \A q \in Request \ {r} : outcome'[q] = outcome[q]
      /\ IsArray(listed') /\ \A q \in Request \ {r} : listed'[q] = listed[q]
      /\ IsArray(todo') /\ \A q \in Request \ {r} : todo'[q] = todo[q]
  BY DEF Arrays, LocalsTouched, QaTouched
<1>2. /\ IsArray(req') /\ \A q \in Request \ {r} : req'[q] = req[q]
      /\ IsArray(row') /\ \A q \in Request \ {r} : row'[q] = row[q]
      /\ IsArray(rev') /\ \A q \in Request \ {r} : rev'[q] = rev[q]
      /\ IsArray(conf') /\ \A q \in Request \ {r} : conf'[q] = conf[q]
  BY DEF Arrays, LocalsTouched, EditTouched
<1>3. /\ IsArray(target') /\ \A q \in Request \ {r} : target'[q] = target[q]
      /\ IsArray(snap') /\ \A q \in Request \ {r} : snap'[q] = snap[q]
      /\ IsArray(count') /\ \A q \in Request \ {r} : count'[q] = count[q]
      /\ IsArray(wd') /\ \A q \in Request \ {r} : wd'[q] = wd[q]
  BY DEF Arrays, LocalsTouched, PublishTouched
<1>4. /\ IsArray(pair') /\ \A q \in Request \ {r} : pair'[q] = pair[q]
      /\ IsArray(first') /\ \A q \in Request \ {r} : first'[q] = first[q]
      /\ IsArray(diff') /\ \A q \in Request \ {r} : diff'[q] = diff[q]
  BY DEF Arrays, LocalsTouched, CompareTouched
<1>5. /\ IsArray(into') /\ \A q \in Request \ {r} : into'[q] = into[q]
      /\ IsArray(batch') /\ \A q \in Request \ {r} : batch'[q] = batch[q]
  BY DEF Arrays, LocalsTouched, IntakeTouched
<1>6. /\ IsArray(left') /\ \A q \in Request \ {r} : left'[q] = left[q]
      /\ IsArray(tally') /\ \A q \in Request \ {r} : tally'[q] = tally[q]
      /\ IsArray(floor') /\ \A q \in Request \ {r} : floor'[q] = floor[q]
  BY DEF Arrays, LocalsTouched, StatsTouched
<1>7. Arrays'
  BY <1>1, <1>2, <1>3, <1>4, <1>5, <1>6 DEF Arrays, IsArray
<1>8. \A q \in Request \ {r} : SameLocals(q)
  BY <1>1, <1>2, <1>3, <1>4, <1>5, <1>6 DEF SameLocals
<1> QED
  BY <1>7, <1>8

LEMMA LabelTouched ==
  ASSUME NEW r \in Request, NEW label,
         Goto(r, label) \/ \E answer : Reply(r, answer)
  PROVE  Touched(pc, pc', r) /\ Touched(outcome, outcome', r)
BY DEF Goto, Reply, Touched

LEMMA RecomputeTouched ==
  ASSUME NEW r \in Request, NEW m, NEW next, Recompute(r, m, next)
  PROVE  QaTouched(r)
<1>1. \/ UNCHANGED <<pc, outcome>>
      \/ \E label : Goto(r, label)
      \/ \E answer : Reply(r, answer)
  BY DEF Recompute, RecomputeListSegments, RecomputeListSpeakers, RecomputeDelete,
         RecomputeAdd, Return
<1>2. Touched(pc, pc', r) /\ Touched(outcome, outcome', r)
  BY <1>1, LabelTouched DEF Touched
<1>3. Touched(listed, listed', r) /\ Touched(todo, todo', r)
  BY DEF Recompute, RecomputeListSegments, RecomputeListSpeakers, RecomputeDelete,
         RecomputeAdd, Touched
<1> QED
  BY <1>2, <1>3 DEF QaTouched

LEMMA EditTouches ==
  ASSUME NEW r \in Request, EditStep(r)
  PROVE  QaTouched(r) /\ EditTouched(r)
<1>1. CASE EditRecompute(r)
  BY <1>1, RecomputeTouched DEF EditRecompute, editVars, EditTouched, Touched
<1>2. CASE ~EditRecompute(r)
  <2>1. UNCHANGED <<listed, todo>>
    BY <1>2 DEF EditStep, EditGetSegment, EditLastActor, EditAddConflict,
         EditMarkConflict, EditPatch, EditGetSpeaker, EditUpdateSegment,
         EditAddRevision, EditFail, Fail
  <2>2. (\E label : Goto(r, label)) \/ (\E answer : Reply(r, answer))
    BY <1>2 DEF EditStep, EditGetSegment, EditLastActor, EditAddConflict,
         EditMarkConflict, EditPatch, EditGetSpeaker, EditUpdateSegment,
         EditAddRevision, EditFail, Fail
  <2>3. EditTouched(r)
    BY <1>2 DEF EditStep, EditGetSegment, EditLastActor, EditAddConflict,
         EditMarkConflict, EditPatch, EditGetSpeaker, EditUpdateSegment,
         EditAddRevision, EditFail, editVars, EditTouched, Touched
  <2> QED
    BY <2>1, <2>2, <2>3, LabelTouched DEF QaTouched, Touched
<1> QED
  BY <1>1, <1>2

LEMMA PublishTouches ==
  ASSUME NEW r \in Request, PublishStep(r) \/ WithdrawStep(r)
  PROVE  QaTouched(r) /\ PublishTouched(r)
<1> USE DEF PublishStep, WithdrawStep, PublishGetMedia, PublishListSegments,
            PublishListSpeakers, PublishCount, PublishAddVersion, PublishMarkMedia,
            WithdrawGetVersion, WithdrawAddRecord, WithdrawMark
<1>1. UNCHANGED <<listed, todo>>
  OBVIOUS
<1>2. (\E label : Goto(r, label)) \/ (\E answer : Reply(r, answer))
  OBVIOUS
<1>3. PublishTouched(r)
  BY DEF publishVars, PublishTouched, Touched
<1> QED
  BY <1>1, <1>2, <1>3, LabelTouched DEF QaTouched, Touched

LEMMA CompareTouches ==
  ASSUME NEW r \in Request, CompareStep(r)
  PROVE  QaTouched(r) /\ CompareTouched(r)
<1> USE DEF CompareStep, CompareGetFirst, CompareGetSecond
<1>1. UNCHANGED <<listed, todo>>
  OBVIOUS
<1>2. (\E label : Goto(r, label)) \/ (\E answer : Reply(r, answer))
  OBVIOUS
<1>3. CompareTouched(r)
  BY DEF CompareTouched, Touched
<1> QED
  BY <1>1, <1>2, <1>3, LabelTouched DEF QaTouched, Touched

LEMMA IntakeTouches ==
  ASSUME NEW r \in Request,
         ImportStep(r) \/ MediaCreate(r) \/ SpeakerStep(r) \/ RecomputeStep(r)
  PROVE  QaTouched(r) /\ IntakeTouched(r)
<1>1. CASE Recompute(r, into[r], "done") /\ UNCHANGED intakeVars
  BY <1>1, RecomputeTouched DEF intakeVars, IntakeTouched, Touched
<1>2. CASE \/ ImportGetMedia(r) \/ ImportListSegments(r) \/ ImportCreateSegments(r)
           \/ MediaCreate(r) \/ SpeakerStep(r) \/ RecomputeGetMedia(r)
  <2> USE DEF ImportGetMedia, ImportListSegments, ImportCreateSegments, MediaCreate,
              SpeakerStep, SpeakerGetMedia, SpeakerCreate, RecomputeGetMedia
  <2>1. UNCHANGED <<listed, todo>>
    BY <1>2
  <2>2. (\E label : Goto(r, label)) \/ (\E answer : Reply(r, answer))
    BY <1>2
  <2>3. IntakeTouched(r)
    BY <1>2 DEF intakeVars, IntakeTouched, Touched
  <2> QED
    BY <2>1, <2>2, <2>3, LabelTouched DEF QaTouched, Touched
<1> QED
  BY <1>1, <1>2 DEF ImportStep, ImportRecompute, RecomputeStep

LEMMA StatsTouches ==
  ASSUME NEW r \in Request, StatsStep(r)
  PROVE  QaTouched(r) /\ StatsTouched(r)
<1> USE DEF StatsStep, StatsListMedia, StatsCountSegments, StatsCountVersions,
            CountTable
<1>1. UNCHANGED <<listed, todo>>
  OBVIOUS
<1>2. (\E label : Goto(r, label)) \/ (\E answer : Reply(r, answer))
  OBVIOUS
<1>3. Touched(left, left', r) /\ Touched(floor, floor', r)
  BY DEF Touched
<1>4. Touched(tally, tally', r)
  <2>1. \E column, n : Added(r, column, n)
    OBVIOUS
  <2> QED
    BY <2>1 DEF Added, Touched
<1> QED
  BY <1>1, <1>2, <1>3, <1>4, LabelTouched DEF QaTouched, StatsTouched, Touched

\* A handler touches the local variables of its own request only.
LEMMA HandledTouches ==
  ASSUME NEW r \in Request, Handled(r)
  PROVE  LocalsTouched(r)
<1> USE DEF LocalsTouched, EditTouched, PublishTouched, CompareTouched,
            IntakeTouched, StatsTouched, Touched, editVars, publishVars, compareVars,
            intakeVars, statsVars
<1>1. CASE EditRequested(r)
  BY <1>1, EditTouches DEF EditRequested
<1>2. CASE PublishRequested(r) \/ WithdrawRequested(r)
  BY <1>2, PublishTouches DEF PublishRequested, WithdrawRequested
<1>3. CASE CompareRequested(r)
  BY <1>3, CompareTouches DEF CompareRequested
<1>4. CASE ImportRequested(r) \/ MediaRequested(r) \/ SpeakerRequested(r)
             \/ RecomputeRequested(r)
  BY <1>4, IntakeTouches DEF ImportRequested, MediaRequested, SpeakerRequested,
                             RecomputeRequested
<1>5. CASE StatsRequested(r)
  BY <1>5, StatsTouches DEF StatsRequested
<1>6. CASE BodyRefused(r) \/ RequestFails(r)
  <2>1. /\ \E answer : Reply(r, answer)
        /\ UNCHANGED <<listed, todo, editVars, publishVars, compareVars, intakeVars,
                       statsVars>>
    BY <1>6 DEF BodyRefused, RequestFails, Fail
  <2> QED
    BY <2>1, LabelTouched DEF QaTouched
<1> QED
  BY <1>1, <1>2, <1>3, <1>4, <1>5, <1>6 DEF Handled

\* So the other requests keep theirs.
LEMMA OthersSame ==
  ASSUME Arrays, NEW r \in Request, Handled(r)
  PROVE  Arrays' /\ \A q \in Request \ {r} : SameLocals(q)
BY HandledTouches, TouchedLocals
-----------------------------------------------------------------------------
(***************************************************************************)
(* Who writes which table.                                                 *)
(***************************************************************************)

LEMMA RecomputeWrites ==
  ASSUME NEW r \in Request, NEW m, NEW next, Recompute(r, m, next)
  PROVE  /\ UNCHANGED <<media, speakers, segments, revisions, versions, withdrawals,
                        conflicts>>
         /\ quality' \subseteq quality
              \cup {[run |-> r, media |-> m, seg |-> f.seg, rule |-> f.rule] : f \in todo[r]}
BY DEF Recompute, RecomputeListSegments, RecomputeListSpeakers, RecomputeDelete,
       RecomputeAdd, DeleteQualityForMedia, AddQuality, storeVars

LEMMA EditWrites ==
  ASSUME NEW r \in Request, EditStep(r)
  PROVE  /\ UNCHANGED <<media, speakers, versions, withdrawals>>
         /\ segments' = segments \/ EditMarkConflict(r) \/ EditUpdateSegment(r)
         /\ revisions' = revisions \/ EditAddRevision(r)
         /\ conflicts' = conflicts \/ EditAddConflict(r)
         /\ quality' = quality \/ EditRecompute(r)
<1>1. CASE EditRecompute(r)
  BY <1>1, RecomputeWrites DEF EditRecompute
<1>2. CASE ~EditRecompute(r)
  BY <1>2 DEF EditStep, EditGetSegment, EditLastActor, EditAddConflict,
       EditMarkConflict, EditPatch, EditGetSpeaker, EditUpdateSegment, EditAddRevision,
       EditFail, Fail, AddConflict, UpdateSegmentStatus, UpdateSegment, AddRevision,
       storeVars
<1> QED
  BY <1>1, <1>2

LEMMA PublishWrites ==
  ASSUME NEW r \in Request, PublishStep(r) \/ WithdrawStep(r)
  PROVE  /\ UNCHANGED <<speakers, segments, revisions, quality, conflicts>>
         /\ media' = media \/ PublishMarkMedia(r)
         /\ versions' = versions \/ PublishAddVersion(r) \/ WithdrawMark(r)
         /\ withdrawals' = withdrawals \/ WithdrawAddRecord(r)
BY DEF PublishStep, WithdrawStep, PublishGetMedia, PublishListSegments,
       PublishListSpeakers, PublishCount, PublishAddVersion, PublishMarkMedia,
       WithdrawGetVersion, WithdrawAddRecord, WithdrawMark, UpdateMediaStatus,
       AddPublishVersion, AddWithdrawal, MarkWithdrawn, storeVars

LEMMA IntakeWrites ==
  ASSUME NEW r \in Request,
         ImportStep(r) \/ MediaCreate(r) \/ SpeakerStep(r) \/ RecomputeStep(r)
  PROVE  /\ UNCHANGED <<revisions, versions, withdrawals, conflicts>>
         /\ media' = media \/ MediaCreate(r)
         /\ speakers' = speakers \/ SpeakerCreate(r)
         /\ segments' = segments \/ ImportCreateSegments(r)
         /\ quality' = quality \/ Recompute(r, into[r], "done")
<1>1. CASE Recompute(r, into[r], "done")
  BY <1>1, RecomputeWrites
<1>2. CASE \/ ImportGetMedia(r) \/ ImportListSegments(r) \/ ImportCreateSegments(r)
           \/ MediaCreate(r) \/ SpeakerGetMedia(r) \/ SpeakerCreate(r)
           \/ RecomputeGetMedia(r)
  BY <1>2 DEF ImportGetMedia, ImportListSegments, ImportCreateSegments, MediaCreate,
       SpeakerGetMedia, SpeakerCreate, RecomputeGetMedia, CreateMedia, CreateSpeaker,
       CreateSegments, storeVars
<1> QED
  BY <1>1, <1>2 DEF ImportStep, ImportRecompute, RecomputeStep, SpeakerStep

\* Each table has its writers, and whoever does not write leaves it as it is.
LEMMA TableWriters ==
  ASSUME NEW r \in Request, Handled(r)
  PROVE  /\ \/ media' = media
            \/ kind[r] = "media" /\ MediaCreate(r)
            \/ kind[r] = "publish" /\ PublishMarkMedia(r)
         /\ \/ speakers' = speakers
            \/ SpeakerRequested(r) /\ SpeakerCreate(r)
         /\ \/ segments' = segments
            \/ kind[r] = "edit" /\ EditMarkConflict(r)
            \/ kind[r] = "edit" /\ EditUpdateSegment(r)
            \/ kind[r] = "import" /\ ImportCreateSegments(r)
         /\ \/ revisions' = revisions
            \/ kind[r] = "edit" /\ EditAddRevision(r)
         /\ \/ conflicts' = conflicts
            \/ kind[r] = "edit" /\ EditAddConflict(r)
         /\ \/ quality' = quality
            \/ kind[r] = "edit" /\ EditRecompute(r)
            \/ kind[r] \in {"import", "recompute"} /\ Recompute(r, into[r], "done")
         /\ \/ versions' = versions
            \/ kind[r] = "publish" /\ PublishAddVersion(r)
            \/ kind[r] = "withdraw" /\ WithdrawMark(r)
         /\ \/ withdrawals' = withdrawals
            \/ kind[r] = "withdraw" /\ WithdrawAddRecord(r)
<1>1. CASE EditRequested(r)
  BY <1>1, EditWrites DEF EditRequested
<1>2. CASE PublishRequested(r)
  <2>1. ~WithdrawMark(r) /\ ~WithdrawAddRecord(r)
    BY <1>2 DEF PublishRequested, PublishStep, PublishGetMedia, PublishListSegments,
         PublishListSpeakers, PublishCount, PublishAddVersion, PublishMarkMedia,
         WithdrawMark, WithdrawAddRecord
  <2> QED
    BY <1>2, <2>1, PublishWrites DEF PublishRequested
<1>3. CASE WithdrawRequested(r)
  <2>1. ~PublishMarkMedia(r) /\ ~PublishAddVersion(r)
    BY <1>3 DEF WithdrawRequested, WithdrawStep, WithdrawGetVersion, WithdrawMark,
         WithdrawAddRecord, PublishAddVersion, PublishMarkMedia
  <2> QED
    BY <1>3, <2>1, PublishWrites DEF WithdrawRequested
<1>4. CASE ImportRequested(r)
  <2>1. UNCHANGED <<media, speakers>>
    BY <1>4, RecomputeWrites
       DEF ImportRequested, ImportStep, ImportGetMedia, ImportListSegments,
           ImportCreateSegments, ImportRecompute, CreateSegments, storeVars
  <2> QED
    BY <1>4, <2>1, IntakeWrites DEF ImportRequested
<1>5. CASE MediaRequested(r)
  BY <1>5 DEF MediaRequested, MediaCreate, CreateMedia, storeVars
<1>6. CASE SpeakerRequested(r)
  BY <1>6 DEF SpeakerRequested, SpeakerStep, SpeakerGetMedia, SpeakerCreate,
              CreateSpeaker, storeVars
<1>7. CASE RecomputeRequested(r)
  BY <1>7, RecomputeWrites DEF RecomputeRequested, RecomputeStep, RecomputeGetMedia,
                               storeVars
<1>8. CASE CompareRequested(r) \/ StatsRequested(r) \/ BodyRefused(r) \/ RequestFails(r)
  BY <1>8 DEF CompareRequested, CompareStep, CompareGetFirst, CompareGetSecond,
       StatsRequested, StatsStep, StatsListMedia, StatsCountSegments,
       StatsCountVersions, CountTable, BodyRefused, RequestFails, Fail, storeVars
<1> QED
  BY <1>1, <1>2, <1>3, <1>4, <1>5, <1>6, <1>7, <1>8 DEF Handled

-----------------------------------------------------------------------------
(***************************************************************************)
(* The rows of a batch: the rank of a rowid among those inserted together. *)
(***************************************************************************)

Rank(ids, s) == Cardinality({t \in ids : t <= s})

\* Counting up to each of finitely many numbers enumerates them.
LEMMA RankEnumerates ==
  ASSUME NEW ids \in SUBSET Nat, IsFiniteSet(ids)
  PROVE  /\ \A s \in ids : Rank(ids, s) \in 1..Cardinality(ids)
         /\ \A s, t \in ids : Rank(ids, s) = Rank(ids, t) => s = t
         /\ \A i \in 1..Cardinality(ids) : \E s \in ids : Rank(ids, s) = i
<1> DEFINE Upto(s) == {t \in ids : t <= s}
           n == Cardinality(ids)
           rank == [s \in ids |-> Rank(ids, s)]
<1>1. n \in Nat
  BY FS_CardinalityType
<1>2. \A s \in ids : /\ IsFiniteSet(Upto(s))
                     /\ Rank(ids, s) \in Nat
                     /\ Rank(ids, s) <= n
  <2> TAKE s \in ids
  <2>1. Upto(s) \in SUBSET ids
    OBVIOUS
  <2>2. IsFiniteSet(Upto(s)) /\ Cardinality(Upto(s)) <= n
    BY <2>1, FS_Subset
  <2>3. Cardinality(Upto(s)) \in Nat
    BY <2>2, FS_CardinalityType
  <2> QED
    BY <2>2, <2>3 DEF Rank
<1>3. ASSUME NEW s \in ids, NEW t \in ids, s < t
      PROVE  Rank(ids, s) < Rank(ids, t)
  <2>0. s \in Nat /\ t \in Nat
    OBVIOUS
  <2>1. Upto(s) \in SUBSET Upto(t)
    <3>1. ASSUME NEW x \in ids, x <= s PROVE x <= t
      <4>1. x \in Nat
        OBVIOUS
      <4> QED
        BY <1>3, <2>0, <3>1, <4>1
    <3> QED
      BY <3>1
  <2>2. t \in Upto(t) /\ t \notin Upto(s)
    BY <1>3, <2>0
  <2>3. Cardinality(Upto(s)) <= Cardinality(Upto(t))
    BY <1>2, <2>1, FS_Subset
  <2>4. Cardinality(Upto(s)) # Cardinality(Upto(t))
    BY <1>2, <2>1, <2>2, FS_Subset
  <2> QED
    BY <1>2, <2>3, <2>4 DEF Rank
<1>4. \A s \in ids : Rank(ids, s) # 0
  <2> TAKE s \in ids
  <2>1. Upto(s) # {}
    OBVIOUS
  <2> QED
    BY <1>2, <2>1, FS_EmptySet DEF Rank
<1>5. ASSUME NEW s \in ids PROVE Rank(ids, s) \in 1..n
  <2>1. Rank(ids, s) \in Nat /\ Rank(ids, s) <= n /\ Rank(ids, s) # 0
    BY <1>2, <1>4
  <2> HIDE DEF n
  <2> QED
    BY <1>1, <2>1
<1>6. ASSUME NEW s \in ids, NEW t \in ids, Rank(ids, s) = Rank(ids, t)
      PROVE  s = t
  <2>1. Rank(ids, s) \in Nat /\ s \in Nat /\ t \in Nat
    BY <1>2
  <2>2. ~(s < t) /\ ~(t < s)
    BY <1>3, <1>6, <2>1
  <2> QED
    BY <2>1, <2>2
<1>7. ASSUME NEW i \in 1..n PROVE \E s \in ids : Rank(ids, s) = i
  <2>1. rank \in Injection(ids, 1..n)
    BY <1>5, <1>6 DEF Injection, IsInjective
  <2>2. IsFiniteSet(1..n) /\ Cardinality(1..n) = n
    BY <1>1, FS_Interval
  <2>3. rank \in Surjection(ids, 1..n)
    BY <2>1, <2>2, FS_Injection
  <2> QED
    BY <2>3 DEF Surjection
<1> QED
  BY <1>5, <1>6, <1>7
-----------------------------------------------------------------------------
(***************************************************************************)
(* How a handler moves on.                                                 *)
(***************************************************************************)

Label == EditPC \cup PublishPC \cup WithdrawPC \cup ComparePC \cup IntakePC
           \cup StatsPC

\* The request is turned away, or fails, and leaves everything as it is.
Refused(r) ==
  /\ Reply(r, "invalid") \/ Reply(r, "error")
  /\ UNCHANGED <<storeVars, listed, todo, editVars, publishVars, compareVars,
                 intakeVars, statsVars>>

\* A request is served by the handler of its kind.
LEMMA ServedByKind ==
  ASSUME NEW r \in Request, Handled(r)
  PROVE  \/ Refused(r)
         \/ kind[r] = "edit" /\ EditRequested(r)
         \/ kind[r] = "publish" /\ PublishRequested(r)
         \/ kind[r] = "withdraw" /\ WithdrawRequested(r)
         \/ kind[r] = "compare" /\ CompareRequested(r)
         \/ kind[r] = "import" /\ ImportRequested(r)
         \/ kind[r] = "media" /\ MediaRequested(r)
         \/ kind[r] = "speaker" /\ SpeakerRequested(r)
         \/ kind[r] = "recompute" /\ RecomputeRequested(r)
         \/ kind[r] = "stats" /\ StatsRequested(r)
BY DEF Handled, BodyRefused, RequestFails, Fail, Refused, EditRequested,
       PublishRequested, WithdrawRequested, CompareRequested, ImportRequested,
       MediaRequested, SpeakerRequested, RecomputeRequested, StatsRequested

\* The step of r leads to another call, or to the answer.
MovesOn(r) ==
  /\ pc[r] # "done"
  /\ \/ pc'[r] \in Label \ {"new", "done"} /\ outcome'[r] = outcome[r]
     \/ pc'[r] = "done" /\ outcome'[r] \in Outcome

LEMMA GotoMoves ==
  ASSUME Arrays, NEW r \in Request, NEW label \in Label \ {"new", "done"},
         Goto(r, label), pc[r] # "done"
  PROVE  MovesOn(r)
BY DEF Arrays, IsArray, Goto, MovesOn

LEMMA ReplyMoves ==
  ASSUME Arrays, NEW r \in Request, NEW answer \in Outcome, Reply(r, answer),
         pc[r] # "done"
  PROVE  MovesOn(r)
BY DEF Arrays, IsArray, Reply, MovesOn

LEMMA RecomputeMoves ==
  ASSUME Arrays, NEW r \in Request, NEW m, NEW next \in {"done", "list_segments"},
         Recompute(r, m, next)
  PROVE  MovesOn(r) /\ pc[r] \in QualityPC /\ pc'[r] \in QualityPC \cup {"done"}
<1> USE GotoMoves, ReplyMoves DEF Label, EditPC, QualityPC, Outcome
<1>1. CASE RecomputeListSegments(r, m) \/ RecomputeListSpeakers(r, m)
  BY <1>1 DEF RecomputeListSegments, RecomputeListSpeakers, Arrays, IsArray, Goto
<1>2. CASE Return(r, next) /\ pc[r] \in QualityPC
  BY <1>2 DEF Return, Arrays, IsArray, Goto, Reply
<1>3. CASE UNCHANGED <<pc, outcome>> /\ pc[r] = "add_quality"
  BY <1>3 DEF MovesOn
<1>4. CASE Goto(r, "add_quality") /\ pc[r] = "delete_quality"
  BY <1>4 DEF Arrays, IsArray, Goto
<1> QED
  BY <1>1, <1>2, <1>3, <1>4 DEF Recompute, RecomputeDelete, RecomputeAdd

LEMMA EditMoves ==
  ASSUME Arrays, NEW r \in Request, EditStep(r)
  PROVE  MovesOn(r)
<1> USE GotoMoves, ReplyMoves DEF Label, EditPC, QualityPC, Outcome
<1>1. CASE EditRecompute(r)
  BY <1>1, RecomputeMoves DEF EditRecompute
<1>2. CASE EditFail(r)
  BY <1>2 DEF EditFail, Fail
<1>3. CASE EditGetSegment(r)
  BY <1>3 DEF EditGetSegment
<1>4. CASE EditPatch(r)
  BY <1>4 DEF EditPatch
<1>5. CASE ~(EditRecompute(r) \/ EditFail(r) \/ EditGetSegment(r) \/ EditPatch(r))
  BY <1>5 DEF EditStep, EditLastActor, EditAddConflict, EditMarkConflict,
              EditGetSpeaker, EditUpdateSegment, EditAddRevision
<1> QED
  BY <1>1, <1>2, <1>3, <1>4, <1>5

LEMMA PublishMoves ==
  ASSUME Arrays, NEW r \in Request, PublishStep(r) \/ WithdrawStep(r)
  PROVE  MovesOn(r)
<1> USE GotoMoves, ReplyMoves DEF Label, PublishPC, WithdrawPC, Outcome
<1>1. CASE PublishGetMedia(r)
  BY <1>1 DEF PublishGetMedia
<1>2. CASE WithdrawGetVersion(r)
  BY <1>2 DEF WithdrawGetVersion
<1>3. CASE ~(PublishGetMedia(r) \/ WithdrawGetVersion(r))
  BY <1>3 DEF PublishStep, WithdrawStep, PublishListSegments, PublishListSpeakers,
              PublishCount, PublishAddVersion, PublishMarkMedia, WithdrawAddRecord,
              WithdrawMark
<1> QED
  BY <1>1, <1>2, <1>3

LEMMA CompareMoves ==
  ASSUME Arrays, NEW r \in Request, CompareStep(r)
  PROVE  MovesOn(r)
BY GotoMoves, ReplyMoves
   DEF Label, ComparePC, Outcome, CompareStep, CompareGetFirst, CompareGetSecond

LEMMA IntakeMoves ==
  ASSUME Arrays, NEW r \in Request,
         ImportStep(r) \/ MediaCreate(r) \/ SpeakerStep(r) \/ RecomputeStep(r)
  PROVE  MovesOn(r)
<1> USE GotoMoves, ReplyMoves DEF Label, IntakePC, EditPC, QualityPC, Outcome
<1>1. CASE Recompute(r, into[r], "done")
  BY <1>1, RecomputeMoves
<1>2. CASE ImportGetMedia(r) \/ SpeakerGetMedia(r) \/ RecomputeGetMedia(r)
  BY <1>2 DEF ImportGetMedia, SpeakerGetMedia, RecomputeGetMedia
<1>3. CASE ImportListSegments(r) \/ ImportCreateSegments(r) \/ MediaCreate(r)
             \/ SpeakerCreate(r)
  BY <1>3 DEF ImportListSegments, ImportCreateSegments, MediaCreate, SpeakerCreate
<1> QED
  BY <1>1, <1>2, <1>3 DEF ImportStep, ImportRecompute, SpeakerStep, RecomputeStep

LEMMA StatsMoves ==
  ASSUME Arrays, NEW r \in Request, StatsStep(r)
  PROVE  MovesOn(r)
<1> USE GotoMoves, ReplyMoves DEF Label, StatsPC, Outcome
<1>1. /\ pc[r] # "done"
      /\ (\E label \in StatsPC : Goto(r, label)) \/ Reply(r, "ok")
  BY DEF StatsStep, StatsListMedia, StatsCountSegments, StatsCountVersions, CountTable
<1> QED
  BY <1>1

LEMMA HandledMoves ==
  ASSUME Arrays, NEW r \in Request, Handled(r)
  PROVE  MovesOn(r)
<1>1. CASE BodyRefused(r) \/ RequestFails(r)
  BY <1>1, ReplyMoves DEF BodyRefused, RequestFails, Fail, Outcome
<1>2. CASE ~(BodyRefused(r) \/ RequestFails(r))
  BY <1>2, EditMoves, PublishMoves, CompareMoves, IntakeMoves, StatsMoves
     DEF Handled, EditRequested, PublishRequested, WithdrawRequested, CompareRequested,
         ImportRequested, MediaRequested, SpeakerRequested, RecomputeRequested,
         StatsRequested
<1> QED
  BY <1>1, <1>2
-----------------------------------------------------------------------------
(***************************************************************************)
(* Type correctness.                                                       *)
(***************************************************************************)

\* What every request holds.
TypedLocals(r) ==
  /\ pc[r] \in Label
  /\ outcome[r] \in Outcome \cup {None}
  /\ pc[r] # "done" => outcome[r] = None
  /\ todo[r] \subseteq Finding
  /\ pc[r] = "list_speakers" => IsRows(listed[r])
  /\ target[r] \in Media \cup {None}
  /\ snap[r] = [status |-> snap[r].status, segments |-> snap[r].segments,
                speakers |-> snap[r].speakers]
  /\ count[r] \in Nat
  /\ wd[r] \in Withdrawal \cup {None}
  /\ into[r] \in Media \cup {None}

\* Two images of one line: no edit moves a line.
SamePlace(a, b) == a.media = b.media /\ a.idx = b.idx

HeldEdit(r) ==
  /\ LocalsOK(r)
  /\ pc[r] \in Editing => SamePlace(row[r], segments[req[r].seg])

HeldPublish(r) ==
  /\ pc[r] \in PublishPC => target[r] \in Media /\ snap[r].status \in MediaStatus
  /\ pc[r] \in {"pub_list_speakers", "count_versions", "add_version"}
       => IsRows(snap[r].segments)
  /\ pc[r] \in {"count_versions", "add_version"} => snap[r].speakers \subseteq Speaker

HeldWithdraw(r) == pc[r] \in WithdrawPC => wd[r] \in Withdrawal

HeldIntake(r) ==
  /\ pc[r] \notin {"new", "done"} => into[r] \in Media
  /\ kind[r] = "import" /\ pc[r] \notin {"new", "done"} => batch[r] \in Batches
  /\ pc[r] = "create_segments" =>
       \A i \in DOMAIN batch[r] : batch[r][i].idx >= 0 /\ batch[r][i].start < batch[r][i].end

Held(r) ==
  /\ TypedLocals(r)
  /\ kind[r] = "edit" => HeldEdit(r)
  /\ kind[r] = "publish" => HeldPublish(r)
  /\ kind[r] = "withdraw" => HeldWithdraw(r)
  /\ kind[r] \in {"import", "speaker", "recompute"} => HeldIntake(r)

TablesTyped ==
  /\ TablesOK
  /\ now \in Nat
  /\ versions = [v \in DOMAIN versions |-> versions[v]]
  /\ \A v \in DOMAIN versions : v \in Request /\ kind[v] = "publish"
  /\ \A v \in DOMAIN versions : IsVersion(versions[v])
  /\ withdrawals \subseteq Withdrawal

TypeInv ==
  /\ Arrays
  /\ TablesTyped
  /\ \A r \in Request : Held(r)

LEMMA TypeInvInit == WorkbenchInit => TypeInv
<1> SUFFICES ASSUME WorkbenchInit PROVE TypeInv
  OBVIOUS
<1>1. EditInit /\ PublishInit /\ CompareInit /\ IntakeInit /\ StatsInit
  BY DEF WorkbenchInit
<1>2. TypeOK
  BY <1>1, InitType
<1>3. Arrays
  BY <1>1 DEF EditInit, QualityInit, PublishInit, CompareInit, IntakeInit, StatsInit,
              Arrays, IsArray
<1>4. TablesTyped
  BY <1>1, <1>2 DEF EditInit, TypeOK, TablesTyped
<1>5. ASSUME NEW r \in Request PROVE Held(r)
  <2>1. pc[r] = "new" /\ outcome[r] = None
    BY <1>1 DEF EditInit, QualityInit
  <2>2. TypedLocals(r)
    BY <1>1, <2>1 DEF EditInit, QualityInit, PublishInit, IntakeInit, TypedLocals,
                      Label, EditPC
  <2>3. HeldEdit(r) /\ HeldPublish(r) /\ HeldWithdraw(r) /\ HeldIntake(r)
    BY <2>1 DEF HeldEdit, LocalsOK, Editing, EditPC, QualityPC, HeldPublish, PublishPC,
                HeldWithdraw, WithdrawPC, HeldIntake
  <2> QED
    BY <2>2, <2>3 DEF Held
<1> QED
  BY <1>3, <1>4, <1>5 DEF TypeInv

-----------------------------------------------------------------------------
\* Recompute, or none of its calls.
LEMMA RecomputeTyped ==
  ASSUME Arrays, TablesTyped, NEW r \in Request, Held(r), NEW m,
         NEW next \in {"done", "list_segments"}, Recompute(r, m, next)
  PROVE  /\ todo'[r] \subseteq Finding
         /\ pc'[r] = "list_speakers" => IsRows(listed'[r])
<1> USE DEF Arrays, IsArray
<1>1. todo[r] \subseteq Finding /\ (pc[r] = "list_speakers" => IsRows(listed[r]))
  BY DEF Held, TypedLocals
<1>2. CASE RecomputeListSegments(r, m)
  <2>1. IsRows(ListSegments(m))
    BY ListSegmentsType DEF TablesTyped, TablesOK
  <2>2. listed'[r] = ListSegments(m) /\ UNCHANGED todo
    BY <1>2 DEF RecomputeListSegments
  <2> QED
    BY <1>1, <2>1, <2>2
<1>3. CASE RecomputeListSpeakers(r, m)
  BY <1>1, <1>3, AnalyzeType DEF RecomputeListSpeakers, Goto
<1>4. CASE RecomputeDelete(r, m, next) \/ RecomputeAdd(r, m, next)
  <2>1. todo'[r] \subseteq todo[r]
    <3>1. CASE UNCHANGED todo
      BY <3>1
    <3>2. CASE \E f \in todo[r] : todo' = [todo EXCEPT ![r] = @ \ {f}]
      BY <3>2
    <3> QED
      BY <1>4, <3>1, <3>2 DEF RecomputeDelete, RecomputeAdd
  <2>2. pc'[r] # "list_speakers"
    BY <1>4 DEF RecomputeDelete, RecomputeAdd, Return, Goto, Reply
  <2> QED
    BY <1>1, <2>1, <2>2
<1> QED
  BY <1>2, <1>3, <1>4 DEF Recompute

LEMMA RecomputeOrNot ==
  ASSUME Arrays, NEW r \in Request, Handled(r)
  PROVE  \/ \E m : Recompute(r, m, "done")
         \/ /\ UNCHANGED <<listed, todo>>
            /\ pc'[r] \notin {"list_speakers", "delete_quality", "add_quality"}
<1> USE DEF Arrays, IsArray, Goto, Reply
<1>1. CASE BodyRefused(r) \/ RequestFails(r)
  BY <1>1 DEF BodyRefused, RequestFails, Fail
<1>2. CASE EditRequested(r)
  BY <1>2 DEF EditRequested, EditStep, EditGetSegment, EditLastActor, EditAddConflict,
              EditMarkConflict, EditPatch, EditGetSpeaker, EditUpdateSegment,
              EditAddRevision, EditRecompute, EditFail, Fail
<1>3. CASE PublishRequested(r) \/ WithdrawRequested(r)
  BY <1>3 DEF PublishRequested, WithdrawRequested, PublishStep, WithdrawStep,
              PublishGetMedia, PublishListSegments, PublishListSpeakers, PublishCount,
              PublishAddVersion, PublishMarkMedia, WithdrawGetVersion,
              WithdrawAddRecord, WithdrawMark
<1>4. CASE CompareRequested(r)
  BY <1>4 DEF CompareRequested, CompareStep, CompareGetFirst, CompareGetSecond
<1>5. CASE ImportRequested(r) \/ RecomputeRequested(r)
  BY <1>5 DEF ImportRequested, ImportStep, ImportGetMedia, ImportListSegments,
              ImportCreateSegments, ImportRecompute, RecomputeRequested, RecomputeStep,
              RecomputeGetMedia
<1>6. CASE MediaRequested(r) \/ SpeakerRequested(r)
  BY <1>6 DEF MediaRequested, MediaCreate, SpeakerRequested, SpeakerStep,
              SpeakerGetMedia, SpeakerCreate
<1>7. CASE StatsRequested(r)
  <2>1. UNCHANGED <<listed, todo>>
    BY <1>7 DEF StatsRequested, StatsStep, StatsListMedia, StatsCountSegments,
                StatsCountVersions, CountTable
  <2>2. (\E label \in StatsPC : Goto(r, label)) \/ Reply(r, "ok")
    BY <1>7 DEF StatsRequested, StatsStep, StatsListMedia, StatsCountSegments,
                StatsCountVersions, CountTable, StatsPC
  <2> QED
    BY <2>1, <2>2 DEF StatsPC
<1> QED
  BY <1>1, <1>2, <1>3, <1>4, <1>5, <1>6, <1>7 DEF Handled
-----------------------------------------------------------------------------
\* The rows of a batch that was found acceptable.
LEMMA BatchRows ==
  ASSUME NEW m \in Media, NEW b \in Batches, NEW ids \in SUBSET Segment,
         Cardinality(ids) = Len(b),
         \A i \in DOMAIN b : b[i].idx >= 0
  PROVE  /\ DOMAIN Numbered(ids, m, b) = ids
         /\ \A s \in ids : /\ Rank(ids, s) \in DOMAIN b
                           /\ Numbered(ids, m, b)[s] = NewRow(m, b[Rank(ids, s)])
                           /\ Numbered(ids, m, b)[s] \in Row
<1> DEFINE In == [idx : Int, start : Int, end : Int, text : Text,
                  speaker : Speaker \cup {NoSpeaker}, desc : BOOLEAN]
<1>1. b \in Seq(In)
  BY IntakeAssumption
<1>2. DOMAIN b = 1..Len(b) /\ \A i \in DOMAIN b : b[i] \in In
  <2> HIDE DEF In
  <2> QED
    BY <1>1
<1>3. ids \in SUBSET Nat /\ IsFiniteSet(ids)
  BY StoreAssumption, FS_Subset
<1>4. ASSUME NEW s \in ids PROVE Rank(ids, s) \in DOMAIN b
  BY <1>2, <1>3, RankEnumerates
<1>5. ASSUME NEW s \in ids
      PROVE  Numbered(ids, m, b)[s] = NewRow(m, b[Rank(ids, s)])
  BY DEF Numbered, Rank
<1>6. ASSUME NEW i \in DOMAIN b PROVE NewRow(m, b[i]) \in Row
  <2>1. b[i] \in In /\ b[i].idx >= 0
    BY <1>2
  <2>2. b[i].idx \in Nat
    BY <2>1
  <2> QED
    BY <2>1, <2>2 DEF NewRow, Row, SegmentStatus
<1> QED
  BY <1>4, <1>5, <1>6 DEF Numbered

\* An import takes rowids nobody has.
LEMMA RowidsFree ==
  ASSUME NEW n, NEW s \in NextRowids(n)
  PROVE  s \in Segment /\ segments[s] = None
<1>1. s \in Nat /\ s \in Segment
  BY StoreAssumption DEF NextRowids
<1>2. \A t \in Segment : segments[t] # None => t < s
  BY DEF NextRowids
<1> QED
  BY <1>1, <1>2

\* The rows ids, free before, are those of r's batch.
Inserted(r, ids) ==
  /\ Cardinality(ids) = Len(batch[r])
  /\ \A s \in ids : /\ segments[s] = None
                    /\ Rank(ids, s) \in DOMAIN batch[r]
                    /\ segments'[s] = NewRow(into[r], batch[r][Rank(ids, s)])
                    /\ segments'[s] \in Row
  /\ \A s \in Segment \ ids : segments'[s] = segments[s]
  /\ DOMAIN segments' = Segment

LEMMA ImportWrites ==
  ASSUME TypeInv, NEW r \in Request, kind[r] = "import", ImportCreateSegments(r)
  PROVE  \E ids \in SUBSET Segment : Inserted(r, ids)
<1> DEFINE ids == NextRowids(Len(batch[r]))
           rows == Numbered(ids, into[r], batch[r])
<1>1. /\ pc[r] = "create_segments"
      /\ Cardinality(ids) = Len(batch[r])
      /\ CreateSegments(rows)
  BY DEF ImportCreateSegments
<1>2. /\ into[r] \in Media
      /\ batch[r] \in Batches
      /\ \A i \in DOMAIN batch[r] : batch[r][i].idx >= 0
  BY <1>1 DEF TypeInv, Held, HeldIntake
<1>3. ids \in SUBSET Segment /\ \A s \in ids : segments[s] = None
  BY RowidsFree
<1> HIDE DEF ids
<1>4. /\ DOMAIN rows = ids
      /\ \A s \in ids : /\ Rank(ids, s) \in DOMAIN batch[r]
                        /\ rows[s] = NewRow(into[r], batch[r][Rank(ids, s)])
                        /\ rows[s] \in Row
  BY <1>1, <1>2, <1>3, BatchRows
<1> HIDE DEF rows
<1>5. segments' = [s \in Segment |-> IF s \in ids THEN rows[s] ELSE segments[s]]
  BY <1>1, <1>4 DEF CreateSegments
<1>6. /\ \A s \in ids : segments'[s] = rows[s]
      /\ \A s \in Segment \ ids : segments'[s] = segments[s]
      /\ DOMAIN segments' = Segment
  BY <1>3, <1>5
<1> QED
  BY <1>1, <1>3, <1>4, <1>6 DEF Inserted

-----------------------------------------------------------------------------
\* Nothing in the tables goes away, but findings; lines keep their place,
\* versions what they froze.
Grow ==
  /\ \A s \in Segment : segments[s] # None =>
       segments'[s] # None /\ SamePlace(segments'[s], segments[s])
  /\ \A m \in Media : media[m] # None => media'[m] # None
  /\ \A m \in Media : media[m] = "published" => media'[m] = "published"
  /\ \A p \in Speaker : speakers[p] # None => speakers'[p] = speakers[p]
  /\ revisions \subseteq revisions'
  /\ conflicts \subseteq conflicts'
  /\ withdrawals \subseteq withdrawals'
  /\ \A v \in DOMAIN versions :
       /\ v \in DOMAIN versions'
       /\ versions'[v].media = versions[v].media
       /\ versions'[v].no = versions[v].no
       /\ versions'[v].snap = versions[v].snap
       /\ versions[v].withdrawn => versions'[v].withdrawn

LEMMA SegmentsTyped ==
  ASSUME TypeInv, NEW r \in Request, Handled(r)
  PROVE  /\ segments' \in [Segment -> Row \cup {None}]
         /\ \A s \in Segment : segments[s] # None =>
              segments'[s] # None /\ SamePlace(segments'[s], segments[s])
<1>1. segments \in [Segment -> Row \cup {None}]
  BY DEF TypeInv, TablesTyped, TablesOK
<1>2. CASE segments' = segments
  BY <1>1, <1>2 DEF SamePlace
<1>3. CASE kind[r] = "edit" /\ (EditMarkConflict(r) \/ EditUpdateSegment(r))
  <2>1. HeldEdit(r) /\ pc[r] \in Editing
    BY <1>3 DEF TypeInv, Held, EditMarkConflict, EditUpdateSegment, Editing, EditPC
  <2>2. /\ req[r].seg \in Segment
        /\ segments[req[r].seg] \in Row
        /\ row[r] \in Row
        /\ SamePlace(row[r], segments[req[r].seg])
    BY <2>1 DEF HeldEdit, LocalsOK, EditRequest
  <2>3. CASE EditUpdateSegment(r)
    BY <1>1, <2>2, <2>3, EditAssumption DEF EditUpdateSegment, UpdateSegment, SamePlace
  <2>4. CASE EditMarkConflict(r)
    <3> DEFINE marked == [segments[req[r].seg] EXCEPT !.status = "conflict"]
    <3>1. marked \in Row /\ SamePlace(marked, segments[req[r].seg])
      BY <2>2 DEF Row, SegmentStatus, SamePlace
    <3>2. segments' = segments \/ segments' = [segments EXCEPT ![req[r].seg] = marked]
      BY <2>4 DEF EditMarkConflict, UpdateSegmentStatus, storeVars
    <3> HIDE DEF marked
    <3> QED
      BY <1>1, <2>2, <3>1, <3>2, EditAssumption DEF SamePlace
  <2> QED
    BY <1>3, <2>3, <2>4
<1>4. CASE kind[r] = "import" /\ ImportCreateSegments(r)
  <2>1. PICK ids \in SUBSET Segment : Inserted(r, ids)
    BY <1>4, ImportWrites
  <2>2. segments' = [s \in Segment |-> segments'[s]]
    BY <1>4 DEF ImportCreateSegments, CreateSegments
  <2> QED
    BY <1>1, <2>1, <2>2 DEF Inserted, SamePlace
<1> QED
  BY <1>2, <1>3, <1>4, TableWriters

LEMMA MediaTyped ==
  ASSUME TypeInv, NEW r \in Request, Handled(r)
  PROVE  /\ media' \in [Media -> MediaStatus \cup {None}]
         /\ \A m \in Media : media[m] # None => media'[m] # None
         /\ \A m \in Media : media[m] = "published" => media'[m] = "published"
<1>1. media \in [Media -> MediaStatus \cup {None}]
  BY DEF TypeInv, TablesTyped, TablesOK
<1>2. CASE media' = media
  BY <1>1, <1>2
<1>3. CASE kind[r] = "media" /\ MediaCreate(r)
  <2>1. media' = media \/ \E m \in Media : media[m] = None /\ media' = [media EXCEPT ![m] = "draft"]
    BY <1>3 DEF MediaCreate, GetMedia, CreateMedia, storeVars
  <2> QED
    BY <1>1, <2>1, StatusAssumption DEF MediaStatus
<1>4. CASE kind[r] = "publish" /\ PublishMarkMedia(r)
  <2>1. media' = [media EXCEPT ![target[r]] = "published"]
    BY <1>4 DEF PublishMarkMedia, UpdateMediaStatus
  <2> QED
    BY <1>1, <2>1, StatusAssumption DEF MediaStatus
<1> QED
  BY <1>2, <1>3, <1>4, TableWriters

LEMMA SpeakersTyped ==
  ASSUME TypeInv, NEW r \in Request, Handled(r)
  PROVE  /\ speakers' \in [Speaker -> Media \cup {None}]
         /\ \A p \in Speaker : speakers[p] # None => speakers'[p] = speakers[p]
<1>1. speakers \in [Speaker -> Media \cup {None}]
  BY DEF TypeInv, TablesTyped, TablesOK
<1>2. CASE speakers' = speakers
  BY <1>1, <1>2
<1>3. CASE SpeakerRequested(r) /\ SpeakerCreate(r)
  <2>1. into[r] \in Media
    BY <1>3 DEF TypeInv, Held, HeldIntake, SpeakerRequested, SpeakerCreate
  <2>2. \E p \in Speaker : speakers[p] = None /\ speakers' = [speakers EXCEPT ![p] = into[r]]
    BY <1>3 DEF SpeakerCreate, CreateSpeaker
  <2> QED
    BY <1>1, <2>1, <2>2
<1> QED
  BY <1>2, <1>3, TableWriters

LEMMA RevisionsTyped ==
  ASSUME TypeInv, NEW r \in Request, Handled(r)
  PROVE  revisions' \subseteq Revision /\ revisions \subseteq revisions'
<1>1. revisions \subseteq Revision
  BY DEF TypeInv, TablesTyped, TablesOK
<1>2. CASE revisions' = revisions
  BY <1>1, <1>2
<1>3. CASE kind[r] = "edit" /\ EditAddRevision(r)
  <2>1. rev[r] \in Revision
    BY <1>3 DEF TypeInv, Held, HeldEdit, LocalsOK, EditAddRevision
  <2> QED
    BY <1>1, <1>3, <2>1 DEF EditAddRevision, AddRevision
<1> QED
  BY <1>2, <1>3, TableWriters

LEMMA ConflictsTyped ==
  ASSUME TypeInv, NEW r \in Request, Handled(r)
  PROVE  conflicts' \subseteq Conflict /\ conflicts \subseteq conflicts'
<1>1. conflicts \subseteq Conflict
  BY DEF TypeInv, TablesTyped, TablesOK
<1>2. CASE conflicts' = conflicts
  BY <1>1, <1>2
<1>3. CASE kind[r] = "edit" /\ EditAddConflict(r)
  <2>1. conf[r] \in Conflict
    BY <1>3 DEF TypeInv, Held, HeldEdit, LocalsOK, EditAddConflict
  <2> QED
    BY <1>1, <1>3, <2>1 DEF EditAddConflict, AddConflict
<1> QED
  BY <1>2, <1>3, TableWriters

LEMMA WithdrawalsTyped ==
  ASSUME TypeInv, NEW r \in Request, Handled(r)
  PROVE  withdrawals' \subseteq Withdrawal /\ withdrawals \subseteq withdrawals'
<1>1. withdrawals \subseteq Withdrawal
  BY DEF TypeInv, TablesTyped
<1>2. CASE withdrawals' = withdrawals
  BY <1>1, <1>2
<1>3. CASE kind[r] = "withdraw" /\ WithdrawAddRecord(r)
  <2>1. wd[r] \in Withdrawal
    BY <1>3 DEF TypeInv, Held, HeldWithdraw, WithdrawAddRecord, WithdrawPC
  <2> QED
    BY <1>1, <1>3, <2>1 DEF WithdrawAddRecord, AddWithdrawal
<1> QED
  BY <1>2, <1>3, TableWriters

LEMMA QualityTyped ==
  ASSUME TypeInv, NEW r \in Request, Handled(r)
  PROVE  quality' \subseteq QualityRow
<1>1. quality \subseteq QualityRow /\ todo[r] \subseteq Finding
  BY DEF TypeInv, TablesTyped, TablesOK, Held, TypedLocals
<1>2. CASE quality' = quality
  BY <1>1, <1>2
<1>3. ASSUME NEW m \in Media,
             quality' \subseteq quality
               \cup {[run |-> r, media |-> m, seg |-> f.seg, rule |-> f.rule] : f \in todo[r]}
      PROVE  quality' \subseteq QualityRow
  <2>1. ASSUME NEW f \in todo[r]
        PROVE  [run |-> r, media |-> m, seg |-> f.seg, rule |-> f.rule] \in QualityRow
    <3>1. f \in Finding
      BY <1>1
    <3> QED
      BY <3>1 DEF Finding, QualityRow
  <2> QED
    BY <1>1, <1>3, <2>1
<1>4. CASE kind[r] = "edit" /\ EditRecompute(r)
  <2>1. pc[r] \in QualityPC
    BY <1>4, RecomputeMoves DEF TypeInv, EditRecompute
  <2>2. row[r].media \in Media
    BY <1>4, <2>1 DEF TypeInv, Held, HeldEdit, LocalsOK, Editing, EditPC, QualityPC, Row
  <2> QED
    BY <1>3, <1>4, <2>2, RecomputeWrites DEF EditRecompute
<1>5. CASE kind[r] \in {"import", "recompute"} /\ Recompute(r, into[r], "done")
  <2>1. pc[r] \in QualityPC
    BY <1>5, RecomputeMoves DEF TypeInv
  <2>2. into[r] \in Media
    BY <1>5, <2>1 DEF TypeInv, Held, HeldIntake, QualityPC
  <2> QED
    BY <1>3, <1>5, <2>2, RecomputeWrites
<1> QED
  BY <1>2, <1>4, <1>5, TableWriters
-----------------------------------------------------------------------------
LEMMA VersionsTyped ==
  ASSUME TypeInv, PublishInv, NEW r \in Request, Handled(r)
  PROVE  /\ versions' = [v \in DOMAIN versions' |-> versions'[v]]
         /\ \A v \in DOMAIN versions' : v \in Request /\ kind[v] = "publish"
         /\ \A v \in DOMAIN versions' : IsVersion(versions'[v])
         /\ \A v \in DOMAIN versions :
              /\ v \in DOMAIN versions'
              /\ versions'[v].media = versions[v].media
              /\ versions'[v].no = versions[v].no
              /\ versions'[v].snap = versions[v].snap
              /\ versions[v].withdrawn => versions'[v].withdrawn
<1>1. /\ versions = [v \in DOMAIN versions |-> versions[v]]
      /\ \A v \in DOMAIN versions : v \in Request /\ kind[v] = "publish"
      /\ \A v \in DOMAIN versions : IsVersion(versions[v])
  BY DEF TypeInv, TablesTyped
<1>2. CASE versions' = versions
  BY <1>1, <1>2
<1>3. CASE kind[r] = "publish" /\ PublishAddVersion(r)
  <2>1. /\ pc[r] = "add_version"
        /\ versions' = [v \in DOMAIN versions \cup {r} |->
                          IF v = r THEN Frozen(r) ELSE versions[v]]
    BY <1>3 DEF PublishAddVersion, AddPublishVersion
  <2>2. r \notin DOMAIN versions
    BY <2>1 DEF PublishInv, HeldVersion, PublishPC
  <2>3. HeldPublish(r) /\ TypedLocals(r)
    BY <1>3 DEF TypeInv, Held
  <2>4. IsSnapshot(snap[r])
    BY <2>1, <2>3 DEF HeldPublish, TypedLocals, PublishPC, IsSnapshot
  <2>5. target[r] \in Media /\ NextNo(count[r]) \in Nat \ {0}
    BY <2>1, <2>3 DEF HeldPublish, TypedLocals, PublishPC, NextNo
  <2>6. IsVersion(Frozen(r))
    BY <2>4, <2>5 DEF IsVersion, Frozen
  <2> HIDE DEF Frozen
  <2>7. DOMAIN versions' = DOMAIN versions \cup {r}
    BY <2>1
  <2>8. /\ versions'[r] = Frozen(r)
        /\ \A v \in DOMAIN versions : versions'[v] = versions[v]
    BY <2>1, <2>2
  <2> QED
    BY <1>1, <1>3, <2>1, <2>6, <2>7, <2>8
<1>4. CASE kind[r] = "withdraw" /\ WithdrawMark(r)
  <2> DEFINE x == wd[r].version
  <2>1. /\ pc[r] = "mark_withdrawn"
        /\ versions' = [versions EXCEPT ![x] = [@ EXCEPT !.withdrawn = TRUE]]
    BY <1>4 DEF WithdrawMark, MarkWithdrawn
  <2>2. x \in DOMAIN versions
    BY <2>1 DEF PublishInv, HeldVersion, WithdrawPC
  <2> HIDE DEF x
  <2>3. IsVersion(versions[x])
    BY <1>1, <2>2
  <2>4. versions'[x] = [media |-> versions[x].media, no |-> versions[x].no,
                        snap |-> versions[x].snap, withdrawn |-> TRUE]
    BY <2>1, <2>2, <2>3 DEF IsVersion
  <2>5. /\ IsVersion(versions'[x])
        /\ versions'[x].media = versions[x].media
        /\ versions'[x].no = versions[x].no
        /\ versions'[x].snap = versions[x].snap
        /\ versions'[x].withdrawn
    BY <2>3, <2>4 DEF IsVersion
  <2>6. /\ DOMAIN versions' = DOMAIN versions
        /\ \A v \in DOMAIN versions : v # x => versions'[v] = versions[v]
    BY <2>1, <2>2
  <2>7. versions' = [v \in DOMAIN versions' |-> versions'[v]]
    BY <2>1
  <2>8. \A v \in DOMAIN versions' : IsVersion(versions'[v])
    BY <1>1, <2>5, <2>6
  <2> QED
    BY <1>1, <2>5, <2>6, <2>7, <2>8
<1> QED
  BY <1>2, <1>3, <1>4, TableWriters

LEMMA TablesGrow ==
  ASSUME TypeInv, PublishInv, NEW r \in Request, Handled(r)
  PROVE  Grow
BY SegmentsTyped, MediaTyped, SpeakersTyped, RevisionsTyped, ConflictsTyped,
   WithdrawalsTyped, VersionsTyped DEF Grow

LEMMA TablesStayTyped ==
  ASSUME TypeInv, PublishInv, NEW r \in Request, Handled(r), UNCHANGED kind
  PROVE  TablesTyped'
<1>1. TablesOK'
  BY SegmentsTyped, MediaTyped, SpeakersTyped, RevisionsTyped, ConflictsTyped,
     QualityTyped DEF TablesOK
<1>2. now' = now
  BY DEF Handled, BodyRefused, EditRequested, EditStep, EditGetSegment, EditLastActor,
         EditAddConflict, EditMarkConflict, EditPatch, EditGetSpeaker,
         EditUpdateSegment, EditAddRevision, EditRecompute, EditFail, PublishRequested,
         WithdrawRequested, CompareRequested, ImportRequested, MediaRequested,
         SpeakerRequested, RecomputeRequested, StatsRequested, RequestFails, editVars
<1>3. /\ versions' = [v \in DOMAIN versions' |-> versions'[v]]
      /\ \A v \in DOMAIN versions' : v \in Request /\ kind'[v] = "publish"
      /\ \A v \in DOMAIN versions' : IsVersion(versions'[v])
  BY VersionsTyped
<1>4. withdrawals' \subseteq Withdrawal
  BY WithdrawalsTyped
<1> QED
  BY <1>1, <1>2, <1>3, <1>4 DEF TablesTyped, TypeInv

-----------------------------------------------------------------------------
\* What a request of another step holds stays so.
LEMMA OthersHeld ==
  ASSUME TypeInv, Grow, NEW q \in Request, SameLocals(q), UNCHANGED kind,
         segments' \in [Segment -> Row \cup {None}]
  PROVE  Held(q)'
<1> USE DEF SameLocals
<1>1. Held(q)
  BY DEF TypeInv
<1>2. TypedLocals(q)'
  BY <1>1 DEF Held, TypedLocals, IsRows
<1>3. ASSUME kind[q] = "edit" PROVE HeldEdit(q)'
  <2>1. HeldEdit(q)
    BY <1>1, <1>3 DEF Held
  <2>2. ASSUME pc[q] \in Editing
        PROVE  /\ segments'[req[q].seg] \in Row
               /\ SamePlace(row[q], segments'[req[q].seg])
    <3>1. /\ req[q].seg \in Segment
          /\ segments[req[q].seg] \in Row
          /\ SamePlace(row[q], segments[req[q].seg])
      BY <2>1, <2>2 DEF HeldEdit, LocalsOK, EditRequest
    <3>2. segments[req[q].seg] # None
      BY <3>1, EditAssumption
    <3>3. /\ segments'[req[q].seg] # None
          /\ SamePlace(segments'[req[q].seg], segments[req[q].seg])
      BY <3>1, <3>2 DEF Grow
    <3> QED
      BY <3>1, <3>3 DEF SamePlace
  <2> QED
    BY <2>1, <2>2 DEF HeldEdit, LocalsOK, IsRows
<1>4. ASSUME kind[q] = "publish" PROVE HeldPublish(q)'
  BY <1>1, <1>4 DEF Held, HeldPublish, IsRows
<1>5. ASSUME kind[q] = "withdraw" PROVE HeldWithdraw(q)'
  BY <1>1, <1>5 DEF Held, HeldWithdraw
<1>6. ASSUME kind[q] \in {"import", "speaker", "recompute"} PROVE HeldIntake(q)'
  BY <1>1, <1>6 DEF Held, HeldIntake
<1> QED
  BY <1>2, <1>3, <1>4, <1>5, <1>6 DEF Held
-----------------------------------------------------------------------------
\* A request that is answered holds nothing any more.
LEMMA AnsweredHolds ==
  ASSUME NEW r \in Request, pc'[r] = "done"
  PROVE  HeldEdit(r)' /\ HeldPublish(r)' /\ HeldWithdraw(r)' /\ HeldIntake(r)'
BY DEF HeldEdit, LocalsOK, Editing, EditPC, QualityPC, HeldPublish, PublishPC,
       HeldWithdraw, WithdrawPC, HeldIntake

LEMMA PublishLocalsTyped ==
  ASSUME TypeInv, NEW r \in Request, Handled(r)
  PROVE  /\ target'[r] \in Media \cup {None}
         /\ snap'[r] = [status |-> snap'[r].status, segments |-> snap'[r].segments,
                        speakers |-> snap'[r].speakers]
         /\ count'[r] \in Nat
         /\ wd'[r] \in Withdrawal \cup {None}
<1> USE DEF TypeInv, Arrays, IsArray
<1>1. TypedLocals(r)
  BY DEF Held
<1>2. CASE UNCHANGED <<target, snap, count, wd>>
  BY <1>1, <1>2 DEF TypedLocals
<1>3. CASE PublishRequested(r)
  <2>1. wd' = wd
    BY <1>3 DEF PublishRequested, PublishStep, PublishGetMedia, PublishListSegments,
                PublishListSpeakers, PublishCount, PublishAddVersion, PublishMarkMedia,
                publishVars
  <2>2. \/ target' = target
        \/ \E m \in Media : target' = [target EXCEPT ![r] = m]
    BY <1>3 DEF PublishRequested, PublishStep, PublishGetMedia, PublishListSegments,
                PublishListSpeakers, PublishCount, PublishAddVersion, PublishMarkMedia,
                publishVars
  <2>3. \/ snap' = snap
        \/ \E x : \/ snap' = [snap EXCEPT ![r].status = x]
                  \/ snap' = [snap EXCEPT ![r].segments = x]
                  \/ snap' = [snap EXCEPT ![r].speakers = x]
    BY <1>3 DEF PublishRequested, PublishStep, PublishGetMedia, PublishListSegments,
                PublishListSpeakers, PublishCount, PublishAddVersion, PublishMarkMedia,
                publishVars
  <2>4. \/ count' = count
        \/ count' = [count EXCEPT ![r] = CountPublishVersions(target[r])]
    BY <1>3 DEF PublishRequested, PublishStep, PublishGetMedia, PublishListSegments,
                PublishListSpeakers, PublishCount, PublishAddVersion, PublishMarkMedia,
                publishVars
  <2>5. CountPublishVersions(target[r]) \in Nat
    <3>1. {v \in DOMAIN versions : versions[v].media = target[r]} \in SUBSET Request
      BY DEF TablesTyped
    <3> QED
      BY <3>1, StoreAssumption, FS_Subset, FS_CardinalityType DEF CountPublishVersions
  <2>6. target'[r] \in Media \cup {None} /\ count'[r] \in Nat
    BY <1>1, <2>2, <2>4, <2>5 DEF TypedLocals
  <2>7. snap'[r] = [status |-> snap'[r].status, segments |-> snap'[r].segments,
                    speakers |-> snap'[r].speakers]
    BY <1>1, <2>3 DEF TypedLocals
  <2> QED
    BY <1>1, <2>1, <2>6, <2>7 DEF TypedLocals
<1>4. CASE WithdrawRequested(r)
  <2>1. UNCHANGED <<target, snap, count>>
    BY <1>4 DEF WithdrawRequested, WithdrawStep, WithdrawGetVersion, WithdrawAddRecord,
                WithdrawMark, publishVars
  <2>2. \/ wd' = wd
        \/ \E v \in Request :
             /\ GetPublishVersion(v) # None
             /\ wd' = [wd EXCEPT ![r] = [id |-> r, version |-> v,
                                         media |-> GetPublishVersion(v).media]]
    BY <1>4 DEF WithdrawRequested, WithdrawStep, WithdrawGetVersion, WithdrawAddRecord,
                WithdrawMark, publishVars
  <2>3. ASSUME NEW v \in Request, GetPublishVersion(v) # None
        PROVE  [id |-> r, version |-> v, media |-> GetPublishVersion(v).media] \in Withdrawal
    BY <2>3 DEF GetPublishVersion, TablesTyped, IsVersion, Withdrawal
  <2>4. wd'[r] \in Withdrawal \cup {None}
    BY <1>1, <2>2, <2>3 DEF TypedLocals
  <2> QED
    BY <1>1, <2>1, <2>4 DEF TypedLocals
<1> QED
  BY <1>2, <1>3, <1>4
     DEF Handled, BodyRefused, EditRequested, CompareRequested, ImportRequested,
         MediaRequested, SpeakerRequested, RecomputeRequested, StatsRequested,
         RequestFails, publishVars

LEMMA IntakeLocalsTyped ==
  ASSUME TypeInv, NEW r \in Request, Handled(r)
  PROVE  into'[r] \in Media \cup {None}
<1> USE DEF TypeInv, Arrays, IsArray
<1>1. into[r] \in Media \cup {None}
  BY DEF Held, TypedLocals
<1>2. CASE into' = into
  BY <1>1, <1>2
<1>3. CASE \E m \in Media : into' = [into EXCEPT ![r] = m]
  BY <1>3
<1>4. CASE ImportRequested(r) \/ MediaRequested(r) \/ SpeakerRequested(r)
             \/ RecomputeRequested(r)
  BY <1>2, <1>3, <1>4
     DEF ImportRequested, ImportStep, ImportGetMedia, ImportListSegments,
         ImportCreateSegments, ImportRecompute, MediaRequested, MediaCreate,
         SpeakerRequested, SpeakerStep, SpeakerGetMedia, SpeakerCreate,
         RecomputeRequested, RecomputeStep, RecomputeGetMedia, intakeVars
<1> QED
  BY <1>2, <1>4
     DEF Handled, BodyRefused, EditRequested, PublishRequested, WithdrawRequested,
         CompareRequested, StatsRequested, RequestFails, intakeVars

LEMMA LocalsStayTyped ==
  ASSUME TypeInv, NEW r \in Request, Handled(r)
  PROVE  TypedLocals(r)'
<1>1. /\ pc'[r] \in Label
      /\ outcome'[r] \in Outcome \cup {None}
      /\ pc'[r] # "done" => outcome'[r] = None
  <2>1. MovesOn(r)
    BY HandledMoves DEF TypeInv
  <2>2. TypedLocals(r)
    BY DEF TypeInv, Held
  <2>3. "done" \in Label
    BY DEF Label, EditPC
  <2> QED
    BY <2>1, <2>2, <2>3 DEF MovesOn, TypedLocals
<1>2. /\ todo'[r] \subseteq Finding
      /\ pc'[r] = "list_speakers" => IsRows(listed'[r])
  <2>1. CASE \E m : Recompute(r, m, "done")
    BY <2>1, RecomputeTyped DEF TypeInv
  <2>2. CASE UNCHANGED <<listed, todo>> /\ pc'[r] # "list_speakers"
    BY <2>2 DEF TypeInv, Held, TypedLocals
  <2> QED
    BY <2>1, <2>2, RecomputeOrNot DEF TypeInv
<1>3. (pc[r] = "list_speakers" => IsRows(listed[r]))'
  BY <1>2 DEF IsRows
<1> QED
  BY <1>1, <1>2, <1>3, PublishLocalsTyped, IntakeLocalsTyped DEF TypedLocals
-----------------------------------------------------------------------------
LEMMA EditStaysHeld ==
  ASSUME TypeInv, Grow, NEW r \in Request, kind[r] = "edit", EditStep(r),
         segments' \in [Segment -> Row \cup {None}], TypedLocals(r)'
  PROVE  HeldEdit(r)'
<1> USE DEF Arrays, IsArray
<1>1. Arrays /\ HeldEdit(r)
  BY DEF TypeInv, Held
<1>2. pc'[r] = "list_speakers" => (IsRows(listed[r]))'
  BY DEF TypedLocals
<1>3. CASE pc'[r] = "done"
  BY <1>3, AnsweredHolds
<1>4. CASE EditGetSegment(r) /\ pc'[r] # "done"
  <2>1. PICK q \in EditRequest :
          /\ req' = [req EXCEPT ![r] = q]
          /\ q.actor # NoActor
          /\ segments[q.seg] # None
          /\ row' = [row EXCEPT ![r] = segments[q.seg]]
          /\ Goto(r, "last_actor") \/ Goto(r, "patch")
    BY <1>1, <1>4 DEF EditGetSegment, GetSegment, NamedActor, Reply
  <2>2. UNCHANGED segments
    BY <1>4 DEF EditGetSegment, storeVars
  <2>3. q.seg \in Segment
    BY DEF EditRequest
  <2>4. segments'[q.seg] \in Row
    BY <2>1, <2>2, <2>3
  <2>5. /\ pc'[r] \in {"last_actor", "patch"}
        /\ req'[r] = q
        /\ row'[r] = segments'[q.seg]
    BY <1>1, <2>1, <2>2 DEF Goto
  <2> QED
    BY <2>1, <2>4, <2>5 DEF HeldEdit, LocalsOK, SamePlace
<1>5. ASSUME pc[r] \in Editing, pc'[r] # "done", req' = req,
             row' = row, rev' = rev, conf' = conf,
             pc'[r] \in {"get_speaker", "update_segment", "add_revision"}
               => rev[r] \in Revision,
             pc'[r] \in {"add_conflict", "mark_conflict"} => conf[r] \in Conflict
      PROVE  HeldEdit(r)'
  <2>1. /\ req[r] \in EditRequest
        /\ req[r].seg \in Segment
        /\ req[r].actor # NoActor
        /\ row[r] \in Row
        /\ segments[req[r].seg] \in Row
        /\ SamePlace(row[r], segments[req[r].seg])
    BY <1>1, <1>5 DEF HeldEdit, LocalsOK, EditRequest
  <2>2. /\ segments'[req[r].seg] # None
        /\ SamePlace(segments'[req[r].seg], segments[req[r].seg])
    BY <2>1, EditAssumption DEF Grow
  <2>3. segments'[req[r].seg] \in Row /\ SamePlace(row[r], segments'[req[r].seg])
    BY <2>1, <2>2 DEF SamePlace
  <2> QED
    BY <1>2, <1>5, <2>1, <2>3 DEF HeldEdit, LocalsOK
<1>6. CASE EditLastActor(r)
  <2>1. PICK a \in Actor \cup {"unknown"} :
          conf' = [conf EXCEPT ![r] =
                     [id |-> r, media |-> row[r].media, seg |-> req[r].seg,
                      actorA |-> a, actorB |-> req[r].actor,
                      base |-> row[r].version, attempted |-> req[r].base]]
    <3>1. Newest(ListRevisions(req[r].seg)) \subseteq Revision
      BY DEF TypeInv, TablesTyped, TablesOK, Newest, ListRevisions
    <3>2. {v.actor : v \in Newest(ListRevisions(req[r].seg))} \subseteq Actor
      BY <3>1 DEF Revision
    <3> QED
      BY <1>6, <3>2 DEF EditLastActor
  <2>2. /\ pc[r] = "last_actor"
        /\ pc'[r] = "add_conflict"
        /\ UNCHANGED <<segments, req, row, rev>>
    BY <1>1, <1>6 DEF EditLastActor, Goto, storeVars
  <2>3. /\ req[r] \in EditRequest
        /\ req[r].actor # NoActor
        /\ row[r] \in Row
        /\ segments[req[r].seg] \in Row
        /\ SamePlace(row[r], segments[req[r].seg])
    BY <1>1, <2>2 DEF HeldEdit, LocalsOK, Editing, EditPC
  <2>4. conf'[r] \in Conflict
    BY <1>1, <2>1, <2>3, EditAssumption DEF Conflict, EditRequest, Row
  <2> QED
    BY <2>2, <2>3, <2>4 DEF HeldEdit, LocalsOK
<1>7. CASE EditPatch(r) /\ pc'[r] # "done"
  <2> DEFINE p == Patched(row[r], req[r].edit)
  <2>1. /\ pc[r] = "patch"
        /\ row'[r] = p
        /\ rev'[r] = Audit(r, row[r], p)
        /\ pc'[r] \in {"get_speaker", "update_segment"}
        /\ UNCHANGED <<segments, req, conf>>
    BY <1>1, <1>7 DEF EditPatch, Goto, Reply, storeVars
  <2>2. /\ req[r] \in EditRequest
        /\ req[r].actor # NoActor
        /\ row[r] \in Row
        /\ segments[req[r].seg] \in Row
        /\ SamePlace(row[r], segments[req[r].seg])
    BY <1>1, <2>1 DEF HeldEdit, LocalsOK, Editing, EditPC
  <2>3. p \in Row
    BY <2>2, PatchedType DEF EditRequest
  <2>4. SamePlace(p, row[r])
    BY <2>2 DEF Patched, SamePlace, Row
  <2> HIDE DEF p
  <2>5. Audit(r, row[r], p) \in Revision
    BY <2>2, <2>3, EditAssumption
       DEF Audit, Revision, EditRequest, TypeInv, TablesTyped
  <2> QED
    BY <2>1, <2>2, <2>3, <2>4, <2>5 DEF HeldEdit, LocalsOK, SamePlace
<1>8. CASE /\ pc'[r] # "done"
           /\ \/ EditAddConflict(r) \/ EditMarkConflict(r) \/ EditGetSpeaker(r)
              \/ EditUpdateSegment(r) \/ EditAddRevision(r)
  <2>1. /\ pc[r] \in Editing
        /\ UNCHANGED <<req, row, rev, conf>>
    BY <1>8 DEF EditAddConflict, EditMarkConflict, EditGetSpeaker, EditUpdateSegment,
                EditAddRevision, editVars, Editing, EditPC
  <2>2. /\ pc'[r] \in {"get_speaker", "update_segment", "add_revision"}
             => pc[r] \in {"get_speaker", "update_segment", "add_revision"}
        /\ pc'[r] \in {"add_conflict", "mark_conflict"}
             => pc[r] \in {"add_conflict", "mark_conflict"}
    BY <1>1, <1>8 DEF EditAddConflict, EditMarkConflict, EditGetSpeaker,
                EditUpdateSegment, EditAddRevision, Goto, Reply
  <2> QED
    BY <1>1, <1>5, <1>8, <2>1, <2>2 DEF HeldEdit, LocalsOK
<1>9. CASE EditRecompute(r) /\ pc'[r] # "done"
  <2>1. pc[r] \in QualityPC /\ pc'[r] \in QualityPC /\ UNCHANGED editVars
    BY <1>1, <1>9, RecomputeMoves DEF EditRecompute
  <2> QED
    BY <1>5, <1>9, <2>1 DEF editVars, Editing, EditPC, QualityPC
<1>10. CASE EditFail(r)
  BY <1>1, <1>3, <1>10 DEF EditFail, Fail, Reply
<1> QED
  BY <1>3, <1>4, <1>6, <1>7, <1>8, <1>9, <1>10 DEF EditStep

LEMMA PublishStaysHeld ==
  ASSUME TypeInv, NEW r \in Request, kind[r] = "publish", PublishStep(r),
         Touched(snap, snap', r), Touched(target, target', r)
  PROVE  HeldPublish(r)'
<1> USE DEF Arrays, IsArray, PublishPC
<1>1. Arrays /\ HeldPublish(r) /\ TypedLocals(r)
  BY DEF TypeInv, Held
<1>2. /\ media \in [Media -> MediaStatus \cup {None}]
      /\ segments \in [Segment -> Row \cup {None}]
  BY DEF TypeInv, TablesTyped, TablesOK
<1>3. CASE PublishGetMedia(r)
  <2>1. PICK m \in Media :
          /\ target' = [target EXCEPT ![r] = m]
          /\ snap' = [snap EXCEPT ![r].status = media[m]]
          /\ \/ \E answer : Reply(r, answer)
             \/ media[m] # None /\ Goto(r, "pub_list_segments")
    BY <1>3 DEF PublishGetMedia, GetMedia
  <2>2. pc'[r] = "done" \/ (media[m] # None /\ pc'[r] = "pub_list_segments")
    BY <1>1, <2>1 DEF Goto, Reply
  <2>3. target'[r] = m /\ snap'[r].status = media[m]
    BY <1>1, <2>1 DEF TypedLocals
  <2> QED
    BY <1>2, <2>2, <2>3, AnsweredHolds DEF HeldPublish
<1>4. CASE PublishListSegments(r)
  <2>1. /\ pc[r] = "pub_list_segments"
        /\ pc'[r] = "pub_list_speakers"
        /\ snap' = [snap EXCEPT ![r].segments = ListSegments(target[r])]
        /\ target' = target
    BY <1>1, <1>4 DEF PublishListSegments, Goto
  <2>2. snap'[r].segments = ListSegments(target[r]) /\ snap'[r].status = snap[r].status
    BY <1>1, <2>1 DEF TypedLocals
  <2>3. IsRows(snap'[r].segments)
    BY <1>2, <2>2, ListSegmentsType
  <2>4. IsRows(snap[r].segments)'
    BY <2>3 DEF IsRows
  <2> QED
    BY <1>1, <2>1, <2>2, <2>4 DEF HeldPublish
<1>5. CASE PublishListSpeakers(r)
  <2>1. /\ pc[r] = "pub_list_speakers"
        /\ pc'[r] = "count_versions"
        /\ snap' = [snap EXCEPT ![r].speakers = ListSpeakers(target[r])]
        /\ target' = target
    BY <1>1, <1>5 DEF PublishListSpeakers, Goto
  <2>2. /\ snap'[r].speakers = ListSpeakers(target[r])
        /\ snap'[r].segments = snap[r].segments
        /\ snap'[r].status = snap[r].status
    BY <1>1, <2>1 DEF TypedLocals
  <2>3. snap'[r].speakers \subseteq Speaker
    BY <2>2 DEF ListSpeakers
  <2> QED
    BY <1>1, <2>1, <2>2, <2>3 DEF HeldPublish, IsRows
<1>6. CASE PublishCount(r)
  BY <1>1, <1>6 DEF PublishCount, Goto, HeldPublish, IsRows
<1>7. CASE PublishAddVersion(r)
  BY <1>1, <1>7 DEF PublishAddVersion, publishVars, Goto, HeldPublish, IsRows
<1>8. CASE PublishMarkMedia(r)
  BY <1>1, <1>8, AnsweredHolds DEF PublishMarkMedia, Reply
<1> QED
  BY <1>3, <1>4, <1>5, <1>6, <1>7, <1>8 DEF PublishStep

LEMMA WithdrawStaysHeld ==
  ASSUME TypeInv, NEW r \in Request, kind[r] = "withdraw", WithdrawStep(r)
  PROVE  HeldWithdraw(r)'
<1> USE DEF Arrays, IsArray, WithdrawPC
<1>1. Arrays /\ HeldWithdraw(r)
  BY DEF TypeInv, Held
<1>2. CASE WithdrawGetVersion(r)
  <2>1. \/ \E answer : Reply(r, answer)
        \/ \E v \in Request :
             /\ GetPublishVersion(v) # None
             /\ wd' = [wd EXCEPT ![r] = [id |-> r, version |-> v,
                                         media |-> GetPublishVersion(v).media]]
    BY <1>2 DEF WithdrawGetVersion
  <2>2. ASSUME NEW v \in Request, GetPublishVersion(v) # None
        PROVE  [id |-> r, version |-> v, media |-> GetPublishVersion(v).media] \in Withdrawal
    BY <2>2 DEF GetPublishVersion, TypeInv, TablesTyped, IsVersion, Withdrawal
  <2>3. CASE \E answer : Reply(r, answer)
    BY <1>1, <2>3, AnsweredHolds DEF Reply
  <2> QED
    BY <1>1, <2>1, <2>2, <2>3 DEF HeldWithdraw
<1>3. CASE WithdrawAddRecord(r)
  BY <1>1, <1>3 DEF WithdrawAddRecord, publishVars, Goto, HeldWithdraw
<1>4. CASE WithdrawMark(r)
  BY <1>1, <1>4, AnsweredHolds DEF WithdrawMark, Reply
<1> QED
  BY <1>2, <1>3, <1>4 DEF WithdrawStep

\* A batch is checked against the rows listed and against itself.
LEMMA AcceptableInputs ==
  ASSUME NEW b, NEW existing, BatchAcceptable(b, existing)
  PROVE  \A i \in DOMAIN b : b[i].idx >= 0 /\ b[i].end > b[i].start
BY DEF BatchAcceptable, Acceptable

LEMMA IntakeStaysHeld ==
  ASSUME TypeInv, NEW r \in Request, UNCHANGED kind,
         \/ kind[r] = "import" /\ ImportStep(r)
         \/ kind[r] = "speaker" /\ SpeakerStep(r)
         \/ kind[r] = "recompute" /\ RecomputeStep(r)
  PROVE  HeldIntake(r)'
<1> USE DEF Arrays, IsArray
<1>1. Arrays /\ HeldIntake(r)
  BY DEF TypeInv, Held
<1>2. CASE pc'[r] = "done"
  BY <1>2, AnsweredHolds
<1>3. CASE /\ pc'[r] # "done"
           /\ ImportGetMedia(r) \/ SpeakerGetMedia(r) \/ RecomputeGetMedia(r)
  <2>1. into'[r] \in Media
    BY <1>1, <1>3 DEF ImportGetMedia, SpeakerGetMedia, RecomputeGetMedia
  <2>2. kind[r] = "import" => batch'[r] \in Batches
    <3>1. pc[r] = "new"
      BY <1>3 DEF ImportGetMedia, SpeakerGetMedia, RecomputeGetMedia
    <3>2. ASSUME kind[r] = "import" PROVE ImportGetMedia(r)
      BY <3>1, <3>2 DEF ImportStep, ImportListSegments, ImportCreateSegments,
           ImportRecompute, Recompute, RecomputeListSegments, RecomputeListSpeakers,
           RecomputeDelete, RecomputeAdd
    <3> QED
      BY <1>1, <3>2 DEF ImportGetMedia
  <2>3. pc'[r] # "create_segments"
    BY <1>1, <1>3 DEF ImportGetMedia, SpeakerGetMedia, RecomputeGetMedia, Goto, Reply
  <2> QED
    BY <2>1, <2>2, <2>3 DEF HeldIntake
<1>4. ASSUME UNCHANGED <<into, batch>>, pc[r] \notin {"new", "done"},
             pc'[r] # "create_segments"
      PROVE  HeldIntake(r)'
  BY <1>1, <1>4 DEF HeldIntake
<1>5. CASE ImportListSegments(r) /\ pc'[r] # "done"
  <2>1. /\ UNCHANGED <<into, batch>>
        /\ pc[r] = "imp_list_segments"
        /\ BatchAcceptable(batch[r], IndexesOf(ListSegments(into[r])))
    BY <1>1, <1>5 DEF ImportListSegments, intakeVars, Reply
  <2>2. \A i \in DOMAIN batch[r] : batch[r][i].idx >= 0 /\ batch[r][i].end > batch[r][i].start
    BY <2>1, AcceptableInputs
  <2>3. /\ into[r] \in Media
        /\ kind[r] = "import" => batch[r] \in Batches
    BY <1>1, <2>1 DEF HeldIntake
  <2>4. \A i \in DOMAIN batch[r] : batch[r][i].start < batch[r][i].end
    BY <2>2
  <2> QED
    BY <2>1, <2>2, <2>3, <2>4 DEF HeldIntake
<1>6. CASE ImportCreateSegments(r)
  BY <1>1, <1>4, <1>6 DEF ImportCreateSegments, intakeVars, Goto
<1>7. CASE SpeakerCreate(r)
  BY <1>1, <1>2, <1>7 DEF SpeakerCreate, Reply
<1>8. CASE Recompute(r, into[r], "done") /\ UNCHANGED intakeVars
  <2>1. pc[r] \in QualityPC /\ pc'[r] \in QualityPC \cup {"done"}
    BY <1>1, <1>8, RecomputeMoves
  <2> QED
    BY <1>4, <1>8, <2>1 DEF QualityPC, intakeVars
<1> QED
  BY <1>2, <1>3, <1>5, <1>6, <1>7, <1>8
     DEF ImportStep, ImportRecompute, SpeakerStep, RecomputeStep

\* Every handler keeps the types.
LEMMA TypeInvHandled ==
  ASSUME TypeInv, PublishInv, NEW r \in Request, Handled(r), UNCHANGED kind
  PROVE  TypeInv' /\ Grow
<1>1. Grow
  BY TablesGrow
<1>2. TablesTyped'
  BY TablesStayTyped
<1>3. Arrays' /\ \A q \in Request \ {r} : SameLocals(q)
  BY OthersSame DEF TypeInv
<1>4. segments' \in [Segment -> Row \cup {None}]
  BY SegmentsTyped
<1>5. \A q \in Request \ {r} : Held(q)'
  BY <1>1, <1>3, <1>4, OthersHeld
<1>6. TypedLocals(r)'
  BY LocalsStayTyped
<1>7. ASSUME Refused(r) PROVE Held(r)'
  <2>1. pc'[r] = "done"
    BY <1>7 DEF Refused, Reply, TypeInv, Arrays, IsArray
  <2> QED
    BY <1>6, <2>1, AnsweredHolds DEF Held
<1>8. ASSUME kind[r] = "edit", EditRequested(r) PROVE Held(r)'
  BY <1>1, <1>4, <1>6, <1>8, EditStaysHeld DEF EditRequested, Held
<1>9. ASSUME kind[r] = "publish", PublishRequested(r) PROVE Held(r)'
  <2>1. PublishStep(r)
    BY <1>9 DEF PublishRequested
  <2>2. Touched(snap, snap', r) /\ Touched(target, target', r)
    BY <2>1, PublishTouches DEF PublishTouched
  <2> QED
    BY <1>6, <1>9, <2>1, <2>2, PublishStaysHeld DEF Held
<1>10. ASSUME kind[r] = "withdraw", WithdrawRequested(r) PROVE Held(r)'
  BY <1>6, <1>10, WithdrawStaysHeld DEF WithdrawRequested, Held
<1>11. ASSUME \/ kind[r] = "import" /\ ImportRequested(r)
              \/ kind[r] = "speaker" /\ SpeakerRequested(r)
              \/ kind[r] = "recompute" /\ RecomputeRequested(r)
       PROVE  Held(r)'
  BY <1>6, <1>11, IntakeStaysHeld
     DEF ImportRequested, SpeakerRequested, RecomputeRequested, Held
<1>12. ASSUME kind[r] \in {"compare", "media", "stats"} PROVE Held(r)'
  BY <1>6, <1>12 DEF Held
<1>13. Held(r)'
  BY <1>7, <1>8, <1>9, <1>10, <1>11, <1>12, ServedByKind
<1> QED
  BY <1>1, <1>2, <1>3, <1>5, <1>13 DEF TypeInv

LEMMA TypeInvStutters ==
  ASSUME TypeInv, Resting
  PROVE  TypeInv'
<1> USE DEF Resting, vars, storeVars, qaVars, editVars, publishVars, compareVars,
            intakeVars, statsVars
<1>1. Arrays'
  BY DEF TypeInv, Arrays, IsArray
<1>2. TablesTyped'
  BY DEF TypeInv, TablesTyped, TablesOK
<1>3. ASSUME NEW q \in Request PROVE Held(q)'
  <2>1. Held(q)
    BY DEF TypeInv
  <2>2. TypedLocals(q)'
    BY <2>1 DEF Held, TypedLocals, IsRows
  <2>3. (kind[q] = "edit" => HeldEdit(q))'
    BY <2>1 DEF Held, HeldEdit, LocalsOK, IsRows
  <2>4. (kind[q] = "publish" => HeldPublish(q))'
    BY <2>1 DEF Held, HeldPublish, IsRows
  <2>5. (kind[q] = "withdraw" => HeldWithdraw(q))'
    BY <2>1 DEF Held, HeldWithdraw
  <2>6. (kind[q] \in {"import", "speaker", "recompute"} => HeldIntake(q))'
    BY <2>1 DEF Held, HeldIntake
  <2> QED
    BY <2>2, <2>3, <2>4, <2>5, <2>6 DEF Held
<1> QED
  BY <1>1, <1>2, <1>3 DEF TypeInv

LEMMA TypeInvNext ==
  TypeInv /\ PublishInv /\ [WorkbenchNext]_allVars => TypeInv'
<1> SUFFICES ASSUME TypeInv, PublishInv, [WorkbenchNext]_allVars PROVE TypeInv'
  OBVIOUS
<1>1. CASE UNCHANGED allVars
  BY <1>1, TypeInvStutters DEF allVars, Resting
<1>2. CASE (\E r \in Request : Served(r)) /\ UNCHANGED kind
  BY <1>2, TypeInvHandled DEF Served
<1> QED
  BY <1>1, <1>2 DEF WorkbenchNext, WorkbenchQuiet

LEMMA TypeInvHolds == WorkbenchSpec => []TypeInv
BY TypeInvInit, TypeInvNext, PublishInvHolds, PTL DEF WorkbenchSpec

LEMMA TypesHold == TypeInv => WorkbenchTypeOK
<1> SUFFICES ASSUME TypeInv PROVE WorkbenchTypeOK
  OBVIOUS
<1>1. \A r \in Request : TypedLocals(r)
  BY DEF TypeInv, Held
<1>2. \A r \in Request : kind[r] = "edit" => LocalsOK(r)
  BY DEF TypeInv, Held, HeldEdit
<1>3. /\ pc \in [Request -> Label]
      /\ outcome \in [Request -> Outcome \cup {None}]
      /\ target \in [Request -> Media \cup {None}]
      /\ count \in [Request -> Nat]
      /\ wd \in [Request -> Withdrawal \cup {None}]
      /\ into \in [Request -> Media \cup {None}]
  BY <1>1 DEF TypeInv, Arrays, IsArray, TypedLocals
<1> QED
  BY <1>2, <1>3 DEF WorkbenchTypeOK, TypeInv, TablesTyped, Label

\* Every table and every local variable of every handler is well typed.
THEOREM WorkbenchTypeCorrect == WorkbenchSpec => []WorkbenchTypeOK
BY TypesHold, TypeInvHolds, PTL
-----------------------------------------------------------------------------
(***************************************************************************)
(* Version numbers.  No number exceeds the count of its media's versions,  *)
(* so the next count gives a number above them all.                        *)
(***************************************************************************)

NumbersCounted ==
  \A v \in DOMAIN versions :
    versions[v].no <= Cardinality(VersionsOf(versions[v].media))

LEMMA VersionsMonotone ==
  ASSUME RowsInv, RowsInv', Grow, NEW m
  PROVE  /\ VersionsOf(m) \subseteq VersionsOf(m)'
         /\ Cardinality(VersionsOf(m)) <= Cardinality(VersionsOf(m)')
         /\ Cardinality(VersionsOf(m)) \in Nat
         /\ Cardinality(VersionsOf(m)') \in Nat
<1>1. VersionsOf(m) \subseteq VersionsOf(m)'
  BY DEF VersionsOf, Grow
<1>2. IsFiniteSet(VersionsOf(m)) /\ IsFiniteSet(VersionsOf(m)')
  <2>1. VersionsOf(m) \in SUBSET Request /\ VersionsOf(m)' \in SUBSET Request
    BY DEF VersionsOf, RowsInv
  <2> QED
    BY <2>1, StoreAssumption, FS_Subset
<1> QED
  BY <1>1, <1>2, FS_Subset, FS_CardinalityType

LEMMA NumbersCountedHandled ==
  ASSUME TypeInv, PublishInv, TypeInv', PublishInv', NumbersCounted,
         NEW r \in Request, Handled(r), Grow
  PROVE  NumbersCounted'
<1>0. RowsInv /\ RowsInv'
  BY DEF PublishInv
<1>1. ASSUME NEW v \in DOMAIN versions
      PROVE  (versions[v].no <= Cardinality(VersionsOf(versions[v].media)))'
  <2>1. PICK m : m = versions[v].media
    OBVIOUS
  <2>2. versions'[v].no = versions[v].no /\ versions'[v].media = m
    BY <2>1 DEF Grow
  <2>3. versions[v].no <= Cardinality(VersionsOf(m)) /\ versions[v].no \in Nat
    BY <2>1 DEF NumbersCounted, TypeInv, TablesTyped, IsVersion
  <2>4. /\ Cardinality(VersionsOf(m)) <= Cardinality(VersionsOf(m)')
        /\ Cardinality(VersionsOf(m)) \in Nat
        /\ Cardinality(VersionsOf(m)') \in Nat
    BY <1>0, VersionsMonotone
  <2>5. versions[v].no <= Cardinality(VersionsOf(m)')
    BY <2>3, <2>4
  <2> QED
    BY <2>2, <2>5
<1>2. CASE DOMAIN versions' \subseteq DOMAIN versions
  BY <1>1, <1>2 DEF NumbersCounted
<1>3. CASE PublishAddVersion(r)
  <2>0. PICK m : m = target[r]
    OBVIOUS
  <2>1. /\ pc[r] = "add_version"
        /\ versions' = [v \in DOMAIN versions \cup {r} |->
                          IF v = r THEN Frozen(r) ELSE versions[v]]
    BY <1>3 DEF PublishAddVersion, AddPublishVersion
  <2>2. /\ r \notin DOMAIN versions
        /\ m \in Media
        /\ count[r] \in 0..Cardinality(VersionsOf(m))
    BY <2>0, <2>1 DEF PublishInv, HeldVersion, PublishPC
  <2>3. versions'[r].media = m /\ versions'[r].no = count[r] + 1
    BY <2>0, <2>1 DEF Frozen, NextNo
  <2>4. VersionsOf(m)' = VersionsOf(m) \cup {r}
    BY <2>1, <2>2, <2>3 DEF VersionsOf
  <2>5. r \notin VersionsOf(m) /\ IsFiniteSet(VersionsOf(m))
    BY <2>2, <1>0, VersionsFinite DEF VersionsOf
  <2>6. Cardinality(VersionsOf(m)') = Cardinality(VersionsOf(m)) + 1
    BY <2>4, <2>5, FS_AddElement
  <2>7. Cardinality(VersionsOf(m)) \in Nat
    BY <2>5, FS_CardinalityType
  <2>8. versions'[r].no <= Cardinality(VersionsOf(m)')
    BY <2>2, <2>3, <2>6, <2>7
  <2>10. (versions[r].no <= Cardinality(VersionsOf(versions[r].media)))'
    BY <2>3, <2>8
  <2>9. DOMAIN versions' = DOMAIN versions \cup {r}
    BY <2>1
  <2> QED
    BY <1>1, <2>9, <2>10 DEF NumbersCounted
<1>4. CASE WithdrawMark(r)
  BY <1>2, <1>4 DEF WithdrawMark, MarkWithdrawn
<1> QED
  BY <1>2, <1>3, <1>4, TableWriters

NumbersInv == TypeInv /\ PublishInv /\ NumbersCounted

LEMMA NumbersInvHolds == WorkbenchSpec => []NumbersInv
<1>1. WorkbenchInit => NumbersCounted
  BY DEF WorkbenchInit, EditInit, NumbersCounted
<1>2. TypeInv /\ PublishInv /\ TypeInv' /\ PublishInv' /\ NumbersCounted /\ [WorkbenchNext]_allVars
        => NumbersCounted'
  <2> SUFFICES ASSUME TypeInv, PublishInv, TypeInv', PublishInv', NumbersCounted,
                      [WorkbenchNext]_allVars
               PROVE  NumbersCounted'
    OBVIOUS
  <2>1. CASE UNCHANGED versions
    BY <2>1 DEF NumbersCounted, VersionsOf
  <2>2. ASSUME NEW r \in Request, Handled(r), UNCHANGED kind PROVE NumbersCounted'
    BY <2>2, TypeInvHandled, NumbersCountedHandled
  <2> QED
    BY <2>1, <2>2 DEF WorkbenchNext, WorkbenchQuiet, Served, allVars, vars, storeVars
<1> QED
  BY <1>1, <1>2, TypeInvHolds, PublishInvHolds, PTL DEF WorkbenchSpec, NumbersInv

\* The number a publish takes is above every number of its media there is when
\* it counts.
THEOREM NumbersFresh == WorkbenchSpec => FreshNumber
<1>1. ASSUME NumbersInv, [WorkbenchNext]_allVars,
             NEW r \in Request, pc[r] = "count_versions", pc'[r] = "add_version",
             NEW v \in VersionsOf(target[r])
      PROVE  versions[v].no < NextNo(count'[r])
  <2>1. PublishCount(r)
    <3>1. PICK q \in Request : Handled(q)
      BY <1>1 DEF WorkbenchNext, WorkbenchQuiet, Served, allVars, vars, qaVars
    <3>2. q = r
      BY <1>1, <3>1, OthersSame DEF NumbersInv, TypeInv, SameLocals
    <3>3. Arrays
      BY <1>1 DEF NumbersInv, TypeInv
    <3>4. ~(\E label \in StatsPC : Goto(r, label)) /\ ~\E answer : Reply(r, answer)
      BY <1>1, <3>3 DEF Goto, Reply, Arrays, IsArray, StatsPC
    <3>5. ~Recompute(r, into[r], "done") /\ ~EditStep(r)
      BY <1>1, <3>3, <3>4, RecomputeMoves
         DEF QualityPC, EditStep, EditGetSegment, EditLastActor, EditAddConflict,
             EditMarkConflict, EditPatch, EditGetSpeaker, EditUpdateSegment,
             EditAddRevision, EditRecompute, EditFail, Fail
    <3>6. Handled(r)
      BY <3>1, <3>2
    <3>7. PublishStep(r)
      BY <1>1, <3>4, <3>5, <3>6
         DEF Handled, BodyRefused, EditRequested, PublishRequested, WithdrawRequested,
             WithdrawStep, WithdrawGetVersion, WithdrawAddRecord, WithdrawMark,
             CompareRequested, CompareStep, CompareGetFirst, CompareGetSecond,
             ImportRequested, ImportStep, ImportGetMedia, ImportListSegments,
             ImportCreateSegments, ImportRecompute, MediaRequested, MediaCreate,
             SpeakerRequested, SpeakerStep, SpeakerGetMedia, SpeakerCreate,
             RecomputeRequested, RecomputeStep, RecomputeGetMedia, StatsRequested,
             StatsStep, StatsListMedia, StatsCountSegments, StatsCountVersions,
             CountTable, RequestFails, Fail
    <3> QED
      BY <1>1, <3>7 DEF PublishStep, PublishGetMedia, PublishListSegments,
                       PublishListSpeakers, PublishAddVersion, PublishMarkMedia
  <2>2. count'[r] = Cardinality(VersionsOf(target[r]))
    BY <1>1, <2>1 DEF PublishCount, CountPublishVersions, VersionsOf, NumbersInv,
                      TypeInv, Arrays, IsArray
  <2>3. versions[v].no <= Cardinality(VersionsOf(target[r]))
    BY <1>1 DEF NumbersInv, NumbersCounted, VersionsOf
  <2>4. versions[v].no \in Nat
    BY <1>1 DEF NumbersInv, TypeInv, TablesTyped, IsVersion, VersionsOf
  <2>5. Cardinality(VersionsOf(target[r])) \in Nat
    BY <1>1, VersionsFinite DEF NumbersInv, PublishInv
  <2> QED
    BY <2>2, <2>3, <2>4, <2>5 DEF NextNo
<1>2. NumbersInv /\ [WorkbenchNext]_allVars =>
        [\A r \in Request :
           pc[r] = "count_versions" /\ pc'[r] = "add_version"
             => \A v \in VersionsOf(target[r]) :
                  versions[v].no < NextNo(count'[r])]_allVars
  BY <1>1
<1> QED
  BY <1>2, NumbersInvHolds, PTL DEF WorkbenchSpec, FreshNumber
-----------------------------------------------------------------------------
(***************************************************************************)
(* What an edit leaves behind: the row it checked, its audit row, its      *)
(* conflict row.                                                           *)
(***************************************************************************)

\* The speaker an audit row brings in was registered.
Referable(v) ==
  v.after.speaker \notin {v.before.speaker, NoSpeaker}
    => speakers[v.after.speaker] # None

HeldImages(r) ==
  /\ pc[r] \in {"get_speaker", "update_segment"} => Positive(row[r])
  /\ pc[r] \in {"get_speaker", "update_segment", "add_revision"} => rev[r].id = r
  /\ pc[r] = "get_speaker" =>
       rev[r].after.speaker \in {rev[r].before.speaker, NoSpeaker, req[r].edit.speaker}
  /\ pc[r] \in {"update_segment", "add_revision"} => Referable(rev[r])
  /\ pc[r] \in {"add_conflict", "mark_conflict"} => conf[r].id = r
  /\ pc[r] \in QualityPC \/ outcome[r] = "ok" => rev[r] \in revisions /\ rev[r].id = r
  /\ pc[r] = "mark_conflict" \/ outcome[r] = "conflict"
       => conf[r] \in conflicts /\ conf[r].id = r

ImagesInv ==
  /\ PositiveDuration
  /\ OrphansImported
  /\ \A r \in Request : kind[r] = "edit" => HeldImages(r)

LEMMA ImagesInvInit == WorkbenchInit => ImagesInv
<1> SUFFICES ASSUME WorkbenchInit PROVE ImagesInv
  OBVIOUS
<1>1. EditInit
  BY DEF WorkbenchInit
<1>2. PositiveDuration
  BY <1>1, SeedAssumption DEF EditInit, PositiveDuration
<1>3. OrphansImported
  BY <1>1 DEF EditInit, OrphansImported
<1>4. ASSUME NEW r \in Request PROVE HeldImages(r)
  <2>1. pc[r] = "new" /\ outcome[r] = None /\ None \notin {"ok", "conflict"}
    BY <1>1, OutcomeAssumption DEF EditInit, QualityInit, Outcome
  <2> QED
    BY <2>1 DEF HeldImages, QualityPC
<1> QED
  BY <1>2, <1>3, <1>4 DEF ImagesInv

\* Every stored row ends after it starts: the row checked is the row written.
LEMMA DurationHandled ==
  ASSUME TypeInv, ImagesInv, NEW r \in Request, Handled(r)
  PROVE  PositiveDuration'
<1>1. \A s \in Segment : segments[s] # None => Positive(segments[s])
  BY DEF ImagesInv, PositiveDuration
<1>2. segments \in [Segment -> Row \cup {None}]
  BY DEF TypeInv, TablesTyped, TablesOK
<1>3. CASE segments' = segments
  BY <1>1, <1>3 DEF PositiveDuration
<1>4. CASE kind[r] = "edit" /\ EditMarkConflict(r)
  <2>1. pc[r] \in Editing /\ LocalsOK(r)
    BY <1>4 DEF TypeInv, Held, HeldEdit, EditMarkConflict, Editing, EditPC
  <2>2. /\ req[r].seg \in Segment
        /\ segments[req[r].seg] \in Row
    BY <2>1 DEF LocalsOK, EditRequest
  <2> DEFINE marked == [segments[req[r].seg] EXCEPT !.status = "conflict"]
  <2>3. marked.start = segments[req[r].seg].start /\ marked.end = segments[req[r].seg].end
    BY <2>2 DEF Row
  <2>4. Positive(marked)
    BY <1>1, <2>2, <2>3, EditAssumption DEF Positive
  <2>5. segments' = segments \/ segments' = [segments EXCEPT ![req[r].seg] = marked]
    BY <1>4 DEF EditMarkConflict, UpdateSegmentStatus, storeVars
  <2> HIDE DEF marked
  <2> QED
    BY <1>1, <1>2, <2>2, <2>4, <2>5 DEF PositiveDuration
<1>5. CASE kind[r] = "edit" /\ EditUpdateSegment(r)
  <2>1. Positive(row[r])
    BY <1>5 DEF ImagesInv, HeldImages, EditUpdateSegment
  <2> QED
    BY <1>1, <1>2, <1>5, <2>1 DEF EditUpdateSegment, UpdateSegment, PositiveDuration
<1>6. CASE kind[r] = "import" /\ ImportCreateSegments(r)
  <2>1. PICK ids \in SUBSET Segment : Inserted(r, ids)
    BY <1>6, ImportWrites
  <2>2. \A i \in DOMAIN batch[r] : batch[r][i].start < batch[r][i].end
    BY <1>6 DEF TypeInv, Held, HeldIntake, ImportCreateSegments
  <2>3. ASSUME NEW s \in ids PROVE Positive(segments'[s])
    <3>1. PICK i \in DOMAIN batch[r] : segments'[s] = NewRow(into[r], batch[r][i])
      BY <2>1 DEF Inserted
    <3>2. /\ segments'[s].start = batch[r][i].start
          /\ segments'[s].end = batch[r][i].end
      BY <3>1 DEF NewRow
    <3> QED
      BY <2>2, <3>2 DEF Positive
  <2> QED
    BY <1>1, <2>1, <2>3 DEF Inserted, PositiveDuration
<1> QED
  BY <1>3, <1>4, <1>5, <1>6, TableWriters

\* The speaker of a patched row is the old one, none, or the one asked for.
LEMMA PatchedSpeaker ==
  ASSUME NEW seg \in Row, NEW edit \in Edits
  PROVE  /\ Patched(seg, edit).speaker \in {seg.speaker, NoSpeaker, edit.speaker}
         /\ ~NamesSpeaker(edit) => Patched(seg, edit).speaker \in {seg.speaker, NoSpeaker}
BY DEF Patched, Row, Given, NamesSpeaker

LEMMA OrphansHandled ==
  ASSUME TypeInv, ImagesInv, NEW r \in Request, Handled(r), Grow
  PROVE  OrphansImported'
<1>1. \A v \in revisions : Referable(v)
  BY DEF ImagesInv, OrphansImported, Referable
<1>2. ASSUME NEW v \in Revision, Referable(v)
      PROVE  v.after.speaker \notin {v.before.speaker, NoSpeaker}
               => speakers'[v.after.speaker] # None
  <2>1. v.after.speaker \in Speaker \cup {NoSpeaker}
    BY DEF Revision, Row
  <2> QED
    BY <1>2, <2>1 DEF Referable, Grow
<1>3. \A v \in revisions' : v \in revisions \/ (kind[r] = "edit" /\ EditAddRevision(r) /\ v = rev[r])
  BY TableWriters DEF EditAddRevision, AddRevision
<1>4. ASSUME kind[r] = "edit", EditAddRevision(r)
      PROVE  rev[r] \in Revision /\ Referable(rev[r])
  BY <1>4 DEF EditAddRevision, TypeInv, Held, HeldEdit, LocalsOK, ImagesInv, HeldImages
<1>5. revisions \subseteq Revision
  BY DEF TypeInv, TablesTyped, TablesOK
<1> QED
  BY <1>1, <1>2, <1>3, <1>4, <1>5 DEF OrphansImported

LEMMA OthersImages ==
  ASSUME TypeInv, Grow, NEW q \in Request, kind[q] = "edit", SameLocals(q),
         HeldImages(q)
  PROVE  HeldImages(q)'
<1>1. /\ pc'[q] = pc[q] /\ outcome'[q] = outcome[q] /\ req'[q] = req[q]
      /\ row'[q] = row[q] /\ rev'[q] = rev[q] /\ conf'[q] = conf[q]
  BY DEF SameLocals
<1>2. revisions \subseteq revisions' /\ conflicts \subseteq conflicts'
  BY DEF Grow
<1>3. ASSUME pc[q] \in {"update_segment", "add_revision"} PROVE Referable(rev[q])'
  <2>1. rev[q] \in Revision /\ Referable(rev[q])
    BY <1>3 DEF TypeInv, Held, HeldEdit, LocalsOK, HeldImages
  <2>2. rev[q].after.speaker \in Speaker \cup {NoSpeaker}
    BY <2>1 DEF Revision, Row
  <2> QED
    BY <1>1, <2>1, <2>2 DEF Referable, Grow
<1> QED
  BY <1>1, <1>2, <1>3 DEF HeldImages

LEMMA EditImages ==
  ASSUME TypeInv, Grow, NEW r \in Request, kind[r] = "edit", EditStep(r),
         HeldImages(r)
  PROVE  HeldImages(r)'
<1> USE DEF Arrays, IsArray, QualityPC
<1>0. None \notin {"ok", "conflict"}
  BY OutcomeAssumption DEF Outcome
<1>1. Arrays /\ LocalsOK(r) /\ (pc[r] # "done" => outcome[r] = None)
  BY DEF TypeInv, Held, HeldEdit, TypedLocals
<1>2. CASE pc'[r] = "done" /\ outcome'[r] \notin {"ok", "conflict"}
  BY <1>2 DEF HeldImages
<1>3. CASE pc'[r] \in {"last_actor", "patch"} /\ outcome'[r] = None
  BY <1>0, <1>3 DEF HeldImages
<1>4. CASE EditGetSegment(r)
  <2>1. pc[r] = "new" /\ (Reply(r, "notfound") \/ Reply(r, "invalid")
                            \/ Goto(r, "last_actor") \/ Goto(r, "patch"))
    BY <1>4 DEF EditGetSegment
  <2> QED
    BY <1>1, <1>2, <1>3, <2>1 DEF Goto, Reply
<1>5. CASE EditLastActor(r)
  <2>1. pc'[r] = "add_conflict" /\ outcome'[r] = None /\ conf'[r].id = r
    BY <1>1, <1>5 DEF EditLastActor, Goto
  <2> QED
    BY <1>0, <2>1 DEF HeldImages
<1>6. CASE EditAddConflict(r)
  <2>1. /\ pc[r] = "add_conflict" /\ pc'[r] = "mark_conflict" /\ outcome'[r] = None
        /\ conf' = conf /\ conflicts' = conflicts \cup {conf[r]}
    BY <1>1, <1>6 DEF EditAddConflict, AddConflict, Goto, editVars
  <2> QED
    BY <1>0, <2>1 DEF HeldImages
<1>7. CASE EditMarkConflict(r)
  <2>1. /\ pc[r] = "mark_conflict" /\ pc'[r] = "done" /\ outcome'[r] = "conflict"
        /\ conf' = conf /\ conflicts' = conflicts
    BY <1>1, <1>7 DEF EditMarkConflict, UpdateSegmentStatus, Reply, editVars, storeVars
  <2> QED
    BY <2>1 DEF HeldImages
<1>8. CASE EditPatch(r)
  <2> DEFINE p == Patched(row[r], req[r].edit)
  <2>1. /\ pc[r] = "patch"
        /\ row'[r] = p
        /\ rev'[r] = Audit(r, row[r], p)
        /\ req' = req
        /\ IF ~EndAfterStart(p) THEN Reply(r, "invalid")
           ELSE Goto(r, IF NamesSpeaker(req[r].edit) THEN "get_speaker"
                                                     ELSE "update_segment")
    BY <1>1, <1>8 DEF EditPatch
  <2>2. row[r] \in Row /\ req[r].edit \in Edits
    BY <1>1, <2>1 DEF LocalsOK, Editing, EditPC, EditRequest
  <2>3. /\ p.speaker \in {row[r].speaker, NoSpeaker, req[r].edit.speaker}
        /\ ~NamesSpeaker(req[r].edit) => p.speaker \in {row[r].speaker, NoSpeaker}
    BY <2>2, PatchedSpeaker
  <2>4. p \in Row
    BY <2>2, PatchedType
  <2> HIDE DEF p
  <2>5. rev'[r].id = r /\ rev'[r].before = row[r] /\ rev'[r].after = p
    BY <2>1 DEF Audit
  <2>6. CASE pc'[r] = "done"
    BY <1>1, <1>2, <2>1, <2>6 DEF Goto, Reply
  <2>7. CASE pc'[r] # "done"
    <3>1. Positive(p)
      BY <1>1, <2>1, <2>4, <2>7 DEF EndAfterStart, Positive, Reply, Row
    <3>2. CASE NamesSpeaker(req[r].edit)
      <4>1. pc'[r] = "get_speaker" /\ outcome'[r] = None
        BY <1>1, <2>1, <2>7, <3>2 DEF Goto, Reply
      <4> QED
        BY <1>0, <2>1, <2>3, <2>5, <3>1, <4>1 DEF HeldImages
    <3>3. CASE ~NamesSpeaker(req[r].edit)
      <4>1. pc'[r] = "update_segment" /\ outcome'[r] = None
        BY <1>1, <2>1, <2>7, <3>3 DEF Goto, Reply
      <4>2. Referable(rev[r])'
        BY <2>3, <2>5, <3>3 DEF Referable
      <4> QED
        BY <1>0, <2>1, <2>5, <3>1, <4>1, <4>2 DEF HeldImages
    <3> QED
      BY <3>2, <3>3
  <2> QED
    BY <2>6, <2>7
<1>9. CASE EditGetSpeaker(r)
  <2>1. /\ pc[r] = "get_speaker"
        /\ UNCHANGED <<speakers, req, row, rev>>
        /\ \/ Reply(r, "notfound")
           \/ speakers[req[r].edit.speaker] # None /\ Goto(r, "update_segment")
    BY <1>9 DEF EditGetSpeaker, GetSpeaker, storeVars, editVars
  <2>2. CASE Reply(r, "notfound")
    BY <1>1, <1>2, <2>2 DEF Reply
  <2>3. CASE speakers[req[r].edit.speaker] # None /\ Goto(r, "update_segment")
    <3>1. pc'[r] = "update_segment" /\ outcome'[r] = None
      BY <1>1, <2>1, <2>3 DEF Goto
    <3>2. Referable(rev[r])'
      BY <2>1, <2>3 DEF Referable, HeldImages
    <3> QED
      BY <1>0, <2>1, <3>1, <3>2 DEF HeldImages
  <2> QED
    BY <2>1, <2>2, <2>3
<1>10. CASE EditUpdateSegment(r)
  <2>1. /\ pc[r] = "update_segment" /\ pc'[r] = "add_revision" /\ outcome'[r] = None
        /\ UNCHANGED <<speakers, rev>>
    BY <1>1, <1>10 DEF EditUpdateSegment, UpdateSegment, Goto, editVars
  <2>2. Referable(rev[r])'
    BY <2>1 DEF Referable, HeldImages
  <2> QED
    BY <1>0, <2>1, <2>2 DEF HeldImages
<1>11. CASE EditAddRevision(r)
  <2>1. /\ pc[r] = "add_revision" /\ pc'[r] = "list_segments" /\ outcome'[r] = None
        /\ rev' = rev /\ revisions' = revisions \cup {rev[r]}
    BY <1>1, <1>11 DEF EditAddRevision, AddRevision, Goto, editVars
  <2> QED
    BY <1>0, <2>1 DEF HeldImages
<1>12. CASE EditRecompute(r)
  <2>1. /\ pc[r] \in QualityPC /\ pc'[r] \in QualityPC \cup {"done"}
        /\ rev' = rev /\ revisions' = revisions
    BY <1>1, <1>12, RecomputeMoves, RecomputeWrites DEF EditRecompute, editVars
  <2>2. outcome'[r] \in {None, "ok"}
    BY <1>1, <1>12, <2>1 DEF EditRecompute, Recompute, RecomputeListSegments,
       RecomputeListSpeakers, RecomputeDelete, RecomputeAdd, Return, Goto, Reply
  <2>3. None # "conflict"
    BY <1>0
  <2> QED
    BY <2>1, <2>2, <2>3 DEF HeldImages
<1>13. CASE EditFail(r)
  BY <1>1, <1>2, <1>13 DEF EditFail, Fail, Reply
<1> QED
  BY <1>4, <1>5, <1>6, <1>7, <1>8, <1>9, <1>10, <1>11, <1>12, <1>13 DEF EditStep

LEMMA ImagesInvHandled ==
  ASSUME TypeInv, ImagesInv, NEW r \in Request, Handled(r), Grow, UNCHANGED kind
  PROVE  ImagesInv'
<1>1. PositiveDuration' /\ OrphansImported'
  BY DurationHandled, OrphansHandled
<1>2. ASSUME NEW q \in Request, kind[q] = "edit" PROVE HeldImages(q)'
  <2>1. HeldImages(q)
    BY <1>2 DEF ImagesInv
  <2>2. CASE q # r
    BY <1>2, <2>1, <2>2, OthersImages, OthersSame DEF TypeInv
  <2>3. CASE q = r /\ EditStep(r)
    BY <1>2, <2>1, <2>3, EditImages
  <2>4. CASE q = r /\ Refused(r)
    BY <2>4, OutcomeAssumption
       DEF Refused, Reply, HeldImages, QualityPC, TypeInv, Arrays, IsArray
  <2> QED
    BY <1>2, <2>2, <2>3, <2>4, ServedByKind DEF EditRequested
<1> QED
  BY <1>1, <1>2 DEF ImagesInv

LEMMA ImagesInvHolds == WorkbenchSpec => []ImagesInv
<1>1. TypeInv /\ PublishInv /\ ImagesInv /\ [WorkbenchNext]_allVars => ImagesInv'
  <2> SUFFICES ASSUME TypeInv, PublishInv, ImagesInv, [WorkbenchNext]_allVars
               PROVE  ImagesInv'
    OBVIOUS
  <2>1. CASE UNCHANGED allVars
    BY <2>1 DEF allVars, vars, storeVars, qaVars, editVars, ImagesInv, PositiveDuration,
                OrphansImported, HeldImages, Referable
  <2>2. CASE (\E r \in Request : Served(r)) /\ UNCHANGED kind
    BY <2>2, TypeInvHandled, ImagesInvHandled DEF Served
  <2> QED
    BY <2>1, <2>2 DEF WorkbenchNext, WorkbenchQuiet
<1> QED
  BY <1>1, ImagesInvInit, TypeInvHolds, PublishInvHolds, PTL DEF WorkbenchSpec
-----------------------------------------------------------------------------
(***************************************************************************)
(* What was answered is stored.                                            *)
(***************************************************************************)

\* Of every line of r's batch there is a row.
RowsThere(r) ==
  \A i \in DOMAIN batch[r] : \E s \in Segment :
    /\ segments[s] # None
    /\ segments[s].media = into[r]
    /\ segments[s].idx = batch[r][i].idx

HeldAnswer(r) ==
  /\ kind[r] = "publish" =>
       /\ pc[r] = "publish_media" \/ outcome[r] = "ok" =>
            /\ target[r] \in Media
            /\ r \in DOMAIN versions
            /\ versions[r].snap = snap[r]
       /\ outcome[r] = "ok" => media[target[r]] = "published"
  /\ kind[r] = "withdraw" =>
       /\ pc[r] = "mark_withdrawn" \/ outcome[r] = "ok" =>
            wd[r] \in withdrawals /\ wd[r].version \in DOMAIN versions
       /\ outcome[r] = "ok" => versions[wd[r].version].withdrawn
  /\ kind[r] = "import" =>
       (pc[r] \in QualityPC \/ outcome[r] = "ok" => RowsThere(r))

AnswersInv == \A r \in Request : HeldAnswer(r)

LEMMA AnswersInvInit == WorkbenchInit => AnswersInv
<1> SUFFICES ASSUME WorkbenchInit, NEW r \in Request PROVE HeldAnswer(r)
  BY DEF AnswersInv
<1>1. pc[r] = "new" /\ outcome[r] = None /\ None # "ok"
  BY OutcomeAssumption DEF WorkbenchInit, EditInit, QualityInit, Outcome
<1> QED
  BY <1>1 DEF HeldAnswer, QualityPC

LEMMA OthersAnswer ==
  ASSUME TypeInv, Grow, NEW q \in Request, SameLocals(q), UNCHANGED kind, HeldAnswer(q)
  PROVE  HeldAnswer(q)'
<1> USE DEF SameLocals
<1>1. ASSUME kind[q] = "publish",
             pc[q] = "publish_media" \/ outcome[q] = "ok"
      PROVE  /\ target'[q] \in Media
             /\ q \in DOMAIN versions'
             /\ versions'[q].snap = snap'[q]
             /\ outcome[q] = "ok" => media'[target'[q]] = "published"
  BY <1>1 DEF HeldAnswer, Grow
<1>2. ASSUME kind[q] = "withdraw",
             pc[q] = "mark_withdrawn" \/ outcome[q] = "ok"
      PROVE  /\ wd'[q] \in withdrawals'
             /\ wd'[q].version \in DOMAIN versions'
             /\ outcome[q] = "ok" => versions'[wd'[q].version].withdrawn
  BY <1>2 DEF HeldAnswer, Grow
<1>3. ASSUME RowsThere(q) PROVE RowsThere(q)'
  <2>1. ASSUME NEW i \in DOMAIN batch[q]
        PROVE  \E s \in Segment : /\ segments'[s] # None
                                  /\ segments'[s].media = into[q]
                                  /\ segments'[s].idx = batch[q][i].idx
    BY <1>3, <2>1 DEF RowsThere, Grow, SamePlace
  <2> QED
    BY <2>1 DEF RowsThere
<1> QED
  BY <1>1, <1>2, <1>3 DEF HeldAnswer

LEMMA PublishAnswer ==
  ASSUME TypeInv, NEW r \in Request, kind[r] = "publish", PublishStep(r), Grow,
         HeldAnswer(r), UNCHANGED kind
  PROVE  HeldAnswer(r)'
<1> USE DEF Arrays, IsArray, PublishPC
<1>1. Arrays /\ HeldPublish(r) /\ (pc[r] # "done" => outcome[r] = None)
      /\ None \notin {"ok"}
  BY OutcomeAssumption DEF TypeInv, Held, TypedLocals, Outcome
<1>2. CASE PublishAddVersion(r)
  <2>1. /\ pc[r] = "add_version" /\ pc'[r] = "publish_media" /\ outcome'[r] = None
        /\ UNCHANGED <<target, snap>>
        /\ versions' = [v \in DOMAIN versions \cup {r} |->
                          IF v = r THEN Frozen(r) ELSE versions[v]]
    BY <1>1, <1>2 DEF PublishAddVersion, AddPublishVersion, Goto, publishVars
  <2>2. r \in DOMAIN versions' /\ versions'[r].snap = snap[r]
    BY <2>1 DEF Frozen
  <2> QED
    BY <1>1, <2>1, <2>2 DEF HeldAnswer, HeldPublish
<1>3. CASE PublishMarkMedia(r)
  <2>1. /\ pc[r] = "publish_media" /\ pc'[r] = "done" /\ outcome'[r] = "ok"
        /\ UNCHANGED <<target, snap, versions>>
        /\ media' = [media EXCEPT ![target[r]] = "published"]
    BY <1>1, <1>3 DEF PublishMarkMedia, UpdateMediaStatus, Reply, publishVars
  <2>2. media'[target[r]] = "published"
    BY <1>1, <2>1 DEF HeldPublish, TypeInv, TablesTyped, TablesOK
  <2> QED
    BY <2>1, <2>2 DEF HeldAnswer
<1>4. CASE PublishGetMedia(r) \/ PublishListSegments(r) \/ PublishListSpeakers(r)
             \/ PublishCount(r)
  <2>1. /\ pc[r] \in {"new", "pub_list_segments", "pub_list_speakers", "count_versions"}
        /\ \/ Reply(r, "notfound") \/ Reply(r, "invalid")
           \/ \E label \in PublishPC \ {"publish_media"} : Goto(r, label)
    BY <1>4 DEF PublishGetMedia, PublishListSegments, PublishListSpeakers, PublishCount
  <2>2. pc'[r] # "publish_media" /\ outcome'[r] # "ok"
    BY <1>1, <2>1 DEF Goto, Reply
  <2> QED
    BY <2>2 DEF HeldAnswer
<1> QED
  BY <1>2, <1>3, <1>4 DEF PublishStep

LEMMA WithdrawAnswer ==
  ASSUME TypeInv, PublishInv, NEW r \in Request, kind[r] = "withdraw",
         WithdrawStep(r), HeldAnswer(r), UNCHANGED kind
  PROVE  HeldAnswer(r)'
<1> USE DEF Arrays, IsArray, WithdrawPC
<1>1. Arrays /\ (pc[r] # "done" => outcome[r] = None) /\ None \notin {"ok"}
  BY OutcomeAssumption DEF TypeInv, Held, TypedLocals, Outcome
<1>2. CASE WithdrawGetVersion(r)
  <2>1. /\ pc[r] = "new"
        /\ Reply(r, "notfound") \/ Reply(r, "withdrawn") \/ Goto(r, "add_withdrawal")
    BY <1>2 DEF WithdrawGetVersion
  <2>2. pc'[r] # "mark_withdrawn" /\ outcome'[r] # "ok"
    BY <1>1, <2>1 DEF Goto, Reply
  <2> QED
    BY <2>2 DEF HeldAnswer
<1>3. CASE WithdrawAddRecord(r)
  <2>1. /\ pc[r] = "add_withdrawal" /\ pc'[r] = "mark_withdrawn" /\ outcome'[r] = None
        /\ UNCHANGED <<wd, versions>> /\ withdrawals' = withdrawals \cup {wd[r]}
    BY <1>1, <1>3 DEF WithdrawAddRecord, AddWithdrawal, Goto, publishVars
  <2>2. wd[r].version \in DOMAIN versions
    BY <2>1 DEF PublishInv, HeldVersion
  <2> QED
    BY <1>1, <2>1, <2>2 DEF HeldAnswer
<1>4. CASE WithdrawMark(r)
  <2> DEFINE x == wd[r].version
  <2>1. /\ pc[r] = "mark_withdrawn" /\ pc'[r] = "done" /\ outcome'[r] = "ok"
        /\ UNCHANGED <<wd, withdrawals>>
        /\ versions' = [versions EXCEPT ![x] = [@ EXCEPT !.withdrawn = TRUE]]
    BY <1>1, <1>4 DEF WithdrawMark, MarkWithdrawn, Reply, publishVars
  <2>2. x \in DOMAIN versions /\ wd[r] \in withdrawals
    BY <2>1 DEF PublishInv, HeldVersion
  <2>3. IsVersion(versions[x])
    BY <2>2 DEF TypeInv, TablesTyped
  <2>4. x \in DOMAIN versions' /\ versions'[x].withdrawn
    BY <2>1, <2>2, <2>3 DEF IsVersion
  <2> QED
    BY <2>1, <2>2, <2>4 DEF HeldAnswer
<1> QED
  BY <1>2, <1>3, <1>4 DEF WithdrawStep

\* The rows of a batch are all there once they are inserted.
LEMMA InsertedAll ==
  ASSUME NEW r \in Request, NEW ids \in SUBSET Segment, Inserted(r, ids),
         batch[r] \in Batches, segments' \in [Segment -> Row \cup {None}],
         UNCHANGED <<into, batch>>
  PROVE  RowsThere(r)'
<1>1. DOMAIN batch[r] = 1..Len(batch[r])
  BY IntakeAssumption
<1>2. IsFiniteSet(ids) /\ ids \in SUBSET Nat
  BY StoreAssumption, FS_Subset
<1>3. ASSUME NEW i \in DOMAIN batch[r]
      PROVE  \E s \in Segment : /\ segments'[s] # None
                                /\ segments'[s].media = into[r]
                                /\ segments'[s].idx = batch[r][i].idx
  <2>1. PICK s \in ids : Rank(ids, s) = i
    BY <1>1, <1>2, RankEnumerates DEF Inserted
  <2>2. segments'[s] = NewRow(into[r], batch[r][i]) /\ segments'[s] \in Row
    BY <2>1 DEF Inserted
  <2>3. segments'[s].media = into[r] /\ segments'[s].idx = batch[r][i].idx
    BY <2>2 DEF NewRow
  <2> QED
    BY <2>2, <2>3, EditAssumption
<1> QED
  BY <1>3 DEF RowsThere

LEMMA ImportAnswer ==
  ASSUME TypeInv, NEW r \in Request, kind[r] = "import", ImportStep(r),
         segments' \in [Segment -> Row \cup {None}], HeldAnswer(r), UNCHANGED kind
  PROVE  HeldAnswer(r)'
<1> USE DEF Arrays, IsArray
<1>1. Arrays /\ HeldIntake(r) /\ (pc[r] # "done" => outcome[r] = None)
      /\ None \notin {"ok"}
  BY OutcomeAssumption DEF TypeInv, Held, TypedLocals, Outcome
<1>2. CASE ImportGetMedia(r) \/ ImportListSegments(r)
  <2>1. /\ pc[r] \in {"new", "imp_list_segments"}
        /\ \/ Reply(r, "notfound") \/ Reply(r, "invalid")
           \/ Goto(r, "imp_list_segments") \/ Goto(r, "create_segments")
    BY <1>2 DEF ImportGetMedia, ImportListSegments
  <2>2. pc'[r] \notin QualityPC /\ outcome'[r] # "ok"
    BY <1>1, <2>1 DEF Goto, Reply, QualityPC
  <2> QED
    BY <2>2 DEF HeldAnswer
<1>3. CASE ImportCreateSegments(r)
  <2>1. UNCHANGED <<into, batch>> /\ pc[r] = "create_segments"
    BY <1>3 DEF ImportCreateSegments, intakeVars
  <2>2. batch[r] \in Batches
    BY <1>1, <2>1 DEF HeldIntake
  <2>3. RowsThere(r)'
    BY <1>3, <2>1, <2>2, ImportWrites, InsertedAll
  <2> QED
    BY <2>3 DEF HeldAnswer
<1>4. CASE ImportRecompute(r)
  <2>1. pc[r] \in QualityPC /\ UNCHANGED <<into, batch, segments>>
    BY <1>1, <1>4, RecomputeMoves, RecomputeWrites DEF ImportRecompute, intakeVars
  <2>2. RowsThere(r)'
    BY <2>1 DEF HeldAnswer, RowsThere
  <2> QED
    BY <2>2 DEF HeldAnswer
<1> QED
  BY <1>2, <1>3, <1>4 DEF ImportStep

LEMMA AnswersInvHandled ==
  ASSUME TypeInv, PublishInv, AnswersInv, NEW r \in Request, Handled(r), Grow,
         UNCHANGED kind
  PROVE  AnswersInv'
<1>1. ASSUME NEW q \in Request PROVE HeldAnswer(q)'
  <2>1. HeldAnswer(q)
    BY DEF AnswersInv
  <2>2. CASE q # r
    BY <2>1, <2>2, OthersAnswer, OthersSame DEF TypeInv
  <2>3. CASE q = r /\ Refused(r)
    BY <2>3 DEF Refused, Reply, HeldAnswer, QualityPC, TypeInv, Arrays, IsArray
  <2>4. CASE q = r /\ kind[r] = "publish" /\ PublishRequested(r)
    BY <2>1, <2>4, PublishAnswer DEF PublishRequested
  <2>5. CASE q = r /\ kind[r] = "withdraw" /\ WithdrawRequested(r)
    BY <2>1, <2>5, WithdrawAnswer DEF WithdrawRequested
  <2>6. CASE q = r /\ kind[r] = "import" /\ ImportRequested(r)
    BY <2>1, <2>6, ImportAnswer, SegmentsTyped DEF ImportRequested
  <2>7. CASE kind[q] \notin {"publish", "withdraw", "import"}
    BY <2>7 DEF HeldAnswer
  <2> QED
    BY <2>2, <2>3, <2>4, <2>5, <2>6, <2>7, ServedByKind
<1> QED
  BY <1>1 DEF AnswersInv

LEMMA AnswersInvHolds == WorkbenchSpec => []AnswersInv
<1>1. TypeInv /\ PublishInv /\ AnswersInv /\ [WorkbenchNext]_allVars => AnswersInv'
  <2> SUFFICES ASSUME TypeInv, PublishInv, AnswersInv, [WorkbenchNext]_allVars
               PROVE  AnswersInv'
    OBVIOUS
  <2>1. CASE UNCHANGED allVars
    BY <2>1 DEF allVars, vars, storeVars, qaVars, publishVars, intakeVars, AnswersInv,
                HeldAnswer, RowsThere
  <2>2. CASE (\E r \in Request : Served(r)) /\ UNCHANGED kind
    BY <2>2, TypeInvHandled, AnswersInvHandled DEF Served
  <2> QED
    BY <2>1, <2>2 DEF WorkbenchNext, WorkbenchQuiet
<1> QED
  BY <1>1, AnswersInvInit, TypeInvHolds, PublishInvHolds, PTL DEF WorkbenchSpec

\* What a client was told is in the tables.
LEMMA HeldStored == ImagesInv /\ AnswersInv => AnsweredStored
<1> SUFFICES ASSUME ImagesInv, AnswersInv, NEW r \in Request
             PROVE  /\ kind[r] = "edit" /\ outcome[r] = "ok" => rev[r] \in revisions
                    /\ kind[r] = "edit" /\ outcome[r] = "conflict" => conf[r] \in conflicts
                    /\ kind[r] = "publish" /\ outcome[r] = "ok" =>
                         /\ r \in DOMAIN versions
                         /\ versions[r].snap = snap[r]
                         /\ media[target[r]] = "published"
                    /\ kind[r] = "withdraw" /\ outcome[r] = "ok" =>
                         /\ wd[r] \in withdrawals
                         /\ versions[wd[r].version].withdrawn
                    /\ kind[r] = "import" /\ outcome[r] = "ok" => RowsThere(r)
  BY DEF AnsweredStored, RowsThere
<1> QED
  BY DEF ImagesInv, HeldImages, AnswersInv, HeldAnswer

\* What a client was told is in the tables, whatever is served next to it and
\* whichever store calls fail.
THEOREM AnswersStored == WorkbenchSpec => []AnsweredStored
BY HeldStored, ImagesInvHolds, AnswersInvHolds, PTL

\* Every stored row ends after it starts, whichever handlers write it.
THEOREM StoredDurationsPositive == WorkbenchSpec => []PositiveDuration
<1>1. ImagesInv => PositiveDuration
  BY DEF ImagesInv
<1> QED
  BY <1>1, ImagesInvHolds, PTL

\* No edit makes an orphan reference.
THEOREM NoEditMakesOrphans == WorkbenchSpec => []OrphansImported
<1>1. ImagesInv => OrphansImported
  BY DEF ImagesInv
<1> QED
  BY <1>1, ImagesInvHolds, PTL

-----------------------------------------------------------------------------
(***************************************************************************)
(* Conflict marks and unaudited rows among requests of every kind: imports *)
(* add rows that nobody marked or edited, and only edits write the others. *)
(***************************************************************************)

MarksInv ==
  /\ ConflictMarkExplained
  /\ \A r \in Request : kind[r] = "edit" => HeldMark(r)

LEMMA MarksInvInit == WorkbenchInit => MarksInv
BY MarkInit DEF WorkbenchInit, MarksInv, MarkInv

\* An edit is served by EditStep, or refused before it has begun.
LEMMA EditServed ==
  ASSUME NEW r \in Request, kind[r] = "edit", Handled(r)
  PROVE  EditStep(r) \/ BodyRefused(r)
BY DEF Handled, EditRequested, PublishRequested, WithdrawRequested, CompareRequested,
       ImportRequested, MediaRequested, SpeakerRequested, RecomputeRequested,
       StatsRequested, RequestFails, SpeakerStep

\* What an edit that is being served knows of its segment.
LEMMA EditKnows ==
  ASSUME TypeInv, NEW r \in Request, kind[r] = "edit", pc[r] \in Editing
  PROVE  /\ req[r] \in EditRequest /\ req[r].seg \in Segment /\ req[r].edit \in Edits
         /\ req[r].actor \in Actor
         /\ row[r] \in Row /\ segments[req[r].seg] \in Row
BY DEF TypeInv, Held, HeldEdit, LocalsOK, EditRequest

LEMMA EditMarks ==
  ASSUME TypeInv, MarksInv, NEW r \in Request, kind[r] = "edit", EditStep(r), Grow
  PROVE  HeldMark(r)'
<1> USE DEF Arrays, IsArray
<1>1. /\ Arrays /\ HeldMark(r)
      /\ \A s : Recorded(s) => Recorded(s)'
  BY DEF TypeInv, MarksInv, Recorded, Grow
<1>2. CASE pc'[r] \notin {"patch", "get_speaker", "update_segment", "add_conflict",
                          "mark_conflict"}
  BY <1>2 DEF HeldMark
<1>3. CASE EditGetSegment(r)
  <2>1. PICK g \in EditRequest :
          /\ req'[r] = g
          /\ \/ pc'[r] \in {"done", "last_actor"}
             \/ /\ pc'[r] = "patch"
                /\ segments[g.seg] # None
                /\ row'[r] = segments[g.seg]
    BY <1>1, <1>3 DEF EditGetSegment, GetSegment, Goto, Reply
  <2>2. pc'[r] = "patch" /\ row'[r].status = "conflict" => Recorded(g.seg)
    BY <2>1 DEF MarksInv, ConflictMarkExplained, Recorded, EditRequest
  <2> QED
    BY <1>1, <2>1, <2>2 DEF HeldMark
<1>4. CASE EditLastActor(r)
  BY <1>1, <1>4 DEF EditLastActor, Goto, HeldMark
<1>5. CASE EditAddConflict(r)
  <2>1. /\ conflicts' = conflicts \cup {conf[r]} /\ UNCHANGED <<req, conf>>
        /\ pc[r] = "add_conflict" /\ pc'[r] = "mark_conflict"
    BY <1>1, <1>5 DEF EditAddConflict, AddConflict, Goto, editVars
  <2> QED
    BY <1>1, <2>1 DEF HeldMark, Recorded
<1>6. CASE EditPatch(r)
  <2>1. /\ pc[r] = "patch" /\ UNCHANGED req
        /\ row'[r] = Patched(row[r], req[r].edit)
        /\ pc'[r] \in {"done", "get_speaker", "update_segment"}
    BY <1>1, <1>6 DEF EditPatch, Goto, Reply
  <2>2. row'[r].status = row[r].status
    BY <2>1, EditKnows, PatchedStatus DEF Editing, EditPC
  <2> QED
    BY <1>1, <2>1, <2>2 DEF HeldMark
<1>7. CASE EditGetSpeaker(r)
  <2>1. /\ pc[r] = "get_speaker" /\ UNCHANGED <<req, row>>
        /\ pc'[r] \in {"done", "update_segment"}
    BY <1>1, <1>7 DEF EditGetSpeaker, Goto, Reply, editVars
  <2> QED
    BY <1>1, <2>1 DEF HeldMark
<1>8. CASE EditMarkConflict(r) \/ EditUpdateSegment(r) \/ EditAddRevision(r)
             \/ EditFail(r)
  <2>1. pc'[r] \in {"done", "add_revision", "list_segments"}
    BY <1>1, <1>8 DEF EditMarkConflict, EditUpdateSegment, EditAddRevision, EditFail, Fail,
                      Goto, Reply
  <2> QED
    BY <1>2, <2>1
<1>9. CASE EditRecompute(r)
  <2>1. pc'[r] \in QualityPC \cup {"done"}
    BY <1>1, <1>9, RecomputeMoves DEF EditRecompute
  <2> QED
    BY <1>2, <2>1 DEF QualityPC
<1> QED
  BY <1>3, <1>4, <1>5, <1>6, <1>7, <1>8, <1>9 DEF EditStep

LEMMA MarksInvHandled ==
  ASSUME TypeInv, MarksInv, NEW r \in Request, Handled(r), Grow, UNCHANGED kind
  PROVE  MarksInv'
<1> USE DEF Arrays, IsArray
<1>0. \A s : Recorded(s) => Recorded(s)'
  BY DEF Recorded, Grow
<1>1. \A s \in Segment : segments[s] # None /\ segments[s].status = "conflict" => Recorded(s)
  BY DEF MarksInv, ConflictMarkExplained, Recorded
<1>2. segments \in [Segment -> Row \cup {None}]
  BY DEF TypeInv, TablesTyped, TablesOK
<1>3. ASSUME NEW s \in Segment, segments'[s] # None, segments'[s].status = "conflict"
      PROVE  Recorded(s)'
  <2>1. CASE segments'[s] = segments[s]
    BY <1>0, <1>1, <1>3, <2>1
  <2>2. CASE kind[r] = "edit" /\ EditMarkConflict(r)
    <3>1. s # req[r].seg => segments'[s] = segments[s]
      BY <1>2, <2>2 DEF EditMarkConflict, UpdateSegmentStatus, storeVars
    <3>2. Recorded(req[r].seg)
      BY <2>2 DEF EditMarkConflict, MarksInv, HeldMark
    <3> QED
      BY <1>0, <2>1, <3>1, <3>2
  <2>3. CASE kind[r] = "edit" /\ EditUpdateSegment(r)
    <3>1. segments'[s] = IF s = req[r].seg THEN row[r] ELSE segments[s]
      BY <1>2, <2>3 DEF EditUpdateSegment, UpdateSegment
    <3>2. row[r].status = "conflict" => Recorded(req[r].seg)
      BY <2>3 DEF EditUpdateSegment, MarksInv, HeldMark
    <3> QED
      BY <1>0, <1>3, <2>1, <3>1, <3>2
  <2>4. CASE kind[r] = "import" /\ ImportCreateSegments(r)
    <3>1. PICK ids \in SUBSET Segment : Inserted(r, ids)
      BY <2>4, ImportWrites
    <3>2. ASSUME s \in ids PROVE segments'[s].status = "draft"
      <4>1. PICK i \in DOMAIN batch[r] : segments'[s] = NewRow(into[r], batch[r][i])
        BY <3>1, <3>2 DEF Inserted
      <4> QED
        BY <4>1 DEF NewRow
    <3> QED
      BY <1>3, <2>1, <3>1, <3>2 DEF Inserted
  <2> QED
    BY <2>1, <2>2, <2>3, <2>4, TableWriters
<1>4. ASSUME NEW q \in Request, kind[q] = "edit" PROVE HeldMark(q)'
  <2>1. HeldMark(q)
    BY <1>4 DEF MarksInv
  <2>2. CASE q # r
    <3>1. SameLocals(q)
      BY <2>2, OthersSame DEF TypeInv
    <3> QED
      BY <1>0, <2>1, <3>1 DEF HeldMark, SameLocals
  <2>3. CASE q = r /\ EditStep(r)
    BY <1>4, <2>3, EditMarks
  <2>4. CASE q = r /\ BodyRefused(r)
    BY <2>4 DEF BodyRefused, Reply, HeldMark, TypeInv
  <2> QED
    BY <1>4, <2>2, <2>3, <2>4, EditServed
<1> QED
  BY <1>3, <1>4 DEF MarksInv, ConflictMarkExplained, Recorded

LEMMA MarksInvStutters ==
  ASSUME MarksInv, Resting
  PROVE  MarksInv'
BY DEF Resting, vars, storeVars, qaVars, editVars, MarksInv, ConflictMarkExplained,
       HeldMark, Recorded

LEMMA MarksInvHolds == WorkbenchSpec => []MarksInv
<1>1. TypeInv /\ PublishInv /\ MarksInv /\ [WorkbenchNext]_allVars => MarksInv'
  <2> SUFFICES ASSUME TypeInv, PublishInv, MarksInv, [WorkbenchNext]_allVars
               PROVE  MarksInv'
    OBVIOUS
  <2>1. CASE UNCHANGED allVars
    BY <2>1, MarksInvStutters DEF allVars, Resting
  <2>2. CASE (\E r \in Request : Served(r)) /\ UNCHANGED kind
    BY <2>2, TypeInvHandled, MarksInvHandled DEF Served
  <2> QED
    BY <2>1, <2>2 DEF WorkbenchNext, WorkbenchQuiet
<1> QED
  BY <1>1, MarksInvInit, TypeInvHolds, PublishInvHolds, PTL DEF WorkbenchSpec

\* Next to publishing, imports and the rest too, a line marked conflict has a
\* conflict row.
THEOREM MarksStayExplained == WorkbenchSpec => []ConflictMarkExplained
<1>1. MarksInv => ConflictMarkExplained
  BY DEF MarksInv
<1> QED
  BY <1>1, MarksInvHolds, PTL
-----------------------------------------------------------------------------
\* Some edit is to account for the row of s.
Accounted(s) == \E r \in Request : kind[r] = "edit" /\ AccountFor(r, s)

AccountsInv ==
  /\ \A s \in Segment : segments[s] # None /\ segments[s].version # 1 => Accounted(s)
  /\ \A r \in Request : kind[r] = "edit" => HeldAccount(r)

LEMMA AccountsInvInit == WorkbenchInit => AccountsInv
<1> SUFFICES ASSUME WorkbenchInit PROVE AccountsInv
  OBVIOUS
<1>1. EditInit /\ AccountInv
  BY AccountInit DEF WorkbenchInit
<1>2. \A s \in Segment : segments[s] # None => segments[s].version = 1
  BY <1>1, SeedAssumption DEF EditInit
<1> QED
  BY <1>1, <1>2 DEF AccountsInv, AccountInv

LEMMA EditAccounts ==
  ASSUME TypeInv, AccountsInv, NEW r \in Request, kind[r] = "edit",
         EditStep(r) \/ BodyRefused(r), Grow
  PROVE  /\ HeldAccount(r)'
         /\ pc[r] \in Accountable =>
              /\ pc'[r] \in Accountable
              /\ rev'[r] = rev[r]
              /\ \/ rev[r] \in revisions'
                 \/ outcome'[r] \in {None, "error"}
                 \/ outcome'[r] = outcome[r]
<1> USE DEF Arrays, IsArray, QualityPC, Accountable
<1>1. Arrays /\ HeldAccount(r) /\ revisions \subseteq revisions'
  BY DEF TypeInv, AccountsInv, Grow
<1>2. CASE EditGetSegment(r) \/ EditLastActor(r) \/ EditAddConflict(r)
             \/ EditMarkConflict(r) \/ EditFail(r) \/ BodyRefused(r)
  <2>1. /\ rev' = rev
        /\ pc'[r] \in {"done", "last_actor", "patch", "add_conflict", "mark_conflict"}
        /\ pc'[r] # "done" => outcome' = outcome /\ pc[r] # "done"
        /\ pc[r] \in Accountable => pc'[r] = "done" /\ outcome'[r] = "error"
    BY <1>1, <1>2 DEF EditGetSegment, EditLastActor, EditAddConflict, EditMarkConflict,
       EditFail, Fail, BodyRefused, Goto, Reply, editVars
  <2> QED
    BY <1>1, <2>1 DEF HeldAccount
<1>3. CASE EditPatch(r)
  <2> DEFINE p == Patched(row[r], req[r].edit)
  <2>1. /\ pc[r] = "patch" /\ UNCHANGED req
        /\ row'[r] = p
        /\ rev'[r] = Audit(r, row[r], p)
        /\ pc'[r] \in {"done", "get_speaker", "update_segment"}
        /\ pc'[r] # "done" => outcome' = outcome
    BY <1>1, <1>3 DEF EditPatch, Goto, Reply
  <2>2. Audit(r, row[r], p) \in Revision
    <3>1. /\ req[r] \in EditRequest /\ req[r].actor \in Actor /\ req[r].edit \in Edits
          /\ row[r] \in Row /\ now \in Nat
      BY <2>1, EditKnows DEF Editing, EditPC, TypeInv, TablesTyped
    <3>2. p \in Row
      BY <3>1, PatchedType
    <3> QED
      BY <3>1, <3>2, EditAssumption DEF Audit, Revision, EditRequest
  <2> HIDE DEF p
  <2>3. rev'[r] # None /\ rev'[r].seg = req'[r].seg /\ rev'[r].after = row'[r]
    BY <2>1, <2>2, RevisionAssumption DEF Audit
  <2> QED
    BY <1>1, <2>1, <2>3 DEF HeldAccount
<1>4. CASE EditGetSpeaker(r)
  <2>1. /\ pc[r] = "get_speaker" /\ UNCHANGED <<req, row, rev>>
        /\ \/ pc'[r] = "done"
           \/ pc'[r] = "update_segment" /\ outcome' = outcome
    BY <1>1, <1>4 DEF EditGetSpeaker, Goto, Reply, editVars
  <2> QED
    BY <1>1, <2>1 DEF HeldAccount
<1>5. CASE EditUpdateSegment(r)
  <2>1. /\ pc[r] = "update_segment" /\ UNCHANGED <<req, row, rev, outcome>>
        /\ pc'[r] = "add_revision"
    BY <1>1, <1>5 DEF EditUpdateSegment, Goto, editVars
  <2> QED
    BY <1>1, <2>1 DEF HeldAccount
<1>6. CASE EditAddRevision(r)
  <2>1. /\ pc[r] = "add_revision" /\ UNCHANGED <<req, row, rev, outcome>>
        /\ revisions' = revisions \cup {rev[r]}
        /\ pc'[r] = "list_segments"
    BY <1>1, <1>6 DEF EditAddRevision, AddRevision, Goto, editVars
  <2> QED
    BY <1>1, <2>1 DEF HeldAccount
<1>7. CASE EditRecompute(r)
  <2>1. /\ pc[r] \in QualityPC /\ UNCHANGED <<req, row, rev>>
        /\ pc'[r] \in QualityPC \cup {"done"}
        /\ pc'[r] # "done" => outcome' = outcome
    BY <1>1, <1>7 DEF EditRecompute, Recompute, RecomputeListSegments,
       RecomputeListSpeakers, RecomputeDelete, RecomputeAdd, Return, Goto, Reply, editVars
  <2> QED
    BY <1>1, <2>1 DEF HeldAccount
<1> QED
  BY <1>2, <1>3, <1>4, <1>5, <1>6, <1>7 DEF EditStep

\* Who accounts for a row goes on to, whatever is served.
LEMMA AccountsStay ==
  ASSUME TypeInv, AccountsInv, NEW r \in Request, Handled(r), Grow, UNCHANGED kind,
         NEW s \in Segment, Accounted(s), Content(segments'[s]) = Content(segments[s])
  PROVE  Accounted(s)'
<1>1. PICK q \in Request : kind[q] = "edit" /\ AccountFor(q, s)
  BY DEF Accounted
<1>2. Explains(rev[q], s, segments'[s])
  BY <1>1 DEF AccountFor, Explains
<1>3. CASE q = r
  <2>1. /\ pc'[q] \in Accountable /\ rev'[q] = rev[q]
        /\ \/ rev[q] \in revisions'
           \/ outcome'[q] \in {None, "error"}
           \/ outcome'[q] = outcome[q]
    BY <1>1, <1>3, EditServed, EditAccounts DEF AccountFor
  <2>2. AccountFor(q, s)'
    BY <1>1, <1>2, <2>1 DEF AccountFor, Grow
  <2> QED
    BY <1>1, <2>2 DEF Accounted
<1>4. CASE q # r
  <2>1. pc'[q] = pc[q] /\ rev'[q] = rev[q] /\ outcome'[q] = outcome[q]
    BY <1>4, OthersSame DEF TypeInv, SameLocals
  <2>2. AccountFor(q, s)'
    BY <1>1, <1>2, <2>1 DEF AccountFor, Grow
  <2> QED
    BY <1>1, <2>2 DEF Accounted
<1> QED
  BY <1>3, <1>4

LEMMA AccountsInvHandled ==
  ASSUME TypeInv, AccountsInv, NEW r \in Request, Handled(r), Grow, UNCHANGED kind
  PROVE  AccountsInv'
<1>1. segments \in [Segment -> Row \cup {None}]
  BY DEF TypeInv, TablesTyped, TablesOK
<1>2. ASSUME NEW s \in Segment, segments'[s] # None, segments'[s].version # 1
      PROVE  Accounted(s)'
  <2>1. ASSUME segments[s] # None, Content(segments'[s]) = Content(segments[s])
        PROVE  Accounted(s)'
    <3>1. segments[s].version # 1
      BY <1>2, <2>1, ContentVersion
    <3>2. Accounted(s)
      BY <2>1, <3>1 DEF AccountsInv
    <3> QED
      BY <2>1, <3>2, AccountsStay
  <2>2. CASE segments'[s] = segments[s]
    BY <1>2, <2>1, <2>2
  <2>3. CASE kind[r] = "edit" /\ EditMarkConflict(r)
    <3>1. /\ s # req[r].seg => segments'[s] = segments[s]
          /\ segments'[s] = segments[s]
             \/ segments'[s] = [segments[s] EXCEPT !.status = "conflict"]
      BY <1>1, <2>3 DEF EditMarkConflict, UpdateSegmentStatus, storeVars
    <3>2. segments[req[r].seg] \in Row /\ segments[req[r].seg] # None
      BY <2>3, EditKnows, EditAssumption DEF EditMarkConflict, Editing, EditPC
    <3>3. CASE s = req[r].seg
      BY <2>1, <2>2, <3>1, <3>2, <3>3, MarkKeepsContent
    <3> QED
      BY <2>2, <3>1, <3>3
  <2>4. CASE kind[r] = "edit" /\ EditUpdateSegment(r)
    <3>1. /\ pc[r] = "update_segment" /\ pc'[r] = "add_revision"
          /\ UNCHANGED <<rev, outcome, row, req>>
          /\ segments'[s] = IF s = req[r].seg THEN row[r] ELSE segments[s]
      BY <1>1, <2>4 DEF EditUpdateSegment, UpdateSegment, Goto, editVars, TypeInv,
                        Arrays, IsArray
    <3>2. HeldAccount(r)
      BY <2>4 DEF AccountsInv
    <3>3. CASE s = req[r].seg
      <4>1. AccountFor(r, s)'
        BY <3>1, <3>2, <3>3 DEF AccountFor, Accountable, HeldAccount, Explains
      <4> QED
        BY <2>4, <4>1 DEF Accounted
    <3> QED
      BY <2>2, <3>1, <3>3
  <2>5. CASE kind[r] = "import" /\ ImportCreateSegments(r)
    <3>1. PICK ids \in SUBSET Segment : Inserted(r, ids)
      BY <2>5, ImportWrites
    <3>2. ASSUME s \in ids PROVE segments'[s].version = 1
      <4>1. PICK i \in DOMAIN batch[r] : segments'[s] = NewRow(into[r], batch[r][i])
        BY <3>1, <3>2 DEF Inserted
      <4> QED
        BY <4>1 DEF NewRow
    <3> QED
      BY <1>2, <2>2, <3>1, <3>2 DEF Inserted
  <2> QED
    BY <2>2, <2>3, <2>4, <2>5, TableWriters
<1>3. ASSUME NEW q \in Request, kind[q] = "edit" PROVE HeldAccount(q)'
  <2>1. CASE q = r
    BY <1>3, <2>1, EditServed, EditAccounts
  <2>2. CASE q # r
    <3>1. SameLocals(q) /\ HeldAccount(q)
      BY <1>3, <2>2, OthersSame DEF TypeInv, AccountsInv
    <3> QED
      BY <3>1 DEF HeldAccount, SameLocals, Grow
  <2> QED
    BY <2>1, <2>2
<1> QED
  BY <1>2, <1>3 DEF AccountsInv

LEMMA AccountsInvStutters ==
  ASSUME AccountsInv, Resting
  PROVE  AccountsInv'
BY DEF Resting, vars, storeVars, qaVars, editVars, AccountsInv, Accounted, AccountFor,
       HeldAccount, Explains

LEMMA AccountsInvHolds == WorkbenchSpec => []AccountsInv
<1>1. TypeInv /\ PublishInv /\ AccountsInv /\ [WorkbenchNext]_allVars => AccountsInv'
  <2> SUFFICES ASSUME TypeInv, PublishInv, AccountsInv, [WorkbenchNext]_allVars
               PROVE  AccountsInv'
    OBVIOUS
  <2>1. CASE UNCHANGED allVars
    BY <2>1, AccountsInvStutters DEF allVars, Resting
  <2>2. CASE (\E r \in Request : Served(r)) /\ UNCHANGED kind
    BY <2>2, TypeInvHandled, AccountsInvHandled DEF Served
  <2> QED
    BY <2>1, <2>2 DEF WorkbenchNext, WorkbenchQuiet
<1> QED
  BY <1>1, AccountsInvInit, TypeInvHolds, PublishInvHolds, PTL DEF WorkbenchSpec

LEMMA RowsHaveAccounts == AccountsInv => RowAccounted
BY DEF AccountsInv, Accounted, AccountFor, RowAccounted

\* Imports and the rest change no row that an edit has to account for, and
\* account for the rows they add.
THEOREM RowsStayAccounted == WorkbenchSpec => []RowAccounted
BY RowsHaveAccounts, AccountsInvHolds, PTL
-----------------------------------------------------------------------------
(***************************************************************************)
(* The counters.                                                           *)
(***************************************************************************)

Edited == {r \in Request : kind[r] = "edit" /\ outcome[r] = "ok"}
Published == {r \in Request : kind[r] = "publish" /\ outcome[r] = "ok"}
Rejected == {r \in Request : outcome[r] = "conflict"}

MetricsInv ==
  /\ metrics.edits = Cardinality(Edited)
  /\ metrics.publishes = Cardinality(Published)
  /\ metrics.conflicts = Cardinality(Rejected)
  /\ \A r \in Rejected : kind[r] = "edit"
  /\ IsFiniteSet(revisions)
  /\ IsFiniteSet(conflicts)

\* A set of requests that only r may join.
LEMMA OneMore ==
  ASSUME NEW S \in SUBSET Request, NEW T \in SUBSET Request, NEW r \in Request,
         r \notin S, T \subseteq S \cup {r}, S \subseteq T, NEW joins \in BOOLEAN,
         joins = (r \in T)
  PROVE  Cardinality(T) = Cardinality(S) + One(joins)
<1>1. IsFiniteSet(S) /\ Cardinality(S) \in Nat
  BY StoreAssumption, FS_Subset, FS_CardinalityType
<1>2. CASE joins
  <2>1. T = S \cup {r}
    BY <1>2
  <2> QED
    BY <1>1, <1>2, <2>1, FS_AddElement DEF One
<1>3. CASE ~joins
  <2>1. T = S
    BY <1>3
  <2> QED
    BY <1>1, <1>3, <2>1 DEF One
<1> QED
  BY <1>2, <1>3
-----------------------------------------------------------------------------
\* Only an edit is answered with a conflict.
LEMMA ConflictsOfEdits ==
  ASSUME TypeInv, NEW r \in Request, Handled(r), kind[r] # "edit"
  PROVE  outcome'[r] # "conflict"
<1> USE DEF Arrays, IsArray, Outcome
<1>1. /\ Arrays
      /\ outcome[r] \in Outcome \cup {None}
      /\ pc[r] # "done" => outcome[r] = None
      /\ None # "conflict"
  BY OutcomeAssumption DEF TypeInv, Held, TypedLocals
<1>2. MovesOn(r)
  BY <1>1, HandledMoves
<1>3. outcome[r] = None
  BY <1>1, <1>2 DEF MovesOn
<1>4. \/ UNCHANGED outcome
      \/ \E answer \in Outcome \ {"conflict"} : Reply(r, answer)
  <2>1. CASE BodyRefused(r) \/ RequestFails(r)
    BY <2>1 DEF BodyRefused, RequestFails, Fail
  <2>2. CASE PublishRequested(r) \/ WithdrawRequested(r)
    BY <2>2 DEF PublishRequested, WithdrawRequested, PublishStep, WithdrawStep,
       PublishGetMedia, PublishListSegments, PublishListSpeakers, PublishCount,
       PublishAddVersion, PublishMarkMedia, WithdrawGetVersion, WithdrawAddRecord,
       WithdrawMark, Goto
  <2>3. CASE CompareRequested(r)
    BY <2>3 DEF CompareRequested, CompareStep, CompareGetFirst, CompareGetSecond, Goto
  <2>4. CASE Recompute(r, into[r], "done")
    BY <2>4 DEF Recompute, RecomputeListSegments, RecomputeListSpeakers,
                RecomputeDelete, RecomputeAdd, Return, Goto
  <2>5. CASE ImportRequested(r) \/ RecomputeRequested(r)
    BY <2>4, <2>5 DEF ImportRequested, ImportStep, ImportGetMedia, ImportListSegments,
       ImportCreateSegments, ImportRecompute, RecomputeRequested, RecomputeStep,
       RecomputeGetMedia, Goto
  <2>6. CASE MediaRequested(r) \/ SpeakerRequested(r)
    BY <2>6 DEF MediaRequested, MediaCreate, SpeakerRequested, SpeakerStep,
                SpeakerGetMedia, SpeakerCreate, Goto
  <2>7. CASE StatsRequested(r)
    BY <2>7 DEF StatsRequested, StatsStep, StatsListMedia, StatsCountSegments,
                StatsCountVersions, CountTable, Goto
  <2>8. ~EditRequested(r)
    BY DEF EditRequested
  <2> QED
    BY <2>1, <2>2, <2>3, <2>5, <2>6, <2>7, <2>8 DEF Handled
<1> QED
  BY <1>1, <1>3, <1>4 DEF Reply

LEMMA MetricsInvHandled ==
  ASSUME TypeInv, MetricsInv, NEW r \in Request, Handled(r), Counted(r), UNCHANGED kind
  PROVE  MetricsInv'
<1>1. /\ pc[r] # "done" /\ outcome[r] = None
      /\ None \notin {"ok", "conflict"}
  BY HandledMoves, OutcomeAssumption DEF TypeInv, MovesOn, Held, TypedLocals, Outcome
<1>2. \A q \in Request \ {r} : outcome'[q] = outcome[q]
  BY OthersSame DEF TypeInv, SameLocals
<1>3. /\ r \notin Edited /\ Edited \in SUBSET Request /\ Edited' \in SUBSET Request
      /\ Edited \subseteq Edited' /\ Edited' \subseteq Edited \cup {r}
      /\ (kind[r] \in {"edit"} /\ Success(r)) = (r \in Edited')
  BY <1>1, <1>2 DEF Edited, Success
<1>4. /\ r \notin Published /\ Published \in SUBSET Request /\ Published' \in SUBSET Request
      /\ Published \subseteq Published' /\ Published' \subseteq Published \cup {r}
      /\ (kind[r] \in {"publish"} /\ Success(r)) = (r \in Published')
  BY <1>1, <1>2 DEF Published, Success
<1>5. /\ r \notin Rejected /\ Rejected \in SUBSET Request /\ Rejected' \in SUBSET Request
      /\ Rejected \subseteq Rejected' /\ Rejected' \subseteq Rejected \cup {r}
      /\ (outcome'[r] = "conflict") = (r \in Rejected')
  BY <1>1, <1>2 DEF Rejected
<1>6. /\ metrics'.edits = metrics.edits + One(kind[r] \in {"edit"} /\ Success(r))
      /\ metrics'.publishes = metrics.publishes + One(kind[r] \in {"publish"} /\ Success(r))
      /\ metrics'.conflicts = metrics.conflicts + One(outcome'[r] = "conflict")
  BY DEF Counted
<1>7. metrics'.edits = Cardinality(Edited')
  <2>1. Cardinality(Edited') = Cardinality(Edited) + One(kind[r] \in {"edit"} /\ Success(r))
    BY <1>3, OneMore
  <2> QED
    BY <1>6, <2>1 DEF MetricsInv
<1>8. metrics'.publishes = Cardinality(Published')
  <2>1. Cardinality(Published')
          = Cardinality(Published) + One(kind[r] \in {"publish"} /\ Success(r))
    BY <1>4, OneMore
  <2> QED
    BY <1>6, <2>1 DEF MetricsInv
<1>9. metrics'.conflicts = Cardinality(Rejected')
  <2>1. Cardinality(Rejected') = Cardinality(Rejected) + One(outcome'[r] = "conflict")
    BY <1>5, OneMore
  <2> QED
    BY <1>6, <2>1 DEF MetricsInv
<1>10. \A q \in Rejected' : kind[q] = "edit"
  BY <1>5, ConflictsOfEdits DEF MetricsInv
<1>11. IsFiniteSet(revisions')
  <2>1. revisions' = revisions \/ revisions' = revisions \cup {rev[r]}
    BY TableWriters DEF EditAddRevision, AddRevision
  <2> QED
    BY <2>1, FS_AddElement DEF MetricsInv
<1>12. IsFiniteSet(conflicts')
  <2>1. conflicts' = conflicts \/ conflicts' = conflicts \cup {conf[r]}
    BY TableWriters DEF EditAddConflict, AddConflict
  <2> QED
    BY <2>1, FS_AddElement DEF MetricsInv
<1> QED
  BY <1>7, <1>8, <1>9, <1>10, <1>11, <1>12 DEF MetricsInv

LEMMA MetricsInvHolds == WorkbenchSpec => []MetricsInv
<1>1. WorkbenchInit => MetricsInv
  <2> SUFFICES ASSUME WorkbenchInit PROVE MetricsInv
    OBVIOUS
  <2>1. \A r \in Request : outcome[r] \notin {"ok", "conflict"}
    BY OutcomeAssumption DEF WorkbenchInit, EditInit, QualityInit, Outcome
  <2>2. Edited = {} /\ Published = {} /\ Rejected = {}
    BY <2>1 DEF Edited, Published, Rejected
  <2>3. metrics = NoneCounted /\ revisions = {} /\ conflicts = {}
    BY DEF WorkbenchInit, EditInit
  <2> QED
    BY <2>2, <2>3, FS_EmptySet DEF MetricsInv, NoneCounted
<1>2. TypeInv /\ MetricsInv /\ [WorkbenchNext]_allVars => MetricsInv'
  <2> SUFFICES ASSUME TypeInv, MetricsInv, [WorkbenchNext]_allVars PROVE MetricsInv'
    OBVIOUS
  <2>1. CASE UNCHANGED allVars
    BY <2>1 DEF allVars, vars, storeVars, qaVars, MetricsInv, Edited, Published, Rejected
  <2>2. CASE (\E r \in Request : Served(r)) /\ UNCHANGED kind
    BY <2>2, MetricsInvHandled DEF Served
  <2> QED
    BY <2>1, <2>2 DEF WorkbenchNext, WorkbenchQuiet
<1> QED
  BY <1>1, <1>2, TypeInvHolds, PTL DEF WorkbenchSpec

\* No counter is ahead of the rows it stands for: the requests counted are in
\* the tables under ids of their own.
LEMMA CountedAreStored ==
  ASSUME TypeInv, ImagesInv, AnswersInv, MetricsInv
  PROVE  MetricsBacked
<1>1. Cardinality(Edited) <= Cardinality(revisions)
  <2> DEFINE row_of == [r \in Edited |-> rev[r]]
  <2>1. \A r \in Edited : rev[r] \in revisions /\ rev[r].id = r
    BY DEF Edited, ImagesInv, HeldImages
  <2>2. row_of \in Injection(Edited, revisions)
    BY <2>1 DEF Injection, IsInjective
  <2>3. IsFiniteSet(Edited) /\ IsFiniteSet(revisions)
    BY StoreAssumption, FS_Subset DEF Edited, MetricsInv
  <2> QED
    BY <2>2, <2>3, FS_Injection
<1>2. Cardinality(Rejected) <= Cardinality(conflicts)
  <2> DEFINE row_of == [r \in Rejected |-> conf[r]]
  <2>1. \A r \in Rejected : conf[r] \in conflicts /\ conf[r].id = r
    BY DEF Rejected, MetricsInv, ImagesInv, HeldImages
  <2>2. row_of \in Injection(Rejected, conflicts)
    BY <2>1 DEF Injection, IsInjective
  <2>3. IsFiniteSet(Rejected) /\ IsFiniteSet(conflicts)
    BY StoreAssumption, FS_Subset DEF Rejected, MetricsInv
  <2> QED
    BY <2>2, <2>3, FS_Injection
<1>3. Cardinality(Published) <= Cardinality(DOMAIN versions)
  <2>1. Published \in SUBSET DOMAIN versions
    BY DEF Published, AnswersInv, HeldAnswer
  <2>2. IsFiniteSet(DOMAIN versions)
    BY StoreAssumption, FS_Subset DEF TypeInv, TablesTyped
  <2> QED
    BY <2>1, <2>2, FS_Subset
<1> QED
  BY <1>1, <1>2, <1>3 DEF MetricsInv, MetricsBacked

\* No counter is ahead of the rows it counts.
THEOREM CountersBacked == WorkbenchSpec => []MetricsBacked
<1>1. TypeInv /\ ImagesInv /\ AnswersInv /\ MetricsInv => MetricsBacked
  BY CountedAreStored
<1> QED
  BY <1>1, TypeInvHolds, ImagesInvHolds, AnswersInvHolds, MetricsInvHolds, PTL
-----------------------------------------------------------------------------
(***************************************************************************)
(* Comparing versions.                                                     *)
(***************************************************************************)

\* What the answer to a comparison has to say of the lines a and b.
TellsApart(d, a, b) ==
  /\ DOMAIN b = (DOMAIN a \ d.removed) \cup d.added
  /\ \A s \in DOMAIN a \cap DOMAIN b :
       \A f \in {"start", "end", "text", "speaker", "desc"} :
         (IF f \in DOMAIN d.changes[s] THEN d.changes[s][f].after ELSE a[s][f])
           = b[s][f]

LEMMA DiffTellsApart ==
  ASSUME NEW a, NEW b
  PROVE  TellsApart(DiffOf(a, b), a, b)
<1> DEFINE d == DiffOf(a, b)
<1>1. /\ d.added = DOMAIN b \ DOMAIN a
      /\ d.removed = DOMAIN a \ DOMAIN b
      /\ d.changes = [s \in DOMAIN a \cap DOMAIN b |-> DiffSegment(a[s], b[s])]
  BY DEF DiffOf
<1>2. DOMAIN b = (DOMAIN a \ d.removed) \cup d.added
  BY <1>1
<1>3. ASSUME NEW x, NEW y, NEW f \in {"start", "end", "text", "speaker", "desc"}
      PROVE  (IF f \in DOMAIN DiffSegment(x, y) THEN DiffSegment(x, y)[f].after ELSE x[f])
               = y[f]
  <2>1. DOMAIN DiffSegment(x, y) = {g \in Field : x[g] # y[g]}
    BY DEF DiffSegment
  <2>2. f \in Field
    BY DEF Field
  <2>3. CASE x[f] # y[f]
    BY <2>1, <2>2, <2>3 DEF DiffSegment
  <2>4. CASE x[f] = y[f]
    BY <2>1, <2>4
  <2> QED
    BY <2>3, <2>4
<1>4. \A s \in DOMAIN a \cap DOMAIN b : d.changes[s] = DiffSegment(a[s], b[s])
  BY <1>1
<1> HIDE DEF d
<1> QED
  BY <1>2, <1>3, <1>4 DEF TellsApart, d

Lines(v) == versions[v].snap.segments

HeldDiff(r) ==
  /\ pc[r] = "new" => diff[r] = None
  /\ pc[r] = "get_second" =>
       /\ pair[r][1] \in DOMAIN versions
       /\ first[r] = Lines(pair[r][1])
  /\ diff[r] # None =>
       /\ pair[r][1] \in DOMAIN versions
       /\ pair[r][2] \in DOMAIN versions
       /\ diff[r] = DiffOf(Lines(pair[r][1]), Lines(pair[r][2]))

DiffInv ==
  \A r \in Request : /\ kind[r] = "compare" => HeldDiff(r)
                     /\ kind[r] # "compare" => diff[r] = None

LEMMA CompareDiff ==
  ASSUME TypeInv, NEW r \in Request, kind[r] = "compare", CompareStep(r), HeldDiff(r)
  PROVE  HeldDiff(r)'
<1> USE DEF Arrays, IsArray, GetPublishVersion, Lines
<1>0. Arrays /\ \A v \in DOMAIN versions : v \in Request
  BY DEF TypeInv, TablesTyped
<1>1. UNCHANGED versions
  BY DEF CompareStep, CompareGetFirst, CompareGetSecond, storeVars
<1>2. CASE CompareGetFirst(r)
  <2>1. diff'[r] = None
    BY <1>2 DEF HeldDiff, CompareGetFirst
  <2>2. CASE pc'[r] = "done"
    BY <2>1, <2>2 DEF HeldDiff
  <2>3. CASE pc'[r] # "done"
    <3>1. PICK v \in Request, w \in Request :
            /\ pair' = [pair EXCEPT ![r] = <<v, w>>]
            /\ GetPublishVersion(v) # None
            /\ first' = [first EXCEPT ![r] = GetPublishVersion(v).snap.segments]
            /\ Goto(r, "get_second")
      BY <1>0, <1>2, <2>3 DEF CompareGetFirst, Reply
    <3>2. v \in DOMAIN versions
      BY <3>1
    <3>3. pair'[r] = <<v, w>>
      BY <1>0, <3>1
    <3>4. pair'[r][1] = v
      BY <3>3
    <3>5. first'[r] = versions[v].snap.segments
      BY <1>0, <3>1, <3>2
    <3>6. pc'[r] = "get_second"
      BY <1>0, <3>1 DEF Goto
    <3> QED
      BY <1>1, <2>1, <3>2, <3>4, <3>5, <3>6 DEF HeldDiff
  <2> QED
    BY <2>2, <2>3
<1>3. CASE CompareGetSecond(r)
  <2>1. /\ pc[r] = "get_second" /\ pc'[r] = "done"
        /\ UNCHANGED <<pair, first>>
    BY <1>0, <1>3 DEF CompareGetSecond, Reply
  <2>2. CASE UNCHANGED diff
    BY <1>1, <2>1, <2>2 DEF HeldDiff
  <2>3. CASE ~UNCHANGED diff
    <3>1. /\ GetPublishVersion(pair[r][2]) # None
          /\ diff' = [diff EXCEPT ![r] =
                        DiffOf(first[r], GetPublishVersion(pair[r][2]).snap.segments)]
      BY <1>3, <2>3 DEF CompareGetSecond
    <3>2. pair[r][2] \in DOMAIN versions
      BY <3>1
    <3>3. diff'[r] = DiffOf(first[r], versions[pair[r][2]].snap.segments)
      BY <1>0, <3>1, <3>2
    <3>4. pair[r][1] \in DOMAIN versions /\ first[r] = versions[pair[r][1]].snap.segments
      BY <2>1 DEF HeldDiff
    <3> QED
      BY <1>1, <2>1, <3>2, <3>3, <3>4 DEF HeldDiff
  <2> QED
    BY <2>2, <2>3
<1> QED
  BY <1>2, <1>3 DEF CompareStep

LEMMA DiffInvHandled ==
  ASSUME TypeInv, DiffInv, NEW r \in Request, Handled(r), Grow, UNCHANGED kind
  PROVE  DiffInv'
<1>1. ASSUME NEW q \in Request \ {r}, kind[q] = "compare" PROVE HeldDiff(q)'
  <2>1. HeldDiff(q) /\ SameLocals(q)
    BY <1>1, OthersSame DEF DiffInv, TypeInv
  <2>2. \A v \in DOMAIN versions : v \in DOMAIN versions' /\ Lines(v)' = Lines(v)
    BY DEF Grow, Lines
  <2> QED
    BY <2>1, <2>2 DEF HeldDiff, SameLocals
<1>2. ASSUME NEW q \in Request \ {r}, kind[q] # "compare" PROVE diff'[q] = None
  BY <1>2, OthersSame DEF DiffInv, TypeInv, SameLocals
<1>3. ASSUME kind[r] = "compare" PROVE HeldDiff(r)'
  <2>1. HeldDiff(r) /\ Arrays
    BY <1>3 DEF DiffInv, TypeInv
  <2>2. CASE CompareStep(r)
    BY <1>3, <2>1, <2>2, CompareDiff
  <2>3. CASE Refused(r)
    <3>1. pc'[r] = "done" /\ UNCHANGED <<versions, pair, first, diff>>
      BY <2>1, <2>3 DEF Refused, Reply, storeVars, compareVars, Arrays, IsArray
    <3> QED
      BY <2>1, <3>1 DEF HeldDiff, Lines
  <2> QED
    BY <1>3, <2>2, <2>3, ServedByKind DEF CompareRequested
<1>4. ASSUME kind[r] # "compare" PROVE diff'[r] = None
  <2>1. UNCHANGED diff
    BY <1>4, ServedByKind
       DEF Refused, EditRequested, PublishRequested, WithdrawRequested, ImportRequested,
           MediaRequested, SpeakerRequested, RecomputeRequested, StatsRequested,
           compareVars
  <2> QED
    BY <1>4, <2>1 DEF DiffInv
<1> QED
  BY <1>1, <1>2, <1>3, <1>4 DEF DiffInv

LEMMA DiffInvHolds == WorkbenchSpec => []DiffInv
<1>1. WorkbenchInit => DiffInv
  BY DEF WorkbenchInit, EditInit, QualityInit, CompareInit, DiffInv, HeldDiff
<1>2. TypeInv /\ PublishInv /\ DiffInv /\ [WorkbenchNext]_allVars => DiffInv'
  <2> SUFFICES ASSUME TypeInv, PublishInv, DiffInv, [WorkbenchNext]_allVars
               PROVE  DiffInv'
    OBVIOUS
  <2>1. CASE UNCHANGED allVars
    BY <2>1 DEF allVars, vars, storeVars, qaVars, compareVars, DiffInv, HeldDiff, Lines
  <2>2. CASE (\E r \in Request : Served(r)) /\ UNCHANGED kind
    BY <2>2, TypeInvHandled, DiffInvHandled DEF Served
  <2> QED
    BY <2>1, <2>2 DEF WorkbenchNext, WorkbenchQuiet
<1> QED
  BY <1>1, <1>2, TypeInvHolds, PublishInvHolds, PTL DEF WorkbenchSpec

\* A comparison says all there is between two frozen versions, whatever was
\* edited, published or withdrawn while it ran.
THEOREM DiffsComplete == WorkbenchSpec => []DiffComplete
<1>1. DiffInv => DiffComplete
  <2> SUFFICES ASSUME DiffInv, NEW r \in Request, diff[r] # None
               PROVE  TellsApart(diff[r], Lines(pair[r][1]), Lines(pair[r][2]))
    BY DEF DiffComplete, TellsApart, Lines
  <2> QED
    BY DiffTellsApart DEF DiffInv, HeldDiff
<1> QED
  BY <1>1, DiffInvHolds, PTL
-----------------------------------------------------------------------------
(***************************************************************************)
(* Snapshots can be read on their own.                                     *)
(***************************************************************************)

\* Where the speaker of a line can come from: the seed, an edit, a batch.
Origin(p) ==
  \/ p = NoSpeaker
  \/ \E s \in Segment : SeedSegments[s] # None /\ p = SeedSegments[s].speaker
  \/ \E q \in Request : req[q] # None /\ p = req[q].edit.speaker
  \/ \E q \in Request : \E i \in DOMAIN batch[q] : p = batch[q][i].speaker

\* The snapshot has the speakers of media m that its lines name.
ClosedIn(s, m) ==
  \A i \in DOMAIN s.segments :
    s.segments[i].speaker \in ListSpeakers(m) => s.segments[i].speaker \in s.speakers

OriginsIn(rows) == \A i \in DOMAIN rows : Origin(rows[i].speaker)

HeldOrigins(r) ==
  /\ pc[r] = "new" => req[r] = None /\ batch[r] = <<>>
  /\ row[r] # None => Origin(row[r].speaker)
  /\ kind[r] = "publish" =>
       /\ pc[r] \in {"pub_list_speakers", "count_versions", "add_version"}
            => OriginsIn(snap[r].segments)
       /\ pc[r] \in {"count_versions", "add_version"} => ClosedIn(snap[r], target[r])

OriginsInv ==
  /\ \A s \in Segment : segments[s] # None => Origin(segments[s].speaker)
  /\ \A v \in DOMAIN versions :
       /\ OriginsIn(versions[v].snap.segments)
       /\ ClosedIn(versions[v].snap, versions[v].media)
  /\ \A r \in Request : HeldOrigins(r)

LEMMA OriginsInvInit == WorkbenchInit => OriginsInv
<1> SUFFICES ASSUME WorkbenchInit PROVE OriginsInv
  OBVIOUS
<1>1. EditInit /\ IntakeInit
  BY DEF WorkbenchInit
<1>2. ASSUME NEW s \in Segment, segments[s] # None PROVE Origin(segments[s].speaker)
  BY <1>1, <1>2 DEF EditInit, Origin
<1>3. DOMAIN versions = {}
  BY <1>1 DEF EditInit
<1>4. ASSUME NEW r \in Request PROVE HeldOrigins(r)
  <2>1. pc[r] = "new" /\ req[r] = None /\ batch[r] = <<>> /\ row[r] = None
    BY <1>1 DEF EditInit, QualityInit, IntakeInit
  <2> QED
    BY <2>1 DEF HeldOrigins
<1> QED
  BY <1>2, <1>3, <1>4 DEF OriginsInv

\* A request is decoded once.
LEMMA DecodedOnce ==
  ASSUME TypeInv, OriginsInv, NEW r \in Request, Handled(r)
  PROVE  \A q \in Request : /\ req[q] # None => req'[q] = req[q]
                            /\ batch[q] # <<>> => batch'[q] = batch[q]
<1>1. Arrays /\ (pc[r] = "new" => req[r] = None /\ batch[r] = <<>>)
  BY DEF TypeInv, OriginsInv, HeldOrigins
<1>2. \A q \in Request \ {r} : req'[q] = req[q] /\ batch'[q] = batch[q]
  BY <1>1, OthersSame DEF SameLocals
<1>3. CASE pc[r] = "new"
  BY <1>1, <1>2, <1>3
<1>4. CASE pc[r] # "new"
  <2>1. CASE EditRequested(r)
    BY <1>2, <1>4, <2>1 DEF EditRequested, EditStep, EditGetSegment, EditLastActor,
       EditAddConflict, EditMarkConflict, EditPatch, EditGetSpeaker, EditUpdateSegment,
       EditAddRevision, EditRecompute, EditFail, editVars, intakeVars
  <2>2. CASE ImportRequested(r) \/ MediaRequested(r) \/ SpeakerRequested(r)
               \/ RecomputeRequested(r)
    BY <1>2, <1>4, <2>2 DEF ImportRequested, ImportStep, ImportGetMedia,
       ImportListSegments, ImportCreateSegments, ImportRecompute, MediaRequested,
       MediaCreate, SpeakerRequested, SpeakerStep, SpeakerGetMedia, SpeakerCreate,
       RecomputeRequested, RecomputeStep, RecomputeGetMedia, editVars, intakeVars
  <2>3. CASE ~EditRequested(r) /\ ~ImportRequested(r) /\ ~MediaRequested(r)
               /\ ~SpeakerRequested(r) /\ ~RecomputeRequested(r)
    BY <1>2, <2>3 DEF Handled, BodyRefused, PublishRequested, WithdrawRequested,
       CompareRequested, StatsRequested, RequestFails, editVars, intakeVars
  <2> QED
    BY <2>1, <2>2, <2>3
<1> QED
  BY <1>3, <1>4

\* So an origin stays one, and who it is was settled before it became one.
LEMMA OriginsStay ==
  ASSUME TypeInv, OriginsInv, NEW r \in Request, Handled(r), NEW p, Origin(p)
  PROVE  /\ Origin(p)'
         /\ p \in Speaker => speakers'[p] = speakers[p]
<1>1. Origin(p)'
  <2>1. CASE \E q \in Request : \E i \in DOMAIN batch[q] : p = batch[q][i].speaker
    <3>1. PICK q \in Request : \E i \in DOMAIN batch[q] : p = batch[q][i].speaker
      BY <2>1
    <3>2. batch[q] # <<>>
      BY <3>1
    <3>3. batch'[q] = batch[q]
      BY <3>2, DecodedOnce
    <3> QED
      BY <3>1, <3>3 DEF Origin
  <2>2. CASE \E q \in Request : req[q] # None /\ p = req[q].edit.speaker
    <3>1. PICK q \in Request : req[q] # None /\ p = req[q].edit.speaker
      BY <2>2
    <3>2. req'[q] = req[q]
      BY <3>1, DecodedOnce
    <3> QED
      BY <3>1, <3>2 DEF Origin
  <2> QED
    BY <2>1, <2>2 DEF Origin
<1>2. ASSUME p \in Speaker PROVE speakers'[p] = speakers[p]
  <2>1. p \in NamedSpeakers
    BY <1>2, StoreAssumption DEF Origin, NamedSpeakers
  <2>2. CASE SpeakerRequested(r)
    BY <1>2, <2>1, <2>2 DEF SpeakerRequested
  <2> QED
    BY <2>2, TableWriters
<1> QED
  BY <1>1, <1>2

\* Snapshots that are not touched stay closed.
LEMMA ClosedStays ==
  ASSUME TypeInv, OriginsInv, NEW r \in Request, Handled(r), NEW s, NEW m,
         OriginsIn(s.segments), ClosedIn(s, m)
  PROVE  OriginsIn(s.segments)' /\ ClosedIn(s, m)'
<1>1. OriginsIn(s.segments)'
  BY OriginsStay DEF OriginsIn
<1>2. ASSUME NEW i \in DOMAIN s.segments,
             s.segments[i].speaker \in Speaker,
             speakers'[s.segments[i].speaker] = m
      PROVE  s.segments[i].speaker \in s.speakers
  <2>1. speakers[s.segments[i].speaker] = m
    BY <1>2, OriginsStay DEF OriginsIn
  <2> QED
    BY <1>2, <2>1 DEF ClosedIn, ListSpeakers
<1> QED
  BY <1>1, <1>2 DEF ClosedIn, ListSpeakers

LEMMA OthersOrigins ==
  ASSUME TypeInv, OriginsInv, NEW r \in Request, Handled(r), NEW q \in Request \ {r},
         UNCHANGED kind
  PROVE  HeldOrigins(q)'
<1>1. HeldOrigins(q) /\ SameLocals(q)
  BY OthersSame DEF OriginsInv, TypeInv
<1>2. /\ pc'[q] = pc[q] /\ req'[q] = req[q] /\ batch'[q] = batch[q] /\ row'[q] = row[q]
      /\ snap'[q] = snap[q] /\ target'[q] = target[q]
  BY <1>1 DEF SameLocals
<1>3. ASSUME OriginsIn(snap[q].segments) PROVE OriginsIn(snap[q].segments)'
  BY <1>3, <1>2, OriginsStay DEF OriginsIn
<1>4. ASSUME OriginsIn(snap[q].segments), ClosedIn(snap[q], target[q])
      PROVE  ClosedIn(snap[q], target[q])'
  <2>1. PICK s, m : s = snap[q] /\ m = target[q]
    OBVIOUS
  <2>2. ClosedIn(s, m)'
    BY <1>4, <2>1, ClosedStays
  <2> QED
    BY <1>2, <2>1, <2>2 DEF ClosedIn, ListSpeakers
<1>5. ASSUME Origin(row[q].speaker) PROVE Origin(row[q].speaker)'
  <2>1. PICK p : p = row[q].speaker
    OBVIOUS
  <2>2. Origin(p)'
    BY <1>5, <2>1, OriginsStay
  <2> QED
    BY <1>2, <2>1, <2>2 DEF Origin
<1> QED
  BY <1>1, <1>2, <1>3, <1>4, <1>5 DEF HeldOrigins
-----------------------------------------------------------------------------
\* The row an edit holds is one it read, or such a one with the speaker it asks for.
LEMMA RowOrigins ==
  ASSUME TypeInv, OriginsInv, NEW r \in Request, Handled(r), row'[r] # None
  PROVE  Origin(row[r].speaker)'
<1> USE DEF Arrays, IsArray
<1>1. Arrays /\ (row[r] # None => Origin(row[r].speaker))
  BY DEF TypeInv, OriginsInv, HeldOrigins
<1>2. CASE row'[r] = row[r]
  <2>1. PICK p : p = row[r].speaker
    OBVIOUS
  <2>2. Origin(p)'
    BY <1>1, <1>2, <2>1, OriginsStay
  <2> QED
    BY <1>2, <2>1, <2>2 DEF Origin
<1>3. CASE kind[r] = "edit" /\ EditGetSegment(r) /\ row'[r] # row[r]
  <2>1. PICK s \in Segment : segments[s] # None /\ row'[r] = segments[s]
    BY <1>1, <1>3 DEF EditGetSegment, GetSegment, EditRequest
  <2>2. PICK p : p = segments[s].speaker
    OBVIOUS
  <2>3. Origin(p)'
    BY <2>1, <2>2, OriginsStay DEF OriginsInv
  <2> QED
    BY <2>1, <2>2, <2>3 DEF Origin
<1>4. CASE kind[r] = "edit" /\ EditPatch(r)
  <2>1. pc[r] = "patch" /\ row'[r] = Patched(row[r], req[r].edit)
    BY <1>1, <1>4 DEF EditPatch
  <2>2. row[r] \in Row /\ req[r] \in EditRequest
    BY <1>4, <2>1 DEF TypeInv, Held, HeldEdit, LocalsOK, Editing, EditPC
  <2>3. Origin(row[r].speaker) /\ Origin(NoSpeaker) /\ Origin(req[r].edit.speaker)
    BY <1>1, <2>2, EditAssumption, RequestAssumption DEF Origin
  <2>4. PICK p : p = Patched(row[r], req[r].edit).speaker
    OBVIOUS
  <2>5. p \in {row[r].speaker, NoSpeaker, req[r].edit.speaker}
    BY <2>2, <2>4, PatchedSpeaker DEF EditRequest
  <2>6. Origin(p)'
    BY <2>3, <2>5, OriginsStay
  <2> QED
    BY <2>1, <2>4, <2>6 DEF Origin
<1>5. \/ row'[r] = row[r]
      \/ kind[r] = "edit" /\ (EditGetSegment(r) \/ EditPatch(r))
  <2>1. CASE EditRequested(r)
    BY <2>1 DEF EditRequested, EditStep, EditLastActor, EditAddConflict,
       EditMarkConflict, EditGetSpeaker, EditUpdateSegment, EditAddRevision,
       EditRecompute, EditFail, editVars
  <2>2. CASE ~EditRequested(r)
    BY <2>2 DEF Handled, BodyRefused, PublishRequested, WithdrawRequested,
       CompareRequested, ImportRequested, MediaRequested, SpeakerRequested,
       RecomputeRequested, StatsRequested, RequestFails, editVars
  <2> QED
    BY <2>1, <2>2
<1> QED
  BY <1>2, <1>3, <1>4, <1>5

\* A snapshot lists the lines first: a speaker of one that is not registered by
\* then never is.
LEMMA SnapOrigins ==
  ASSUME TypeInv, OriginsInv, NEW r \in Request, kind[r] = "publish",
         PublishRequested(r), Handled(r), UNCHANGED kind
  PROVE  HeldOrigins(r)'
<1> USE DEF Arrays, IsArray
<1>1. Arrays /\ TypedLocals(r) /\ HeldOrigins(r)
  BY DEF TypeInv, Held, OriginsInv
<1>2. pc'[r] # "new"
  BY <1>1, HandledMoves DEF MovesOn, Outcome
<1>3. row'[r] # None => Origin(row[r].speaker)'
  BY RowOrigins
<1>4. CASE PublishListSegments(r)
  <2>1. /\ pc'[r] = "pub_list_speakers"
        /\ snap' = [snap EXCEPT ![r].segments = ListSegments(target[r])]
    BY <1>1, <1>4 DEF PublishListSegments, Goto
  <2>2. snap'[r].segments = ListSegments(target[r])
    BY <1>1, <2>1 DEF TypedLocals
  <2>3. OriginsIn(ListSegments(target[r]))
    BY DEF OriginsInv, OriginsIn, ListSegments
  <2>4. PICK rows : rows = ListSegments(target[r])
    OBVIOUS
  <2>5. OriginsIn(rows)'
    BY <2>3, <2>4, OriginsStay DEF OriginsIn
  <2>6. OriginsIn(snap[r].segments)'
    BY <2>2, <2>4, <2>5 DEF OriginsIn
  <2> QED
    BY <1>3, <2>1, <2>6 DEF HeldOrigins
<1>5. CASE PublishListSpeakers(r)
  <2>1. /\ pc[r] = "pub_list_speakers" /\ pc'[r] = "count_versions"
        /\ snap' = [snap EXCEPT ![r].speakers = ListSpeakers(target[r])]
        /\ UNCHANGED <<target, speakers>>
    BY <1>1, <1>5 DEF PublishListSpeakers, Goto, storeVars
  <2>2. /\ snap'[r].segments = snap[r].segments
        /\ snap'[r].speakers = ListSpeakers(target[r])
    BY <1>1, <2>1 DEF TypedLocals
  <2>3. OriginsIn(snap[r].segments)
    BY <1>1, <2>1 DEF HeldOrigins
  <2>4. PICK rows : rows = snap[r].segments
    OBVIOUS
  <2>5. OriginsIn(rows)'
    BY <2>3, <2>4, OriginsStay DEF OriginsIn
  <2>6. OriginsIn(snap[r].segments)'
    BY <2>2, <2>4, <2>5 DEF OriginsIn
  <2>7. ClosedIn(snap[r], target[r])'
    BY <2>1, <2>2 DEF ClosedIn, ListSpeakers
  <2> QED
    BY <1>3, <2>1, <2>6, <2>7 DEF HeldOrigins
<1>6. CASE PublishCount(r)
  <2>1. /\ pc[r] = "count_versions" /\ pc'[r] = "add_version"
        /\ UNCHANGED <<target, speakers, snap>>
    BY <1>1, <1>6 DEF PublishCount, Goto, storeVars
  <2>2. PICK s, m : s = snap[r] /\ m = target[r]
    OBVIOUS
  <2>3. OriginsIn(s.segments)' /\ ClosedIn(s, m)'
    BY <1>1, <2>1, <2>2, ClosedStays DEF HeldOrigins
  <2>4. OriginsIn(snap[r].segments)' /\ ClosedIn(snap[r], target[r])'
    BY <2>1, <2>2, <2>3 DEF OriginsIn, ClosedIn, ListSpeakers
  <2> QED
    BY <1>3, <2>1, <2>4 DEF HeldOrigins
<1>7. CASE PublishGetMedia(r) \/ PublishAddVersion(r) \/ PublishMarkMedia(r)
  <2>1. pc'[r] \notin {"pub_list_speakers", "count_versions", "add_version"}
    BY <1>1, <1>7 DEF PublishGetMedia, PublishAddVersion, PublishMarkMedia, Goto, Reply
  <2> QED
    BY <1>2, <1>3, <2>1 DEF HeldOrigins
<1> QED
  BY <1>4, <1>5, <1>6, <1>7 DEF PublishRequested, PublishStep

LEMMA StoredOrigins ==
  ASSUME TypeInv, OriginsInv, NEW r \in Request, Handled(r), NEW s \in Segment,
         segments'[s] # None
  PROVE  Origin(segments[s].speaker)'
<1>1. segments \in [Segment -> Row \cup {None}]
  BY DEF TypeInv, TablesTyped, TablesOK
<1>2. CASE segments'[s] = segments[s]
  <2>1. PICK p : p = segments[s].speaker
    OBVIOUS
  <2>2. Origin(p)'
    BY <1>2, <2>1, OriginsStay DEF OriginsInv
  <2> QED
    BY <1>2, <2>1, <2>2 DEF Origin
<1>3. CASE kind[r] = "edit" /\ EditMarkConflict(r)
  <2>1. segments[req[r].seg] \in Row /\ req[r] \in EditRequest
    BY <1>3 DEF TypeInv, Held, HeldEdit, LocalsOK, EditMarkConflict, Editing, EditPC
  <2>2. [segments[req[r].seg] EXCEPT !.status = "conflict"].speaker
          = segments[req[r].seg].speaker
    BY <2>1 DEF Row
  <2>3. \/ segments' = segments
        \/ segments' = [segments EXCEPT ![req[r].seg] = [@ EXCEPT !.status = "conflict"]]
    BY <1>3 DEF EditMarkConflict, UpdateSegmentStatus, storeVars
  <2>4. CASE s = req[r].seg
    <3>1. segments'[s].speaker = segments[s].speaker /\ segments[s] # None
      BY <1>1, <2>1, <2>2, <2>3, <2>4, EditAssumption
    <3>2. PICK p : p = segments[s].speaker
      OBVIOUS
    <3>3. Origin(p)'
      BY <3>1, <3>2, OriginsStay DEF OriginsInv
    <3> QED
      BY <3>1, <3>2, <3>3 DEF Origin
  <2>5. CASE s # req[r].seg
    BY <1>1, <1>2, <2>3, <2>5
  <2> QED
    BY <2>4, <2>5
<1>4. CASE kind[r] = "edit" /\ EditUpdateSegment(r) /\ segments'[s] # segments[s]
  <2>1. segments'[s] = row[r] /\ row' = row
    BY <1>1, <1>4 DEF EditUpdateSegment, UpdateSegment, editVars
  <2>2. Origin(row[r].speaker)'
    BY <2>1, RowOrigins
  <2> QED
    BY <2>1, <2>2 DEF Origin
<1>5. CASE kind[r] = "import" /\ ImportCreateSegments(r) /\ segments'[s] # segments[s]
  <2>1. PICK ids \in SUBSET Segment : Inserted(r, ids)
    BY <1>5, ImportWrites
  <2>2. PICK i \in DOMAIN batch[r] : segments'[s] = NewRow(into[r], batch[r][i])
    BY <1>5, <2>1 DEF Inserted
  <2>3. segments'[s].speaker = batch[r][i].speaker
    BY <2>2 DEF NewRow
  <2>4. batch' = batch
    BY <1>5 DEF ImportCreateSegments, intakeVars
  <2> QED
    BY <2>3, <2>4 DEF Origin
<1> QED
  BY <1>2, <1>3, <1>4, <1>5, TableWriters

LEMMA FrozenOrigins ==
  ASSUME TypeInv, PublishInv, OriginsInv, NEW r \in Request, Handled(r),
         NEW v \in DOMAIN versions'
  PROVE  /\ OriginsIn(versions[v].snap.segments)'
         /\ ClosedIn(versions[v].snap, versions[v].media)'
<1>1. CASE v \in DOMAIN versions
  <2>1. PICK s, m : s = versions[v].snap /\ m = versions[v].media
    OBVIOUS
  <2>2. versions'[v].snap = s /\ versions'[v].media = m
    BY <1>1, <2>1, VersionsTyped
  <2>3. OriginsIn(s.segments)' /\ ClosedIn(s, m)'
    BY <1>1, <2>1, ClosedStays DEF OriginsInv
  <2> QED
    BY <2>2, <2>3 DEF OriginsIn, ClosedIn, ListSpeakers
<1>2. CASE v \notin DOMAIN versions
  <2>1. kind[r] = "publish" /\ PublishAddVersion(r)
    BY <1>2, TableWriters DEF WithdrawMark, MarkWithdrawn
  <2>2. v = r /\ versions'[v] = Frozen(r) /\ pc[r] = "add_version"
    BY <1>2, <2>1 DEF PublishAddVersion, AddPublishVersion
  <2>3. PICK s, m : s = snap[r] /\ m = target[r]
    OBVIOUS
  <2>4. versions'[v].snap = s /\ versions'[v].media = m
    BY <2>2, <2>3 DEF Frozen
  <2>5. OriginsIn(s.segments)' /\ ClosedIn(s, m)'
    BY <2>1, <2>2, <2>3, ClosedStays DEF OriginsInv, HeldOrigins
  <2> QED
    BY <2>4, <2>5 DEF OriginsIn, ClosedIn, ListSpeakers
<1> QED
  BY <1>1, <1>2

LEMMA OriginsInvHandled ==
  ASSUME TypeInv, PublishInv, OriginsInv, NEW r \in Request, Handled(r), UNCHANGED kind
  PROVE  OriginsInv'
<1>1. ASSUME NEW q \in Request PROVE HeldOrigins(q)'
  <2>1. CASE q # r
    BY <2>1, OthersOrigins
  <2>2. CASE q = r /\ kind[r] = "publish" /\ PublishRequested(r)
    BY <2>2, SnapOrigins
  <2>3. CASE q = r /\ (kind[r] # "publish" \/ Refused(r))
    <3>1. pc'[r] # "new" /\ (kind[r] = "publish" => pc'[r] = "done")
      BY <2>3, HandledMoves DEF MovesOn, TypeInv, Refused, Reply, Arrays, IsArray
    <3> QED
      BY <2>3, <3>1, RowOrigins DEF HeldOrigins
  <2> QED
    BY <2>1, <2>2, <2>3, ServedByKind
<1>2. \A s \in Segment : segments'[s] # None => Origin(segments[s].speaker)'
  BY StoredOrigins
<1>3. \A v \in DOMAIN versions' :
        /\ OriginsIn(versions[v].snap.segments)'
        /\ ClosedIn(versions[v].snap, versions[v].media)'
  BY FrozenOrigins
<1> QED
  BY <1>1, <1>2, <1>3 DEF OriginsInv

LEMMA OriginsInvHolds == WorkbenchSpec => []OriginsInv
<1>1. TypeInv /\ PublishInv /\ OriginsInv /\ [WorkbenchNext]_allVars => OriginsInv'
  <2> SUFFICES ASSUME TypeInv, PublishInv, OriginsInv, [WorkbenchNext]_allVars
               PROVE  OriginsInv'
    OBVIOUS
  <2>1. CASE UNCHANGED allVars
    BY <2>1 DEF allVars, vars, storeVars, qaVars, editVars, publishVars, intakeVars,
                OriginsInv, HeldOrigins, OriginsIn, ClosedIn, Origin, ListSpeakers
  <2>2. CASE (\E r \in Request : Served(r)) /\ UNCHANGED kind
    BY <2>2, OriginsInvHandled DEF Served
  <2> QED
    BY <2>1, <2>2 DEF WorkbenchNext, WorkbenchQuiet
<1> QED
  BY <1>1, OriginsInvInit, TypeInvHolds, PublishInvHolds, PTL DEF WorkbenchSpec

\* A frozen version has the speakers of its media that its lines name.
THEOREM SnapshotsClosed == WorkbenchSpec => []SnapshotClosed
<1>1. OriginsInv => SnapshotClosed
  BY DEF OriginsInv, ClosedIn, SnapshotClosed
<1> QED
  BY <1>1, OriginsInvHolds, PTL
-----------------------------------------------------------------------------
(***************************************************************************)
(* Line indexes, when imports do not meet.  Two that do can double one:    *)
(* the check of the rows there are and the insertion are two calls.        *)
(***************************************************************************)

SeedIndexed ==
  \A s, t \in Segment :
    /\ SeedSegments[s] # None /\ SeedSegments[t] # None
    /\ SeedSegments[s].media = SeedSegments[t].media
    /\ SeedSegments[s].idx = SeedSegments[t].idx
    => s = t

\* What the import found before it inserts: its indexes differ, and no row of
\* its media has one of them.
HeldIndexes(r) ==
  kind[r] = "import" /\ pc[r] = "create_segments" =>
    /\ \A i, j \in DOMAIN batch[r] : batch[r][i].idx = batch[r][j].idx => i = j
    /\ \A s \in Segment : \A i \in DOMAIN batch[r] :
         segments[s] # None /\ segments[s].media = into[r]
           => segments[s].idx # batch[r][i].idx

IndexInv ==
  /\ IndexUnique
  /\ ImportsApart
  /\ \A r \in Request : HeldIndexes(r)

LEMMA IndexInvInit ==
  ASSUME SeedIndexed, WorkbenchInit
  PROVE  IndexInv
<1>1. segments = SeedSegments
  BY DEF WorkbenchInit, EditInit
<1>2. \A r \in Request : pc[r] = "new"
  BY DEF WorkbenchInit, EditInit, QualityInit
<1> QED
  BY <1>1, <1>2 DEF SeedIndexed, IndexInv, IndexUnique, ImportsApart, HeldIndexes

\* The indexes of an acceptable batch differ, and differ from those there are.
LEMMA AcceptableIndexes ==
  ASSUME NEW b \in Batches, NEW existing, BatchAcceptable(b, existing)
  PROVE  /\ \A i, j \in DOMAIN b : b[i].idx = b[j].idx => i = j
         /\ \A i \in DOMAIN b : b[i].idx \notin existing
<1>1. DOMAIN b = 1..Len(b) /\ Len(b) \in Nat
  BY IntakeAssumption
<1>2. ASSUME NEW i \in DOMAIN b
      PROVE  /\ b[i].idx \notin existing
             /\ \A k \in 1..(i - 1) : b[i].idx # b[k].idx
  BY DEF BatchAcceptable, Acceptable
<1>3. ASSUME NEW i \in DOMAIN b, NEW j \in DOMAIN b, i < j
      PROVE  b[i].idx # b[j].idx
  <2>1. i \in 1..(j - 1)
    BY <1>1, <1>3
  <2> QED
    BY <1>2, <2>1
<1>4. \A i, j \in DOMAIN b : i = j \/ i < j \/ j < i
  BY <1>1
<1> QED
  BY <1>2, <1>3, <1>4

\* Only an import brings in rows.
LEMMA RowsByImport ==
  ASSUME TypeInv, NEW r \in Request, Handled(r),
         ~(kind[r] = "import" /\ ImportCreateSegments(r)), NEW s \in Segment,
         segments'[s] # None
  PROVE  segments[s] # None /\ SamePlace(segments'[s], segments[s])
<1>1. segments[s] # None
  <2>1. segments \in [Segment -> Row \cup {None}]
    BY DEF TypeInv, TablesTyped, TablesOK
  <2>2. CASE kind[r] = "edit" /\ (EditMarkConflict(r) \/ EditUpdateSegment(r))
    <3>1. segments[req[r].seg] # None
      BY <2>2, EditAssumption DEF TypeInv, Held, HeldEdit, LocalsOK, EditMarkConflict,
                                  EditUpdateSegment, Editing, EditPC
    <3>2. s # req[r].seg => segments'[s] = segments[s]
      BY <2>1, <2>2 DEF EditMarkConflict, EditUpdateSegment, UpdateSegment,
                        UpdateSegmentStatus, storeVars
    <3> QED
      BY <3>1, <3>2
  <2> QED
    BY <2>2, TableWriters
<1> QED
  BY <1>1, SegmentsTyped

LEMMA IndexKept ==
  ASSUME TypeInv, IndexInv, NEW r \in Request, Handled(r), UNCHANGED kind,
         ~(kind[r] = "import" /\ ImportCreateSegments(r))
  PROVE  IndexUnique' /\ \A q \in Request \ {r} : HeldIndexes(q)'
<1>1. IndexUnique'
  BY RowsByImport DEF IndexInv, IndexUnique, SamePlace
<1>2. ASSUME NEW q \in Request \ {r} PROVE HeldIndexes(q)'
  <2>1. SameLocals(q) /\ HeldIndexes(q)
    BY OthersSame DEF TypeInv, IndexInv
  <2>2. pc'[q] = pc[q] /\ batch'[q] = batch[q] /\ into'[q] = into[q]
    BY <2>1 DEF SameLocals
  <2> QED
    BY <2>1, <2>2, RowsByImport DEF HeldIndexes, SamePlace
<1> QED
  BY <1>1, <1>2

LEMMA IndexInserted ==
  ASSUME TypeInv, IndexInv, NEW r \in Request, Handled(r), UNCHANGED kind,
         kind[r] = "import", ImportCreateSegments(r), ImportsApart'
  PROVE  IndexInv'
<1> USE DEF Arrays, IsArray
<1>1. PICK ids \in SUBSET Segment : Inserted(r, ids)
  BY ImportWrites
<1>2. pc[r] = "create_segments" /\ pc'[r] = "list_segments"
  BY DEF ImportCreateSegments, Goto, TypeInv
<1>3. /\ \A i, j \in DOMAIN batch[r] : batch[r][i].idx = batch[r][j].idx => i = j
      /\ \A s \in Segment : \A i \in DOMAIN batch[r] :
           segments[s] # None /\ segments[s].media = into[r]
             => segments[s].idx # batch[r][i].idx
  BY <1>2 DEF IndexInv, HeldIndexes
<1>4. IsFiniteSet(ids) /\ ids \in SUBSET Nat
  BY StoreAssumption, FS_Subset
<1>5. \A s \in ids : /\ Rank(ids, s) \in DOMAIN batch[r]
                     /\ segments'[s].media = into[r]
                     /\ segments'[s].idx = batch[r][Rank(ids, s)].idx
  <2> SUFFICES ASSUME NEW s \in ids
               PROVE  /\ Rank(ids, s) \in DOMAIN batch[r]
                      /\ segments'[s].media = into[r]
                      /\ segments'[s].idx = batch[r][Rank(ids, s)].idx
    OBVIOUS
  <2>1. PICK i \in DOMAIN batch[r] :
          i = Rank(ids, s) /\ segments'[s] = NewRow(into[r], batch[r][i])
    BY <1>1 DEF Inserted
  <2>2. segments'[s].media = into[r] /\ segments'[s].idx = batch[r][i].idx
    BY <2>1 DEF NewRow
  <2> QED
    BY <2>1, <2>2
<1>6. \A s \in Segment \ ids : segments'[s] = segments[s]
  BY <1>1 DEF Inserted
<1>7. ASSUME NEW s \in Segment, NEW t \in Segment,
             segments'[s] # None, segments'[t] # None,
             segments'[s].media = segments'[t].media,
             segments'[s].idx = segments'[t].idx
      PROVE  s = t
  <2>1. CASE s \in ids /\ t \in ids
    <3>1. Rank(ids, s) = Rank(ids, t)
      BY <1>3, <1>5, <1>7, <2>1
    <3> QED
      BY <1>4, <2>1, <3>1, RankEnumerates
  <2>2. CASE s \in ids /\ t \notin ids
    BY <1>3, <1>5, <1>6, <1>7, <2>2
  <2>3. CASE s \notin ids /\ t \in ids
    BY <1>3, <1>5, <1>6, <1>7, <2>3
  <2>4. CASE s \notin ids /\ t \notin ids
    BY <1>6, <1>7, <2>4 DEF IndexInv, IndexUnique
  <2> QED
    BY <2>1, <2>2, <2>3, <2>4
\* Another import that has read its indexes is one into another media, whose
\* rows are what they were.
<1>8. ASSUME NEW q \in Request, q # r PROVE HeldIndexes(q)'
  <2>1. SUFFICES ASSUME kind[q] = "import", pc'[q] = "create_segments"
                 PROVE  HeldIndexes(q)'
    BY DEF HeldIndexes
  <2>2. SameLocals(q) /\ HeldIndexes(q)
    BY <1>8, OthersSame DEF TypeInv, IndexInv
  <2>3. pc'[q] = pc[q] /\ batch'[q] = batch[q] /\ into'[q] = into[q]
    BY <2>2 DEF SameLocals
  <2>4. into[q] # into[r]
    BY <1>2, <1>8, <2>1, <2>3 DEF IndexInv, ImportsApart
  <2>5. ASSUME NEW s \in Segment, segments'[s] # None, segments'[s].media = into[q]
        PROVE  segments[s] # None /\ segments'[s] = segments[s]
    BY <1>5, <1>6, <2>4, <2>5
  <2> QED
    BY <2>1, <2>2, <2>3, <2>5 DEF HeldIndexes
<1>9. HeldIndexes(r)'
  BY <1>2 DEF HeldIndexes
<1> QED
  BY <1>7, <1>8, <1>9 DEF IndexInv, IndexUnique

LEMMA IndexInvHandled ==
  ASSUME TypeInv, IndexInv, NEW r \in Request, Handled(r), UNCHANGED kind,
         ImportsApart'
  PROVE  IndexInv'
<1> USE DEF Arrays, IsArray
<1>1. CASE kind[r] = "import" /\ ImportCreateSegments(r)
  BY <1>1, IndexInserted
<1>2. CASE ~(kind[r] = "import" /\ ImportCreateSegments(r))
  <2>1. ASSUME kind[r] = "import", pc'[r] = "create_segments" PROVE HeldIndexes(r)'
    <3>1. ImportListSegments(r) /\ pc[r] = "imp_list_segments"
      BY <2>1, ServedByKind, RecomputeMoves
         DEF TypeInv, Refused, Reply, Goto, ImportRequested, ImportStep, ImportGetMedia,
             ImportListSegments, ImportCreateSegments, ImportRecompute, QualityPC
    <3>2. /\ BatchAcceptable(batch[r], IndexesOf(ListSegments(into[r])))
          /\ UNCHANGED <<segments, into, batch>>
      BY <2>1, <3>1 DEF ImportListSegments, TypeInv, Reply, storeVars, intakeVars
    <3>3. batch[r] \in Batches
      BY <2>1, <3>1 DEF TypeInv, Held, HeldIntake
    <3>4. \A s \in Segment : segments[s] # None /\ segments[s].media = into[r]
            => segments[s].idx \in IndexesOf(ListSegments(into[r]))
      BY DEF IndexesOf, ListSegments
    <3> QED
      BY <3>2, <3>3, <3>4, AcceptableIndexes DEF HeldIndexes
  <2>2. HeldIndexes(r)'
    BY <2>1 DEF HeldIndexes
  <2> QED
    BY <1>2, <2>2, IndexKept DEF IndexInv
<1> QED
  BY <1>1, <1>2

\* What the apart requests do is what requests do.
LEMMA ApartWorks == ApartSpec => WorkbenchSpec
BY PTL DEF ApartSpec, WorkbenchSpec

\* Where no import of a media reads the indexes in use while another one has
\* read them and not inserted yet, an index is unique in its media - with any
\* number of imports, one after the other or into different media.
THEOREM IndexesUnique ==
  ASSUME SeedIndexed
  PROVE  ApartSpec => []IndexUnique
<1>1. WorkbenchInit => IndexInv
  BY IndexInvInit
<1>2. TypeInv /\ IndexInv /\ [WorkbenchNext /\ ImportsApart']_allVars => IndexInv'
  <2> SUFFICES ASSUME TypeInv, IndexInv, [WorkbenchNext /\ ImportsApart']_allVars
               PROVE  IndexInv'
    OBVIOUS
  <2>1. CASE UNCHANGED allVars
    BY <2>1 DEF allVars, vars, storeVars, qaVars, intakeVars, IndexInv, HeldIndexes,
                IndexUnique, ImportsApart
  <2>2. CASE (\E r \in Request : Served(r)) /\ UNCHANGED kind /\ ImportsApart'
    BY <2>2, IndexInvHandled DEF Served
  <2> QED
    BY <2>1, <2>2 DEF WorkbenchNext, WorkbenchQuiet
<1>3. IndexInv => IndexUnique
  BY DEF IndexInv
<1>4. ApartSpec => []TypeInv
  BY ApartWorks, TypeInvHolds, PTL
<1> QED
  BY <1>1, <1>2, <1>3, <1>4, PTL DEF ApartSpec
-----------------------------------------------------------------------------
(***************************************************************************)
(* The totals of the dashboard.                                            *)
(***************************************************************************)

\* Lines and versions are of a media there is; and what is only added to stays
\* finite.
HeldMedia(r) ==
  /\ kind[r] = "import" /\ pc[r] \in {"imp_list_segments", "create_segments"}
       => media[into[r]] # None
  /\ kind[r] = "publish" /\ pc[r] \in PublishPC => media[target[r]] # None

OwnedInv ==
  /\ \A s \in Segment : segments[s] # None => media[segments[s].media] # None
  /\ \A v \in DOMAIN versions : media[versions[v].media] # None
  /\ \A r \in Request : HeldMedia(r)
  /\ IsFiniteSet(conflicts)
  /\ IsFiniteSet(withdrawals)

LEMMA OwnedInvInit == WorkbenchInit => OwnedInv
<1> SUFFICES ASSUME WorkbenchInit PROVE OwnedInv
  OBVIOUS
<1>1. \A s \in Segment : segments[s] # None => media[segments[s].media] # None
  BY SeedAssumption DEF WorkbenchInit, EditInit
<1>2. DOMAIN versions = {} /\ conflicts = {} /\ withdrawals = {}
  BY DEF WorkbenchInit, EditInit
<1>3. \A r \in Request : pc[r] = "new"
  BY DEF WorkbenchInit, EditInit, QualityInit
<1>4. IsFiniteSet(conflicts) /\ IsFiniteSet(withdrawals)
  BY <1>2, FS_EmptySet
<1> QED
  BY <1>1, <1>2, <1>3, <1>4 DEF OwnedInv, HeldMedia, PublishPC

LEMMA MediaHeld ==
  ASSUME TypeInv, OwnedInv, NEW r \in Request, Handled(r), Grow, UNCHANGED kind,
         NEW q \in Request
  PROVE  HeldMedia(q)'
<1> USE DEF Arrays, IsArray
<1>1. Arrays /\ Held(q) /\ HeldMedia(q)
  BY DEF TypeInv, OwnedInv
<1>2. CASE q # r
  <2>1. pc'[q] = pc[q] /\ into'[q] = into[q] /\ target'[q] = target[q]
    BY <1>1, <1>2, OthersSame DEF SameLocals
  <2>2. /\ kind[q] = "import" /\ pc[q] \in {"imp_list_segments", "create_segments"}
             => into[q] \in Media
        /\ kind[q] = "publish" /\ pc[q] \in PublishPC => target[q] \in Media
    BY <1>1 DEF Held, HeldIntake, HeldPublish
  <2> QED
    BY <1>1, <2>1, <2>2 DEF HeldMedia, Grow
<1>3. CASE q = r /\ Refused(r)
  BY <1>1, <1>3 DEF Refused, Reply, HeldMedia, PublishPC
<1>4. CASE q = r /\ kind[r] = "import" /\ ImportRequested(r)
  <2>1. pc'[r] = "imp_list_segments" => ImportGetMedia(r)
    BY <1>1, <1>4, RecomputeMoves
       DEF ImportRequested, ImportStep, ImportListSegments, ImportCreateSegments,
           ImportRecompute, Goto, Reply, QualityPC
  <2>2. pc'[r] = "create_segments" => ImportListSegments(r)
    BY <1>1, <1>4, RecomputeMoves
       DEF ImportRequested, ImportStep, ImportGetMedia, ImportCreateSegments,
           ImportRecompute, Goto, Reply, QualityPC
  <2>3. ImportGetMedia(r) /\ pc'[r] = "imp_list_segments" => media'[into'[r]] # None
    BY <1>1 DEF ImportGetMedia, Goto, Reply, GetMedia, storeVars
  <2>4. ImportListSegments(r) => media'[into'[r]] # None
    BY <1>1, <1>4 DEF ImportListSegments, HeldMedia, storeVars, intakeVars
  <2> QED
    BY <1>4, <2>1, <2>2, <2>3, <2>4 DEF HeldMedia
<1>5. CASE q = r /\ kind[r] = "publish" /\ PublishRequested(r)
  <2>1. CASE PublishGetMedia(r)
    <3>1. pc'[r] \in PublishPC => media'[target'[r]] # None
      BY <1>1, <2>1 DEF PublishGetMedia, Goto, Reply, GetMedia, PublishPC, storeVars
    <3> QED
      BY <1>5, <3>1 DEF HeldMedia
  <2>2. CASE ~PublishGetMedia(r)
    <3>1. pc[r] \in PublishPC /\ target'[r] = target[r]
      BY <1>1, <1>5, <2>2
         DEF PublishRequested, PublishStep, PublishListSegments, PublishListSpeakers,
             PublishCount, PublishAddVersion, PublishMarkMedia, PublishPC, publishVars
    <3>2. target[r] \in Media
      BY <1>1, <1>5, <3>1 DEF Held, HeldPublish
    <3> QED
      BY <1>1, <1>5, <3>1, <3>2 DEF HeldMedia, Grow
  <2> QED
    BY <2>1, <2>2
<1>6. CASE kind[q] \notin {"import", "publish"}
  BY <1>6 DEF HeldMedia
<1> QED
  BY <1>2, <1>3, <1>4, <1>5, <1>6, ServedByKind

LEMMA OwnedInvHandled ==
  ASSUME TypeInv, PublishInv, OwnedInv, NEW r \in Request, Handled(r), UNCHANGED kind
  PROVE  OwnedInv'
<1>0. Grow
  BY TablesGrow
<1>1. ASSUME NEW s \in Segment, segments'[s] # None
      PROVE  media'[segments'[s].media] # None
  <2>0. segments \in [Segment -> Row \cup {None}]
    BY DEF TypeInv, TablesTyped, TablesOK
  <2>1. CASE kind[r] = "import" /\ ImportCreateSegments(r) /\ segments'[s] # segments[s]
    <3>1. PICK ids \in SUBSET Segment : Inserted(r, ids)
      BY <2>1, ImportWrites
    <3>2. PICK in : segments'[s] = NewRow(into[r], in)
      BY <2>1, <3>1 DEF Inserted
    <3>3. segments'[s].media = into[r]
      BY <3>2 DEF NewRow
    <3>4. media[into[r]] # None /\ media' = media
      BY <2>1 DEF OwnedInv, HeldMedia, ImportCreateSegments, CreateSegments
    <3> QED
      BY <3>3, <3>4
  <2>2. CASE ~(kind[r] = "import" /\ ImportCreateSegments(r)) \/ segments'[s] = segments[s]
    <3>1. segments[s] # None /\ segments'[s].media = segments[s].media
      BY <1>1, <2>2, RowsByImport DEF SamePlace
    <3>2. segments[s].media \in Media
      BY <2>0, <3>1 DEF Row
    <3> QED
      BY <1>0, <3>1, <3>2 DEF OwnedInv, Grow
  <2> QED
    BY <2>1, <2>2
<1>2. ASSUME NEW v \in DOMAIN versions' PROVE media'[versions'[v].media] # None
  <2>1. CASE v \in DOMAIN versions
    <3>1. versions'[v].media = versions[v].media /\ versions[v].media \in Media
      BY <2>1, VersionsTyped DEF TypeInv, TablesTyped, IsVersion
    <3> QED
      BY <1>0, <2>1, <3>1 DEF OwnedInv, Grow
  <2>2. CASE v \notin DOMAIN versions
    <3>1. kind[r] = "publish" /\ PublishAddVersion(r)
      BY <2>2, TableWriters DEF WithdrawMark, MarkWithdrawn
    <3>2. versions'[v].media = target[r] /\ pc[r] = "add_version" /\ media' = media
      BY <2>2, <3>1 DEF PublishAddVersion, AddPublishVersion, Frozen
    <3> QED
      BY <3>1, <3>2 DEF OwnedInv, HeldMedia, PublishPC
  <2> QED
    BY <2>1, <2>2
<1>3. IsFiniteSet(conflicts')
  <2>1. conflicts' = conflicts \/ \E c : conflicts' = conflicts \cup {c}
    BY TableWriters DEF EditAddConflict, AddConflict
  <2> QED
    BY <2>1, FS_AddElement DEF OwnedInv
<1>4. IsFiniteSet(withdrawals')
  <2>1. withdrawals' = withdrawals \/ \E w : withdrawals' = withdrawals \cup {w}
    BY TableWriters DEF WithdrawAddRecord, AddWithdrawal
  <2> QED
    BY <2>1, FS_AddElement DEF OwnedInv
<1> QED
  BY <1>0, <1>1, <1>2, <1>3, <1>4, MediaHeld DEF OwnedInv

LEMMA OwnedInvHolds == WorkbenchSpec => []OwnedInv
<1>1. TypeInv /\ PublishInv /\ OwnedInv /\ [WorkbenchNext]_allVars => OwnedInv'
  <2> SUFFICES ASSUME TypeInv, PublishInv, OwnedInv, [WorkbenchNext]_allVars
               PROVE  OwnedInv'
    OBVIOUS
  <2>1. CASE UNCHANGED allVars
    BY <2>1 DEF allVars, vars, storeVars, qaVars, publishVars, intakeVars, OwnedInv,
                HeldMedia
  <2>2. CASE (\E r \in Request : Served(r)) /\ UNCHANGED kind
    BY <2>2, OwnedInvHandled DEF Served
  <2> QED
    BY <2>1, <2>2 DEF WorkbenchNext, WorkbenchQuiet
<1> QED
  BY <1>1, OwnedInvInit, TypeInvHolds, PublishInvHolds, PTL DEF WorkbenchSpec
-----------------------------------------------------------------------------
\* The totals, but for the findings, whose number can fall.
Columns == {"media", "segments", "versions", "speakers", "quality", "conflicts",
            "withdrawals"}
Kept == Columns \ {"quality"}

LinesIn(S) == {s \in Segment : segments[s] # None /\ segments[s].media \in S}
VersionsIn(S) == {v \in DOMAIN versions : versions[v].media \in S}
LinesOf(S) == Cardinality(LinesIn(S))
VersionCount(S) == Cardinality(VersionsIn(S))

\* The media whose lines, and those whose versions, are still to be counted.
Elements(q) == {m \in Media : \E i \in DOMAIN q : q[i] = m}
LinesLeft(r) ==
  CASE pc[r] = "count_segments" -> Elements(left[r])
    [] pc[r] = "count_media_versions" -> Elements(left[r]) \ {Head(left[r])}
    [] OTHER -> {}
VersionsLeft(r) ==
  IF pc[r] \in {"count_segments", "count_media_versions"} THEN Elements(left[r]) ELSE {}

Listing(q) ==
  /\ q \in Seq(Media)
  /\ q # <<>>
  /\ \A i, j \in DOMAIN q : q[i] = q[j] => i = j

\* The calls ahead of which each table is counted.
Uncounted ==
  [speakers    |-> {"count_segments", "count_media_versions", "count_speakers"},
   conflicts   |-> StatsPC \ {"count_withdrawals"},
   withdrawals |-> StatsPC]

HeldTotals(r) ==
  /\ DOMAIN tally[r] = Columns
  /\ \A c \in Kept : floor[r][c] \in Nat /\ tally[r][c] \in Nat
  /\ \A c \in Kept : floor[r][c] <= Totals[c]
  /\ floor[r]["media"] <= tally[r]["media"] /\ tally[r]["media"] <= Totals["media"]
  /\ tally[r]["segments"] <= LinesOf(Media \ LinesLeft(r))
  /\ floor[r]["segments"] <= tally[r]["segments"] + LinesOf(LinesLeft(r))
  /\ tally[r]["versions"] <= VersionCount(Media \ VersionsLeft(r))
  /\ floor[r]["versions"] <= tally[r]["versions"] + VersionCount(VersionsLeft(r))
  /\ \A c \in {"speakers", "conflicts", "withdrawals"} :
       IF pc[r] \in Uncounted[c]
         THEN tally[r][c] = 0
         ELSE floor[r][c] <= tally[r][c] /\ tally[r][c] <= Totals[c]

HeldStats(r) ==
  kind[r] = "stats" =>
    /\ pc[r] = "new" => tally[r] = Zero
    /\ pc[r] \in {"count_segments", "count_media_versions"} => Listing(left[r])
    /\ pc[r] \in StatsPC \/ outcome[r] = "ok" => HeldTotals(r)

StatsInv == \A r \in Request : HeldStats(r)

LEMMA StatsInvInit == WorkbenchInit => StatsInv
<1> SUFFICES ASSUME WorkbenchInit, NEW r \in Request PROVE HeldStats(r)
  BY DEF StatsInv
<1>1. pc[r] = "new" /\ outcome[r] = None /\ tally[r] = Zero /\ None # "ok"
  BY OutcomeAssumption DEF WorkbenchInit, EditInit, QualityInit, StatsInit, Outcome
<1> QED
  BY <1>1 DEF HeldStats, StatsPC

LEMMA LinesFinite ==
  ASSUME NEW S
  PROVE  IsFiniteSet(LinesIn(S)) /\ LinesOf(S) \in Nat
<1>1. LinesIn(S) \in SUBSET Segment
  BY DEF LinesIn
<1> QED
  BY <1>1, StoreAssumption, FS_Subset, FS_CardinalityType DEF LinesOf

LEMMA VersionsCountable ==
  ASSUME PublishInv, NEW S
  PROVE  IsFiniteSet(VersionsIn(S)) /\ VersionCount(S) \in Nat
<1>1. VersionsIn(S) \in SUBSET Request
  BY DEF VersionsIn, PublishInv, RowsInv
<1> QED
  BY <1>1, StoreAssumption, FS_Subset, FS_CardinalityType DEF VersionCount

\* Counting media by media: the rows of one more media are added.
LEMMA OneMediaMore ==
  ASSUME PublishInv, NEW S, NEW m, m \notin S
  PROVE  /\ LinesOf(S \cup {m}) = LinesOf(S) + CountSegments(m)
         /\ VersionCount(S \cup {m}) = VersionCount(S) + CountPublishVersions(m)
<1>1. /\ LinesIn(S \cup {m}) = LinesIn(S) \cup LinesIn({m})
      /\ LinesIn(S) \cap LinesIn({m}) = {}
      /\ DOMAIN ListSegments(m) = LinesIn({m})
  BY DEF LinesIn, ListSegments
<1>2. /\ VersionsIn(S \cup {m}) = VersionsIn(S) \cup VersionsIn({m})
      /\ VersionsIn(S) \cap VersionsIn({m}) = {}
      /\ {v \in DOMAIN versions : versions[v].media = m} = VersionsIn({m})
  BY DEF VersionsIn
<1>3. /\ IsFiniteSet(LinesIn(S)) /\ IsFiniteSet(LinesIn({m}))
      /\ LinesOf(S) \in Nat /\ LinesOf({m}) \in Nat
  BY LinesFinite
<1>4. /\ IsFiniteSet(VersionsIn(S)) /\ IsFiniteSet(VersionsIn({m}))
      /\ VersionCount(S) \in Nat /\ VersionCount({m}) \in Nat
  BY VersionsCountable
<1>5. LinesOf(S \cup {m}) = LinesOf(S) + LinesOf({m}) - Cardinality({})
  BY <1>1, <1>3, FS_Union DEF LinesOf
<1>6. VersionCount(S \cup {m}) = VersionCount(S) + VersionCount({m}) - Cardinality({})
  BY <1>2, <1>4, FS_Union DEF VersionCount
<1>7. CountSegments(m) = LinesOf({m}) /\ CountPublishVersions(m) = VersionCount({m})
  BY <1>1, <1>2 DEF LinesOf, VersionCount, CountSegments, CountPublishVersions
<1>8. Cardinality({}) = 0
  BY FS_EmptySet
<1> QED
  BY <1>3, <1>4, <1>5, <1>6, <1>7, <1>8

\* All the rows there are, and none.
LEMMA AllCounted ==
  ASSUME TypeInv, PublishInv, OwnedInv
  PROVE  /\ Totals["segments"] = LinesOf(Media)
         /\ LinesOf(ListMedia) = LinesOf(Media) /\ LinesOf(Media \ ListMedia) = 0
         /\ Totals["versions"] = VersionCount(Media)
         /\ VersionCount(ListMedia) = VersionCount(Media)
         /\ VersionCount(Media \ ListMedia) = 0
         /\ LinesOf({}) = 0 /\ VersionCount({}) = 0
<1>1. \A s \in Segment : segments[s] # None => segments[s].media \in ListMedia
  BY DEF TypeInv, TablesTyped, TablesOK, OwnedInv, ListMedia, Row
<1>2. \A v \in DOMAIN versions : versions[v].media \in ListMedia
  BY DEF TypeInv, TablesTyped, IsVersion, OwnedInv, ListMedia
<1>3. ListMedia \subseteq Media
  BY DEF ListMedia
<1>4. /\ LinesIn(Media) = {s \in Segment : segments[s] # None}
      /\ LinesIn(ListMedia) = {s \in Segment : segments[s] # None}
      /\ LinesIn(Media \ ListMedia) = {} /\ LinesIn({}) = {}
  BY <1>1, <1>3 DEF LinesIn
<1>5. /\ VersionsIn(Media) = DOMAIN versions
      /\ VersionsIn(ListMedia) = DOMAIN versions
      /\ VersionsIn(Media \ ListMedia) = {} /\ VersionsIn({}) = {}
  BY <1>2, <1>3 DEF VersionsIn
<1> QED
  BY <1>4, <1>5, FS_EmptySet DEF LinesOf, VersionCount, Totals

\* Rows are only added.
LEMMA CountsGrow ==
  ASSUME TypeInv, PublishInv, PublishInv', Grow, NEW S
  PROVE  /\ LinesOf(S) <= LinesOf(S)'
         /\ VersionCount(S) <= VersionCount(S)'
         /\ LinesOf(S)' \in Nat /\ VersionCount(S)' \in Nat
<1>1. LinesIn(S) \in SUBSET LinesIn(S)'
  BY DEF LinesIn, Grow, SamePlace
<1>2. VersionsIn(S) \in SUBSET VersionsIn(S)'
  BY DEF VersionsIn, Grow
<1>3. LinesIn(S)' \in SUBSET Segment /\ VersionsIn(S)' \in SUBSET Request
  BY DEF LinesIn, VersionsIn, PublishInv, RowsInv
<1>4. IsFiniteSet(LinesIn(S)') /\ IsFiniteSet(VersionsIn(S)')
  BY <1>3, StoreAssumption, FS_Subset
<1> QED
  BY <1>1, <1>2, <1>4, FS_Subset, FS_CardinalityType DEF LinesOf, VersionCount

LEMMA TotalsGrow ==
  ASSUME TypeInv, PublishInv, OwnedInv, OwnedInv', TypeInv', PublishInv', Grow, NEW c \in Kept
  PROVE  /\ Totals[c] <= Totals'[c]
         /\ Totals[c] \in Nat /\ Totals'[c] \in Nat
<1>1. /\ ListMedia \in SUBSET ListMedia' /\ ListMedia' \in SUBSET Media
      /\ {p \in Speaker : speakers[p] # None} \in SUBSET {p \in Speaker : speakers'[p] # None}
      /\ {p \in Speaker : speakers'[p] # None} \in SUBSET Speaker
      /\ conflicts \in SUBSET conflicts' /\ withdrawals \in SUBSET withdrawals'
  BY DEF ListMedia, Grow
<1>2. IsFiniteSet(ListMedia') /\ IsFiniteSet({p \in Speaker : speakers'[p] # None})
  BY <1>1, StoreAssumption, FS_Subset
<1>3. IsFiniteSet(conflicts') /\ IsFiniteSet(withdrawals')
  BY DEF OwnedInv
<1>4. CASE c \in {"media", "speakers", "conflicts", "withdrawals"}
  <2>1. /\ Totals["media"] <= Totals'["media"]
        /\ Totals["media"] \in Nat /\ Totals'["media"] \in Nat
    BY <1>1, <1>2, FS_Subset, FS_CardinalityType DEF Totals
  <2>2. /\ Totals["speakers"] <= Totals'["speakers"]
        /\ Totals["speakers"] \in Nat /\ Totals'["speakers"] \in Nat
    BY <1>1, <1>2, FS_Subset, FS_CardinalityType DEF Totals, CountSpeakers
  <2>3. /\ Totals["conflicts"] <= Totals'["conflicts"]
        /\ Totals["conflicts"] \in Nat /\ Totals'["conflicts"] \in Nat
    BY <1>1, <1>3, FS_Subset, FS_CardinalityType DEF Totals
  <2>4. /\ Totals["withdrawals"] <= Totals'["withdrawals"]
        /\ Totals["withdrawals"] \in Nat /\ Totals'["withdrawals"] \in Nat
    BY <1>1, <1>3, FS_Subset, FS_CardinalityType DEF Totals
  <2> QED
    BY <1>4, <2>1, <2>2, <2>3, <2>4
<1>5. CASE c \in {"segments", "versions"}
  <2>1. /\ Totals["segments"] = LinesOf(Media) /\ Totals'["segments"] = LinesOf(Media)'
        /\ Totals["versions"] = VersionCount(Media)
        /\ Totals'["versions"] = VersionCount(Media)'
    <3>1. (Totals["segments"] = LinesOf(Media) /\ Totals["versions"] = VersionCount(Media))'
      BY AllCounted, PTL
    <3> QED
      BY <3>1, AllCounted
  <2>2. LinesOf(Media) \in Nat /\ VersionCount(Media) \in Nat
    BY LinesFinite, VersionsCountable
  <2> QED
    BY <1>5, <2>1, <2>2, CountsGrow
<1> QED
  BY <1>4, <1>5 DEF Kept, Columns
-----------------------------------------------------------------------------
\* A list of media, and what is left of it once the first is dealt with.
LEMMA RestOfListing ==
  ASSUME NEW q, Listing(q)
  PROVE  /\ Head(q) \in Elements(q)
         /\ Elements(q) \subseteq Media
         /\ Len(q) = 1 => Elements(q) = {Head(q)}
         /\ Len(q) # 1 => Listing(Tail(q))
         /\ Elements(Tail(q)) = Elements(q) \ {Head(q)}
<1>1. q \in Seq(Media) /\ q # <<>> /\ \A i, j \in DOMAIN q : q[i] = q[j] => i = j
  BY DEF Listing
<1>2. /\ Len(q) \in Nat \ {0} /\ DOMAIN q = 1..Len(q) /\ Head(q) = q[1]
      /\ \A i \in 1..Len(q) : q[i] \in Media
      /\ Tail(q) \in Seq(Media) /\ Len(Tail(q)) = Len(q) - 1
      /\ DOMAIN Tail(q) = 1..(Len(q) - 1)
      /\ \A i \in 1..(Len(q) - 1) : Tail(q)[i] = q[i + 1]
  BY <1>1
<1>3. Head(q) \in Elements(q)
  BY <1>2 DEF Elements
<1>4. ASSUME Len(q) = 1 PROVE Elements(q) = {Head(q)}
  BY <1>2, <1>4 DEF Elements
<1>5. ASSUME Len(q) # 1 PROVE Listing(Tail(q))
  <2>1. Tail(q) # <<>>
    BY <1>2, <1>5
  <2>2. ASSUME NEW i \in 1..(Len(q) - 1), NEW j \in 1..(Len(q) - 1), Tail(q)[i] = Tail(q)[j]
        PROVE  i = j
    <3>1. q[i + 1] = q[j + 1] /\ i + 1 \in 1..Len(q) /\ j + 1 \in 1..Len(q)
      BY <1>2, <2>2
    <3>2. i + 1 = j + 1
      BY <1>1, <1>2, <3>1
    <3> QED
      BY <3>2
  <2> QED
    BY <1>2, <2>1, <2>2 DEF Listing
<1>6. ASSUME NEW m \in Elements(q), m # Head(q) PROVE m \in Elements(Tail(q))
  <2>1. PICK i \in 1..Len(q) : q[i] = m
    BY <1>2 DEF Elements
  <2>2. i # 1
    BY <1>2, <1>6, <2>1
  <2>3. i - 1 \in 1..(Len(q) - 1) /\ (i - 1) + 1 = i
    BY <1>2, <2>1, <2>2
  <2>4. Tail(q)[i - 1] = m
    BY <1>2, <2>1, <2>3
  <2> QED
    BY <1>2, <2>3, <2>4 DEF Elements
<1>7. ASSUME NEW m \in Elements(Tail(q)) PROVE m \in Elements(q) /\ m # Head(q)
  <2>1. PICK i \in 1..(Len(q) - 1) : Tail(q)[i] = m
    BY <1>2 DEF Elements
  <2>2. i + 1 \in 1..Len(q) /\ q[i + 1] = m /\ i + 1 # 1
    BY <1>2, <2>1
  <2>3. 1 \in 1..Len(q)
    BY <1>2
  <2>4. q[1] # m
    BY <1>1, <1>2, <2>2, <2>3
  <2> QED
    BY <1>2, <2>2, <2>4 DEF Elements
<1> QED
  BY <1>3, <1>4, <1>5, <1>6, <1>7 DEF Elements

\* The media come listed each once.
LEMMA OrdersList ==
  ASSUME NEW S \in SUBSET Media, NEW q \in Orders(S), S # {}
  PROVE  Listing(q) /\ Elements(q) = S
<1> DEFINE n == Cardinality(S)
<1>1. IsFiniteSet(S) /\ n \in Nat
  BY StoreAssumption, FS_Subset, FS_CardinalityType
<1>2. q \in [1..n -> S] /\ {q[i] : i \in DOMAIN q} = S
  BY DEF Orders
<1>3. q \in Surjection(1..n, S)
  BY <1>2 DEF Surjection
<1>4. IsFiniteSet(1..n) /\ Cardinality(1..n) = n
  BY <1>1, FS_Interval
<1>5. q \in Injection(1..n, S)
  BY <1>3, <1>4, FS_SurjSameCardinalityImpliesInj
<1> HIDE DEF n
<1>6. DOMAIN q = 1..n /\ \A i, j \in DOMAIN q : q[i] = q[j] => i = j
  BY <1>2, <1>5 DEF Injection, IsInjective
<1>7. q \in Seq(Media)
  BY <1>1, <1>2
<1>8. q # <<>>
  <2>1. PICK i \in DOMAIN q : TRUE
    BY <1>2
  <2>2. i \in 1..Len(q)
    BY <1>7, <2>1
  <2>3. Len(<<>>) = 0
    OBVIOUS
  <2> QED
    BY <2>2, <2>3
<1> QED
  BY <1>2, <1>6, <1>7, <1>8 DEF Listing, Elements
-----------------------------------------------------------------------------
LEMMA OthersTotals ==
  ASSUME TypeInv, PublishInv, OwnedInv, TypeInv', PublishInv', OwnedInv', Grow,
         NEW q \in Request, SameLocals(q), UNCHANGED kind, HeldStats(q)
  PROVE  HeldStats(q)'
<1>1. /\ pc'[q] = pc[q] /\ outcome'[q] = outcome[q] /\ left'[q] = left[q]
      /\ tally'[q] = tally[q] /\ floor'[q] = floor[q]
  BY DEF SameLocals
<1>2. Listing(left[q]) => Listing(left[q])'
  BY <1>1 DEF Listing
<1>3. ASSUME HeldTotals(q) PROVE HeldTotals(q)'
  <2>1. \A c \in Kept : /\ Totals[c] <= Totals'[c]
                        /\ Totals[c] \in Nat /\ Totals'[c] \in Nat
    BY TotalsGrow
  <2>2. PICK S, T : S = LinesLeft(q) /\ T = VersionsLeft(q)
    OBVIOUS
  <2>3. LinesLeft(q)' = S /\ VersionsLeft(q)' = T
    BY <1>1, <2>2 DEF LinesLeft, VersionsLeft, Elements
  <2>4. /\ LinesOf(Media \ S) <= LinesOf(Media \ S)' /\ LinesOf(S) <= LinesOf(S)'
        /\ LinesOf(Media \ S) \in Nat /\ LinesOf(S) \in Nat
        /\ LinesOf(Media \ S)' \in Nat /\ LinesOf(S)' \in Nat
    BY CountsGrow, LinesFinite
  <2>5. /\ VersionCount(Media \ T) <= VersionCount(Media \ T)'
        /\ VersionCount(T) <= VersionCount(T)'
        /\ VersionCount(Media \ T) \in Nat /\ VersionCount(T) \in Nat
        /\ VersionCount(Media \ T)' \in Nat /\ VersionCount(T)' \in Nat
    BY CountsGrow, VersionsCountable
  <2>6. /\ LinesOf(LinesLeft(q))' = LinesOf(S)'
        /\ LinesOf(Media \ LinesLeft(q))' = LinesOf(Media \ S)'
        /\ VersionCount(VersionsLeft(q))' = VersionCount(T)'
        /\ VersionCount(Media \ VersionsLeft(q))' = VersionCount(Media \ T)'
    BY <2>3 DEF LinesOf, LinesIn, VersionCount, VersionsIn
  <2>7. /\ DOMAIN tally[q] = Columns
        /\ \A c \in Kept : floor[q][c] \in Nat /\ tally[q][c] \in Nat
    BY <1>3 DEF HeldTotals
  <2>8. \A c \in Kept : floor[q][c] <= Totals'[c]
    BY <1>3, <2>1, <2>7 DEF HeldTotals
  <2>9. /\ floor[q]["media"] <= tally[q]["media"]
        /\ tally[q]["media"] <= Totals'["media"]
    BY <1>3, <2>1, <2>7 DEF HeldTotals, Kept, Columns
  <2>10. /\ tally[q]["segments"] <= LinesOf(Media \ S)'
         /\ floor[q]["segments"] <= tally[q]["segments"] + LinesOf(S)'
    BY <1>3, <2>2, <2>4, <2>7 DEF HeldTotals, Kept, Columns
  <2>11. /\ tally[q]["versions"] <= VersionCount(Media \ T)'
         /\ floor[q]["versions"] <= tally[q]["versions"] + VersionCount(T)'
    BY <1>3, <2>2, <2>5, <2>7 DEF HeldTotals, Kept, Columns
  <2>12. \A c \in {"speakers", "conflicts", "withdrawals"} :
           IF pc[q] \in Uncounted[c]
             THEN tally[q][c] = 0
             ELSE floor[q][c] <= tally[q][c] /\ tally[q][c] <= Totals'[c]
    <3>1. \A c \in {"speakers", "conflicts", "withdrawals"} :
            /\ c \in Kept
            /\ IF pc[q] \in Uncounted[c]
                 THEN tally[q][c] = 0
                 ELSE floor[q][c] <= tally[q][c] /\ tally[q][c] <= Totals[c]
      BY <1>3 DEF HeldTotals, Kept, Columns
    <3> QED
      BY <3>1, <2>1, <2>7
  <2> QED
    BY <1>1, <2>6, <2>7, <2>8, <2>9, <2>10, <2>11, <2>12 DEF HeldTotals, Uncounted
<1> QED
  BY <1>1, <1>2, <1>3 DEF HeldStats

\* One more count in a column.
LEMMA AddedColumn ==
  ASSUME NEW r \in Request, IsArray(tally), DOMAIN tally[r] = Columns,
         NEW column \in Columns, NEW n, Added(r, column, n)
  PROVE  /\ DOMAIN tally'[r] = Columns
         /\ tally'[r][column] = tally[r][column] + n
         /\ \A c \in Columns : c # column => tally'[r][c] = tally[r][c]
BY DEF Added, IsArray

LEMMA StatsStarts ==
  ASSUME TypeInv, PublishInv, OwnedInv, NEW r \in Request, StatsListMedia(r),
         HeldStats(r), kind[r] = "stats", UNCHANGED kind
  PROVE  HeldStats(r)'
<1> USE DEF Arrays, IsArray
<1> DEFINE n == Cardinality(ListMedia)
<1>1. /\ pc[r] = "new" /\ tally[r] = Zero /\ UNCHANGED storeVars
      /\ pc'[r] = IF ListMedia = {} THEN "count_speakers" ELSE "count_segments"
      /\ left'[r] \in Orders(ListMedia)
      /\ floor'[r] = Totals
      /\ Added(r, "media", n)
      /\ outcome' = outcome
  BY DEF StatsListMedia, HeldStats, TypeInv, Goto
<1>2. ListMedia \in SUBSET Media /\ n \in Nat
  <2>1. ListMedia \in SUBSET Media
    BY DEF ListMedia
  <2> QED
    BY <2>1, StoreAssumption, FS_Subset, FS_CardinalityType
<1>3. ListMedia # {} => Listing(left'[r]) /\ Elements(left'[r]) = ListMedia
  BY <1>1, <1>2, OrdersList
<1>4. LinesLeft(r)' = ListMedia /\ VersionsLeft(r)' = ListMedia
  BY <1>1, <1>3 DEF LinesLeft, VersionsLeft, Elements
<1>5. /\ DOMAIN tally'[r] = Columns /\ tally'[r]["media"] = n
      /\ \A c \in Columns : c # "media" => tally'[r][c] = 0
  <2>1. DOMAIN tally[r] = Columns /\ \A c \in Columns : tally[r][c] = 0
    BY <1>1 DEF Zero, Columns
  <2>2. /\ DOMAIN tally'[r] = Columns
        /\ tally'[r]["media"] = tally[r]["media"] + n
        /\ \A c \in Columns : c # "media" => tally'[r][c] = tally[r][c]
    BY <1>1, <2>1, AddedColumn DEF TypeInv, Columns
  <2> HIDE DEF n
  <2>3. "media" \in Columns
    BY DEF Columns
  <2> QED
    BY <1>2, <2>1, <2>2, <2>3
<1>6. \A c \in Kept : Totals[c] \in Nat /\ Totals'[c] = Totals[c]
  <2>1. Totals' = Totals
    BY <1>1 DEF Totals, storeVars, CountSpeakers, ListMedia
  <2>2. {p \in Speaker : speakers[p] # None} \in SUBSET Speaker
    OBVIOUS
  <2>3. CountSpeakers \in Nat
    BY <2>2, StoreAssumption, FS_Subset, FS_CardinalityType DEF CountSpeakers
  <2>4. Totals["segments"] \in Nat /\ Totals["versions"] \in Nat
    BY AllCounted, LinesFinite, VersionsCountable
  <2>5. Cardinality(conflicts) \in Nat /\ Cardinality(withdrawals) \in Nat
    BY FS_CardinalityType DEF OwnedInv
  <2>6. /\ Totals["media"] = n /\ Totals["speakers"] = CountSpeakers
        /\ Totals["conflicts"] = Cardinality(conflicts)
        /\ Totals["withdrawals"] = Cardinality(withdrawals)
    BY DEF Totals
  <2> HIDE DEF n
  <2> QED
    BY <1>2, <2>1, <2>3, <2>4, <2>5, <2>6 DEF Kept, Columns
<1>7. /\ Totals["segments"] = LinesOf(ListMedia) /\ LinesOf(Media \ ListMedia) = 0
      /\ Totals["versions"] = VersionCount(ListMedia)
      /\ VersionCount(Media \ ListMedia) = 0
      /\ Totals["media"] = n
  BY AllCounted DEF Totals
<1>8. /\ LinesOf(LinesLeft(r))' = LinesOf(ListMedia)
      /\ LinesOf(Media \ LinesLeft(r))' = LinesOf(Media \ ListMedia)
      /\ VersionCount(VersionsLeft(r))' = VersionCount(ListMedia)
      /\ VersionCount(Media \ VersionsLeft(r))' = VersionCount(Media \ ListMedia)
  BY <1>1, <1>4 DEF LinesOf, LinesIn, VersionCount, VersionsIn, storeVars
<1>9. \A c \in {"speakers", "conflicts", "withdrawals"} :
        pc'[r] \in Uncounted[c] /\ tally'[r][c] = 0
  BY <1>1, <1>5 DEF Uncounted, StatsPC, Columns
<1>10. HeldTotals(r)'
  <2> HIDE DEF n
  <2>1. \A c \in Kept : c \in Columns
    BY DEF Kept
  <2>2. "media" \in Kept /\ "segments" \in Kept /\ "versions" \in Kept
    BY DEF Kept, Columns
  <2> QED
    BY <1>1, <1>2, <1>5, <1>6, <1>7, <1>8, <1>9, <2>1, <2>2 DEF HeldTotals
<1>11. pc'[r] # "new"
  BY <1>1
<1>12. pc'[r] \in {"count_segments", "count_media_versions"} => Listing(left[r])'
  BY <1>1, <1>3 DEF Listing
<1> QED
  BY <1>10, <1>11, <1>12 DEF HeldStats
-----------------------------------------------------------------------------
\* A counting call reads: the database does not move under it.
LEMMA ReadingCounts ==
  ASSUME UNCHANGED storeVars
  PROVE  /\ Totals' = Totals
         /\ \A S : LinesOf(S)' = LinesOf(S) /\ VersionCount(S)' = VersionCount(S)
BY DEF storeVars, Totals, CountSpeakers, ListMedia, LinesOf, LinesIn, VersionCount,
       VersionsIn

LEMMA StatsCountsLines ==
  ASSUME TypeInv, PublishInv, NEW r \in Request, StatsCountSegments(r), HeldStats(r),
         kind[r] = "stats", UNCHANGED kind
  PROVE  HeldStats(r)'
<1> USE DEF Arrays, IsArray
<1> DEFINE m == Head(left[r])
           E == Elements(left[r])
<1>1. /\ pc[r] = "count_segments" /\ pc'[r] = "count_media_versions"
      /\ left' = left /\ floor' = floor /\ UNCHANGED storeVars
      /\ Added(r, "segments", CountSegments(m))
  BY DEF StatsCountSegments, TypeInv, Goto
<1>2. Listing(left[r]) /\ HeldTotals(r)
  BY <1>1 DEF HeldStats, StatsPC
<1>3. m \in E /\ E \subseteq Media
  BY <1>2, RestOfListing
<1>4. /\ LinesLeft(r) = E /\ LinesLeft(r)' = E \ {m}
      /\ VersionsLeft(r) = E /\ VersionsLeft(r)' = E
  BY <1>1 DEF LinesLeft, VersionsLeft, Elements
<1>5. /\ LinesOf(E) = LinesOf(E \ {m}) + CountSegments(m)
      /\ LinesOf(Media \ (E \ {m})) = LinesOf(Media \ E) + CountSegments(m)
  <2> HIDE DEF m, E
  <2>1. (E \ {m}) \cup {m} = E /\ (Media \ E) \cup {m} = Media \ (E \ {m})
    BY <1>3
  <2>2. m \notin E \ {m} /\ m \notin Media \ E
    BY <1>3
  <2>3. LinesOf((E \ {m}) \cup {m}) = LinesOf(E \ {m}) + CountSegments(m)
    BY <2>2, OneMediaMore
  <2>4. LinesOf((Media \ E) \cup {m}) = LinesOf(Media \ E) + CountSegments(m)
    BY <2>2, OneMediaMore
  <2> QED
    BY <2>1, <2>3, <2>4
<1>6. CountSegments(m) \in Nat /\ \A S : LinesOf(S) \in Nat /\ VersionCount(S) \in Nat
  <2>1. DOMAIN ListSegments(m) = LinesIn({m})
    BY DEF ListSegments, LinesIn
  <2> QED
    BY <2>1, LinesFinite, VersionsCountable DEF CountSegments, LinesOf
<1>7. /\ DOMAIN tally'[r] = Columns
      /\ tally'[r]["segments"] = tally[r]["segments"] + CountSegments(m)
      /\ \A c \in Columns : c # "segments" => tally'[r][c] = tally[r][c]
  BY <1>1, <1>2, AddedColumn DEF TypeInv, HeldTotals, Columns
<1>8. /\ LinesOf(LinesLeft(r))' = LinesOf(E \ {m})
      /\ LinesOf(Media \ LinesLeft(r))' = LinesOf(Media \ (E \ {m}))
      /\ VersionCount(VersionsLeft(r))' = VersionCount(E)
      /\ VersionCount(Media \ VersionsLeft(r))' = VersionCount(Media \ E)
  BY <1>1, <1>4 DEF LinesOf, LinesIn, VersionCount, VersionsIn, storeVars
<1> HIDE DEF m, E
<1>9. \A c \in {"speakers", "conflicts", "withdrawals"} :
        pc[r] \in Uncounted[c] /\ pc'[r] \in Uncounted[c]
  BY <1>1 DEF Uncounted, StatsPC
<1>10. /\ \A c \in Kept : c \in Columns /\ (c # "segments" => tally'[r][c] = tally[r][c])
       /\ "segments" \in Kept /\ "versions" \in Kept /\ "media" \in Kept
       /\ \A c \in {"speakers", "conflicts", "withdrawals"} : c \in Kept /\ c # "segments"
  BY <1>7 DEF Kept, Columns
<1>11. \A c \in Kept : floor[r][c] \in Nat /\ tally[r][c] \in Nat
  BY <1>2 DEF HeldTotals
<1>12. /\ tally[r]["segments"] <= LinesOf(Media \ E)
       /\ floor[r]["segments"] <= tally[r]["segments"] + LinesOf(E)
  BY <1>2, <1>4 DEF HeldTotals
<1>13. /\ tally'[r]["segments"] <= LinesOf(Media \ (E \ {m}))
       /\ floor[r]["segments"] <= tally'[r]["segments"] + LinesOf(E \ {m})
  BY <1>5, <1>6, <1>7, <1>10, <1>11, <1>12
<1>14. /\ \A c \in Kept : floor'[r][c] \in Nat /\ tally'[r][c] \in Nat
       /\ \A c \in Kept : floor'[r][c] <= Totals'[c]
       /\ floor'[r]["media"] <= tally'[r]["media"]
       /\ tally'[r]["media"] <= Totals'["media"]
       /\ tally'[r]["versions"] <= VersionCount(Media \ E)
       /\ floor'[r]["versions"] <= tally'[r]["versions"] + VersionCount(E)
       /\ \A c \in {"speakers", "conflicts", "withdrawals"} : tally'[r][c] = 0
  BY <1>1, <1>2, <1>4, <1>6, <1>7, <1>9, <1>10, <1>11, ReadingCounts DEF HeldTotals
<1>15. HeldTotals(r)'
  BY <1>1, <1>7, <1>8, <1>9, <1>13, <1>14 DEF HeldTotals
<1> QED
  BY <1>1, <1>2, <1>15 DEF HeldStats, Listing

LEMMA StatsCountsVersions ==
  ASSUME TypeInv, PublishInv, NEW r \in Request, StatsCountVersions(r), HeldStats(r),
         kind[r] = "stats", UNCHANGED kind
  PROVE  HeldStats(r)'
<1> USE DEF Arrays, IsArray
<1> DEFINE m == Head(left[r])
           E == Elements(left[r])
<1>1. /\ pc[r] = "count_media_versions"
      /\ pc'[r] = IF Len(left[r]) = 1 THEN "count_speakers" ELSE "count_segments"
      /\ left'[r] = Tail(left[r]) /\ floor' = floor /\ UNCHANGED storeVars
      /\ Added(r, "versions", CountPublishVersions(m))
  BY DEF StatsCountVersions, TypeInv, Goto
<1>2. Listing(left[r]) /\ HeldTotals(r)
  BY <1>1 DEF HeldStats, StatsPC
<1>3. /\ m \in E /\ E \subseteq Media
      /\ Len(left[r]) = 1 => E = {m}
      /\ Len(left[r]) # 1 => Listing(Tail(left[r]))
      /\ Elements(Tail(left[r])) = E \ {m}
  BY <1>2, RestOfListing
<1>4. /\ LinesLeft(r) = E \ {m} /\ LinesLeft(r)' = E \ {m}
      /\ VersionsLeft(r) = E /\ VersionsLeft(r)' = E \ {m}
  <2>1. LinesLeft(r) = E \ {m} /\ VersionsLeft(r) = E
    BY <1>1 DEF LinesLeft, VersionsLeft
  <2>2. Elements(left[r])' = E \ {m}
    BY <1>1, <1>3 DEF Elements
  <2>3. LinesLeft(r)' = E \ {m} /\ VersionsLeft(r)' = E \ {m}
    <3>1. CASE Len(left[r]) = 1
      <4> HIDE DEF m, E
      <4>1. E \ {m} = {} /\ pc'[r] = "count_speakers"
        BY <1>1, <1>3, <3>1
      <4> QED
        BY <4>1 DEF LinesLeft, VersionsLeft
    <3>2. CASE Len(left[r]) # 1
      BY <1>1, <2>2, <3>2 DEF LinesLeft, VersionsLeft
    <3> QED
      BY <3>1, <3>2
  <2> QED
    BY <2>1, <2>3
<1>5. /\ VersionCount(E) = VersionCount(E \ {m}) + CountPublishVersions(m)
      /\ VersionCount(Media \ (E \ {m})) = VersionCount(Media \ E) + CountPublishVersions(m)
  <2> HIDE DEF m, E
  <2>1. (E \ {m}) \cup {m} = E /\ (Media \ E) \cup {m} = Media \ (E \ {m})
    BY <1>3
  <2>2. m \notin E \ {m} /\ m \notin Media \ E
    BY <1>3
  <2>3. VersionCount((E \ {m}) \cup {m}) = VersionCount(E \ {m}) + CountPublishVersions(m)
    BY <2>2, OneMediaMore
  <2>4. VersionCount((Media \ E) \cup {m}) = VersionCount(Media \ E) + CountPublishVersions(m)
    BY <2>2, OneMediaMore
  <2> QED
    BY <2>1, <2>3, <2>4
<1>6. /\ CountPublishVersions(m) \in Nat
      /\ \A S : LinesOf(S) \in Nat /\ VersionCount(S) \in Nat
  <2>1. {v \in DOMAIN versions : versions[v].media = m} = VersionsIn({m})
    BY DEF VersionsIn
  <2> QED
    BY <2>1, LinesFinite, VersionsCountable DEF CountPublishVersions, VersionCount
<1>7. /\ DOMAIN tally'[r] = Columns
      /\ tally'[r]["versions"] = tally[r]["versions"] + CountPublishVersions(m)
      /\ \A c \in Columns : c # "versions" => tally'[r][c] = tally[r][c]
  BY <1>1, <1>2, AddedColumn DEF TypeInv, HeldTotals, Columns
<1>8. /\ LinesOf(LinesLeft(r))' = LinesOf(E \ {m})
      /\ LinesOf(Media \ LinesLeft(r))' = LinesOf(Media \ (E \ {m}))
      /\ VersionCount(VersionsLeft(r))' = VersionCount(E \ {m})
      /\ VersionCount(Media \ VersionsLeft(r))' = VersionCount(Media \ (E \ {m}))
  BY <1>1, <1>4 DEF LinesOf, LinesIn, VersionCount, VersionsIn, storeVars
<1> HIDE DEF m, E
<1>9. \A c \in {"speakers", "conflicts", "withdrawals"} :
        pc[r] \in Uncounted[c] /\ pc'[r] \in Uncounted[c]
  BY <1>1 DEF Uncounted, StatsPC
<1>10. /\ \A c \in Kept : c \in Columns /\ (c # "versions" => tally'[r][c] = tally[r][c])
       /\ "segments" \in Kept /\ "versions" \in Kept /\ "media" \in Kept
       /\ \A c \in {"speakers", "conflicts", "withdrawals"} : c \in Kept /\ c # "versions"
  BY <1>7 DEF Kept, Columns
<1>11. \A c \in Kept : floor[r][c] \in Nat /\ tally[r][c] \in Nat
  BY <1>2 DEF HeldTotals
<1>12. /\ tally[r]["versions"] <= VersionCount(Media \ E)
       /\ floor[r]["versions"] <= tally[r]["versions"] + VersionCount(E)
  BY <1>2, <1>4 DEF HeldTotals
<1>13. /\ tally'[r]["versions"] <= VersionCount(Media \ (E \ {m}))
       /\ floor[r]["versions"] <= tally'[r]["versions"] + VersionCount(E \ {m})
  BY <1>5, <1>6, <1>7, <1>10, <1>11, <1>12
<1>14. /\ \A c \in Kept : floor'[r][c] \in Nat /\ tally'[r][c] \in Nat
       /\ \A c \in Kept : floor'[r][c] <= Totals'[c]
       /\ floor'[r]["media"] <= tally'[r]["media"]
       /\ tally'[r]["media"] <= Totals'["media"]
       /\ tally'[r]["segments"] <= LinesOf(Media \ (E \ {m}))
       /\ floor'[r]["segments"] <= tally'[r]["segments"] + LinesOf(E \ {m})
       /\ \A c \in {"speakers", "conflicts", "withdrawals"} : tally'[r][c] = 0
  BY <1>1, <1>2, <1>4, <1>6, <1>7, <1>9, <1>10, <1>11, ReadingCounts DEF HeldTotals
<1>15. HeldTotals(r)'
  BY <1>1, <1>7, <1>8, <1>9, <1>13, <1>14 DEF HeldTotals
<1>16. pc'[r] \in {"count_segments", "count_media_versions"} => Listing(left[r])'
  BY <1>1, <1>3 DEF Listing
<1> QED
  BY <1>1, <1>15, <1>16 DEF HeldStats

\* One COUNT over a table.
LEMMA StatsCountsTable ==
  ASSUME TypeInv, PublishInv, OwnedInv, NEW r \in Request, HeldStats(r),
         kind[r] = "stats", UNCHANGED kind,
         NEW c \in {"speakers", "quality", "conflicts", "withdrawals"}, NEW label, NEW n,
         c # "quality" => n = Totals[c] /\ n \in Nat,
         label = CASE c = "speakers" -> "count_speakers" [] c = "quality" -> "count_quality"
                   [] c = "conflicts" -> "count_conflicts" [] OTHER -> "count_withdrawals",
         CountTable(r, label, c, n),
         pc'[r] = CASE c = "speakers" -> "count_quality" [] c = "quality" -> "count_conflicts"
                    [] c = "conflicts" -> "count_withdrawals" [] OTHER -> "done"
  PROVE  HeldStats(r)'
<1> USE DEF Arrays, IsArray
<1>1. /\ pc[r] = label /\ left' = left /\ floor' = floor /\ UNCHANGED storeVars
      /\ Added(r, c, n)
  BY DEF CountTable
<1>2. HeldTotals(r)
  BY <1>1 DEF HeldStats, StatsPC
<1>3. /\ pc[r] \notin {"new", "count_segments", "count_media_versions"}
      /\ pc'[r] \notin {"new", "count_segments", "count_media_versions"}
  BY <1>1
<1>4. /\ LinesLeft(r) = {} /\ LinesLeft(r)' = {}
      /\ VersionsLeft(r) = {} /\ VersionsLeft(r)' = {}
  BY <1>3 DEF LinesLeft, VersionsLeft
<1>5. /\ DOMAIN tally'[r] = Columns
      /\ tally'[r][c] = tally[r][c] + n
      /\ \A d \in Columns : d # c => tally'[r][d] = tally[r][d]
  BY <1>1, <1>2, AddedColumn DEF TypeInv, HeldTotals, Columns
<1>6. /\ LinesOf(LinesLeft(r))' = LinesOf({})
      /\ LinesOf(Media \ LinesLeft(r))' = LinesOf(Media \ {})
      /\ VersionCount(VersionsLeft(r))' = VersionCount({})
      /\ VersionCount(Media \ VersionsLeft(r))' = VersionCount(Media \ {})
  BY <1>1, <1>4 DEF LinesOf, LinesIn, VersionCount, VersionsIn, storeVars
<1>7. c # "quality" => tally[r][c] = 0 /\ pc'[r] \notin Uncounted[c]
  BY <1>1, <1>2 DEF HeldTotals, Uncounted, StatsPC
<1>8. \A d \in {"speakers", "conflicts", "withdrawals"} :
        d # c => (pc'[r] \in Uncounted[d] <=> pc[r] \in Uncounted[d])
  BY <1>1 DEF Uncounted, StatsPC
<1>9. /\ \A d \in Kept : d \in Columns /\ (d # c => tally'[r][d] = tally[r][d])
      /\ "segments" \in Kept /\ "versions" \in Kept /\ "media" \in Kept
      /\ c \notin {"segments", "versions", "media"}
      /\ \A d \in {"speakers", "conflicts", "withdrawals"} : d \in Kept
      /\ c \in Kept => c # "quality"
  BY <1>5 DEF Kept, Columns
<1>10. \A d \in Kept : floor[r][d] \in Nat /\ tally[r][d] \in Nat /\ floor[r][d] <= Totals[d]
  BY <1>2 DEF HeldTotals
<1>11. c # "quality" => tally'[r][c] = Totals[c]
  BY <1>5, <1>7
<1>12. Totals' = Totals
  BY <1>1, ReadingCounts
<1>13. \A d \in Kept : floor'[r][d] \in Nat /\ tally'[r][d] \in Nat /\ floor'[r][d] <= Totals'[d]
  BY <1>1, <1>9, <1>10, <1>11, <1>12
<1>14. /\ floor'[r]["media"] <= tally'[r]["media"]
       /\ tally'[r]["media"] <= Totals'["media"]
       /\ tally'[r]["segments"] <= LinesOf(Media \ {})
       /\ floor'[r]["segments"] <= tally'[r]["segments"] + LinesOf({})
       /\ tally'[r]["versions"] <= VersionCount(Media \ {})
       /\ floor'[r]["versions"] <= tally'[r]["versions"] + VersionCount({})
  BY <1>1, <1>2, <1>4, <1>9, <1>12 DEF HeldTotals
<1>15. ASSUME NEW d \in {"speakers", "conflicts", "withdrawals"}
       PROVE  IF pc'[r] \in Uncounted[d]
                THEN tally'[r][d] = 0
                ELSE floor'[r][d] <= tally'[r][d] /\ tally'[r][d] <= Totals'[d]
  <2>1. CASE d = c
    <3>1. Totals[d] \in Nat /\ floor[r][d] <= Totals[d] /\ tally'[r][d] = Totals[d]
      BY <1>9, <1>10, <1>11, <2>1
    <3> QED
      BY <1>1, <1>7, <1>12, <2>1, <3>1
  <2>2. CASE d # c
    BY <1>1, <1>2, <1>8, <1>9, <1>12, <2>2 DEF HeldTotals
  <2> QED
    BY <2>1, <2>2
<1>16. HeldTotals(r)'
  BY <1>5, <1>6, <1>13, <1>14, <1>15 DEF HeldTotals, Uncounted
<1> QED
  BY <1>3, <1>16 DEF HeldStats
-----------------------------------------------------------------------------
LEMMA StatsServed ==
  ASSUME TypeInv, PublishInv, OwnedInv, NEW r \in Request, StatsStep(r), HeldStats(r),
         kind[r] = "stats", UNCHANGED kind
  PROVE  HeldStats(r)'
<1> USE DEF Arrays, IsArray
<1>1. CASE StatsListMedia(r)
  BY <1>1, StatsStarts
<1>2. CASE StatsCountSegments(r)
  BY <1>2, StatsCountsLines
<1>3. CASE StatsCountVersions(r)
  BY <1>3, StatsCountsVersions
<1>4. CASE /\ CountTable(r, "count_speakers", "speakers", CountSpeakers)
           /\ Goto(r, "count_quality")
  <2>1. CountSpeakers = Totals["speakers"] /\ CountSpeakers \in Nat
    <3>1. {p \in Speaker : speakers[p] # None} \in SUBSET Speaker
      OBVIOUS
    <3> QED
      BY <3>1, StoreAssumption, FS_Subset, FS_CardinalityType DEF Totals, CountSpeakers
  <2>2. pc'[r] = "count_quality"
    BY <1>4 DEF Goto, TypeInv
  <2> QED
    BY <1>4, <2>1, <2>2, StatsCountsTable
<1>5. CASE /\ CountTable(r, "count_quality", "quality", Cardinality(quality))
           /\ Goto(r, "count_conflicts")
  <2>1. pc'[r] = "count_conflicts"
    BY <1>5 DEF Goto, TypeInv
  <2> QED
    BY <1>5, <2>1, StatsCountsTable
<1>6. CASE /\ CountTable(r, "count_conflicts", "conflicts", Cardinality(conflicts))
           /\ Goto(r, "count_withdrawals")
  <2>1. Cardinality(conflicts) = Totals["conflicts"] /\ Cardinality(conflicts) \in Nat
    BY FS_CardinalityType DEF Totals, OwnedInv
  <2>2. pc'[r] = "count_withdrawals"
    BY <1>6 DEF Goto, TypeInv
  <2> QED
    BY <1>6, <2>1, <2>2, StatsCountsTable
<1>7. CASE /\ CountTable(r, "count_withdrawals", "withdrawals", Cardinality(withdrawals))
           /\ Reply(r, "ok")
  <2>1. Cardinality(withdrawals) = Totals["withdrawals"] /\ Cardinality(withdrawals) \in Nat
    BY FS_CardinalityType DEF Totals, OwnedInv
  <2>2. pc'[r] = "done"
    BY <1>7 DEF Reply, TypeInv
  <2> QED
    BY <1>7, <2>1, <2>2, StatsCountsTable
<1> QED
  BY <1>1, <1>2, <1>3, <1>4, <1>5, <1>6, <1>7 DEF StatsStep

LEMMA StatsInvHandled ==
  ASSUME TypeInv, PublishInv, OwnedInv, StatsInv, TypeInv', PublishInv', OwnedInv',
         NEW r \in Request, Handled(r), UNCHANGED kind
  PROVE  StatsInv'
<1>1. ASSUME NEW q \in Request PROVE HeldStats(q)'
  <2>1. HeldStats(q) /\ Grow
    BY TablesGrow DEF StatsInv
  <2>2. CASE q # r
    BY <2>1, <2>2, OthersTotals, OthersSame DEF TypeInv
  <2>3. CASE q = r /\ Refused(r)
    BY <2>3, OutcomeAssumption
       DEF Refused, Reply, HeldStats, StatsPC, TypeInv, Arrays, IsArray
  <2>4. CASE q = r /\ kind[r] = "stats" /\ StatsRequested(r)
    BY <2>1, <2>4, StatsServed DEF StatsRequested
  <2>5. CASE kind[q] # "stats"
    BY <2>5 DEF HeldStats
  <2> QED
    BY <2>2, <2>3, <2>4, <2>5, ServedByKind
<1> QED
  BY <1>1 DEF StatsInv

LEMMA StatsInvHolds == WorkbenchSpec => []StatsInv
<1>1. TypeInv /\ PublishInv /\ OwnedInv /\ TypeInv' /\ PublishInv' /\ OwnedInv'
        /\ StatsInv /\ [WorkbenchNext]_allVars => StatsInv'
  <2> SUFFICES ASSUME TypeInv, PublishInv, OwnedInv, TypeInv', PublishInv', OwnedInv',
                      StatsInv, [WorkbenchNext]_allVars
               PROVE  StatsInv'
    OBVIOUS
  <2>1. CASE UNCHANGED allVars
    <3>1. /\ UNCHANGED <<storeVars, pc, outcome, left, tally, floor, kind>>
      BY <2>1 DEF allVars, vars, qaVars, statsVars
    <3>2. \A r \in Request : HeldTotals(r) => HeldTotals(r)'
      <4>1. ASSUME NEW r \in Request, HeldTotals(r) PROVE HeldTotals(r)'
        <5>1. /\ LinesOf(LinesLeft(r))' = LinesOf(LinesLeft(r))
              /\ LinesOf(Media \ LinesLeft(r))' = LinesOf(Media \ LinesLeft(r))
              /\ VersionCount(VersionsLeft(r))' = VersionCount(VersionsLeft(r))
              /\ VersionCount(Media \ VersionsLeft(r))' = VersionCount(Media \ VersionsLeft(r))
          BY <3>1 DEF LinesLeft, VersionsLeft, Elements, LinesOf, LinesIn, VersionCount,
                      VersionsIn, storeVars
        <5> QED
          BY <3>1, <4>1, <5>1, ReadingCounts DEF HeldTotals, Uncounted
      <4> QED
        BY <4>1
    <3> QED
      BY <3>1, <3>2 DEF StatsInv, HeldStats, Listing
  <2>2. CASE (\E r \in Request : Served(r)) /\ UNCHANGED kind
    BY <2>2, StatsInvHandled DEF Served
  <2> QED
    BY <2>1, <2>2 DEF WorkbenchNext, WorkbenchQuiet
<1> QED
  BY <1>1, StatsInvInit, TypeInvHolds, PublishInvHolds, OwnedInvHolds, PTL
     DEF WorkbenchSpec

LEMMA TotalsBounded == TypeInv /\ PublishInv /\ OwnedInv /\ StatsInv => StatsBounded
<1> SUFFICES ASSUME TypeInv, PublishInv, OwnedInv, StatsInv, NEW r \in Request,
                    kind[r] = "stats", outcome[r] = "ok",
                    NEW c \in DOMAIN Zero \ {"quality"}
             PROVE  floor[r][c] <= tally[r][c] /\ tally[r][c] <= Totals[c]
  BY DEF StatsBounded
<1>1. HeldTotals(r)
  BY DEF StatsInv, HeldStats
<1>2. pc[r] = "done"
  BY OutcomeAssumption DEF TypeInv, Held, TypedLocals, Outcome
<1>3. LinesLeft(r) = {} /\ VersionsLeft(r) = {}
  BY <1>2 DEF LinesLeft, VersionsLeft
<1>4. Media \ {} = Media
  OBVIOUS
<1>5. c \in Kept
  BY DEF Zero, Kept, Columns
<1>6. floor[r][c] \in Nat /\ tally[r][c] \in Nat
  BY <1>1, <1>5 DEF HeldTotals
<1>7. CASE c = "media"
  BY <1>1, <1>7 DEF HeldTotals
<1>8. CASE c = "segments"
  <2>1. /\ tally[r]["segments"] <= LinesOf(Media)
        /\ floor[r]["segments"] <= tally[r]["segments"] + LinesOf({})
    BY <1>1, <1>3, <1>4 DEF HeldTotals
  <2> QED
    BY <1>6, <1>8, <2>1, AllCounted
<1>9. CASE c = "versions"
  <2>1. /\ tally[r]["versions"] <= VersionCount(Media)
        /\ floor[r]["versions"] <= tally[r]["versions"] + VersionCount({})
    BY <1>1, <1>3, <1>4 DEF HeldTotals
  <2> QED
    BY <1>6, <1>9, <2>1, AllCounted
<1>10. CASE c \in {"speakers", "conflicts", "withdrawals"}
  <2>1. pc[r] \notin Uncounted[c]
    BY <1>2, <1>10 DEF Uncounted, StatsPC
  <2> QED
    BY <1>1, <1>10, <2>1 DEF HeldTotals
<1> QED
  BY <1>5, <1>7, <1>8, <1>9, <1>10 DEF Kept, Columns

\* The totals of an answer lie between those there were at the request and those
\* there are: no row is counted twice or left out.
THEOREM TotalsBracketed == WorkbenchSpec => []StatsBounded
BY TotalsBounded, TypeInvHolds, PublishInvHolds, OwnedInvHolds, StatsInvHolds, PTL
=============================================================================
