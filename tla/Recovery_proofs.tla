-------------------------- MODULE Recovery_proofs --------------------------
(***************************************************************************)
(* What a crash cannot undo.  The process may die ahead of any store call  *)
(* of any request and of its own startup, as often as it likes: the tables *)
(* stay well typed, what a client was told stays in them, and when the     *)
(* server listens again every media has exactly the findings due.          *)
(***************************************************************************)
EXTENDS Recovery, Workbench_proofs

\* What the requests keep to among themselves.
ServiceInv ==
  /\ TypeInv /\ PublishInv /\ ImagesInv /\ AnswersInv /\ OwnedInv
  /\ MarksInv /\ AccountsInv

\* Findings are of a media there is: a request that is to write some knows one.
HeldSubject(r) ==
  kind[r] \in {"import", "recompute"} /\ pc[r] \in QualityPC => media[into[r]] # None

SubjectsInv ==
  /\ \A q \in quality : media[q.media] # None
  /\ \A r \in Request : HeldSubject(r)

\* What a recovery has still to do.
HeldRest(r) ==
  rest[r] # <<>> =>
    /\ r = Boot \/ kind[r] = "ready"
    /\ pc[r] \in QualityPC \cup {"done"}
    /\ Listing(rest[r])
    /\ \A m \in Elements(rest[r]) : media[m] # None

ProcessInv ==
  /\ server \in {"down", "starting", "up"}
  /\ crashes \in 0..MaxCrashes
  /\ kind[Boot] = "none"
  /\ IsArray(rest)
  /\ \A r \in Request : HeldRest(r)

RecoveredBut(S) ==
  \A m \in Media \ S : GetMedia(m) # "archived" => FindingsExact(m)

\* Nobody else is at the tables until the server listens, so the startup comes
\* nearer to the exact findings with each media it is through with.
Starting ==
  /\ pc[Boot] \in {"new", "done"} \cup QualityPC
  /\ pc[Boot] \in QualityPC =>
       /\ rest[Boot] # <<>>
       /\ HeldFindings(Boot, Head(rest[Boot]))
       /\ RecoveredBut(Elements(rest[Boot]))
  /\ pc[Boot] = "done" => RecoveredBut({})

StartingInv ==
  /\ server # "up" => \A r \in Request \ {Boot} : pc[r] \in {"new", "done"}
  /\ server = "down" => pc[Boot] = "new" /\ outcome[Boot] = None
  /\ server = "starting" => Starting

RecoveryInv == ServiceInv /\ SubjectsInv /\ ProcessInv /\ StartingInv
-----------------------------------------------------------------------------
(***************************************************************************)
(* The requests' invariant, step by step.                                  *)
(***************************************************************************)

LEMMA HandledKeeps ==
  ASSUME ServiceInv, NEW r \in Request, Handled(r), UNCHANGED kind
  PROVE  ServiceInv' /\ Grow
BY TypeInvHandled, PublishInvHandled, ImagesInvHandled, AnswersInvHandled,
   OwnedInvHandled, MarksInvHandled, AccountsInvHandled DEF ServiceInv

LEMMA RestingKeeps ==
  ASSUME ServiceInv, Resting
  PROVE  ServiceInv'
<1> USE DEF Resting, vars, storeVars, qaVars, editVars, publishVars, intakeVars
<1>1. TypeInv' /\ PublishInv' /\ MarksInv' /\ AccountsInv'
  BY TypeInvStutters, PublishInvStutters, MarksInvStutters, AccountsInvStutters
     DEF ServiceInv
<1>2. ImagesInv'
  BY DEF ServiceInv, ImagesInv, PositiveDuration, OrphansImported, HeldImages, Referable
<1>3. AnswersInv'
  BY DEF ServiceInv, AnswersInv, HeldAnswer, RowsThere
<1>4. OwnedInv'
  BY DEF ServiceInv, OwnedInv, HeldMedia
<1> QED
  BY <1>1, <1>2, <1>3, <1>4 DEF ServiceInv

\* The steps of a recovery.
Recovering(r) == UNCHANGED <<media, speakers, segments, revisions, versions,
                             withdrawals, conflicts, editVars, publishVars,
                             compareVars, intakeVars, statsVars, kind>>

LEMMA RecoverMoves ==
  ASSUME Arrays, NEW r \in Request, RecoverStep(r)
  PROVE  /\ Recovering(r)
         /\ LocalsTouched(r)
         /\ MovesOn(r)
         /\ pc'[r] \in QualityPC \cup {"done"}
<1> DEFINE next == IF Len(rest[r]) = 1 THEN "done" ELSE "list_segments"
<1>1. UNCHANGED <<editVars, publishVars, compareVars, intakeVars, statsVars, kind>>
  BY DEF RecoverStep
<1>2. EditTouched(r) /\ PublishTouched(r) /\ CompareTouched(r) /\ IntakeTouched(r)
        /\ StatsTouched(r)
  BY <1>1 DEF EditTouched, PublishTouched, CompareTouched, IntakeTouched, StatsTouched,
       Touched, editVars, publishVars, compareVars, intakeVars, statsVars
<1>3. CASE RecoverListMedia(r)
  <2>1. UNCHANGED <<storeVars, listed, todo>> /\ pc[r] = "new"
    BY <1>3 DEF RecoverListMedia
  <2>2. Reply(r, "ok") \/ Goto(r, "list_segments")
    BY <1>3 DEF RecoverListMedia
  <2>3. QaTouched(r)
    BY <2>1, <2>2, LabelTouched DEF QaTouched, Touched
  <2>4. MovesOn(r) /\ pc'[r] \in QualityPC \cup {"done"}
    BY <2>1, <2>2, GotoMoves, ReplyMoves
       DEF Label, EditPC, QualityPC, Outcome, Goto, Reply, Arrays, IsArray
  <2> QED
    BY <1>1, <1>2, <2>1, <2>3, <2>4 DEF Recovering, LocalsTouched, storeVars
<1>4. CASE RecoverMedia(r)
  <2>1. next \in {"done", "list_segments"} /\ Recompute(r, Head(rest[r]), next)
    BY <1>4 DEF RecoverMedia
  <2> HIDE DEF next
  <2> QED
    BY <1>1, <1>2, <2>1, RecomputeTouched, RecomputeMoves, RecomputeWrites
       DEF Recovering, LocalsTouched
<1> QED
  BY <1>3, <1>4 DEF RecoverStep

\* A recovery writes findings, of media there are.
LEMMA RecoverWrites ==
  ASSUME ServiceInv, ProcessInv, NEW r \in Request, RecoverStep(r)
  PROVE  /\ quality' \subseteq QualityRow
         /\ todo'[r] \subseteq Finding
         /\ pc'[r] = "list_speakers" => IsRows(listed'[r])
         /\ \A q \in quality' \ quality : media[q.media] # None
<1>1. /\ Arrays /\ TablesTyped /\ Held(r)
      /\ quality \subseteq QualityRow /\ todo[r] \subseteq Finding
  BY DEF ServiceInv, TypeInv, TablesTyped, TablesOK, Held, TypedLocals
<1>2. CASE RecoverListMedia(r)
  <2>1. UNCHANGED <<quality, listed, todo>>
    BY <1>2 DEF RecoverListMedia, storeVars
  <2>2. pc'[r] # "list_speakers"
    BY <1>1, <1>2 DEF RecoverListMedia, Goto, Reply, Arrays, IsArray
  <2> QED
    BY <1>1, <2>1, <2>2
<1>3. CASE RecoverMedia(r)
  <2> DEFINE m == Head(rest[r])
             next == IF Len(rest[r]) = 1 THEN "done" ELSE "list_segments"
  <2>1. rest[r] # <<>> /\ next \in {"done", "list_segments"} /\ Recompute(r, m, next)
    BY <1>3 DEF RecoverMedia
  <2>2. Listing(rest[r]) /\ \A n \in Elements(rest[r]) : media[n] # None
    BY <2>1 DEF ProcessInv, HeldRest
  <2>3. m \in Media /\ media[m] # None
    BY <2>2, RestOfListing
  <2> HIDE DEF m, next
  <2>4. quality' \subseteq quality
          \cup {[run |-> r, media |-> m, seg |-> f.seg, rule |-> f.rule] : f \in todo[r]}
    BY <2>1, RecomputeWrites
  <2>5. ASSUME NEW f \in todo[r]
        PROVE  [run |-> r, media |-> m, seg |-> f.seg, rule |-> f.rule] \in QualityRow
    <3>1. f \in Finding
      BY <1>1
    <3> QED
      BY <2>3, <3>1 DEF Finding, QualityRow
  <2>6. quality' \subseteq QualityRow
    BY <1>1, <2>4, <2>5
  <2>7. \A q \in quality' \ quality : media[q.media] # None
    BY <2>3, <2>4
  <2> QED
    BY <1>1, <2>1, <2>6, <2>7, RecomputeTyped
<1> QED
  BY <1>2, <1>3 DEF RecoverStep

LEMMA RecoverKeeps ==
  ASSUME ServiceInv, ProcessInv, NEW r \in Request, kind[r] \in {"ready", "none"},
         RecoverStep(r)
  PROVE  ServiceInv' /\ Grow /\ \A q \in Request \ {r} : SameLocals(q)
<1>1. Arrays /\ Recovering(r) /\ MovesOn(r) /\ pc'[r] \in QualityPC \cup {"done"}
  BY RecoverMoves DEF ServiceInv, TypeInv
<1>2. Arrays' /\ \A q \in Request \ {r} : SameLocals(q)
  BY <1>1, RecoverMoves, TouchedLocals
<1>3. TablesTyped'
  BY <1>1, RecoverWrites
     DEF ServiceInv, TypeInv, TablesTyped, TablesOK, Recovering, editVars
<1>4. Grow
  BY <1>1 DEF Grow, Recovering, SamePlace
<1>5. UNCHANGED kind
  BY <1>1 DEF Recovering
<1>6. ASSUME NEW q \in Request PROVE Held(q)'
  <2>1. CASE q = r
    <3>1. TypedLocals(r)
      BY DEF ServiceInv, TypeInv, Held
    <3>2. /\ pc'[r] \in Label
          /\ outcome'[r] \in Outcome \cup {None}
          /\ pc'[r] # "done" => outcome'[r] = None
      BY <1>1, <3>1 DEF MovesOn, TypedLocals, Label, EditPC
    <3>3. UNCHANGED <<target, snap, count, wd, into>>
      BY <1>1 DEF Recovering, publishVars, intakeVars
    <3>4. (pc[r] = "list_speakers" => IsRows(listed[r]))'
      BY RecoverWrites DEF IsRows
    <3>5. TypedLocals(r)'
      BY <3>1, <3>2, <3>3, <3>4, RecoverWrites DEF TypedLocals
    <3> QED
      BY <1>5, <2>1, <3>5 DEF Held
  <2>2. CASE q # r
    <3>1. segments' \in [Segment -> Row \cup {None}]
      BY <1>3 DEF TablesTyped, TablesOK
    <3> QED
      BY <1>2, <1>4, <1>5, <2>2, <3>1, OthersHeld DEF ServiceInv
  <2> QED
    BY <2>1, <2>2
<1>7. TypeInv'
  BY <1>2, <1>3, <1>6 DEF TypeInv
<1>8. PublishInv'
  <2>1. Aside(r)
    BY <1>1, <1>2 DEF Aside, Recovering, publishVars, SameLocals, Publishing, PublishPC,
       WithdrawPC, QualityPC, Arrays, IsArray
  <2> QED
    BY <2>1, AsideKeepsInv DEF ServiceInv
<1>9. ImagesInv'
  <2>1. PositiveDuration' /\ OrphansImported'
    BY <1>1 DEF ServiceInv, ImagesInv, PositiveDuration, OrphansImported, Recovering
  <2>2. ASSUME NEW q \in Request, kind[q] = "edit" PROVE HeldImages(q)'
    BY <1>2, <1>4, <2>2, OthersImages DEF ServiceInv, ImagesInv
  <2> QED
    BY <1>5, <2>1, <2>2 DEF ImagesInv
<1>10. AnswersInv'
  <2>1. ASSUME NEW q \in Request PROVE HeldAnswer(q)'
    <3>1. CASE q = r
      BY <1>5, <3>1 DEF HeldAnswer
    <3>2. CASE q # r
      BY <1>2, <1>4, <1>5, <3>2, OthersAnswer DEF ServiceInv, AnswersInv
    <3> QED
      BY <3>1, <3>2
  <2> QED
    BY <2>1 DEF AnswersInv
<1>11. OwnedInv'
  <2>1. ASSUME NEW q \in Request PROVE HeldMedia(q)'
    <3>1. HeldMedia(q)
      BY DEF ServiceInv, OwnedInv
    <3>2. CASE q = r
      BY <1>5, <3>2 DEF HeldMedia
    <3>3. CASE q # r
      BY <1>1, <1>2, <3>1, <3>3 DEF HeldMedia, Recovering, SameLocals
    <3> QED
      BY <3>2, <3>3
  <2> QED
    BY <1>1, <2>1 DEF ServiceInv, OwnedInv, Recovering
<1>12. MarksInv'
  <2>1. UNCHANGED <<segments, conflicts, kind>>
    BY <1>1 DEF Recovering
  <2>2. ASSUME NEW q \in Request, kind[q] = "edit" PROVE HeldMark(q)'
    <3>1. SameLocals(q) /\ HeldMark(q)
      BY <1>2, <2>2 DEF ServiceInv, MarksInv
    <3> QED
      BY <2>1, <3>1 DEF HeldMark, Recorded, SameLocals
  <2> QED
    BY <2>1, <2>2 DEF ServiceInv, MarksInv, ConflictMarkExplained
<1>13. AccountsInv'
  <2>1. UNCHANGED <<segments, revisions, kind>>
    BY <1>1 DEF Recovering
  <2>2. ASSUME NEW q \in Request, kind[q] = "edit"
        PROVE  /\ HeldAccount(q)'
               /\ \A s \in Segment : AccountFor(q, s) => AccountFor(q, s)'
    <3>1. SameLocals(q) /\ HeldAccount(q)
      BY <1>2, <2>2 DEF ServiceInv, AccountsInv
    <3> QED
      BY <2>1, <3>1 DEF HeldAccount, AccountFor, Explains, SameLocals
  <2> QED
    BY <2>1, <2>2 DEF ServiceInv, AccountsInv, Accounted
<1> QED
  BY <1>2, <1>4, <1>7, <1>8, <1>9, <1>10, <1>11, <1>12, <1>13 DEF ServiceInv

\* A crash leaves the tables, and requests that hold nothing any more.
LEMMA CrashKeeps ==
  ASSUME ServiceInv, ProcessInv, Crash
  PROVE  ServiceInv'
<1>1. /\ UNCHANGED <<storeVars, editVars, publishVars, compareVars, intakeVars,
                     statsVars, kind, metrics>>
      /\ pc' = [r \in Request |->
                  IF r = Boot \/ pc[r] = "new" THEN "new" ELSE "done"]
      /\ outcome' = [outcome EXCEPT ![Boot] = None]
      /\ listed' = [r \in Request |-> None]
      /\ todo' = [r \in Request |-> {}]
  BY DEF Crash
<1>2. Arrays /\ TablesTyped /\ \A r \in Request : Held(r)
  BY DEF ServiceInv, TypeInv
<1>3. Boot \in Request /\ kind[Boot] = "none"
  BY RecoveryAssumption DEF ProcessInv
<1>4. Arrays'
  BY <1>1, <1>2 DEF Arrays, IsArray, editVars, publishVars, compareVars, intakeVars,
     statsVars
<1>5. TablesTyped'
  BY <1>1, <1>2 DEF TablesTyped, TablesOK, storeVars, editVars
<1>6. ASSUME NEW r \in Request
      PROVE  /\ pc'[r] \in {"new", "done"}
             /\ pc'[r] = "new" => pc[r] = "new" \/ r = Boot
             /\ outcome'[r] = IF r = Boot THEN None ELSE outcome[r]
  BY <1>1, <1>2 DEF Arrays, IsArray
<1>7. ASSUME NEW r \in Request PROVE Held(r)'
  <2>1. Held(r) /\ TypedLocals(r)
    BY <1>2 DEF Held
  <2>2. /\ pc'[r] \in Label
        /\ outcome'[r] \in Outcome \cup {None}
        /\ pc'[r] # "done" => outcome'[r] = None
    BY <1>6, <2>1 DEF TypedLocals, Label, EditPC
  <2>3. UNCHANGED <<target, snap, count, wd, into, kind>> /\ todo'[r] = {}
    BY <1>1 DEF publishVars, intakeVars
  <2>4. TypedLocals(r)'
    BY <1>6, <2>1, <2>2, <2>3 DEF TypedLocals
  <2>5. HeldEdit(r)' /\ HeldPublish(r)' /\ HeldWithdraw(r)' /\ HeldIntake(r)'
    BY <1>6 DEF HeldEdit, LocalsOK, Editing, EditPC, QualityPC, HeldPublish, PublishPC,
                HeldWithdraw, WithdrawPC, HeldIntake
  <2> QED
    BY <2>4, <2>5 DEF Held
<1>8. PublishInv'
  <2>1. RowsInv' /\ WithdrawnRecorded' /\ DOMAIN media' = Media
    BY <1>1 DEF ServiceInv, PublishInv, RowsInv, IsVersionRow, WithdrawnRecorded,
                storeVars
  <2>2. LocalsInv'
    BY <1>4 DEF LocalsInv, Arrays, IsArray
  <2>3. PublishedHasVersion'
    BY <1>1 DEF ServiceInv, PublishInv, PublishedHasVersion, VersionsOf, storeVars
  <2>4. ASSUME NEW r \in Request PROVE HeldVersion(r)'
    <3>1. pc'[r] = "new" => r \notin DOMAIN versions
      BY <1>2, <1>3, <1>6 DEF ServiceInv, PublishInv, HeldVersion, TablesTyped
    <3>2. UNCHANGED versions
      BY <1>1 DEF storeVars
    <3> QED
      BY <1>6, <3>1, <3>2 DEF HeldVersion, PublishPC, WithdrawPC
  <2> QED
    BY <2>1, <2>2, <2>3, <2>4 DEF PublishInv
<1>9. ImagesInv'
  <2>1. PositiveDuration' /\ OrphansImported'
    BY <1>1 DEF ServiceInv, ImagesInv, PositiveDuration, OrphansImported, storeVars
  <2>2. ASSUME NEW r \in Request, kind[r] = "edit" PROVE HeldImages(r)'
    <3>1. UNCHANGED <<revisions, conflicts, rev, conf>> /\ outcome'[r] = outcome[r]
      BY <1>1, <1>3, <1>6, <2>2 DEF storeVars, editVars
    <3>2. HeldImages(r)
      BY <2>2 DEF ServiceInv, ImagesInv
    <3> QED
      BY <1>6, <3>1, <3>2 DEF HeldImages, QualityPC
  <2> QED
    BY <1>1, <2>1, <2>2 DEF ImagesInv
<1>10. AnswersInv'
  <2>1. ASSUME NEW r \in Request PROVE HeldAnswer(r)'
    <3>1. UNCHANGED <<media, segments, versions, withdrawals, target, snap, wd, into,
                      batch, kind>>
      BY <1>1 DEF storeVars, publishVars, intakeVars
    <3>2. r # Boot => outcome'[r] = outcome[r]
      BY <1>6
    <3>3. HeldAnswer(r)
      BY DEF ServiceInv, AnswersInv
    <3> QED
      BY <1>3, <1>6, <3>1, <3>2, <3>3 DEF HeldAnswer, RowsThere, QualityPC
  <2> QED
    BY <2>1 DEF AnswersInv
<1>11. OwnedInv'
  BY <1>1, <1>6 DEF ServiceInv, OwnedInv, HeldMedia, PublishPC, storeVars
<1>12. MarksInv'
  BY <1>1, <1>6 DEF ServiceInv, MarksInv, ConflictMarkExplained, HeldMark, storeVars
<1>13. AccountsInv'
  <2>1. UNCHANGED <<segments, revisions, rev, kind>>
    BY <1>1 DEF storeVars, editVars
  <2>2. ASSUME NEW q \in Request, kind[q] = "edit"
        PROVE  /\ HeldAccount(q)'
               /\ \A s \in Segment : AccountFor(q, s) => AccountFor(q, s)'
    <3>1. q # Boot /\ HeldAccount(q)
      BY <1>3, <2>2 DEF ServiceInv, AccountsInv
    <3>2. pc'[q] = IF pc[q] = "new" THEN "new" ELSE "done"
      BY <1>1, <3>1
    <3>3. outcome'[q] = outcome[q]
      BY <1>6, <3>1
    <3> QED
      BY <2>1, <3>1, <3>2, <3>3
         DEF HeldAccount, AccountFor, Accountable, Explains, QualityPC
  <2> QED
    BY <2>1, <2>2 DEF ServiceInv, AccountsInv, Accounted
<1> QED
  BY <1>4, <1>5, <1>7, <1>8, <1>9, <1>10, <1>11, <1>12, <1>13 DEF ServiceInv, TypeInv
-----------------------------------------------------------------------------
(***************************************************************************)
(* Whose findings are written.                                             *)
(***************************************************************************)

\* Whoever is about to write findings knows that the media is there.
LEMMA SubjectKnown ==
  ASSUME ServiceInv, SubjectsInv, NEW r \in Request, Handled(r), UNCHANGED kind
  PROVE  HeldSubject(r)'
<1> USE DEF Arrays, IsArray, QualityPC
<1>1. Arrays /\ Grow /\ HeldSubject(r) /\ HeldMedia(r) /\ Held(r)
  BY HandledKeeps DEF ServiceInv, TypeInv, OwnedInv, SubjectsInv
<1>2. CASE kind[r] = "import" /\ ImportRequested(r)
  <2>1. CASE ImportGetMedia(r) \/ ImportListSegments(r)
    BY <1>1, <2>1 DEF ImportGetMedia, ImportListSegments, Goto, Reply, HeldSubject
  <2>2. CASE ImportCreateSegments(r)
    BY <1>1, <1>2, <2>2
       DEF ImportCreateSegments, CreateSegments, HeldMedia, HeldSubject, intakeVars
  <2>3. CASE ImportRecompute(r)
    BY <1>1, <2>3, RecomputeMoves, RecomputeWrites
       DEF ImportRecompute, HeldSubject, intakeVars
  <2> QED
    BY <1>2, <2>1, <2>2, <2>3 DEF ImportRequested, ImportStep
<1>3. CASE kind[r] = "recompute" /\ RecomputeRequested(r)
  <2>1. CASE RecomputeGetMedia(r)
    <3>1. pc'[r] \in QualityPC => media[into'[r]] # None
      BY <1>1, <2>1 DEF RecomputeGetMedia, Goto, Reply, GetMedia
    <3>2. UNCHANGED media
      BY <2>1 DEF RecomputeGetMedia, storeVars
    <3> QED
      BY <3>1, <3>2 DEF HeldSubject
  <2>2. CASE Recompute(r, into[r], "done") /\ UNCHANGED intakeVars
    BY <1>1, <2>2, RecomputeMoves, RecomputeWrites DEF HeldSubject, intakeVars
  <2> QED
    BY <1>3, <2>1, <2>2 DEF RecomputeRequested, RecomputeStep
<1>4. CASE Refused(r)
  BY <1>1, <1>4 DEF Refused, Reply, HeldSubject
<1>5. CASE kind[r] \notin {"import", "recompute"}
  BY <1>5 DEF HeldSubject
<1> QED
  BY <1>2, <1>3, <1>4, <1>5, ServedByKind

LEMMA OthersSubject ==
  ASSUME ServiceInv, SubjectsInv, Grow, NEW q \in Request, SameLocals(q), UNCHANGED kind
  PROVE  HeldSubject(q)'
<1>1. HeldSubject(q) /\ Held(q)
  BY DEF ServiceInv, TypeInv, SubjectsInv
<1>2. kind[q] \in {"import", "recompute"} /\ pc[q] \in QualityPC => into[q] \in Media
  BY <1>1 DEF Held, HeldIntake, QualityPC
<1> QED
  BY <1>1, <1>2 DEF SameLocals, HeldSubject, Grow

LEMMA SubjectsHandled ==
  ASSUME ServiceInv, SubjectsInv, NEW r \in Request, Handled(r), UNCHANGED kind
  PROVE  SubjectsInv'
<1>1. Grow /\ \A q \in Request \ {r} : SameLocals(q)
  BY HandledKeeps, OthersSame DEF ServiceInv, TypeInv
<1>2. \A q \in Request : HeldSubject(q)'
  BY <1>1, SubjectKnown, OthersSubject
<1>3. ASSUME NEW q \in quality' PROVE media[q.media] # None
  <2>1. ASSUME NEW m,
               quality' \subseteq quality
                 \cup {[run |-> r, media |-> m, seg |-> f.seg, rule |-> f.rule] : f \in todo[r]},
               media[m] # None
        PROVE  media[q.media] # None
    BY <1>3, <2>1 DEF SubjectsInv
  <2>2. CASE quality' = quality
    BY <1>3, <2>2 DEF SubjectsInv
  <2>3. CASE kind[r] = "edit" /\ EditRecompute(r)
    <3>1. pc[r] \in Editing
      BY <2>3, RecomputeMoves
         DEF ServiceInv, TypeInv, EditRecompute, Editing, EditPC, QualityPC
    <3>2. /\ req[r].seg \in Segment /\ segments[req[r].seg] \in Row
          /\ SamePlace(row[r], segments[req[r].seg])
      BY <2>3, <3>1
         DEF ServiceInv, TypeInv, Held, HeldEdit, LocalsOK, EditRequest
    <3>3. media[row[r].media] # None
      BY <3>2, EditAssumption DEF ServiceInv, OwnedInv, SamePlace
    <3> QED
      BY <2>1, <2>3, <3>3, RecomputeWrites DEF EditRecompute
  <2>4. CASE kind[r] \in {"import", "recompute"} /\ Recompute(r, into[r], "done")
    <3>1. pc[r] \in QualityPC
      BY <2>4, RecomputeMoves DEF ServiceInv, TypeInv
    <3>2. media[into[r]] # None
      BY <2>4, <3>1 DEF SubjectsInv, HeldSubject
    <3> QED
      BY <2>1, <2>4, <3>2, RecomputeWrites
  <2> QED
    BY <2>2, <2>3, <2>4, TableWriters
<1>4. \A q \in quality' : q.media \in Media
  <2>1. quality' \subseteq QualityRow
    BY HandledKeeps DEF ServiceInv, TypeInv, TablesTyped, TablesOK
  <2> QED
    BY <2>1 DEF QualityRow
<1> QED
  BY <1>1, <1>2, <1>3, <1>4 DEF SubjectsInv, Grow

LEMMA SubjectsRecover ==
  ASSUME ServiceInv, SubjectsInv, ProcessInv, NEW r \in Request,
         kind[r] \in {"ready", "none"}, RecoverStep(r)
  PROVE  SubjectsInv'
<1>1. Grow /\ Recovering(r) /\ \A q \in Request \ {r} : SameLocals(q)
  BY RecoverKeeps, RecoverMoves DEF ServiceInv, TypeInv
<1>2. UNCHANGED <<media, kind>>
  BY <1>1 DEF Recovering
<1>3. \A q \in quality' : media[q.media] # None
  BY RecoverWrites DEF SubjectsInv
<1>4. HeldSubject(r)'
  BY <1>2 DEF HeldSubject
<1> QED
  BY <1>1, <1>2, <1>3, <1>4, OthersSubject DEF SubjectsInv
-----------------------------------------------------------------------------
(***************************************************************************)
(* What a recovery has still to do.                                        *)
(***************************************************************************)

\* What is left of the list after a step, and how the step goes on.
Advanced(r) ==
  \/ /\ UNCHANGED rest
     /\ pc[r] \in QualityPC /\ pc'[r] \in {"list_speakers", "delete_quality", "add_quality"}
  \/ /\ rest' = [rest EXCEPT ![r] = Tail(@)]
     /\ pc[r] \in QualityPC
     /\ pc'[r] = IF Len(rest[r]) = 1 THEN "done" ELSE "list_segments"

LEMMA MediaAdvances ==
  ASSUME Arrays, NEW r \in Request, RecoverMedia(r)
  PROVE  Advanced(r)
<1> DEFINE m == Head(rest[r])
           next == IF Len(rest[r]) = 1 THEN "done" ELSE "list_segments"
<1>1. /\ Recompute(r, m, next) /\ next \in {"done", "list_segments"}
      /\ rest' = IF pc'[r] \in {"list_segments", "done"}
                 THEN [rest EXCEPT ![r] = Tail(@)]
                 ELSE rest
  BY DEF RecoverMedia
<1> HIDE DEF m
<1>2. pc[r] \in QualityPC
  BY <1>1, RecomputeMoves
<1>3. pc'[r] \in {"list_speakers", "delete_quality", "add_quality", next}
  BY <1>1 DEF Arrays, IsArray, Recompute, RecomputeListSegments, RecomputeListSpeakers,
     RecomputeDelete, RecomputeAdd, Return, Goto, Reply
<1> QED
  BY <1>1, <1>2, <1>3 DEF Advanced

LEMMA RestRecover ==
  ASSUME ServiceInv, ProcessInv, NEW r \in Request, r = Boot \/ kind[r] = "ready",
         RecoverStep(r), UNCHANGED kind
  PROVE  IsArray(rest') /\ \A q \in Request : HeldRest(q)'
<1>1. Arrays /\ Recovering(r) /\ pc'[r] \in QualityPC \cup {"done"}
        /\ \A q \in Request \ {r} : pc'[q] = pc[q]
  BY RecoverMoves, TouchedLocals DEF ServiceInv, TypeInv, SameLocals
<1>2. UNCHANGED media /\ IsArray(rest) /\ \A q \in Request : HeldRest(q)
  BY <1>1 DEF Recovering, ProcessInv
<1>3. Touched(rest, rest', r)
  BY DEF RecoverStep, RecoverListMedia, RecoverMedia, Touched
<1>4. IsArray(rest') /\ \A q \in Request \ {r} : rest'[q] = rest[q]
  BY <1>2, <1>3, TouchedEntry
<1>5. \A q \in Request \ {r} : HeldRest(q)'
  BY <1>1, <1>2, <1>4 DEF HeldRest, Elements
<1>6. ASSUME rest'[r] # <<>>
      PROVE  Listing(rest'[r]) /\ \A m \in Elements(rest'[r]) : media[m] # None
  <2>1. CASE RecoverListMedia(r)
    <3> DEFINE S == {m \in ListMedia : Recoverable(m)}
    <3>1. rest'[r] \in Orders(S)
      BY <1>2, <2>1 DEF RecoverListMedia, IsArray
    <3>2. S \subseteq Media /\ \A m \in S : media[m] # None
      BY DEF ListMedia
    <3> HIDE DEF S
    <3>3. S # {}
      <4> SUFFICES ASSUME S = {} PROVE FALSE
        OBVIOUS
      <4>1. rest'[r] \in [1..0 -> {}]
        BY <3>1, FS_EmptySet DEF Orders
      <4> QED
        BY <1>6, <4>1
    <3> QED
      BY <3>1, <3>2, <3>3, OrdersList
  <2>2. CASE RecoverMedia(r)
    <3>1. rest[r] # <<>>
      BY <2>2 DEF RecoverMedia
    <3>2. Listing(rest[r]) /\ \A m \in Elements(rest[r]) : media[m] # None
      BY <1>2, <3>1 DEF HeldRest
    <3>3. CASE UNCHANGED rest
      BY <3>2, <3>3
    <3>4. CASE rest' = [rest EXCEPT ![r] = Tail(@)]
      <4>1. rest'[r] = Tail(rest[r])
        BY <1>2, <3>4 DEF IsArray
      <4>2. Len(rest[r]) # 1
        BY <1>6, <3>2, <4>1 DEF Listing
      <4> QED
        BY <3>2, <4>1, <4>2, RestOfListing
    <3> QED
      BY <1>1, <2>2, <3>3, <3>4, MediaAdvances DEF Advanced
  <2> QED
    BY <2>1, <2>2 DEF RecoverStep
<1>7. HeldRest(r)'
  <2>1. (rest[r] # <<>> => Listing(rest[r]) /\ \A m \in Elements(rest[r]) : media[m] # None)'
    BY <1>2, <1>6 DEF Listing, Elements
  <2> QED
    BY <1>1, <2>1 DEF HeldRest
<1> QED
  BY <1>4, <1>5, <1>7
-----------------------------------------------------------------------------
(***************************************************************************)
(* The startup.                                                            *)
(***************************************************************************)

\* A media that is not there has neither lines nor findings.
LEMMA AbsentExact ==
  ASSUME ServiceInv, SubjectsInv, NEW m \in Media, media[m] = None
  PROVE  FindingsExact(m)
<1>1. DOMAIN ListSegments(m) = {}
  BY DEF ServiceInv, OwnedInv, ListSegments
<1>2. ListQuality(m) = {}
  BY DEF SubjectsInv, ListQuality
<1>3. Analyze(ListSegments(m), ListSpeakers(m)) = {}
  BY <1>1 DEF Analyze
<1> QED
  BY <1>2, <1>3 DEF FindingsExact

\* Recover sees every media that can have findings, and takes one at a time.
LEMMA BootRecovers ==
  ASSUME RecoveryInv, server = "starting", BootStep
  PROVE  Starting'
<1>1. RecoverStep(Boot) /\ Boot \in Request
  BY RecoveryAssumption DEF BootStep
<1>2. Arrays /\ Starting /\ ProcessInv /\ Recovering(Boot) /\ IsArray(rest)
  BY <1>1, RecoverMoves
     DEF RecoveryInv, ServiceInv, TypeInv, StartingInv, ProcessInv
<1>3. Arrays'
  BY <1>1, RecoverMoves, TouchedLocals DEF RecoveryInv, ServiceInv, TypeInv
<1>4. UNCHANGED media
  BY <1>2 DEF Recovering
<1>5. CASE RecoverListMedia(Boot)
  <2> DEFINE S == {m \in ListMedia : Recoverable(m)}
  <2>1. /\ UNCHANGED <<segments, speakers, quality>>
        /\ rest'[Boot] \in Orders(S)
        /\ pc'[Boot] = IF S = {} THEN "done" ELSE "list_segments"
    BY <1>1, <1>2, <1>5 DEF RecoverListMedia, storeVars, Arrays, IsArray, Goto, Reply
  <2>2. S \subseteq Media
    BY DEF ListMedia
  <2>3. \A m \in Media \ S : GetMedia(m) # "archived" => FindingsExact(m)
    BY AbsentExact DEF RecoveryInv, ListMedia, Recoverable, GetMedia
  <2> HIDE DEF S
  <2>4. \A m \in Media \ S : (GetMedia(m) # "archived" => FindingsExact(m))'
    BY <1>4, <2>1, <2>3 DEF GetMedia, FindingsExact, ListQuality, ListSegments, ListSpeakers
  <2>5. CASE S = {}
    <3>1. RecoveredBut({})'
      BY <2>4, <2>5 DEF RecoveredBut
    <3> QED
      BY <2>1, <2>5, <3>1 DEF Starting, QualityPC
  <2>6. CASE S # {}
    <3>1. Listing(rest'[Boot]) /\ Elements(rest'[Boot]) = S
      BY <2>1, <2>2, <2>6, OrdersList
    <3>2. \A m \in Media \ Elements(rest'[Boot]) :
            (GetMedia(m) # "archived" => FindingsExact(m))'
      BY <2>4, <3>1
    <3>3. RecoveredBut(Elements(rest[Boot]))'
      BY <3>2 DEF RecoveredBut, Elements
    <3>4. HeldFindings(Boot, Head(rest[Boot]))'
      BY <2>1, <2>6 DEF HeldFindings
    <3> QED
      BY <2>1, <2>6, <3>1, <3>3, <3>4 DEF Starting, QualityPC, Listing
  <2> QED
    BY <2>5, <2>6
<1>6. CASE RecoverMedia(Boot)
  <2> DEFINE next == IF Len(rest[Boot]) = 1 THEN "done" ELSE "list_segments"
  <2>1. /\ rest[Boot] # <<>> /\ Recompute(Boot, Head(rest[Boot]), next)
        /\ next \in {"done", "list_segments"}
        /\ rest' = IF pc'[Boot] \in {"list_segments", "done"}
                   THEN [rest EXCEPT ![Boot] = Tail(@)]
                   ELSE rest
    BY <1>6 DEF RecoverMedia
  <2>2. Listing(rest[Boot])
    BY <1>1, <1>2, <2>1 DEF ProcessInv, HeldRest
  <2>3. PICK m \in Media :
          /\ m = Head(rest[Boot]) /\ m \in Elements(rest[Boot])
          /\ Len(rest[Boot]) = 1 => Elements(rest[Boot]) = {m}
          /\ Len(rest[Boot]) # 1 => Listing(Tail(rest[Boot]))
          /\ Elements(Tail(rest[Boot])) = Elements(rest[Boot]) \ {m}
    BY <2>2, RestOfListing
  <2>4. pc[Boot] \in QualityPC
    BY <1>1, <1>2, <2>1, RecomputeMoves
  <2>5. HeldFindings(Boot, m) /\ RecoveredBut(Elements(rest[Boot]))
    BY <1>2, <2>3, <2>4 DEF Starting
  <2>6. /\ segments \in [Segment -> Row \cup {None}] /\ quality \subseteq QualityRow
        /\ DOMAIN pc = Request /\ DOMAIN listed = Request /\ DOMAIN todo = Request
    BY <1>2 DEF RecoveryInv, ServiceInv, TypeInv, TablesTyped, TablesOK, Arrays, IsArray
  <2> HIDE DEF next
  <2>7. /\ \/ pc'[Boot] \in {"list_speakers", "delete_quality", "add_quality"}
           \/ pc'[Boot] = next /\ FindingsExact(m)'
        /\ HeldFindings(Boot, m)'
        /\ \A n \in Media \ {m} : FindingsExact(n) => FindingsExact(n)'
    BY <1>1, <2>1, <2>3, <2>5, <2>6, RecomputeExact
  <2>8. \A n \in Media \ Elements(rest[Boot]) : (GetMedia(n) # "archived" => FindingsExact(n))'
    BY <1>4, <2>3, <2>5, <2>7 DEF RecoveredBut, GetMedia
  <2>9. CASE pc'[Boot] \in {"list_speakers", "delete_quality", "add_quality"}
    <3>1. rest' = rest
      BY <2>1, <2>9
    <3>2. RecoveredBut(Elements(rest[Boot]))'
      BY <2>8, <3>1 DEF RecoveredBut, Elements
    <3>3. HeldFindings(Boot, Head(rest[Boot]))'
      BY <2>3, <2>7, <3>1 DEF HeldFindings, ListSegments, Found, Due, Once, ListQuality,
         ListSpeakers
    <3> QED
      BY <2>1, <2>9, <3>1, <3>2, <3>3 DEF Starting, QualityPC
  <2>10. CASE pc'[Boot] = next /\ FindingsExact(m)'
    <3>1. rest'[Boot] = Tail(rest[Boot])
      BY <1>1, <1>2, <2>1, <2>10 DEF IsArray
    <3>2. \A n \in Media \ Elements(rest'[Boot]) :
            (GetMedia(n) # "archived" => FindingsExact(n))'
      BY <2>3, <2>8, <2>10, <3>1
    <3>3. CASE Len(rest[Boot]) = 1
      <4>1. pc'[Boot] = "done"
        BY <2>10, <3>3 DEF next
      <4>2. RecoveredBut({})'
        BY <2>3, <3>1, <3>2, <3>3 DEF RecoveredBut
      <4> QED
        BY <4>1, <4>2 DEF Starting, QualityPC
    <3>4. CASE Len(rest[Boot]) # 1
      <4>1. pc'[Boot] = "list_segments"
        BY <2>10, <3>4 DEF next
      <4>2. RecoveredBut(Elements(rest[Boot]))'
        BY <3>2 DEF RecoveredBut, Elements
      <4>3. HeldFindings(Boot, Head(rest[Boot]))'
        BY <4>1 DEF HeldFindings
      <4>4. rest'[Boot] # <<>>
        BY <2>3, <3>1, <3>4 DEF Listing
      <4> QED
        BY <4>1, <4>2, <4>3, <4>4 DEF Starting, QualityPC
    <3> QED
      BY <3>3, <3>4
  <2> QED
    BY <2>7, <2>9, <2>10
<1> QED
  BY <1>1, <1>5, <1>6 DEF RecoverStep

LEMMA RecoveryInvInit == RecoveryInit => RecoveryInv
<1> SUFFICES ASSUME RecoveryInit PROVE RecoveryInv
  OBVIOUS
<1>1. WorkbenchInit /\ EditInit
  BY DEF RecoveryInit, WorkbenchInit
<1>2. \A r \in Request : pc[r] = "new" /\ outcome[r] = None
  BY <1>1 DEF EditInit, QualityInit
<1>3. ServiceInv
  BY <1>1, TypeInvInit, PublishInvInit, ImagesInvInit, AnswersInvInit, OwnedInvInit,
     MarksInvInit, AccountsInvInit DEF ServiceInv
<1>4. SubjectsInv
  <2>1. ASSUME NEW m \in Media, NEW f \in Analyze(ListSegments(m), ListSpeakers(m))
        PROVE  media[m] # None
    <3>1. f.seg \in DOMAIN ListSegments(m)
      BY <2>1 DEF Analyze
    <3> QED
      BY <1>3, <3>1 DEF ListSegments, ServiceInv, OwnedInv
  <2>2. \A q \in quality : media[q.media] # None
    BY <1>1, <2>1 DEF EditInit, SeedQuality
  <2> QED
    BY <1>2, <2>2 DEF SubjectsInv, HeldSubject, QualityPC
<1>5. ProcessInv
  <2>1. kind \in Mixes /\ server = "down" /\ crashes = 0
        /\ rest = [r \in Request |-> <<>>]
    BY DEF RecoveryInit, WorkbenchInit
  <2> QED
    BY <2>1, RecoveryAssumption DEF ProcessInv, HeldRest, IsArray
<1>6. StartingInv
  BY <1>2, RecoveryAssumption DEF StartingInv, RecoveryInit
<1> QED
  BY <1>3, <1>4, <1>5, <1>6 DEF RecoveryInv

-----------------------------------------------------------------------------
(***************************************************************************)
(* Every step of the process.                                              *)
(***************************************************************************)

LEMMA NobodyKeeps ==
  ASSUME RecoveryInv, Resting, UNCHANGED <<crashes, rest>>,
         \/ UNCHANGED server
         \/ server = "down" /\ server' = "starting"
         \/ server' = "up"
  PROVE  RecoveryInv'
<1> USE DEF Resting, vars, storeVars, qaVars, intakeVars
<1>1. ServiceInv'
  BY RestingKeeps DEF RecoveryInv
<1>2. SubjectsInv'
  BY DEF RecoveryInv, SubjectsInv, HeldSubject
<1>3. ProcessInv'
  BY DEF RecoveryInv, ProcessInv, HeldRest, IsArray, Listing, Elements
<1>4. Starting => Starting'
  <2>1. UNCHANGED <<media, speakers, segments, quality, pc, listed, todo, rest>>
    OBVIOUS
  <2>2. ASSUME NEW m
        PROVE  /\ ListQuality(m)' = ListQuality(m)
               /\ ListSegments(m)' = ListSegments(m)
               /\ ListSpeakers(m)' = ListSpeakers(m)
    BY <2>1 DEF ListQuality, ListSegments, ListSpeakers
  <2>3. ASSUME NEW m
        PROVE  /\ FindingsExact(m)' <=> FindingsExact(m)
               /\ HeldFindings(Boot, m) => HeldFindings(Boot, m)'
    BY <2>1, <2>2 DEF FindingsExact, HeldFindings, Found, Due, Once
  <2>4. ASSUME NEW S, RecoveredBut(S)
        PROVE  RecoveredBut(S)'
    BY <2>1, <2>3, <2>4 DEF RecoveredBut, GetMedia
  <2> QED
    BY <2>1, <2>3, <2>4 DEF Starting, Elements, RecoveredBut
<1>5. StartingInv'
  <2>1. CASE UNCHANGED server
    BY <1>4, <2>1 DEF RecoveryInv, StartingInv
  <2>2. CASE server = "down" /\ server' = "starting"
    BY <2>2 DEF RecoveryInv, StartingInv, Starting, QualityPC
  <2>3. CASE server' = "up"
    BY <2>3 DEF StartingInv
  <2> QED
    BY <2>1, <2>2, <2>3
<1> QED
  BY <1>1, <1>2, <1>3, <1>5 DEF RecoveryInv

LEMMA BootKeeps ==
  ASSUME RecoveryInv, BootStep
  PROVE  RecoveryInv'
<1>1. /\ server = "starting" /\ RecoverStep(Boot) /\ UNCHANGED <<server, crashes, kind>>
      /\ Boot \in Request /\ kind[Boot] = "none"
  BY RecoveryAssumption DEF BootStep, RecoverStep, RecoveryInv, ProcessInv
<1>2. ServiceInv' /\ \A q \in Request \ {Boot} : SameLocals(q)
  BY <1>1, RecoverKeeps DEF RecoveryInv
<1>3. SubjectsInv'
  BY <1>1, SubjectsRecover DEF RecoveryInv
<1>4. ProcessInv'
  BY <1>1, RestRecover DEF RecoveryInv, ProcessInv
<1>5. StartingInv'
  BY <1>1, <1>2, BootRecovers DEF RecoveryInv, StartingInv, SameLocals
<1> QED
  BY <1>2, <1>3, <1>4, <1>5 DEF RecoveryInv

LEMMA ReadyKeeps ==
  ASSUME RecoveryInv, server = "up", NEW r \in Request, ReadyRequested(r)
  PROVE  RecoveryInv'
<1>1. kind[r] = "ready" /\ RecoverStep(r) /\ UNCHANGED <<server, crashes, kind>>
  BY DEF ReadyRequested, RecoverStep
<1>2. ServiceInv'
  BY <1>1, RecoverKeeps DEF RecoveryInv
<1>3. SubjectsInv'
  BY <1>1, SubjectsRecover DEF RecoveryInv
<1>4. ProcessInv'
  BY <1>1, RestRecover DEF RecoveryInv, ProcessInv
<1>5. StartingInv'
  BY <1>1 DEF StartingInv
<1> QED
  BY <1>2, <1>3, <1>4, <1>5 DEF RecoveryInv

LEMMA ServedKeeps ==
  ASSUME RecoveryInv, server = "up", NEW r \in Request, Handled(r),
         UNCHANGED <<kind, processVars>>
  PROVE  RecoveryInv'
<1>1. ServiceInv' /\ Grow /\ SubjectsInv'
  BY HandledKeeps, SubjectsHandled DEF RecoveryInv
<1>2. \A q \in Request \ {r} : pc'[q] = pc[q]
  BY OthersSame DEF RecoveryInv, ServiceInv, TypeInv, SameLocals
<1>3. kind[r] # "none" /\ (kind[r] = "ready" => pc'[r] = "done")
  <2>1. kind[r] # "none"
    BY DEF Handled, BodyRefused, WithBody, EditRequested, PublishRequested,
       WithdrawRequested, CompareRequested, ImportRequested, MediaRequested,
       SpeakerRequested, RecomputeRequested, StatsRequested, RequestFails
  <2>2. kind[r] = "ready" => Refused(r)
    BY ServedByKind
  <2> QED
    BY <2>1, <2>2 DEF Refused, Reply, RecoveryInv, ServiceInv, TypeInv, Arrays, IsArray
<1>4. ProcessInv'
  <2>1. ASSUME NEW q \in Request PROVE HeldRest(q)'
    <3>1. HeldRest(q) /\ UNCHANGED <<rest, kind>> /\ kind[Boot] = "none"
      BY DEF RecoveryInv, ProcessInv, processVars
    <3>2. rest[q] # <<>> => pc'[q] \in QualityPC \cup {"done"}
      BY <1>2, <1>3, <3>1 DEF HeldRest
    <3>3. \A m \in Elements(rest[q]) : media[m] # None => media'[m] # None
      BY <1>1 DEF Grow, Elements
    <3> QED
      BY <3>1, <3>2, <3>3 DEF HeldRest, Listing, Elements
  <2> QED
    BY <2>1 DEF RecoveryInv, ProcessInv, processVars, IsArray
<1>5. StartingInv'
  BY DEF StartingInv, processVars
<1> QED
  BY <1>1, <1>4, <1>5 DEF RecoveryInv

LEMMA CrashRecoverable ==
  ASSUME RecoveryInv, Crash
  PROVE  RecoveryInv'
<1>1. /\ server' = "down" /\ crashes < MaxCrashes /\ crashes' = crashes + 1
      /\ UNCHANGED <<media, quality, kind>>
      /\ pc' = [r \in Request |->
                  IF r = Boot \/ pc[r] = "new" THEN "new" ELSE "done"]
      /\ outcome' = [outcome EXCEPT ![Boot] = None]
      /\ rest' = [r \in Request |-> <<>>]
  BY DEF Crash, storeVars
<1>2. ServiceInv'
  BY CrashKeeps DEF RecoveryInv
<1>3. SubjectsInv'
  BY <1>1 DEF RecoveryInv, SubjectsInv, HeldSubject, QualityPC
<1>4. ProcessInv'
  BY <1>1, RecoveryAssumption DEF RecoveryInv, ProcessInv, HeldRest, IsArray
<1>5. StartingInv'
  BY <1>1, RecoveryAssumption
     DEF RecoveryInv, ServiceInv, TypeInv, Arrays, IsArray, StartingInv
<1> QED
  BY <1>2, <1>3, <1>4, <1>5 DEF RecoveryInv

LEMMA RecoveryInvNext == RecoveryInv /\ [RecoveryNext]_recoveryVars => RecoveryInv'
<1> SUFFICES ASSUME RecoveryInv, [RecoveryNext]_recoveryVars PROVE RecoveryInv'
  OBVIOUS
<1>1. CASE Start \/ Listen \/ UNCHANGED recoveryVars
  BY <1>1, NobodyKeeps
     DEF Start, Listen, Resting, recoveryVars, allVars, processVars
<1>2. CASE BootStep
  BY <1>2, BootKeeps
<1>3. ASSUME NEW r \in Request, RequestStep(r) PROVE RecoveryInv'
  BY <1>3, ReadyKeeps, ServedKeeps DEF RequestStep, Served
<1>4. CASE Crash
  BY <1>4, CrashRecoverable
<1> QED
  BY <1>1, <1>2, <1>3, <1>4 DEF RecoveryNext, RecoveryQuiet

LEMMA RecoveryInvHolds == RecoverySpec => []RecoveryInv
BY RecoveryInvInit, RecoveryInvNext, PTL DEF RecoverySpec
-----------------------------------------------------------------------------
\* However often the process dies, every table and local variable is well
\* typed, and a recovery goes through media, each once.
THEOREM RecoveryTypeCorrect == RecoverySpec => []RecoveryTypeOK
<1>1. RecoveryInv => RecoveryTypeOK
  <2> SUFFICES ASSUME RecoveryInv PROVE RecoveryTypeOK
    OBVIOUS
  <2>1. WorkbenchTypeOK
    BY TypesHold DEF RecoveryInv, ServiceInv
  <2>2. \A r \in Request : HeldRest(r)
    BY DEF RecoveryInv, ProcessInv
  <2>3. <<>> \in Seq(Media)
    OBVIOUS
  <2> QED
    BY <2>1, <2>2, <2>3 DEF RecoveryInv, ProcessInv, HeldRest, Listing, RecoveryTypeOK
<1> QED
  BY <1>1, RecoveryInvHolds, PTL

\* Restart recovery is safe (qa.go:2-4): whatever a crash left half written, in
\* a request or in an earlier recovery, when the server starts to listen every
\* media has the findings of its lines as they are, each once.
THEOREM RecoveryExact == RecoverySpec => []RecoveredExact
<1>1. RecoveryInv => RecoveredExact
  <2> SUFFICES ASSUME RecoveryInv, server = "starting", outcome[Boot] = "ok",
                      NEW m \in Media, GetMedia(m) # "archived"
               PROVE  FindingsExact(m)
    BY DEF RecoveredExact
  <2>1. TypedLocals(Boot)
    BY RecoveryAssumption DEF RecoveryInv, ServiceInv, TypeInv, Held
  <2>2. None # "ok"
    BY OutcomeAssumption DEF Outcome
  <2>3. pc[Boot] = "done"
    BY <2>1, <2>2 DEF TypedLocals
  <2> QED
    BY <2>3 DEF RecoveryInv, StartingInv, Starting, RecoveredBut
<1> QED
  BY <1>1, RecoveryInvHolds, PTL

\* What a client was told stays in the tables across crashes and restarts.
THEOREM AnswersSurvive == RecoverySpec => []AnsweredStored
<1>1. RecoveryInv => AnsweredStored
  BY HeldStored DEF RecoveryInv, ServiceInv
<1> QED
  BY <1>1, RecoveryInvHolds, PTL

\* A request cut short by a crash leaves no flag without its record, no mark of
\* a media without its version, no row that ends before it starts and no
\* reference an edit made up.
THEOREM TablesSurvive ==
  RecoverySpec => [](/\ WithdrawnRecorded /\ PublishedHasVersion
                     /\ PositiveDuration /\ OrphansImported)
<1>1. RecoveryInv => /\ WithdrawnRecorded /\ PublishedHasVersion
                     /\ PositiveDuration /\ OrphansImported
  BY DEF RecoveryInv, ServiceInv, PublishInv, ImagesInv
<1> QED
  BY <1>1, RecoveryInvHolds, PTL

\* A mark has its conflict row also when the process dies between the two calls
\* that write them, or when a stale row is written back after a restart.
THEOREM MarksSurvive == RecoverySpec => []ConflictMarkExplained
<1>1. RecoveryInv => ConflictMarkExplained
  BY DEF RecoveryInv, ServiceInv, MarksInv
<1> QED
  BY <1>1, RecoveryInvHolds, PTL

\* An edit that dies with the process after its row is written, and before its
\* audit row is, leaves a row nobody was told of.
THEOREM AccountsSurvive == RecoverySpec => []RowAccounted
<1>1. RecoveryInv => RowAccounted
  BY RowsHaveAccounts DEF RecoveryInv, ServiceInv
<1> QED
  BY <1>1, RecoveryInvHolds, PTL

\* A restart neither publishes nor withdraws: the starting, recovering and dying
\* of the process is invisible to the history.
LEMMA HistoryThroughout ==
  RecoveryInv /\ [RecoveryNext]_recoveryVars => [History!Next]_(History!historyVars)
<1> SUFFICES ASSUME RecoveryInv, [RecoveryNext]_recoveryVars
             PROVE  History!Next \/ UNCHANGED History!historyVars
  OBVIOUS
<1>0. ASSUME UNCHANGED <<versions, withdrawals>>
      PROVE  UNCHANGED History!historyVars
  BY <1>0 DEF History!historyVars
<1>1. CASE Start \/ Listen \/ Crash \/ UNCHANGED recoveryVars
  BY <1>0, <1>1
     DEF Start, Listen, Crash, recoveryVars, allVars, vars, storeVars
<1>2. ASSUME NEW r \in Request, RecoverStep(r)
      PROVE  UNCHANGED History!historyVars
  BY <1>0, <1>2, RecoverMoves
     DEF RecoveryInv, ServiceInv, TypeInv, Recovering
<1>3. CASE BootStep
  BY <1>2, <1>3, RecoveryAssumption DEF BootStep
<1>4. ASSUME NEW r \in Request, RequestStep(r)
      PROVE  History!Next \/ UNCHANGED History!historyVars
  BY <1>2, <1>4, HistoryHandled
     DEF RequestStep, ReadyRequested, Served, RecoveryInv, ServiceInv
<1> QED
  BY <1>1, <1>3, <1>4 DEF RecoveryNext, RecoveryQuiet

\* Across crashes and restarts versions are appended and never rewritten, and
\* are flagged only with their record: the process as a whole implements
\* VersionHistory.
THEOREM HistorySurvives == RecoverySpec => HistorySpec
<1>1. RecoveryInit => History!Init
  BY HistoryInit DEF RecoveryInit
<1> QED
  BY <1>1, HistoryThroughout, RecoveryInvHolds, PTL
     DEF RecoverySpec, HistorySpec, History!Spec
=============================================================================
