------------------------- MODULE EditSession_proofs -------------------------
(***************************************************************************)
(* What EditSession guarantees for every number of editors, submissions    *)
(* and loads of the list.                                                  *)
(***************************************************************************)
EXTENDS EditSession, EditSegment_proofs, SequenceTheorems

-----------------------------------------------------------------------------
(***************************************************************************)
(* A session is edits that race, submitted by the page: what holds of      *)
(* every run of EditSegment holds of every session.                        *)
(***************************************************************************)

\* What the page does is no step of the server.
LEMMA SessionStep == [SessionNext]_sessionVars => [Next]_vars
BY DEF SessionNext, Reload, Click, Show, Submit, GiveUp, Answer, Serve,
       SessionQuiet, Next, sessionVars

\* Editors at their pages submit only edits the edit handler is proved for:
\* every session is a run of EditSegment.
THEOREM SessionRunsEdits == SessionSpec => Spec
<1>1. SessionInit => EditInit
  BY DEF SessionInit
<1> QED
  BY <1>1, SessionStep, PTL DEF SessionSpec, Spec

-----------------------------------------------------------------------------
(***************************************************************************)
(* Types.  A version is never negative, and the line is never deleted.     *)
(***************************************************************************)

NatVersions ==
  /\ \A s \in Segment : segments[s] # None => segments[s].version \in Nat
  /\ \A r \in Request : row[r] # None => row[r].version \in Nat
  /\ segments[Line] # None

\* Whoever waits has submitted.
Waiting(e) == page[e] = "wait" => <<e, try[e]>> \in Request /\ try[e] # 0

SessionTypeInv ==
  /\ SessionTypeOK
  /\ NatVersions
  /\ \A e \in Editor : Waiting(e)

\* A submission is an editor with a number it may try.
LEMMA RequestPairs ==
  /\ \A r \in Request : /\ r[1] \in Editor
                        /\ r[2] \in 1..MaxTries[r[1]]
                        /\ r = <<r[1], r[2]>>
  /\ \A e \in Editor : \A n \in 1..MaxTries[e] : <<e, n>> \in Request
BY SessionAssumption

\* A patched row is one version on.
LEMMA PatchedVersion ==
  ASSUME NEW seg \in Row, NEW edit
  PROVE  Patched(seg, edit).version = seg.version + 1
BY DEF Patched, Row

\* The mark of a conflict leaves the version.
LEMMA MarkKeepsVersion ==
  ASSUME NEW x \in Row, NEW status
  PROVE  [x EXCEPT !.status = status].version = x.version
BY DEF Row

\* An answer that has come is on its way no more; the others stay.
LEMMA WithoutType ==
  ASSUME NEW S, NEW s \in Seq(S), NEW i \in DOMAIN s
  PROVE  /\ Without(s, i) \in Seq(S)
         /\ Len(Without(s, i)) = Len(s) - 1
         /\ \A j \in DOMAIN Without(s, i) :
              \E k \in DOMAIN s : Without(s, i)[j] = s[k]
<1>1. i \in 1..Len(s) /\ Len(s) \in Nat /\ DOMAIN s = 1..Len(s)
  OBVIOUS
<1> DEFINE a == SubSeq(s, 1, i - 1)
           b == SubSeq(s, i + 1, Len(s))
<1>2. /\ a \in Seq(S) /\ Len(a) = i - 1
      /\ \A j \in 1..(i - 1) : a[j] = s[j]
  BY <1>1
<1>3. /\ b \in Seq(S) /\ Len(b) = Len(s) - i
      /\ \A j \in 1..(Len(s) - i) : b[j] = s[i + j]
  BY <1>1
<1> HIDE DEF a, b
<1>4. a \o b \in Seq(S) /\ Len(a \o b) = Len(s) - 1
  <2>1. a \o b \in Seq(S) /\ Len(a \o b) = Len(a) + Len(b)
    BY <1>2, <1>3, ConcatProperties
  <2>2. Len(a) + Len(b) = Len(s) - 1
    BY <1>1, <1>2, <1>3
  <2> QED
    BY <2>1, <2>2
<1>41. DOMAIN (a \o b) = 1..(Len(s) - 1)
  BY <1>4
<1>42. ASSUME NEW j \in 1..(Len(s) - 1)
      PROVE  (a \o b)[j] = IF j <= i - 1 THEN a[j] ELSE b[j - (i - 1)]
  BY <1>1, <1>2, <1>3, ConcatProperties
<1>5. ASSUME NEW j \in 1..(Len(s) - 1)
      PROVE  \E k \in DOMAIN s : (a \o b)[j] = s[k]
  <2>1. CASE j <= i - 1
    BY <1>1, <1>2, <1>42, <2>1
  <2>2. CASE ~(j <= i - 1)
    <3>1. j - (i - 1) \in 1..(Len(s) - i) /\ i + (j - (i - 1)) = j + 1
      BY <1>1, <2>2
    <3>2. (a \o b)[j] = s[j + 1]
      BY <1>3, <1>42, <2>2, <3>1
    <3> QED
      BY <1>1, <3>2
  <2> QED
    BY <2>1, <2>2
<1> QED
  BY <1>4, <1>41, <1>5 DEF Without, a, b

LEMMA SessionTypeInit == SessionInit => SessionTypeInv
<1> SUFFICES ASSUME SessionInit PROVE SessionTypeInv
  OBVIOUS
<1>1. TypeOK /\ EditInit
  BY InitType DEF SessionInit
<1>2. NatVersions
  BY <1>1, SeedAssumption, SessionAssumption DEF EditInit, NatVersions
<1>3. ASSUME NEW r \in Request
      PROVE  /\ sent[r] = None /\ pc[r] = "new"
             /\ ~(r[2] <= try[r[1]])
  <2>1. r[1] \in Editor /\ r[2] \in 1..MaxTries[r[1]] /\ MaxTries[r[1]] \in Nat
    BY RequestPairs, SessionAssumption
  <2>2. try[r[1]] = 0 /\ ~(r[2] <= 0)
    BY <2>1 DEF SessionInit
  <2> QED
    BY <2>2, <1>1 DEF SessionInit, EditInit, QualityInit
<1>4. SessionTypeOK
  BY <1>1, <1>3 DEF SessionInit, SessionTypeOK, PageState
<1> QED
  BY <1>2, <1>4 DEF SessionTypeInv, SessionInit, Waiting

\* Which rows a step of an edit writes: its own, at one call, and with the
\* content as it is at another.
LEMMA RowsWritten ==
  ASSUME TypeOK, NEW r \in Request, EditStep(r)
  PROVE  \/ UNCHANGED segments
         \/ /\ pc[r] = "update_segment"
            /\ EditUpdateSegment(r)
            /\ segments' = [segments EXCEPT ![req[r].seg] = row[r]]
         \/ /\ pc[r] = "mark_conflict"
            /\ segments' = [segments EXCEPT ![req[r].seg] =
                              [segments[req[r].seg] EXCEPT !.status = "conflict"]]
<1>1. CASE EditUpdateSegment(r)
  BY <1>1 DEF EditUpdateSegment, UpdateSegment
<1>2. CASE EditMarkConflict(r)
  BY <1>2 DEF EditMarkConflict, UpdateSegmentStatus, storeVars
<1>3. CASE ~EditUpdateSegment(r) /\ ~EditMarkConflict(r)
  BY <1>3 DEF EditStep, EditGetSegment, EditLastActor, EditAddConflict,
    EditPatch, EditGetSpeaker, EditAddRevision, EditRecompute, EditFail,
    Fail, AddConflict, AddRevision, Recompute, RecomputeListSegments,
    RecomputeListSpeakers, RecomputeDelete, RecomputeAdd,
    DeleteQualityForMedia, AddQuality, storeVars
<1> QED
  BY <1>1, <1>2, <1>3

\* A step of a request moves nobody else and, once it has come, always has.
LEMMA OthersRest ==
  ASSUME TypeOK, NEW r \in Request, EditStep(r)
  PROVE  /\ \A q \in Request \ {r} : /\ pc'[q] = pc[q]
                                     /\ req'[q] = req[q]
                                     /\ row'[q] = row[q]
                                     /\ rev'[q] = rev[q]
                                     /\ conf'[q] = conf[q]
         /\ pc'[r] # "new"
         /\ pc[r] # "new" => req' = req
<1>1. CASE EditRecompute(r)
  BY <1>1 DEF EditRecompute, Recompute, RecomputeListSegments,
    RecomputeListSpeakers, RecomputeDelete, RecomputeAdd, Return, Goto, Reply,
    editVars, TypeOK
<1>2. CASE EditGetSegment(r) \/ EditLastActor(r) \/ EditPatch(r)
  BY <1>2 DEF EditGetSegment, EditLastActor, EditPatch, Goto, Reply, TypeOK
<1>3. CASE \/ EditAddConflict(r) \/ EditMarkConflict(r) \/ EditGetSpeaker(r)
           \/ EditUpdateSegment(r) \/ EditAddRevision(r) \/ EditFail(r)
  BY <1>3 DEF EditAddConflict, EditMarkConflict, EditGetSpeaker,
    EditUpdateSegment, EditAddRevision, EditFail, Fail, Goto, Reply, editVars,
    TypeOK
<1> QED
  BY <1>1, <1>2, <1>3 DEF EditStep

\* What a request holds is what was read or one version on.
LEMMA RowHeld ==
  ASSUME TypeOK, NatVersions, NEW r \in Request, EditStep(r), row'[r] # None
  PROVE  row'[r].version \in Nat
<1>1. CASE EditGetSegment(r)
  BY <1>1 DEF EditGetSegment, GetSegment, NatVersions, TypeOK, EditRequest
<1>2. CASE EditPatch(r)
  <2>1. row'[r] = Patched(row[r], req[r].edit) /\ row[r] \in Row /\ row[r] # None
    BY <1>2, EditAssumption DEF EditPatch, TypeOK, LocalsOK, Editing, EditPC
  <2> QED
    BY <2>1, PatchedVersion DEF NatVersions
<1>3. CASE ~EditGetSegment(r) /\ ~EditPatch(r)
  <2>1. row' = row
    BY <1>3 DEF EditStep, EditLastActor, EditAddConflict,
      EditMarkConflict, EditGetSpeaker, EditUpdateSegment, EditAddRevision,
      EditRecompute, EditFail, editVars
  <2> QED
    BY <2>1 DEF NatVersions
<1> QED
  BY <1>1, <1>2, <1>3

LEMMA NatVersionsServed ==
  ASSUME TypeOK, NatVersions, NEW r \in Request, EditStep(r)
  PROVE  NatVersions'
<1>1. ASSUME NEW q \in Request, row'[q] # None PROVE row'[q].version \in Nat
  BY <1>1, RowHeld, OthersRest DEF NatVersions
<1>2. /\ \A s \in Segment : segments'[s] # None => segments'[s].version \in Nat
      /\ segments'[Line] # None
  <2>1. CASE UNCHANGED segments
    BY <2>1 DEF NatVersions
  <2>2. CASE /\ pc[r] = "update_segment"
             /\ segments' = [segments EXCEPT ![req[r].seg] = row[r]]
    <3>1. row[r] \in Row /\ row[r] # None
      BY <2>2, EditAssumption DEF TypeOK, LocalsOK, Editing, EditPC
    <3> QED
      BY <2>2, <3>1, SessionAssumption DEF NatVersions, TypeOK, TablesOK
  <2>3. CASE /\ pc[r] = "mark_conflict"
             /\ segments' = [segments EXCEPT ![req[r].seg] =
                              [segments[req[r].seg] EXCEPT !.status = "conflict"]]
    <3> DEFINE s0 == req[r].seg
               marked == [segments[s0] EXCEPT !.status = "conflict"]
    <3>1. segments[s0] \in Row /\ segments[s0] # None /\ s0 \in Segment
      BY <2>3, EditAssumption DEF TypeOK, LocalsOK, Editing, EditPC, EditRequest
    <3>2. marked.version = segments[s0].version /\ marked \in Row /\ marked # None
      BY <3>1, MarkKeepsVersion, EditAssumption DEF Row, SegmentStatus
    <3>3. segments' = [segments EXCEPT ![s0] = marked]
      BY <2>3
    <3> HIDE DEF marked
    <3> QED
      BY <3>1, <3>2, <3>3, SessionAssumption DEF NatVersions, TypeOK, TablesOK
  <2> QED
    BY <2>1, <2>2, <2>3, RowsWritten
<1> QED
  BY <1>1, <1>2 DEF NatVersions

\* The list the server reads is a list.
LEMMA ListRead ==
  ASSUME SessionTypeInv, NEW e \in Editor, SendList(e)
  PROVE  \E l \in List :
           /\ l.version = segments[Line].version
           /\ l.read = Answers(e)
           /\ arriving' = [arriving EXCEPT ![e] = Append(arriving[e], l)]
<1>1. segments[Line].version \in Nat
  BY SessionAssumption DEF SessionTypeInv, NatVersions
<1>2. Answers(e) \in Nat
  <2>1. try[e] \in Nat /\ (page[e] = "wait" => try[e] # 0)
    BY DEF SessionTypeInv, SessionTypeOK, Waiting
  <2> QED
    BY <2>1 DEF Answers
<1> DEFINE l == [version |-> segments[Line].version, read |-> Answers(e)]
<1>3. l \in List
  BY <1>1, <1>2 DEF List
<1>4. arriving' = [arriving EXCEPT ![e] = Append(arriving[e], l)]
  BY DEF SendList, GetSegment
<1> QED
  BY <1>3, <1>4

LEMMA SessionTypeNext ==
  SessionTypeInv /\ [SessionNext]_sessionVars => SessionTypeInv'
<1> SUFFICES ASSUME SessionTypeInv, [SessionNext]_sessionVars
             PROVE  SessionTypeInv'
  OBVIOUS
<1>1. TypeOK /\ TypeOK' /\ NatVersions
  BY NextType, SessionStep DEF SessionTypeInv, SessionTypeOK
<1> DEFINE PageOK ==
             /\ page \in [Editor -> PageState]
             /\ asked \in [Editor -> Nat]
             /\ arriving \in [Editor -> Seq(List)]
             /\ shown \in [Editor -> List \cup {None}]
             /\ try \in [Editor -> Nat]
             /\ sent \in [Request -> List \cup {None}]
           SentOK(r) ==
             /\ sent[r] # None <=> r[2] <= try[r[1]]
             /\ pc[r] # "new" => sent[r] # None
           AllOK == /\ PageOK
                    /\ \A r \in Request : SentOK(r)
                    /\ \A e \in Editor : Waiting(e)
<1>2. AllOK
  BY DEF SessionTypeInv, SessionTypeOK
<1>10. clicks' \in [Editor -> Nat]
  <2>1. clicks \in [Editor -> Nat]
    BY DEF SessionTypeInv, SessionTypeOK
  <2>2. ASSUME NEW e \in Editor, Click(e)
        PROVE  clicks' \in [Editor -> Nat]
    BY <2>1, <2>2 DEF Click
  <2> QED
    BY <2>1, <2>2 DEF SessionNext, Reload, Show, Submit, GiveUp, Answer, Serve,
       SessionQuiet, sessionVars, pageVars
<1>3. SUFFICES NatVersions' /\ AllOK'
  BY <1>1, <1>10 DEF SessionTypeInv, SessionTypeOK
<1>4. ASSUME NEW e \in Editor, Reload(e) \/ Click(e)
      PROVE  NatVersions' /\ AllOK'
  <2>1. PICK l \in List :
          arriving' = [arriving EXCEPT ![e] = Append(arriving[e], l)]
    BY <1>4, ListRead DEF Reload, Click
  <2>2. UNCHANGED <<page, shown, try, sent, segments, row, pc>>
    BY <1>4 DEF Reload, Click, vars, storeVars, editVars, qaVars
  <2>4. asked' \in [Editor -> Nat]
    <3>1. asked[e] > 0 => asked[e] - 1 \in Nat
      BY <1>2
    <3> QED
      BY <1>2, <1>4, <3>1 DEF Reload, Click
  <2>3. arriving' \in [Editor -> Seq(List)]
    BY <1>2, <2>1
  <2> QED
    BY <1>1, <1>2, <2>2, <2>3, <2>4 DEF NatVersions, Waiting
<1>5. ASSUME NEW e \in Editor, Show(e)
      PROVE  NatVersions' /\ AllOK'
  <2>1. PICK i \in DOMAIN arriving[e] :
          /\ shown' = [shown EXCEPT ![e] = arriving[e][i]]
          /\ arriving' = [arriving EXCEPT ![e] = Without(arriving[e], i)]
          /\ UNCHANGED <<page, asked, try, sent, segments, row, pc>>
    BY <1>5 DEF Show, vars, storeVars, editVars, qaVars
  <2>2. arriving[e] \in Seq(List) /\ arriving[e][i] \in List
    BY <1>2
  <2>3. Without(arriving[e], i) \in Seq(List)
    <3> DEFINE a == arriving[e]
    <3>1. a \in Seq(List) /\ i \in DOMAIN a
      BY <2>2
    <3> HIDE DEF a
    <3>2. Without(a, i) \in Seq(List)
      BY <3>1, WithoutType
    <3> QED
      BY <3>2 DEF a
  <2>4. /\ shown' \in [Editor -> List \cup {None}]
        /\ arriving' \in [Editor -> Seq(List)]
    BY <1>2, <2>1, <2>2, <2>3
  <2> QED
    BY <1>1, <1>2, <2>1, <2>4 DEF NatVersions, Waiting
<1>6. ASSUME NEW e \in Editor, Submit(e)
      PROVE  NatVersions' /\ AllOK'
  <2> DEFINE n == try[e] + 1
  <2>1. /\ page' = [page EXCEPT ![e] = "wait"]
        /\ try' = [try EXCEPT ![e] = n]
        /\ sent' = [sent EXCEPT ![<<e, n>>] = shown[e]]
        /\ UNCHANGED <<asked, arriving, shown, segments, row, pc>>
        /\ shown[e] # None /\ try[e] < MaxTries[e]
    BY <1>6 DEF Submit, vars, storeVars, editVars, qaVars
  <2>2. n \in Nat /\ n # 0 /\ <<e, n>> \in Request /\ try[e] \in Nat /\ n = try[e] + 1
    <3>1. try[e] \in Nat /\ MaxTries[e] \in Nat
      BY <1>2, SessionAssumption
    <3>2. n \in 1..MaxTries[e]
      BY <2>1, <3>1
    <3> QED
      BY <3>1, <3>2, RequestPairs
  <2> HIDE DEF n
  <2>3. PageOK'
    BY <1>2, <2>1, <2>2 DEF PageState
  <2>4. ASSUME NEW r \in Request PROVE SentOK(r)'
    <3>1. r[1] \in Editor /\ r = <<r[1], r[2]>> /\ r[2] \in Int
      BY RequestPairs, SessionAssumption
    <3>2. CASE r = <<e, n>>
      <4>1. r[1] = e /\ r[2] = n
        BY <3>2
      <4>2. try'[e] = n /\ sent'[r] # None
        BY <1>2, <2>1, <2>2, <3>2
      <4> QED
        BY <2>2, <4>1, <4>2
    <3>3. CASE r # <<e, n>>
      <4>1. sent'[r] = sent[r] /\ pc'[r] = pc[r]
        BY <1>2, <2>1, <3>3
      <4>2. r[2] <= try'[r[1]] <=> r[2] <= try[r[1]]
        <5>1. CASE r[1] = e
          <6>1. r[2] # n /\ try'[r[1]] = n
            BY <1>2, <2>1, <3>1, <3>3, <5>1
          <6> QED
            BY <2>2, <3>1, <5>1, <6>1
        <5>2. CASE r[1] # e
          BY <1>2, <2>1, <3>1, <5>2
        <5> QED
          BY <5>1, <5>2
      <4> QED
        BY <1>2, <4>1, <4>2
    <3> QED
      BY <3>2, <3>3
  <2>5. ASSUME NEW d \in Editor PROVE Waiting(d)'
    BY <1>2, <2>1, <2>2 DEF Waiting
  <2> QED
    BY <1>1, <2>1, <2>3, <2>4, <2>5 DEF NatVersions
<1>7. ASSUME NEW e \in Editor, GiveUp(e) \/ Answer(e)
      PROVE  NatVersions' /\ AllOK'
  <2>1. /\ page' \in {[page EXCEPT ![e] = "gave_up"], [page EXCEPT ![e] = "look"],
                      [page EXCEPT ![e] = "satisfied"],
                      [page EXCEPT ![e] = "refused"]}
        /\ UNCHANGED <<arriving, try, shown, sent, segments, row, pc>>
    BY <1>7 DEF GiveUp, Answer, AfterAnswer, vars, storeVars, editVars, qaVars
  <2>2. asked' \in [Editor -> Nat]
    BY <1>2, <1>7 DEF GiveUp, Answer
  <2>3. PageOK'
    BY <1>2, <2>1, <2>2 DEF PageState
  <2>4. ASSUME NEW d \in Editor PROVE Waiting(d)'
    BY <1>2, <2>1 DEF Waiting
  <2> QED
    BY <1>1, <1>2, <2>1, <2>3, <2>4 DEF NatVersions
<1>8. ASSUME NEW r \in Request, Serve(r)
      PROVE  NatVersions' /\ AllOK'
  <2>1. /\ page[r[1]] = "wait" /\ r[2] = try[r[1]]
        /\ EditStep(r)
        /\ UNCHANGED <<page, asked, arriving, shown, try, sent>>
    BY <1>8 DEF Serve, pageVars
  <2>2. \A q \in Request : pc'[q] # "new" => pc[q] # "new" \/ q = r
    BY <1>1, <2>1, OthersRest
  <2>3. sent[r] # None
    <3>1. r[2] <= try[r[1]]
      BY <2>1, RequestPairs, SessionAssumption
    <3> QED
      BY <1>2, <3>1
  <2>4. ASSUME NEW q \in Request PROVE SentOK(q)'
    BY <1>2, <2>1, <2>2, <2>3
  <2>5. \A d \in Editor : Waiting(d)'
    BY <1>2, <2>1 DEF Waiting
  <2> QED
    BY <1>1, <1>2, <2>1, <2>4, <2>5, NatVersionsServed
<1>9. CASE UNCHANGED sessionVars
  BY <1>1, <1>2, <1>9 DEF sessionVars, pageVars, vars, storeVars, qaVars, editVars,
     NatVersions, Waiting
<1> QED
  BY <1>4, <1>5, <1>6, <1>7, <1>8, <1>9 DEF SessionNext, SessionQuiet

LEMMA SessionTypeHolds == SessionSpec => []SessionTypeInv
<1> QED
  BY SessionTypeInit, SessionTypeNext, PTL DEF SessionSpec

\* However often editors load and however answers overtake one another, an
\* editor submits only from a list that was shown, and only what was submitted
\* is ever served.
THEOREM SessionTypeCorrect == SessionSpec => []SessionTypeOK
<1>1. SessionTypeInv => SessionTypeOK
  BY DEF SessionTypeInv
<1> QED
  BY <1>1, SessionTypeHolds, PTL
-----------------------------------------------------------------------------
(***************************************************************************)
(* A refusal is never spurious, when store calls do not fail.  What makes  *)
(* it inductive: of every list an editor may still submit from, the        *)
(* version is the stored one, or else the stored row is what an accepted   *)
(* edit made of it - somebody else's, if the list was read after all of    *)
(* the editor's answers and nothing of the editor's has been served since. *)
(***************************************************************************)

Overtaken(s, A, version) ==
  \E v \in Accepted : v.seg = s /\ v.actor \notin A /\ v.after.version = version

Current(A, version) ==
  \/ segments[Line].version = version
  \/ \E v \in Accepted : Explains(v, Line, segments[Line]) /\ v.actor \notin A

\* The lists an editor submits from, now or later.
InSight(e) ==
  ({arriving[e][i] : i \in DOMAIN arriving[e]} \cup {shown[e]}
     \cup (IF page[e] = "wait" THEN {sent[<<e, try[e]>>]} ELSE {})) \ {None}

Unserved(e) == page[e] = "wait" => pc[<<e, try[e]>>] = "new"

Seen(e, l) ==
  /\ l.read <= Answers(e)
  /\ Current({}, l.version)
  /\ Unserved(e) /\ l.read = Answers(e) => Current({e}, l.version)

\* Whose edits a refusal of r cannot be put down to.
Blamed(r) == IF Informed(r) THEN {r[1]} ELSE {}

HeldRefusal(r) ==
  /\ pc[r] = "last_actor" => Overtaken(req[r].seg, Blamed(r), row[r].version)
  /\ pc[r] \in {"add_conflict", "mark_conflict"} =>
       /\ conf[r].id = r
       /\ conf[r].actorB = r[1]
       /\ Overtaken(conf[r].seg, Blamed(r), conf[r].base)
  /\ pc[r] \in {"get_speaker", "update_segment"} => rev[r].actor = r[1]

RecordedRefusal(c) ==
  /\ pc[c.id] # "new"
  /\ c.actorB = c.id[1]
  /\ Overtaken(c.seg, Blamed(c.id), c.base)

OvertakenInv ==
  /\ \A e \in Editor : \A l \in InSight(e) : Seen(e, l)
  /\ \A r \in Request : HeldRefusal(r)
  /\ \A c \in conflicts : RecordedRefusal(c)

LEMMA OvertakenInit == SessionInit => OvertakenInv
<1> SUFFICES ASSUME SessionInit PROVE OvertakenInv
  OBVIOUS
<1>1. \A e \in Editor : InSight(e) = {}
  BY DEF SessionInit, InSight
<1>2. \A r \in Request : HeldRefusal(r)
  BY DEF SessionInit, EditInit, QualityInit, HeldRefusal
<1> QED
  BY <1>1, <1>2 DEF SessionInit, EditInit, OvertakenInv

LEMMA RefusedFromInv ==
  ASSUME OvertakenInv
  PROVE  RefusedOnlyWhenOvertaken
<1> SUFFICES ASSUME NEW c \in conflicts
             PROVE  \E v \in Accepted :
                      Overtakes(v, c) /\ (Informed(c.id) => v.actor # c.actorB)
  BY DEF RefusedOnlyWhenOvertaken
<1>1. PICK v \in Accepted : /\ v.seg = c.seg /\ v.after.version = c.base
                            /\ v.actor \notin Blamed(c.id)
                            /\ c.actorB = c.id[1]
  BY DEF OvertakenInv, RecordedRefusal, Overtaken
<1> QED
  BY <1>1 DEF Blamed, Overtakes

\* "Overtaken" and "Current" of the next state, for what is known in this one.
StillOvertaken(s, A, version) ==
  \E v \in Accepted' : v.seg = s /\ v.actor \notin A /\ v.after.version = version

StillCurrent(A, version) ==
  \/ segments'[Line].version = version
  \/ \E v \in Accepted' : Explains(v, Line, segments'[Line]) /\ v.actor \notin A

\* What is current stays current while the row keeps its content.
LEMMA CurrentStays ==
  ASSUME NEW A, NEW version, Current(A, version), Accepted \subseteq Accepted',
         Content(segments'[Line]) = Content(segments[Line])
  PROVE  StillCurrent(A, version)
<1>1. segments'[Line].version = segments[Line].version
  BY ContentVersion
<1> QED
  BY <1>1 DEF Current, StillCurrent, Explains

\* What there is to show of a list that is seen.
LEMMA SeenNext ==
  ASSUME NEW e, NEW l,
         l.read <= Answers(e)',
         StillCurrent({}, l.version),
         Unserved(e)' /\ l.read = Answers(e)' => StillCurrent({e}, l.version)
  PROVE  Seen(e, l)'
BY DEF Seen, Current, StillCurrent

\* A request that has been taken up, and its record, keep what refused it as
\* long as what it was sent from stays and accepted edits stay accepted.
LEMMA RefusalStays ==
  ASSUME NEW r, HeldRefusal(r), Accepted \subseteq Accepted',
         pc'[r] = pc[r], req'[r] = req[r], row'[r] = row[r], rev'[r] = rev[r],
         conf'[r] = conf[r], pc[r] # "new" => sent'[r] = sent[r]
  PROVE  HeldRefusal(r)'
<1>1. pc[r] # "new" => Blamed(r)' = Blamed(r)
  BY DEF Blamed, Informed
<1> QED
  BY <1>1 DEF HeldRefusal, Overtaken

LEMMA RecordStays ==
  ASSUME NEW c, RecordedRefusal(c), Accepted \subseteq Accepted',
         pc'[c.id] # "new", sent'[c.id] = sent[c.id]
  PROVE  RecordedRefusal(c)'
<1>1. Blamed(c.id)' = Blamed(c.id)
  BY DEF Blamed, Informed
<1> QED
  BY <1>1 DEF RecordedRefusal, Overtaken

\* Every list in sight is a list.
LEMMA InSightType ==
  ASSUME SessionTypeInv, NEW e \in Editor
  PROVE  InSight(e) \subseteq List
<1>1. /\ arriving[e] \in Seq(List) /\ shown[e] \in List \cup {None}
      /\ page[e] = "wait" => sent[<<e, try[e]>>] \in List \cup {None}
  BY DEF SessionTypeInv, SessionTypeOK, Waiting
<1>2. \A i \in DOMAIN arriving[e] : arriving[e][i] \in List
  BY <1>1
<1> QED
  BY <1>1, <1>2 DEF InSight

\* With calls that do not fail, an accepted edit stays accepted.
LEMMA AcceptedGrow ==
  ASSUME Faults = FALSE, TypeOK, NEW r \in Request, EditStep(r)
  PROVE  /\ Accepted \subseteq Accepted'
         /\ pc[r] = "update_segment" => rev[r] \in Accepted'
<1>1. \A q \in Request \ {r} : pc'[q] = pc[q] /\ rev'[q] = rev[q]
  BY OthersRest
<1>2. CASE EditAddRevision(r)
  <2>1. /\ revisions' = revisions \cup {rev[r]}
        /\ pc[r] = "add_revision"
    BY <1>2 DEF EditAddRevision, AddRevision
  <2> QED
    BY <1>1, <2>1 DEF Accepted
<1>3. CASE EditUpdateSegment(r)
  <2>1. /\ UNCHANGED <<revisions, rev>>
        /\ pc' = [pc EXCEPT ![r] = "add_revision"]
        /\ pc[r] = "update_segment"
    BY <1>3 DEF EditUpdateSegment, UpdateSegment, Goto, editVars
  <2> QED
    BY <1>1, <2>1 DEF Accepted, TypeOK
<1>4. CASE ~EditAddRevision(r) /\ ~EditUpdateSegment(r)
  <2>1. ~EditFail(r)
    BY DEF EditFail, Fail
  <2>2. pc[r] \notin {"add_revision", "update_segment"} /\ UNCHANGED revisions
    BY <1>4, <2>1 DEF EditStep, EditGetSegment, EditLastActor, EditAddConflict,
      EditMarkConflict, EditPatch, EditGetSpeaker, EditRecompute,
      AddConflict, UpdateSegmentStatus, Recompute, RecomputeListSegments,
      RecomputeListSpeakers, RecomputeDelete, RecomputeAdd,
      DeleteQualityForMedia, AddQuality, storeVars
  <2> QED
    BY <1>1, <2>2 DEF Accepted
<1> QED
  BY <1>2, <1>3, <1>4

\* The row keeps its content but for the call that writes it.
LEMMA ContentKept ==
  ASSUME TypeOK, NatVersions, NEW r \in Request, EditStep(r),
         pc[r] # "update_segment"
  PROVE  Content(segments'[Line]) = Content(segments[Line])
<1>1. CASE UNCHANGED segments
  BY <1>1
<1>2. CASE /\ pc[r] = "mark_conflict"
           /\ segments' = [segments EXCEPT ![req[r].seg] =
                             [segments[req[r].seg] EXCEPT !.status = "conflict"]]
  <2> DEFINE s0 == req[r].seg
             marked == [segments[s0] EXCEPT !.status = "conflict"]
  <2>1. segments[s0] \in Row
    BY <1>2 DEF TypeOK, LocalsOK, Editing, EditPC
  <2>2. Content(marked) = Content(segments[s0])
    BY <2>1, MarkKeepsContent
  <2>3. segments' = [segments EXCEPT ![s0] = marked]
    BY <1>2
  <2> HIDE DEF marked
  <2> QED
    BY <2>2, <2>3, SessionAssumption DEF TypeOK, TablesOK
<1> QED
  BY <1>1, <1>2, RowsWritten

\* The page does nothing to the tables, and nothing that comes in sight by it is
\* older than what was, but what the server has just read.
LEMMA PageOvertaken ==
  ASSUME SessionTypeInv, OvertakenInv, NEW e \in Editor,
         \/ Reload(e) \/ Click(e) \/ Show(e) \/ Submit(e) \/ GiveUp(e)
         \/ Answer(e)
  PROVE  OvertakenInv'
<1>1. UNCHANGED <<segments, revisions, conflicts, req, row, rev, conf, pc>>
  BY DEF Reload, Click, Show, Submit, GiveUp, Answer, vars, storeVars, editVars,
     qaVars
<1>2. Accepted' = Accepted
  BY <1>1 DEF Accepted
<1>3. /\ arriving \in [Editor -> Seq(List)] /\ page \in [Editor -> PageState]
      /\ shown \in [Editor -> List \cup {None}] /\ try \in [Editor -> Nat]
      /\ sent \in [Request -> List \cup {None}]
      /\ conflicts \subseteq Conflict
  BY DEF SessionTypeInv, SessionTypeOK, TypeOK, TablesOK
\* What a request that has been taken up was sent from stays.
<1>4. ASSUME NEW r \in Request, pc[r] # "new" PROVE sent'[r] = sent[r]
  <2>1. CASE Submit(e)
    <3>1. sent' = [sent EXCEPT ![<<e, try[e] + 1>>] = shown[e]]
      BY <2>1 DEF Submit
    <3>2. r[2] <= try[r[1]]
      BY <1>4 DEF SessionTypeInv, SessionTypeOK
    <3>3. r # <<e, try[e] + 1>>
      <4>1. SUFFICES ASSUME r = <<e, try[e] + 1>> PROVE FALSE
        OBVIOUS
      <4>2. r[1] = e /\ r[2] = try[e] + 1
        BY <4>1
      <4> QED
        BY <1>3, <3>2, <4>2
    <3> QED
      BY <1>3, <3>1, <3>3
  <2>2. CASE ~Submit(e)
    BY <2>2 DEF Reload, Click, Show, GiveUp, Answer
  <2> QED
    BY <2>1, <2>2
<1>5. \A r \in Request : HeldRefusal(r)'
  BY <1>1, <1>2, <1>4, RefusalStays DEF OvertakenInv
<1>6. ASSUME NEW c \in conflicts' PROVE RecordedRefusal(c)'
  <2>1. c \in conflicts /\ c.id \in Request
    BY <1>1, <1>3 DEF Conflict
  <2>2. RecordedRefusal(c) /\ pc[c.id] # "new"
    BY <2>1 DEF OvertakenInv, RecordedRefusal
  <2> QED
    BY <1>1, <1>2, <1>4, <2>1, <2>2, RecordStays
<1>7. ASSUME NEW A, NEW version, Current(A, version)
      PROVE  StillCurrent(A, version)
  BY <1>1, <1>2, <1>7, CurrentStays
\* A list that was in sight is seen as before, unless a submission of the
\* editor is answered: then it is an old one.
<1>8. ASSUME NEW d \in Editor, NEW l \in InSight(d),
             Answers(d)' = Answers(d), Unserved(d)' => Unserved(d)
      PROVE  Seen(d, l)'
  BY <1>7, <1>8, SeenNext DEF OvertakenInv, Seen
<1>9. ASSUME NEW d \in Editor, d # e, NEW l \in InSight(d)'
      PROVE  Seen(d, l)'
  <2>1. /\ arriving'[d] = arriving[d] /\ page'[d] = page[d]
        /\ shown'[d] = shown[d] /\ try'[d] = try[d]
    BY <1>3, <1>9
    DEF Reload, Click, Show, Submit, GiveUp, Answer, SendList
  <2>2. page[d] = "wait" => sent'[<<d, try[d]>>] = sent[<<d, try[d]>>]
    <3>1. <<d, try[d]>> # <<e, try[e] + 1>>
      BY <1>9
    <3> QED
      BY <1>3, <3>1 DEF Reload, Click, Show, Submit, GiveUp, Answer,
         SessionTypeInv, Waiting
  <2>3. l \in InSight(d) /\ Answers(d)' = Answers(d) /\ Unserved(d)' = Unserved(d)
    BY <1>1, <1>9, <2>1, <2>2 DEF InSight, Answers, Unserved
  <2> QED
    BY <1>8, <2>3
<1>10. ASSUME NEW l \in InSight(e)' PROVE Seen(e, l)'
  <2>1. CASE Reload(e) \/ Click(e)
    <3>1. PICK x \in List :
            /\ x.version = segments[Line].version /\ x.read = Answers(e)
            /\ arriving' = [arriving EXCEPT ![e] = Append(arriving[e], x)]
      BY <2>1, ListRead DEF Reload, Click
    <3>2. UNCHANGED <<page, shown, try, sent>>
      BY <2>1 DEF Reload, Click
    <3>3. Answers(e)' = Answers(e) /\ Unserved(e)' = Unserved(e)
      BY <1>1, <3>2 DEF Answers, Unserved
    <3>4. CASE l = x
      <4>1. StillCurrent({}, l.version) /\ StillCurrent({e}, l.version)
        BY <1>1, <3>1, <3>4 DEF StillCurrent
      <4>2. l.read <= Answers(e)'
        BY <3>1, <3>3, <3>4 DEF List
      <4> QED
        BY <4>1, <4>2, SeenNext
    <3>5. CASE l # x
      <4>1. ASSUME NEW i \in DOMAIN arriving'[e], l = arriving'[e][i]
            PROVE  l \in {arriving[e][j] : j \in DOMAIN arriving[e]}
        <5> DEFINE a == arriving[e]
        <5>1. a \in Seq(List) /\ arriving'[e] = Append(a, x)
          BY <1>3, <3>1
        <5>2. i \in DOMAIN Append(a, x) /\ l = Append(a, x)[i]
          BY <4>1, <5>1
        <5> HIDE DEF a
        <5>3. i \in DOMAIN a /\ l = a[i]
          BY <3>5, <5>1, <5>2, AppendProperties
        <5> QED
          BY <5>3 DEF a
      <4>2. l \in InSight(e)
        BY <1>10, <3>2, <4>1 DEF InSight
      <4> QED
        BY <1>8, <3>3, <4>2
    <3> QED
      BY <3>4, <3>5
  <2>2. CASE Show(e)
    <3>1. PICK i \in DOMAIN arriving[e] :
            /\ shown'[e] = arriving[e][i]
            /\ arriving'[e] = Without(arriving[e], i)
            /\ UNCHANGED <<page, try, sent>>
      BY <1>3, <2>2 DEF Show
    <3>2. Answers(e)' = Answers(e) /\ Unserved(e)' = Unserved(e)
      BY <1>1, <3>1 DEF Answers, Unserved
    <3>3. \A j \in DOMAIN arriving'[e] :
            \E k \in DOMAIN arriving[e] : arriving'[e][j] = arriving[e][k]
      <4> DEFINE a == arriving[e]
      <4>1. a \in Seq(List) /\ i \in DOMAIN a
        BY <1>3
      <4> HIDE DEF a
      <4>2. \A j \in DOMAIN Without(a, i) :
              \E k \in DOMAIN a : Without(a, i)[j] = a[k]
        BY <4>1, WithoutType
      <4> QED
        BY <3>1, <4>2 DEF a
    <3>4. l \in InSight(e)
      BY <1>10, <3>1, <3>3 DEF InSight
    <3> QED
      BY <1>8, <3>2, <3>4
  <2>3. CASE Submit(e)
    <3> DEFINE n == try[e] + 1
    <3>1. /\ page[e] = "look" /\ page'[e] = "wait" /\ try'[e] = n
          /\ sent' = [sent EXCEPT ![<<e, n>>] = shown[e]]
          /\ UNCHANGED <<arriving, shown>>
          /\ try[e] < MaxTries[e]
      BY <1>3, <2>3 DEF Submit
    <3>2. <<e, n>> \in Request /\ try[e] \in Nat /\ n - 1 = try[e]
      <4>1. n \in 1..MaxTries[e] /\ try[e] \in Nat /\ n - 1 = try[e]
        BY <1>3, <3>1, SessionAssumption
      <4> QED
        BY <4>1, RequestPairs
    <3> HIDE DEF n
    <3>3. sent'[<<e, n>>] = shown[e]
      BY <1>3, <3>1, <3>2
    <3>4. Answers(e)' = Answers(e) /\ Unserved(e)
      BY <3>1, <3>2 DEF Answers, Unserved
    <3>5. l \in InSight(e)
      BY <1>10, <3>1, <3>3 DEF InSight
    <3> QED
      BY <1>8, <3>4, <3>5
  <2>4. CASE GiveUp(e)
    <3>1. page[e] # "wait" /\ page'[e] # "wait" /\ UNCHANGED <<arriving, shown, try, sent>>
      BY <1>3, <2>4 DEF GiveUp
    <3>2. Answers(e)' = Answers(e) /\ Unserved(e) /\ l \in InSight(e)
      BY <1>10, <3>1 DEF Answers, Unserved, InSight
    <3> QED
      BY <1>8, <3>2
  <2>5. CASE Answer(e)
    <3>1. /\ page[e] = "wait" /\ page'[e] # "wait"
          /\ UNCHANGED <<arriving, shown, try, sent>>
      BY <1>3, <2>5 DEF Answer, AfterAnswer
    <3>2. l \in InSight(e) /\ Answers(e) = try[e] - 1 /\ Answers(e)' = try[e]
      BY <1>10, <3>1 DEF InSight, Answers
    <3>3. l.read \in Nat /\ l.read <= try[e] - 1 /\ try[e] \in Nat
      BY <1>3, <3>2, InSightType DEF OvertakenInv, Seen, List
    <3>4. l.read <= try[e] /\ l.read # try[e]
      BY <3>3
    <3>5. StillCurrent({}, l.version)
      BY <1>7, <3>2 DEF OvertakenInv, Seen
    <3> QED
      BY <3>2, <3>4, <3>5, SeenNext
  <2> QED
    BY <2>1, <2>2, <2>3, <2>4, <2>5
<1> QED
  BY <1>5, <1>6, <1>9, <1>10 DEF OvertakenInv

\* The server serves a request of a page that waits for it: an edit that is
\* accepted may leave lists of its own editor behind, of an earlier answer.
LEMMA ServeOvertaken ==
  ASSUME Faults = FALSE, SessionTypeInv, AuditInv, OvertakenInv,
         NEW r \in Request, Serve(r)
  PROVE  OvertakenInv'
<1> DEFINE e == r[1]
<1>1. /\ TypeOK /\ NatVersions /\ TypeOK'
      /\ EditStep(r)
      /\ e \in Editor
      /\ r = <<e, try[e]>>
      /\ page[e] = "wait"
      /\ req'[r].seg = Line /\ req'[r].actor = e /\ req'[r].base = sent[r].version
      /\ UNCHANGED <<page, arriving, shown, try, sent>>
      /\ conflicts \subseteq Conflict /\ conf'[r] \in Conflict \cup {None}
  <2>1. /\ TypeOK /\ NatVersions /\ EditStep(r)
        /\ page[e] = "wait" /\ r[2] = try[e]
        /\ req'[r].seg = Line /\ req'[r].actor = e /\ req'[r].base = sent[r].version
        /\ UNCHANGED <<page, arriving, shown, try, sent>>
    BY DEF Serve, SessionTypeInv, SessionTypeOK, pageVars
  <2>2. e \in Editor /\ r = <<e, r[2]>>
    BY RequestPairs
  <2>3. TypeOK'
    BY <2>1, NextType DEF Next
  <2> QED
    BY <2>1, <2>2, <2>3 DEF TypeOK, TablesOK
<1> HIDE DEF e
<1>2. /\ \A q \in Request \ {r} : /\ pc'[q] = pc[q]
                                  /\ req'[q] = req[q]
                                  /\ row'[q] = row[q]
                                  /\ rev'[q] = rev[q]
                                  /\ conf'[q] = conf[q]
      /\ pc'[r] # "new"
      /\ pc[r] # "new" => req' = req
  BY <1>1, OthersRest
<1>3. Accepted \subseteq Accepted'
  BY <1>1, AcceptedGrow
<1>4. \A q \in Request \ {r} : HeldRefusal(q)'
  BY <1>1, <1>2, <1>3, RefusalStays DEF OvertakenInv
\* Whoever blames only others than the editor served has still seen what is
\* current.
<1>5. ASSUME NEW A, e \notin A, NEW version, Current(A, version)
      PROVE  StillCurrent(A, version)
  <2>1. CASE pc[r] = "update_segment"
    <3>1. rev[r] \in Accepted' /\ rev[r].seg = Line /\ rev[r].after = row[r]
      BY <1>1, <1>2, <2>1, AcceptedGrow DEF AuditInv, HeldAudit
    <3>2. rev[r].actor = e
      BY <2>1 DEF OvertakenInv, HeldRefusal, e
    <3>3. segments'[Line] = row[r]
      <4>1. segments' = [segments EXCEPT ![req[r].seg] = row[r]]
        BY <1>1, <2>1 DEF EditStep, EditGetSegment, EditLastActor, EditAddConflict,
          EditMarkConflict, EditPatch, EditGetSpeaker, EditUpdateSegment,
          EditAddRevision, EditRecompute, Recompute, RecomputeListSegments,
          RecomputeListSpeakers, RecomputeDelete, RecomputeAdd, EditFail, Fail,
          UpdateSegment
      <4>2. req[r].seg = Line
        BY <1>1, <1>2, <2>1
      <4> QED
        BY <4>1, <4>2, <1>1, SessionAssumption DEF TypeOK, TablesOK
    <3> QED
      BY <1>5, <3>1, <3>2, <3>3 DEF StillCurrent, Explains
  <2>2. CASE pc[r] # "update_segment"
    BY <1>1, <1>3, <1>5, <2>2, ContentKept, CurrentStays
  <2> QED
    BY <2>1, <2>2
<1>6. ASSUME NEW d \in Editor, NEW l \in InSight(d)' PROVE Seen(d, l)'
  <2>1. /\ l \in InSight(d) /\ Answers(d)' = Answers(d)
        /\ Seen(d, l) /\ StillCurrent({}, l.version)
    <3>1. l \in InSight(d) /\ Answers(d)' = Answers(d)
      BY <1>1, <1>6 DEF InSight, Answers
    <3>2. Seen(d, l)
      BY <3>1 DEF OvertakenInv
    <3>3. Current({}, l.version) /\ e \notin {}
      BY <3>2 DEF Seen
    <3> QED
      BY <1>5, <3>1, <3>2, <3>3
  <2>2. CASE d = e
    <3>1. ~Unserved(d)'
      BY <1>1, <1>2, <2>2 DEF Unserved
    <3>2. l.read <= Answers(d)'
      BY <2>1 DEF Seen
    <3> QED
      BY <2>1, <3>1, <3>2, SeenNext
  <2>3. CASE d # e
    <3>1. Unserved(d)' => Unserved(d)
      <4>1. <<d, try[d]>> # r
        BY <1>1, <2>3
      <4> QED
        BY <1>1, <1>2, <4>1 DEF Unserved, SessionTypeInv, Waiting
    <3>2. l.read <= Answers(d)'
      BY <2>1 DEF Seen
    <3>3. Unserved(d)' /\ l.read = Answers(d)' => StillCurrent({d}, l.version)
      BY <1>5, <2>1, <2>3, <3>1 DEF Seen
    <3> QED
      BY <2>1, <3>2, <3>3, SeenNext
  <2> QED
    BY <2>2, <2>3
\* What is on record stays.
<1>7. ASSUME NEW c \in conflicts PROVE RecordedRefusal(c)'
  <2>1. c.id \in Request /\ RecordedRefusal(c)
    BY <1>1 DEF Conflict, OvertakenInv
  <2>2. pc'[c.id] # "new" /\ sent'[c.id] = sent[c.id]
    BY <1>1, <1>2, <2>1 DEF RecordedRefusal
  <2> QED
    BY <1>3, <2>1, <2>2, RecordStays
<1>8. Blamed(r)' = Blamed(r) /\ Blamed(r) \in {{}, {e}}
  BY <1>1 DEF Blamed, Informed, e
<1>9. HeldRefusal(r)' /\ \A c \in conflicts' : RecordedRefusal(c)'
  <2>1. CASE EditGetSegment(r)
    <3>1. /\ pc[r] = "new" /\ UNCHANGED conflicts
          /\ pc'[r] \in {"done", "last_actor", "patch"}
          /\ pc'[r] = "last_actor" =>
               /\ row'[r] = segments[Line]
               /\ segments[Line].version # sent[r].version
      BY <1>1, <2>1 DEF EditGetSegment, GetSegment, Stale, Goto, Reply, TypeOK,
         storeVars
    <3>2. Current(Blamed(r), sent[r].version)
      <4>1. sent[r] \in InSight(e)
        <5>1. sent[r] # None
          <6>1. r[2] = try[r[1]] /\ try[r[1]] \in Nat
            BY <1>1 DEF SessionTypeInv, SessionTypeOK, e
          <6> QED
            BY <6>1 DEF SessionTypeInv, SessionTypeOK
        <5> QED
          BY <1>1, <5>1 DEF InSight
      <4>2. Seen(e, sent[r]) /\ Unserved(e)
        BY <1>1, <3>1, <4>1 DEF OvertakenInv, Unserved
      <4>3. Informed(r) => sent[r].read = Answers(e)
        <5>1. r[2] = try[e]
          BY <1>1
        <5> QED
          BY <1>1, <5>1 DEF Informed, Answers
      <4> QED
        BY <4>2, <4>3 DEF Seen, Blamed, e
    <3>3. pc'[r] = "last_actor" =>
            \E v \in Accepted' : /\ v.seg = Line /\ v.actor \notin Blamed(r)
                                 /\ v.after.version = row'[r].version
      BY <1>3, <3>1, <3>2, ContentVersion DEF Current, Explains
    <3>4. HeldRefusal(r)'
      BY <1>1, <1>8, <3>1, <3>3 DEF HeldRefusal, Overtaken
    <3> QED
      BY <1>7, <3>1, <3>4
  <2>2. CASE EditLastActor(r)
    <3>1. /\ pc[r] = "last_actor" /\ pc'[r] = "add_conflict" /\ UNCHANGED conflicts
          /\ conf'[r].id = r
          /\ conf'[r].seg = req[r].seg /\ conf'[r].actorB = req[r].actor
          /\ conf'[r].base = row[r].version
      BY <1>1, <2>2 DEF EditLastActor, Goto, TypeOK, storeVars
    <3>2. req[r].actor = r[1]
      BY <1>1, <1>2, <3>1 DEF e
    <3>3. Overtaken(req[r].seg, Blamed(r), row[r].version)
      BY <3>1 DEF OvertakenInv, HeldRefusal
    <3>4. HeldRefusal(r)'
      BY <1>3, <1>8, <3>1, <3>2, <3>3 DEF HeldRefusal, Overtaken
    <3> QED
      BY <1>7, <3>1, <3>4
  <2>3. CASE EditAddConflict(r)
    <3>1. /\ pc[r] = "add_conflict" /\ pc'[r] = "mark_conflict"
          /\ conflicts' = conflicts \cup {conf[r]} /\ UNCHANGED conf
      BY <1>1, <2>3 DEF EditAddConflict, AddConflict, Goto, TypeOK, editVars
    <3>2. /\ conf[r].id = r /\ conf[r].actorB = r[1]
          /\ Overtaken(conf[r].seg, Blamed(r), conf[r].base)
      BY <3>1 DEF OvertakenInv, HeldRefusal
    <3>3. HeldRefusal(r)'
      BY <1>3, <1>8, <3>1, <3>2 DEF HeldRefusal, Overtaken
    <3>4. ASSUME NEW c \in conflicts', c \notin conflicts PROVE RecordedRefusal(c)'
      <4>1. c = conf[r] /\ c.id = r
        BY <3>1, <3>2, <3>4
      <4> QED
        BY <1>2, <1>3, <1>8, <3>2, <4>1 DEF RecordedRefusal, Overtaken
    <3> QED
      BY <1>7, <3>3, <3>4
  <2>4. CASE EditPatch(r)
    <3>1. /\ pc[r] = "patch" /\ pc'[r] \in {"done", "get_speaker", "update_segment"}
          /\ UNCHANGED conflicts
          /\ rev'[r].actor = req[r].actor
      BY <1>1, <2>4 DEF EditPatch, Audit, Goto, Reply, TypeOK, storeVars
    <3>2. HeldRefusal(r)'
      BY <1>1, <1>2, <3>1 DEF HeldRefusal, e
    <3> QED
      BY <1>7, <3>1, <3>2
  <2>5. CASE \/ EditMarkConflict(r) \/ EditUpdateSegment(r) \/ EditAddRevision(r)
             \/ EditRecompute(r) \/ EditFail(r)
    <3>1. /\ UNCHANGED conflicts
          /\ pc'[r] \in QualityPC \cup {"add_revision", "done"}
      <4>1. TypeOK
        BY <1>1
      <4> QED
        BY <2>5, <4>1 DEF EditMarkConflict, EditUpdateSegment, EditAddRevision,
          EditRecompute, EditFail, Fail, UpdateSegmentStatus, UpdateSegment,
          AddRevision, Recompute, RecomputeListSegments, RecomputeListSpeakers,
          RecomputeDelete, RecomputeAdd, DeleteQualityForMedia, AddQuality,
          Return, Goto, Reply, TypeOK, storeVars, QualityPC
    <3>2. HeldRefusal(r)'
      BY <3>1 DEF HeldRefusal, QualityPC
    <3> QED
      BY <1>7, <3>1, <3>2
  <2>6. CASE EditGetSpeaker(r)
    <3>1. /\ UNCHANGED <<conflicts, rev>> /\ pc[r] = "get_speaker"
          /\ pc'[r] \in {"done", "update_segment"}
      BY <1>1, <2>6 DEF EditGetSpeaker, Goto, Reply, TypeOK, storeVars, editVars
    <3>2. HeldRefusal(r)'
      BY <3>1 DEF HeldRefusal, OvertakenInv
    <3> QED
      BY <1>7, <3>1, <3>2
  <2> QED
    BY <1>1, <2>1, <2>2, <2>3, <2>4, <2>5, <2>6 DEF EditStep
<1> QED
  BY <1>4, <1>6, <1>9 DEF OvertakenInv

LEMMA OvertakenNext ==
  ASSUME Faults = FALSE
  PROVE  SessionTypeInv /\ AuditInv /\ OvertakenInv /\ [SessionNext]_sessionVars
           => OvertakenInv'
<1> SUFFICES ASSUME SessionTypeInv, AuditInv, OvertakenInv,
                    [SessionNext]_sessionVars
             PROVE  OvertakenInv'
  OBVIOUS
<1>1. CASE UNCHANGED sessionVars
  <2>1. /\ UNCHANGED <<segments, revisions, conflicts, pc, req, row, rev, conf>>
        /\ UNCHANGED <<page, arriving, shown, try, sent>>
    BY <1>1 DEF sessionVars, pageVars, vars, storeVars, qaVars, editVars
  <2>2. Accepted' = Accepted
    BY <2>1 DEF Accepted
  <2>3. \A r \in Request : HeldRefusal(r)'
    BY <2>1, <2>2, RefusalStays DEF OvertakenInv
  <2>4. \A c \in conflicts' : RecordedRefusal(c)'
    BY <2>1, <2>2, RecordStays DEF OvertakenInv, RecordedRefusal
  <2>5. ASSUME NEW e \in Editor, NEW l \in InSight(e)' PROVE Seen(e, l)'
    <3>1. /\ l \in InSight(e) /\ Answers(e)' = Answers(e)
          /\ Unserved(e)' = Unserved(e)
      BY <2>1, <2>5 DEF InSight, Answers, Unserved
    <3>2. Seen(e, l)
      BY <3>1 DEF OvertakenInv
    <3> QED
      BY <2>1, <2>2, <3>1, <3>2, CurrentStays, SeenNext DEF Seen
  <2> QED
    BY <2>3, <2>4, <2>5 DEF OvertakenInv
<1> QED
  BY <1>1, PageOvertaken, ServeOvertaken DEF SessionNext, SessionQuiet

\* As long as store calls do not fail, an edit is refused only when an accepted
\* edit wrote the version found instead of the one the page had shown, and it
\* was somebody else's if the list was read after all answers the editor had
\* got - although loads overtake one another and nobody waits for them.
THEOREM RefusalsNotSpurious ==
  ASSUME Faults = FALSE
  PROVE  SessionSpec => []RefusedOnlyWhenOvertaken
<1>1. SessionTypeInv /\ AuditInv /\ OvertakenInv /\ [SessionNext]_sessionVars
        => OvertakenInv'
  BY OvertakenNext
<1>2. SessionSpec => []AuditInv
  BY AuditInvHolds, SessionRunsEdits, PTL
<1>3. OvertakenInv => RefusedOnlyWhenOvertaken
  BY RefusedFromInv
<1> QED
  BY <1>1, <1>2, <1>3, OvertakenInit, SessionTypeHolds, PTL DEF SessionSpec

-----------------------------------------------------------------------------
\* Editors at their pages leave an audit log that explains every stored row and
\* hangs together, however many submissions are refused and tried again.
THEOREM SessionsAudited ==
  ASSUME Faults = FALSE
  PROVE  SessionSpec => [](RowTraceable /\ AuditTree)
<1>1. AuditInv => RowTraceable /\ AuditTree
  BY DEF AuditInv
<1> QED
  BY <1>1, AuditInvHolds, SessionRunsEdits, PTL
=============================================================================
