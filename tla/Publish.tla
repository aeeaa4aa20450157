------------------------------- MODULE Publish -------------------------------
(***************************************************************************)
(* Service.Publish and Service.Withdraw: POST /api/media/{id}/publish and  *)
(* POST /api/versions/{id}/withdraw.  A version is a frozen copy of the    *)
(* media's row, segments and speakers; it is numbered by counting the rows *)
(* there are.  A withdrawal leaves the copy alone and adds a record and a  *)
(* flag.  A version row is named after the request that published it.      *)
(*                                                                         *)
(* The actions of one request; Workbench lets requests run side by side.   *)
(***************************************************************************)
EXTENDS Quality

VARIABLES
  target,      \* target[r]: the media to publish
  snap,        \* snap[r]: the snapshot Publish is collecting
  count,       \* count[r]: how many versions Publish counted
  wd           \* wd[r]: the withdrawal row Withdraw made

publishVars == <<target, snap, count, wd>>

\* publish.Snapshot; "segments" is a function from row ids to rows.
IsSnapshot(s) ==
  /\ s = [status |-> s.status, segments |-> s.segments, speakers |-> s.speakers]
  /\ s.status \in MediaStatus
  /\ IsRows(s.segments)
  /\ s.speakers \subseteq Speaker

Withdrawal == [id : Request, version : Request, media : Media]

PublishPC == {"pub_list_segments", "pub_list_speakers", "count_versions",
              "add_version", "publish_media"}
WithdrawPC == {"add_withdrawal", "mark_withdrawn"}

PublishInit ==
  /\ target = [r \in Request |-> None]
  /\ snap = [r \in Request |-> [status |-> None, segments |-> None,
                                speakers |-> {}]]
  /\ count = [r \in Request |-> 0]
  /\ wd = [r \in Request |-> None]
-----------------------------------------------------------------------------
PublishGetMedia(r) ==
  /\ pc[r] = "new"
  /\ \E m \in Media :
       /\ target' = [target EXCEPT ![r] = m]
       /\ snap' = [snap EXCEPT ![r].status = GetMedia(m)]
       /\ IF GetMedia(m) = None THEN Reply(r, "notfound")
          ELSE IF GetMedia(m) = "archived" THEN Reply(r, "invalid")
          ELSE Goto(r, "pub_list_segments")
  /\ UNCHANGED <<storeVars, listed, todo, count, wd>>

PublishListSegments(r) ==
  /\ pc[r] = "pub_list_segments"
  /\ snap' = [snap EXCEPT ![r].segments = ListSegments(target[r])]
  /\ Goto(r, "pub_list_speakers")
  /\ UNCHANGED <<storeVars, listed, todo, target, count, wd>>

PublishListSpeakers(r) ==
  /\ pc[r] = "pub_list_speakers"
  /\ snap' = [snap EXCEPT ![r].speakers = ListSpeakers(target[r])]
  /\ Goto(r, "count_versions")
  /\ UNCHANGED <<storeVars, listed, todo, target, count, wd>>

PublishCountAndRelist(r) ==
  /\ pc[r] = "count_versions"
  /\ count' = [count EXCEPT ![r] = CountPublishVersions(target[r])]
  /\ snap' = [snap EXCEPT ![r].segments = ListSegments(target[r])]
  /\ Goto(r, "add_version")
  /\ UNCHANGED <<storeVars, listed, todo, target, wd>>

PublishCount(r) ==
  /\ pc[r] = "count_versions"
  /\ count' = [count EXCEPT ![r] = CountPublishVersions(target[r])]
  /\ Goto(r, "add_version")
  /\ UNCHANGED <<storeVars, listed, todo, target, snap, wd>>

NumberFromZero(n) == n
NextNo(n) == n + 1

Frozen(r) == [media |-> target[r], no |-> NextNo(count[r]), snap |-> snap[r],
              withdrawn |-> FALSE]

PublishAddVersionOrGoOn(r) ==
  /\ pc[r] = "add_version"
  /\ AddPublishVersion(r, Frozen(r)) \/ (Faults /\ UNCHANGED storeVars)
  /\ Goto(r, "publish_media")
  /\ UNCHANGED <<listed, todo, publishVars>>

PublishAddVersion(r) ==
  /\ pc[r] = "add_version"
  /\ AddPublishVersion(r, Frozen(r))
  /\ Goto(r, "publish_media")
  /\ UNCHANGED <<listed, todo, publishVars>>

PublishMarkMedia(r) ==
  /\ pc[r] = "publish_media"
  /\ UpdateMediaStatus(target[r], "published")
  /\ Reply(r, "ok")
  /\ UNCHANGED <<listed, todo, publishVars>>

PublishStep(r) ==
  \/ PublishGetMedia(r)
  \/ PublishListSegments(r)
  \/ PublishListSpeakers(r)
  \/ PublishCount(r)
  \/ PublishAddVersion(r)
  \/ PublishMarkMedia(r)
-----------------------------------------------------------------------------
\* Any version id may be asked for, one that is not there included.
WithdrawGetVersion(r) ==
  /\ pc[r] = "new"
  /\ \E v \in Request :
       IF GetPublishVersion(v) = None
         THEN Reply(r, "notfound") /\ UNCHANGED wd
       ELSE IF GetPublishVersion(v).withdrawn
         THEN Reply(r, "withdrawn") /\ UNCHANGED wd
       ELSE /\ wd' = [wd EXCEPT ![r] = [id |-> r, version |-> v,
                                        media |-> GetPublishVersion(v).media]]
            /\ Goto(r, "add_withdrawal")
  /\ UNCHANGED <<storeVars, listed, todo, target, snap, count>>

WithdrawAddRecordOrGoOn(r) ==
  /\ pc[r] = "add_withdrawal"
  /\ AddWithdrawal(wd[r]) \/ (Faults /\ UNCHANGED storeVars)
  /\ Goto(r, "mark_withdrawn")
  /\ UNCHANGED <<listed, todo, publishVars>>

WithdrawAddRecord(r) ==
  /\ pc[r] = "add_withdrawal"
  /\ AddWithdrawal(wd[r])
  /\ Goto(r, "mark_withdrawn")
  /\ UNCHANGED <<listed, todo, publishVars>>

WithdrawMark(r) ==
  /\ pc[r] = "mark_withdrawn"
  /\ MarkWithdrawn(wd[r].version)
  /\ Reply(r, "ok")
  /\ UNCHANGED <<listed, todo, publishVars>>

WithdrawStep(r) ==
  \/ WithdrawGetVersion(r)
  \/ WithdrawAddRecord(r)
  \/ WithdrawMark(r)
=============================================================================
