------------------------------ MODULE Recovery ------------------------------
(***************************************************************************)
(* The process around the service: it starts, derives the findings of      *)
(* every media anew (Service.Recover), listens, and may die at any point.  *)
(* What is in the database stays; requests in flight, the counters and     *)
(* every local variable are gone.  GET /readyz runs Recover as well, next  *)
(* to the requests being served.                                           *)
(***************************************************************************)
EXTENDS Workbench

CONSTANTS
  Boot,          \* the "request" of the startup: Recover ahead of listening
  MaxCrashes     \* bound on how often the process dies

ASSUME RecoveryAssumption ==
  /\ Boot \in Request
  /\ \A k \in Mixes : k[Boot] = "none"
  /\ MaxCrashes \in Nat

VARIABLES
  server,        \* "down", "starting" (before ListenAndServe) or "up"
  crashes,       \* how often the process died
  rest           \* rest[r]: the media Recover has still to do, in order

processVars == <<server, crashes, rest>>
recoveryVars == <<allVars, processVars>>

RecoveryInit ==
  /\ WorkbenchInit
  /\ server = "down"
  /\ crashes = 0
  /\ rest = [r \in Request |-> <<>>]
-----------------------------------------------------------------------------
RecoverableUnlessFrozen(m) == GetMedia(m) \notin {"archived", "published"}
Recoverable(m) == GetMedia(m) # "archived"

RecoverListMedia(r) ==
  LET todoMedia == {m \in ListMedia : Recoverable(m)} IN
  /\ pc[r] = "new"
  /\ rest' \in {[rest EXCEPT ![r] = q] : q \in Orders(todoMedia)}
  /\ IF todoMedia = {} THEN Reply(r, "ok") ELSE Goto(r, "list_segments")
  /\ UNCHANGED <<storeVars, listed, todo>>

RecoverMediaUntilClean(r) ==
  /\ rest[r] # <<>>
  /\ Recompute(r, Head(rest[r]),
               IF Len(rest[r]) = 1 /\ ListQuality(Head(rest[r])) = {}
                 THEN "done" ELSE "list_segments")
  /\ rest' = IF pc'[r] = "done"
                \/ (pc'[r] = "list_segments" /\ ListQuality(Head(rest[r])) = {})
               THEN [rest EXCEPT ![r] = Tail(@)]
               ELSE rest

\* Recompute of the media that is next; the one after it once the last finding
\* is in.
RecoverMedia(r) ==
  /\ rest[r] # <<>>
  /\ Recompute(r, Head(rest[r]),
               IF Len(rest[r]) = 1 THEN "done" ELSE "list_segments")
  /\ rest' = IF pc'[r] \in {"list_segments", "done"}
               THEN [rest EXCEPT ![r] = Tail(@)]
               ELSE rest

RecoverStep(r) ==
  /\ RecoverListMedia(r) \/ RecoverMedia(r)
  /\ UNCHANGED <<editVars, publishVars, compareVars, intakeVars, statsVars, kind>>
-----------------------------------------------------------------------------
\* store.Open on the file there is; CREATE TABLE IF NOT EXISTS changes nothing.
Start ==
  /\ server = "down"
  /\ server' = "starting"
  /\ UNCHANGED <<allVars, crashes, rest>>

BootStep ==
  /\ server = "starting"
  /\ RecoverStep(Boot)
  /\ UNCHANGED <<metrics, server, crashes>>

\* A new API with new counters, and ListenAndServe.
Listen ==
  /\ server = "starting"
  /\ outcome[Boot] = "ok"
  /\ server' = "up"
  /\ metrics' = NoneCounted
  /\ UNCHANGED <<vars, publishVars, compareVars, intakeVars, statsVars, kind,
                 crashes, rest>>

ReadyRequested(r) ==
  /\ kind[r] = "ready"
  /\ RecoverStep(r)
  /\ Counted(r)
  /\ UNCHANGED <<server, crashes>>

\* Requests reach a process that listens.
RequestStep(r) ==
  /\ server = "up"
  /\ \/ ReadyRequested(r)
     \/ Served(r) /\ UNCHANGED <<kind, processVars>>

\* The process is killed, or Recover fails at startup and main exits.  Requests
\* in flight are never answered.
Crash ==
  /\ server # "down"
  /\ crashes < MaxCrashes
  /\ server' = "down"
  /\ crashes' = crashes + 1
  /\ pc' = [r \in Request |->
              IF r = Boot \/ pc[r] = "new" THEN "new" ELSE "done"]
  /\ outcome' = [outcome EXCEPT ![Boot] = None]
  /\ listed' = [r \in Request |-> None]
  /\ todo' = [r \in Request |-> {}]
  /\ rest' = [r \in Request |-> <<>>]
  /\ UNCHANGED <<storeVars, editVars, publishVars, compareVars, intakeVars,
                 statsVars, kind, metrics>>

\* The server waits for more requests.
RecoveryQuiet ==
  /\ server = "up"
  /\ \A r \in Request : kind[r] = "none" \/ pc[r] = "done"
  /\ UNCHANGED recoveryVars

\* Time stands still: nothing below depends on when something was written.
RecoveryNext ==
  \/ Start
  \/ BootStep
  \/ Listen
  \/ \E r \in Request : RequestStep(r)
  \/ Crash
  \/ RecoveryQuiet

RecoverySpec == RecoveryInit /\ [][RecoveryNext]_recoveryVars

\* main goes on with the startup, and the Go scheduler runs the goroutine of
\* every request that has arrived.  Nobody promises a restart, a request or a
\* crash.
RecoveryFairness ==
  /\ WF_recoveryVars(BootStep \/ Listen)
  /\ \A r \in Request : WF_recoveryVars(pc[r] # "new" /\ RequestStep(r))

RecoveryFairSpec == RecoverySpec /\ RecoveryFairness
-----------------------------------------------------------------------------
(***************************************************************************)
(* Properties.                                                             *)
(***************************************************************************)

\* The handlers' variables are what they are without crashes, and only Recover
\* has media to go through.
RecoveryTypeOK ==
  /\ WorkbenchTypeOK
  /\ server \in {"down", "starting", "up"}
  /\ crashes \in 0..MaxCrashes
  /\ \A r \in Request :
       /\ rest[r] \in Seq(Media)
       /\ rest[r] # <<>> => r = Boot \/ kind[r] = "ready"
       /\ rest[r] # <<>> => pc[r] \in QualityPC \cup {"done"}

\* Restart recovery is safe (qa.go:2-4): whatever a crash left half written,
\* in a request or in an earlier recovery, when the server starts to listen
\* each media has the findings of its lines as they are, each once.
RecoveredExact ==
  server = "starting" /\ outcome[Boot] = "ok" =>
    \A m \in Media : GetMedia(m) # "archived" => FindingsExact(m)

\* Startup comes to an end: the process listens or dies, however many media
\* there are to go through.
StartupEnds == server = "starting" ~> server # "starting"

\* A request that has arrived is answered, with ok or an error, or dies with
\* the process: no handler, and no readiness probe, goes on for ever.
RequestsEnd ==
  \A r \in Request \ {Boot} : pc[r] \notin {"new", "done"} ~> pc[r] = "done"
=============================================================================
