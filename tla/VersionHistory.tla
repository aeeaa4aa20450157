--------------------------- MODULE VersionHistory ---------------------------
(***************************************************************************)
(* What publishing promises, with each publish and each retraction a few   *)
(* atomic steps: a version, once there, is there for good and never        *)
(* changes; the number it takes is at most one more than the versions its  *)
(* media has; a retraction is a record that is added, and only a version   *)
(* with a record is flagged.                                               *)
(***************************************************************************)
EXTENDS Integers, FiniteSets

CONSTANTS
  Version,     \* the ids versions can have
  Media

VARIABLES
  history,     \* history[v]: the frozen version, for those there are
  records,     \* the retraction records
  flagged      \* the versions flagged withdrawn

historyVars == <<history, records, flagged>>

There == DOMAIN history

Of(m) == {v \in There : history[v].media = m}

Init ==
  /\ history = [v \in {} |-> {}]
  /\ records = {}
  /\ flagged = {}

Append(v, new) ==
  /\ v \notin There
  /\ new.media \in Media
  /\ new.no \in 1..(Cardinality(Of(new.media)) + 1)
  /\ history' = [w \in There \cup {v} |-> IF w = v THEN new ELSE history[w]]
  /\ UNCHANGED <<records, flagged>>

Record(w) ==
  /\ w.version \in There
  /\ w.media = history[w.version].media
  /\ records' = records \cup {w}
  /\ UNCHANGED <<history, flagged>>

Flag(v) ==
  /\ \E w \in records : w.version = v
  /\ flagged' = flagged \cup {v}
  /\ UNCHANGED <<history, records>>

\* The version or the record that a step adds is what it leaves behind.
Next ==
  \/ \E v \in Version \cap There' : Append(v, history'[v])
  \/ \E w \in records' : Record(w)
  \/ \E v \in Version : Flag(v)

Spec == Init /\ [][Next]_historyVars
-----------------------------------------------------------------------------
\* Published versions are never rewritten (publish.go:1-4): a version and a
\* retraction record stay what they are, and a flag stays set.
Frozen ==
  [][/\ \A v \in There : history'[v] = history[v]
     /\ records \subseteq records'
     /\ flagged \subseteq flagged']_historyVars

\* A flagged version is there and has a record of its own media.
FlagRecorded ==
  \A v \in flagged :
    /\ v \in There
    /\ \E w \in records : w.version = v /\ w.media = history[v].media

\* No version has a number past the count of its media.
NumbersCounted ==
  \A v \in There : history[v].no \in 1..Cardinality(Of(history[v].media))
=============================================================================
