--------------------------- MODULE OptimisticCell ---------------------------
(***************************************************************************)
(* What the optimistic concurrency of segment edits promises, with each    *)
(* edit a single step: an edit that names the stored version replaces the  *)
(* content, moves the version on by one and is recorded; an edit that      *)
(* names another version is recorded as rejected and changes nothing.      *)
(***************************************************************************)
EXTENDS Integers

CONSTANTS
  Segment, Editor, None,
  Change,              \* what an edit may ask for
  Apply(_, _),         \* the content a change makes of a content
  Base                 \* the versions an edit may name

VARIABLES
  cell,        \* cell[s]: the content of segment s, its version among it
  accepted,    \* the edits that took effect
  rejected     \* those that were refused

cellVars == <<cell, accepted, rejected>>

Used == {a.id : a \in accepted} \cup {b.id : b \in rejected}

Init ==
  /\ DOMAIN cell = Segment
  /\ \A s \in Segment : cell[s] # None => cell[s].version = 1
  /\ accepted = {}
  /\ rejected = {}

Accept(e, s, c) ==
  LET new == Apply(c, cell[s]) IN
  /\ cell[s] # None
  /\ e \notin Used
  /\ new.version = cell[s].version + 1
  /\ cell' = [cell EXCEPT ![s] = new]
  /\ accepted' = accepted \cup {[id |-> e, seg |-> s,
                                 base |-> cell[s].version, after |-> new]}
  /\ UNCHANGED rejected

Reject(e, s, b) ==
  /\ cell[s] # None
  /\ e \notin Used
  /\ b # cell[s].version
  /\ rejected' = rejected \cup {[id |-> e, seg |-> s, base |-> b]}
  /\ UNCHANGED <<cell, accepted>>

Next ==
  \E e \in Editor, s \in Segment :
    \/ \E c \in Change : Accept(e, s, c)
    \/ \E b \in Base : Reject(e, s, b)

Spec == Init /\ [][Next]_cellVars

\* The accepted edits of a segment are a chain: versions 1, 2, 3, ... each
\* made from the one before.
Chain ==
  \A a, b \in accepted : a.seg = b.seg /\ a.base = b.base => a = b
=============================================================================
