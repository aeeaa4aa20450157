------------------------ MODULE OptimisticCell_proofs ------------------------
(***************************************************************************)
(* Why comparing and swapping in a single step is enough: the versions a   *)
(* segment goes through are never taken twice, whatever edits do.          *)
(***************************************************************************)
EXTENDS OptimisticCell, TLAPS

\* The version of a segment is past every version an accepted edit started from.
Past ==
  /\ DOMAIN cell = Segment
  /\ \A s \in Segment : cell[s] # None => cell[s].version \in Int
  /\ \A a \in accepted : /\ a.base \in Int
                         /\ a.seg \in Segment
                         /\ cell[a.seg] # None => a.base < cell[a.seg].version

LEMMA ChainInit == Init => Past /\ Chain
BY DEF Init, Past, Chain

\* An accepted edit starts from a version no other has started from.
LEMMA AcceptKeepsChain ==
  ASSUME Past, Chain, NEW e \in Editor, NEW s \in Segment, NEW c \in Change,
         Accept(e, s, c)
  PROVE  Past' /\ Chain'
<1> DEFINE new == Apply(c, cell[s])
           edit == [id |-> e, seg |-> s, base |-> cell[s].version, after |-> new]
<1>1. /\ cell[s] # None
      /\ cell[s].version \in Int
      /\ new.version = cell[s].version + 1
      /\ cell' = [cell EXCEPT ![s] = new]
      /\ accepted' = accepted \cup {edit}
  BY DEF Accept, Past
<1>2. edit.seg = s /\ edit.base = cell[s].version
  OBVIOUS
<1> HIDE DEF new, edit
<1>3. /\ DOMAIN cell' = Segment
      /\ cell'[s] = new
      /\ \A t \in Segment \ {s} : cell'[t] = cell[t]
  BY <1>1 DEF Past
<1>4. \A a \in accepted : a.seg = s => a.base < cell[s].version
  BY <1>1 DEF Past
<1>5. Past'
  BY <1>1, <1>2, <1>3, <1>4 DEF Past
<1>6. Chain'
  BY <1>1, <1>2, <1>4 DEF Chain, Past
<1> QED
  BY <1>5, <1>6

LEMMA ChainNext == Past /\ Chain /\ [Next]_cellVars => Past' /\ Chain'
<1> SUFFICES ASSUME Past, Chain, [Next]_cellVars PROVE Past' /\ Chain'
  OBVIOUS
<1>1. ASSUME NEW e \in Editor, NEW s \in Segment, NEW c \in Change,
             Accept(e, s, c)
      PROVE  Past' /\ Chain'
  BY <1>1, AcceptKeepsChain
<1>2. ASSUME NEW e \in Editor, NEW s \in Segment, NEW b \in Base,
             Reject(e, s, b)
      PROVE  Past' /\ Chain'
  BY <1>2 DEF Reject, Past, Chain
<1>3. CASE UNCHANGED cellVars
  BY <1>3 DEF cellVars, Past, Chain
<1> QED
  BY <1>1, <1>2, <1>3 DEF Next

\* The accepted edits of a segment form a chain: no two of them start from the
\* same version, whatever a change makes of a content.  What EditSegment owes
\* its editors (service.go:220-223) follows from the compare and swap alone.
THEOREM CellIsAChain == Spec => []Chain
<1>1. Init => Past /\ Chain
  BY ChainInit
<1>2. Past /\ Chain /\ [Next]_cellVars => (Past /\ Chain)'
  BY ChainNext
<1> QED
  BY <1>1, <1>2, PTL DEF Spec
=============================================================================
