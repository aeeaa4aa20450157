------------------------ MODULE ConnectionPool_proofs ------------------------
(***************************************************************************)
(* A store call is atomic, for any number of goroutines and rows: the      *)
(* reason why EditSegment, Publish and the others take each call as one    *)
(* step.                                                                   *)
(***************************************************************************)
EXTENDS ConnectionPool, TLAPS

\* What a list has read is what the table holds; a batch that is half inserted
\* lies over what the transaction found.
ReadSoFar(c) ==
  /\ call[c].op = "list"
  /\ rest[c] \subseteq Atomic!Present(table)
  /\ got[c] = {<<i, table[i]>> : i \in Atomic!Present(table) \ rest[c]}

InsertedSoFar(c) ==
  LET inserted == call[c].ids \ rest[c] IN
  /\ call[c].op = "create"
  /\ rest[c] \subseteq call[c].ids
  /\ saved \in Atomic!Table
  /\ \A i \in inserted : saved[i] = None
  /\ table = [i \in Id |-> IF i \in inserted THEN call[c].value ELSE saved[i]]

CallInv(c) ==
  /\ stage[c] # "reading" => got[c] = {}
  /\ stage[c] = "reading" => ReadSoFar(c)
  /\ stage[c] = "inserting" => InsertedSoFar(c)

PoolInv == PoolTypeOK /\ \A c \in Caller : CallInv(c)
-----------------------------------------------------------------------------
(***************************************************************************)
(* The operators of AtomicCalls.                                           *)
(***************************************************************************)

\* What a call has by its operation.
LEMMA CallShape ==
  ASSUME NEW k \in Atomic!Call
  PROVE  /\ k.op \in {"list", "update", "create"}
         /\ k.op = "update" => k.id \in Id /\ k.value \in Value
         /\ k.op = "create" => k.ids \subseteq Id /\ k.value \in Value
BY DEF Atomic!Call

LEMMA EffectType ==
  ASSUME NEW k \in Atomic!Call, NEW tab \in Atomic!Table
  PROVE  Atomic!Effect(k, tab) \in Atomic!Table
<1>1. /\ k.op \in {"list", "update", "create"}
      /\ k.op = "update" => k.value \in Value
      /\ k.op = "create" => k.value \in Value
  BY CallShape
<1>2. CASE k.op = "list"
  BY <1>2 DEF Atomic!Effect
<1>3. CASE k.op = "update"
  <2>1. \A i \in Id : (IF i = k.id /\ tab[i] # None THEN k.value ELSE tab[i])
                        \in Value \cup {None}
    BY <1>1, <1>3 DEF Atomic!Table
  <2> QED
    BY <1>3, <2>1 DEF Atomic!Effect, Atomic!Table
<1>4. CASE k.op = "create"
  <2>1. \A i \in Id : (IF i \in k.ids THEN k.value ELSE tab[i])
                        \in Value \cup {None}
    BY <1>1, <1>4 DEF Atomic!Table
  <2> QED
    BY <1>4, <2>1 DEF Atomic!Effect, Atomic!Table
<1> QED
  BY <1>1, <1>2, <1>3, <1>4

LEMMA RowsType ==
  ASSUME NEW tab \in Atomic!Table
  PROVE  /\ Atomic!Present(tab) \subseteq Id
         /\ Atomic!Rows(tab) \subseteq Id \X Value
BY DEF Atomic!Rows, Atomic!Present, Atomic!Table

LEMMA FailedType == Atomic!Failed \in Answer
BY DEF Atomic!Failed, Answer

\* The connection is with one call at a time.
LEMMA OneHolder ==
  ASSUME PoolInv
  PROVE  /\ \A c, d \in Caller : Holding(c) /\ Holding(d) => c = d
         /\ conn = None => \A c \in Caller : ~Holding(c)
BY PoolAssumption DEF PoolInv, PoolTypeOK

-----------------------------------------------------------------------------
(***************************************************************************)
(* The invariant.                                                          *)
(***************************************************************************)

LEMMA PoolInvInit == PoolInit => PoolInv
<1> SUFFICES ASSUME PoolInit PROVE PoolInv
  OBVIOUS
<1>1. \A c \in Caller : CallInv(c)
  BY DEF PoolInit, CallInv
<1>2. PoolTypeOK
  BY PoolAssumption DEF PoolInit, PoolTypeOK, Stage, Holding
<1> QED
  BY <1>1, <1>2 DEF PoolInv

\* What a step of c leaves alone for the other calls.
OthersAlone(c) ==
  \A d \in Caller \ {c} : /\ stage'[d] = stage[d]
                          /\ call'[d] = call[d]
                          /\ rest'[d] = rest[d]
                          /\ got'[d] = got[d]

\* A step that leaves the table alone keeps what is known of other calls.
LEMMA OthersKept ==
  ASSUME PoolInv, NEW c \in Caller, table' = table, saved' = saved, OthersAlone(c)
  PROVE  \A d \in Caller \ {c} : CallInv(d)'
<1> SUFFICES ASSUME NEW d \in Caller \ {c} PROVE CallInv(d)'
  OBVIOUS
<1>1. /\ stage'[d] = stage[d]
      /\ call'[d] = call[d]
      /\ rest'[d] = rest[d]
      /\ got'[d] = got[d]
  BY DEF OthersAlone
<1>2. CallInv(d)
  BY DEF PoolInv
<1>3. stage'[d] = "reading" => ReadSoFar(d)'
  BY <1>1, <1>2 DEF CallInv, ReadSoFar, Atomic!Present
<1>4. stage'[d] = "inserting" => InsertedSoFar(d)'
  BY <1>1, <1>2 DEF CallInv, InsertedSoFar, Atomic!Table
<1> QED
  BY <1>1, <1>2, <1>3, <1>4 DEF CallInv

\* A step of the call that has the connection, or that found it free, meets no
\* rows and no transaction of another call.
LEMMA OthersIdle ==
  ASSUME PoolInv, NEW c \in Caller, conn = None \/ conn = c, OthersAlone(c)
  PROVE  \A d \in Caller \ {c} : ~Holding(d) /\ CallInv(d)'
<1> SUFFICES ASSUME NEW d \in Caller \ {c} PROVE ~Holding(d) /\ CallInv(d)'
  OBVIOUS
<1>1. ~Holding(d)
  BY PoolAssumption DEF PoolInv, PoolTypeOK
<1>2. stage'[d] = stage[d] /\ got'[d] = got[d]
  BY DEF OthersAlone
<1> QED
  BY <1>1, <1>2 DEF CallInv, PoolInv, Holding

LEMMA RequestKeepsInv ==
  ASSUME PoolInv, NEW c \in Caller, Request(c)
  PROVE  PoolInv'
<1>1. PoolTypeOK'
  <2>1. PICK k \in Atomic!Call : call' = [call EXCEPT ![c] = k]
    BY DEF Request
  <2> QED
    BY <2>1 DEF PoolInv, PoolTypeOK, Request, Stage, Holding
<1>2. CallInv(c)'
  BY DEF Request, PoolInv, PoolTypeOK, CallInv
<1>3. OthersAlone(c)
  BY DEF Request, PoolInv, PoolTypeOK, OthersAlone
<1> QED
  BY <1>1, <1>2, <1>3, OthersKept DEF PoolInv, Request

LEMMA QueryKeepsInv ==
  ASSUME PoolInv, NEW c \in Caller, Query(c)
  PROVE  PoolInv'
<1>1. PoolTypeOK'
  <2>1. Atomic!Present(table) \subseteq Id
    BY RowsType DEF PoolInv, PoolTypeOK
  <2> QED
    BY <2>1, PoolAssumption DEF PoolInv, PoolTypeOK, Query, Take, Stage, Holding
<1>2. CallInv(c)'
  BY DEF PoolInv, PoolTypeOK, CallInv, Query, Take, ReadSoFar, Atomic!Present
<1>3. OthersAlone(c)
  BY DEF Query, Take, PoolInv, PoolTypeOK, OthersAlone
<1> QED
  BY <1>1, <1>2, <1>3, OthersKept DEF PoolInv, Query

LEMMA ReadRowKeepsInv ==
  ASSUME PoolInv, NEW c \in Caller, ReadRow(c)
  PROVE  PoolInv'
<1>1. PICK i \in rest[c] : /\ rest' = [rest EXCEPT ![c] = @ \ {i}]
                           /\ got' = [got EXCEPT ![c] = @ \cup {<<i, table[i]>>}]
  BY DEF ReadRow
<1>2. ReadSoFar(c)
  BY DEF ReadRow, PoolInv, CallInv
<1>3. i \in Atomic!Present(table) /\ <<i, table[i]>> \in Id \X Value
  BY <1>2 DEF ReadSoFar, PoolInv, PoolTypeOK, Atomic!Present, Atomic!Table
<1>4. PoolTypeOK'
  BY <1>1, <1>3 DEF PoolInv, PoolTypeOK, ReadRow, Holding
<1>5. CallInv(c)'
  <2>1. /\ stage'[c] = "reading"
        /\ rest'[c] = rest[c] \ {i}
        /\ got'[c] = got[c] \cup {<<i, table[i]>>}
        /\ call' = call /\ table' = table
    BY <1>1 DEF ReadRow, PoolInv, PoolTypeOK
  <2>2. Atomic!Present(table)' = Atomic!Present(table)
    BY <2>1 DEF Atomic!Present
  <2>3. Atomic!Present(table) \ rest'[c] = (Atomic!Present(table) \ rest[c]) \cup {i}
    BY <1>3, <2>1
  <2>4. got'[c] = {<<j, table[j]>> : j \in Atomic!Present(table) \ rest'[c]}
    BY <1>2, <2>1, <2>3 DEF ReadSoFar
  <2> QED
    BY <1>2, <2>1, <2>2, <2>4 DEF CallInv, ReadSoFar
<1>6. OthersAlone(c)
  BY <1>1 DEF ReadRow, PoolInv, PoolTypeOK, OthersAlone
<1> QED
  BY <1>4, <1>5, <1>6, OthersKept DEF PoolInv, ReadRow

\* A call that returns leaves nothing behind.
LEMMA GiveKeepsInv ==
  ASSUME PoolInv, NEW c \in Caller, conn = None \/ conn = c,
         NEW result \in Answer, Give(c, result),
         table' \in Atomic!Table, saved' \in Atomic!Table \cup {None}
  PROVE  PoolInv'
<1>1. OthersAlone(c)
  BY DEF Give, PoolInv, PoolTypeOK, OthersAlone
<1>2. \A d \in Caller \ {c} : ~Holding(d) /\ CallInv(d)'
  BY <1>1, OthersIdle
<1>3. PoolTypeOK'
  BY <1>2, PoolAssumption DEF PoolInv, PoolTypeOK, Give, Stage, Holding
<1>4. CallInv(c)'
  BY DEF CallInv, Give, PoolInv, PoolTypeOK
<1> QED
  BY <1>2, <1>3, <1>4 DEF PoolInv

LEMMA BeginKeepsInv ==
  ASSUME PoolInv, NEW c \in Caller, Begin(c)
  PROVE  PoolInv'
<1>1. call[c].ids \subseteq Id
  BY CallShape DEF Begin, PoolInv, PoolTypeOK
<1>2. PoolTypeOK'
  BY <1>1, PoolAssumption DEF PoolInv, PoolTypeOK, Begin, Take, Stage, Holding
<1>3. OthersAlone(c)
  BY DEF Begin, Take, PoolInv, PoolTypeOK, OthersAlone
<1>4. \A d \in Caller \ {c} : ~Holding(d) /\ CallInv(d)'
  BY <1>3, OthersIdle DEF Begin, Take
<1>5. CallInv(c)'
  <2>1. /\ rest'[c] = call'[c].ids
        /\ call'[c].op = "create"
        /\ saved' = table
        /\ table' = table
        /\ table \in Atomic!Table
        /\ stage'[c] = "inserting"
        /\ got'[c] = {}
    BY DEF Begin, Take, PoolInv, PoolTypeOK, CallInv
  <2>2. table = [i \in Id |-> table[i]]
    BY <2>1 DEF Atomic!Table
  <2> QED
    BY <2>1, <2>2 DEF CallInv, InsertedSoFar, Atomic!Table
<1> QED
  BY <1>2, <1>4, <1>5 DEF PoolInv

\* Rollback puts back what the transaction found.
LEMMA RollbackKeepsInv ==
  ASSUME PoolInv, NEW c \in Caller, stage[c] = "inserting", Rollback(c)
  PROVE  PoolInv'
<1>1. conn = c
  BY DEF PoolInv, PoolTypeOK, Holding
<1>2. saved \in Atomic!Table
  BY DEF PoolInv, CallInv, InsertedSoFar
<1> QED
  BY <1>1, <1>2, GiveKeepsInv, FailedType DEF Rollback

LEMMA InsertKeepsInv ==
  ASSUME PoolInv, NEW c \in Caller, Insert(c)
  PROVE  PoolInv'
<1>1. PICK i \in rest[c] :
        IF table[i] = None
          THEN /\ table' = [table EXCEPT ![i] = call[c].value]
               /\ rest' = [rest EXCEPT ![c] = @ \ {i}]
               /\ UNCHANGED <<saved, conn, stage, call, got, answer>>
          ELSE Rollback(c)
  BY DEF Insert
<1>2. CASE table[i] # None
  BY <1>1, <1>2, RollbackKeepsInv DEF Insert
<1>3. CASE table[i] = None
  <2>1. /\ table' = [table EXCEPT ![i] = call[c].value]
        /\ rest' = [rest EXCEPT ![c] = @ \ {i}]
        /\ UNCHANGED <<saved, conn, stage, call, got, answer>>
    BY <1>1, <1>3
  <2>2. InsertedSoFar(c) /\ stage[c] = "inserting" /\ got[c] = {} /\ conn = c
    BY DEF Insert, PoolInv, CallInv, PoolTypeOK, Holding
  <2>3. call[c].value \in Value /\ i \in Id /\ i \in call[c].ids
    BY <2>2, CallShape DEF PoolInv, PoolTypeOK, InsertedSoFar
  <2>4. table' \in Atomic!Table
    BY <2>1, <2>3 DEF PoolInv, PoolTypeOK, Atomic!Table
  <2>5. PoolTypeOK'
    BY <2>1, <2>4 DEF PoolInv, PoolTypeOK, Holding
  <2>6. OthersAlone(c)
    BY <2>1 DEF PoolInv, PoolTypeOK, OthersAlone
  <2>7. \A d \in Caller \ {c} : CallInv(d)'
    BY <2>2, <2>6, OthersIdle
  <2>8. /\ rest'[c] = rest[c] \ {i}
        /\ call[c].ids \ rest'[c] = (call[c].ids \ rest[c]) \cup {i}
    BY <2>1, <2>3 DEF PoolInv, PoolTypeOK
  <2>9. saved[i] = None
    BY <1>3, <2>2, <2>3 DEF InsertedSoFar
  <2>10. table' = [j \in Id |-> IF j \in call[c].ids \ rest'[c]
                                  THEN call[c].value ELSE saved[j]]
    BY <2>1, <2>2, <2>3, <2>8 DEF InsertedSoFar
  <2>11. InsertedSoFar(c)'
    BY <2>1, <2>2, <2>8, <2>9, <2>10 DEF InsertedSoFar, Atomic!Table
  <2>12. CallInv(c)'
    BY <2>1, <2>2, <2>11 DEF CallInv
  <2> QED
    BY <2>5, <2>7, <2>12 DEF PoolInv
<1> QED
  BY <1>2, <1>3

LEMMA CallReturnsKeepsInv ==
  ASSUME PoolInv, NEW c \in Caller, CallReturns(c)
  PROVE  PoolInv'
<1>1. PoolTypeOK'
  BY DEF PoolInv, PoolTypeOK, CallReturns, Stage, Holding
<1>2. CallInv(c)'
  BY DEF CallReturns, PoolInv, PoolTypeOK, CallInv
<1>3. OthersAlone(c)
  BY DEF CallReturns, PoolInv, PoolTypeOK, OthersAlone
<1> QED
  BY <1>1, <1>2, <1>3, OthersKept DEF PoolInv, CallReturns

LEMMA CloseRowsKeepsInv ==
  ASSUME PoolInv, NEW c \in Caller, CloseRows(c)
  PROVE  PoolInv'
<1>1. conn = c /\ [ok |-> TRUE, rows |-> got[c]] \in Answer
  BY DEF CloseRows, PoolInv, PoolTypeOK, Holding, Answer
<1> QED
  BY <1>1, GiveKeepsInv DEF CloseRows, PoolInv, PoolTypeOK

LEMMA UpdateKeepsInv ==
  ASSUME PoolInv, NEW c \in Caller, Update(c)
  PROVE  PoolInv'
<1>1. call[c] \in Atomic!Call /\ table \in Atomic!Table
  BY DEF Update, PoolInv, PoolTypeOK
<1>2. Atomic!Result(call[c], table) \in Answer
  BY DEF Atomic!Result, Answer, Update
<1>3. table' \in Atomic!Table
  BY <1>1, EffectType DEF Update
<1> QED
  BY <1>2, <1>3, GiveKeepsInv DEF Update, PoolInv, PoolTypeOK

LEMMA CommitKeepsInv ==
  ASSUME PoolInv, NEW c \in Caller, Commit(c)
  PROVE  PoolInv'
<1>1. conn = c /\ [ok |-> TRUE, rows |-> {}] \in Answer
  BY DEF Commit, PoolInv, PoolTypeOK, Holding, Answer
<1> QED
  BY <1>1, GiveKeepsInv DEF Commit, PoolInv, PoolTypeOK

LEMMA FailureKeepsInv ==
  ASSUME PoolInv, NEW c \in Caller,
         StatementFails(c) \/ ReadFails(c) \/ TransactionFails(c)
  PROVE  PoolInv'
<1>1. CASE StatementFails(c)
  BY <1>1, GiveKeepsInv, FailedType DEF StatementFails, PoolInv, PoolTypeOK
<1>2. CASE ReadFails(c)
  <2>1. conn = c
    BY <1>2 DEF ReadFails, PoolInv, PoolTypeOK, Holding
  <2> QED
    BY <1>2, <2>1, GiveKeepsInv, FailedType DEF ReadFails, PoolInv, PoolTypeOK
<1>3. CASE TransactionFails(c)
  BY <1>3, RollbackKeepsInv DEF TransactionFails
<1> QED
  BY <1>1, <1>2, <1>3

LEMMA PoolInvNext == PoolInv /\ [PoolNext]_poolVars => PoolInv'
<1> SUFFICES ASSUME PoolInv, [PoolNext]_poolVars PROVE PoolInv'
  OBVIOUS
<1>1. CASE UNCHANGED poolVars
  BY <1>1 DEF poolVars, PoolInv, PoolTypeOK, Holding, CallInv, ReadSoFar,
              InsertedSoFar, Atomic!Present, Atomic!Table
<1>2. CASE PoolNext
  <2>1. PICK c \in Caller :
          \/ Request(c)
          \/ Enter(c)
          \/ Proceed(c)
          \/ StatementFails(c)
          \/ ReadFails(c)
          \/ TransactionFails(c)
          \/ CallReturns(c)
    BY <1>2 DEF PoolNext
  <2>2. CASE Enter(c)
    BY <2>2, QueryKeepsInv, UpdateKeepsInv, BeginKeepsInv DEF Enter
  <2>3. CASE Proceed(c)
    BY <2>3, ReadRowKeepsInv, CloseRowsKeepsInv, InsertKeepsInv, CommitKeepsInv
       DEF Proceed
  <2> QED
    BY <2>1, <2>2, <2>3, RequestKeepsInv, FailureKeepsInv, CallReturnsKeepsInv
<1> QED
  BY <1>1, <1>2

\* The connection is always with the one call whose rows or transaction are
\* open, and free when there is none.
THEOREM PoolTypeCorrect == PoolSpec => []PoolTypeOK
<1>1. PoolInv => PoolTypeOK
  BY DEF PoolInv
<1> QED
  BY <1>1, PoolInvInit, PoolInvNext, PTL DEF PoolSpec

-----------------------------------------------------------------------------
(***************************************************************************)
(* The refinement.                                                         *)
(***************************************************************************)

InTransaction == \E c \in Caller : stage[c] = "inserting"

File == IF InTransaction THEN saved ELSE table

Seen(c) == IF stage[c] \in {"idle", "answered"} THEN stage[c] ELSE "called"

LEMMA FileIsTable ==
  ASSUME PoolInv, NEW c \in Caller,
         conn = None \/ (conn = c /\ stage[c] # "inserting")
  PROVE  ~InTransaction /\ File = table
<1>1. \A d \in Caller : stage[d] # "inserting"
  BY PoolAssumption DEF PoolInv, PoolTypeOK, Holding
<1> QED
  BY <1>1 DEF File, InTransaction

LEMMA FileIsSaved ==
  ASSUME NEW c \in Caller, stage[c] = "inserting"
  PROVE  InTransaction /\ File = saved
BY DEF File, InTransaction

\* Once a call has returned the table is the file.
LEMMA FileAfterGive ==
  ASSUME PoolInv, NEW c \in Caller, conn = None \/ conn = c, NEW result,
         Give(c, result)
  PROVE  /\ File' = table'
         /\ \A d \in Caller \ {c} : Seen(d)' = Seen(d)
         /\ Seen(c)' = "answered"
         /\ answer' = [answer EXCEPT ![c] = result]
<1>1. OthersAlone(c)
  BY DEF Give, PoolInv, PoolTypeOK, OthersAlone
<1>2. \A d \in Caller \ {c} : ~Holding(d)
  BY <1>1, OthersIdle
<1>3. stage'[c] = "answered" /\ \A d \in Caller \ {c} : stage'[d] = stage[d]
  BY DEF Give, PoolInv, PoolTypeOK
<1> QED
  BY <1>2, <1>3 DEF Give, File, InTransaction, Holding, Seen

LEMMA InitIsAtomicInit == PoolInit => Atomic!AtomicInit
<1> SUFFICES ASSUME PoolInit PROVE Atomic!AtomicInit
  OBVIOUS
<1>1. ~InTransaction
  BY DEF PoolInit, InTransaction
<1> QED
  BY <1>1 DEF PoolInit, InTransaction, Atomic!AtomicInit

\* The steps in which a call takes effect, or fails for good.
LEMMA RefuseStep ==
  ASSUME PoolInv, NEW c \in Caller, Holding(c) \/ stage[c] = "waiting",
         conn = None \/ conn = c, Give(c, Atomic!Failed), table' = File
  PROVE  Atomic!Refuse(c)
<1>1. /\ File' = File
      /\ \A d \in Caller \ {c} : Seen(d)' = Seen(d)
      /\ Seen(c)' = "answered"
      /\ answer' = [answer EXCEPT ![c] = Atomic!Failed]
  BY FileAfterGive
<1>2. Seen(c) = "called" /\ call' = call
  BY DEF Seen, Holding, Give
<1> QED
  BY <1>1, <1>2 DEF Atomic!Refuse, File, InTransaction, Seen

LEMMA PerformStep ==
  ASSUME PoolInv, NEW c \in Caller, Holding(c) \/ stage[c] = "waiting",
         conn = None \/ conn = c, Atomic!Possible(call[c], File),
         Give(c, Atomic!Result(call[c], File)),
         table' = Atomic!Effect(call[c], File)
  PROVE  Atomic!Perform(c)
<1>1. /\ File' = Atomic!Effect(call[c], File)
      /\ \A d \in Caller \ {c} : Seen(d)' = Seen(d)
      /\ Seen(c)' = "answered"
      /\ answer' = [answer EXCEPT ![c] = Atomic!Result(call[c], File)]
  BY FileAfterGive
<1>2. Seen(c) = "called" /\ call' = call
  BY DEF Seen, Holding, Give
<1> QED
  BY <1>1, <1>2 DEF Atomic!Perform, File, InTransaction, Seen

LEMMA StutterStep ==
  ASSUME File' = File, call' = call, answer' = answer,
         \A c \in Caller : Seen(c)' = Seen(c)
  PROVE  UNCHANGED Atomic!atomicVars
BY DEF Atomic!atomicVars, File, InTransaction, Seen

LEMMA RequestIsInvoke ==
  ASSUME PoolInv, NEW c \in Caller, Request(c)
  PROVE  Atomic!Invoke(c)
<1>1. /\ stage'[c] = "waiting"
      /\ \A d \in Caller \ {c} : stage'[d] = stage[d]
  BY DEF Request, PoolInv, PoolTypeOK
<1>2. InTransaction' = InTransaction
  BY <1>1 DEF InTransaction, Request
<1> QED
  BY <1>1, <1>2 DEF Atomic!Invoke, Request, InTransaction

LEMMA ReturnIsReturn ==
  ASSUME PoolInv, NEW c \in Caller, CallReturns(c)
  PROVE  Atomic!Return(c)
<1>1. /\ stage'[c] = "idle"
      /\ \A d \in Caller \ {c} : stage'[d] = stage[d]
  BY DEF CallReturns, PoolInv, PoolTypeOK
<1>2. InTransaction' = InTransaction
  BY <1>1 DEF InTransaction, CallReturns
<1> QED
  BY <1>1, <1>2 DEF Atomic!Return, CallReturns, InTransaction

\* The statements in between are not seen from outside.
LEMMA TakeStutters ==
  ASSUME PoolInv, NEW c \in Caller, Query(c) \/ Begin(c)
  PROVE  UNCHANGED Atomic!atomicVars
<1>1. File = table
  BY FileIsTable DEF Query, Begin, Take
<1>2. ~InTransaction
  BY FileIsTable DEF Query, Begin, Take
<1>3. /\ Holding(c)' /\ ~Holding(c)
      /\ stage[c] = "waiting"
      /\ \A d \in Caller \ {c} : stage'[d] = stage[d]
  BY DEF Query, Begin, Take, PoolInv, PoolTypeOK, Holding
<1>4. File' = table
  <2>1. CASE Query(c)
    <3>1. ~InTransaction'
      BY <1>2, <1>3, <2>1 DEF InTransaction, Query, Take, PoolInv, PoolTypeOK
    <3> QED
      BY <3>1, <2>1 DEF File, Query
  <2>2. CASE Begin(c)
    <3>1. InTransaction'
      BY <2>2 DEF InTransaction, Begin, Take, PoolInv, PoolTypeOK
    <3> QED
      BY <3>1, <2>2 DEF File, Begin
  <2> QED
    BY <2>1, <2>2
<1> QED
  BY <1>1, <1>3, <1>4, StutterStep DEF Query, Begin, Take, Holding, Seen

LEMMA ReadRowStutters ==
  ASSUME PoolInv, NEW c \in Caller, ReadRow(c)
  PROVE  UNCHANGED Atomic!atomicVars
BY StutterStep DEF ReadRow, File, InTransaction, Seen

LEMMA InsertStep ==
  ASSUME PoolInv, NEW c \in Caller, Insert(c)
  PROVE  UNCHANGED Atomic!atomicVars \/ Atomic!Refuse(c)
<1>1. conn = c /\ File = saved /\ InTransaction
  BY FileIsSaved DEF Insert, PoolInv, PoolTypeOK, Holding
<1>2. CASE Rollback(c)
  BY <1>1, <1>2, RefuseStep DEF Rollback, Insert, Holding
<1>3. CASE UNCHANGED <<saved, conn, stage, call, got, answer>>
  <2>1. File' = File
    BY <1>1, <1>3 DEF File, InTransaction
  <2> QED
    BY <1>3, <2>1, StutterStep DEF Seen
<1> QED
  BY <1>2, <1>3 DEF Insert

\* A list returns the rows of the moment its last row has been read.
LEMMA CloseRowsPerforms ==
  ASSUME PoolInv, NEW c \in Caller, CloseRows(c)
  PROVE  Atomic!Perform(c)
<1>1. conn = c /\ File = table
  BY FileIsTable DEF CloseRows, PoolInv, PoolTypeOK, Holding
<1>2. ReadSoFar(c)
  BY DEF CloseRows, PoolInv, CallInv
<1>3. got[c] = Atomic!Rows(table)
  BY <1>2 DEF ReadSoFar, CloseRows, Atomic!Rows
<1>4. Atomic!Result(call[c], table) = [ok |-> TRUE, rows |-> got[c]]
  BY <1>2, <1>3 DEF ReadSoFar, Atomic!Result
<1>5. Atomic!Possible(call[c], table) /\ Atomic!Effect(call[c], table) = table
  BY <1>2 DEF ReadSoFar, Atomic!Possible, Atomic!Effect
<1> QED
  BY <1>1, <1>4, <1>5, PerformStep DEF CloseRows, Holding

LEMMA UpdatePerforms ==
  ASSUME PoolInv, NEW c \in Caller, Update(c)
  PROVE  Atomic!Perform(c)
<1>1. conn = None /\ File = table
  BY FileIsTable DEF Update
<1>2. Atomic!Possible(call[c], table)
  BY DEF Atomic!Possible, Update
<1> QED
  BY <1>1, <1>2, PerformStep DEF Update

\* A batch is there from its commit on.
LEMMA CommitPerforms ==
  ASSUME PoolInv, NEW c \in Caller, Commit(c)
  PROVE  Atomic!Perform(c)
<1>1. conn = c /\ File = saved
  BY FileIsSaved DEF Commit, PoolInv, PoolTypeOK, Holding
<1>2. InsertedSoFar(c)
  BY DEF Commit, PoolInv, CallInv
<1>3. call[c].ids \ rest[c] = call[c].ids
  BY DEF Commit
<1>4. Atomic!Result(call[c], saved) = [ok |-> TRUE, rows |-> {}]
  BY <1>2 DEF InsertedSoFar, Atomic!Result
<1>5. Atomic!Possible(call[c], saved)
  BY <1>2, <1>3 DEF InsertedSoFar, Atomic!Possible
<1>6. Atomic!Effect(call[c], saved) = table
  BY <1>2, <1>3 DEF InsertedSoFar, Atomic!Effect
<1> QED
  BY <1>1, <1>4, <1>5, <1>6, PerformStep DEF Commit, Holding

LEMMA FailureRefuses ==
  ASSUME PoolInv, NEW c \in Caller,
         StatementFails(c) \/ ReadFails(c) \/ TransactionFails(c)
  PROVE  Atomic!Refuse(c)
<1>1. CASE StatementFails(c)
  BY <1>1, FileIsTable, RefuseStep DEF StatementFails
<1>2. CASE ReadFails(c)
  <2>1. conn = c
    BY <1>2 DEF ReadFails, PoolInv, PoolTypeOK, Holding
  <2> QED
    BY <1>2, <2>1, FileIsTable, RefuseStep DEF ReadFails, Holding
<1>3. CASE TransactionFails(c)
  <2>1. conn = c
    BY <1>3 DEF TransactionFails, PoolInv, PoolTypeOK, Holding
  <2> QED
    BY <1>3, <2>1, FileIsSaved, RefuseStep DEF TransactionFails, Rollback, Holding
<1> QED
  BY <1>1, <1>2, <1>3

LEMMA StepIsAtomic ==
  PoolInv /\ [PoolNext]_poolVars => [Atomic!AtomicNext]_(Atomic!atomicVars)
<1> SUFFICES ASSUME PoolInv, [PoolNext]_poolVars
             PROVE  Atomic!AtomicNext \/ UNCHANGED Atomic!atomicVars
  OBVIOUS
<1>1. CASE UNCHANGED poolVars
  BY <1>1, StutterStep DEF poolVars, File, InTransaction, Seen
<1>2. CASE PoolNext
  <2>1. PICK c \in Caller :
          \/ Request(c)
          \/ Enter(c)
          \/ Proceed(c)
          \/ StatementFails(c)
          \/ ReadFails(c)
          \/ TransactionFails(c)
          \/ CallReturns(c)
    BY <1>2 DEF PoolNext
  <2>2. Atomic!Invoke(c) \/ Atomic!Perform(c) \/ Atomic!Refuse(c) \/ Atomic!Return(c)
          => Atomic!AtomicNext
    BY DEF Atomic!AtomicNext
  <2>3. ASSUME Enter(c)
        PROVE  Atomic!Perform(c) \/ UNCHANGED Atomic!atomicVars
    BY <2>3, TakeStutters, UpdatePerforms DEF Enter
  <2>4. ASSUME Proceed(c)
        PROVE  \/ Atomic!Perform(c) \/ Atomic!Refuse(c)
               \/ UNCHANGED Atomic!atomicVars
    BY <2>4, ReadRowStutters, CloseRowsPerforms, InsertStep, CommitPerforms
       DEF Proceed
  <2> QED
    BY <2>1, <2>2, <2>3, <2>4, RequestIsInvoke, ReturnIsReturn, FailureRefuses
<1> QED
  BY <1>1, <1>2

\* Every call of the store takes effect at one moment or not at all, whoever
\* else calls and however calls fail: store calls are the steps of requests.
THEOREM StoreCallsAreAtomic == PoolSpec => CallsAtomic
<1> QED
  BY PoolInvInit, PoolInvNext, InitIsAtomicInit, StepIsAtomic, PTL
     DEF PoolSpec, CallsAtomic, Atomic!AtomicSpec
=============================================================================
