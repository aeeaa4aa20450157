--------------------------- MODULE ConnectionPool ---------------------------
(***************************************************************************)
(* How internal/store runs a call over the one connection of its pool      *)
(* (store.go:29): a single statement takes the connection and gives it     *)
(* back, a list keeps it while its rows are open, and CreateSegments keeps *)
(* it from Begin to Commit or Rollback.  A goroutine that finds it taken   *)
(* waits; database/sql hands it to any of those that wait.                 *)
(*                                                                         *)
(* One table stands for all of them; SELECT by id and COUNT are lists of a *)
(* single row.  Any statement may fail, and so may the scan of a row.      *)
(***************************************************************************)
EXTENDS Naturals, FiniteSets

CONSTANTS
  Caller,      \* the goroutines that use the store
  Id,          \* ids of rows
  Value,       \* contents of rows
  None         \* no row, nobody

ASSUME PoolAssumption == None \notin Value /\ None \notin Caller

VARIABLES
  table,       \* table[i]: the row as the connection sees it, or None
  saved,       \* what Rollback goes back to, None outside a transaction
  conn,        \* who has the connection, None when nobody has
  stage,       \* stage[c]: how far the call of c has come
  call,        \* call[c]: the call, None when there is none
  rest,        \* rest[c]: the rows still to be read or inserted
  got,         \* got[c]: the rows read
  answer       \* answer[c]: what the call returns, None until it does

poolVars == <<table, saved, conn, stage, call, rest, got, answer>>

Stage == {"idle", "waiting", "reading", "inserting", "answered"}

Holding(c) == stage[c] \in {"reading", "inserting"}

Answer == [ok : BOOLEAN, rows : SUBSET (Id \X Value)]

\* The promise: what a transaction has not committed is not in the file.
Atomic == INSTANCE AtomicCalls WITH
  file <- IF \E c \in Caller : stage[c] = "inserting" THEN saved ELSE table,
  at <- [c \in Caller |-> IF stage[c] \in {"idle", "answered"} THEN stage[c]
                                                               ELSE "called"]

PoolInit ==
  /\ table \in Atomic!Table
  /\ saved = None
  /\ conn = None
  /\ stage = [c \in Caller |-> "idle"]
  /\ call = [c \in Caller |-> None]
  /\ rest = [c \in Caller |-> {}]
  /\ got = [c \in Caller |-> {}]
  /\ answer = [c \in Caller |-> None]
-----------------------------------------------------------------------------
\* The call takes the connection for the statements to come.
Take(c, next, ids) ==
  /\ conn = None
  /\ conn' = c
  /\ stage' = [stage EXCEPT ![c] = next]
  /\ rest' = [rest EXCEPT ![c] = ids]
  /\ UNCHANGED <<call, got, answer>>

\* The call returns, and leaves the connection to the next.
Give(c, result) ==
  /\ conn' = None
  /\ stage' = [stage EXCEPT ![c] = "answered"]
  /\ rest' = [rest EXCEPT ![c] = {}]
  /\ got' = [got EXCEPT ![c] = {}]
  /\ answer' = [answer EXCEPT ![c] = result]
  /\ UNCHANGED call

Request(c) ==
  /\ stage[c] = "idle"
  /\ stage' = [stage EXCEPT ![c] = "waiting"]
  /\ \E k \in Atomic!Call : call' = [call EXCEPT ![c] = k]
  /\ UNCHANGED <<table, saved, conn, rest, got, answer>>

\* Query: the rows are open until they have been read.
Query(c) ==
  /\ stage[c] = "waiting"
  /\ call[c].op = "list"
  /\ Take(c, "reading", Atomic!Present(table))
  /\ UNCHANGED <<table, saved>>

\* rows.Next and the scan.
ReadRow(c) ==
  /\ stage[c] = "reading"
  /\ \E i \in rest[c] :
       /\ rest' = [rest EXCEPT ![c] = @ \ {i}]
       /\ got' = [got EXCEPT ![c] = @ \cup {<<i, table[i]>>}]
  /\ UNCHANGED <<table, saved, conn, stage, call, answer>>

CloseRows(c) ==
  /\ stage[c] = "reading"
  /\ rest[c] = {}
  /\ Give(c, [ok |-> TRUE, rows |-> got[c]])
  /\ UNCHANGED <<table, saved>>

ReadFailsRowsOpen(c) ==
  /\ stage[c] = "reading"
  /\ stage' = [stage EXCEPT ![c] = "answered"]
  /\ answer' = [answer EXCEPT ![c] = Atomic!Failed]
  /\ rest' = [rest EXCEPT ![c] = {}]
  /\ got' = [got EXCEPT ![c] = {}]
  /\ UNCHANGED <<table, saved, conn, call>>

\* The early return of a list; the deferred rows.Close runs nevertheless.
ReadFails(c) ==
  /\ stage[c] = "reading"
  /\ Give(c, Atomic!Failed)
  /\ UNCHANGED <<table, saved>>

\* Exec of a single statement.
Update(c) ==
  /\ stage[c] = "waiting"
  /\ conn = None
  /\ call[c].op = "update"
  /\ table' = Atomic!Effect(call[c], table)
  /\ Give(c, Atomic!Result(call[c], table))
  /\ UNCHANGED saved

\* The first statement of a call fails.
StatementFails(c) ==
  /\ stage[c] = "waiting"
  /\ conn = None
  /\ Give(c, Atomic!Failed)
  /\ UNCHANGED <<table, saved>>

Begin(c) ==
  /\ stage[c] = "waiting"
  /\ call[c].op = "create"
  /\ Take(c, "inserting", call[c].ids)
  /\ saved' = table
  /\ UNCHANGED table

Abandon(c) ==
  /\ saved' = None
  /\ Give(c, Atomic!Failed)
  /\ UNCHANGED table

Rollback(c) ==
  /\ table' = saved
  /\ saved' = None
  /\ Give(c, Atomic!Failed)

InsertFromPool(c) ==
  /\ stage[c] = "inserting"
  /\ conn = None
  /\ \E i \in rest[c] :
       IF table[i] = None
         THEN /\ table' = [table EXCEPT ![i] = call[c].value]
              /\ rest' = [rest EXCEPT ![c] = @ \ {i}]
              /\ UNCHANGED <<saved, conn, stage, call, got, answer>>
         ELSE Rollback(c)

\* The prepared statement of the transaction, for one row.
Insert(c) ==
  /\ stage[c] = "inserting"
  /\ \E i \in rest[c] :
       IF table[i] = None
         THEN /\ table' = [table EXCEPT ![i] = call[c].value]
              /\ rest' = [rest EXCEPT ![c] = @ \ {i}]
              /\ UNCHANGED <<saved, conn, stage, call, got, answer>>
         ELSE Rollback(c)

Commit(c) ==
  /\ stage[c] = "inserting"
  /\ rest[c] = {}
  /\ saved' = None
  /\ Give(c, [ok |-> TRUE, rows |-> {}])
  /\ UNCHANGED table

\* Prepare, an Exec or Commit fails: nothing of the transaction stays.
TransactionFails(c) == stage[c] = "inserting" /\ Rollback(c)

CallReturns(c) ==
  /\ stage[c] = "answered"
  /\ stage' = [stage EXCEPT ![c] = "idle"]
  /\ call' = [call EXCEPT ![c] = None]
  /\ answer' = [answer EXCEPT ![c] = None]
  /\ UNCHANGED <<table, saved, conn, rest, got>>

\* What gets the connection, and what goes on with it.
Enter(c) == Query(c) \/ Update(c) \/ Begin(c)
Proceed(c) == ReadRow(c) \/ CloseRows(c) \/ Insert(c) \/ Commit(c)

PoolNext ==
  \E c \in Caller :
    \/ Request(c)
    \/ Enter(c)
    \/ Proceed(c)
    \/ StatementFails(c)
    \/ ReadFails(c)
    \/ TransactionFails(c)
    \/ CallReturns(c)

PoolSpec == PoolInit /\ [][PoolNext]_poolVars

\* A goroutine with the connection runs on.  Of those that wait database/sql
\* picks one at random, so that none is passed over for ever; no failure is
\* needed to end a call.
PoolFairness ==
  \A c \in Caller : WF_poolVars(Proceed(c)) /\ SF_poolVars(Enter(c))

PoolFairSpec == PoolSpec /\ PoolFairness
-----------------------------------------------------------------------------
(***************************************************************************)
(* Properties.                                                             *)
(***************************************************************************)

\* The connection is with the call that has rows or a transaction open, and
\* what the call has read or will insert are rows.
PoolTypeOK ==
  /\ table \in Atomic!Table
  /\ saved \in Atomic!Table \cup {None}
  /\ conn \in Caller \cup {None}
  /\ stage \in [Caller -> Stage]
  /\ call \in [Caller -> Atomic!Call \cup {None}]
  /\ rest \in [Caller -> SUBSET Id]
  /\ got \in [Caller -> SUBSET (Id \X Value)]
  /\ answer \in [Caller -> Answer \cup {None}]
  /\ \A c \in Caller :
       /\ Holding(c) <=> conn = c
       /\ stage[c] \in {"waiting", "reading", "inserting"}
            => call[c] \in Atomic!Call

\* A call of the store is atomic, although a list reads row by row and a batch
\* is inserted row by row: what it reads and leaves is that of one moment, and
\* a batch that fails halfway leaves nothing.
CallsAtomic == Atomic!AtomicSpec

\* No call waits for ever, least of all for itself: whatever has the connection
\* gives it back, on the paths of errors too (store.go:29).
CallsReturn == \A c \in Caller : stage[c] = "waiting" ~> stage[c] = "answered"
=============================================================================
