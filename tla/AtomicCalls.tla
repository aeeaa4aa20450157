----------------------------- MODULE AtomicCalls -----------------------------
(***************************************************************************)
(* What Store assumes of the calls of internal/store: each takes effect at *)
(* one moment between its invocation and its return, or fails and takes    *)
(* none.  It is the reason why a store call is one step of a request.      *)
(***************************************************************************)
CONSTANTS
  Caller,      \* the goroutines that use the store
  Id,          \* ids of rows
  Value,       \* contents of rows
  None         \* no row

VARIABLES
  file,        \* file[i]: the row in the database file, or None
  at,          \* at[c]: "idle", "called" or "answered"
  call,        \* call[c]: the call of c, None when there is none
  answer       \* answer[c]: what the call returns, None until it does

atomicVars == <<file, at, call, answer>>

Table == [Id -> Value \cup {None}]

Call ==
  [op : {"list"}]
    \cup [op : {"update"}, id : Id, value : Value]
    \cup [op : {"create"}, ids : SUBSET Id, value : Value]

Failed == [ok |-> FALSE, rows |-> {}]

AtomicInit ==
  /\ file \in Table
  /\ at = [c \in Caller |-> "idle"]
  /\ call = [c \in Caller |-> None]
  /\ answer = [c \in Caller |-> None]

Invoke(c) ==
  /\ at[c] = "idle"
  /\ at' = [at EXCEPT ![c] = "called"]
  /\ \E k \in Call : call' = [call EXCEPT ![c] = k]
  /\ UNCHANGED <<file, answer>>
-----------------------------------------------------------------------------
\* A row with the id of another is refused by the primary key.
Possible(k, tab) == k.op = "create" => \A i \in k.ids : tab[i] = None

Present(tab) == {i \in Id : tab[i] # None}

Rows(tab) == {<<i, tab[i]>> : i \in Present(tab)}

Result(k, tab) == [ok |-> TRUE, rows |-> IF k.op = "list" THEN Rows(tab) ELSE {}]

\* UPDATE of a row that is not there updates nothing.
Effect(k, tab) ==
  CASE k.op = "list"   -> tab
    [] k.op = "update" -> [i \in Id |-> IF i = k.id /\ tab[i] # None
                                          THEN k.value ELSE tab[i]]
    [] k.op = "create" -> [i \in Id |-> IF i \in k.ids THEN k.value ELSE tab[i]]
-----------------------------------------------------------------------------
Perform(c) ==
  /\ at[c] = "called"
  /\ at' = [at EXCEPT ![c] = "answered"]
  /\ Possible(call[c], file)
  /\ answer' = [answer EXCEPT ![c] = Result(call[c], file)]
  /\ file' = Effect(call[c], file)
  /\ UNCHANGED call

Refuse(c) ==
  /\ at[c] = "called"
  /\ at' = [at EXCEPT ![c] = "answered"]
  /\ answer' = [answer EXCEPT ![c] = Failed]
  /\ UNCHANGED <<file, call>>

Return(c) ==
  /\ at[c] = "answered"
  /\ at' = [at EXCEPT ![c] = "idle"]
  /\ call' = [call EXCEPT ![c] = None]
  /\ answer' = [answer EXCEPT ![c] = None]
  /\ UNCHANGED file

AtomicNext == \E c \in Caller : Invoke(c) \/ Perform(c) \/ Refuse(c) \/ Return(c)

AtomicSpec == AtomicInit /\ [][AtomicNext]_atomicVars
=============================================================================
