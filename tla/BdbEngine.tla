----------------------------- MODULE BdbEngine -----------------------------
(***************************************************************************)
(* The storage engine under the wrapper, as seen by its record calls.      *)
(* Berkeley DB itself is not part of this repository; this module states   *)
(* the behaviour the wrapper relies on and is shared by the modules of the *)
(* wrapper's operations:                                                   *)
(*   - a committed store of records, abstracted to their lengths;          *)
(*   - in a transactional environment a call locks its key until its       *)
(*     transaction ends (read locks shared, write locks exclusive) and its *)
(*     writes stay buffered in the transaction until commit;               *)
(*   - a call that must wait for a lock may be aborted by the lock manager *)
(*     as a deadlock victim while the lock holder is still running;        *)
(*   - with EngineFaults, any call, abort or commit may fail;              *)
(*   - Db::truncate takes a lock on the whole database: it waits for, and  *)
(*     is waited for by, every other live transaction, and its commit      *)
(*     empties the store.                                                  *)
(***************************************************************************)
EXTENDS Integers, FiniteSets

CONSTANTS
  Threads,       \* threads calling into one DatabaseImpl
  Keys,          \* keys (model values)
  Sizes,         \* record lengths a put may write
  Caps,          \* capacities of caller-supplied get buffers
  Transacted,    \* environment opened with InitTxn, PerCall transaction mode
  EngineFaults   \* the engine may fail a call, an abort or a commit

ASSUME Transacted \in BOOLEAN /\ EngineFaults \in BOOLEAN
ASSUME Sizes \subseteq Nat /\ Caps \subseteq Nat

NoRecord == -1       \* the store holds no record under the key
Unset == -2          \* no write buffered in the transaction

VARIABLES
  store,    \* committed record length per key
  pc,       \* where each thread is in its call ("idle" between calls)
  req,      \* the call each thread is making
  locked,   \* the thread's live transaction holds the lock on its key
  pending   \* length written by the live transaction, not yet committed

NoReply == [kind |-> "none", n |-> -1]
ErrorReply == [kind |-> "error", n |-> -1]
NoRequest == [op |-> "none", key |-> CHOOSE k \in Keys : TRUE, n |-> 0, flag |-> "none"]

IsWrite(op) == op \in {"Put", "Delete", "Truncate"}

(* Thread u's live transaction holds a lock that t's call must wait for. *)
Blocks(u, t) ==
  /\ locked[u]
  /\ req[u].key = req[t].key \/ "Truncate" \in {req[u].op, req[t].op}
  /\ IsWrite(req[u].op) \/ IsWrite(req[t].op)

Conflict(t) == \E u \in Threads \ {t} : Blocks(u, t)

(* The lock manager may abort t's waiting call as a deadlock victim when  *)
(* the holder is itself still running (and so may be waiting in turn).    *)
Victim(t) == Transacted /\ \E u \in Threads \ {t} : Blocks(u, t) /\ pc[u] # "idle"

(* What Db::get, put, del and exists return for request r when the key    *)
(* holds v.  A get into a buffer too small for the record fails with      *)
(* DB_BUFFER_SMALL (thrown as DbMemoryException); Get(String) lets the     *)
(* engine allocate the value (DB_DBT_MALLOC), which is never too small.   *)
CallRet(r, v) ==
  CASE r.op \in {"Get", "GetLength"} ->
         IF v = NoRecord THEN "NOTFOUND"
         ELSE IF v > r.n THEN "BUFFER_SMALL" ELSE "SUCCESS"
    [] r.op = "Put" ->
         IF r.flag = "nooverwrite" /\ v # NoRecord THEN "KEYEXIST" ELSE "SUCCESS"
    [] r.op \in {"Delete", "Exists", "GetString"} ->
         IF v = NoRecord THEN "NOTFOUND" ELSE "SUCCESS"
    [] r.op = "Truncate" -> "SUCCESS"

(* The length the call writes under its key. *)
CallWrite(r, v) ==
  CASE r.op = "Put" /\ CallRet(r, v) = "SUCCESS" -> r.n
    [] r.op \in {"Delete", "Truncate"} -> NoRecord
    [] OTHER -> v

(* The records Db::truncate discards from the store s.                    *)
RecordCount(s) == Cardinality({k \in Keys : s[k] # NoRecord})

(* The store s after request r writes w: under its key, or, for a         *)
(* truncate, everywhere.                                                  *)
Written(s, r, w) ==
  IF r.op = "Truncate" THEN [k \in Keys |-> NoRecord] ELSE [s EXCEPT ![r.key] = w]

(* The engine ends t's transaction: its lock and buffered write go. *)
EndEngineTxn(t) ==
  /\ locked' = [locked EXCEPT ![t] = FALSE]
  /\ pending' = [pending EXCEPT ![t] = Unset]

(* t's engine call takes its lock and, inside a transaction, buffers its  *)
(* write; without a transaction the write reaches the store at once.      *)
EngineCall(t) ==
  LET r == req[t]
      v == store[r.key]
  IN
  /\ locked' = [locked EXCEPT ![t] = Transacted]
  /\ IF Transacted
       THEN /\ pending' = [pending EXCEPT ![t] = IF IsWrite(r.op) THEN CallWrite(r, v) ELSE Unset]
            /\ UNCHANGED store
       ELSE /\ store' = Written(store, r, CallWrite(r, v))
            /\ UNCHANGED pending

(* t's transaction commits: its buffered write reaches the store. *)
CommitWrite(t) ==
  store' = IF locked[t] /\ pending[t] # Unset
             THEN Written(store, req[t], pending[t])
             ELSE store
=============================================================================
