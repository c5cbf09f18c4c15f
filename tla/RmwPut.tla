------------------------------ MODULE RmwPut ------------------------------
(***************************************************************************)
(* The read-modify-write Put of DatabaseImpl                               *)
(* (Put(objectId, key, dbEntry, rmwDelegate), DatabaseImpl.cpp 384-632)    *)
(* called by several threads on one key of a transactional store.          *)
(*                                                                         *)
(* Each pass of its while loop begins a transaction, opens a cursor,       *)
(* positions it with DB_SET|DB_RMW (taking the key's write lock when the   *)
(* record exists), hands dbEntry to the caller's delegate and then, by the *)
(* Length the delegate left:                                               *)
(*   found and Length > 0      -> cur->put(DB_CURRENT)                     *)
(*   not found and Length > 0  -> put(DB_NOOVERWRITE); KEYEXIST is turned  *)
(*                                into a deadlock after --retry_count      *)
(*   found and Length = 0      -> cur->del                                 *)
(*   not found and Length = 0  -> nothing                                  *)
(* then closes the cursor and commits.  The catch clause for a deadlock    *)
(* aborts and retries; the finally closes a cursor still open.  A managed  *)
(* exception (thrown by the delegate, or the BdbException a failed        *)
(* cur->close() is rethrown as) passes the native catch clauses.           *)
(*                                                                         *)
(* The key's lock is held by at most one transaction: a thread's live one, *)
(* or a transaction no thread refers to any more (Leaked).  Concurrent     *)
(* Data Store mode (m_isCDB) is not modelled.                              *)
(***************************************************************************)
EXTENDS Integers

CONSTANTS
  Threads,
  Sizes,                     \* record lengths a delegate may produce (> 0)
  MaxDeadlockRetriesConfig,  \* DatabaseConfig.MaxDeadlockRetries
  DelegateFaults,            \* the delegate may throw
  CloseFaults,               \* cur->close() may fail
  MaxCommits                 \* bound on committed changes of the record

ASSUME Sizes \subseteq Nat \ {0} /\ MaxDeadlockRetriesConfig \in Nat \ {0}

NoRecord == -1
Unset == -2
NoTxn == "none"
Leaked == "leaked"

VARIABLES
  store,    \* committed length of the record
  commits,  \* commits that changed the record so far (bounded by MaxCommits)
  holder,   \* transaction holding the key's write lock: a thread, NoTxn or Leaked
  pc,
  txn,      \* txn: "null", "live" or "dangling"
  cur,      \* cur: "null" or "open"
  retry,    \* retry_count
  ret,      \* ret
  length,   \* dbEntry->Length
  window,   \* dlen/size of dbtGetValue, set from dbEntry->Length before the loop
  pending,  \* length written by the live transaction, not yet committed
  seen,     \* the committed length the last cursor get saw (history)
  passes,   \* passes of the while loop the current call began (history)
  base,     \* commits when the current call was invoked (history)
  result

vars == <<store, commits, holder, pc, txn, cur, retry, ret, length, window,
          pending, seen, passes, base, result>>

m_maxDeadlockRetries == MaxDeadlockRetriesConfig

Lengths == {0} \cup Sizes

Free(t) == holder \in {NoTxn, t}

(* The lock manager picks t's waiting call as a deadlock victim while the *)
(* lock's holder is itself running.                                       *)
Victim(t) == holder \in Threads \ {t} /\ pc[holder] # "idle"

(* RollbackTrans(txn): the transaction's lock and write go. *)
Abort(t) ==
  /\ holder' = IF holder = t THEN NoTxn ELSE holder
  /\ pending' = [pending EXCEPT ![t] = Unset]
  /\ txn' = [txn EXCEPT ![t] = "dangling"]

-----------------------------------------------------------------------------
Init ==
  /\ store = NoRecord
  /\ commits = 0
  /\ holder = NoTxn
  /\ pc = [t \in Threads |-> "idle"]
  /\ txn = [t \in Threads |-> "null"]
  /\ cur = [t \in Threads |-> "null"]
  /\ retry = [t \in Threads |-> 0]
  /\ ret = [t \in Threads |-> "SUCCESS"]
  /\ length = [t \in Threads |-> 0]
  /\ window = [t \in Threads |-> 0]
  /\ pending = [t \in Threads |-> Unset]
  /\ seen = [t \in Threads |-> NoRecord]
  /\ passes = [t \in Threads |-> 0]
  /\ base = [t \in Threads |-> 0]
  /\ result = [t \in Threads |-> "none"]

(* The caller passes dbEntry with its Length; dbtGetValue's partial      *)
(* window is set from it once, before the loop.                          *)
Invoke(t, len) ==
  /\ pc[t] = "idle"
  /\ commits < MaxCommits
  /\ pc' = [pc EXCEPT ![t] = "begin"]
  /\ length' = [length EXCEPT ![t] = len]
  /\ window' = [window EXCEPT ![t] = len]
  /\ retry' = [retry EXCEPT ![t] = 0]
  /\ txn' = [txn EXCEPT ![t] = "null"]
  /\ result' = [result EXCEPT ![t] = "none"]
  /\ passes' = [passes EXCEPT ![t] = 0]
  /\ base' = [base EXCEPT ![t] = commits]
  /\ UNCHANGED <<store, commits, holder, cur, ret, pending, seen>>

(* txn = BeginTrans(); m_pDb->cursor(txn, &cur, 0). *)
Begin(t) ==
  /\ pc[t] = "begin"
  /\ retry[t] < m_maxDeadlockRetries
  /\ txn' = [txn EXCEPT ![t] = "live"]
  /\ cur' = [cur EXCEPT ![t] = "open"]
  /\ pc' = [pc EXCEPT ![t] = "get"]
  /\ passes' = [passes EXCEPT ![t] = @ + 1]
  /\ UNCHANGED <<store, commits, holder, retry, ret, length, window, pending, seen, base, result>>

(* cur->get(DB_SET|DB_RMW) once the lock is free: a found record is       *)
(* write-locked; a missing one sets dbEntry->Length = 0.                  *)
GetRmw(t) ==
  /\ pc[t] = "get"
  /\ Free(t)
  /\ IF store # NoRecord
       THEN /\ holder' = t
            /\ ret' = [ret EXCEPT ![t] = "SUCCESS"]
            /\ UNCHANGED length
       ELSE /\ ret' = [ret EXCEPT ![t] = "NOTFOUND"]
            /\ length' = [length EXCEPT ![t] = 0]
            /\ UNCHANGED holder
  /\ seen' = [seen EXCEPT ![t] = store]
  /\ pc' = [pc EXCEPT ![t] = "delegate"]
  /\ UNCHANGED <<store, commits, txn, cur, retry, window, pending, result, passes, base>>

(* The get waits for the lock and is picked as deadlock victim. *)
GetDeadlock(t) ==
  /\ pc[t] = "get"
  /\ Victim(t)
  /\ pc' = [pc EXCEPT ![t] = "catch"]
  /\ UNCHANGED <<store, commits, holder, txn, cur, retry, ret, length, window, pending, seen, result, passes, base>>

(* rmwDelegate(dbEntry) returns, leaving some Length in dbEntry. *)
Delegate(t) ==
  /\ pc[t] = "delegate"
  /\ \E len \in Lengths : length' = [length EXCEPT ![t] = len]
  /\ pc' = [pc EXCEPT ![t] = "write"]
  /\ UNCHANGED <<store, commits, holder, txn, cur, retry, ret, window, pending, seen, result, passes, base>>

(* rmwDelegate throws.  No native catch clause takes the managed          *)
(* exception: the finally closes the cursor and the call leaves with the  *)
(* transaction never aborted, its lock held by no one's transaction.      *)
DelegateThrows(t) ==
  /\ DelegateFaults
  /\ pc[t] = "delegate"
  /\ holder' = IF holder = t THEN Leaked ELSE holder
  /\ cur' = [cur EXCEPT ![t] = "null"]
  /\ txn' = [txn EXCEPT ![t] = "null"]
  /\ pending' = [pending EXCEPT ![t] = Unset]
  /\ result' = [result EXCEPT ![t] = "error"]
  /\ pc' = [pc EXCEPT ![t] = "idle"]
  /\ UNCHANGED <<store, commits, retry, ret, length, window, seen, passes, base>>

(* Found and Length > 0: cur->put(NULL, &dbtSetValue, DB_CURRENT). *)
WriteCurrent(t) ==
  /\ pc[t] = "write"
  /\ ret[t] = "SUCCESS" /\ length[t] > 0
  /\ pending' = [pending EXCEPT ![t] = length[t]]
  /\ pc' = [pc EXCEPT ![t] = "close"]
  /\ UNCHANGED <<store, commits, holder, txn, cur, retry, ret, length, window, seen, result, passes, base>>

(* Variant: the insert without DB_NOOVERWRITE. *)
WriteInsertOverwrite(t) ==
  /\ pc[t] = "write"
  /\ ret[t] = "NOTFOUND" /\ length[t] > 0
  /\ Free(t)
  /\ holder' = t
  /\ pending' = [pending EXCEPT ![t] = length[t]]
  /\ pc' = [pc EXCEPT ![t] = "close"]
  /\ UNCHANGED <<store, commits, txn, cur, retry, ret, length, window, seen, result, passes, base>>

(* Variant: a lost insert decrements retry_count and loops again without  *)
(* passing through the deadlock clause.                                   *)
WriteInsertContinue(t) ==
  /\ pc[t] = "write"
  /\ ret[t] = "NOTFOUND" /\ length[t] > 0
  /\ Free(t)
  /\ IF store = NoRecord
       THEN /\ holder' = t
            /\ pending' = [pending EXCEPT ![t] = length[t]]
            /\ pc' = [pc EXCEPT ![t] = "close"]
            /\ UNCHANGED <<retry, ret>>
       ELSE /\ ret' = [ret EXCEPT ![t] = "LOCK_DEADLOCK"]
            /\ retry' = [retry EXCEPT ![t] = @ - 1]
            /\ pc' = [pc EXCEPT ![t] = "begin"]
            /\ UNCHANGED <<holder, pending>>
  /\ UNCHANGED <<store, commits, txn, cur, length, window, seen, result, passes, base>>

(* Not found and Length > 0: put(txn, DB_NOOVERWRITE) once the lock is    *)
(* free.  KEYEXIST becomes ret = LOCK_DEADLOCK, --retry_count and a thrown *)
(* DbDeadlockException.                                                   *)
WriteInsert(t) ==
  /\ pc[t] = "write"
  /\ ret[t] = "NOTFOUND" /\ length[t] > 0
  /\ Free(t)
  /\ IF store = NoRecord
       THEN /\ holder' = t
            /\ pending' = [pending EXCEPT ![t] = length[t]]
            /\ pc' = [pc EXCEPT ![t] = "close"]
            /\ UNCHANGED <<retry, ret>>
       ELSE /\ ret' = [ret EXCEPT ![t] = "LOCK_DEADLOCK"]
            /\ retry' = [retry EXCEPT ![t] = @ - 1]
            /\ pc' = [pc EXCEPT ![t] = "catch"]
            /\ UNCHANGED <<holder, pending>>
  /\ UNCHANGED <<store, commits, txn, cur, length, window, seen, result, passes, base>>

(* The insert waits for the lock and is picked as deadlock victim. *)
WriteDeadlock(t) ==
  /\ pc[t] = "write"
  /\ ret[t] = "NOTFOUND" /\ length[t] > 0
  /\ Victim(t)
  /\ pc' = [pc EXCEPT ![t] = "catch"]
  /\ UNCHANGED <<store, commits, holder, txn, cur, retry, ret, length, window, pending, seen, result, passes, base>>

(* Length = 0: cur->del(0) of the found record, or nothing (ret = SUCCESS). *)
WriteDelete(t) ==
  /\ pc[t] = "write"
  /\ length[t] = 0
  /\ pending' = [pending EXCEPT ![t] = IF ret[t] = "SUCCESS" THEN NoRecord ELSE Unset]
  /\ ret' = [ret EXCEPT ![t] = "SUCCESS"]
  /\ pc' = [pc EXCEPT ![t] = "close"]
  /\ UNCHANGED <<store, commits, holder, txn, cur, retry, length, window, seen, result, passes, base>>

(* Variant: the call returns after closing the cursor without            *)
(* CommitTrans(txn); the transaction is abandoned with its lock.          *)
CloseCommitMissing(t) ==
  /\ pc[t] = "close"
  /\ cur' = [cur EXCEPT ![t] = "null"]
  /\ holder' = IF holder = t THEN Leaked ELSE holder
  /\ pending' = [pending EXCEPT ![t] = Unset]
  /\ txn' = [txn EXCEPT ![t] = "null"]
  /\ result' = [result EXCEPT ![t] = "ok"]
  /\ pc' = [pc EXCEPT ![t] = "idle"]
  /\ UNCHANGED <<store, commits, retry, ret, length, window, seen, passes, base>>

(* cur->close(), cur = NULL, CommitTrans(txn), return. *)
CloseCommit(t) ==
  /\ pc[t] = "close"
  /\ cur' = [cur EXCEPT ![t] = "null"]
  /\ IF pending[t] # Unset /\ holder = t
       THEN /\ store' = pending[t]
            /\ commits' = commits + 1
       ELSE UNCHANGED <<store, commits>>
  /\ holder' = IF holder = t THEN NoTxn ELSE holder
  /\ pending' = [pending EXCEPT ![t] = Unset]
  /\ txn' = [txn EXCEPT ![t] = "dangling"]
  /\ result' = [result EXCEPT ![t] = "ok"]
  /\ pc' = [pc EXCEPT ![t] = "idle"]
  /\ UNCHANGED <<retry, ret, length, window, seen, passes, base>>

(* cur->close() fails.  The catch (exception &cle) around it rethrows it  *)
(* as a managed BdbException after the inner finally set cur = NULL; no   *)
(* native catch clause takes it and the outer finally finds no cursor, so *)
(* the call leaves with its transaction neither committed nor aborted.    *)
CloseFails(t) ==
  /\ CloseFaults
  /\ pc[t] = "close"
  /\ cur' = [cur EXCEPT ![t] = "null"]
  /\ holder' = IF holder = t THEN Leaked ELSE holder
  /\ pending' = [pending EXCEPT ![t] = Unset]
  /\ txn' = [txn EXCEPT ![t] = "null"]
  /\ result' = [result EXCEPT ![t] = "error"]
  /\ pc' = [pc EXCEPT ![t] = "idle"]
  /\ UNCHANGED <<store, commits, retry, ret, length, window, seen, passes, base>>

(* Variant: the deadlock clause does not count the retry. *)
CatchDeadlockUncounted(t) ==
  /\ pc[t] = "catch"
  /\ Abort(t)
  /\ result' = [result EXCEPT ![t] =
                  IF retry[t] >= m_maxDeadlockRetries THEN "deadlock" ELSE @]
  /\ pc' = [pc EXCEPT ![t] = "finally"]
  /\ UNCHANGED <<store, commits, cur, retry, ret, length, window, seen, passes, base>>

(* catch (DbDeadlockException): RollbackTrans(txn); retry_count++; at the *)
(* limit errx and a thrown BdbException.                                  *)
CatchDeadlock(t) ==
  /\ pc[t] = "catch"
  /\ Abort(t)
  /\ retry' = [retry EXCEPT ![t] = @ + 1]
  /\ result' = [result EXCEPT ![t] =
                  IF retry[t] + 1 >= m_maxDeadlockRetries THEN "deadlock" ELSE @]
  /\ pc' = [pc EXCEPT ![t] = "finally"]
  /\ UNCHANGED <<store, commits, cur, ret, length, window, seen, passes, base>>

(* finally: a cursor still open is closed; the loop goes on unless the    *)
(* deadlock clause threw.                                                 *)
Finally(t) ==
  /\ pc[t] = "finally"
  /\ cur' = [cur EXCEPT ![t] = "null"]
  /\ pc' = [pc EXCEPT ![t] = IF result[t] = "deadlock" THEN "idle" ELSE "begin"]
  /\ UNCHANGED <<store, commits, holder, txn, retry, ret, length, window, pending, seen, result, passes, base>>

(* The steps of a call in progress. *)
Step(t) ==
  \/ Begin(t) \/ GetRmw(t) \/ GetDeadlock(t) \/ Delegate(t) \/ DelegateThrows(t)
  \/ WriteCurrent(t) \/ WriteInsert(t) \/ WriteDeadlock(t) \/ WriteDelete(t)
  \/ CloseCommit(t) \/ CatchDeadlock(t) \/ Finally(t)

Next ==
  \E t \in Threads : (\E len \in Lengths : Invoke(t, len)) \/ Step(t) \/ CloseFails(t)

(* Threads are scheduled by the OS: a thread that can take its next step  *)
(* eventually does.  Callers need not call again.  A failing cur->close() *)
(* is the engine's doing and is not assumed ever to happen.               *)
Spec == Init /\ [][Next]_vars /\ \A t \in Threads : WF_vars(Step(t))

-----------------------------------------------------------------------------
TypeOK ==
  /\ store \in {NoRecord} \cup Sizes
  /\ commits \in Nat
  /\ holder \in Threads \cup {NoTxn, Leaked}
  /\ pc \in [Threads -> {"idle", "begin", "get", "delegate", "write", "close",
                         "catch", "finally"}]
  /\ txn \in [Threads -> {"null", "live", "dangling"}]
  /\ cur \in [Threads -> {"null", "open"}]
  /\ retry \in [Threads -> -1..m_maxDeadlockRetries]
  /\ ret \in [Threads -> {"SUCCESS", "NOTFOUND", "LOCK_DEADLOCK"}]
  /\ length \in [Threads -> Lengths]
  /\ window \in [Threads -> Lengths]
  /\ pending \in [Threads -> {Unset, NoRecord} \cup Sizes]
  /\ seen \in [Threads -> {NoRecord} \cup Sizes]
  /\ passes \in [Threads -> Nat]
  /\ base \in [Threads -> Nat]
  /\ result \in [Threads -> {"none", "ok", "error", "deadlock"}]

(* No lost update (spec.md 4.5, read-modify-write): a call commits its    *)
(* write only onto the record its delegate was shown -- the DB_RMW lock   *)
(* keeps a found record from changing, and DB_NOOVERWRITE turns an insert *)
(* raced by another thread's committed insert into a retry.               *)
NoLostUpdate ==
  [][\A t \in Threads :
       (pc[t] = "close" /\ pc'[t] = "idle" /\ pending[t] # Unset /\ holder = t)
         => store = seen[t]]_vars

(* Every lock the key's write lock is taken by is released again: no call *)
(* leaves a transaction behind that keeps other callers waiting.          *)
LockEventuallyFree == (holder # NoTxn) ~> (holder = NoTxn)

(* Every write lock a call takes is given up by the end of its            *)
(* transaction (CloseCommit's commit or an abort), unless a managed        *)
(* exception left the call -- the delegate threw or cur->close() failed:   *)
(* then the lock is left to no thread's transaction and the call fails     *)
(* (rmw_leak shows the delegate case).  No call that reports success       *)
(* leaves its lock behind.                                                 *)
LockReleasedUnlessCallFailed ==
  \A t \in Threads :
    (holder = t) ~> (holder = NoTxn \/ (holder = Leaked /\ result[t] = "error"))

(* The retry budget counts conflicts only (spec.md 4.5, read-modify-write): *)
(* a lost DB_NOOVERWRITE insert decrements retry_count before the deadlock  *)
(* clause increments it, so a call makes at most MaxDeadlockRetries passes  *)
(* of its while loop plus one for each pass whose insert lost, and an       *)
(* insert loses only to a commit by another caller made during the call.    *)
RetryPassesBounded ==
  \A t \in Threads :
    pc[t] # "idle" => passes[t] <= m_maxDeadlockRetries + (commits - base[t])

=============================================================================
