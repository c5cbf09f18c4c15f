----------------------------- MODULE LegacyOps -----------------------------
(***************************************************************************)
(* The older record operations of DatabaseImpl that run their own          *)
(* deadlock loop on a raw DbTxn pointer instead of DeadlockLoop and               *)
(* TransactionContext: Put(Dbt, Dbt), Get(Dbt, Dbt) and Delete(Dbt)   *)
(* (DatabaseImpl.cpp 294-382, 942-1037, 1518-1602), reached from the       *)
(* typed overloads Put(String, String), Get(DatabaseEntry, DatabaseEntry), *)
(* Delete(int) and the like, and Truncate() (2073-2154), whose loop is     *)
(* Put's with m_pDb->truncate as the call and count as its result.         *)
(*                                                                         *)
(* Each pass of the while loop does txn = BeginTrans(); the engine call;   *)
(* CommitTrans(txn), and the catch clauses roll txn back.  The local txn   *)
(* keeps its pointer after commit or abort, and ret keeps the value of     *)
(* the last call that returned.  For Get and Delete the switch(ret) stands *)
(* after the try block, so it also runs after a deadlock that is retried.  *)
(***************************************************************************)
EXTENDS BdbEngine

CONSTANTS MaxDeadlockRetriesConfig   \* DatabaseConfig.MaxDeadlockRetries

(* spec.md 8: retry limits N >= 1.  With N = 0 no loop pass runs at all. *)
ASSUME MaxDeadlockRetriesConfig \in Nat \ {0}

VARIABLES
  txn,      \* the local DbTxn pointer: "null", "live" or "dangling" (freed by commit/abort)
  retry,    \* retry_count
  ret,      \* ret, last value returned by the engine call (0 = SUCCESS at entry)
  size,     \* dbtValue's size field
  result,   \* what the operation returned or threw to its caller
  attempts  \* engine calls made by the current operation (history)

vars == <<store, pc, req, locked, pending, txn, retry, ret, size, result, attempts>>

(* Put(Dbt, Dbt) passes flags 0; Get reads into a DB_DBT_USERMEM buffer;  *)
(* Get(String) has the engine allocate the value.                         *)
Requests ==
       [op : {"Get"}, key : Keys, n : Caps, flag : {"none"}]
  \cup [op : {"GetString"}, key : Keys, n : {0}, flag : {"none"}]
  \cup [op : {"Put"}, key : Keys, n : Sizes, flag : {"none"}]
  \cup [op : {"Delete"}, key : Keys, n : {0}, flag : {"none"}]
  \cup [op : {"Truncate"}, key : {NoRequest.key}, n : {0}, flag : {"none"}]

m_maxDeadlockRetries == IF Transacted THEN MaxDeadlockRetriesConfig ELSE 1

AttemptCap == m_maxDeadlockRetries + 1

BeginTrans == IF Transacted THEN "live" ELSE "null"

(* Put(Dbt, Dbt) and Truncate keep    the engine call inside the try block *)
(* of their while loop, so after a deadlock that is retried they call     *)
(* again; Get and Delete fall out of the try block to switch(ret).        *)
LoopsOnDeadlock(op) == op \in {"Put", "Truncate"}

(* Variant: dbtValue's size taken as the store's answer even when the    *)
(* key was not found.                                                     *)
GetSizeUnchecked(r, v, s) == IF r.op \in {"Get", "GetString"} THEN v ELSE s

(* The size the engine leaves in dbtValue: the record's length when it    *)
(* found one (also when the buffer is too small), else as it was.         *)
GetSize(r, v, s) == IF r.op \in {"Get", "GetString"} /\ v # NoRecord THEN v ELSE s

(* The value the operation gives its caller for a returned ret: Put       *)
(* returns normally on SUCCESS, Truncate the count of records it         *)
(* discarded, Get returns ret with dbtValue's size, and                   *)
(* Delete returns ret (Delete(int) hands it on; SUCCESS means deleted).   *)
(* Get(String) returns the string on SUCCESS and nullptr on NOTFOUND.     *)
(* Any other ret is thrown as a BdbException.                             *)
RetReply(r, rv, s) ==
  CASE rv = "SUCCESS" /\ r.op = "Put" -> [kind |-> "size", n |-> r.n]
    [] rv = "SUCCESS" /\ r.op \in {"Get", "GetString"} -> [kind |-> "size", n |-> s]
    [] rv = "SUCCESS" /\ r.op = "Delete" -> [kind |-> "true", n |-> -1]
    [] rv = "SUCCESS" /\ r.op = "Truncate" -> [kind |-> "size", n |-> s]
    [] rv = "NOTFOUND" /\ r.op \in {"Get", "GetString"} -> [kind |-> "notfound", n |-> -1]
    [] rv = "NOTFOUND" /\ r.op = "Delete" -> [kind |-> "false", n |-> -1]
    [] OTHER -> ErrorReply

-----------------------------------------------------------------------------
Init ==
  /\ store = [k \in Keys |-> NoRecord]
  /\ pc = [t \in Threads |-> "idle"]
  /\ req = [t \in Threads |-> NoRequest]
  /\ locked = [t \in Threads |-> FALSE]
  /\ pending = [t \in Threads |-> Unset]
  /\ txn = [t \in Threads |-> "null"]
  /\ retry = [t \in Threads |-> 0]
  /\ ret = [t \in Threads |-> "SUCCESS"]
  /\ size = [t \in Threads |-> 0]
  /\ result = [t \in Threads |-> NoReply]
  /\ attempts = [t \in Threads |-> 0]

(* A typed overload builds its Dbts (dbtValue sized to the caller's       *)
(* buffer or value) and calls the loop: ret = 0, txn = NULL, retry 0.     *)
Invoke(t, r) ==
  /\ pc[t] = "idle"
  /\ pc' = [pc EXCEPT ![t] = "call"]
  /\ req' = [req EXCEPT ![t] = r]
  /\ txn' = [txn EXCEPT ![t] = "null"]
  /\ retry' = [retry EXCEPT ![t] = 0]
  /\ ret' = [ret EXCEPT ![t] = "SUCCESS"]
  /\ size' = [size EXCEPT ![t] = r.n]
  /\ result' = [result EXCEPT ![t] = NoReply]
  /\ attempts' = [attempts EXCEPT ![t] = 0]
  /\ UNCHANGED <<store, locked, pending>>

(* txn = BeginTrans(); the engine call returns (Put, a found or missing   *)
(* key; Truncate's count of the records it discards).  A get into a too small buffer throws DbMemoryException instead: *)
(* ret is not assigned and the DbException clause takes over.             *)
Call(t) ==
  LET r == req[t]
      v == store[r.key]
      rv == CallRet(r, v)
  IN
  /\ pc[t] = "call"
  /\ retry[t] < m_maxDeadlockRetries
  /\ attempts[t] < AttemptCap
  /\ ~Conflict(t)
  /\ txn' = [txn EXCEPT ![t] = BeginTrans]
  /\ EngineCall(t)
  /\ size' = [size EXCEPT ![t] = IF r.op = "Truncate" THEN RecordCount(store)
                                                    ELSE GetSize(r, v, @)]
  /\ attempts' = [attempts EXCEPT ![t] = @ + 1]
  /\ IF rv = "BUFFER_SMALL"
       THEN /\ pc' = [pc EXCEPT ![t] = "catchSmall"]
            /\ UNCHANGED ret
       ELSE /\ pc' = [pc EXCEPT ![t] = "commit"]
            /\ ret' = [ret EXCEPT ![t] = rv]
  /\ UNCHANGED <<req, retry, result>>

(* Variant: the deadlock clause does not count the retry. *)
CallDeadlockUncounted(t) ==
  /\ pc[t] = "call"
  /\ retry[t] < m_maxDeadlockRetries
  /\ attempts[t] < AttemptCap
  /\ Victim(t)
  /\ txn' = [txn EXCEPT ![t] = "dangling"]
  /\ EndEngineTxn(t)
  /\ attempts' = [attempts EXCEPT ![t] = @ + 1]
  /\ IF retry[t] >= m_maxDeadlockRetries
       THEN /\ pc' = [pc EXCEPT ![t] = "idle"]
            /\ result' = [result EXCEPT ![t] = [kind |-> "deadlock", n |-> -1]]
       ELSE /\ pc' = [pc EXCEPT ![t] = IF LoopsOnDeadlock(req[t].op) THEN "call" ELSE "switch"]
            /\ UNCHANGED result
  /\ UNCHANGED <<store, req, retry, ret, size>>

(* The engine call throws DbDeadlockException: RollbackTrans(txn), then   *)
(* retry_count++ and, at the limit, errx and a thrown BdbException.  An   *)
(* abort that throws is rethrown wrapped.  Otherwise Put and Truncate     *)
(* loop, while                                                            *)
(* Get and Delete leave the try block and reach switch(ret).              *)
CallDeadlock(t) ==
  /\ pc[t] = "call"
  /\ retry[t] < m_maxDeadlockRetries
  /\ attempts[t] < AttemptCap
  /\ Victim(t)
  /\ txn' = [txn EXCEPT ![t] = "dangling"]
  /\ EndEngineTxn(t)
  /\ attempts' = [attempts EXCEPT ![t] = @ + 1]
  /\ \/ /\ retry' = [retry EXCEPT ![t] = @ + 1]
        /\ IF retry[t] + 1 >= m_maxDeadlockRetries
             THEN /\ pc' = [pc EXCEPT ![t] = "idle"]
                  /\ result' = [result EXCEPT ![t] = [kind |-> "deadlock", n |-> -1]]
             ELSE /\ pc' = [pc EXCEPT ![t] = IF LoopsOnDeadlock(req[t].op) THEN "call" ELSE "switch"]
                  /\ UNCHANGED result
     \/ /\ EngineFaults
        /\ pc' = [pc EXCEPT ![t] = "idle"]
        /\ result' = [result EXCEPT ![t] = ErrorReply]
        /\ UNCHANGED retry
  /\ UNCHANGED <<store, req, ret, size>>

(* A typed Put overload (Put(String, String), Put(int, array) ...) first   *)
(* asks m_pDb->get_type for the key size: a failing call, DB_UNKNOWN or an *)
(* unknown type throws a BdbException before Put(Dbt, Dbt) is entered.    *)
TypeCheckFail(t) ==
  /\ EngineFaults
  /\ pc[t] = "call"
  /\ req[t].op = "Put"
  /\ attempts[t] = 0
  /\ pc' = [pc EXCEPT ![t] = "idle"]
  /\ result' = [result EXCEPT ![t] = ErrorReply]
  /\ UNCHANGED <<store, req, locked, pending, txn, retry, ret, size, attempts>>

(* BeginTrans or the engine call throws another DbException.  When       *)
(* txn_begin is what failed, txn still holds the previous pass's handle.  *)
CallFail(t) ==
  /\ EngineFaults
  /\ pc[t] = "call"
  /\ retry[t] < m_maxDeadlockRetries
  /\ attempts[t] < AttemptCap
  /\ \E begunOk \in BOOLEAN :
       txn' = [txn EXCEPT ![t] = IF begunOk THEN BeginTrans ELSE @]
  /\ attempts' = [attempts EXCEPT ![t] = @ + 1]
  /\ pc' = [pc EXCEPT ![t] = "catch"]
  /\ UNCHANGED <<store, req, locked, pending, retry, ret, size, result>>

(* CommitTrans(txn) and the switch(ret) that follows it: SUCCESS,        *)
(* NOTFOUND and KEYEMPTY are returned, any other ret is thrown.           *)
(* DbTxn::commit frees the handle whatever happens; a commit that throws  *)
(* lands in the DbException clause.                                       *)
Commit(t) ==
  /\ pc[t] = "commit"
  /\ \/ /\ txn[t] \in {"null", "live"}   \* CommitTrans returns at once on NULL
        /\ CommitWrite(t)
        /\ EndEngineTxn(t)
        /\ txn' = [txn EXCEPT ![t] = IF @ = "null" THEN "null" ELSE "dangling"]
        /\ pc' = [pc EXCEPT ![t] = "idle"]
        /\ result' = [result EXCEPT ![t] = RetReply(req[t], ret[t], size[t])]
     \/ /\ txn[t] = "live"
        /\ EngineFaults
        /\ EndEngineTxn(t)
        /\ txn' = [txn EXCEPT ![t] = "dangling"]
        /\ pc' = [pc EXCEPT ![t] = "catch"]
        /\ UNCHANGED <<store, result>>
  /\ UNCHANGED <<req, retry, ret, size, attempts>>

(* Variant: the DbException clause throws without RollbackTrans(txn). *)
CatchNoRollback(t) ==
  /\ pc[t] \in {"catch", "catchSmall"}
  /\ result' = [result EXCEPT ![t] =
                  IF pc[t] = "catchSmall" THEN [kind |-> "size", n |-> size[t]] ELSE ErrorReply]
  /\ pc' = [pc EXCEPT ![t] = "idle"]
  /\ UNCHANGED <<store, req, locked, pending, txn, retry, ret, size, attempts>>

(* catch (const DbException &): RollbackTrans(txn) (a no-op on NULL),     *)
(* then BufferSmallException with dbtValue's size for a buffer too small, *)
(* a wrapped BdbException otherwise; a failing abort is rethrown wrapped. *)
Catch(t) ==
  /\ pc[t] \in {"catch", "catchSmall"}
  /\ txn' = [txn EXCEPT ![t] = IF @ = "null" THEN "null" ELSE "dangling"]
  /\ EndEngineTxn(t)
  /\ \E abortOk \in IF EngineFaults /\ txn[t] # "null" THEN BOOLEAN ELSE {TRUE} :
       result' = [result EXCEPT ![t] =
                   IF pc[t] = "catchSmall" /\ abortOk THEN [kind |-> "size", n |-> size[t]]
                                                      ELSE ErrorReply]
  /\ pc' = [pc EXCEPT ![t] = "idle"]
  /\ UNCHANGED <<store, req, retry, ret, size, attempts>>

(* Get(String)'s switch(ret) inside its while loop: on SUCCESS it reads   *)
(* the string out of dbtValue.  Reached from the deadlock clause, dbtValue *)
(* holds no data (the engine allocated none) and                           *)
(* Marshal::PtrToStringUni(IntPtr(NULL), 0) throws ArgumentNullException,  *)
(* which the finally block lets through.                                  *)
NullDataReply(r, rv, s) ==
  IF r.op = "GetString" /\ rv = "SUCCESS" THEN ErrorReply ELSE RetReply(r, rv, s)

(* The switch(ret) of Get, Get(String) and Delete reached from the        *)
(* deadlock clause, with ret as the last completed call (or the initial 0) *)
(* left it.                                                               *)
Switch(t) ==
  /\ pc[t] = "switch"
  /\ pc' = [pc EXCEPT ![t] = "idle"]
  /\ result' = [result EXCEPT ![t] = NullDataReply(req[t], ret[t], size[t])]
  /\ UNCHANGED <<store, req, locked, pending, txn, retry, ret, size, attempts>>

Next ==
  \E t \in Threads :
    \/ \E r \in Requests : Invoke(t, r)
    \/ Call(t)
    \/ CallDeadlock(t)
    \/ CallFail(t)
    \/ TypeCheckFail(t)
    \/ Commit(t)
    \/ Catch(t)
    \/ Switch(t)

Spec == Init /\ [][Next]_vars

(* The steps an operation takes between its invocation and its return     *)
(* when the engine does not fail: each caller thread runs its loop to the *)
(* end and the engine's lock manager grants a waiting lock or picks a     *)
(* victim, so these are weakly fair per thread.  Engine faults (CallFail,  *)
(* TypeCheckFail) are not, and a caller need not call again.              *)
Step(t) ==
  \/ Call(t)
  \/ CallDeadlock(t)
  \/ Commit(t)
  \/ Catch(t)
  \/ Switch(t)

FairSpec == Spec /\ \A t \in Threads : WF_vars(Step(t))

-----------------------------------------------------------------------------
TypeOK ==
  /\ store \in [Keys -> {NoRecord} \cup Sizes]
  /\ pc \in [Threads -> {"idle", "call", "commit", "catch", "catchSmall", "switch"}]
  /\ req \in [Threads -> Requests \cup {NoRequest}]
  /\ locked \in [Threads -> BOOLEAN]
  /\ pending \in [Threads -> {Unset, NoRecord} \cup Sizes]
  /\ txn \in [Threads -> {"null", "live", "dangling"}]
  /\ retry \in [Threads -> 0..AttemptCap]
  /\ ret \in [Threads -> {"SUCCESS", "NOTFOUND", "KEYEXIST"}]
  /\ size \in [Threads -> {0} \cup Sizes \cup Caps \cup 0..Cardinality(Keys)]
  /\ result \in [Threads -> [kind : {"none", "size", "notfound", "true", "false",
                                      "error", "deadlock"},
                              n : {-1} \cup Sizes \cup Caps \cup 0..Cardinality(Keys)]]
  /\ attempts \in [Threads -> 0..AttemptCap]

(* Whatever way an operation leaves its loop -- return, thrown ret, engine *)
(* error, failed abort, buffer too small or exhausted retries -- no       *)
(* transaction it began is left holding its lock: every path through the  *)
(* catch clauses reaches RollbackTrans and every return follows a commit. *)
TxnEndsWithOp ==
  \A t \in Threads : pc[t] = "idle" => txn[t] # "live" /\ ~locked[t]

(* Deadlock bound (spec.md 8): an operation makes at most                *)
(* m_maxDeadlockRetries engine calls, and reports deadlock exhaustion     *)
(* only after exactly that many.                                          *)
DeadlockBound ==
  \A t \in Threads :
    /\ attempts[t] <= m_maxDeadlockRetries
    /\ result[t].kind = "deadlock" => attempts[t] = m_maxDeadlockRetries

(* Every operation returns to its caller (spec.md 8: bounded retries):    *)
(* an operation waiting on another one's lock is granted it or made a     *)
(* deadlock victim, which needs each operation to give its transaction    *)
(* back on every way out of its loop, the catch clauses' RollbackTrans     *)
(* included, and the loop to give up at m_maxDeadlockRetries.             *)
CallReturns ==
  \A t \in Threads : (pc[t] # "idle") ~> (pc[t] = "idle")

(* Refinement (spec.md 4.2, 8): each operation takes effect atomically on *)
(* the store and replies with what it found; a retried deadlock is never  *)
(* reported as a silent success.                                          *)
KV == INSTANCE KVStore WITH kv <- store,
                            busy <- [t \in Threads |-> pc[t] # "idle"],
                            res <- result,
                            Requests <- Requests
KVSpec == KV!Spec
=============================================================================
