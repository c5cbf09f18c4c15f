----------------------------- MODULE RecordOps -----------------------------
(***************************************************************************)
(* The Record Facade of DatabaseImpl: Get, GetLength, Put, Delete and      *)
(* Exists over DataBuffer keys (DatabaseImpl.cpp 1160-1317), each built    *)
(* from a TransactionContext (DatabaseImpl.h 143-187), the deadlock retry  *)
(* loop DeadlockLoop, the exception adapters TryMemStd/TryStd and the      *)
(* result mappers SwitchMemStd/SwitchStd (DatabaseImpl.cpp 1039-1138).     *)
(*                                                                         *)
(* Several threads call the facade of one DatabaseImpl concurrently.  The  *)
(* storage engine is abstracted to: a committed store of record lengths,   *)
(* one lock per key taken by a transactional call and held to the end of   *)
(* its transaction, writes buffered in the transaction until commit, and   *)
(* a lock manager that may pick a waiting call as a deadlock victim.       *)
(* EngineFaults lets the engine fail a call, an abort or a commit.         *)
(***************************************************************************)
EXTENDS BdbEngine

CONSTANTS
  PutFlags,                  \* "none" and/or "nooverwrite"
  MaxDeadlockRetriesConfig   \* DatabaseConfig.MaxDeadlockRetries

ASSUME MaxDeadlockRetriesConfig \in Nat \ {0}

VARIABLES
  begun,    \* TransactionContext::begun
  handle,   \* TransactionContext::txn: "null", "live" or "dangling"
  retry,    \* retry_count of DeadlockLoop
  ret,      \* ret as returned by TryMemStd/TryStd
  size,     \* size as returned by TryMemStd
  result,   \* what the call returned to its caller
  attempts  \* engine calls made by the current call (history)

vars == <<store, pc, req, begun, handle, locked, pending, retry, ret, size,
          result, attempts>>

Requests ==
       [op : {"Get"}, key : Keys, n : Caps, flag : {"none"}]
  \cup [op : {"GetLength"}, key : Keys, n : {0}, flag : {"none"}]
  \cup [op : {"Put"}, key : Keys, n : Sizes, flag : PutFlags]
  \cup [op : {"Delete", "Exists"}, key : Keys, n : {0}, flag : {"none"}]

(* m_maxDeadlockRetries: 1 unless the environment is transactional. *)
m_maxDeadlockRetries == IF Transacted THEN MaxDeadlockRetriesConfig ELSE 1

(* Engine calls one facade call may make before the model stops it. *)
AttemptCap == m_maxDeadlockRetries + 1

(* BeginTrans: a transaction handle in PerCall mode on a txn store. *)
BeginTrans == IF Transacted THEN "live" ELSE "null"

(* Variant: the size read from the buffer's capacity (get_ulen) rather    *)
(* than from the Dbt's size the engine set.                               *)
CallSizeUlen(r, v) == r.n

(* The size TryMemStd reads back from the value Dbt: the record's true   *)
(* length for a get that found it (also from the DbMemoryException of a    *)
(* buffer too small), the buffer's own size otherwise.                     *)
CallSize(r, v) == IF r.op = "Put" \/ v = NoRecord THEN r.n ELSE v

(***************************************************************************)
(* The facade's mapping of ret to the call's result: SwitchMemStd for Get  *)
(* and GetLength, SwitchStd for Put, and the switches of Delete and        *)
(* Exists.  ErrorReply stands for the BdbException they throw.             *)
(***************************************************************************)
SwitchMemStd(r, s) ==
  CASE r \in {"SUCCESS", "BUFFER_SMALL"} -> [kind |-> "size", n |-> s]
    [] r \in {"NOTFOUND", "KEYEMPTY"} -> [kind |-> "notfound", n |-> -1]
    [] OTHER -> ErrorReply

SwitchStd(r, s) == IF r = "SUCCESS" THEN [kind |-> "size", n |-> s] ELSE ErrorReply

DeleteSwitch(r) ==
  CASE r = "SUCCESS" -> [kind |-> "true", n |-> -1]
    [] r \in {"NOTFOUND", "KEYEMPTY"} -> [kind |-> "false", n |-> -1]
    [] OTHER -> ErrorReply

ExistsSwitch(r) ==
  IF r \in {"SUCCESS", "NOTFOUND", "KEYEMPTY"} THEN [kind |-> r, n |-> -1]
                                               ELSE ErrorReply

Mapped(t) ==
  CASE req[t].op \in {"Get", "GetLength"} -> SwitchMemStd(ret[t], size[t])
    [] req[t].op = "Put" -> SwitchStd(ret[t], size[t])
    [] req[t].op = "Delete" -> DeleteSwitch(ret[t])
    [] req[t].op = "Exists" -> ExistsSwitch(ret[t])

-----------------------------------------------------------------------------
Init ==
  /\ store = [k \in Keys |-> NoRecord]
  /\ pc = [t \in Threads |-> "idle"]
  /\ req = [t \in Threads |-> NoRequest]
  /\ begun = [t \in Threads |-> FALSE]
  /\ handle = [t \in Threads |-> "null"]
  /\ locked = [t \in Threads |-> FALSE]
  /\ pending = [t \in Threads |-> Unset]
  /\ retry = [t \in Threads |-> 0]
  /\ ret = [t \in Threads |-> "none"]
  /\ size = [t \in Threads |-> -1]
  /\ result = [t \in Threads |-> NoReply]
  /\ attempts = [t \in Threads |-> 0]

(* Variant: retry_count kept across calls instead of starting at zero. *)
InvokeNoReset(t, r) ==
  /\ pc[t] = "idle"
  /\ pc' = [pc EXCEPT ![t] = "call"]
  /\ req' = [req EXCEPT ![t] = r]
  /\ attempts' = [attempts EXCEPT ![t] = 0]
  /\ ret' = [ret EXCEPT ![t] = "none"]
  /\ size' = [size EXCEPT ![t] = -1]
  /\ result' = [result EXCEPT ![t] = NoReply]
  /\ UNCHANGED <<store, begun, handle, locked, pending, retry>>

(* A caller invokes one facade method; the DbtHolders are initialised and *)
(* a fresh TransactionContext and DeadlockLoop state are set up.          *)
Invoke(t, r) ==
  /\ pc[t] = "idle"
  /\ pc' = [pc EXCEPT ![t] = "call"]
  /\ req' = [req EXCEPT ![t] = r]
  /\ retry' = [retry EXCEPT ![t] = 0]
  /\ attempts' = [attempts EXCEPT ![t] = 0]
  /\ ret' = [ret EXCEPT ![t] = "none"]
  /\ size' = [size EXCEPT ![t] = -1]
  /\ result' = [result EXCEPT ![t] = NoReply]
  /\ UNCHANGED <<store, begun, handle, locked, pending>>

(* One pass of DeadlockLoop whose engine call completes: context.begin()  *)
(* then bdbCall.  A DbMemoryException leaves the loop and TryMemStd       *)
(* records BUFFER_SMALL with the record's true size.                      *)
CallOk(t) ==
  LET r == req[t]
      v == store[r.key]
  IN
  /\ pc[t] = "call"
  /\ attempts[t] < AttemptCap
  /\ ~Conflict(t)
  /\ begun' = [begun EXCEPT ![t] = TRUE]
  /\ handle' = [handle EXCEPT ![t] = IF begun[t] THEN handle[t] ELSE BeginTrans]
  /\ EngineCall(t)
  /\ ret' = [ret EXCEPT ![t] = CallRet(r, v)]
  /\ size' = [size EXCEPT ![t] = CallSize(r, v)]
  /\ attempts' = [attempts EXCEPT ![t] = @ + 1]
  /\ pc' = [pc EXCEPT ![t] = "switch"]
  /\ UNCHANGED <<req, retry, result>>

(* Variant: the loop gives up one retry late (retry_count > max). *)
CallDeadlockLate(t) ==
  /\ pc[t] = "call"
  /\ attempts[t] < AttemptCap
  /\ Victim(t)
  /\ begun' = [begun EXCEPT ![t] = FALSE]
  /\ handle' = [handle EXCEPT ![t] = "null"]
  /\ EndEngineTxn(t)
  /\ attempts' = [attempts EXCEPT ![t] = @ + 1]
  /\ retry' = [retry EXCEPT ![t] = @ + 1]
  /\ IF retry[t] + 1 > m_maxDeadlockRetries
       THEN /\ pc' = [pc EXCEPT ![t] = "idle"]
            /\ result' = [result EXCEPT ![t] = [kind |-> "deadlock", n |-> -1]]
       ELSE UNCHANGED <<pc, result>>
  /\ UNCHANGED <<store, req, ret, size>>

(* A pass of DeadlockLoop whose call is chosen as deadlock victim: the    *)
(* context is rolled back (begun cleared before the abort), retry_count   *)
(* grows, and at m_maxDeadlockRetries the loop gives up with the          *)
(* LOCK_DEADLOCK BdbException.  An abort that throws leaves the loop      *)
(* through TryMemStd as a wrapped error.                                  *)
CallDeadlock(t) ==
  /\ pc[t] = "call"
  /\ attempts[t] < AttemptCap
  /\ Victim(t)
  /\ begun' = [begun EXCEPT ![t] = FALSE]
  /\ handle' = [handle EXCEPT ![t] = "null"]
  /\ EndEngineTxn(t)
  /\ attempts' = [attempts EXCEPT ![t] = @ + 1]
  /\ \/ /\ retry' = [retry EXCEPT ![t] = @ + 1]
        /\ IF retry[t] + 1 >= m_maxDeadlockRetries
             THEN /\ pc' = [pc EXCEPT ![t] = "idle"]
                  /\ result' = [result EXCEPT ![t] = [kind |-> "deadlock", n |-> -1]]
             ELSE UNCHANGED <<pc, result>>
     \/ /\ EngineFaults
        /\ pc' = [pc EXCEPT ![t] = "idle"]
        /\ result' = [result EXCEPT ![t] = ErrorReply]
        /\ UNCHANGED retry
  /\ UNCHANGED <<store, req, ret, size>>

(* txn_begin or the engine call throws another DbException: TryMemStd     *)
(* rethrows it wrapped and the stack unwinds through the context.         *)
CallFail(t) ==
  /\ EngineFaults
  /\ pc[t] = "call"
  /\ attempts[t] < AttemptCap
  /\ \E b \in BOOLEAN :  \* whether txn_begin had succeeded
       /\ begun' = [begun EXCEPT ![t] = b]
       /\ handle' = [handle EXCEPT ![t] = IF b THEN BeginTrans ELSE "null"]
  /\ attempts' = [attempts EXCEPT ![t] = @ + 1]
  /\ pc' = [pc EXCEPT ![t] = "unwind"]
  /\ UNCHANGED <<store, req, locked, pending, retry, ret, size, result>>

(* The result switch and context.commit() of the facade method.  A        *)
(* result the switch rejects is thrown and the stack unwinds.             *)
Switch(t) ==
  LET m == Mapped(t) IN
  /\ pc[t] = "switch"
  /\ \/ /\ m = ErrorReply
        /\ pc' = [pc EXCEPT ![t] = "unwind"]
        /\ UNCHANGED <<store, begun, handle, locked, pending, result>>
     \/ /\ m # ErrorReply
        /\ begun' = [begun EXCEPT ![t] = FALSE]
        /\ handle' = [handle EXCEPT ![t] = "null"]
        /\ CommitWrite(t)
        /\ EndEngineTxn(t)
        /\ pc' = [pc EXCEPT ![t] = "idle"]
        /\ result' = [result EXCEPT ![t] = m]
     \/ /\ m # ErrorReply
        /\ EngineFaults
        /\ handle[t] = "live"
        \* DbTxn::commit deletes the handle whatever its outcome; begun stays set
        /\ handle' = [handle EXCEPT ![t] = "dangling"]
        /\ EndEngineTxn(t)
        /\ pc' = [pc EXCEPT ![t] = "unwind"]
        /\ UNCHANGED <<store, begun, result>>
  /\ UNCHANGED <<req, retry, ret, size, attempts>>

(* Variant: a destructor that drops the context without rollback(). *)
UnwindNoRollback(t) ==
  /\ pc[t] = "unwind"
  /\ pc' = [pc EXCEPT ![t] = "idle"]
  /\ result' = [result EXCEPT ![t] = ErrorReply]
  /\ UNCHANGED <<store, req, begun, handle, locked, pending, retry, ret, size, attempts>>

(* ~TransactionContext during unwinding: rollback() if still begun. *)
Unwind(t) ==
  /\ pc[t] = "unwind"
  /\ begun' = [begun EXCEPT ![t] = FALSE]
  /\ handle' = [handle EXCEPT ![t] = "null"]
  /\ EndEngineTxn(t)
  /\ pc' = [pc EXCEPT ![t] = "idle"]
  /\ result' = [result EXCEPT ![t] = ErrorReply]
  /\ UNCHANGED <<store, req, retry, ret, size, attempts>>

Next ==
  \E t \in Threads :
    \/ \E r \in Requests : Invoke(t, r)
    \/ CallOk(t)
    \/ CallDeadlock(t)
    \/ CallFail(t)
    \/ Switch(t)
    \/ Unwind(t)

Spec == Init /\ [][Next]_vars

(* The steps a call takes between Invoke and its return without an       *)
(* engine fault.  A caller thread runs its call to the end, and the       *)
(* engine's lock manager either grants a waiting lock or picks a victim   *)
(* among running calls, so these steps are weakly fair per thread.        *)
(* Engine faults (CallFail) are not: nothing makes the engine fail, and   *)
(* Invoke is not: a caller may stop calling.                              *)
Step(t) ==
  \/ CallOk(t)
  \/ CallDeadlock(t)
  \/ Switch(t)
  \/ Unwind(t)

FairSpec == Spec /\ \A t \in Threads : WF_vars(Step(t))

-----------------------------------------------------------------------------
Replies == [kind : {"none", "size", "notfound", "keyexist", "true", "false",
                    "SUCCESS", "NOTFOUND", "KEYEMPTY", "error", "deadlock"},
            n : {-1} \cup Sizes \cup Caps]

TypeOK ==
  /\ store \in [Keys -> {NoRecord} \cup Sizes]
  /\ pc \in [Threads -> {"idle", "call", "switch", "unwind"}]
  /\ req \in [Threads -> Requests \cup {NoRequest}]
  /\ begun \in [Threads -> BOOLEAN]
  /\ handle \in [Threads -> {"null", "live", "dangling"}]
  /\ locked \in [Threads -> BOOLEAN]
  /\ pending \in [Threads -> {Unset, NoRecord} \cup Sizes]
  /\ retry \in [Threads -> 0..AttemptCap]
  /\ ret \in [Threads -> {"none", "SUCCESS", "NOTFOUND", "KEYEXIST", "BUFFER_SMALL"}]
  /\ size \in [Threads -> {-1} \cup Sizes \cup Caps \cup {0}]
  /\ result \in [Threads -> Replies]
  /\ attempts \in [Threads -> 0..AttemptCap]

(* Transaction exactly-once (spec.md 3, 4.3): whatever way a facade call  *)
(* ends -- result, thrown result mapping, engine error, failed abort or   *)
(* deadlock exhaustion -- it leaves no engine transaction of its own      *)
(* alive and no lock held.  This is the TransactionContext destructor and *)
(* the rollback in DeadlockLoop at work.                                  *)
TxnEndsWithOp ==
  \A t \in Threads : pc[t] = "idle" => handle[t] # "live" /\ ~locked[t]

(* Deadlock bound (spec.md 8): a call never makes more engine calls than  *)
(* m_maxDeadlockRetries, and it fails with the deadlock error only after  *)
(* exactly that many calls, every one of which was a deadlock victim.     *)
DeadlockBound ==
  \A t \in Threads :
    /\ attempts[t] <= m_maxDeadlockRetries
    /\ result[t].kind = "deadlock" => attempts[t] = m_maxDeadlockRetries

(* The context ends a transaction (commit or rollback clears begun) only  *)
(* through a handle the engine still holds live: a transaction is never   *)
(* both committed and aborted (spec.md 8, transaction exactly-once).      *)
HandleLiveWhenEnded ==
  [][\A t \in Threads :
       (begun[t] /\ ~begun'[t] /\ handle[t] # "null") => handle[t] = "live"]_vars

(* Every facade call returns to its caller (spec.md 8: the deadlock      *)
(* retries are bounded, so a call ends with a result or an exception):    *)
(* a call waiting on another call's lock is either granted it or made a   *)
(* victim, which needs every finished call to have released its locks     *)
(* through the TransactionContext, and DeadlockLoop to give up at the     *)
(* limit.                                                                 *)
CallReturns ==
  \A t \in Threads : (pc[t] # "idle") ~> (pc[t] = "idle")

(* Refinement: with a transactional store, the facade implements the      *)
(* atomic record store of KVStore; each call takes effect at its commit.  *)
KV == INSTANCE KVStore WITH kv <- store,
                            busy <- [t \in Threads |-> pc[t] # "idle"],
                            res <- result
KVSpec == KV!Spec
=============================================================================
