------------------------------ MODULE CursorLife ------------------------------
(***************************************************************************)
(* A database handle (DatabaseImpl) and the cursors opened on it          *)
(* (CursorImpl, CursorImpl.cpp, and DatabaseImpl::CreateCursorHandle).     *)
(*                                                                         *)
(* Each cursor is used by one thread: it is created (GetCursor and         *)
(* CreateCursorHandle with its own deadlock loop), used for positioned     *)
(* get/put/delete calls (CursorImpl::DeadlockLoop, which retries on the    *)
(* same cursor without any rollback: the cursor has no transaction), and   *)
(* then either disposed by its thread or dropped and run through           *)
(* !CursorImpl by the .NET finalizer thread.  A user thread disposes the   *)
(* database: !DatabaseImpl sets disposed and closes m_pDb, which makes     *)
(* Berkeley DB free every cursor still open on it.                         *)
(*                                                                         *)
(* The engine's cursor handle (Dbc) of cursor c is dbc[c]; releases[c]     *)
(* counts how often the engine freed it (Dbc::close or DB->close).         *)
(***************************************************************************)
EXTENDS Integers

CONSTANTS Cursors,                   \* CursorImpl objects
          MaxDeadlockRetriesConfig,  \* DatabaseConfig.MaxDeadlockRetries
          MaxOps,                    \* bound on the calls one cursor makes
          EngineFaults,              \* engine calls may throw a DbException
          MayAbandon                 \* a thread may drop a cursor undisposed

ASSUME MaxDeadlockRetriesConfig \in Nat \ {0}
ASSUME MaxOps \in Nat

VARIABLES disposed,  \* DatabaseImpl::disposed
          cursorp,   \* cursorp[c]: CursorImpl::_cursorp # nullptr
          dbc,       \* dbc[c]: the engine cursor, "none", "live" or "released"
          releases,  \* releases[c]: how often the engine freed dbc[c]
          pc,        \* pc[c]: where cursor c's thread (or the finalizer) is
          by,        \* by[c]: who runs !CursorImpl, "owner" or "gc"
          op,        \* op[c]: the cursor call in progress
          retry,     \* retry[c]: retry_count of the running loop
          attempts,  \* attempts[c]: engine calls made by the running loop
          ops,       \* ops[c]: cursor calls made so far
          result     \* result[c]: what the last call returned or threw

vars == <<disposed, cursorp, dbc, releases, pc, by, op, retry, attempts, ops, result>>

(* With the InitTxn setting the configured limit, otherwise 1.              *)
m_maxDeadlockRetries == MaxDeadlockRetriesConfig

(* The cursor methods. GetBuffers is split by position: SetRange is       *)
(* refused before any engine call.                                         *)
Ops == {"Get", "GetStream", "GetBuffers", "GetBuffersSetRange", "Put", "Delete"}

(* The return codes get_core, put_core and del_core can hand back without *)
(* throwing, for each method; BUFFER_SMALL is also what a DbMemoryException *)
(* becomes in DeadlockLoop.  The stream and buffer gets let the engine      *)
(* allocate (DB_DBT_MALLOC, DB_DBT_USERCOPY), so they are never too small.   *)
Rets(o) ==
  CASE o = "Get"    -> {"SUCCESS", "NOTFOUND", "KEYEMPTY", "BUFFER_SMALL"}
    [] o = "Put"    -> {"SUCCESS", "NOTFOUND", "KEYEXIST", "KEYEMPTY"}
    [] o = "Delete" -> {"SUCCESS", "KEYEMPTY", "NOTFOUND"}
    [] OTHER        -> {"SUCCESS", "NOTFOUND", "KEYEMPTY"}

(* The switch after DeadlockLoop in each method.                           *)
CursorResult(o, rv) ==
  CASE rv = "NOTFOUND" /\ o # "Delete"            -> "NotFound"
    [] rv = "KEYEMPTY" /\ o \in {"Get", "GetStream", "GetBuffers"} -> "Deleted"
    [] rv = "KEYEXIST" /\ o = "Put"               -> "KeyExists"
    [] rv = "SUCCESS"  /\ o = "Delete"            -> "true"
    [] rv = "KEYEMPTY" /\ o = "Delete"            -> "false"
    [] rv = "SUCCESS"  /\ o # "Delete"            -> "lengths"
    [] rv = "BUFFER_SMALL" /\ o = "Get"           -> "lengths"
    [] OTHER                                      -> "error"

Results == {"none", "lengths", "NotFound", "Deleted", "KeyExists", "true",
            "false", "error", "deadlock"}

Init ==
  /\ disposed = FALSE
  /\ cursorp = [c \in Cursors |-> FALSE]
  /\ dbc = [c \in Cursors |-> "none"]
  /\ releases = [c \in Cursors |-> 0]
  /\ pc = [c \in Cursors |-> "unborn"]
  /\ by = [c \in Cursors |-> "owner"]
  /\ op = [c \in Cursors |-> "none"]
  /\ retry = [c \in Cursors |-> 0]
  /\ attempts = [c \in Cursors |-> 0]
  /\ ops = [c \in Cursors |-> 0]
  /\ result = [c \in Cursors |-> "none"]

(* A thread of the program never calls into a cursor, or disposes one,    *)
(* while it or another thread disposes the database; the finalizer thread *)
(* is not bound by this.                                                   *)
InUse(c) == \/ pc[c] \in {"create", "op"}
            \/ pc[c] \in {"check", "close"} /\ by[c] = "owner"
-----------------------------------------------------------------------------
(* GetCursor: gcnew CursorImpl(this) enters CreateCursorHandle.            *)
GetCursor(c) ==
  /\ pc[c] = "unborn"
  /\ ~disposed
  /\ pc' = [pc EXCEPT ![c] = "create"]
  /\ retry' = [retry EXCEPT ![c] = 0]
  /\ attempts' = [attempts EXCEPT ![c] = 0]
  /\ UNCHANGED <<disposed, cursorp, dbc, releases, by, op, ops, result>>

(* m_pDb->cursor(NULL, &cursor, 0) succeeds: the constructor stores it.    *)
CreateOk(c) ==
  /\ pc[c] = "create"
  /\ retry[c] < m_maxDeadlockRetries
  /\ cursorp' = [cursorp EXCEPT ![c] = TRUE]
  /\ dbc' = [dbc EXCEPT ![c] = "live"]
  /\ attempts' = [attempts EXCEPT ![c] = @ + 1]
  /\ pc' = [pc EXCEPT ![c] = "ready"]
  /\ UNCHANGED <<disposed, releases, by, op, retry, ops, result>>

(* DbDeadlockException: retry_count++ and, at the limit, throw (the        *)
(* constructor throws and _cursorp stays nullptr).  Below the limit the    *)
(* catch clause ends, and the switch(ret) and return after it, still in   *)
(* the first pass of the while loop, see ret = 0 and return the NULL      *)
(* cursor, which the constructor stores.                                   *)
CreateDeadlock(c) ==
  /\ pc[c] = "create"
  /\ retry[c] < m_maxDeadlockRetries
  /\ retry' = [retry EXCEPT ![c] = @ + 1]
  /\ attempts' = [attempts EXCEPT ![c] = @ + 1]
  /\ IF retry[c] + 1 >= m_maxDeadlockRetries
       THEN /\ pc' = [pc EXCEPT ![c] = "done"]
            /\ result' = [result EXCEPT ![c] = "deadlock"]
       ELSE /\ pc' = [pc EXCEPT ![c] = "ready"]
            /\ UNCHANGED result
  /\ UNCHANGED <<disposed, cursorp, dbc, releases, by, op, ops>>

(* Another DbException: txn is NULL, so nothing is aborted; it is wrapped  *)
(* and thrown out of the constructor.                                      *)
CreateFail(c) ==
  /\ pc[c] = "create"
  /\ EngineFaults
  /\ retry[c] < m_maxDeadlockRetries
  /\ attempts' = [attempts EXCEPT ![c] = @ + 1]
  /\ pc' = [pc EXCEPT ![c] = "done"]
  /\ result' = [result EXCEPT ![c] = "error"]
  /\ UNCHANGED <<disposed, cursorp, dbc, releases, by, op, retry, ops>>

(* Mutant: the next call does not reset retry_count.                      *)
OpStartNoReset(c, o) ==
  /\ pc[c] = "ready"
  /\ ~disposed
  /\ ops[c] < MaxOps
  /\ ops' = [ops EXCEPT ![c] = @ + 1]
  /\ op' = [op EXCEPT ![c] = o]
  /\ attempts' = [attempts EXCEPT ![c] = 0]
  /\ IF o = "GetBuffersSetRange"
       THEN /\ result' = [result EXCEPT ![c] = "error"]
            /\ UNCHANGED pc
       ELSE /\ pc' = [pc EXCEPT ![c] = "op"]
            /\ result' = [result EXCEPT ![c] = "none"]
  /\ UNCHANGED <<disposed, cursorp, dbc, releases, by, retry>>

(* A cursor method is called; GetBuffers with SetRange throws               *)
(* NotSupportedException before DeadlockLoop.                              *)
OpStart(c, o) ==
  /\ pc[c] = "ready"
  /\ ~disposed
  /\ ops[c] < MaxOps
  /\ ops' = [ops EXCEPT ![c] = @ + 1]
  /\ op' = [op EXCEPT ![c] = o]
  /\ retry' = [retry EXCEPT ![c] = 0]
  /\ attempts' = [attempts EXCEPT ![c] = 0]
  /\ IF o = "GetBuffersSetRange"
       THEN /\ result' = [result EXCEPT ![c] = "error"]
            /\ UNCHANGED pc
       ELSE /\ pc' = [pc EXCEPT ![c] = "op"]
            /\ result' = [result EXCEPT ![c] = "none"]
  /\ UNCHANGED <<disposed, cursorp, dbc, releases, by>>

(* One pass of CursorImpl::DeadlockLoop whose call returns rv, then the    *)
(* method's switch.                                                        *)
OpCall(c) ==
  /\ pc[c] = "op"
  /\ cursorp[c]
  /\ \E rv \in Rets(op[c]) :
       result' = [result EXCEPT ![c] = CursorResult(op[c], rv)]
  /\ attempts' = [attempts EXCEPT ![c] = @ + 1]
  /\ pc' = [pc EXCEPT ![c] = "ready"]
  /\ UNCHANGED <<disposed, cursorp, dbc, releases, by, op, retry, ops>>

(* Mutant: the give-up test is retry_count > limit.                       *)
OpDeadlockLate(c) ==
  /\ pc[c] = "op"
  /\ cursorp[c]
  /\ retry' = [retry EXCEPT ![c] = @ + 1]
  /\ attempts' = [attempts EXCEPT ![c] = @ + 1]
  /\ IF retry[c] + 1 > m_maxDeadlockRetries
       THEN /\ pc' = [pc EXCEPT ![c] = "ready"]
            /\ result' = [result EXCEPT ![c] = "deadlock"]
       ELSE UNCHANGED <<pc, result>>
  /\ UNCHANGED <<disposed, cursorp, dbc, releases, by, op, ops>>

(* The call deadlocks (a DbDeadlockException or ret == DB_LOCK_DEADLOCK):  *)
(* ++retry_count, leave the loop at the limit and throw; otherwise call    *)
(* again on the same cursor.                                               *)
OpDeadlock(c) ==
  /\ pc[c] = "op"
  /\ cursorp[c]
  /\ retry' = [retry EXCEPT ![c] = @ + 1]
  /\ attempts' = [attempts EXCEPT ![c] = @ + 1]
  /\ IF retry[c] + 1 >= m_maxDeadlockRetries
       THEN /\ pc' = [pc EXCEPT ![c] = "ready"]
            /\ result' = [result EXCEPT ![c] = "deadlock"]
       ELSE UNCHANGED <<pc, result>>
  /\ UNCHANGED <<disposed, cursorp, dbc, releases, by, op, ops>>

(* Another exception: wrapped and thrown; the cursor stays usable.         *)
OpFail(c) ==
  /\ pc[c] = "op"
  /\ cursorp[c]
  /\ EngineFaults
  /\ attempts' = [attempts EXCEPT ![c] = @ + 1]
  /\ pc' = [pc EXCEPT ![c] = "ready"]
  /\ result' = [result EXCEPT ![c] = "error"]
  /\ UNCHANGED <<disposed, cursorp, dbc, releases, by, op, retry, ops>>
(* bdbCall(_cursorp, ...) with a NULL _cursorp dereferences it: an access *)
(* violation, which no catch clause of DeadlockLoop handles.               *)
OpNullCursor(c) ==
  /\ pc[c] = "op"
  /\ ~cursorp[c]
  /\ pc' = [pc EXCEPT ![c] = "ready"]
  /\ result' = [result EXCEPT ![c] = "error"]
  /\ UNCHANGED <<disposed, cursorp, dbc, releases, by, op, retry, attempts, ops>>

(* ~CursorImpl on the owner thread: it runs !CursorImpl.                   *)
Dispose(c) ==
  /\ pc[c] = "ready"
  /\ pc' = [pc EXCEPT ![c] = "check"]
  /\ by' = [by EXCEPT ![c] = "owner"]
  /\ UNCHANGED <<disposed, cursorp, dbc, releases, op, retry, attempts, ops, result>>

(* The thread drops the cursor without disposing it.                       *)
Abandon(c) ==
  /\ MayAbandon
  /\ pc[c] = "ready"
  /\ pc' = [pc EXCEPT ![c] = "dropped"]
  /\ UNCHANGED <<disposed, cursorp, dbc, releases, by, op, retry, attempts, ops, result>>

(* The finalizer thread runs !CursorImpl on a dropped cursor.              *)
Finalize(c) ==
  /\ pc[c] = "dropped"
  /\ pc' = [pc EXCEPT ![c] = "check"]
  /\ by' = [by EXCEPT ![c] = "gc"]
  /\ UNCHANGED <<disposed, cursorp, dbc, releases, op, retry, attempts, ops, result>>

(* Mutant: the test reads _db->Disposed instead of !_db->Disposed.        *)
FinCheckInverted(c) ==
  /\ pc[c] = "check"
  /\ IF cursorp[c] /\ disposed
       THEN /\ pc' = [pc EXCEPT ![c] = "close"]
            /\ UNCHANGED cursorp
       ELSE /\ pc' = [pc EXCEPT ![c] = "done"]
            /\ cursorp' = [cursorp EXCEPT ![c] = FALSE]
  /\ UNCHANGED <<disposed, dbc, releases, by, op, retry, attempts, ops, result>>

(* !CursorImpl reads _db->Disposed: if the database is open it goes on to  *)
(* close the cursor, otherwise the finally block only clears _cursorp.     *)
FinCheck(c) ==
  /\ pc[c] = "check"
  /\ IF cursorp[c] /\ ~disposed
       THEN /\ pc' = [pc EXCEPT ![c] = "close"]
            /\ UNCHANGED cursorp
       ELSE /\ pc' = [pc EXCEPT ![c] = "done"]
            /\ cursorp' = [cursorp EXCEPT ![c] = FALSE]
  /\ UNCHANGED <<disposed, dbc, releases, by, op, retry, attempts, ops, result>>

(* _cursorp->close(): the engine frees the cursor whether or not close     *)
(* reports an error (which is only logged); finally clears _cursorp.       *)
FinClose(c) ==
  /\ pc[c] = "close"
  /\ dbc' = [dbc EXCEPT ![c] = "released"]
  /\ releases' = [releases EXCEPT ![c] = @ + 1]
  /\ cursorp' = [cursorp EXCEPT ![c] = FALSE]
  /\ pc' = [pc EXCEPT ![c] = "done"]
  /\ UNCHANGED <<disposed, by, op, retry, attempts, ops, result>>

(* ~DatabaseImpl / !DatabaseImpl: disposed = true, then m_pDb->close(0),   *)
(* which frees every cursor still open on the database; an exception is    *)
(* reported as a panic event and m_pDb is cleared in any case.            *)
DbDispose ==
  /\ ~disposed
  /\ \A c \in Cursors : ~InUse(c)
  /\ disposed' = TRUE
  /\ dbc' = [c \in Cursors |-> IF dbc[c] = "live" THEN "released" ELSE dbc[c]]
  /\ releases' = [c \in Cursors |-> IF dbc[c] = "live" THEN releases[c] + 1
                                                       ELSE releases[c]]
  /\ UNCHANGED <<cursorp, pc, by, op, retry, attempts, ops, result>>

Next ==
  \/ DbDispose
  \/ \E c \in Cursors :
       \/ GetCursor(c) \/ CreateOk(c) \/ CreateDeadlock(c) \/ CreateFail(c)
       \/ \E o \in Ops : OpStart(c, o)
       \/ OpCall(c) \/ OpDeadlock(c) \/ OpFail(c) \/ OpNullCursor(c)
       \/ Dispose(c) \/ Abandon(c) \/ Finalize(c) \/ FinCheck(c) \/ FinClose(c)

Spec == Init /\ [][Next]_vars

-----------------------------------------------------------------------------
TypeOK ==
  /\ disposed \in BOOLEAN
  /\ cursorp \in [Cursors -> BOOLEAN]
  /\ dbc \in [Cursors -> {"none", "live", "released"}]
  /\ releases \in [Cursors -> Nat]
  /\ pc \in [Cursors -> {"unborn", "create", "ready", "op", "dropped", "check",
                         "close", "done"}]
  /\ by \in [Cursors -> {"owner", "gc"}]
  /\ op \in [Cursors -> Ops \cup {"none"}]
  /\ retry \in [Cursors -> 0..m_maxDeadlockRetries]
  /\ attempts \in [Cursors -> 0..m_maxDeadlockRetries]
  /\ ops \in [Cursors -> 0..MaxOps]
  /\ result \in [Cursors -> Results]

(* The engine frees each cursor handle at most once: !CursorImpl closes    *)
(* _cursorp only while the database is not disposed, and the database's    *)
(* close frees only the cursors still open on it.  A second free is a      *)
(* double close of a Dbc the engine already released.                      *)
ReleasedAtMostOnce == \A c \in Cursors : releases[c] <= 1

(* A CursorImpl handed to its caller holds an engine cursor: the cursor   *)
(* calls dereference _cursorp without a check.                             *)
CursorHasHandle == \A c \in Cursors : pc[c] \in {"ready", "op"} => cursorp[c]

(* A cursor that went through !CursorImpl never leaves its engine cursor   *)
(* open on a database that is still open.                                  *)
NoLeakedDbc == \A c \in Cursors : pc[c] = "done" /\ ~disposed => dbc[c] # "live"

(* CreateCursorHandle and CursorImpl::DeadlockLoop make at most            *)
(* MaxDeadlockRetries engine calls for one cursor call, and a call fails   *)
(* with the deadlock error only after making exactly that many.           *)
DeadlockBound ==
  \A c \in Cursors :
    /\ attempts[c] <= m_maxDeadlockRetries
    /\ result[c] = "deadlock" => attempts[c] = m_maxDeadlockRetries
====
