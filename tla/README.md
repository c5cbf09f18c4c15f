# TLA+ models of the BerkeleyDb wrapper

This directory holds TLA+ specifications of the C++/CLI Berkeley DB wrapper under
`src/Infrastructure/BerkeleyDb/BerkeleyDb.Wrapper`. Every module is checked with TLC.
`PROJECT.json` lists:

- the components;
- the runs and what each one shows;
- the mutants that show each property can fail;
- the map from every definition to the source lines it translates;
- the findings;
- the hazards of the code.

## The system

The wrapper exposes a Berkeley DB database (`DatabaseImpl`), its environment
(`EnvironmentImpl`) and cursors (`CursorImpl`) to .NET callers. It has these parts:

| Part | Source | State it keeps | Operations |
|---|---|---|---|
| TransactionContext | DatabaseImpl.h 143-187 | `begun`, `txn` | `begin` (lazy, idempotent), `commit`, `rollback` (clears `begun` first), destructor = `rollback` |
| Retry engine | DatabaseImpl.cpp 1039-1108 | `retry_count`, `ret` | `DeadlockLoop` retries a call that is picked as a deadlock victim, rolling the context back each time, up to `m_maxDeadlockRetries`; `TryMemStd` turns `DbMemoryException` into BUFFER_SMALL with the true size; `TryStd` and `TryMemStd` wrap other exceptions |
| Record facade | DatabaseImpl.cpp 1110-1317 | none (per call) | `Get`, `GetBuffer`, `Get` (stream), `Put`, `Delete`, `Exists`, `GetLength` over `DataBuffer`; the result mappers `SwitchStd` and `SwitchMemStd` commit the context |
| Legacy record loops | DatabaseImpl.cpp 294-382, 634-1037, 1319-1637, 2073-2154 | `txn`, `retry_count`, `ret` (locals) | `Put(Dbt,Dbt)`, `Get(Dbt,Dbt)`, `Delete(Dbt)`, `Get(String)`, `Truncate`, with their own while loop and catch clauses, reached from the typed overloads (`Put(String,String)`, `Get(DatabaseEntry,DatabaseEntry)`, `Delete(int)`, ...) |
| Read-modify-write Put | DatabaseImpl.cpp 384-632 | cursor, txn, `dbEntry->Length` | cursor `get(DB_SET\|DB_RMW)`, caller delegate, then `put(DB_CURRENT)`, `put(DB_NOOVERWRITE)` or `del`; a lost insert is retried as a deadlock |
| Cursor | CursorImpl.cpp/.h, DatabaseImpl.cpp 2180-2261 | `_cursorp`, owning database | `CreateCursorHandle` (own retry loop), positioning gets, put, delete, close, finalizer |
| Transfer slots | DbtHolder.h | Dbt fields, pinned handle | `set_for_partial`, `CreateBuffer`, `CreateStream`, the single-use `initialize_for_*` |
| Environment | EnvironmentImpl.cpp/.h | `DbEnv` handle, usercopy state | open/close, checkpoint, archive, the usercopy callback, `CancelPendingTransactions` |
| Exception factory | BdbExceptionFactory.cpp/.h | none | builds `BdbException` with code and message |

**How the parts interact.**

- A record call builds transfer slots for its key and value, makes a `TransactionContext`,
  and runs the engine call through the retry engine.
- It maps the result with a switch. A result that passes the switch commits the context.
- Any exception unwinds through the context's destructor, which rolls back whatever is
  still begun.
- Many .NET threads may call one `DatabaseImpl` at once. Berkeley DB serialises them with
  key locks, and its deadlock detector fails one of the waiting calls with
  `DB_LOCK_DEADLOCK`.

**What is hard to test here.**

- Two threads contend for one key.
- A deadlock strikes at a given attempt.
- An engine commit or abort fails.
- A retry starts from state left by the failed attempt.

No unit test sets these up. `PROJECT.json` lists each such hazard at its line.

### Properties per component

- **TransactionContext and the retry engine:**
  - every call ends every transaction it began, on every path;
  - a handle is ended once, and only while it is live;
  - at most `MaxDeadlockRetries` engine calls are made, and the deadlock error comes only
    after exactly that many.
- **Record facade:** under concurrency, each call takes effect atomically. This is stated
  as refinement of the abstract `KVStore`, together with the result-mapping promises of
  spec.md 4.5 (key-exists is an outcome, buffer-too-small reports the true size).
- **Legacy loops:** the same promises as the facade.
- **Typed keys:** in a hash or btree database, the typed `Put`, `Get` and `Delete`
  overloads of one key shape address the same record for the same key, and different keys
  of one shape address different records (spec.md 4.1, 6).
- **Every call returns** (facade, legacy loops): under weak fairness of the
  threads' own fault-free steps, a call waiting on another call's lock is granted it or made
  a deadlock victim, so it returns. This needs every way out of a call to give its lock back.
- **RMW Put:** no lost update. A call makes at most `MaxDeadlockRetries` passes of its
  loop, plus one for each insert it lost to another caller's commit. Every write lock is
  eventually released, except by a call that fails with a managed exception. A throwing
  delegate or a failing `cur->close()` leaves the lock held for ever.
- **Cursor:** the engine cursor is closed at most once (spec.md 4.6; the finalizer race
  breaks it), no cursor is left open on a live database, the cursor deadlock loop respects
  its bound, and a cursor handed out has an engine handle.
- **Transfer slots:** every get returns exactly the bytes spec.md 8's window names, and
  a slot's allocation (usercopy GCHandle, malloc'd block) is released when the call ends,
  whatever its outcome (spec.md 3; a throwing commit breaks it).

## Modules

| Module | Models |
|---|---|
| `KVStore` | Abstract specification: an atomic record store. A call is invoked, then either responds with what the store held at one instant (applying its effect) or fails without an effect. |
| `BdbEngine` | The storage engine the wrapper calls, shared by the operation modules. It is not code of this repository. It keeps the committed store of record lengths, a per-key lock held to the end of a transaction (shared for reads, exclusive for writes), and writes buffered in the transaction until commit. `truncate` locks the whole database. Lock-manager deadlock victims are allowed only while the lock holder is itself running. `CallRet` gives the return codes of get/put/del/exists/truncate. |
| `RecordOps` | The record facade: `TransactionContext` + `DeadlockLoop` + `TryMemStd`/`TryStd` + `SwitchMemStd`/`SwitchStd`. |
| `LegacyOps` | `Put(Dbt,Dbt)`, `Get(Dbt,Dbt)`, `Delete(Dbt)`, `Get(String)` and the typed overloads calling them. |
| `TypedKeys` | The key `Dbt`s the typed overloads build: `String` (UTF-16), `int`, byte-array and `DatabaseEntry` keys, and the `switch (dbType)` of the typed `Put`s. |
| `RmwPut` | `Put(key, dbEntry, RMWDelegate)`: cursor get with `DB_RMW`, the delegate, then `put(DB_CURRENT)`, `put(DB_NOOVERWRITE)` or `del`, commit, and the catch/finally clauses. |
| `CursorLife` | `GetCursor`/`CreateCursorHandle`, `CursorImpl::DeadlockLoop` and the result switch of every cursor method, `Dispose`, the finalizer `!CursorImpl`, and `!DatabaseImpl`. |
| `PartialWindow` | Operators: `set_for_partial`, each get method's test for calling it, the engine's partial transfer, and spec.md 8's window. |
| `TransferSlots` | The six get methods (`DbGet`, `DbGetStream`, `DbGetBuffer`, `CursorGet`, `CursorStream`, `CursorGetBuffers`) followed through their key and value slots: the engine call, `usercopy`, `SwitchMemStd` with its commit, and `CreateBuffer`/`CreateStream`. Uses `PartialWindow` by `INSTANCE`. |
| `MCRecordOps`, `MCLegacyOps`, `MCRmwPut`, `MCCursorLife`, `MCTransferSlots` | Model values, small sets and symmetry for TLC. |

### RecordOps

State per thread:

| Variable | Meaning |
|---|---|
| `pc` | `idle` between calls, `call` inside `DeadlockLoop`, `switch` after it, `unwind` while an exception unwinds |
| `begun`, `handle` | `TransactionContext::begun`, and the state of its `txn`: `null`, `live`, or `dangling` (freed by the engine) |
| `retry`, `ret`, `size` | The loop and adapter locals |
| `result` | What the call returned or threw |

Actions:

| Action | Models |
|---|---|
| `Invoke` | A facade method is entered. |
| `CallOk` | One pass of `DeadlockLoop` whose engine call completes. `begin` is lazy. |
| `CallDeadlock` | The call is picked as a deadlock victim. Rollback, retry, or give up. An abort that throws is also covered. |
| `CallFail` | `txn_begin` or the call throws. |
| `Switch` | The result mapper and `commit`. It also covers a commit that throws, which has already freed the handle. |
| `Unwind` | The destructor's `rollback`. |

### LegacyOps

State: the same per-thread variables as RecordOps, with these differences:

- `txn` is the raw local pointer. It stays `dangling` after commit or abort.
- `ret` starts at 0 (SUCCESS) as in the code.

Actions:

| Action | Models |
|---|---|
| `Call` | `BeginTrans`, then the engine call. A too-small buffer throws `DbMemoryException` before `ret` is assigned. |
| `CallDeadlock` | The deadlock clause. Put loops again, while Get and Delete fall to `switch(ret)`. |
| `CallFail` | Another `DbException`. When `txn_begin` threw, `txn` is still the previous pass's handle. |
| `Commit` | `CommitTrans` and the switch after it. |
| `Catch` | The `DbException` clause: `RollbackTrans`, then `BufferSmallException` or a wrapped error. |
| `Switch` | The `switch(ret)` reached from the deadlock clause. |
| `TypeCheckFail` | A typed `Put` overload's `m_pDb->get_type` fails or gives `DB_UNKNOWN` or an unknown type. The overload throws before `Put(Dbt, Dbt)` is entered. |

`Truncate` is the request `op = "Truncate"`. It runs `Put`'s loop (`LoopsOnDeadlock`), and
its engine call is `m_pDb->truncate`. The call locks the whole database (`Blocks` in
`BdbEngine`), empties the store at commit and returns the count of records it discarded.
`KVStore` states the same of an atomic truncate.

### LegacyOps, Get(String)

`Get(String)` has the same loop. After a retried deadlock it reaches its `switch(ret)` with
`ret` 0 and a NULL data pointer, and `PtrToStringUni` throws: `NullDataReply` turns that
SUCCESS into an error reply.

### TypedKeys

The typed overloads (DatabaseImpl.cpp 634-941, 1319-1324, 1431-1516, 1604-1638) build a
key `Dbt` and then call the legacy loops. The module has no state. A `Dbt` is modelled as
its data and its size: the data is the bytes the key object holds at its data pointer, and
the size is what the overload sets. The engine addresses a record by the first `size`
bytes.

- `StringBytes` models `PtrToStringChars`: each UTF-16 unit becomes two bytes, low byte
  first.
- `IntBytes` models `&key`: the four bytes of the int's two's complement.
- `PutKeySize` models the `switch (dbType)` of every typed `Put`. A hash or btree key uses
  its natural length. A queue or recno key uses `sizeof(db_recno_t)`.
- `Put*Key` and `Get*Key` are the overloads' key Dbts, one for each key shape.

`TypedKeysAgree` is checked in the `legacy_ops` run over these inputs:

- chars {97, 353}, so one char has a non-zero high byte;
- bytes {0, 1};
- ints {-1, 1, 256};
- keys of up to 2 units.

A size in chars instead of bytes (`GetStringKeyChars`) breaks the property. For queue and
recno databases the property does not hold, and it is not claimed there: see the hazard at
DatabaseImpl.cpp 661.

### RmwPut

State per thread: `pc`, `txn`, `cur` (the cursor), `retry`, `ret`, `length`
(`dbEntry->Length`), `window` (the `dlen` of the value Dbt) and `result`; shared: `store`,
the key's write-lock `holder` (a thread, `none`, or `leaked` when a transaction is never
ended) and `pending` (the write of the live transaction). One action per step of the
loop: `Begin`, `GetRmw`/`GetDeadlock`, `Delegate`/`DelegateThrows`, `WriteCurrent`,
`WriteInsert`, `WriteDelete`, `WriteDeadlock`, `CloseCommit`, `CloseFails`,
`CatchDeadlock`, `Finally`.

- `CloseFails` models a `cur->close()` that fails (DatabaseImpl.cpp 525-544). The failure
  is rethrown as a managed `BdbException` at 538. That exception passes the native catch
  clauses at 549, 573 and 589, so neither `CommitTrans` nor `RollbackTrans` runs, and the
  lock goes to `leaked`.
- The generic `DbException` clause at 573-588 has no action. Cursor open, begin and commit
  do not fail in this model, so nothing reaches that clause.
- `passes` and `base` are history variables. They hold the loop passes the current call
  began and the commit count when it was invoked. `RetryPassesBounded` uses them to check
  the retry budget of spec.md 4.5. A lost `DB_NOOVERWRITE` insert decrements `retry_count`
  and the deadlock clause then increments it, so that pass costs no budget. Each such pass
  needs a commit by another caller, and the model reaches more than `MaxDeadlockRetries`
  passes in this way. Dropping the clause's `++` breaks the bound.

### CursorLife

State per cursor: `pc` (`unborn`, `create`, `ready`, `op`, `dropped`, `check`, `close`,
`done`), `cursorp` (whether `_cursorp` is non-NULL), `dbc` (the engine cursor: `none`,
`live`, `released`), `releases` (how often it was closed or freed), `by` (the thread
running the teardown: owner or finalizer), `op`, `retry`, `attempts`, `ops`, `result`;
shared: `disposed` (`DatabaseImpl::Disposed`).

| Action | Models |
|---|---|
| `GetCursor`, `CreateOk`, `CreateDeadlock`, `CreateFail` | `GetCursor` and the passes of `CreateCursorHandle`'s loop. A deadlock with retries left returns the NULL cursor. |
| `OpStart` | A cursor method is entered; `GetBuffers` with `SetRange` fails fast. |
| `OpCall`, `OpDeadlock`, `OpFail`, `OpNullCursor` | One pass of `DeadlockLoop` and the method's result switch; a call through a NULL `_cursorp` faults. |
| `Dispose`, `Abandon`, `Finalize` | `~CursorImpl` by the owner, or a dropped cursor reached by the finalizer thread. |
| `FinCheck`, `FinClose` | `!CursorImpl`: the `Disposed` test, then `close()` and `_cursorp = nullptr`. |
| `DbDispose` | `!DatabaseImpl`: `Disposed` is set and `DB->close` frees every open engine cursor. It is taken only while no thread is inside a cursor call (cursors are single-thread-owned, spec.md 5). |

### PartialWindow and TransferSlots

`PartialWindow` holds operators only. `Transferred` is the engine's partial get, with
`doff + dlen` as an unsigned `Width`-bit sum. `Requested` is spec.md 8's definition.

`TransferSlots` follows one caller's gets, one after another. State:

| Variable | Meaning |
|---|---|
| `call`, `window` | The method with its offset, length (the buffer's capacity for `DbGet`/`CursorGet`) and cursor position, and the window it passed |
| `pc`, `retry`, `ret`, `size` | `idle`, `loop` (`DeadlockLoop`), `switch`, `return`; the method's locals |
| `rec` | The length of the record the engine found |
| `dataMem`, `arr` | The value slot: `none`, `handle` (usercopy array rooted by a GCHandle in `app_data`), `malloc`, `caller` (handed to the returned array or stream); and its bytes |
| `keyMem` | The cursor's key slot, written at every position but `Set` |
| `result`, `out` | What the method returned, and the bytes |

Byte `j` of a record is the number `j`, so the contents of a slot say which record bytes
it holds.

| Action | Models |
|---|---|
| `Invoke` | A get starts with fresh slots and its window. `GetBuffers` at `SetRange` throws `NotSupportedException` first. |
| `EngineDeadlock`, `EngineFail`, `EngineNotFound` | A deadlock (retry or give up), another engine exception, NOTFOUND/KEYEMPTY. |
| `EngineGet(l, k)` | A record of length `l` is found. Its window's bytes go to the slots: the caller's buffer (or BUFFER_SMALL when no window and the record does not fit), a malloc'd block (allocated even for 0 bytes, as the engine always allocates a `DB_DBT_MALLOC` result), or `usercopy` called once or twice (`k` bytes first). |
| `SwitchMemStd`, `CommitThrows` | `SwitchMemStd`'s size mapping and `context.commit()`, which may throw for a record get. |
| `Return` | The method's return: `CreateBuffer`/`CreateStream` for key and value, or null/NotFound. |

The engine side is an assumption about Berkeley DB, not code of this repository. The
engine fills a slot only on a successful get, and never for zero bytes. It sets
`data->size` to the bytes it transfers before the first `usercopy` call. It copies them
in order, in one or more chunks. A deadlock is reported before anything is copied.

## Runs

| Run | cfg | Expect | Shows |
|---|---|---|---|
| `record_ops` | `MCRecordOps.cfg` | pass | With two threads on one key, deadlocks, failing calls, aborts and commits, every facade call leaves no live transaction or lock behind (`TxnEndsWithOp`), respects the retry bound (`DeadlockBound`), and the facade implements `KVStore` (`KVSpec`). Under `FairSpec`, every call returns (`CallReturns`). |
| `record_commit_fail` | `MCRecordOps_commitfail.cfg` | violation | `HandleLiveWhenEnded`: a commit that throws leaves `begun` set, and the destructor aborts the handle `DbTxn::commit` already freed. |
| `legacy_ops` | `MCLegacyOps.cfg` | pass | The legacy loops and `Truncate`, with `get_type` failures, release every transaction they begin and respect the retry bound. Under `FairSpec`, every operation returns (`CallReturns`). The typed overloads' keys agree (`TypedKeysAgree`). |
| `legacy_fallthrough` | `MCLegacyOps_fallthrough.cfg` | violation | `KVSpec`: a Delete picked as deadlock victim falls to `switch(ret)` with `ret` 0 and reports the absent record as deleted. |
| `rmw_ops` | `MCRmwPut.cfg` | pass | With deadlocks, lost inserts, throwing delegates and failing cursor closes: no read-modify-write call commits onto a record other than the one its delegate saw (`NoLostUpdate`). A call makes at most `MaxDeadlockRetries` passes of its loop plus one for each commit by another caller during the call, because a lost insert's `--retry_count` cancels the deadlock clause's `++` (`RetryPassesBounded`). Under weak fairness, every write lock a call takes is released by its commit or abort, unless a managed exception left the call and it failed (`LockReleasedUnlessCallFailed`). |
| `rmw_leak` | `MCRmwPut_leak.cfg` | violation | A throwing delegate leaves its transaction and `DB_RMW` lock behind forever. (A failing `cur->close()` does the same: with `CloseFaults` on instead, TLC's trace ends in `CloseFails`.) |
| `cursor_ops` | `MCCursorLife.cfg` | pass | Two cursors used with deadlocks and failures, then disposed by their owners or dropped and closed by the finalizer, with the database disposed in between: no engine cursor is left open on a live database (`NoLeakedDbc`), and the cursor retry bound holds. |
| `cursor_finalizer_race` | `MCCursorLife_race.cfg` | violation | `ReleasedAtMostOnce`: the finalizer reads `Disposed` false, the database is disposed and frees the cursor, and the finalizer closes it again. |
| `cursor_null_handle` | `MCCursorLife_null.cfg` | violation | `CursorHasHandle`: a deadlock while opening the cursor returns a NULL cursor as success. |
| `transfer_slots` | `MCTransferSlots.cfg` | pass | Every get method, with deadlocks, engine faults, throwing commits and usercopy in one or two chunks. A get that found a record returns exactly spec.md 8's window (`BufferHoldsWindow`). This holds for buffer gets with any offset, and for stream and byte-array gets with the arguments whose window test agrees with the spec. A call that returns normally leaves no GCHandle or malloc'd block behind (`ReleasedOnReturn`). The to-the-end length stays within INT32_MAX (`TypeOK`). |
| `transfer_slots_negative_offset` | `MCTransferSlots_low.cfg` | violation | `BufferHoldsWindow`: the stream and byte-array gets apply a window for offset -1 with a positive length (database) or any length >= 0 (cursor). So they return bytes other than the whole record that spec.md 8 says a negative offset means. The record gets' `(0, 0)` likewise returns the whole record instead of nothing. |
| `transfer_slot_leak` | `MCTransferSlots_leak.cfg` | violation | `SlotReleasedAtCallEnd`: the engine fills the slot of a record stream get or `GetBuffer`, then `commit()` throws. `DbtExtended` has no destructor, so the malloc'd block or the usercopy array's rooting GCHandle is never freed. spec.md 3 says slots are released regardless of exception. |

`PROJECT.json` gives, for every property of the passing runs, a mutant of the mapped code
(a dropped reset, a swapped test, an off-by-one) that TLC shows violating it.

## Bounds, and why they are enough

- **Two threads (or two cursors) and one key.** This is the smallest setting in which calls
  contend for a lock, a deadlock victim exists, the atomicity of one call can be observed
  by another, and a finalizer can race a database dispose. Cursors are
  symmetric model values (SYMMETRY in the `CursorLife` runs).
- **Record sizes {1, 2} and buffer capacity {1}.** Both a fitting and a too-small buffer
  occur.
- **`MaxDeadlockRetries` = 2.** A call can both retry and give up.
- **`AttemptCap`, `MaxOps`, `MaxCommits`.** Named caps on engine calls per operation,
  cursor calls per cursor and committed changes; each lies above the point where the
  property's counterexamples occur (an off-by-one in the give-up test stays reachable).
- **`Width` = 8 in `MCTransferSlots`.** INT32_MAX is 127 and the unsigned sum wraps at 256.
  Offsets -1..3, lengths (or capacities) -1..3 and record lengths 0..4 put every window
  test on both sides of its boundary. They cover empty, partial, to-the-end and
  beyond-the-end windows, and records that do and do not fit a buffer. A usercopy transfer
  of 2..4 bytes can be split at every point.
- **State counts.** Every run finishes in under a minute: from 108 distinct states
  (`transfer_slots` reaches about 10,000) to about 650,000 (`cursor_ops`).

## Fairness

`RmwPut`'s `Spec` and the `FairSpec` of `RecordOps` and `LegacyOps` add weak fairness of
each thread's own steps (`WF_vars(Step(t))`). A caller thread runs its call to the end.
The engine's lock manager either grants a waiting lock or picks a victim among running
calls. So a thread that can take its next step (the engine returns, the delegate returns)
eventually does.

Fairness is not assumed for these steps:

- `Invoke`, since no caller must start a call;
- engine faults (`CallFail`, `TypeCheckFail`, `CloseFails`), since nothing makes the engine fail. If the
  fault steps were fair, a call stuck behind a leaked lock would be "rescued" by an error
  the engine never promised.

The liveness properties rely on this fairness: `LockReleasedUnlessCallFailed` and the two
`CallReturns`. `rmw_leak` shows that a throwing delegate's lock stays held even so. The other `Spec`s, and the violation runs, assume no
fairness.

Runs with `CHECK_DEADLOCK FALSE`: the programs end. Every thread or cursor finishes after
its bounded calls (`MaxCommits`, `MaxOps`, `AttemptCap`), and a disposed database accepts
no more calls, so a state with no next step is the normal end of a run, not a deadlock.
`TransferSlots` never stops: a caller may always start another get.

## What is not modelled, and why

- **Further defects the modules reach but no run checks.** The key-exists error of the
  facade `Put`, the legacy loops' abort of a committed handle, the RMW delegate shown a
  stale `Length`, and the RMW abort with its cursor still open are hazards in
  `PROJECT.json`, each with the reason it has no run.

- **Output shapes in `RecordOps`.** There the byte-array and stream outputs collapse to the
  returned size; `TransferSlots` checks the bytes themselves, one caller at a time.
- **The single-use `initialize_for_*` guard and `~DbtHolder`'s unpinning.** Every path
  initialises each holder once, and C++ unwinding always runs the destructor.
- **Key bytes.** The key slot's allocation is tracked, but not its contents.
- **`CancelPendingTransactions`** (EnvironmentImpl.cpp 1076-1112). It calls `txn_recover`
  and aborts only prepared transactions, which the wrapper never creates (it never calls
  `DbTxn::prepare`), so it has nothing to act on in the modelled system.
- **Environment lifetime.** The rooting `GCHandle` in `app_private`, a failed constructor
  that never frees it, and disposing the environment before its databases are hazards in
  `PROJECT.json`. Each one would need a module of the environment's lifetime and its own run.
- **The log-archive listing** (`GetArchiveFiles`). It is an index computation over one
  engine call. Its inverted-range and past-the-end edges are listed as a hazard.
- **Typed overloads' result shaping** (`value->Length`, `Array::Resize`). This collapses
  to the returned size. The key encodings are modelled in `TypedKeys`. Value bytes are
  abstract: a record is its length. The unchecked `StartPosition`/`Length` window of a
  `DatabaseEntry` value is listed as a hazard.
- **Environment administration, database open/close, configuration getters and setters,
  statistics, backup, verify and sync.** Each is one call into Berkeley DB with a wrapped
  error, and has no retry or concurrency logic.
- **Exception factory, log text and `errx` calls.** These are abstracted to the error and
  deadlock results.
- **Non-transactional mode** (`Transacted` = FALSE) is defined but not checked.
- **`MaxDeadlockRetries` = 0.** spec.md 8 assumes limits N >= 1 (the modules ASSUME it).

## Plan for the next modules

1. **Environment lifetime.** The rooting `GCHandle` in `app_private`, `Dispose` against
   the finalizer backstop of spec.md 153, the handle a failed constructor leaves behind,
   and the environment disposed before its databases.
2. **The RMW delegate's view on a retry** (spec.md 144): after a lost insert, the retried
   delegate is shown its own previous `Length` and `Buffer`, not the winner's record.
