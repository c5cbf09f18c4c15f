---------------------------- MODULE TransferSlots ----------------------------
(***************************************************************************)
(* One caller's gets, each followed through the transfer slot its result   *)
(* comes back in, from the engine call to the value the method returns.    *)
(*                                                                         *)
(* Slot kinds (spec.md 3, "Transfer Slot"), by method:                    *)
(*   usermem  DbGet, CursorGet: the engine writes into the caller's        *)
(*            pinned buffer (DbtHolder::initialize_for_write);             *)
(*   malloc   DbGetStream, CursorStream: DB_DBT_MALLOC, the engine         *)
(*            allocates and DbtExtended::CreateStream hands the block to   *)
(*            a stream that frees it;                                      *)
(*   usercopy DbGetBuffer, CursorGetBuffers: DB_DBT_USERCOPY, the engine   *)
(*            calls usercopy (EnvironmentImpl.cpp) once per chunk; the     *)
(*            first call allocates a managed array of the whole size and   *)
(*            keeps it through a GCHandle in app_data; CreateBuffer frees  *)
(*            the handle and returns the array.                            *)
(* A cursor get at a position other than Set also receives the key, in a  *)
(* slot of the same kind (GetBuffers refuses SetRange).                    *)
(*                                                                         *)
(* The engine side is abstract: a get deadlocks, finds nothing, fails, or  *)
(* succeeds on a record of some length, and only a successful get fills a *)
(* slot: it sets the size to the bytes transferred, then copies them      *)
(* (for usercopy in one or two chunks).  Byte j of the record is j, so a   *)
(* slot's contents say which record bytes it holds.  A record get         *)
(* (DatabaseImpl) ends in SwitchMemStd, whose context.commit() may throw   *)
(* when EngineFaults is TRUE.                                              *)
(***************************************************************************)
EXTENDS Integers, Sequences

CONSTANTS Width,              \* bits of an int
          Calls,              \* [m, off, len, pos] of the gets the caller makes
          RecordLengths,      \* lengths of the record a get finds
          MaxDeadlockRetries, \* DatabaseImpl/CursorImpl retry limit (>= 1)
          EngineFaults        \* may the engine call or the commit throw?

ASSUME MaxDeadlockRetries \in Nat \ {0} /\ EngineFaults \in BOOLEAN

PW == INSTANCE PartialWindow

VARIABLES call,     \* the get being made
          window,   \* the window it passed to the engine
          pc,       \* "idle", "loop" (DeadlockLoop), "switch", "return"
          retry,    \* deadlocks seen by this call
          ret,      \* the engine's return code
          size,     \* the size the method works with
          rec,      \* the length of the record the engine found
          dataMem,  \* the value slot: "none", "handle", "malloc", "caller"
          arr,      \* the bytes in the value slot
          keyMem,   \* the key slot (cursor gets at a position other than Set)
          result,   \* what the call returned: "none", "bytes", "small",
                    \*   "notfound", "null", "error"
          out       \* the bytes it returned

vars == <<call, window, pc, retry, ret, size, rec, dataMem, arr, keyMem,
          result, out>>

MaxRecordLength == CHOOSE m \in RecordLengths : \A x \in RecordLengths : x <= m

Held == {"handle", "malloc"}   \* native allocations or GC roots still to release

(* DbtExtended/DbtHolder flags each method sets on its value slot.       *)
Kind(m) ==
  CASE m \in {"DbGet", "CursorGet"}         -> "usermem"
    [] m \in {"DbGetStream", "CursorStream"} -> "malloc"
    [] OTHER                                 -> "usercopy"

IsCursor(m) == m \in {"CursorGet", "CursorStream", "CursorGetBuffers"}

(* The cursor's key slot is written by the engine (MALLOC or USERCOPY)     *)
(* at every position but Set.                                              *)
KeyWritten(c) == IsCursor(c.m) /\ Kind(c.m) # "usermem" /\ c.pos # "Set"

(* The window each method passes (PartialWindow).                         *)
WindowOf(c) ==
  CASE c.m = "DbGet"                          -> PW!DbGetWindow(c)
    [] c.m \in {"DbGetStream", "DbGetBuffer"}  -> PW!DbStreamWindow(c)
    [] c.m = "CursorGet"                       -> PW!CursorGetWindow(c)
    [] OTHER                                   -> PW!CursorStreamWindow(c)

(* Record bytes [s, e).                                                    *)
Bytes(r) == [i \in 1..(r[2] - r[1]) |-> r[1] + i - 1]

(* Variant: the chunk is copied to the start of the array.                *)
UserCopyAtZero(app, a, dsize, offset, chunk) ==
  IF dsize > 0
  THEN LET base == IF app = "none" THEN [i \in 1..dsize |-> -1] ELSE a
       IN <<"handle", [i \in 1..dsize |->
                         IF i <= Len(chunk) THEN chunk[i] ELSE base[i]]>>
  ELSE <<"none", a>>

(* usercopy with DB_USERCOPY_SETDATA: the first call allocates an array   *)
(* of data->size and roots it with a GCHandle in app_data; every call      *)
(* copies its chunk to allocData[offset...]; a size of 0 clears app_data.  *)
(* Returns the new <<app_data, array>>.                                    *)
UserCopy(app, a, dsize, offset, chunk) ==
  IF dsize > 0
  THEN LET base == IF app = "none" THEN [i \in 1..dsize |-> -1] ELSE a
       IN <<"handle", [i \in 1..dsize |->
                         IF offset < i /\ i <= offset + Len(chunk)
                         THEN chunk[i - offset] ELSE base[i]]>>
  ELSE <<"none", a>>

(* Variant: CreateBuffer returns the array without freeing the handle.    *)
CreateBufferKeepsHandle(mem, a, sz) ==
  CASE sz < 0                -> [null |-> TRUE, v |-> <<>>, mem |-> mem]
    [] sz = 0                -> [null |-> FALSE, v |-> <<>>, mem |-> mem]
    [] mem = "none"          -> [null |-> TRUE, v |-> <<>>, mem |-> mem]
    [] OTHER                 -> [null |-> FALSE, v |-> a, mem |-> mem]

(* DbtExtended::CreateBuffer: a negative size or a NULL app_data gives     *)
(* null, size 0 an empty array; otherwise the handle's target is returned  *)
(* and the handle freed (in a finally).                                    *)
CreateBuffer(mem, a, sz) ==
  CASE sz < 0                -> [null |-> TRUE, v |-> <<>>, mem |-> mem]
    [] sz = 0                -> [null |-> FALSE, v |-> <<>>, mem |-> mem]
    [] mem = "none"          -> [null |-> TRUE, v |-> <<>>, mem |-> mem]
    [] OTHER                 -> [null |-> FALSE, v |-> a, mem |-> "caller"]

(* DbtExtended::CreateStream: the malloc'd block (or NULL) goes to a       *)
(* SafeUnmanagedMemoryStream that frees it.                                *)
CreateStream(mem) == IF mem = "malloc" THEN "caller" ELSE mem

Init ==
  /\ call \in Calls
  /\ window = PW!NoWindow
  /\ pc = "idle"
  /\ retry = 0
  /\ ret = "none"
  /\ size = -1
  /\ rec = 0
  /\ dataMem = "none"
  /\ arr = <<>>
  /\ keyMem = "none"
  /\ result = "none"
  /\ out = <<>>

(* A method starts: fresh slots, the window set as the method decides.    *)
(* GetBuffers throws NotSupportedException for SetRange before any slot    *)
(* is touched.                                                             *)
Invoke(c) ==
  /\ pc = "idle"
  /\ call' = c
  /\ retry' = 0 /\ ret' = "none" /\ size' = -1 /\ rec' = 0
  /\ dataMem' = "none" /\ arr' = <<>> /\ keyMem' = "none" /\ out' = <<>>
  /\ IF c.m = "CursorGetBuffers" /\ c.pos = "SetRange"
     THEN /\ window' = PW!NoWindow /\ result' = "error" /\ pc' = "idle"
     ELSE /\ window' = WindowOf(c) /\ result' = "none" /\ pc' = "loop"

(* DeadlockLoop: the engine reports a deadlock; the call retries until    *)
(* MaxDeadlockRetries deadlocks, then throws.  Nothing was copied.         *)
EngineDeadlock ==
  /\ pc = "loop"
  /\ retry' = retry + 1
  /\ IF retry + 1 >= MaxDeadlockRetries
     THEN pc' = "idle" /\ result' = "error"
     ELSE UNCHANGED <<pc, result>>
  /\ UNCHANGED <<call, window, ret, size, rec, dataMem, arr, keyMem, out>>

(* The engine finds no record (NOTFOUND, or KEYEMPTY, handled alike).     *)
EngineNotFound ==
  /\ pc = "loop"
  /\ ret' = "NOTFOUND" /\ pc' = "switch"
  /\ UNCHANGED <<call, window, retry, size, rec, dataMem, arr, keyMem, result,
                 out>>

(* The engine call throws something other than a deadlock (TryMemStd or   *)
(* the cursor's DeadlockLoop rethrow it as a BdbException).               *)
EngineFail ==
  /\ EngineFaults
  /\ pc = "loop"
  /\ pc' = "idle" /\ result' = "error"
  /\ UNCHANGED <<call, window, retry, ret, size, rec, dataMem, arr, keyMem, out>>

(* The engine finds a record of length l and transfers the window's bytes *)
(* into the slots; TryMemStd then reads the size.  A usermem get without  *)
(* a window whose record does not fit the caller's buffer gets            *)
(* DbMemoryException: BUFFER_SMALL with the record's size.  A usercopy    *)
(* slot is filled by one usercopy call, or two when the first k bytes     *)
(* come from one page and the rest from another.  A malloc slot gets a    *)
(* block even for 0 bytes: the engine always allocates, so the caller can *)
(* always free it.                                                        *)
EngineGet(l, k) ==
  LET r == PW!Transferred(window, l)
      n == r[2] - r[1]
      b == Bytes(r)
      first  == UserCopy("none", <<>>, n, 0, SubSeq(b, 1, k))
      second == UserCopy(first[1], first[2], n, k, SubSeq(b, k + 1, n))
  IN
  /\ pc = "loop"
  /\ k \in (IF Kind(call.m) = "usercopy" /\ n > 0 THEN 1..n ELSE {0})
  /\ pc' = "switch"
  /\ rec' = l
  /\ IF Kind(call.m) = "usermem" /\ window = PW!NoWindow /\ l > call.len
     THEN ret' = "BUFFER_SMALL" /\ size' = l /\ UNCHANGED <<dataMem, arr>>
     ELSE /\ ret' = "SUCCESS" /\ size' = n
          /\ CASE Kind(call.m) = "usercopy" /\ n = 0 ->
                     UNCHANGED <<dataMem, arr>>
                [] Kind(call.m) = "usercopy" /\ k = n ->
                     dataMem' = first[1] /\ arr' = first[2]
                [] Kind(call.m) = "usercopy" ->
                     dataMem' = second[1] /\ arr' = second[2]
                [] Kind(call.m) = "malloc" ->
                     dataMem' = "malloc" /\ arr' = b
                [] OTHER -> UNCHANGED dataMem /\ arr' = b
  /\ keyMem' = IF KeyWritten(call) THEN
                  (IF Kind(call.m) = "usercopy" THEN "handle" ELSE "malloc")
                ELSE keyMem
  /\ UNCHANGED <<call, window, retry, result, out>>

(* SwitchMemStd for a record get: NOTFOUND makes the size -1, then        *)
(* context.commit().  A cursor get has no context and goes straight to    *)
(* its own switch (in Return).                                            *)
SwitchMemStd ==
  /\ pc = "switch"
  /\ pc' = "return"
  /\ size' = IF ~IsCursor(call.m) /\ ret = "NOTFOUND" THEN -1 ELSE size
  /\ UNCHANGED <<call, window, retry, ret, rec, dataMem, arr, keyMem, result,
                 out>>

(* context.commit() in SwitchMemStd throws (a record get in a transaction *)
(* the context began): the method unwinds with the exception.  The        *)
(* DbtExtended value slot has no destructor, so whatever it holds stays.  *)
CommitThrows ==
  /\ EngineFaults
  /\ pc = "switch"
  /\ ~IsCursor(call.m)
  /\ pc' = "idle" /\ result' = "error"
  /\ UNCHANGED <<call, window, retry, ret, size, rec, dataMem, arr, keyMem, out>>

(* The method returns.  Record gets: a negative size gives null (or -1),   *)
(* otherwise CreateStream / CreateBuffer / the size of the caller's        *)
(* buffer.  Cursor gets: NOTFOUND gives NotFound lengths and no streams;   *)
(* otherwise the key slot (not at Set) and the value slot are turned into *)
(* streams or buffers.                                                     *)
Return ==
  LET kind == Kind(call.m)
      buf  == CreateBuffer(dataMem, arr, size)
      kbuf == CreateBuffer(keyMem, <<>>, 1)   \* key bytes are not tracked
  IN
  /\ pc = "return"
  /\ pc' = "idle"
  /\ IF ret = "NOTFOUND"
     THEN result' = "notfound" /\ UNCHANGED <<dataMem, keyMem, out>>
     ELSE CASE kind = "usermem" ->
                 /\ result' = IF ret = "BUFFER_SMALL" THEN "small" ELSE "bytes"
                 /\ out' = IF ret = "BUFFER_SMALL" THEN <<>> ELSE arr
                 /\ UNCHANGED <<dataMem, keyMem>>
            [] kind = "malloc" ->
                 /\ result' = "bytes" /\ out' = arr
                 /\ dataMem' = CreateStream(dataMem)
                 /\ keyMem' = CreateStream(keyMem)
            [] OTHER ->
                 /\ result' = IF buf.null THEN "null" ELSE "bytes"
                 /\ out' = buf.v
                 /\ dataMem' = buf.mem
                 /\ keyMem' = kbuf.mem
  /\ UNCHANGED <<call, window, retry, ret, size, rec, arr>>

Next ==
  \/ \E c \in Calls : Invoke(c)
  \/ EngineDeadlock
  \/ EngineNotFound
  \/ EngineFail
  \/ \E l \in RecordLengths, k \in 0..MaxRecordLength : EngineGet(l, k)
  \/ SwitchMemStd
  \/ CommitThrows
  \/ Return

Spec == Init /\ [][Next]_vars
-----------------------------------------------------------------------------
Mems == {"none", "handle", "malloc", "caller"}

TypeOK ==
  /\ call \in Calls
  /\ window \in {PW!NoWindow} \cup [doff : 0..PW!INT32_MAX, dlen : 0..PW!INT32_MAX]
  /\ pc \in {"idle", "loop", "switch", "return"}
  /\ retry \in 0..MaxDeadlockRetries
  /\ ret \in {"none", "SUCCESS", "BUFFER_SMALL", "NOTFOUND"}
  /\ size \in -1..MaxRecordLength
  /\ rec \in {0} \cup RecordLengths
  /\ dataMem \in Mems /\ keyMem \in Mems
  /\ arr \in Seq(Int)
  /\ result \in {"none", "bytes", "small", "notfound", "null", "error"}
  /\ out \in Seq(Int)

(* Whatever method, window and chunking the engine used, a get that found *)
(* a record returns bytes (never null, even for an empty window), and they *)
(* (the caller's buffer, the stream, the usercopy array) are exactly the   *)
(* record bytes spec.md 8 says the (offset, length) asks for:              *)
(* set_for_partial, the engine's transfer, usercopy's offsets and         *)
(* CreateBuffer/CreateStream compose to the requested window.              *)
BufferHoldsWindow ==
  (pc = "idle" /\ result \in {"bytes", "null"})
    => result = "bytes" /\ out = Bytes(PW!Requested(call, rec))

(* A get that returns normally (bytes, null, not found, buffer too small) *)
(* leaves nothing in its slots: every usercopy GCHandle was freed by      *)
(* CreateBuffer and every malloc'd block handed to a stream.               *)
ReleasedOnReturn ==
  (pc = "idle" /\ result # "error") => (dataMem \notin Held /\ keyMem \notin Held)

(* spec.md 3: a transfer slot is destroyed, releasing its allocations, at *)
(* call end regardless of success, failure or exception.                  *)
SlotReleasedAtCallEnd ==
  pc = "idle" => (dataMem \notin Held /\ keyMem \notin Held)

=============================================================================
