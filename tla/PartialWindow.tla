---------------------------- MODULE PartialWindow ----------------------------
(***************************************************************************)
(* The partial window a record or cursor get asks the engine for, and the  *)
(* bytes of the record the engine then transfers: operators used by        *)
(* TransferSlots, which checks them end to end.                            *)
(*                                                                         *)
(* DbtExtended::set_for_partial (DbtHolder.h) turns a caller's (offset,    *)
(* length) into the engine's doff/dlen with DB_DBT_PARTIAL: a negative     *)
(* offset becomes 0 and a negative length INT32_MAX ("to the end").  Each  *)
(* get method decides on its own whether to call it:                      *)
(*   DbGet        DatabaseImpl::Get(key, offset, buffer)     offset >= 0   *)
(*   DbGetStream  DatabaseImpl::Get(key, offset, length) and GetBuffer     *)
(*                                            offset > 0 || length > 0     *)
(*   CursorGet    CursorImpl::Get into Lengths               offset >= 0   *)
(*   CursorStream CursorImpl::Get into Streams, GetBuffers                 *)
(*                                            offset > 0 || length >= 0    *)
(* DbGet and CursorGet ask for as many bytes as the caller's buffer holds. *)
(*                                                                         *)
(* The reference is spec.md 8 ("Partial window correctness"): for offset   *)
(* >= 0 the window is (offset, length), or (offset, to the end) when       *)
(* length < 0; a negative offset means no window, whatever the length.    *)
(* Integers have Width bits: INT32_MAX is 2^(Width-1) - 1 and the engine   *)
(* adds doff and dlen as unsigned Width-bit numbers.                       *)
(***************************************************************************)
EXTENDS Integers

CONSTANT Width   \* bits of an int (32 in the build)

ASSUME Width \in Nat /\ Width >= 2

INT32_MAX == 2^(Width - 1) - 1
UINT32 == 2^Width

NoWindow == [doff |-> -1, dlen |-> -1]

MinOf(a, b) == IF a <= b THEN a ELSE b

(* Variant: a negative length stored as (u_int32_t)-1.                    *)
SetForPartialWrap(offset, length) ==
  [doff |-> IF offset < 0 THEN 0 ELSE offset,
   dlen |-> IF length < 0 THEN UINT32 - 1 ELSE length]

(* DbtExtended::set_for_partial.                                          *)
SetForPartial(offset, length) ==
  [doff |-> IF offset < 0 THEN 0 ELSE offset,
   dlen |-> IF length < 0 THEN INT32_MAX ELSE length]

(* DatabaseImpl::Get(key, offset, buffer): a window of the buffer's size   *)
(* when offset >= 0.                                                       *)
DbGetWindow(c) ==
  IF c.off >= 0 THEN SetForPartial(c.off, c.len) ELSE NoWindow

(* DatabaseImpl::Get(key, offset, length) (stream) and GetBuffer.          *)
DbStreamWindow(c) ==
  IF c.off > 0 \/ c.len > 0 THEN SetForPartial(c.off, c.len) ELSE NoWindow

(* CursorImpl::Get into Lengths (both overloads): a window of the value   *)
(* buffer's size when the value offset is >= 0.                            *)
CursorGetWindow(c) ==
  IF c.off >= 0 THEN SetForPartial(c.off, c.len) ELSE NoWindow

(* CursorImpl::Get into Streams, GetBuffers (and Put).                     *)
CursorStreamWindow(c) ==
  IF c.off > 0 \/ c.len >= 0 THEN SetForPartial(c.off, c.len) ELSE NoWindow

(* The engine's partial get: bytes [doff, doff + dlen) of a record of     *)
(* length l, as a half-open range; the end is an unsigned Width-bit sum.   *)
Transferred(w, l) ==
  IF w = NoWindow THEN <<0, l>>
  ELSE LET s == MinOf(w.doff, l)
           e == MinOf((w.doff + w.dlen) % UINT32, l)
       IN <<s, IF e < s THEN s ELSE e>>

(* spec.md: the bytes a call with this offset and length asks for.        *)
Requested(c, l) ==
  IF c.off < 0 THEN <<0, l>>
  ELSE IF c.len < 0 THEN <<MinOf(c.off, l), l>>
  ELSE <<MinOf(c.off, l), MinOf(c.off + c.len, l)>>

====
