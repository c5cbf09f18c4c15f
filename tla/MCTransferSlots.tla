--------------------------- MODULE MCTransferSlots ---------------------------
(* TransferSlots for TLC: 8-bit integers (so a to-the-end window is 127  *)
(* and the engine's end wraps at 256), records of 0..4 bytes, offsets and  *)
(* lengths around every method's window test, cursor positions Set,        *)
(* SetRange and one other (Next).                                          *)
EXTENDS TransferSlots

MCWidth == 8
MCRecordLengths == 0..4

CursorPositions == {"Set", "SetRange", "Next"}

Get(m, o, n, p) == [m |-> m, off |-> o, len |-> n, pos |-> p]

(* Gets into a caller's buffer of capacity 0..3, any offset.              *)
BufferGets ==
  {Get("DbGet", o, n, "Set") : o \in -1..3, n \in 0..3}
  \cup {Get("CursorGet", o, n, p) : o \in -1..3, n \in 0..3, p \in CursorPositions}

(* Stream and byte-array gets whose window is the one spec.md 8 names:    *)
(* non-negative offsets (but (0, 0) for the record gets) and the          *)
(* whole-record call (-1, -1).                                             *)
StreamArgs == ((0..3) \X (-1..3)) \cup {<<-1, -1>>}

StreamGets ==
  {Get(m, a[1], a[2], "Set") : m \in {"DbGetStream", "DbGetBuffer"},
                               a \in StreamArgs \ {<<0, 0>>}}
  \cup {Get(m, a[1], a[2], p) : m \in {"CursorStream", "CursorGetBuffers"},
                                a \in StreamArgs, p \in CursorPositions}

PassCalls == BufferGets \cup StreamGets

(* Stream and byte-array gets with a negative offset and a length >= 0,   *)
(* and the record gets' (0, 0).                                            *)
LowCalls ==
  {Get(m, o, n, "Next") : m \in {"DbGetStream", "DbGetBuffer", "CursorStream",
                                 "CursorGetBuffers"},
                          o \in -1..0, n \in 0..3}
=============================================================================
