----------------------------- MODULE TypedKeys -----------------------------
(***************************************************************************)
(* The key Dbts the typed overloads of DatabaseImpl build before they      *)
(* call the legacy loops Put(Dbt, Dbt), Get(Dbt, Dbt) and                  *)
(* Delete(Dbt) (DatabaseImpl.cpp 634-941, 1319-1324, 1431-1516,            *)
(* 1604-1638).  A key comes in four shapes: a String (UTF-16 chars), an    *)
(* int, a byte array, and a DatabaseEntry whose Buffer is the key.         *)
(*                                                                         *)
(* A Dbt is its data (the bytes at its data pointer, as far as the key     *)
(* object reaches) and the size the overload sets; the engine addresses    *)
(* the record by the first size bytes.  Bytes are 0..255; the build is    *)
(* little-endian with a 4-byte int and db_recno_t.                          *)
(***************************************************************************)
EXTENDS Integers, Sequences
LOCAL INSTANCE SequencesExt

CONSTANTS
  KeyChars,   \* UTF-16 code units a String key is made of
  KeyBytes,   \* byte values of a byte-array key
  KeyInts,    \* int keys
  MaxKeyLen   \* longest String or byte-array key

Dbt(data, size) == [data |-> data, size |-> size]

(* PtrToStringChars: each char as its two bytes, low byte first. *)
StringBytes(s) == FlattenSeq([i \in 1..Len(s) |-> <<s[i] % 256, s[i] \div 256>>])

(* &key of an int: the four bytes of its two's complement, low first    *)
(* (floor division gives them for negative ints as well).               *)
IntBytes(k) == [i \in 1..4 |-> (k \div 256^(i - 1)) % 256]

(* The switch (dbType) of every typed Put: a hash or btree key is the key  *)
(* object's natural length, a queue or recno key is a db_recno_t read from *)
(* the key's data whatever its length.  DB_UNKNOWN and any other type      *)
(* throw (LegacyOps' TypeCheckFail).                                       *)
PutKeySize(dbType, natural) ==
  CASE dbType \in {"HASH", "BTREE"} -> natural
    [] dbType \in {"QUEUE", "RECNO"} -> 4

(* Put(String, String): key from PtrToStringChars, value Length * 2 bytes. *)
PutStringKey(dbType, s) == Dbt(StringBytes(s), PutKeySize(dbType, Len(s) * 2))

(* Put(int, array) and Put(int, DatabaseEntry): dbtKey.set_data(&key). *)
PutIntKey(dbType, k) == Dbt(IntBytes(k), PutKeySize(dbType, 4))

(* Put(array, array) and Put(array, DatabaseEntry): key->Length bytes. *)
PutBytesKey(dbType, a) == Dbt(a, PutKeySize(dbType, Len(a)))

(* Put(DatabaseEntry, DatabaseEntry): the whole key->Buffer; the entry's   *)
(* StartPosition and Length are not used for the key.                     *)
PutEntryKey(dbType, e) == Dbt(e.buffer, PutKeySize(dbType, Len(e.buffer)))

(* Variant: the key size taken as key->Length, in chars, not bytes. *)
GetStringKeyChars(s) == Dbt(StringBytes(s), Len(s))

(* Get(String) and Delete(String): key->Length * sizeof(Char) bytes. *)
GetStringKey(s) == Dbt(StringBytes(s), Len(s) * 2)

(* Get(int, array), Get(int, DatabaseEntry), Delete(int): sizeof(key). *)
GetIntKey(k) == Dbt(IntBytes(k), 4)

(* Get(array, DatabaseEntry) and Delete(array): key->Length bytes. *)
GetBytesKey(a) == Dbt(a, Len(a))

(* Get(DatabaseEntry, DatabaseEntry) and Delete(DatabaseEntry): the whole  *)
(* key->Buffer.                                                           *)
GetEntryKey(e) == Dbt(e.buffer, Len(e.buffer))

(* The record a key Dbt addresses: its first size bytes. *)
Addressed(d) == SubSeq(d.data, 1, d.size)

-----------------------------------------------------------------------------
(* The key domains: non-empty keys (CheckForNullOrEmptyKey refuses empty   *)
(* ones) up to MaxKeyLen units.                                           *)
StringKeys == UNION {[1..n -> KeyChars] : n \in 1..MaxKeyLen}
ByteKeys == UNION {[1..n -> KeyBytes] : n \in 1..MaxKeyLen}
EntryKeys == {[buffer |-> a] : a \in ByteKeys}

(* Typed keys agree (spec.md 4.1, 6): in a hash or btree database, the     *)
(* typed Put, Get and Delete overloads of one key shape build key Dbts     *)
(* that address the same record for the same key, and different keys of   *)
(* one shape address different records -- so a record put through         *)
(* Put(String, String) is the one Get(String) reads and Delete(String)     *)
(* removes, and likewise for int, byte-array and DatabaseEntry keys.       *)
TypedKeysAgree ==
  \A db \in {"HASH", "BTREE"} :
    /\ \A s \in StringKeys : Addressed(PutStringKey(db, s)) = Addressed(GetStringKey(s))
    /\ \A k \in KeyInts : Addressed(PutIntKey(db, k)) = Addressed(GetIntKey(k))
    /\ \A a \in ByteKeys : Addressed(PutBytesKey(db, a)) = Addressed(GetBytesKey(a))
    /\ \A e \in EntryKeys : Addressed(PutEntryKey(db, e)) = Addressed(GetEntryKey(e))
    /\ \A s1, s2 \in StringKeys :
         s1 # s2 => Addressed(GetStringKey(s1)) # Addressed(GetStringKey(s2))
    /\ \A k1, k2 \in KeyInts :
         k1 # k2 => Addressed(GetIntKey(k1)) # Addressed(GetIntKey(k2))
====
