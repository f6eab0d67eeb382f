-------------------------- MODULE KontractStorage --------------------------
(***************************************************************************)
(* The storage of one kontract: a map from hashed keys to values, the size *)
(* of its SCALE encoding, and the bounds under which the pallet accepts it *)
(* back from the executor.                                                 *)
(*                                                                         *)
(* A value is told apart only by its identity and its length; a key is the *)
(* 32-byte Blake2 hash under which the executor files it.                  *)
(***************************************************************************)
EXTENDS Integers, FiniteSets, FunctionSums

CONSTANTS
  Key,                          \* hashed keys
  Value,                        \* values a kontract may write
  Length,                       \* Length[v]: bytes in v
  MaxKontracStorageKeySize,     \* Config: bytes in a key
  MaxKontracStorageValueSize,   \* Config: bytes in a value
  MaxKontracStorageSize         \* Config: bound of the BoundedBTreeMap

ASSUME StorageAssumption ==
  /\ IsFiniteSet(Key)
  /\ MaxKontracStorageSize \in Nat
  /\ Length \in [Value -> Nat]

(***************************************************************************)
(* Maps, both the BTreeMap of a kontract and the StorageMaps of the pallet *)
(***************************************************************************)

Inserted(map, k, v) == [x \in DOMAIN map \cup {k} |-> IF x = k THEN v ELSE map[x]]

Removed(map, k) == [x \in DOMAIN map \ {k} |-> map[x]]

Storage == UNION {[K -> Value] : K \in SUBSET Key}

\* What a ValueQuery map answers for an absent entry.
EmptyStorage == [k \in {} |-> k]

----------------------------------------------------------------------------
(***************************************************************************)
(* SCALE sizes                                                             *)
(***************************************************************************)

\* Blake2Hasher: 256 bits.
HashLength == 32

\* Bytes of the compact encoding of a length.
CompactLength(n) ==
  IF n < 64 THEN 1 ELSE IF n < 16384 THEN 2 ELSE IF n < 1073741824 THEN 4 ELSE 5

\* Bytes of the encoding of a vector of n bytes.
EncodedLength(n) == CompactLength(n) + n

EntrySize(v) == EncodedLength(HashLength) + EncodedLength(Length[v])

\* Bytes of the encoding of a storage after the compact count of its entries.
EntriesSize == [s \in Storage |-> Total([k \in DOMAIN s |-> EntrySize(s[k])])]

\* KontractStorage::decode succeeds: every bound of the type is respected.
Decodable(s) ==
  /\ Cardinality(DOMAIN s) <= MaxKontracStorageSize
  /\ \A k \in DOMAIN s : /\ HashLength <= MaxKontracStorageKeySize
                         /\ Length[s[k]] <= MaxKontracStorageValueSize
============================================================================
