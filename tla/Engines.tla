------------------------------ MODULE Engines -------------------------------
(***************************************************************************)
(* The two Pebble databases of a replica (pkg/store/storage) and how raft's *)
(* state is laid out in one of them (raftstore/meta).                      *)
(*                                                                         *)
(* A database is a table from byte strings to byte strings, with the part  *)
(* of it that has reached the disk.  Write errors, which no caller looks   *)
(* at, do not happen.  A record or an entry is one Message; what matters   *)
(* of its protocol buffer is that Zero takes no bytes at all.              *)
(***************************************************************************)
EXTENDS Codec

CONSTANTS Index, UserKey, UserValue,  \* bounds: what is stored
          Message, Zero, Missing

ASSUME StoreAssumption ==
    /\ Index \subseteq Nat
    /\ \A i \in Index : Fits(i, IndexWidth)
    /\ UserKey \cup UserValue \subseteq Seq(0..(Base - 1))
    /\ \A k \in UserKey, v \in UserValue : Fits(Len(k) + Len(v) + Header, SizeWidth)
    /\ Zero \in Message
    /\ Missing \notin Message \cup UserValue

VARIABLES kv, meta,  \* Engines.kv and Engines.meta
          leaked,    \* an iterator on kv was never closed
          removing,  \* how far Destroy is: "no", "kv" or "meta" is next
          snap       \* the last KVSnapshot: its bytes and, as a ghost, the table scanned

vars == <<kv, meta, leaked, removing, snap>>

EmptyTable == [x \in {} |-> <<>>]

\* proto.Marshal and proto.Unmarshal.
Marshal(m) == IF m = Zero THEN <<>> ELSE <<m>>
Unmarshal(b) == IF b = <<>> THEN Zero ELSE Head(b)
-----------------------------------------------------------------------------
(* storage.go and modify.go: one database *)

toWriteOptions(sync) == IF sync THEN "Sync" ELSE "NoSync"

\* A synced write takes everything before it to the disk.
Written(db, tab, sync) ==
    [db EXCEPT !.tab = tab, !.disk = IF toWriteOptions(sync) = "Sync" THEN tab ELSE @]

set(db, key, val, sync) ==
    Written(db, [x \in DOMAIN db.tab \cup {key} |-> IF x = key THEN val ELSE db.tab[x]], sync)

delete(db, key, sync) ==
    Written(db, [x \in DOMAIN db.tab \ {key} |-> db.tab[x]], sync)

\* A value of no bytes is returned as nil, which is also what goes with ErrNotFound.
get(db, key) == IF key \in DOMAIN db.tab
                THEN [val |-> db.tab[key], err |-> "nil"]
                ELSE [val |-> <<>>, err |-> "ErrNotFound"]

PutMeta(key, msg, sync) == [type |-> "Put", key |-> key, val |-> Marshal(msg), sync |-> sync]
PutData(key, value, sync) == [type |-> "Put", key |-> key, val |-> value, sync |-> sync]
DeleteData(key, sync) == [type |-> "Delete", key |-> key, sync |-> sync]
DeleteMeta(key, sync) == DeleteData(key, sync)

Modified(db, m) == IF m.type = "Put" THEN set(db, m.key, m.val, m.sync)
                                     ELSE delete(db, m.key, m.sync)

\* Mutant: the scan leaves out what get returns nil for.
NonEmptyPairs(tab) ==
    SetToSeq({[key |-> k, val |-> tab[k]] : k \in {x \in DOMAIN tab : tab[x] # <<>>}})

\* The scan of storage.snapshot, over a pebble.Snapshot; the order does not matter here.
Pairs(tab) == SetToSeq({[key |-> k, val |-> tab[k]] : k \in DOMAIN tab})
-----------------------------------------------------------------------------
(* engines.go *)

WriteKV(m) == /\ kv.open
              /\ kv' = Modified(kv, m)
              /\ UNCHANGED <<meta, leaked, removing, snap>>

WriteMeta(m) == /\ meta.open
                /\ meta' = Modified(meta, m)
                /\ UNCHANGED <<kv, leaked, removing, snap>>

ReadKV(key) == get(kv, key)
ReadMeta(key) == get(meta, key)

\* Neither the iterator nor the snapshot is closed afterwards.
KVSnapshot == /\ kv.open
              /\ snap' = [data |-> Encode(Pairs(kv.tab)), tab |-> kv.tab]
              /\ leaked' = TRUE
              /\ UNCHANGED <<kv, meta, removing>>

Closed(db) == [db EXCEPT !.open = FALSE]

\* Pebble closes a database that has leaked iterators, and returns an error; the
\* second database is then not closed.
Close == /\ kv.open /\ meta.open
         /\ kv' = Closed(kv)
         /\ meta' = IF leaked THEN meta ELSE Closed(meta)
         /\ UNCHANGED <<leaked, snap>>

\* Destroy is Close and, if that succeeds, the removal of the two directories.
CloseOnly == Close /\ UNCHANGED removing

DestroyClose == Close /\ removing' = IF leaked THEN "no" ELSE "kv"

Removed(db) == [db EXCEPT !.tab = EmptyTable, !.disk = EmptyTable]

DestroyKV == /\ removing = "kv"
             /\ kv' = Removed(kv) /\ removing' = "meta"
             /\ UNCHANGED <<meta, leaked, snap>>

DestroyMeta == /\ removing = "meta"
               /\ meta' = Removed(meta) /\ removing' = "no"
               /\ UNCHANGED <<kv, leaked, snap>>

\* newStorage opens what is there; a database that is still open in this process is
\* locked, and pebble.Open panics.
NewEngines == /\ ~kv.open /\ ~meta.open /\ removing = "no"
              /\ kv' = [kv EXCEPT !.open = TRUE] /\ meta' = [meta EXCEPT !.open = TRUE]
              /\ leaked' = FALSE
              /\ UNCHANGED <<removing, snap>>

\* What was not synced may or may not be there after a crash.
Crash == /\ \E t \in {kv.tab, kv.disk} : kv' = [tab |-> t, disk |-> t, open |-> FALSE]
         /\ \E t \in {meta.tab, meta.disk} : meta' = [tab |-> t, disk |-> t, open |-> FALSE]
         /\ leaked' = FALSE /\ removing' = "no" /\ snap' = Missing
-----------------------------------------------------------------------------
(* raftstore: the callers *)

GetRaftState(key) == LET r == ReadMeta(key)
                     IN IF r.err = "ErrNotFound" THEN Zero ELSE Unmarshal(r.val)

GetRaftLocalState == GetRaftState(RaftLocalStateKey)
GetRaftApplyState == GetRaftState(RaftApplyStateKey)
GetRaftConfState == GetRaftState(RaftConfStateKey)

appendLogEntry(i) ==
    \E m \in Message \ {Zero} : WriteMeta(PutMeta(RaftLogEntryKey(i), m, TRUE))

deleteLogEntry(i) == WriteMeta(DeleteMeta(RaftLogEntryKey(i), TRUE))

writeState == \E key \in {RaftLocalStateKey, RaftApplyStateKey, RaftConfStateKey},
                 m \in Message : WriteMeta(PutMeta(key, m, TRUE))

\* Mutant: the users' keys go into the database of raft's state.
ProcessIntoMeta(k) == \E v \in UserValue : WriteMeta(PutData(k, v, TRUE))

processRequest(k) == \/ \E v \in UserValue : WriteKV(PutData(k, v, TRUE))
                     \/ WriteKV(DeleteData(k, TRUE))

Init == /\ kv = [tab |-> EmptyTable, disk |-> EmptyTable, open |-> TRUE]
        /\ meta = kv
        /\ leaked = FALSE /\ removing = "no" /\ snap = Missing

Next == \/ \E i \in Index : appendLogEntry(i) \/ deleteLogEntry(i)
        \/ writeState
        \/ \E k \in UserKey : processRequest(k)
        \/ KVSnapshot \/ CloseOnly \/ DestroyClose \/ DestroyKV \/ DestroyMeta
        \/ NewEngines \/ Crash

Spec == Init /\ [][Next]_vars
-----------------------------------------------------------------------------
(* Properties *)

\* Types: the databases hold only what Engines wrote, and every record can be unmarshalled.
TypeOK == /\ kv.open \in BOOLEAN /\ meta.open \in BOOLEAN
          /\ DOMAIN kv.tab \subseteq UserKey
          /\ \A k \in DOMAIN kv.tab : kv.tab[k] \in UserValue
          /\ \A k \in DOMAIN meta.tab : Unmarshal(meta.tab[k]) \in Message
          /\ leaked \in BOOLEAN /\ removing \in {"no", "kv", "meta"}

\* What a snapshot's receiver does with its bytes: decode them and put every pair.
Replay(data) ==
    LET pairs == Decode(data)
        db[i \in 0..Len(pairs)] ==
            IF i = 0 THEN [tab |-> EmptyTable, disk |-> EmptyTable]
            ELSE set(db[i - 1], pairs[i].key, pairs[i].val, TRUE)
    IN db[Len(pairs)].tab

\* The bytes of a snapshot, replayed into an empty engine by applySnapshot, give exactly
\* the table that was scanned, empty keys and values included.
SnapshotExact == snap # Missing => Replay(snap.data) = snap.tab

\* The engines implement the store that the raft code needs: distinct indexes and records
\* have distinct keys, a message of no bytes is not a missing one, and a crash between
\* any two operations loses nothing.
LogRead == [i \in Index |-> LET r == ReadMeta(RaftLogEntryKey(i))
                            IN IF r.err = "ErrNotFound" THEN Missing ELSE Unmarshal(r.val)]

KvRead == [k \in UserKey |-> LET r == ReadKV(k) IN IF r.val = <<>> THEN Missing ELSE r.val]

Store == INSTANCE ReplicaStore
           WITH Key <- UserKey, Value <- UserValue, inUse <- kv.open \/ meta.open,
                log <- LogRead, local <- GetRaftLocalState, apply <- GetRaftApplyState,
                conf <- GetRaftConfState, kv <- KvRead

ImplementsStore == Store!Spec
=============================================================================
