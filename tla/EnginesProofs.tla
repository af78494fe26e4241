---------------------------- MODULE EnginesProofs ----------------------------
(***************************************************************************)
(* Proofs about Engines: the two databases implement ReplicaStore, and the *)
(* bytes of a snapshot give back the table that was scanned.               *)
(***************************************************************************)
EXTENDS Engines, QueueLemmas

-----------------------------------------------------------------------------
(* encoding/binary *)

\* Division by Base, as far as it is needed: the last byte and the rest make up
\* the number.
LEMMA Division ==
    /\ Base \in Nat /\ Base > 4 /\ IndexWidth \in Nat \ {0} /\ SizeWidth \in Nat \ {0}
    /\ \A x \in Nat : /\ x \div Base \in Nat
                      /\ x % Base \in 0..(Base - 1)
                      /\ x = Base * (x \div Base) + (x % Base)
    /\ \A x, y \in Nat : x <= y => x \div Base <= y \div Base
<1>1. Base \in Nat /\ Base > 4 /\ IndexWidth \in Nat \ {0} /\ SizeWidth \in Nat \ {0}
  BY CodecAssumption
<1>2. \A x \in Nat : /\ x \div Base \in Nat
                     /\ x % Base \in 0..(Base - 1)
                     /\ x = Base * (x \div Base) + (x % Base)
  BY <1>1
<1>3. \A x, y \in Nat : x <= y => x \div Base <= y \div Base
  BY <1>1
<1>. QED
  BY <1>1, <1>2, <1>3

\* The shifts of a number.
LEMMA ShiftsFacts ==
    ASSUME NEW n \in Nat, NEW w \in Nat
    PROVE  /\ Shifts(n, w) \in [0..w -> Nat]
           /\ Shifts(n, w)[0] = n
           /\ \A d \in 1..w : Shifts(n, w)[d] = Shifts(n, w)[d - 1] \div Base
<1>0. PICK N : N = Nat
  OBVIOUS
<1>1. PICK F : F = [x \in N |-> [d \in 1..w |-> x \div Base]]
  OBVIOUS
<1>2. PICK g \in [0..w -> N] : g[0] = n /\ \A d \in 1..w : g[d] = F[g[d - 1]][d]
  <2>1. n \in N /\ \A x \in N, d \in 1..w : F[x][d] \in N
    BY <1>0, <1>1, Division
  <2>2. LoopRuns(N, n, w, F)
    BY <2>1, LoopHistory
  <2>. QED
    BY <2>2 DEF LoopRuns
<1>3. \A d \in 1..w : g[d] = g[d - 1] \div Base
  BY <1>1, <1>2
<1>4. g = [d \in 0..w |-> IF d = 0 THEN n ELSE g[d - 1] \div Base]
  BY <1>2, <1>3
<1>5. Shifts(n, w) = [d \in 0..w |-> IF d = 0 THEN n ELSE Shifts(n, w)[d - 1] \div Base]
  BY <1>4 DEF Shifts
<1>6. PICK s : s = Shifts(n, w)
  OBVIOUS
<1>7. s = [d \in 0..w |-> IF d = 0 THEN n ELSE s[d - 1] \div Base]
  BY <1>5, <1>6
<1>8. s[0] = n /\ \A d \in 1..w : s[d] = s[d - 1] \div Base
  BY <1>7
<1>9. \A d \in 0..w : d \in {j \in Nat : s[j] \in Nat}
  <2>. DEFINE P == {j \in Nat : s[j] \in Nat}
  <2>1. 0 \in P
    BY <1>8
  <2>2. \A d \in 1..w : d - 1 \in P => d \in P
    <3>. SUFFICES ASSUME NEW d \in 1..w, s[d - 1] \in Nat PROVE s[d] \in Nat
      OBVIOUS
    <3>1. s[d] = s[d - 1] \div Base
      BY <1>8
    <3>. QED
      BY <3>1, Division
  <2>. HIDE DEF P
  <2>3. \A d \in 0..w : d \in P
    BY <2>1, <2>2, InductUpTo
  <2>. QED
    BY <2>3 DEF P
<1>10. s \in [0..w -> Nat]
  BY <1>7, <1>9
<1>. QED
  BY <1>6, <1>8, <1>10

\* A number takes w bytes, each below Base.
LEMMA LittleEndianType ==
    ASSUME NEW n \in Nat, NEW w \in Nat
    PROVE  /\ LittleEndian(n, w) \in Seq(0..(Base - 1))
           /\ Len(LittleEndian(n, w)) = w
           /\ \A d \in 1..w : LittleEndian(n, w)[d] = Shifts(n, w)[d - 1] % Base
<1>1. \A d \in 1..w : Shifts(n, w)[d - 1] \in Nat
  BY ShiftsFacts
<1>2. \A d \in 1..w : Shifts(n, w)[d - 1] % Base \in 0..(Base - 1)
  BY <1>1, Division
<1>. QED
  BY <1>2 DEF LittleEndian

\* Numbers that fit into their bytes and have the same bytes are the same.
LEMMA SameBytes ==
    ASSUME NEW a \in Nat, NEW b \in Nat, NEW w \in Nat, Fits(a, w), Fits(b, w),
           LittleEndian(a, w) = LittleEndian(b, w)
    PROVE  a = b
<1>1. PICK A \in [0..w -> Nat] :
        A = Shifts(a, w) /\ A[0] = a /\ \A d \in 1..w : A[d] = A[d - 1] \div Base
  BY ShiftsFacts
<1>2. PICK B \in [0..w -> Nat] :
        B = Shifts(b, w) /\ B[0] = b /\ \A d \in 1..w : B[d] = B[d - 1] \div Base
  BY ShiftsFacts
<1>3. \A d \in 1..w : A[d - 1] % Base = B[d - 1] % Base
  <2>. TAKE d \in 1..w
  <2>1. LittleEndian(a, w)[d] = A[d - 1] % Base
    BY <1>1, LittleEndianType
  <2>2. LittleEndian(b, w)[d] = B[d - 1] % Base
    BY <1>2, LittleEndianType
  <2>. QED
    BY <2>1, <2>2
<1>4. A[w] = 0 /\ B[w] = 0
  BY <1>1, <1>2 DEF Fits
<1>. DEFINE P == {j \in Nat : A[w - j] = B[w - j]}
<1>5. 0 \in P
  BY <1>4
<1>6. ASSUME NEW j \in 1..w, j - 1 \in P
      PROVE  j \in P
  <2>1. PICK d \in 1..w : w - (j - 1) = d /\ w - j = d - 1
    OBVIOUS
  <2>2. A[d] = B[d]
    BY <1>6, <2>1
  <2>3. A[d - 1] \in Nat /\ B[d - 1] \in Nat
    OBVIOUS
  <2>4. A[d - 1] \div Base = B[d - 1] \div Base /\ A[d - 1] % Base = B[d - 1] % Base
    BY <1>1, <1>2, <1>3, <2>2
  <2>5. A[d - 1] = B[d - 1]
    BY <2>3, <2>4, Division
  <2>6. A[w - j] = B[w - j] /\ j \in Nat
    BY <2>1, <2>5
  <2>. QED
    BY <2>6
<1>7. w \in P
  <2>1. \A j \in 1..w : j - 1 \in P => j \in P
    BY <1>6
  <2>. HIDE DEF P
  <2>2. \A j \in 0..w : j \in P
    BY <1>5, <2>1, InductUpTo
  <2>. QED
    BY <2>2
<1>8. A[0] = B[0]
  BY <1>7
<1>. QED
  BY <1>1, <1>2, <1>8

-----------------------------------------------------------------------------
(* The keys of raft's state *)

\* No two entries, and no entry and record, share a key.
LEMMA KeysDistinct ==
    /\ \A i, j \in Index : RaftLogEntryKey(i) = RaftLogEntryKey(j) => i = j
    /\ \A i \in Index :
         RaftLogEntryKey(i) \notin {RaftLocalStateKey, RaftApplyStateKey, RaftConfStateKey}
    /\ RaftLocalStateKey # RaftApplyStateKey
    /\ RaftLocalStateKey # RaftConfStateKey
    /\ RaftApplyStateKey # RaftConfStateKey
<1>1. ASSUME NEW i \in Index
      PROVE  /\ i \in Nat /\ Fits(i, IndexWidth)
             /\ LittleEndian(i, IndexWidth) \in Seq(0..(Base - 1))
             /\ Len(LittleEndian(i, IndexWidth)) = IndexWidth
  BY StoreAssumption, LittleEndianType, Division
<1>2. ASSUME NEW i \in Index
      PROVE  /\ RaftLogEntryKey(i)[1] = 1
             /\ \A d \in 1..IndexWidth :
                  RaftLogEntryKey(i)[d + 1] = LittleEndian(i, IndexWidth)[d]
  <2>1. PICK s \in Seq(0..(Base - 1)) : s = LittleEndian(i, IndexWidth) /\ Len(s) = IndexWidth
    BY <1>1
  <2>2. RaftLogEntryKey(i) = <<1>> \o s
    BY <2>1 DEF RaftLogEntryKey, buildMetaKey
  <2>3. <<1>> \in Seq(0..(Base - 1)) /\ Len(<<1>>) = 1 /\ IndexWidth \in Nat
    BY <2>1, Division
  <2>. QED
    BY <2>1, <2>2, <2>3
<1>3. ASSUME NEW i \in Index, NEW j \in Index, RaftLogEntryKey(i) = RaftLogEntryKey(j)
      PROVE  i = j
  <2>1. \A d \in 1..IndexWidth : LittleEndian(i, IndexWidth)[d] = LittleEndian(j, IndexWidth)[d]
    BY <1>2, <1>3
  <2>2. LittleEndian(i, IndexWidth) = LittleEndian(j, IndexWidth)
    BY <2>1 DEF LittleEndian
  <2>. QED
    BY <1>1, <2>2, SameBytes, Division
<1>4. ASSUME NEW i \in Index
      PROVE  RaftLogEntryKey(i) \notin {RaftLocalStateKey, RaftApplyStateKey, RaftConfStateKey}
  BY <1>2 DEF RaftLocalStateKey, RaftApplyStateKey, RaftConfStateKey, buildMetaKey
<1>5. /\ RaftLocalStateKey # RaftApplyStateKey
      /\ RaftLocalStateKey # RaftConfStateKey
      /\ RaftApplyStateKey # RaftConfStateKey
  BY DEF RaftLocalStateKey, RaftApplyStateKey, RaftConfStateKey, buildMetaKey
<1>. QED
  BY <1>3, <1>4, <1>5

\* A message survives its protocol buffer, Zero, which takes no bytes, too.
LEMMA RoundTrip ==
    ASSUME NEW m
    PROVE  Unmarshal(Marshal(m)) = m
BY DEF Marshal, Unmarshal


-----------------------------------------------------------------------------
(* The inductive invariant *)

\* Every write is synced: what is in a database is on disk.
Synced(db) == db = [tab |-> db.tab, disk |-> db.tab, open |-> db.open] /\ db.open \in BOOLEAN

UserTab(tab) == /\ tab \in [DOMAIN tab -> UserValue]
                /\ DOMAIN tab \subseteq UserKey
                /\ IsFiniteSet(DOMAIN tab)

RaftTab(tab) == tab \in [DOMAIN tab -> {Marshal(m) : m \in Message}]

\* What a snapshot holds is the scan of a table of the past.
SnapInv == snap # Missing => UserTab(snap.tab) /\ snap.data = Encode(Pairs(snap.tab))

\* Destroy removes the directories of databases that it has closed, kv first.
DestroyInv == /\ removing \in {"no", "kv", "meta"}
              /\ removing # "no" => ~kv.open /\ ~meta.open
              /\ removing = "meta" => kv.tab = EmptyTable

EnginesInv == /\ Synced(kv) /\ Synced(meta)
              /\ UserTab(kv.tab) /\ RaftTab(meta.tab)
              /\ leaked \in BOOLEAN
              /\ SnapInv /\ DestroyInv

\* The tables that set and delete leave.
Put(tab, key, val) == [x \in DOMAIN tab \cup {key} |-> IF x = key THEN val ELSE tab[x]]
Drop(tab, key) == [x \in DOMAIN tab \ {key} |-> tab[x]]

\* A synced write of an open database.
LEMMA SyncedWrite ==
    ASSUME NEW db, Synced(db), NEW key, NEW val
    PROVE  /\ set(db, key, val, TRUE) =
                [tab |-> Put(db.tab, key, val), disk |-> Put(db.tab, key, val), open |-> db.open]
           /\ delete(db, key, TRUE) =
                [tab |-> Drop(db.tab, key), disk |-> Drop(db.tab, key), open |-> db.open]
<1>1. PICK t, o : db = [tab |-> t, disk |-> t, open |-> o]
  BY DEF Synced
<1>2. ASSUME NEW u
      PROVE  Written(db, u, TRUE) = [tab |-> u, disk |-> u, open |-> o]
  <2>1. Written(db, u, TRUE) = [db EXCEPT !.tab = u, !.disk = u]
    BY DEF Written, toWriteOptions
  <2>2. [db EXCEPT !.tab = u] = [tab |-> u, disk |-> t, open |-> o]
    BY <1>1
  <2>. QED
    BY <1>1, <2>1, <2>2
<1>3. db.tab = t /\ db.open = o
  BY <1>1
<1>4. /\ set(db, key, val, TRUE) = Written(db, Put(db.tab, key, val), TRUE)
      /\ delete(db, key, TRUE) = Written(db, Drop(db.tab, key), TRUE)
  BY DEF set, delete, Put, Drop
<1>. QED
  BY <1>2, <1>3, <1>4

\* What is written is on disk and read back.
LEMMA SyncedRecord ==
    ASSUME NEW t, NEW o \in BOOLEAN
    PROVE  /\ Synced([tab |-> t, disk |-> t, open |-> o])
           /\ [tab |-> t, disk |-> t, open |-> o].tab = t
           /\ [tab |-> t, disk |-> t, open |-> o].open = o
BY DEF Synced

\* A new database holds nothing, which is well typed.
LEMMA EmptyTableFacts ==
    DOMAIN EmptyTable = {} /\ UserTab(EmptyTable) /\ RaftTab(EmptyTable)
BY FS_EmptySet DEF EmptyTable, UserTab, RaftTab

\* A key written keeps the table of the users' keys one.
LEMMA UserTabWrite ==
    ASSUME NEW tab, UserTab(tab), NEW k \in UserKey, NEW v \in UserValue
    PROVE  UserTab(Put(tab, k, v))
<1>1. DOMAIN Put(tab, k, v) = DOMAIN tab \cup {k}
  BY DEF Put
<1>2. IsFiniteSet(DOMAIN tab \cup {k})
  BY FS_AddElement DEF UserTab
<1>3. Put(tab, k, v) \in [DOMAIN tab \cup {k} -> UserValue]
  BY DEF Put, UserTab
<1>. QED
  BY <1>1, <1>2, <1>3 DEF UserTab

\* So does a key deleted.
LEMMA UserTabDrop ==
    ASSUME NEW tab, UserTab(tab), NEW k
    PROVE  UserTab(Drop(tab, k))
<1>1. DOMAIN Drop(tab, k) = DOMAIN tab \ {k}
  BY DEF Drop
<1>2. IsFiniteSet(DOMAIN tab \ {k})
  BY FS_RemoveElement DEF UserTab
<1>3. Drop(tab, k) \in [DOMAIN tab \ {k} -> UserValue]
  BY DEF Drop, UserTab
<1>. QED
  BY <1>1, <1>2, <1>3 DEF UserTab

\* A message written, or an entry deleted, keeps the values of meta protocol buffers.
LEMMA RaftTabWrite ==
    ASSUME NEW tab, RaftTab(tab), NEW k, NEW m \in Message
    PROVE  RaftTab(Put(tab, k, Marshal(m))) /\ RaftTab(Drop(tab, k))
<1>1. DOMAIN Put(tab, k, Marshal(m)) = DOMAIN tab \cup {k} /\ DOMAIN Drop(tab, k) = DOMAIN tab \ {k}
  BY DEF Put, Drop
<1>2. Put(tab, k, Marshal(m)) \in [DOMAIN tab \cup {k} -> {Marshal(x) : x \in Message}]
  BY DEF Put, RaftTab
<1>3. Drop(tab, k) \in [DOMAIN tab \ {k} -> {Marshal(x) : x \in Message}]
  BY DEF Drop, RaftTab
<1>. QED
  BY <1>1, <1>2, <1>3 DEF RaftTab

-----------------------------------------------------------------------------
(* What each step does to the two tables *)

\* appendLogEntries, deleteLogEntries, writeLocalState, writeApplyState and
\* writeConfState.
RaftWrite(t) == /\ meta.open
                /\ meta' = [tab |-> t, disk |-> t, open |-> TRUE]
                /\ UNCHANGED <<kv, leaked, removing, snap>>

UserWrite(t) == /\ kv.open
                /\ kv' = [tab |-> t, disk |-> t, open |-> TRUE]
                /\ UNCHANGED <<meta, leaked, removing, snap>>

\* What WriteMeta does to an open database that is synced.
LEMMA WriteMetaFacts ==
    ASSUME Synced(meta), NEW key, NEW m
    PROVE  /\ WriteMeta(PutMeta(key, m, TRUE)) => RaftWrite(Put(meta.tab, key, Marshal(m)))
           /\ WriteMeta(DeleteMeta(key, TRUE)) => RaftWrite(Drop(meta.tab, key))
<1>1. ASSUME WriteMeta(PutMeta(key, m, TRUE))
      PROVE  RaftWrite(Put(meta.tab, key, Marshal(m)))
  <2>1. meta.open /\ meta' = set(meta, key, Marshal(m), TRUE)
        /\ UNCHANGED <<kv, leaked, removing, snap>>
    BY <1>1 DEF WriteMeta, Modified, PutMeta
  <2>. QED
    BY <2>1, SyncedWrite DEF RaftWrite, Synced
<1>2. ASSUME WriteMeta(DeleteMeta(key, TRUE))
      PROVE  RaftWrite(Drop(meta.tab, key))
  <2>1. meta.open /\ meta' = delete(meta, key, TRUE)
        /\ UNCHANGED <<kv, leaked, removing, snap>>
    BY <1>2 DEF WriteMeta, Modified, DeleteMeta, DeleteData
  <2>. QED
    BY <2>1, SyncedWrite DEF RaftWrite, Synced
<1>. QED
  BY <1>1, <1>2

\* What WriteKV does to an open database that is synced.
LEMMA WriteKVFacts ==
    ASSUME Synced(kv), NEW key, NEW v
    PROVE  /\ WriteKV(PutData(key, v, TRUE)) => UserWrite(Put(kv.tab, key, v))
           /\ WriteKV(DeleteData(key, TRUE)) => UserWrite(Drop(kv.tab, key))
<1>1. ASSUME WriteKV(PutData(key, v, TRUE))
      PROVE  UserWrite(Put(kv.tab, key, v))
  <2>1. kv.open /\ kv' = set(kv, key, v, TRUE)
        /\ UNCHANGED <<meta, leaked, removing, snap>>
    BY <1>1 DEF WriteKV, Modified, PutData
  <2>. QED
    BY <2>1, SyncedWrite DEF UserWrite, Synced
<1>2. ASSUME WriteKV(DeleteData(key, TRUE))
      PROVE  UserWrite(Drop(kv.tab, key))
  <2>1. kv.open /\ kv' = delete(kv, key, TRUE)
        /\ UNCHANGED <<meta, leaked, removing, snap>>
    BY <1>2 DEF WriteKV, Modified, DeleteData
  <2>. QED
    BY <2>1, SyncedWrite DEF UserWrite, Synced
<1>. QED
  BY <1>1, <1>2

\* Closing, reopening and crashing change no table.
SameTables(k, m) ==
    /\ kv' = [tab |-> kv.tab, disk |-> kv.tab, open |-> k]
    /\ meta' = [tab |-> meta.tab, disk |-> meta.tab, open |-> m]

\* Close, whose second half is skipped when an iterator leaked.
LEMMA CloseFacts ==
    ASSUME Synced(kv), Synced(meta), leaked \in BOOLEAN, Close
    PROVE  kv.open /\ meta.open /\ SameTables(FALSE, leaked) /\ UNCHANGED <<leaked, snap>>
<1>1. PICK t, o : kv = [tab |-> t, disk |-> t, open |-> o]
  BY DEF Synced
<1>2. PICK u, p : meta = [tab |-> u, disk |-> u, open |-> p] /\ p \in BOOLEAN
  BY DEF Synced
<1>3. kv' = [tab |-> t, disk |-> t, open |-> FALSE]
  BY <1>1 DEF Close, Closed
<1>4. meta' = [tab |-> u, disk |-> u, open |-> leaked]
  <2>1. CASE leaked
    <3>1. meta' = meta /\ p
      BY <1>2, <2>1 DEF Close
    <3>. QED
      BY <1>2, <2>1, <3>1
  <2>2. CASE ~leaked
    <3>1. meta' = [meta EXCEPT !.open = FALSE]
      BY <2>2 DEF Close, Closed
    <3>2. leaked = FALSE
      BY <2>2
    <3>. QED
      BY <1>2, <3>1, <3>2
  <2>. QED
    BY <2>1, <2>2
<1>. QED
  BY <1>1, <1>2, <1>3, <1>4 DEF Close, SameTables

\* A crash loses nothing, since every write was synced.
LEMMA CrashFacts ==
    ASSUME Synced(kv), Synced(meta), Crash
    PROVE  SameTables(FALSE, FALSE) /\ leaked' = FALSE /\ removing' = "no" /\ snap' = Missing
<1>1. kv.disk = kv.tab /\ meta.disk = meta.tab
  BY DEF Synced
<1>. QED
  BY <1>1 DEF Crash, SameTables

\* NewEngines finds the tables as they were left.
LEMMA OpenFacts ==
    ASSUME Synced(kv), Synced(meta), NewEngines
    PROVE  /\ ~kv.open /\ ~meta.open /\ removing = "no" /\ SameTables(TRUE, TRUE)
           /\ leaked' = FALSE /\ UNCHANGED <<removing, snap>>
<1>1. PICK t, o : kv = [tab |-> t, disk |-> t, open |-> o]
  BY DEF Synced
<1>2. PICK u, p : meta = [tab |-> u, disk |-> u, open |-> p]
  BY DEF Synced
<1>3. kv' = [tab |-> t, disk |-> t, open |-> TRUE] /\ kv.tab = t
  BY <1>1 DEF NewEngines
<1>4. meta' = [tab |-> u, disk |-> u, open |-> TRUE] /\ meta.tab = u
  BY <1>2 DEF NewEngines
<1>. QED
  BY <1>3, <1>4 DEF NewEngines, SameTables


\* The steps of the callers, in these terms.
LEMMA Steps ==
    ASSUME EnginesInv, Next
    PROVE  \/ \E i \in Index, m \in Message :
                 RaftWrite(Put(meta.tab, RaftLogEntryKey(i), Marshal(m)))
           \/ \E i \in Index : RaftWrite(Drop(meta.tab, RaftLogEntryKey(i)))
           \/ \E key \in {RaftLocalStateKey, RaftApplyStateKey, RaftConfStateKey},
                 m \in Message : RaftWrite(Put(meta.tab, key, Marshal(m)))
           \/ \E k \in UserKey, v \in UserValue : UserWrite(Put(kv.tab, k, v))
           \/ \E k \in UserKey : UserWrite(Drop(kv.tab, k))
           \/ KVSnapshot \/ CloseOnly \/ DestroyClose \/ DestroyKV \/ DestroyMeta
           \/ NewEngines \/ Crash
<1>0. Synced(kv) /\ Synced(meta)
  BY DEF EnginesInv
<1>1. ASSUME NEW i \in Index, appendLogEntry(i)
      PROVE  \E m \in Message : RaftWrite(Put(meta.tab, RaftLogEntryKey(i), Marshal(m)))
  BY <1>0, <1>1, WriteMetaFacts DEF appendLogEntry
<1>2. ASSUME NEW i \in Index, deleteLogEntry(i)
      PROVE  RaftWrite(Drop(meta.tab, RaftLogEntryKey(i)))
  BY <1>0, <1>2, WriteMetaFacts DEF deleteLogEntry
<1>3. ASSUME writeState
      PROVE  \E key \in {RaftLocalStateKey, RaftApplyStateKey, RaftConfStateKey},
                m \in Message : RaftWrite(Put(meta.tab, key, Marshal(m)))
  BY <1>0, <1>3, WriteMetaFacts DEF writeState
<1>4. ASSUME NEW k \in UserKey, processRequest(k)
      PROVE  \/ \E v \in UserValue : UserWrite(Put(kv.tab, k, v))
             \/ UserWrite(Drop(kv.tab, k))
  BY <1>0, <1>4, WriteKVFacts DEF processRequest
<1>. QED
  BY <1>1, <1>2, <1>3, <1>4 DEF Next

\* EnginesInv holds of two new databases.
LEMMA EnginesInit ==
    ASSUME Init
    PROVE  EnginesInv
<1>1. /\ kv = [tab |-> EmptyTable, disk |-> EmptyTable, open |-> TRUE] /\ meta = kv
      /\ leaked = FALSE /\ removing = "no" /\ snap = Missing
  BY DEF Init
<1>2. Synced(kv) /\ Synced(meta) /\ kv.tab = EmptyTable /\ meta.tab = EmptyTable
  BY <1>1, SyncedRecord
<1>. QED
  BY <1>1, <1>2, EmptyTableFacts DEF EnginesInv, SnapInv, DestroyInv

\* EnginesInv again, from the tables and the flags after a step.
LEMMA EnginesIntro ==
    ASSUME NEW t, NEW u, NEW o \in BOOLEAN, NEW p \in BOOLEAN,
           kv' = [tab |-> t, disk |-> t, open |-> o],
           meta' = [tab |-> u, disk |-> u, open |-> p],
           UserTab(t), RaftTab(u), leaked' \in BOOLEAN, SnapInv',
           removing' \in {"no", "kv", "meta"},
           removing' # "no" => ~o /\ ~p,
           removing' = "meta" => t = EmptyTable
    PROVE  EnginesInv'
<1>1. /\ Synced(kv)' /\ kv'.tab = t /\ kv'.open = o
      /\ Synced(meta)' /\ meta'.tab = u /\ meta'.open = p
  BY DEF Synced
<1>2. UserTab(kv.tab)' /\ RaftTab(meta.tab)'
  BY <1>1 DEF UserTab, RaftTab
<1>3. DestroyInv'
  BY <1>1 DEF DestroyInv
<1>. QED
  BY <1>1, <1>2, <1>3 DEF EnginesInv

\* Every step keeps EnginesInv.
LEMMA EnginesNext ==
    ASSUME EnginesInv, Next
    PROVE  EnginesInv'
<1>1. PICK t, o : kv = [tab |-> t, disk |-> t, open |-> o] /\ o \in BOOLEAN
  BY DEF EnginesInv, Synced
<1>2. PICK u, p : meta = [tab |-> u, disk |-> u, open |-> p] /\ p \in BOOLEAN
  BY DEF EnginesInv, Synced
<1>3. kv.tab = t /\ kv.open = o /\ meta.tab = u /\ meta.open = p
  BY <1>1, <1>2
<1>4. /\ UserTab(t) /\ RaftTab(u) /\ leaked \in BOOLEAN /\ SnapInv
      /\ removing \in {"no", "kv", "meta"}
      /\ removing # "no" => ~o /\ ~p
      /\ removing = "meta" => t = EmptyTable
  BY <1>3 DEF EnginesInv, DestroyInv
<1>s. snap' = snap => SnapInv'
  BY <1>4 DEF SnapInv
<1>5. ASSUME NEW x, RaftTab(x), RaftWrite(x) PROVE EnginesInv'
  <2>1. /\ p = TRUE /\ UNCHANGED <<kv, leaked, removing, snap>>
        /\ meta' = [tab |-> x, disk |-> x, open |-> p]
    BY <1>2, <1>3, <1>5 DEF RaftWrite
  <2>. QED
    BY <1>1, <1>2, <1>4, <1>5, <1>s, <2>1, EnginesIntro
<1>6. ASSUME NEW x, UserTab(x), UserWrite(x) PROVE EnginesInv'
  <2>1. /\ o = TRUE /\ UNCHANGED <<meta, leaked, removing, snap>>
        /\ kv' = [tab |-> x, disk |-> x, open |-> o]
    BY <1>1, <1>3, <1>6 DEF UserWrite
  <2>2. removing = "no"
    BY <1>4, <2>1
  <2>. QED
    BY <1>1, <1>2, <1>4, <1>6, <1>s, <2>1, <2>2, EnginesIntro
<1>7. ASSUME NEW i \in Index, NEW m \in Message,
             RaftWrite(Put(meta.tab, RaftLogEntryKey(i), Marshal(m)))
      PROVE  EnginesInv'
  BY <1>3, <1>4, <1>5, <1>7, RaftTabWrite
<1>8. ASSUME NEW i \in Index, RaftWrite(Drop(meta.tab, RaftLogEntryKey(i)))
      PROVE  EnginesInv'
  BY <1>3, <1>4, <1>5, <1>8, RaftTabWrite, StoreAssumption
<1>9. ASSUME NEW key \in {RaftLocalStateKey, RaftApplyStateKey, RaftConfStateKey},
             NEW m \in Message, RaftWrite(Put(meta.tab, key, Marshal(m)))
      PROVE  EnginesInv'
  BY <1>3, <1>4, <1>5, <1>9, RaftTabWrite
<1>10. ASSUME NEW k \in UserKey, NEW v \in UserValue, UserWrite(Put(kv.tab, k, v))
       PROVE  EnginesInv'
  BY <1>3, <1>4, <1>6, <1>10, UserTabWrite
<1>11. ASSUME NEW k \in UserKey, UserWrite(Drop(kv.tab, k))
       PROVE  EnginesInv'
  BY <1>3, <1>4, <1>6, <1>11, UserTabDrop
<1>12. CASE KVSnapshot
  <2>1. /\ snap' = [data |-> Encode(Pairs(t)), tab |-> t]
        /\ leaked' = TRUE /\ UNCHANGED <<kv, meta, removing>>
    BY <1>3, <1>12 DEF KVSnapshot
  <2>2. SnapInv'
    BY <1>4, <2>1 DEF SnapInv
  <2>. QED
    BY <1>1, <1>2, <1>4, <2>1, <2>2, EnginesIntro
<1>13. ASSUME NEW k \in BOOLEAN, NEW m \in BOOLEAN, SameTables(k, m), SnapInv',
              leaked' \in BOOLEAN,
              removing' = "no" \/ (removing' = "kv" /\ ~k /\ ~m)
       PROVE  EnginesInv'
  <2>1. kv' = [tab |-> t, disk |-> t, open |-> k] /\ meta' = [tab |-> u, disk |-> u, open |-> m]
    BY <1>3, <1>13 DEF SameTables
  <2>. QED
    BY <1>4, <1>13, <2>1, EnginesIntro
<1>14. CASE CloseOnly
  <2>1. o = TRUE /\ SameTables(FALSE, leaked) /\ UNCHANGED <<leaked, snap, removing>>
    BY <1>1, <1>3, <1>14, CloseFacts DEF EnginesInv, CloseOnly
  <2>2. removing = "no"
    BY <1>4, <2>1
  <2>. QED
    BY <1>4, <1>13, <1>s, <2>1, <2>2
<1>15. CASE DestroyClose
  <2>1. /\ SameTables(FALSE, leaked) /\ UNCHANGED <<leaked, snap>>
        /\ removing' = IF leaked THEN "no" ELSE "kv"
    BY <1>15, CloseFacts DEF EnginesInv, DestroyClose
  <2>. QED
    BY <1>4, <1>13, <1>s, <2>1
<1>16. CASE DestroyKV
  <2>1. /\ removing = "kv" /\ removing' = "meta" /\ UNCHANGED <<meta, leaked, snap>>
        /\ kv' = [kv EXCEPT !.tab = EmptyTable, !.disk = EmptyTable]
    BY <1>16 DEF DestroyKV, Removed
  <2>2. [kv EXCEPT !.tab = EmptyTable] = [tab |-> EmptyTable, disk |-> t, open |-> o]
    BY <1>1
  <2>3. kv' = [tab |-> EmptyTable, disk |-> EmptyTable, open |-> o]
    BY <1>1, <2>1, <2>2
  <2>. QED
    BY <1>1, <1>2, <1>4, <1>s, <2>1, <2>3, EmptyTableFacts, EnginesIntro
<1>17. CASE DestroyMeta
  <2>1. /\ removing = "meta" /\ removing' = "no" /\ UNCHANGED <<kv, leaked, snap>>
        /\ meta' = [meta EXCEPT !.tab = EmptyTable, !.disk = EmptyTable]
    BY <1>17 DEF DestroyMeta, Removed
  <2>2. [meta EXCEPT !.tab = EmptyTable] = [tab |-> EmptyTable, disk |-> u, open |-> p]
    BY <1>2
  <2>3. meta' = [tab |-> EmptyTable, disk |-> EmptyTable, open |-> p]
    BY <1>2, <2>1, <2>2
  <2>. QED
    BY <1>1, <1>2, <1>4, <1>s, <2>1, <2>3, EmptyTableFacts, EnginesIntro
<1>18. CASE NewEngines
  <2>1. SameTables(TRUE, TRUE) /\ removing' = "no" /\ leaked' = FALSE /\ snap' = snap
    BY <1>18, OpenFacts DEF EnginesInv
  <2>. QED
    BY <1>13, <1>s, <2>1
<1>19. CASE Crash
  <2>1. SameTables(FALSE, FALSE) /\ removing' = "no" /\ leaked' = FALSE /\ snap' = Missing
    BY <1>19, CrashFacts DEF EnginesInv
  <2>2. SnapInv'
    BY <2>1 DEF SnapInv
  <2>. QED
    BY <1>13, <2>1, <2>2
<1>. QED
  BY <1>7, <1>8, <1>9, <1>10, <1>11, <1>12, <1>14, <1>15, <1>16, <1>17, <1>18, <1>19, Steps

\* In every state each table is on disk, the tables hold what Engines wrote, and
\* Destroy removes only what is closed.
THEOREM EnginesSafe == Spec => []EnginesInv
<1>1. Init => EnginesInv
  BY EnginesInit
<1>2. EnginesInv /\ [Next]_vars => EnginesInv'
  <2>1. EnginesInv /\ Next => EnginesInv'
    BY EnginesNext
  <2>2. EnginesInv /\ UNCHANGED vars => EnginesInv'
    BY DEF vars, EnginesInv, Synced, UserTab, RaftTab, SnapInv, DestroyInv
  <2>. QED
    BY <2>1, <2>2
<1>. QED
  BY <1>1, <1>2, PTL DEF Spec

\* The databases hold only what Engines wrote, and every record that raft reads back
\* can be unmarshalled.
THEOREM EnginesTypes == Spec => []TypeOK
<1>1. EnginesInv => TypeOK
  <2>. SUFFICES ASSUME EnginesInv PROVE TypeOK
    OBVIOUS
  <2>1. ASSUME NEW k \in DOMAIN meta.tab PROVE Unmarshal(meta.tab[k]) \in Message
    <3>1. PICK m \in Message : meta.tab[k] = Marshal(m)
      BY DEF EnginesInv, RaftTab
    <3>. QED
      BY <3>1, RoundTrip
  <2>2. DOMAIN kv.tab \subseteq UserKey /\ \A k \in DOMAIN kv.tab : kv.tab[k] \in UserValue
    BY DEF EnginesInv, UserTab
  <2>. QED
    BY <2>1, <2>2 DEF EnginesInv, Synced, DestroyInv, TypeOK
<1>. QED
  BY <1>1, EnginesSafe, PTL


-----------------------------------------------------------------------------
(* Refinement: what ReplicaStore's variables read off the tables *)

LogOf(tab) == [i \in Index |-> IF RaftLogEntryKey(i) \in DOMAIN tab
                               THEN Unmarshal(tab[RaftLogEntryKey(i)]) ELSE Missing]

RecordOf(tab, key) == IF key \in DOMAIN tab THEN Unmarshal(tab[key]) ELSE Zero

KvOf(tab) == [k \in UserKey |-> IF k \in DOMAIN tab /\ tab[k] # <<>> THEN tab[k] ELSE Missing]

\* The reads of the mapping depend on the tables alone.
ReadsTables == /\ LogRead = LogOf(meta.tab)
               /\ GetRaftLocalState = RecordOf(meta.tab, RaftLocalStateKey)
               /\ GetRaftApplyState = RecordOf(meta.tab, RaftApplyStateKey)
               /\ GetRaftConfState = RecordOf(meta.tab, RaftConfStateKey)
               /\ KvRead = KvOf(kv.tab)

\* get, and the reads built on it, return what the tables hold.
LEMMA Views == ReadsTables
<1>1. ASSUME NEW db, NEW key
      PROVE  /\ get(db, key).err = "ErrNotFound" <=> key \notin DOMAIN db.tab
             /\ key \in DOMAIN db.tab => get(db, key).val = db.tab[key]
             /\ key \notin DOMAIN db.tab => get(db, key).val = <<>>
  <2>1. CASE key \in DOMAIN db.tab
    <3>1. get(db, key) = [val |-> db.tab[key], err |-> "nil"]
      BY <2>1 DEF get
    <3>. QED
      BY <2>1, <3>1
  <2>2. CASE key \notin DOMAIN db.tab
    <3>1. get(db, key) = [val |-> <<>>, err |-> "ErrNotFound"]
      BY <2>2 DEF get
    <3>. QED
      BY <2>2, <3>1
  <2>. QED
    BY <2>1, <2>2
<1>2. \A key : /\ ReadMeta(key).err = "ErrNotFound" <=> key \notin DOMAIN meta.tab
               /\ key \in DOMAIN meta.tab => ReadMeta(key).val = meta.tab[key]
  BY <1>1 DEF ReadMeta
<1>3. LogRead = LogOf(meta.tab)
  BY <1>2 DEF LogRead, LogOf
<1>4. \A key : GetRaftState(key) = RecordOf(meta.tab, key)
  BY <1>2 DEF GetRaftState, RecordOf
<1>5. \A key : /\ key \in DOMAIN kv.tab => ReadKV(key).val = kv.tab[key]
               /\ key \notin DOMAIN kv.tab => ReadKV(key).val = <<>>
  BY <1>1 DEF ReadKV
<1>6. KvRead = KvOf(kv.tab)
  BY <1>5 DEF KvRead, KvOf
<1>. QED
  BY <1>3, <1>4, <1>6 DEF ReadsTables, GetRaftLocalState, GetRaftApplyState, GetRaftConfState

\* The same after a step.
LEMMA ViewsNext == ReadsTables'
<1>1. ReadsTables
  BY Views
<1>. QED
  BY <1>1, PTL

\* An entry written, or deleted, is read back, or missing; no other read changes.
LEMMA EntryViews ==
    ASSUME NEW tab, NEW i \in Index, NEW m
    PROVE  /\ LogOf(Put(tab, RaftLogEntryKey(i), Marshal(m))) = [LogOf(tab) EXCEPT ![i] = m]
           /\ LogOf(Drop(tab, RaftLogEntryKey(i))) = [LogOf(tab) EXCEPT ![i] = Missing]
           /\ \A key \in {RaftLocalStateKey, RaftApplyStateKey, RaftConfStateKey} :
                RecordOf(Put(tab, RaftLogEntryKey(i), Marshal(m)), key) = RecordOf(tab, key)
           /\ \A key \in {RaftLocalStateKey, RaftApplyStateKey, RaftConfStateKey} :
                RecordOf(Drop(tab, RaftLogEntryKey(i)), key) = RecordOf(tab, key)
<1>. DEFINE K == RaftLogEntryKey(i)
<1>0. PICK x : x = Marshal(m) /\ Unmarshal(x) = m
  BY RoundTrip
<1>1. \A j \in Index : RaftLogEntryKey(j) = K <=> j = i
  BY KeysDistinct
<1>2. \A key \in {RaftLocalStateKey, RaftApplyStateKey, RaftConfStateKey} : key # K
  BY KeysDistinct
<1>3. /\ DOMAIN Put(tab, K, x) = DOMAIN tab \cup {K}
      /\ DOMAIN Drop(tab, K) = DOMAIN tab \ {K}
      /\ \A y \in DOMAIN tab : y # K => Put(tab, K, x)[y] = tab[y] /\ Drop(tab, K)[y] = tab[y]
      /\ Put(tab, K, x)[K] = x
  BY DEF Put, Drop
<1>. HIDE DEF K
<1>4. LogOf(Put(tab, K, x)) = [LogOf(tab) EXCEPT ![i] = m]
  BY <1>0, <1>1, <1>3 DEF LogOf
<1>5. LogOf(Drop(tab, K)) = [LogOf(tab) EXCEPT ![i] = Missing]
  BY <1>1, <1>3 DEF LogOf
<1>6. \A key \in {RaftLocalStateKey, RaftApplyStateKey, RaftConfStateKey} :
        /\ RecordOf(Put(tab, K, x), key) = RecordOf(tab, key)
        /\ RecordOf(Drop(tab, K), key) = RecordOf(tab, key)
  BY <1>2, <1>3 DEF RecordOf
<1>. QED
  BY <1>0, <1>4, <1>5, <1>6 DEF K

\* A record written is read back, even if it takes no bytes; no other read changes.
LEMMA RecordViews ==
    ASSUME NEW tab, NEW key \in {RaftLocalStateKey, RaftApplyStateKey, RaftConfStateKey}, NEW m
    PROVE  /\ LogOf(Put(tab, key, Marshal(m))) = LogOf(tab)
           /\ RecordOf(Put(tab, key, Marshal(m)), key) = m
           /\ \A other : other # key =>
                RecordOf(Put(tab, key, Marshal(m)), other) = RecordOf(tab, other)
<1>0. PICK x : x = Marshal(m) /\ Unmarshal(x) = m
  BY RoundTrip
<1>1. \A j \in Index : RaftLogEntryKey(j) # key
  BY KeysDistinct
<1>2. /\ DOMAIN Put(tab, key, x) = DOMAIN tab \cup {key}
      /\ \A y \in DOMAIN tab : y # key => Put(tab, key, x)[y] = tab[y]
      /\ Put(tab, key, x)[key] = x
  BY DEF Put
<1>3. LogOf(Put(tab, key, x)) = LogOf(tab)
  BY <1>1, <1>2 DEF LogOf
<1>4. RecordOf(Put(tab, key, x), key) = m
  BY <1>0, <1>2 DEF RecordOf
<1>5. \A other : other # key => RecordOf(Put(tab, key, x), other) = RecordOf(tab, other)
  BY <1>2 DEF RecordOf
<1>. QED
  BY <1>0, <1>3, <1>4, <1>5

\* A key written reads as its value, the empty one as none; a deleted key is missing.
LEMMA KeyViews ==
    ASSUME NEW tab, NEW k \in UserKey, NEW v
    PROVE  /\ KvOf(Put(tab, k, v)) = [KvOf(tab) EXCEPT ![k] = IF v = <<>> THEN Missing ELSE v]
           /\ KvOf(Drop(tab, k)) = [KvOf(tab) EXCEPT ![k] = Missing]
<1>1. /\ DOMAIN Put(tab, k, v) = DOMAIN tab \cup {k}
      /\ DOMAIN Drop(tab, k) = DOMAIN tab \ {k}
      /\ \A y \in DOMAIN tab : y # k => Put(tab, k, v)[y] = tab[y] /\ Drop(tab, k)[y] = tab[y]
      /\ Put(tab, k, v)[k] = v
  BY DEF Put, Drop
<1>. QED
  BY <1>1 DEF KvOf

\* An empty database reads as a store that never stored anything.
LEMMA EmptyViews ==
    /\ LogOf(EmptyTable) = [i \in Index |-> Missing]
    /\ \A key : RecordOf(EmptyTable, key) = Zero
    /\ KvOf(EmptyTable) = [k \in UserKey |-> Missing]
BY EmptyTableFacts DEF LogOf, RecordOf, KvOf


-----------------------------------------------------------------------------
(* Every step of the engines is one of the store, or none *)

\* The tables after a step fix what the store reads.
LEMMA ReadAfter ==
    ASSUME NEW t, NEW o, NEW u, NEW p,
           kv' = [tab |-> t, disk |-> t, open |-> o],
           meta' = [tab |-> u, disk |-> u, open |-> p]
    PROVE  /\ kv'.open = o /\ meta'.open = p
           /\ LogRead' = LogOf(u)
           /\ GetRaftLocalState' = RecordOf(u, RaftLocalStateKey)
           /\ GetRaftApplyState' = RecordOf(u, RaftApplyStateKey)
           /\ GetRaftConfState' = RecordOf(u, RaftConfStateKey)
           /\ KvRead' = KvOf(t)
<1>1. kv'.tab = t /\ kv'.open = o /\ meta'.tab = u /\ meta'.open = p
  OBVIOUS
<1>2. /\ LogOf(meta.tab)' = LogOf(u)
      /\ \A key : RecordOf(meta'.tab, key) = RecordOf(u, key)
      /\ KvOf(kv.tab)' = KvOf(t)
  BY <1>1 DEF LogOf, KvOf
<1>3. /\ RecordOf(meta.tab, RaftLocalStateKey)' = RecordOf(u, RaftLocalStateKey)
      /\ RecordOf(meta.tab, RaftApplyStateKey)' = RecordOf(u, RaftApplyStateKey)
      /\ RecordOf(meta.tab, RaftConfStateKey)' = RecordOf(u, RaftConfStateKey)
  BY <1>1 DEF RecordOf, RaftLocalStateKey, RaftApplyStateKey, RaftConfStateKey, buildMetaKey
<1>. QED
  BY <1>1, <1>2, <1>3, ViewsNext DEF ReadsTables

\* A write to meta leaves the users' keys alone.
LEMMA RaftWriteReads ==
    ASSUME Synced(kv), NEW u, RaftWrite(u)
    PROVE  /\ meta.open /\ meta'.open = TRUE /\ kv'.open = kv.open
           /\ LogRead' = LogOf(u)
           /\ GetRaftLocalState' = RecordOf(u, RaftLocalStateKey)
           /\ GetRaftApplyState' = RecordOf(u, RaftApplyStateKey)
           /\ GetRaftConfState' = RecordOf(u, RaftConfStateKey)
           /\ KvRead' = KvRead
<1>1. PICK t, o : kv = [tab |-> t, disk |-> t, open |-> o]
  BY DEF Synced
<1>2. kv.tab = t /\ kv.open = o /\ KvRead = KvOf(t)
  BY <1>1, Views DEF ReadsTables
<1>3. kv' = [tab |-> t, disk |-> t, open |-> o] /\ meta.open
      /\ meta' = [tab |-> u, disk |-> u, open |-> TRUE]
  BY <1>1 DEF RaftWrite
<1>. QED
  BY <1>2, <1>3, ReadAfter

\* A write to kv leaves raft's state alone.
LEMMA UserWriteReads ==
    ASSUME Synced(meta), NEW t, UserWrite(t)
    PROVE  /\ kv.open /\ kv'.open = TRUE /\ meta'.open = meta.open
           /\ UNCHANGED <<LogRead, GetRaftLocalState, GetRaftApplyState, GetRaftConfState>>
           /\ KvRead' = KvOf(t)
<1>1. PICK u, p : meta = [tab |-> u, disk |-> u, open |-> p]
  BY DEF Synced
<1>2. /\ meta.tab = u /\ meta.open = p
      /\ LogRead = LogOf(u)
      /\ GetRaftLocalState = RecordOf(u, RaftLocalStateKey)
      /\ GetRaftApplyState = RecordOf(u, RaftApplyStateKey)
      /\ GetRaftConfState = RecordOf(u, RaftConfStateKey)
  BY <1>1, Views DEF ReadsTables
<1>3. meta' = [tab |-> u, disk |-> u, open |-> p] /\ kv.open
      /\ kv' = [tab |-> t, disk |-> t, open |-> TRUE]
  BY <1>1 DEF UserWrite
<1>. QED
  BY <1>2, <1>3, ReadAfter

\* Opening, closing and crashing leave every read as it was.
LEMMA SameReads ==
    ASSUME NEW o, NEW p, SameTables(o, p)
    PROVE  /\ kv'.open = o /\ meta'.open = p
           /\ UNCHANGED <<LogRead, GetRaftLocalState, GetRaftApplyState, GetRaftConfState, KvRead>>
<1>1. /\ LogRead = LogOf(meta.tab)
      /\ GetRaftLocalState = RecordOf(meta.tab, RaftLocalStateKey)
      /\ GetRaftApplyState = RecordOf(meta.tab, RaftApplyStateKey)
      /\ GetRaftConfState = RecordOf(meta.tab, RaftConfStateKey)
      /\ KvRead = KvOf(kv.tab)
  BY Views DEF ReadsTables
<1>2. PICK t, u : t = kv.tab /\ u = meta.tab
  OBVIOUS
<1>3. /\ kv' = [tab |-> t, disk |-> t, open |-> o]
      /\ meta' = [tab |-> u, disk |-> u, open |-> p]
  BY <1>2 DEF SameTables
<1>. QED
  BY <1>1, <1>2, <1>3, ReadAfter

\* A write to one of the databases is a write of the store.
LEMMA WriteStep ==
    ASSUME EnginesInv
    PROVE  /\ \A i \in Index, m \in Message :
                RaftWrite(Put(meta.tab, RaftLogEntryKey(i), Marshal(m))) => Store!Next
           /\ \A i \in Index : RaftWrite(Drop(meta.tab, RaftLogEntryKey(i))) => Store!Next
           /\ \A key \in {RaftLocalStateKey, RaftApplyStateKey, RaftConfStateKey},
                 m \in Message : RaftWrite(Put(meta.tab, key, Marshal(m))) => Store!Next
           /\ \A k \in UserKey, v \in UserValue : UserWrite(Put(kv.tab, k, v)) => Store!Next
           /\ \A k \in UserKey : UserWrite(Drop(kv.tab, k)) => Store!Next
<1>0. Synced(kv) /\ Synced(meta) /\ kv.open \in BOOLEAN /\ meta.open \in BOOLEAN
  BY DEF EnginesInv, Synced
<1>v. /\ LogRead = LogOf(meta.tab)
      /\ GetRaftLocalState = RecordOf(meta.tab, RaftLocalStateKey)
      /\ GetRaftApplyState = RecordOf(meta.tab, RaftApplyStateKey)
      /\ GetRaftConfState = RecordOf(meta.tab, RaftConfStateKey)
      /\ KvRead = KvOf(kv.tab)
  BY Views DEF ReadsTables
<1>1. ASSUME NEW i \in Index, NEW m \in Message,
             RaftWrite(Put(meta.tab, RaftLogEntryKey(i), Marshal(m)))
      PROVE  Store!Next
  <2>0. PICK u : /\ u = Put(meta.tab, RaftLogEntryKey(i), Marshal(m))
                 /\ LogOf(u) = [LogRead EXCEPT ![i] = m]
                 /\ \A key \in {RaftLocalStateKey, RaftApplyStateKey, RaftConfStateKey} :
                      RecordOf(u, key) = RecordOf(meta.tab, key)
    <3>1. LogOf(Put(meta.tab, RaftLogEntryKey(i), Marshal(m))) = [LogOf(meta.tab) EXCEPT ![i] = m]
      BY EntryViews
    <3>2. \A key \in {RaftLocalStateKey, RaftApplyStateKey, RaftConfStateKey} :
            RecordOf(Put(meta.tab, RaftLogEntryKey(i), Marshal(m)), key) = RecordOf(meta.tab, key)
      BY EntryViews, Zenon
    <3>. QED
      BY <1>v, <3>1, <3>2
  <2>1. /\ LogRead' = [LogRead EXCEPT ![i] = m]
        /\ UNCHANGED <<GetRaftLocalState, GetRaftApplyState, GetRaftConfState, KvRead>>
        /\ meta.open /\ meta'.open /\ UNCHANGED (kv.open \/ meta.open)
    <3>1. RaftWrite(u)
      BY <1>1, <2>0
    <3>. QED
      BY <1>0, <1>v, <2>0, <3>1, RaftWriteReads
  <2>2. Store!PutEntry(i, m)
    BY <2>1 DEF Store!PutEntry
  <2>. QED
    BY <2>1, <2>2 DEF Store!Next, Store!Write
<1>2. ASSUME NEW i \in Index, RaftWrite(Drop(meta.tab, RaftLogEntryKey(i)))
      PROVE  Store!Next
  <2>0. PICK u : /\ u = Drop(meta.tab, RaftLogEntryKey(i))
                 /\ LogOf(u) = [LogRead EXCEPT ![i] = Missing]
                 /\ \A key \in {RaftLocalStateKey, RaftApplyStateKey, RaftConfStateKey} :
                      RecordOf(u, key) = RecordOf(meta.tab, key)
    BY <1>v, EntryViews
  <2>1. /\ LogRead' = [LogRead EXCEPT ![i] = Missing]
        /\ UNCHANGED <<GetRaftLocalState, GetRaftApplyState, GetRaftConfState, KvRead>>
        /\ meta.open /\ meta'.open /\ UNCHANGED (kv.open \/ meta.open)
    <3>1. RaftWrite(u)
      BY <1>2, <2>0
    <3>. QED
      BY <1>0, <1>v, <2>0, <3>1, RaftWriteReads
  <2>2. Store!PutEntry(i, Missing)
    BY <2>1 DEF Store!PutEntry
  <2>. QED
    BY <2>1, <2>2 DEF Store!Next, Store!Write
<1>3. ASSUME NEW key \in {RaftLocalStateKey, RaftApplyStateKey, RaftConfStateKey},
             NEW m \in Message, RaftWrite(Put(meta.tab, key, Marshal(m)))
      PROVE  Store!Next
  <2>0. PICK u : /\ u = Put(meta.tab, key, Marshal(m))
                 /\ LogOf(u) = LogRead /\ RecordOf(u, key) = m
                 /\ \A other : other # key => RecordOf(u, other) = RecordOf(meta.tab, other)
    BY <1>v, RecordViews
  <2>1. /\ LogRead' = LogRead /\ KvRead' = KvRead
        /\ GetRaftLocalState' = IF key = RaftLocalStateKey THEN m ELSE GetRaftLocalState
        /\ GetRaftApplyState' = IF key = RaftApplyStateKey THEN m ELSE GetRaftApplyState
        /\ GetRaftConfState' = IF key = RaftConfStateKey THEN m ELSE GetRaftConfState
        /\ meta.open /\ meta'.open /\ UNCHANGED (kv.open \/ meta.open)
    <3>1. RaftWrite(u)
      BY <1>3, <2>0
    <3>. QED
      BY <1>0, <1>v, <2>0, <3>1, RaftWriteReads
  <2>2. Store!PutLocal(m) \/ Store!PutApply(m) \/ Store!PutConf(m)
    BY <2>1, KeysDistinct DEF Store!PutLocal, Store!PutApply, Store!PutConf
  <2>. QED
    BY <2>1, <2>2 DEF Store!Next, Store!Write
<1>4. ASSUME NEW k \in UserKey, NEW v \in UserValue, UserWrite(Put(kv.tab, k, v))
      PROVE  Store!Next
  <2>1. PICK w \in UserValue \cup {Missing} : w = IF v = <<>> THEN Missing ELSE v
    OBVIOUS
  <2>2. /\ KvRead' = [KvRead EXCEPT ![k] = w]
        /\ UNCHANGED <<LogRead, GetRaftLocalState, GetRaftApplyState, GetRaftConfState>>
        /\ kv.open /\ kv'.open /\ UNCHANGED (kv.open \/ meta.open)
    <3>1. PICK t : t = Put(kv.tab, k, v) /\ KvOf(t) = [KvRead EXCEPT ![k] = w]
      BY <1>v, <2>1, KeyViews
    <3>2. UserWrite(t)
      BY <1>4, <3>1
    <3>. QED
      BY <1>0, <3>1, <3>2, UserWriteReads
  <2>3. Store!PutKey(k, w)
    BY <2>2 DEF Store!PutKey
  <2>. QED
    BY <2>2, <2>3 DEF Store!Next, Store!Write
<1>5. ASSUME NEW k \in UserKey, UserWrite(Drop(kv.tab, k))
      PROVE  Store!Next
  <2>2. /\ KvRead' = [KvRead EXCEPT ![k] = Missing]
        /\ UNCHANGED <<LogRead, GetRaftLocalState, GetRaftApplyState, GetRaftConfState>>
        /\ kv.open /\ kv'.open /\ UNCHANGED (kv.open \/ meta.open)
    <3>1. PICK t : t = Drop(kv.tab, k) /\ KvOf(t) = [KvRead EXCEPT ![k] = Missing]
      BY <1>v, KeyViews
    <3>2. UserWrite(t)
      BY <1>5, <3>1
    <3>. QED
      BY <1>0, <3>1, <3>2, UserWriteReads
  <2>3. Store!PutKey(k, Missing)
    BY <2>2 DEF Store!PutKey
  <2>. QED
    BY <2>2, <2>3 DEF Store!Next, Store!Write
<1>. QED
  BY <1>1, <1>2, <1>3, <1>4, <1>5


\* Closing, removing, reopening and crashing.
LEMMA LifeStep ==
    ASSUME EnginesInv, KVSnapshot \/ CloseOnly \/ DestroyClose \/ DestroyKV \/ DestroyMeta
                         \/ NewEngines \/ Crash
    PROVE  Store!Next \/ UNCHANGED Store!vars
<1>0. /\ Synced(kv) /\ Synced(meta) /\ leaked \in BOOLEAN
      /\ kv.open \in BOOLEAN /\ meta.open \in BOOLEAN
  BY DEF EnginesInv, Synced
<1>1. ASSUME NEW o \in BOOLEAN, NEW p \in BOOLEAN, SameTables(o, p)
      PROVE  Store!Next \/ UNCHANGED Store!vars
  <2>1. /\ kv'.open = o /\ meta'.open = p
        /\ UNCHANGED <<LogRead, GetRaftLocalState, GetRaftApplyState, GetRaftConfState, KvRead>>
    BY <1>1, SameReads
  <2>2. CASE (o \/ p) = (kv.open \/ meta.open)
    BY <2>1, <2>2 DEF Store!vars
  <2>3. CASE (o \/ p) # (kv.open \/ meta.open)
    <3>1. (kv'.open \/ meta'.open) = ~(kv.open \/ meta.open)
      BY <1>0, <1>1, <2>1, <2>3
    <3>. QED
      BY <2>1, <3>1 DEF Store!Next, Store!OpenOrClose
  <2>. QED
    BY <2>2, <2>3
<1>2. CASE CloseOnly \/ DestroyClose
  BY <1>0, <1>1, <1>2, CloseFacts DEF CloseOnly, DestroyClose
<1>3. CASE NewEngines
  BY <1>0, <1>1, <1>3, OpenFacts
<1>4. CASE Crash
  BY <1>0, <1>1, <1>4, CrashFacts
<1>5. CASE KVSnapshot
  <2>1. UNCHANGED <<kv, meta>>
    BY <1>5 DEF KVSnapshot
  <2>2. SameTables(kv.open, meta.open)
    BY <1>0, <2>1 DEF SameTables, Synced
  <2>. QED
    BY <1>0, <1>1, <2>2
<1>6. PICK t, o, u, p : /\ kv = [tab |-> t, disk |-> t, open |-> o]
                        /\ meta = [tab |-> u, disk |-> u, open |-> p]
  BY <1>0 DEF Synced
<1>7. /\ kv.tab = t /\ kv.open = o /\ meta.tab = u /\ meta.open = p
      /\ LogRead = LogOf(u)
      /\ GetRaftLocalState = RecordOf(u, RaftLocalStateKey)
      /\ GetRaftApplyState = RecordOf(u, RaftApplyStateKey)
      /\ GetRaftConfState = RecordOf(u, RaftConfStateKey)
      /\ KvRead = KvOf(t)
  BY <1>6, Views DEF ReadsTables
<1>8. CASE DestroyKV
  <2>1. ~o /\ ~p /\ meta' = meta /\ kv' = [kv EXCEPT !.tab = EmptyTable, !.disk = EmptyTable]
    BY <1>7, <1>8 DEF EnginesInv, DestroyInv, DestroyKV, Removed
  <2>2. [kv EXCEPT !.tab = EmptyTable] = [tab |-> EmptyTable, disk |-> t, open |-> o]
    BY <1>6
  <2>3. kv' = [tab |-> EmptyTable, disk |-> EmptyTable, open |-> o]
    BY <1>6, <2>1, <2>2
  <2>4. meta' = [tab |-> u, disk |-> u, open |-> p]
    BY <1>6, <2>1
  <2>5. /\ UNCHANGED <<LogRead, GetRaftLocalState, GetRaftApplyState, GetRaftConfState>>
        /\ kv'.open = o /\ meta'.open = p /\ KvRead' = [k \in UserKey |-> Missing]
    BY <1>7, <2>3, <2>4, ReadAfter, EmptyViews
  <2>. QED
    BY <1>7, <2>1, <2>5 DEF Store!Next, Store!Forget, Store!NoKeys
<1>9. CASE DestroyMeta
  <2>1. /\ ~o /\ ~p /\ t = EmptyTable /\ kv' = kv
        /\ meta' = [meta EXCEPT !.tab = EmptyTable, !.disk = EmptyTable]
    BY <1>7, <1>9 DEF EnginesInv, DestroyInv, DestroyMeta, Removed
  <2>2. [meta EXCEPT !.tab = EmptyTable] = [tab |-> EmptyTable, disk |-> u, open |-> p]
    BY <1>6
  <2>3. meta' = [tab |-> EmptyTable, disk |-> EmptyTable, open |-> p]
    BY <1>6, <2>1, <2>2
  <2>4. kv' = [tab |-> t, disk |-> t, open |-> o]
    BY <1>6, <2>1
  <2>5. /\ LogRead' = [i \in Index |-> Missing]
        /\ GetRaftLocalState' = Zero /\ GetRaftApplyState' = Zero /\ GetRaftConfState' = Zero
        /\ kv'.open = o /\ meta'.open = p /\ KvRead' = KvRead
    BY <1>7, <2>3, <2>4, ReadAfter, EmptyViews
  <2>6. KvRead = [k \in UserKey |-> Missing]
    BY <1>7, <2>1, EmptyViews
  <2>. QED
    BY <1>7, <2>1, <2>5, <2>6 DEF Store!Next, Store!Forget, Store!NoKeys, Store!NoRaftState
<1>. QED
  BY <1>2, <1>3, <1>4, <1>5, <1>8, <1>9

\* The two databases, whose keys are built from indexes and whose values are protocol
\* buffers, implement the store that the raft code needs: distinct entries and records
\* never share a key, a record of no bytes is still read as Zero and not lost, a write
\* changes one read alone, and closing, a failing Close and a crash change none.
THEOREM EnginesRefine == Spec => ImplementsStore
<1>1. Init => Store!Init
  <2>. SUFFICES ASSUME Init PROVE Store!Init
    OBVIOUS
  <2>1. kv.tab = EmptyTable /\ meta.tab = EmptyTable /\ kv.open = TRUE /\ meta.open = TRUE
    BY DEF Init
  <2>2. /\ LogRead = [i \in Index |-> Missing] /\ KvRead = [k \in UserKey |-> Missing]
        /\ GetRaftLocalState = Zero /\ GetRaftApplyState = Zero /\ GetRaftConfState = Zero
    BY <2>1, Views, EmptyViews DEF ReadsTables
  <2>. QED
    BY <2>1, <2>2 DEF Store!Init, Store!NoKeys, Store!NoRaftState
<1>2. EnginesInv /\ [Next]_vars => [Store!Next]_Store!vars
  <2>1. EnginesInv /\ Next => Store!Next \/ UNCHANGED Store!vars
    BY Steps, WriteStep, LifeStep
  <2>2. EnginesInv /\ UNCHANGED vars => UNCHANGED Store!vars
    <3>. SUFFICES ASSUME EnginesInv, UNCHANGED vars PROVE UNCHANGED Store!vars
      OBVIOUS
    <3>1. SameTables(kv.open, meta.open)
      BY DEF vars, SameTables, EnginesInv, Synced
    <3>. QED
      BY <3>1, SameReads DEF Store!vars
  <2>. QED
    BY <2>1, <2>2
<1>. QED
  BY <1>1, <1>2, EnginesSafe, PTL DEF Spec, ImplementsStore, Store!Spec


-----------------------------------------------------------------------------
(* Numbers in the bytes of a snapshot *)

\* Two loops that start alike and go on alike are the same.
Alike(f, g, n) == f[0] = g[0] /\ \A i \in 1..n : f[i - 1] = g[i - 1] => f[i] = g[i]
SameRun(f, g, n) == \A i \in 0..n : f[i] = g[i]

\* Two such loops end alike.
LEMMA SameLoop ==
    ASSUME NEW n \in Nat, NEW f, NEW g, Alike(f, g, n)
    PROVE  SameRun(f, g, n)
<1>. DEFINE P == {i \in Nat : f[i] = g[i]}
<1>1. 0 \in P /\ \A i \in 1..n : i - 1 \in P => i \in P
  BY DEF Alike
<1>2. \A i \in 0..n : i \in P
  <2>. HIDE DEF P
  <2>. QED
    BY <1>1, InductUpTo
<1>. QED
  BY <1>2 DEF SameRun

\* Uint32 gives back what PutUint32 was given, if that fits.
LEMMA FromBytes ==
    ASSUME NEW n \in Nat, NEW w \in Nat, Fits(n, w), NEW s,
           \A d \in 1..w : s[d] = LittleEndian(n, w)[d]
    PROVE  FromLittleEndian(s, w) = n
<1>1. PICK A \in [0..w -> Nat] :
        A = Shifts(n, w) /\ A[0] = n /\ \A d \in 1..w : A[d] = A[d - 1] \div Base
  BY ShiftsFacts
<1>2. A[w] = 0
  BY <1>1 DEF Fits
<1>3. ASSUME NEW d \in 1..w
      PROVE  A[w - d] = s[w - d + 1] + Base * A[w - (d - 1)]
  <2>1. PICK c \in 1..w : c = w - d + 1 /\ c - 1 = w - d /\ c = w - (d - 1)
    OBVIOUS
  <2>2. s[c] = A[c - 1] % Base /\ A[c] = A[c - 1] \div Base
    BY <1>1, LittleEndianType
  <2>3. A[c - 1] \in Nat
    BY <2>1
  <2>4. A[c - 1] = Base * A[c] + s[c]
    BY <2>2, <2>3, Division
  <2>5. Base * A[c] \in Nat /\ s[c] \in Nat
    <3>1. \A x, y \in Nat : x * y \in Nat
      OBVIOUS
    <3>2. Base \in Nat /\ A[c] \in Nat /\ A[c - 1] % Base \in 0..(Base - 1)
      <4>1. PICK x \in Nat : x = A[c - 1]
        BY <2>3
      <4>2. Base \in Nat /\ x % Base \in 0..(Base - 1)
        BY Division
      <4>. QED
        BY <4>1, <4>2
    <3>3. Base * A[c] \in Nat
      BY <3>1, <3>2
    <3>. QED
      BY <2>2, <3>2, <3>3
  <2>. QED
    BY <2>1, <2>4, <2>5
<1>. DEFINE v[d \in 0..w] == IF d = 0 THEN 0 ELSE s[w - d + 1] + Base * v[d - 1]
<1>4. v = [d \in 0..w |-> IF d = 0 THEN 0 ELSE s[w - d + 1] + Base * v[d - 1]]
  <2>1. PICK g : g = [d \in 0..w |-> A[w - d]]
    OBVIOUS
  <2>2. g = [d \in 0..w |-> IF d = 0 THEN 0 ELSE s[w - d + 1] + Base * g[d - 1]]
    BY <1>2, <1>3, <2>1
  <2>. QED
    BY <2>2
<1>5. FromLittleEndian(s, w) = v[w]
  BY DEF FromLittleEndian
<1>. HIDE DEF v
<1>6. PICK g : g = [d \in 0..w |-> A[w - d]]
  OBVIOUS
<1>7. v[0] = g[0]
  BY <1>2, <1>4, <1>6
<1>8. ASSUME NEW d \in 1..w, v[d - 1] = g[d - 1] PROVE v[d] = g[d]
  <2>1. v[d] = s[w - d + 1] + Base * v[d - 1]
    BY <1>4
  <2>. QED
    BY <1>3, <1>6, <1>8, <2>1
<1>9. v[w] = g[w]
  <2>1. Alike(v, g, w)
    BY <1>7, <1>8 DEF Alike
  <2>. QED
    BY <2>1, SameLoop DEF SameRun
<1>. QED
  BY <1>1, <1>5, <1>6, <1>9

\* What is smaller fits as well.
LEMMA SmallerFits ==
    ASSUME NEW a \in Nat, NEW b \in Nat, NEW w \in Nat, a <= b, Fits(b, w)
    PROVE  Fits(a, w)
<1>1. PICK A \in [0..w -> Nat] :
        A = Shifts(a, w) /\ A[0] = a /\ \A d \in 1..w : A[d] = A[d - 1] \div Base
  BY ShiftsFacts
<1>2. PICK B \in [0..w -> Nat] :
        B = Shifts(b, w) /\ B[0] = b /\ \A d \in 1..w : B[d] = B[d - 1] \div Base
  BY ShiftsFacts
<1>. DEFINE P == {d \in Nat : A[d] <= B[d]}
<1>3. 0 \in P
  BY <1>1, <1>2
<1>4. ASSUME NEW d \in 1..w, d - 1 \in P PROVE d \in P
  <2>1. A[d - 1] \in Nat /\ B[d - 1] \in Nat /\ A[d - 1] <= B[d - 1]
    BY <1>4
  <2>2. A[d - 1] \div Base <= B[d - 1] \div Base
    BY <2>1, Division
  <2>. QED
    BY <1>1, <1>2, <2>2
<1>5. w \in P
  <2>1. \A d \in 1..w : d - 1 \in P => d \in P
    BY <1>4
  <2>. HIDE DEF P
  <2>2. \A d \in 0..w : d \in P
    BY <1>3, <2>1, InductUpTo
  <2>. QED
    BY <2>2
<1>6. A[w] \in Nat /\ B[w] = 0 /\ A[w] <= B[w]
  BY <1>2, <1>5 DEF Fits
<1>. QED
  BY <1>1, <1>6 DEF Fits


-----------------------------------------------------------------------------
(* The bytes of one pair *)

Byte == 0..(Base - 1)
Bytes == Seq(Byte)

\* A pair whose sizes fit into their fields, as those of every key and value do.
IsPair(p) == /\ p = [key |-> p.key, val |-> p.val]
             /\ p.key \in Bytes /\ p.val \in Bytes
             /\ Fits(Len(p.key) + Len(p.val) + Header, SizeWidth)

\* u is s, of m bytes, followed by t, of n bytes.
JoinOf(u, s, m, t, n) == /\ u \in Bytes /\ Len(u) = m + n
                         /\ \A d \in 1..m : u[d] = s[d]
                         /\ \A d \in 1..n : u[m + d] = t[d]

\* u is the n bytes of s from m on.
PartOf(u, s, m, n) == u \in Bytes /\ Len(u) = n /\ \A d \in 1..n : u[d] = s[m + d]

\* What \o gives.
LEMMA Joined ==
    ASSUME NEW s \in Bytes, NEW t \in Bytes, NEW m \in Nat, m = Len(s), NEW n \in Nat, n = Len(t)
    PROVE  JoinOf(s \o t, s, m, t, n)
<1>1. s \in Seq(Byte) /\ t \in Seq(Byte)
  BY DEF Bytes
<1>2. PICK u : u = s \o t
  OBVIOUS
<1>3. /\ u \in Seq(Byte) /\ Len(u) = m + n
      /\ \A d \in 1..m : u[d] = s[d]
      /\ \A d \in 1..n : u[m + d] = t[d]
  BY <1>1, <1>2
<1>. QED
  BY <1>2, <1>3 DEF Bytes, JoinOf

\* What SubSeq gives.
LEMMA Part ==
    ASSUME NEW s \in Bytes, NEW m \in Nat, NEW n \in Nat, m + n <= Len(s)
    PROVE  PartOf(SubSeq(s, m + 1, m + n), s, m, n)
<1>1. s \in Seq(Byte) /\ Len(s) \in Nat
  BY DEF Bytes
<1>2. PICK u : u = SubSeq(s, m + 1, m + n)
  OBVIOUS
<1>3. u = [d \in 1..n |-> s[m + d]]
  BY <1>1, <1>2
<1>4. \A d \in 1..n : m + d \in 1..Len(s)
  BY <1>1
<1>5. \A d \in 1..n : u[d] = s[m + d] /\ u[d] \in Byte
  BY <1>1, <1>3, <1>4
<1>6. u \in Seq(Byte) /\ Len(u) = n
  BY <1>3, <1>5
<1>. QED
  BY <1>2, <1>5, <1>6 DEF Bytes, PartOf

\* Byte strings with the same bytes are the same.
LEMMA SameString ==
    ASSUME NEW s \in Bytes, NEW t \in Bytes, Len(s) = Len(t),
           \A d \in 1..Len(s) : s[d] = t[d]
    PROVE  s = t
BY DEF Bytes

\* Lengths are numbers.
LEMMA StringLength ==
    ASSUME NEW s \in Bytes
    PROVE  Len(s) \in Nat
BY DEF Bytes

\* Where the fields of a pair are: its size, the key's size, the key and the value.
LEMMA EncodeOne ==
    ASSUME NEW p, IsPair(p)
    PROVE  /\ encode(p) \in Bytes /\ Header \in Nat /\ Header = SizeWidth + SizeWidth
           /\ Len(encode(p)) = Header + Len(p.key) + Len(p.val)
           /\ Len(p.key) + Len(p.val) + Header = Len(encode(p)) /\ Len(p.key) <= Len(encode(p))
           /\ Len(p.key) \in Nat /\ Len(p.val) \in Nat
           /\ \A d \in 1..SizeWidth : encode(p)[d] = LittleEndian(Len(encode(p)), SizeWidth)[d]
           /\ \A d \in 1..SizeWidth :
                encode(p)[SizeWidth + d] = LittleEndian(Len(p.key), SizeWidth)[d]
           /\ \A d \in 1..Len(p.key) : encode(p)[Header + d] = p.key[d]
           /\ \A d \in 1..Len(p.val) : encode(p)[Header + Len(p.key) + d] = p.val[d]
<1>1. PICK w \in Nat, h \in Nat : w = SizeWidth /\ h = Header /\ h = w + w
  BY Division DEF Header
<1>2. PICK k \in Bytes, v \in Bytes : k = p.key /\ v = p.val
  BY DEF IsPair
<1>3. PICK kl \in Nat, vl \in Nat : kl = Len(k) /\ vl = Len(v)
  BY StringLength
<1>4. PICK a \in Bytes : a = LittleEndian(kl + vl + h, w) /\ Len(a) = w
  <2>1. kl + vl + h \in Nat
    OBVIOUS
  <2>. QED
    BY <2>1, LittleEndianType DEF Bytes, Byte
<1>5. PICK b \in Bytes : b = LittleEndian(kl, w) /\ Len(b) = w
  BY LittleEndianType DEF Bytes, Byte
<1>6. PICK ab : ab = a \o b /\ JoinOf(ab, a, w, b, w)
  BY <1>4, <1>5, Joined
<1>7. PICK c : c = ab \o k /\ JoinOf(c, ab, h, k, kl)
  <2>1. ab \in Bytes /\ h = Len(ab)
    BY <1>1, <1>6 DEF JoinOf
  <2>. QED
    BY <1>3, <2>1, Joined
<1>8. PICK e : e = c \o v /\ JoinOf(e, c, h + kl, v, vl)
  <2>1. c \in Bytes /\ h + kl = Len(c) /\ h + kl \in Nat
    BY <1>7 DEF JoinOf
  <2>. QED
    BY <1>3, <2>1, Joined
<1>9. encode(p) = e
  BY <1>1, <1>2, <1>3, <1>4, <1>5, <1>6, <1>7, <1>8 DEF encode
<1>10. \A d \in 1..h : d \in 1..(h + kl) /\ e[d] = ab[d]
  BY <1>7, <1>8 DEF JoinOf
<1>11. \A d \in 1..w : d \in 1..h /\ w + d \in 1..h
  BY <1>1
<1>12. \A d \in 1..w : e[d] = a[d] /\ e[w + d] = b[d]
  BY <1>6, <1>10, <1>11 DEF JoinOf
<1>13. \A d \in 1..kl : h + d \in 1..(h + kl)
  OBVIOUS
<1>14. \A d \in 1..kl : e[h + d] = k[d]
  BY <1>7, <1>8, <1>13 DEF JoinOf
<1>15. /\ e \in Bytes /\ Len(e) = h + kl + vl /\ kl + vl + h = Len(e) /\ kl <= Len(e)
       /\ \A d \in 1..vl : e[h + kl + d] = v[d]
  BY <1>8 DEF JoinOf
<1>16. /\ \A d \in 1..w : e[d] = LittleEndian(Len(e), w)[d]
       /\ \A d \in 1..w : e[w + d] = LittleEndian(kl, w)[d]
  BY <1>4, <1>5, <1>12, <1>15
<1>17. w = SizeWidth /\ h = Header /\ kl = Len(p.key) /\ vl = Len(p.val)
  BY <1>1, <1>2, <1>3
<1>18. /\ encode(p) \in Bytes /\ Header \in Nat /\ Header = SizeWidth + SizeWidth
       /\ Len(encode(p)) = Header + Len(p.key) + Len(p.val)
       /\ Len(p.key) + Len(p.val) + Header = Len(encode(p)) /\ Len(p.key) <= Len(encode(p))
       /\ Len(p.key) \in Nat /\ Len(p.val) \in Nat
  BY <1>1, <1>9, <1>15, <1>17
<1>19. /\ \A d \in 1..SizeWidth : encode(p)[d] = LittleEndian(Len(encode(p)), SizeWidth)[d]
       /\ \A d \in 1..SizeWidth :
            encode(p)[SizeWidth + d] = LittleEndian(Len(p.key), SizeWidth)[d]
  BY <1>9, <1>16, <1>17
<1>20. /\ \A d \in 1..Len(p.key) : encode(p)[Header + d] = p.key[d]
       /\ \A d \in 1..Len(p.val) : encode(p)[Header + Len(p.key) + d] = p.val[d]
  BY <1>2, <1>9, <1>14, <1>15, <1>17
<1>. QED
  BY <1>18, <1>19, <1>20

\* The sizes of a pair fit into their fields.
LEMMA SizesFit ==
    ASSUME NEW p, IsPair(p)
    PROVE  Fits(Len(encode(p)), SizeWidth) /\ Fits(Len(p.key), SizeWidth)
<1>0. Len(encode(p)) \in Nat /\ Len(p.key) \in Nat /\ Len(p.key) <= Len(encode(p))
  BY EncodeOne, StringLength
<1>1. PICK n \in Nat, k \in Nat : n = Len(encode(p)) /\ k = Len(p.key) /\ k <= n
  BY <1>0
<1>2. SizeWidth \in Nat /\ Fits(n, SizeWidth)
  <2>1. Len(p.key) + Len(p.val) + Header = n
    BY <1>1, EncodeOne
  <2>. QED
    BY <2>1, Division DEF IsPair
<1>. QED
  BY <1>1, <1>2, SmallerFits

\* The size of a pair is read back from its first bytes, the key's from the next.
LEMMA ReadSize ==
    ASSUME NEW p, IsPair(p), NEW s, \A d \in 1..SizeWidth : s[d] = encode(p)[d]
    PROVE  FromLittleEndian(s, SizeWidth) = Len(encode(p))
<1>1. PICK n \in Nat : n = Len(encode(p)) /\ Fits(n, SizeWidth)
  BY EncodeOne, SizesFit
<1>2. \A d \in 1..SizeWidth : s[d] = LittleEndian(n, SizeWidth)[d]
  BY <1>1, EncodeOne
<1>. QED
  BY <1>1, <1>2, FromBytes, Division

\* The size of the key is read back from the bytes after those.
LEMMA ReadKeySize ==
    ASSUME NEW p, IsPair(p), NEW s, \A d \in 1..SizeWidth : s[d] = encode(p)[SizeWidth + d]
    PROVE  FromLittleEndian(s, SizeWidth) = Len(p.key)
<1>1. PICK n \in Nat : n = Len(p.key) /\ Fits(n, SizeWidth)
  BY EncodeOne, SizesFit
<1>2. \A d \in 1..SizeWidth : s[d] = LittleEndian(n, SizeWidth)[d]
  BY <1>1, EncodeOne
<1>. QED
  BY <1>1, <1>2, FromBytes, Division

\* decode gives back the pair, with an empty key or value too.
LEMMA DecodeOne ==
    ASSUME NEW p, IsPair(p)
    PROVE  decode(encode(p)) = p
<1>1. PICK e \in Bytes : e = encode(p)
  BY EncodeOne
<1>2. PICK k \in Bytes, v \in Bytes : k = p.key /\ v = p.val /\ p = [key |-> k, val |-> v]
  BY DEF IsPair
<1>3. /\ Len(k) \in Nat /\ Len(v) \in Nat /\ Header \in Nat /\ SizeWidth \in Nat
      /\ Header = SizeWidth + SizeWidth /\ Len(e) = Header + Len(k) + Len(v)
      /\ \A d \in 1..Len(k) : e[Header + d] = k[d]
      /\ \A d \in 1..Len(v) : e[Header + Len(k) + d] = v[d]
  BY <1>1, <1>2, EncodeOne, Division
<1>4. FromLittleEndian(SubSeq(e, SizeWidth + 1, Header), SizeWidth) = Len(k)
  <2>1. PICK t : t = SubSeq(e, SizeWidth + 1, Header)
    OBVIOUS
  <2>2. \A d \in 1..SizeWidth : t[d] = e[SizeWidth + d]
    <3>1. PICK w \in Nat : w = SizeWidth /\ Header = w + w /\ w + w <= Len(e)
      BY <1>3
    <3>. QED
      BY <2>1, <3>1, Part DEF PartOf
  <2>3. \A d \in 1..SizeWidth : t[d] = encode(p)[SizeWidth + d]
    BY <1>1, <2>2
  <2>4. FromLittleEndian(t, SizeWidth) = Len(p.key)
    BY <2>3, ReadKeySize
  <2>. QED
    BY <1>2, <2>1, <2>4
<1>5. SubSeq(e, Header + 1, Header + Len(k)) = k
  <2>0. PICK h \in Nat, kl \in Nat, vl \in Nat :
          h = Header /\ kl = Len(k) /\ vl = Len(v) /\ Len(e) = h + kl + vl
    BY <1>3
  <2>1. PICK m \in Nat, n \in Nat : m = Header /\ n = Len(k) /\ m + n <= Len(e)
    BY <2>0
  <2>2. PICK s : s = SubSeq(e, m + 1, m + n) /\ PartOf(s, e, m, n)
    BY <2>1, Part
  <2>3. s \in Bytes /\ Len(s) = Len(k) /\ \A d \in 1..Len(s) : s[d] = k[d]
    BY <1>3, <2>1, <2>2 DEF PartOf
  <2>4. s = k
    BY <2>3, SameString
  <2>. QED
    BY <2>1, <2>2, <2>4
<1>6. SubSeq(e, Header + Len(k) + 1, Len(e)) = v
  <2>1. PICK m \in Nat, n \in Nat : m = Header + Len(k) /\ n = Len(v) /\ m + n = Len(e)
    BY <1>3
  <2>2. PICK s : s = SubSeq(e, m + 1, m + n) /\ PartOf(s, e, m, n)
    <3>1. m + n <= Len(e)
      BY <2>1
    <3>. QED
      BY <3>1, Part
  <2>3. s \in Bytes /\ Len(s) = Len(v) /\ \A d \in 1..Len(s) : s[d] = v[d]
    BY <1>3, <2>1, <2>2 DEF PartOf
  <2>4. s = v
    BY <2>3, SameString
  <2>. QED
    BY <2>1, <2>2, <2>4
<1>7. decode(e) = [key |-> k, val |-> v]
  BY <1>4, <1>5, <1>6 DEF decode
<1>. QED
  BY <1>1, <1>2, <1>7


-----------------------------------------------------------------------------
(* The loops of Encode and Decode *)

\* b is what the buffer of Encode holds after each of the n pairs.
IsBuf(b, ps, n) == /\ b \in [0..n -> Bytes] /\ b[0] = <<>>
                   /\ \A i \in 1..n : b[i] = b[i - 1] \o encode(ps[i])

HasBuf(ps, n) == \E b : IsBuf(b, ps, n) /\ Encode(ps) = b[n]

\* Encode has such a buffer.
LEMMA EncodeLoop ==
    ASSUME NEW ps, NEW n \in Nat, n = Len(ps), \A i \in 1..n : IsPair(ps[i])
    PROVE  HasBuf(ps, n)
<1>. DEFINE J(x, i) == x \o encode(ps[i])
            buf[i \in 0..Len(ps)] == IF i = 0 THEN <<>> ELSE J(buf[i - 1], i)
<1>1. Encode(ps) = buf[n]
  BY DEF Encode
<1>2. <<>> \in Bytes
  BY DEF Bytes
<1>3. ASSUME NEW x \in Bytes, NEW i \in 1..n PROVE J(x, i) \in Bytes
  <2>1. PICK e \in Bytes : e = encode(ps[i])
    BY EncodeOne
  <2>2. JoinOf(x \o e, x, Len(x), e, Len(e))
    BY Joined, StringLength
  <2>. QED
    BY <2>1, <2>2 DEF JoinOf
<1>4. \A x, i : J(x, i) = x \o encode(ps[i])
  OBVIOUS
<1>. HIDE DEF J
<1>5. PICK F : F = [x \in Bytes |-> [i \in 1..n |-> J(x, i)]]
  OBVIOUS
<1>6. PICK g \in [0..n -> Bytes] : g[0] = <<>> /\ \A i \in 1..n : g[i] = F[g[i - 1]][i]
  <2>1. \A x \in Bytes, i \in 1..n : F[x][i] \in Bytes
    BY <1>3, <1>5
  <2>2. LoopRuns(Bytes, <<>>, n, F)
    BY <1>2, <2>1, LoopHistory
  <2>. QED
    BY <2>2 DEF LoopRuns
<1>7. \A i \in 1..n : g[i - 1] \in Bytes /\ g[i] = J(g[i - 1], i)
  <2>1. \A i \in 1..n : i - 1 \in 0..n
    OBVIOUS
  <2>. QED
    BY <1>5, <1>6, <2>1
<1>8. buf = [i \in 0..Len(ps) |-> IF i = 0 THEN <<>> ELSE J(buf[i - 1], i)]
  <2>1. g = [i \in 0..n |-> IF i = 0 THEN <<>> ELSE J(g[i - 1], i)]
    BY <1>6, <1>7
  <2>2. g = [i \in 0..Len(ps) |-> IF i = 0 THEN <<>> ELSE J(g[i - 1], i)]
    BY <2>1
  <2>. QED
    BY <2>2
<1>. HIDE DEF buf
<1>9. Alike(buf, g, n)
  BY <1>6, <1>7, <1>8 DEF Alike
<1>10. SameRun(buf, g, n)
  BY <1>9, SameLoop
<1>11. Encode(ps) = g[n]
  BY <1>1, <1>10 DEF SameRun
<1>12. IsBuf(g, ps, n)
  BY <1>4, <1>6, <1>7 DEF IsBuf
<1>. QED
  BY <1>11, <1>12 DEF HasBuf

\* One pair more: the buffer as it was, and the pair's bytes.
LEMMA BufStep ==
    ASSUME NEW ps, NEW n \in Nat, NEW b, IsBuf(b, ps, n), NEW i \in 1..n, IsPair(ps[i])
    PROVE  /\ b[i - 1] \in Bytes /\ b[i] \in Bytes /\ encode(ps[i]) \in Bytes
           /\ JoinOf(b[i], b[i - 1], Len(b[i - 1]), encode(ps[i]), Len(encode(ps[i])))
           /\ Len(b[i]) = Len(b[i - 1]) + Len(encode(ps[i]))
<1>1. i - 1 \in 0..n /\ i \in 0..n
  OBVIOUS
<1>2. PICK x \in Bytes, e \in Bytes : x = b[i - 1] /\ e = encode(ps[i]) /\ b[i] = x \o e
  BY <1>1, EncodeOne DEF IsBuf
<1>3. JoinOf(x \o e, x, Len(x), e, Len(e))
  BY Joined, StringLength
<1>. QED
  BY <1>2, <1>3 DEF JoinOf

\* The buffer only grows, by a byte at least, and what is in it stays.
LEMMA BufGrows ==
    ASSUME NEW ps, NEW n \in Nat, NEW b, IsBuf(b, ps, n), \A i \in 1..n : IsPair(ps[i])
    PROVE  \A i \in 0..n : /\ Len(b[i]) \in Nat /\ i <= Len(b[i]) /\ Len(b[i]) <= Len(b[n])
                           /\ \A d \in 1..Len(b[i]) : b[n][d] = b[i][d]
<1>1. \A i \in 0..n : b[i] \in Bytes /\ Len(b[i]) \in Nat
  BY StringLength DEF IsBuf
<1>2. ASSUME NEW i \in 1..n
      PROVE  /\ Len(b[i - 1]) \in Nat /\ Len(b[i]) \in Nat
             /\ Len(b[i - 1]) + 1 <= Len(b[i])
             /\ \A d \in 1..Len(b[i - 1]) : b[i][d] = b[i - 1][d]
  <2>1. i - 1 \in 0..n /\ i \in 0..n /\ IsPair(ps[i])
    OBVIOUS
  <2>2. PICK x \in Nat, y \in Nat, l \in Nat :
          x = Len(b[i - 1]) /\ y = Len(b[i]) /\ l = Len(encode(ps[i])) /\ y = x + l
    <3>1. Len(b[i]) = Len(b[i - 1]) + Len(encode(ps[i])) /\ encode(ps[i]) \in Bytes
      BY <2>1, BufStep
    <3>2. Len(encode(ps[i])) \in Nat /\ Len(b[i - 1]) \in Nat /\ Len(b[i]) \in Nat
      BY <1>1, <2>1, <3>1, StringLength
    <3>. QED
      BY <3>1, <3>2
  <2>3. l >= 1
    <3>1. PICK p : p = ps[i] /\ IsPair(p)
      BY <2>1
    <3>2. /\ Len(encode(p)) = Header + Len(p.key) + Len(p.val) /\ Header \in Nat
          /\ Len(p.key) \in Nat /\ Len(p.val) \in Nat
      BY <3>1, EncodeOne
    <3>3. PICK h \in Nat, k \in Nat, v \in Nat : h = Header /\ l = h + k + v
      BY <2>2, <3>1, <3>2
    <3>4. h >= 1
      <4>1. SizeWidth \in Nat /\ SizeWidth >= 1
        BY Division
      <4>2. 2 * SizeWidth >= 1
        BY <4>1
      <4>. QED
        BY <3>3, <4>2 DEF Header
    <3>. QED
      BY <3>3, <3>4
  <2>4. \A d \in 1..Len(b[i - 1]) : b[i][d] = b[i - 1][d]
    <3>1. JoinOf(b[i], b[i - 1], Len(b[i - 1]), encode(ps[i]), Len(encode(ps[i])))
      BY <2>1, BufStep
    <3>. QED
      BY <3>1 DEF JoinOf
  <2>5. x + 1 <= y
    BY <2>2, <2>3
  <2>. QED
    BY <2>2, <2>4, <2>5
<1>3. \A i \in 0..n : i <= Len(b[i])
  <2>. DEFINE P == {i \in Nat : i <= Len(b[i])}
  <2>1. 0 \in P
    BY <1>1
  <2>2. ASSUME NEW i \in 1..n, i - 1 \in P PROVE i \in P
    <3>1. PICK x \in Nat, y \in Nat : x = Len(b[i - 1]) /\ y = Len(b[i]) /\ x + 1 <= y
      BY <1>2
    <3>2. i - 1 <= x
      BY <2>2, <3>1
    <3>3. i <= y
      BY <3>1, <3>2
    <3>. QED
      BY <3>1, <3>3
  <2>3. \A i \in 0..n : i \in P
    <3>1. \A i \in 1..n : i - 1 \in P => i \in P
      BY <2>2
    <3>. HIDE DEF P
    <3>. QED
      BY <2>1, <3>1, InductUpTo
  <2>. QED
    BY <2>3
<1>4. ASSUME NEW i \in 0..n
      PROVE  Len(b[i]) <= Len(b[n]) /\ \A d \in 1..Len(b[i]) : b[n][d] = b[i][d]
  <2>. DEFINE Q(k) == Len(b[k]) <= Len(b[n]) /\ \A d \in 1..Len(b[k]) : b[n][d] = b[k][d]
              P == {j \in Nat : Q(n - j)}
  <2>1. 0 \in P
    <3>1. Q(n)
      BY <1>1
    <3>2. n - 0 = n
      OBVIOUS
    <3>. HIDE DEF Q
    <3>. QED
      BY <3>1, <3>2
  <2>2. ASSUME NEW j \in 1..n, j - 1 \in P PROVE j \in P
    <3>1. PICK k \in 1..n : k = n - (j - 1) /\ k - 1 = n - j
      OBVIOUS
    <3>2. Q(k)
      <4>. HIDE DEF Q
      <4>. QED
        BY <2>2, <3>1
    <3>3. PICK x \in Nat, y \in Nat, z \in Nat :
            x = Len(b[k - 1]) /\ y = Len(b[k]) /\ z = Len(b[n]) /\ x + 1 <= y /\ y <= z
      <4>1. /\ Len(b[k - 1]) \in Nat /\ Len(b[k]) \in Nat /\ Len(b[n]) \in Nat
            /\ Len(b[k - 1]) + 1 <= Len(b[k])
        BY <1>1, <1>2
      <4>2. Len(b[k]) <= Len(b[n])
        BY <3>2
      <4>. QED
        BY <4>1, <4>2
    <3>4. \A d \in 1..x : d \in 1..y /\ b[n][d] = b[k - 1][d]
      BY <1>2, <3>2, <3>3
    <3>5. x <= z
      BY <3>3
    <3>6. Q(k - 1)
      BY <3>3, <3>4, <3>5
    <3>. HIDE DEF Q
    <3>. QED
      BY <3>1, <3>6
  <2>3. \A j \in 0..n : j \in P
    <3>1. \A j \in 1..n : j - 1 \in P => j \in P
      BY <2>2
    <3>. HIDE DEF P
    <3>. QED
      BY <2>1, <3>1, InductUpTo
  <2>4. PICK j \in 0..n : n - j = i
    <3>1. n - i \in 0..n /\ n - (n - i) = i
      OBVIOUS
    <3>. QED
      BY <3>1
  <2>5. Q(i)
    <3>. HIDE DEF Q
    <3>. QED
      BY <2>3, <2>4
  <2>. QED
    BY <2>5
<1>. QED
  BY <1>1, <1>3, <1>4


\* The first i of the pairs.
Upto(ps, i) == [j \in 1..i |-> ps[j]]

\* The state of Decode's loop once i pairs have been read.
After(b, ps, i) == [offset |-> Len(b[i]), pairs |-> Upto(ps, i)]

\* One pair more.
LEMMA UptoAppend ==
    ASSUME NEW ps, NEW i \in Nat \ {0}
    PROVE  Append(Upto(ps, i - 1), ps[i]) = Upto(ps, i)
<1>1. PICK s : s = Upto(ps, i - 1)
  OBVIOUS
<1>2. PICK S : S = {ps[j] : j \in 1..i}
  OBVIOUS
<1>3. s \in Seq(S) /\ Len(s) = i - 1 /\ \A j \in 1..(i - 1) : s[j] = ps[j]
  BY <1>1, <1>2 DEF Upto
<1>4. Append(s, ps[i]) = [j \in 1..i |-> IF j = i THEN ps[i] ELSE s[j]]
  BY <1>3
<1>5. \A j \in 1..i : (IF j = i THEN ps[i] ELSE s[j]) = ps[j]
  BY <1>3
<1>. QED
  BY <1>1, <1>4, <1>5 DEF Upto

\* A pass of the loop reads the next pair.
LEMMA DecodePass ==
    ASSUME NEW ps, NEW n \in Nat, NEW b, IsBuf(b, ps, n), \A i \in 1..n : IsPair(ps[i]),
           NEW i \in 1..n
    PROVE  DecodeNext(b[n], After(b, ps, i - 1)) = After(b, ps, i)
<1>0. i - 1 \in 0..n /\ i \in 0..n /\ n \in 0..n /\ IsPair(ps[i])
  OBVIOUS
<1>1. PICK p : p = ps[i] /\ IsPair(p)
  BY <1>0
<1>2. PICK x \in Bytes, y \in Bytes, z \in Bytes, e \in Bytes :
        x = b[i - 1] /\ y = b[i] /\ z = b[n] /\ e = encode(p)
  BY <1>0, <1>1, EncodeOne DEF IsBuf
<1>3. PICK o \in Nat, q \in Nat, l \in Nat, k \in Nat, w \in Nat :
        o = Len(x) /\ q = Len(y) /\ l = Len(z) /\ k = Len(e) /\ w = SizeWidth
  BY <1>2, StringLength, Division
<1>4. JoinOf(y, x, o, e, k)
  BY <1>0, <1>1, <1>2, <1>3, BufStep
<1>5. q = o + k /\ q <= l /\ \A d \in 1..q : z[d] = y[d]
  <2>1. Len(b[i]) <= Len(b[n]) /\ \A d \in 1..Len(b[i]) : b[n][d] = b[i][d]
    BY <1>0, BufGrows
  <2>2. q = o + k
    BY <1>3, <1>4 DEF JoinOf
  <2>. QED
    BY <1>2, <1>3, <2>1, <2>2
<1>6. w >= 1 /\ w <= k
  <2>1. /\ Len(encode(p)) = Header + Len(p.key) + Len(p.val) /\ Header \in Nat
        /\ Len(p.key) \in Nat /\ Len(p.val) \in Nat /\ Header = SizeWidth + SizeWidth
    BY <1>1, EncodeOne
  <2>2. PICK c \in Nat, v \in Nat : k = (w + w) + c + v
    BY <1>2, <1>3, <2>1
  <2>3. w >= 1
    BY <1>3, Division
  <2>. QED
    BY <2>2, <2>3
<1>7. \A d \in 1..k : z[o + d] = e[d]
  <2>1. \A d \in 1..k : o + d \in 1..q
    BY <1>5
  <2>2. \A d \in 1..k : y[o + d] = e[d]
    BY <1>4 DEF JoinOf
  <2>. QED
    BY <1>5, <2>1, <2>2
<1>8. FromLittleEndian(SubSeq(z, o + 1, l), SizeWidth) = k
  <2>1. PICK m \in Nat : o + m = l /\ k <= m
    <3>1. l - o \in Nat /\ o + (l - o) = l /\ k <= l - o
      BY <1>5
    <3>. QED
      BY <3>1
  <2>2. PICK s : s = SubSeq(z, o + 1, o + m) /\ PartOf(s, z, o, m)
    <3>1. o + m <= Len(z)
      BY <1>3, <2>1
    <3>. QED
      BY <3>1, Part
  <2>3. \A d \in 1..w : d \in 1..m /\ d \in 1..k
    BY <1>6, <2>1
  <2>4. \A d \in 1..w : s[d] = e[d]
    BY <1>7, <2>2, <2>3 DEF PartOf
  <2>5. \A d \in 1..SizeWidth : s[d] = encode(p)[d]
    BY <1>2, <1>3, <2>4
  <2>6. FromLittleEndian(s, SizeWidth) = Len(encode(p))
    BY <1>1, <2>5, ReadSize
  <2>. QED
    BY <1>2, <1>3, <2>1, <2>2, <2>6
<1>9. decode(SubSeq(z, o + 1, o + k)) = p
  <2>1. PICK s : s = SubSeq(z, o + 1, o + k) /\ PartOf(s, z, o, k)
    <3>1. o + k <= Len(z)
      BY <1>3, <1>5
    <3>. QED
      BY <3>1, Part
  <2>2. s \in Bytes /\ Len(s) = Len(e) /\ \A d \in 1..Len(s) : s[d] = e[d]
    BY <1>3, <1>7, <2>1 DEF PartOf
  <2>3. s = e
    BY <2>2, SameString
  <2>. QED
    BY <1>1, <1>2, <2>1, <2>3, DecodeOne
<1>10. Append(Upto(ps, i - 1), p) = Upto(ps, i)
  BY <1>1, UptoAppend
<1>11. PICK st : st = After(b, ps, i - 1) /\ st.offset = o /\ st.pairs = Upto(ps, i - 1)
  <2>1. PICK u : u = Upto(ps, i - 1)
    OBVIOUS
  <2>2. After(b, ps, i - 1) = [offset |-> o, pairs |-> u]
    BY <1>2, <1>3, <2>1 DEF After
  <2>3. [offset |-> o, pairs |-> u].offset = o /\ [offset |-> o, pairs |-> u].pairs = u
    OBVIOUS
  <2>. QED
    BY <2>1, <2>2, <2>3
<1>12. o < l
  BY <1>5, <1>6
<1>13. DecodeNext(z, st) =
         [offset |-> o + FromLittleEndian(SubSeq(z, o + 1, l), SizeWidth),
          pairs |-> Append(Upto(ps, i - 1),
                           decode(SubSeq(z, o + 1,
                             o + FromLittleEndian(SubSeq(z, o + 1, l), SizeWidth))))]
  BY <1>3, <1>11, <1>12 DEF DecodeNext
<1>14. DecodeNext(z, st) = [offset |-> o + k, pairs |-> Upto(ps, i)]
  BY <1>8, <1>9, <1>10, <1>13
<1>. QED
  BY <1>2, <1>3, <1>5, <1>11, <1>14 DEF After

\* Decode gives back the list of pairs that Encode was given.
LEMMA DecodeEncode ==
    ASSUME NEW S, NEW ps \in Seq(S), \A i \in 1..Len(ps) : IsPair(ps[i])
    PROVE  Decode(Encode(ps)) = ps
<1>1. PICK n \in Nat : n = Len(ps)
  OBVIOUS
<1>2. PICK b : IsBuf(b, ps, n) /\ Encode(ps) = b[n]
  BY <1>1, EncodeLoop DEF HasBuf
<1>3. PICK z : z = b[n] /\ Len(z) \in Nat /\ n <= Len(z)
  <2>1. \A i \in 0..n : Len(b[i]) \in Nat /\ i <= Len(b[i])
    BY <1>1, <1>2, BufGrows
  <2>. QED
    BY <2>1
<1>l. PICK l \in Nat : l = Len(z) /\ n <= l
  BY <1>3
<1>. DEFINE loop[m \in 0..Len(z)] == IF m = 0 THEN [offset |-> 0, pairs |-> <<>>]
                                     ELSE DecodeNext(z, loop[m - 1])
<1>4. Decode(z) = loop[l].pairs
  BY <1>l DEF Decode
<1>5. PICK g : g = [m \in 0..l |-> After(b, ps, IF m <= n THEN m ELSE n)]
  OBVIOUS
<1>6. g[0] = [offset |-> 0, pairs |-> <<>>]
  <2>1. Len(b[0]) = 0
    BY <1>2 DEF IsBuf
  <2>2. Upto(ps, 0) = <<>>
    BY DEF Upto
  <2>. QED
    BY <1>5, <1>l, <2>1, <2>2 DEF After
<1>7. ASSUME NEW m \in 1..l PROVE g[m] = DecodeNext(z, g[m - 1])
  <2>1. CASE m <= n
    <3>1. g[m] = After(b, ps, m) /\ g[m - 1] = After(b, ps, m - 1) /\ m \in 1..n
      BY <1>5, <1>l, <2>1
    <3>. QED
      BY <1>1, <1>2, <1>3, <3>1, DecodePass
  <2>2. CASE m > n
    <3>1. g[m] = After(b, ps, n) /\ g[m - 1] = After(b, ps, n)
      BY <1>5, <2>2
    <3>2. After(b, ps, n).offset = l
      BY <1>3, <1>l DEF After
    <3>3. ~(After(b, ps, n).offset < Len(z))
      BY <1>l, <3>2
    <3>. QED
      BY <3>1, <3>3 DEF DecodeNext
  <2>. QED
    BY <2>1, <2>2
<1>8. loop = [m \in 0..Len(z) |-> IF m = 0 THEN [offset |-> 0, pairs |-> <<>>]
                                  ELSE DecodeNext(z, loop[m - 1])]
  <2>1. \A m \in 0..l : g[m] = IF m = 0 THEN [offset |-> 0, pairs |-> <<>>]
                                ELSE DecodeNext(z, g[m - 1])
    <3>. TAKE m \in 0..l
    <3>1. CASE m = 0
      BY <1>6, <3>1
    <3>2. CASE m # 0
      BY <1>7, <3>2
    <3>. QED
      BY <3>1, <3>2
  <2>2. g = [m \in 0..Len(z) |-> IF m = 0 THEN [offset |-> 0, pairs |-> <<>>]
                                 ELSE DecodeNext(z, g[m - 1])]
    BY <1>l, <1>5, <2>1
  <2>. QED
    BY <2>2
<1>. HIDE DEF loop
<1>9. Alike(loop, g, l)
  <2>1. loop[0] = g[0]
    BY <1>6, <1>8, <1>l
  <2>2. ASSUME NEW m \in 1..l, loop[m - 1] = g[m - 1] PROVE loop[m] = g[m]
    <3>1. loop[m] = DecodeNext(z, loop[m - 1])
      <4>1. m \in 0..Len(z) /\ m # 0
        BY <1>l
      <4>2. PICK first : first = [offset |-> 0, pairs |-> <<>>]
        OBVIOUS
      <4>3. loop = [d \in 0..Len(z) |-> IF d = 0 THEN first ELSE DecodeNext(z, loop[d - 1])]
        BY <1>8, <4>2
      <4>4. loop[m] = IF m = 0 THEN first ELSE DecodeNext(z, loop[m - 1])
        BY <4>1, <4>3
      <4>. QED
        BY <4>1, <4>4
    <3>. QED
      BY <1>7, <2>2, <3>1
  <2>. QED
    BY <2>1, <2>2 DEF Alike
<1>10. SameRun(loop, g, l)
  BY <1>9, SameLoop
<1>11. loop[l] = After(b, ps, n)
  <2>1. loop[l] = g[l]
    BY <1>10 DEF SameRun
  <2>2. g[l] = After(b, ps, n)
    BY <1>5, <1>l
  <2>. QED
    BY <2>1, <2>2
<1>12. Decode(z) = Upto(ps, n)
  BY <1>4, <1>11 DEF After
<1>13. Upto(ps, n) = ps
  BY <1>1 DEF Upto
<1>. QED
  BY <1>2, <1>3, <1>12, <1>13


-----------------------------------------------------------------------------
(* A snapshot, replayed *)

\* The order in which a finite set is scanned leaves nothing out.
LEMMA ScanOnto ==
    ASSUME NEW S, IsFiniteSet(S)
    PROVE  /\ SetToSeq(S) \in Seq(S)
           /\ \A x \in S : \E i \in 1..Len(SetToSeq(S)) : SetToSeq(S)[i] = x
<1>1. PICK n \in Nat : n = Cardinality(S) /\ ExistsBijection(1..n, S)
  BY FS_CardinalityType
<1>2. PICK f : f \in Bijection(1..n, S)
  BY <1>1 DEF ExistsBijection
<1>3. f \in [1..n -> S] /\ IsInjective(f)
  BY <1>2 DEF Bijection, Injection, IsInjective
<1>4. PICK s : s = SetToSeq(S) /\ s \in [1..n -> S] /\ IsInjective(s)
  BY <1>1, <1>3 DEF SetToSeq
<1>5. s \in Injection(1..n, S)
  BY <1>4 DEF Injection, IsInjective
<1>6. IsFiniteSet(1..n) /\ Cardinality(1..n) = n
  BY FS_Interval
<1>7. s \in Surjection(1..n, S)
  BY <1>1, <1>5, <1>6, FS_Injection
<1>8. \A x \in S : \E i \in 1..n : s[i] = x
  BY <1>7 DEF Surjection
<1>9. s \in Seq(S) /\ Len(s) = n
  BY <1>4
<1>. QED
  BY <1>4, <1>8, <1>9

\* The pairs of a table, all of them and well formed.
LEMMA PairsFacts ==
    ASSUME NEW tab, UserTab(tab)
    PROVE  \E S : /\ Pairs(tab) \in Seq(S)
                  /\ \A i \in 1..Len(Pairs(tab)) :
                       /\ IsPair(Pairs(tab)[i])
                       /\ Pairs(tab)[i].key \in DOMAIN tab
                       /\ Pairs(tab)[i].val = tab[Pairs(tab)[i].key]
                  /\ \A k \in DOMAIN tab :
                       \E i \in 1..Len(Pairs(tab)) : Pairs(tab)[i].key = k
<1>1. PICK f : f = [k \in DOMAIN tab |-> [key |-> k, val |-> tab[k]]]
  OBVIOUS
<1>2. PICK S : S = {[key |-> k, val |-> tab[k]] : k \in DOMAIN tab}
  OBVIOUS
<1>3. IsFiniteSet(S)
  <2>1. f \in Surjection(DOMAIN tab, S)
    BY <1>1, <1>2 DEF Surjection
  <2>2. IsFiniteSet(DOMAIN tab)
    BY DEF UserTab
  <2>. QED
    BY <2>1, <2>2, FS_Surjection
<1>4. PICK ps : ps = Pairs(tab) /\ ps = SetToSeq(S)
  BY <1>2 DEF Pairs
<1>5. ps \in Seq(S) /\ \A x \in S : \E i \in 1..Len(ps) : ps[i] = x
  BY <1>3, <1>4, ScanOnto
<1>6. ASSUME NEW x \in S
      PROVE  IsPair(x) /\ x.key \in DOMAIN tab /\ x.val = tab[x.key]
  <2>1. PICK k \in DOMAIN tab : x = [key |-> k, val |-> tab[k]]
    BY <1>2
  <2>2. PICK v : v = tab[k]
    OBVIOUS
  <2>3. k \in UserKey /\ v \in UserValue
    BY <2>2 DEF UserTab
  <2>4. x = [key |-> k, val |-> v] /\ x.key = k /\ x.val = v
    BY <2>1, <2>2
  <2>5. /\ k \in Bytes /\ v \in Bytes
        /\ Fits(Len(k) + Len(v) + Header, SizeWidth)
    BY <2>3, StoreAssumption DEF Bytes, Byte
  <2>6. IsPair(x)
    BY <2>4, <2>5 DEF IsPair
  <2>. QED
    BY <2>2, <2>4, <2>6
<1>7. \A i \in 1..Len(ps) : ps[i] \in S
  BY <1>5
<1>8. ASSUME NEW k \in DOMAIN tab
      PROVE  \E i \in 1..Len(ps) : ps[i].key = k
  <2>1. PICK x \in S : x = [key |-> k, val |-> tab[k]]
    BY <1>2
  <2>2. x.key = k
    BY <2>1
  <2>. QED
    BY <1>5, <2>2
<1>9. \A i \in 1..Len(ps) :
        IsPair(ps[i]) /\ ps[i].key \in DOMAIN tab /\ ps[i].val = tab[ps[i].key]
  BY <1>6, <1>7
<1>. QED
  BY <1>4, <1>5, <1>8, <1>9

\* What applySnapshot's writes leave in a new database.
LEMMA PutPlain ==
    ASSUME NEW t, NEW key, NEW val
    PROVE  set([tab |-> t, disk |-> t], key, val, TRUE) =
             [tab |-> Put(t, key, val), disk |-> Put(t, key, val)]
<1>1. PICK db, u : db = [tab |-> t, disk |-> t] /\ u = Put(t, key, val)
  OBVIOUS
<1>2. set(db, key, val, TRUE) = Written(db, u, TRUE)
  BY <1>1 DEF set, Put
<1>3. Written(db, u, TRUE) = [db EXCEPT !.tab = u, !.disk = u]
  BY DEF Written, toWriteOptions
<1>4. [db EXCEPT !.tab = u] = [tab |-> u, disk |-> t]
  BY <1>1
<1>5. [db EXCEPT !.tab = u, !.disk = u] = [tab |-> u, disk |-> u]
  <2>1. PICK r : r = [tab |-> u, disk |-> t]
    OBVIOUS
  <2>2. [r EXCEPT !.disk = u] = [tab |-> u, disk |-> u]
    BY <2>1
  <2>3. [db EXCEPT !.tab = u, !.disk = u] = [[db EXCEPT !.tab = u] EXCEPT !.disk = u]
    OBVIOUS
  <2>. QED
    BY <1>4, <2>1, <2>2, <2>3
<1>. QED
  BY <1>1, <1>2, <1>3, <1>5

\* The bytes of a scan give back the table.
LEMMA ReplayScan ==
    ASSUME NEW tab, UserTab(tab)
    PROVE  Replay(Encode(Pairs(tab))) = tab
<1>1. PICK S, ps : /\ ps = Pairs(tab) /\ ps \in Seq(S)
                   /\ \A i \in 1..Len(ps) :
                        IsPair(ps[i]) /\ ps[i].key \in DOMAIN tab /\ ps[i].val = tab[ps[i].key]
                   /\ \A k \in DOMAIN tab : \E i \in 1..Len(ps) : ps[i].key = k
  BY PairsFacts
<1>2. Decode(Encode(ps)) = ps
  BY <1>1, DecodeEncode
<1>. DEFINE db[i \in 0..Len(ps)] ==
              IF i = 0 THEN [tab |-> EmptyTable, disk |-> EmptyTable]
              ELSE set(db[i - 1], ps[i].key, ps[i].val, TRUE)
            T(i) == [k \in {ps[j].key : j \in 1..i} |-> tab[k]]
<1>3. Replay(Encode(ps)) = db[Len(ps)].tab
  BY <1>2 DEF Replay
<1>4. PICK n \in Nat : n = Len(ps)
  BY <1>1
<1>5. T(0) = EmptyTable
  BY DEF EmptyTable
<1>6. ASSUME NEW i \in 1..n
      PROVE  Put(T(i - 1), ps[i].key, ps[i].val) = T(i)
  <2>1. 1..i = 1..(i - 1) \cup {i}
    OBVIOUS
  <2>2. {ps[j].key : j \in 1..i} = {ps[j].key : j \in 1..(i - 1)} \cup {ps[i].key}
    BY <2>1
  <2>3. ps[i].val = tab[ps[i].key]
    BY <1>1, <1>4
  <2>. QED
    BY <2>2, <2>3 DEF Put
<1>7. T(n) = tab
  <2>1. {ps[j].key : j \in 1..n} = DOMAIN tab
    <3>1. \A j \in 1..n : ps[j].key \in DOMAIN tab
      BY <1>1, <1>4
    <3>2. \A k \in DOMAIN tab : \E j \in 1..n : ps[j].key = k
      BY <1>1, <1>4
    <3>. QED
      BY <3>1, <3>2, SMTT(20)
  <2>2. tab = [k \in DOMAIN tab |-> tab[k]]
    BY DEF UserTab
  <2>. QED
    BY <2>1, <2>2
<1>. HIDE DEF T
<1>8. PICK g : g = [i \in 0..n |-> [tab |-> T(i), disk |-> T(i)]]
  OBVIOUS
<1>9. g[0] = [tab |-> EmptyTable, disk |-> EmptyTable]
  BY <1>5, <1>8
<1>10. ASSUME NEW i \in 1..n
       PROVE  g[i] = set(g[i - 1], ps[i].key, ps[i].val, TRUE)
  <2>1. g[i] = [tab |-> T(i), disk |-> T(i)] /\ g[i - 1] = [tab |-> T(i - 1), disk |-> T(i - 1)]
    BY <1>8
  <2>2. PICK t, key, val : t = T(i - 1) /\ key = ps[i].key /\ val = ps[i].val
    OBVIOUS
  <2>3. set([tab |-> t, disk |-> t], key, val, TRUE) =
          [tab |-> Put(t, key, val), disk |-> Put(t, key, val)]
    BY PutPlain
  <2>4. Put(t, key, val) = T(i)
    BY <1>6, <2>2
  <2>. QED
    BY <2>1, <2>2, <2>3, <2>4
<1>11. db = [i \in 0..Len(ps) |-> IF i = 0 THEN [tab |-> EmptyTable, disk |-> EmptyTable]
                                  ELSE set(db[i - 1], ps[i].key, ps[i].val, TRUE)]
  <2>1. g = [i \in 0..Len(ps) |-> IF i = 0 THEN [tab |-> EmptyTable, disk |-> EmptyTable]
                                  ELSE set(g[i - 1], ps[i].key, ps[i].val, TRUE)]
    BY <1>4, <1>8, <1>9, <1>10
  <2>. QED
    BY <2>1
<1>. HIDE DEF db
<1>12. Alike(db, g, n)
  <2>1. db[0] = g[0]
    BY <1>4, <1>9, <1>11
  <2>2. ASSUME NEW i \in 1..n, db[i - 1] = g[i - 1] PROVE db[i] = g[i]
    <3>1. i \in 0..Len(ps) /\ i # 0
      BY <1>4
    <3>2. PICK first : first = [tab |-> EmptyTable, disk |-> EmptyTable]
      OBVIOUS
    <3>3. db[i] = IF i = 0 THEN first ELSE set(db[i - 1], ps[i].key, ps[i].val, TRUE)
      BY <1>11, <3>1, <3>2
    <3>4. db[i] = set(db[i - 1], ps[i].key, ps[i].val, TRUE)
      BY <3>1, <3>3
    <3>. QED
      BY <1>10, <2>2, <3>4
  <2>. QED
    BY <2>1, <2>2 DEF Alike
<1>13. db[n] = g[n]
  BY <1>12, SameLoop DEF SameRun
<1>14. db[n].tab = T(n)
  BY <1>8, <1>13
<1>. QED
  BY <1>1, <1>3, <1>4, <1>7, <1>14

\* A follower that replays the bytes of a snapshot into an empty engine gets exactly the
\* table that the leader scanned, for keys and values of every length that the codec's
\* fields can hold, the empty ones included.
THEOREM SnapshotIsExact == Spec => []SnapshotExact
<1>1. EnginesInv => SnapshotExact
  BY ReplayScan DEF EnginesInv, SnapInv, SnapshotExact
<1>. QED
  BY <1>1, EnginesSafe, PTL
=============================================================================
