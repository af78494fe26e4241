------------------------------ MODULE KvProofs ------------------------------
(***************************************************************************)
(* Proofs about the key-value engine of PeerStorage: the applied index on  *)
(* disk never promises more than the engine holds, as long as no crash     *)
(* hits a window.  KvInv of PeerStorageInv is inductive together with      *)
(* StorageInv.                                                             *)
(***************************************************************************)
EXTENDS PeerStorageProofs, QueueLemmas

-----------------------------------------------------------------------------
(* What a log makes of the map *)

\* An entry writes its own key, and leaves the others alone.
LEMMA ChainStep ==
    ASSUME NEW log \in Seq(Entry), Chain(log), NEW i \in 1..Len(log), NEW k \in Key
    PROVE  /\ StateAt(log, i) = log[i].st
           /\ ~(log[i].kind \in {"put", "del"} /\ log[i].key = k) =>
                StateAt(log, i)[k] = StateAt(log, i - 1)[k]
           /\ log[i].kind = "put" /\ log[i].key = k => StateAt(log, i)[k] = log[i].val
           /\ log[i].kind = "del" /\ log[i].key = k => StateAt(log, i)[k] = Nil
<1>. DEFINE m == StateAt(log, i - 1)
<1>1. StateAt(log, i) = log[i].st /\ i - 1 \in 0..Len(log)
  BY DEF StateAt
<1>2. /\ log[i].st = NextMap(m, log[i].kind, log[i].key, log[i].val)
      /\ log[i].kind \in {"put", "del"} => log[i].key \in Key
  BY DEF Chain
<1>3. m \in Map
  BY <1>1, StateAtType
<1>. HIDE DEF m
<1>4. m \in [Key -> Value \cup {Nil}]
  BY <1>3 DEF Map
<1>5. /\ ~(log[i].kind \in {"put", "del"} /\ log[i].key = k) =>
            NextMap(m, log[i].kind, log[i].key, log[i].val)[k] = m[k]
      /\ log[i].kind = "put" /\ log[i].key = k =>
            NextMap(m, log[i].kind, log[i].key, log[i].val)[k] = log[i].val
      /\ log[i].kind = "del" /\ log[i].key = k =>
            NextMap(m, log[i].kind, log[i].key, log[i].val)[k] = Nil
  BY <1>4 DEF NextMap
<1>. QED
  BY <1>1, <1>2, <1>5 DEF m

\* A key that no entry writes keeps its value.
LEMMA Unwritten ==
    ASSUME NEW log \in Seq(Entry), Chain(log), NEW k \in Key,
           NEW a \in Nat, NEW b \in Nat, a <= b, b <= Len(log),
           \A i \in (a + 1)..b : ~(log[i].kind \in {"put", "del"} /\ log[i].key = k)
    PROVE  StateAt(log, b)[k] = StateAt(log, a)[k]
<1>. DEFINE T == {j \in Nat : a <= j /\ j <= b /\ StateAt(log, j)[k] # StateAt(log, a)[k]}
<1>. SUFFICES ASSUME T # {} PROVE FALSE
  OBVIOUS
<1>1. PICK t \in T : \A u \in T : t <= u
  <2>1. T \in SUBSET Nat
    OBVIOUS
  <2>. HIDE DEF T
  <2>. QED
    BY <2>1, LeastNatural
<1>2. t \in Nat /\ a < t /\ t <= b /\ t \in 1..Len(log) /\ t \in (a + 1)..b /\ Len(log) \in Nat
  OBVIOUS
<1>3. StateAt(log, t)[k] = StateAt(log, t - 1)[k]
  BY <1>2, ChainStep
<1>4. t - 1 \in Nat /\ a <= t - 1 /\ t - 1 <= b /\ ~(t <= t - 1)
  BY <1>2
<1>5. t - 1 \notin T
  BY <1>1, <1>4
<1>6. StateAt(log, t - 1)[k] = StateAt(log, a)[k]
  BY <1>4, <1>5
<1>. QED
  BY <1>3, <1>6

\* A leader's new entry carries the map that its request makes.
LEMMA ChainAppend ==
    ASSUME NEW log \in Seq(Entry), Chain(log), NEW e \in Entry,
           e.st = NextMap(StateAt(log, Len(log)), e.kind, e.key, e.val),
           e.kind \in {"put", "del"} => e.key \in Key
    PROVE  Chain(Append(log, e))
<1>. DEFINE new == Append(log, e)
<1>1. /\ new \in Seq(Entry) /\ Len(new) = Len(log) + 1 /\ Len(log) \in Nat
      /\ \A i \in 1..Len(log) : new[i] = log[i]
      /\ new[Len(log) + 1] = e
  BY AppendType
<1>. HIDE DEF new
<1>2. \A i \in 0..Len(log) : StateAt(new, i) = StateAt(log, i)
  BY <1>1 DEF StateAt
<1>. SUFFICES ASSUME NEW i \in 1..Len(new)
              PROVE  /\ new[i].st = NextMap(StateAt(new, i - 1), new[i].kind, new[i].key,
                                            new[i].val)
                     /\ new[i].kind \in {"put", "del"} => new[i].key \in Key
  BY DEF Chain, new
<1>3. i - 1 \in 0..Len(log) /\ StateAt(new, i - 1) = StateAt(log, i - 1)
  BY <1>1, <1>2
<1>4. CASE i <= Len(log)
  <2>1. i \in 1..Len(log) /\ new[i] = log[i]
    BY <1>1, <1>4
  <2>. QED
    BY <1>3, <2>1 DEF Chain
<1>5. CASE ~(i <= Len(log))
  <2>1. i = Len(log) + 1 /\ i - 1 = Len(log)
    BY <1>1, <1>5
  <2>. QED
    BY <1>1, <1>3, <2>1
<1>. QED
  BY <1>4, <1>5

\* So does a prefix of a log.
LEMMA ChainPrefix ==
    ASSUME NEW log \in Seq(Entry), Chain(log), NEW n \in Nat, n <= Len(log)
    PROVE  Chain(SubSeq(log, 1, n))
<1>. DEFINE old == SubSeq(log, 1, n)
<1>1. Len(old) = n /\ \A i \in 1..n : old[i] = log[i]
  BY PrefixType
<1>. HIDE DEF old
<1>. SUFFICES ASSUME NEW i \in 1..n
              PROVE  /\ old[i].st = NextMap(StateAt(old, i - 1), old[i].kind, old[i].key,
                                            old[i].val)
                     /\ old[i].kind \in {"put", "del"} => old[i].key \in Key
  BY <1>1 DEF Chain, old
<1>2. StateAt(old, i - 1) = StateAt(log, i - 1)
  BY <1>1 DEF StateAt
<1>3. i \in 1..Len(log) /\ old[i] = log[i]
  BY <1>1
<1>. QED
  BY <1>2, <1>3 DEF Chain

-----------------------------------------------------------------------------
(* What the engine covers *)

\* Logs that agree as far as the entries matter say the same of the engine.
LEMMA CoversPrefix ==
    ASSUME NEW log, NEW new, NEW m, NEW c \in Nat, \A i \in 1..c : new[i] = log[i],
           NEW r \in Nat, NEW f \in Nat, r <= c, f <= c, Covers(log, m, r, f)
    PROVE  Covers(new, m, r, f)
<1>1. Larger(r, f) \in 0..c
  BY DEF Larger
<1>2. StateAt(new, Larger(r, f)) = StateAt(log, Larger(r, f))
  BY <1>1 DEF StateAt
<1>3. \A i \in (r + 1)..f : new[i] = log[i]
  OBVIOUS
<1>. QED
  BY <1>2, <1>3 DEF Covers

\* The same of what a snapshot holds.
LEMMA HoldsPrefix ==
    ASSUME NEW log, NEW new, NEW m, NEW c \in Nat, \A i \in 1..c : new[i] = log[i],
           NEW f \in Nat, f <= c, Holds(log, m, f)
    PROVE  Holds(new, m, f)
<1>1. StateAt(new, f) = StateAt(log, f)
  BY DEF StateAt
<1>. QED
  BY <1>1 DEF Holds

\* The data of a snapshot covers its index.
LEMMA HoldsCovers ==
    ASSUME NEW log, NEW m, NEW r \in Nat, NEW f \in Nat, r <= f, Holds(log, m, f)
    PROVE  Covers(log, m, r, f)
<1>1. Larger(r, f) = f
  BY DEF Larger
<1>. QED
  BY <1>1 DEF Holds, Covers

\* An entry that writes nothing.
LEMMA CoversSkip ==
    ASSUME NEW log \in Seq(Entry), Chain(log), NEW m, NEW r \in Nat, NEW f \in Nat,
           r + 1 <= Len(log), Covers(log, m, r, f), log[r + 1].kind \notin {"put", "del"}
    PROVE  Covers(log, m, r + 1, f)
<1>. SUFFICES ASSUME NEW k \in Key
              PROVE  \/ StateAt(log, Larger(r + 1, f))[k] = Nil
                     \/ m[k] = StateAt(log, Larger(r + 1, f))[k]
                     \/ \E i \in ((r + 1) + 1)..f : log[i].kind \in {"put", "del"} /\ log[i].key = k
  BY DEF Covers
<1>1. StateAt(log, Larger(r + 1, f))[k] = StateAt(log, Larger(r, f))[k]
  <2>1. CASE r < f
    BY <2>1 DEF Larger
  <2>2. CASE ~(r < f)
    <3>1. Larger(r + 1, f) = r + 1 /\ Larger(r, f) = r /\ r + 1 \in 1..Len(log)
          /\ (r + 1) - 1 = r
      BY <2>2 DEF Larger
    <3>. QED
      BY <3>1, ChainStep
  <2>. QED
    BY <2>1, <2>2
<1>2. \/ StateAt(log, Larger(r, f))[k] = Nil
      \/ m[k] = StateAt(log, Larger(r, f))[k]
      \/ \E i \in (r + 1)..f : log[i].kind \in {"put", "del"} /\ log[i].key = k
  BY DEF Covers
<1>3. ASSUME NEW i \in (r + 1)..f, log[i].kind \in {"put", "del"}
      PROVE  i \in ((r + 1) + 1)..f
  <2>1. i # r + 1
    BY <1>3
  <2>. QED
    BY <2>1
<1>. QED
  BY <1>1, <1>2, <1>3

\* processRequest applies the next entry.
LEMMA CoversApply ==
    ASSUME NEW log \in Seq(Entry), Chain(log), NEW m \in Map, NEW r \in Nat, NEW f \in Nat,
           r + 1 <= Len(log), f <= Len(log), Covers(log, m, r, f),
           NEW e, e = log[r + 1], e.kind \in {"put", "del"}
    PROVE  Covers(log, NextMap(m, e.kind, e.key, e.val), r + 1, f)
<1>. DEFINE new == NextMap(m, e.kind, e.key, e.val)
<1>0. r + 1 \in 1..Len(log) /\ (r + 1) - 1 = r /\ Len(log) \in Nat /\ e.key \in Key
  BY DEF Chain
<1>a. m \in [Key -> Value \cup {Nil}]
  BY DEF Map
<1>b. \A k \in Key : k # e.key => new[k] = m[k]
  BY <1>0, <1>a DEF NextMap
<1>c. /\ e.kind = "put" => new[e.key] = e.val
      /\ e.kind = "del" => new[e.key] = Nil
  BY <1>0, <1>a DEF NextMap
<1>. HIDE DEF new
<1>. SUFFICES ASSUME NEW k \in Key,
                     \A i \in ((r + 1) + 1)..f : ~(log[i].kind \in {"put", "del"} /\ log[i].key = k)
              PROVE  \/ StateAt(log, Larger(r + 1, f))[k] = Nil
                     \/ new[k] = StateAt(log, Larger(r + 1, f))[k]
  BY DEF Covers, new
<1>1. Larger(r + 1, f) \in Nat /\ r + 1 <= Larger(r + 1, f) /\ Larger(r + 1, f) <= Len(log)
      /\ (f < r + 1 => Larger(r + 1, f) = r + 1) /\ (r + 1 <= f => Larger(r + 1, f) = f)
  BY <1>0 DEF Larger
<1>2. StateAt(log, Larger(r + 1, f))[k] = StateAt(log, r + 1)[k]
  <2>1. \A i \in ((r + 1) + 1)..Larger(r + 1, f) :
           ~(log[i].kind \in {"put", "del"} /\ log[i].key = k)
    BY <1>1
  <2>. QED
    BY <1>0, <1>1, <2>1, Unwritten
<1>3. CASE k = e.key
  BY <1>0, <1>2, <1>3, <1>c, ChainStep
<1>4. CASE k # e.key
  <2>1. StateAt(log, r + 1)[k] = StateAt(log, r)[k] /\ new[k] = m[k]
    BY <1>0, <1>4, <1>b, ChainStep
  <2>2. \A i \in (r + 1)..f : ~(log[i].kind \in {"put", "del"} /\ log[i].key = k)
    <3>. TAKE i \in (r + 1)..f
    <3>1. CASE i = r + 1
      BY <1>4, <3>1
    <3>2. CASE i # r + 1
      <4>1. i \in ((r + 1) + 1)..f
        BY <3>2
      <4>. QED
        BY <4>1
    <3>. QED
      BY <3>1, <3>2
  <2>3. \/ StateAt(log, Larger(r, f))[k] = Nil
        \/ m[k] = StateAt(log, Larger(r, f))[k]
    BY <2>2 DEF Covers
  <2>4. StateAt(log, Larger(r, f))[k] = StateAt(log, r)[k]
    <3>1. Larger(r, f) \in Nat /\ r <= Larger(r, f) /\ Larger(r, f) <= Len(log)
          /\ (f < r + 1 => Larger(r, f) = r) /\ (r + 1 <= f => Larger(r, f) = f)
      BY <1>0 DEF Larger
    <3>2. \A i \in (r + 1)..Larger(r, f) :
             ~(log[i].kind \in {"put", "del"} /\ log[i].key = k)
      BY <2>2, <3>1
    <3>. QED
      BY <3>1, <3>2, Unwritten
  <2>. QED
    BY <1>2, <2>1, <2>3, <2>4
<1>. QED
  BY <1>3, <1>4


-----------------------------------------------------------------------------
(* Every step preserves KvInv *)

USE DEF clusterVars, raftVars, memVars, tickVars, gcVars, diskVars, ghostVars,
        ClusterStep, RaftStep, TickStep

\* Only the environment touches the leader's log.
LEMMA LogQuiet ==
    ASSUME Next, ~Environment
    PROVE  UNCHANGED <<llog, ccommit>>
<1>1. CASE RaftRecv \/ Bootstrap \/ Restart \/ Crash
  BY <1>1 DEF RaftRecv, RecvTerm, RecvCommit, RecvAppend, RecvSnapshot,
     Bootstrap, Restart, RestartFrom, Crash
<1>2. CASE TakeReady \/ SaveReady \/ Send
  BY <1>2 DEF TakeReady, SaveReady, SnapApplyState, SnapConfState, SnapDone, SnapPut,
     AppendEntry, DeleteTail, SetLastTerm, SetLastIndex, SaveLocalState, Send
<1>3. CASE ProcessEntry \/ Advance \/ \E g \in gc : GcRun(g)
  BY <1>3 DEF ProcessEntry, ApplyIndex, ExecWrite, ExecNone, ExecCompact, Compact,
     Advance, GcRun
<1>. QED
  BY <1>1, <1>2, <1>3 DEF Next, OnTick

\* A leader's requests extend the chain.
LEMMA ChainNext ==
    ASSUME StorageInv, Chain(llog), Next
    PROVE  Chain(llog')
<1>0. /\ llog \in Seq(Entry) /\ Len(llog) \in Nat /\ lterm \in Nat /\ ccommit \in Nat
      /\ \A i \in 1..Len(llog) : llog[i] \in Entry
      /\ lterm \in Term /\ 0 \in Index /\ 0 \in Term /\ MaxTerm \in Nat /\ MaxIndex \in Nat
      /\ Nil \in Key \cup {Nil} /\ Nil \in Value \cup {Nil}
      /\ ccommit <= Len(llog)
  BY Bounds, Numbers, Logs DEF StorageInv, TypeOK, ClusterInv, Index, Term
<1>1. ASSUME NEW k \in Key, NEW v \in Value \cup {Nil}, NEW kind \in {"put", "del"},
             LeaderAppend(kind, k, v)
      PROVE  Chain(llog')
  <2>. DEFINE e == NewEntry(llog, lterm, kind, k, v, 0, 0)
  <2>1. NextMap(StateAt(llog, Len(llog)), kind, k, v) \in Map /\ kind \in Kinds
    BY <1>0, StateAtType, NextMapType DEF Kinds
  <2>2. /\ e \in Entry /\ e.kind = kind /\ e.key = k /\ e.val = v
        /\ e.st = NextMap(StateAt(llog, Len(llog)), kind, k, v)
    BY <1>0, <2>1 DEF NewEntry, Entry
  <2>3. llog' = Append(llog, e)
    BY <1>1 DEF LeaderAppend
  <2>. HIDE DEF e
  <2>. QED
    BY <1>0, <2>2, <2>3, ChainAppend
<1>2. ASSUME NEW ci \in 1..MaxIndex, LeaderCompact(ci)
      PROVE  Chain(llog')
  <2>. DEFINE e == NewEntry(llog, lterm, "compact", Nil, Nil, ci, llog[ci].term)
  <2>1. llog' = Append(llog, e) /\ ci < ccommit
    BY <1>2 DEF LeaderCompact
  <2>2. ci \in 1..Len(llog) /\ ci \in Index
    BY <1>0, <2>1 DEF Index
  <2>3. llog[ci].term \in Term
    BY <1>0, <2>2 DEF Entry
  <2>4. NextMap(StateAt(llog, Len(llog)), "compact", Nil, Nil) \in Map /\ "compact" \in Kinds
    BY <1>0, StateAtType, NextMapType DEF Kinds
  <2>5. /\ e \in Entry /\ e.kind = "compact" /\ e.key = Nil /\ e.val = Nil
        /\ e.st = NextMap(StateAt(llog, Len(llog)), "compact", Nil, Nil)
    BY <1>0, <2>2, <2>3, <2>4 DEF NewEntry, Entry
  <2>. HIDE DEF e
  <2>. QED
    BY <1>0, <2>1, <2>5, ChainAppend
<1>3. ASSUME NEW n \in 1..MaxIndex, LeaderCommit(n)
      PROVE  Chain(llog')
  BY <1>3 DEF LeaderCommit
<1>4. ASSUME NEW n \in Index, LeaderChange(n)
      PROVE  Chain(llog')
  <2>. DEFINE old == SubSeq(llog, 1, n)
              e == NewEntry(old, lterm + 1, "none", Nil, Nil, 0, 0)
  <2>1. n \in Nat /\ n <= Len(llog) /\ lterm < MaxTerm /\ llog' = Append(old, e)
    BY <1>0, <1>4 DEF LeaderChange, Index
  <2>2. old \in Seq(Entry) /\ Len(old) \in 0..Len(old) /\ Chain(old)
    <3>1. old \in Seq(Entry) /\ Len(old) = n
      BY <1>0, <2>1, PrefixType
    <3>2. Chain(old)
      BY <1>0, <2>1, ChainPrefix
    <3>. QED
      BY <2>1, <3>1, <3>2
  <2>. HIDE DEF old
  <2>3. lterm + 1 \in Term /\ "none" \in Kinds
    BY <1>0, <2>1 DEF Term, Kinds
  <2>4. NextMap(StateAt(old, Len(old)), "none", Nil, Nil) \in Map
    BY <1>0, <2>2, <2>3, StateAtType, NextMapType
  <2>5. /\ e \in Entry /\ e.kind = "none" /\ e.key = Nil /\ e.val = Nil
        /\ e.st = NextMap(StateAt(old, Len(old)), "none", Nil, Nil)
    BY <1>0, <2>3, <2>4 DEF NewEntry, Entry
  <2>. HIDE DEF e
  <2>. QED
    BY <2>1, <2>2, <2>5, ChainAppend
<1>5. CASE Environment
  <2>1. Nil \in Value \cup {Nil} /\ \A v \in Value : v \in Value \cup {Nil}
    OBVIOUS
  <2>. QED
    BY <1>1, <1>2, <1>3, <1>4, <1>5, <2>1 DEF Environment
<1>6. CASE ~Environment
  BY <1>6, LogQuiet
<1>. QED
  BY <1>5, <1>6

\* What ShipInv says of one snapshot.
Shipped(s, log, c) ==
    s.index > 0 => s.index <= s.upto /\ s.upto <= c /\ Holds(log, s.data, s.upto)

\* ShipInv is that of both snapshots.
LEMMA ShipParts == ShipInv <=> Shipped(rsnap, llog, ccommit) /\ Shipped(rd.snap, llog, ccommit)
BY DEF ShipInv, Shipped

\* SchedSnapGen scans the engine after the applied index is taken, and the
\* Ready takes the snapshot as it came.
LEMMA ShipNext ==
    ASSUME "snapgen" \notin Windows, StorageInv, ShipInv, Next
    PROVE  ShipInv'
<1>0. rsnap.upto \in Nat /\ rd.snap.upto \in Nat /\ ccommit \in Nat
  BY Bounds, Numbers DEF StorageInv, TypeOK, Snapshot, Ready, Index
<1>1. Shipped(rsnap, llog, ccommit) /\ Shipped(rd.snap, llog, ccommit)
  BY ShipParts
<1>2. Shipped(NoSnap, llog, ccommit) /\ NoReady.snap = NoSnap
  BY DEF Shipped, NoSnap, NoReady
<1>p. (ShipInv <=> Shipped(rsnap, llog, ccommit) /\ Shipped(rd.snap, llog, ccommit))'
  BY ShipParts, PTL
<1>3. CASE Environment
  <2>1. ClusterMoves /\ UNCHANGED <<rsnap, rd>>
    BY <1>3, EnvironmentMoves DEF StorageInv
  <2>2. /\ ccommit <= ccommit' /\ ccommit' \in Nat
        /\ \A i \in 1..ccommit : llog'[i] = llog[i]
    BY <2>1, Bounds DEF ClusterMoves, Index
  <2>3. ASSUME NEW s, s.upto \in Nat, Shipped(s, llog, ccommit)
        PROVE  Shipped(s, llog', ccommit')
    <3>. SUFFICES ASSUME s.index > 0
                  PROVE  s.index <= s.upto /\ s.upto <= ccommit' /\ Holds(llog', s.data, s.upto)
      BY DEF Shipped
    <3>1. s.index <= s.upto /\ s.upto <= ccommit /\ Holds(llog, s.data, s.upto)
      BY <2>3 DEF Shipped
    <3>2. Holds(llog', s.data, s.upto)
      BY <1>0, <2>2, <2>3, <3>1, HoldsPrefix
    <3>. QED
      BY <1>0, <2>2, <2>3, <3>1, <3>2
  <2>. QED
    BY <1>0, <1>1, <1>p, <2>1, <2>3
<1>4. ASSUME NEW n \in 1..MaxIndex, NEW m \in Index, NEW d \in Map, NEW ci \in 1..MaxIndex,
             RecvSnapshot(n, m, d, ci)
      PROVE  ShipInv'
  <2>1. /\ m >= n /\ m <= ccommit /\ ShippedMap(m, d) /\ UNCHANGED <<llog, ccommit, rd>>
        /\ rsnap' = [index |-> n, term |-> llog[n].term, data |-> d, upto |-> m]
    BY <1>4 DEF RecvSnapshot
  <2>2. Holds(llog, d, m)
    BY <2>1 DEF ShippedMap, Holds
  <2>3. rsnap'.index = n /\ rsnap'.upto = m /\ rsnap'.data = d
    BY <2>1
  <2>4. Shipped(rsnap', llog, ccommit)
    BY <2>1, <2>2, <2>3, Bounds DEF Shipped, Index
  <2>. QED
    BY <1>1, <1>p, <2>1, <2>4
<1>5. CASE UNCHANGED <<rsnap, rd, llog, ccommit>>
  BY <1>1, <1>5, <1>p
<1>6. CASE RecvTerm \/ (\E c \in 1..MaxIndex : RecvCommit(c))
           \/ (\E n \in 1..MaxIndex, c \in Index, ci \in 1..MaxIndex : RecvAppend(n, c, ci))
  BY <1>5, <1>6 DEF RecvTerm, RecvCommit, RecvAppend
<1>7. CASE Bootstrap \/ Restart
  BY <1>5, <1>7 DEF Bootstrap, Restart, RestartFrom
<1>8. CASE Crash
  <2>1. rsnap' = NoSnap /\ rd' = NoReady /\ UNCHANGED <<llog, ccommit>>
    BY <1>8 DEF Crash
  <2>. QED
    BY <1>2, <1>p, <2>1
<1>9. CASE TakeReady
  <2>1. rd'.snap = rsnap /\ UNCHANGED <<rsnap, llog, ccommit>>
    BY <1>9 DEF TakeReady
  <2>. QED
    BY <1>1, <1>p, <2>1
<1>10. CASE Advance
  <2>1. rsnap' \in {NoSnap, rsnap} /\ rd' = NoReady /\ UNCHANGED <<llog, ccommit>>
    BY <1>10 DEF Advance
  <2>. QED
    BY <1>1, <1>2, <1>p, <2>1
<1>11. CASE SaveReady \/ Send
  BY <1>5, <1>11 DEF SaveReady, SnapApplyState, SnapConfState, SnapDone, SnapPut,
     AppendEntry, DeleteTail, SetLastTerm, SetLastIndex, SaveLocalState, Send
<1>12. CASE ProcessEntry \/ \E g \in gc : GcRun(g)
  BY <1>5, <1>12 DEF ProcessEntry, ApplyIndex, ExecWrite, ExecNone, ExecCompact, Compact,
     GcRun
<1>. QED
  BY <1>3, <1>4, <1>6, <1>7, <1>8, <1>9, <1>10, <1>11, <1>12 DEF Next, OnTick, RaftRecv


\* applySnapshot starts with all the pairs to put, and puts each as it is.
LEMMA PutNext ==
    ASSUME StorageInv, PutInv, Next
    PROVE  PutInv'
<1>1. CASE UNCHANGED <<pc, todo, kv, rd>>
  BY <1>1 DEF PutInv, Pairs
<1>2. CASE pc' # "snapData"
  BY <1>2 DEF PutInv
<1>3. CASE Environment
  BY <1>1, <1>3, EnvironmentMoves DEF StorageInv
<1>4. CASE RaftRecv \/ Bootstrap \/ Restart
  BY <1>1, <1>4 DEF RaftRecv, RecvTerm, RecvCommit, RecvAppend, RecvSnapshot,
     Bootstrap, Restart, RestartFrom
<1>5. CASE Crash \/ TakeReady \/ SnapDone
  BY <1>2, <1>5 DEF Crash, TakeReady, SnapDone, StartAppend
<1>6. CASE SnapApplyState \/ AppendEntry \/ DeleteTail \/ SetLastTerm \/ SetLastIndex
           \/ SaveLocalState \/ Send
  BY <1>2, <1>6 DEF SnapApplyState, AppendEntry, DeleteTail, SetLastTerm, SetLastIndex,
     SaveLocalState, Send
<1>7. CASE ProcessEntry \/ Advance
  BY <1>2, <1>7 DEF ProcessEntry, ApplyIndex, ExecWrite, ExecNone, ExecCompact, Compact,
     Advance
<1>8. CASE \E g \in gc : GcRun(g)
  BY <1>1, <1>8 DEF GcRun
<1>9. CASE SnapConfState
  <2>1. todo' = Pairs /\ rd' = rd
    BY <1>9 DEF SnapConfState
  <2>. QED
    BY <2>1 DEF PutInv, Pairs
<1>10. ASSUME NEW k \in Key, SnapPut(k)
       PROVE  PutInv'
  <2>1. /\ pc = "snapData" /\ rd' = rd /\ todo' = todo \ {k}
        /\ kv' = [kv EXCEPT ![k] = rd.snap.data[k]]
    BY <1>10 DEF SnapPut
  <2>2. kv \in [Key -> Value \cup {Nil}]
    BY DEF StorageInv, TypeOK, Map
  <2>3. \A q \in Pairs \ todo : kv[q] = rd.snap.data[q]
    BY <2>1 DEF PutInv
  <2>4. \A q \in Pairs \ todo' : kv'[q] = rd.snap.data[q]
    BY <2>1, <2>2, <2>3 DEF Pairs
  <2>5. Pairs' = Pairs
    BY <2>1 DEF Pairs
  <2>. QED
    BY <2>1, <2>4, <2>5 DEF PutInv
<1>. QED
  BY <1>3, <1>4, <1>5, <1>6, <1>7, <1>8, <1>9, <1>10 DEF Next, OnTick, SaveReady

\* EngineInv from its parts, after a step that leaves the leader's log alone.
LEMMA EngineIntro ==
    ASSUME NEW r, UNCHANGED <<llog, ccommit>>, fuzz' <= ccommit,
           pc' = "exec" => dapply'.index > 0,
           Reached' = r,
           Covers(llog, kv', r, fuzz')
    PROVE  EngineInv'
<1>1. Covers(llog, kv, Reached, fuzz)'
  OBVIOUS
<1>. QED
  BY <1>1 DEF EngineInv

\* A step that leaves the engine and the applied index alone, outside of process.
LEMMA EngineQuiet ==
    ASSUME StorageInv, EngineInv, UNCHANGED <<llog, ccommit, dapply, kv, fuzz>>,
           pc \notin {"snapConf", "snapData"},
           pc' = pc \/ (pc # "exec" /\ pc' # "exec")
    PROVE  EngineInv'
<1>1. /\ fuzz <= ccommit /\ (pc = "exec" => dapply.index > 0)
      /\ Covers(llog, kv, Reached, fuzz)
  BY DEF EngineInv
<1>2. Reached' = Reached
  BY DEF Reached
<1>3. PICK r : r = Reached
  OBVIOUS
<1>. QED
  BY <1>1, <1>2, <1>3, EngineIntro

\* process: the applied index first, then the entry.
LEMMA EngineProcess ==
    ASSUME StorageInv, Chain(llog), EngineInv, ProcessEntry
    PROVE  EngineInv'
<1>0. /\ llog \in Seq(Entry) /\ Len(llog) \in Nat /\ fuzz \in Nat /\ ccommit \in Nat
      /\ dapply.index \in Nat /\ cur \in Nat /\ kv \in Map
  BY Numbers, Logs DEF StorageInv, TypeOK
<1>1. /\ fuzz <= ccommit /\ ccommit <= Len(llog)
  BY DEF EngineInv, StorageInv, ClusterInv
<1>2. CASE ApplyIndex
  <2>1. /\ up /\ pc = "apply" /\ pc' = "exec" /\ dapply' = [apply EXCEPT !.index = cur]
        /\ UNCHANGED <<llog, ccommit, kv, fuzz>>
    BY <1>2 DEF ApplyIndex
  <2>2. apply = dapply /\ cur = apply.index + 1 /\ apply \in ApplyState
    BY <2>1, MemElim DEF ApplyMem, AppliedMem, StorageInv, TypeOK
  <2>3. dapply'.index = cur /\ cur = dapply.index + 1
    BY <2>1, <2>2 DEF ApplyState
  <2>4. Reached = dapply.index /\ Reached' = dapply.index /\ dapply'.index > 0
    BY <1>0, <2>1, <2>3 DEF Reached
  <2>5. Covers(llog, kv, dapply.index, fuzz)
    BY <2>1, <2>4 DEF EngineInv
  <2>6. PICK r : r = dapply.index
    OBVIOUS
  <2>. QED
    BY <1>1, <2>1, <2>4, <2>5, <2>6, EngineIntro
<1>3. CASE ExecWrite \/ ExecNone \/ ExecCompact
  <2>1. /\ up /\ pc = "exec" /\ pc' \in {"apply", "compact"}
        /\ UNCHANGED <<llog, ccommit, dapply, fuzz>>
    BY <1>3 DEF ExecWrite, ExecNone, ExecCompact
  <2>2. cur = apply.index /\ cur \in 1..rd.commit /\ cur <= ccommit /\ Current = llog[cur]
    BY <2>1, CurrentEntry
  <2>3. cur = dapply.index
    BY <2>1, <2>2, MemElim DEF ApplyMem
  <2>4. PICK r \in Nat : r + 1 = cur /\ r = dapply.index - 1
    BY <1>0, <2>2, <2>3
  <2>5. Reached = r /\ Reached' = r + 1 /\ pc' # "exec"
    BY <2>1, <2>3, <2>4 DEF Reached
  <2>6. Covers(llog, kv, r, fuzz)
    BY <2>1, <2>5 DEF EngineInv
  <2>7. r + 1 <= Len(llog) /\ fuzz <= Len(llog) /\ Current = llog[r + 1]
    BY <1>0, <1>1, <2>2, <2>4
  <2>8. Covers(llog, kv', r + 1, fuzz)
    <3>1. CASE ExecWrite
      <4>1. PICK e : e = llog[r + 1]
        OBVIOUS
      <4>2. e.kind \in {"put", "del"} /\ kv' = NextMap(kv, e.kind, e.key, e.val)
        BY <2>7, <3>1, <4>1 DEF ExecWrite
      <4>3. Covers(llog, NextMap(kv, e.kind, e.key, e.val), r + 1, fuzz)
        BY <1>0, <2>6, <2>7, <4>1, <4>2, CoversApply
      <4>. QED
        BY <4>2, <4>3
    <3>2. CASE ExecNone \/ ExecCompact
      <4>1. Current.kind \notin {"put", "del"} /\ kv' = kv
        BY <3>2 DEF ExecNone, ExecCompact
      <4>. QED
        BY <1>0, <2>6, <2>7, <4>1, CoversSkip
    <3>. QED
      BY <1>3, <3>1, <3>2
  <2>. QED
    BY <1>1, <2>1, <2>5, <2>8, EngineIntro
<1>4. CASE Compact
  <2>1. /\ up /\ pc = "compact" /\ pc' = "apply" /\ UNCHANGED <<llog, ccommit, kv, fuzz>>
        /\ dapply' = [apply EXCEPT !.truncTerm = Current.cterm]
    BY <1>4 DEF Compact
  <2>2. dapply.index = apply.index /\ apply \in ApplyState
    BY <2>1, MemElim DEF ApplyMem, StorageInv, TypeOK
  <2>3. dapply'.index = dapply.index
    BY <2>1, <2>2 DEF ApplyState
  <2>4. Reached = dapply.index /\ Reached' = dapply.index
    BY <2>1, <2>3 DEF Reached
  <2>5. Covers(llog, kv, dapply.index, fuzz)
    BY <2>1, <2>4 DEF EngineInv
  <2>6. PICK r : r = dapply.index
    OBVIOUS
  <2>. QED
    BY <1>1, <2>1, <2>4, <2>5, <2>6, EngineIntro
<1>. QED
  BY <1>2, <1>3, <1>4 DEF ProcessEntry

\* applySnapshot: once every pair is put, the engine covers the snapshot.
LEMMA EngineSnapshot ==
    ASSUME StorageInv, ShipInv, PutInv, EngineInv, SnapDone
    PROVE  EngineInv'
<1>1. /\ up /\ pc = "snapData" /\ todo = {} /\ fuzz' = rd.snap.upto
      /\ pc' \in {"append", "save"}
      /\ UNCHANGED <<llog, ccommit, dapply, kv>>
  BY DEF SnapDone, StartAppend
<1>2. /\ rd.snap.index > 0 /\ apply.index = rd.from - 1 /\ apply = dapply
      /\ rd.from = Larger(rapplied, rd.snap.index) + 1
      /\ rapplied < rd.snap.index
  BY <1>1, MemElim DEF AppliedMem, ApplyMem, StorageInv, ReadyInv, Active, ReadyBounds
<1>3. /\ rd.snap.upto \in Nat /\ rd.snap.index \in Nat /\ rapplied \in Nat /\ ccommit \in Nat
  BY Bounds, Numbers DEF StorageInv, TypeOK, Ready, Snapshot, Index
<1>4. dapply.index = rd.snap.index
  BY <1>2, <1>3 DEF Larger
<1>5. /\ rd.snap.index <= rd.snap.upto /\ rd.snap.upto <= ccommit
      /\ Holds(llog, rd.snap.data, rd.snap.upto)
  BY <1>2 DEF ShipInv
<1>6. \A k \in Key : rd.snap.data[k] # Nil => kv[k] = rd.snap.data[k]
  BY <1>1 DEF PutInv, Pairs
<1>7. Holds(llog, kv, rd.snap.upto)
  BY <1>5, <1>6 DEF Holds
<1>8. Covers(llog, kv, rd.snap.index, rd.snap.upto)
  BY <1>3, <1>5, <1>7, HoldsCovers
<1>9. Reached' = rd.snap.index /\ pc' # "exec"
  BY <1>1, <1>4 DEF Reached
<1>10. PICK r : r = rd.snap.index
  OBVIOUS
<1>. QED
  BY <1>1, <1>5, <1>8, <1>9, <1>10, EngineIntro

\* A crash outside the windows: an entry whose index is written and which is not
\* applied writes nothing.
LEMMA EngineCrash ==
    ASSUME "snapshot" \notin Windows, "apply" \notin Windows,
           StorageInv, Chain(llog), EngineInv, Crash
    PROVE  EngineInv'
<1>1. /\ up /\ ~InSnapshotWindow /\ ~InApplyWindow /\ pc' = "idle"
      /\ UNCHANGED <<llog, ccommit, dapply, kv, fuzz>>
  BY DEF Crash
<1>2. pc \notin {"snapConf", "snapData"}
  BY <1>1, MemElim DEF AppliedMem, InSnapshotWindow
<1>3. CASE pc # "exec"
  BY <1>1, <1>2, <1>3, EngineQuiet
<1>4. CASE pc = "exec"
  <2>1. cur = apply.index /\ cur \in 1..rd.commit /\ cur <= ccommit /\ Current = llog[cur]
    BY <1>1, <1>4, CurrentEntry
  <2>2. cur = dapply.index
    BY <1>1, <1>4, <2>1, MemElim DEF ApplyMem
  <2>3. /\ llog \in Seq(Entry) /\ Len(llog) \in Nat /\ fuzz \in Nat /\ ccommit \in Nat
        /\ cur \in Nat /\ rd.commit \in Nat
    BY Numbers, Logs DEF StorageInv
  <2>4. PICK r \in Nat : r + 1 = cur /\ r = dapply.index - 1
    BY <2>1, <2>2, <2>3
  <2>5. Reached = r /\ Reached' = r + 1
    BY <1>1, <1>4, <2>2, <2>4 DEF Reached
  <2>6. Covers(llog, kv, r, fuzz) /\ fuzz <= ccommit
    BY <1>4, <2>5 DEF EngineInv
  <2>7. r + 1 <= Len(llog) /\ llog[r + 1].kind \notin {"put", "del"}
    BY <1>1, <1>4, <2>1, <2>3, <2>4 DEF InApplyWindow, StorageInv, ClusterInv
  <2>8. Covers(llog, kv, r + 1, fuzz)
    BY <2>3, <2>6, <2>7, CoversSkip
  <2>. QED
    BY <1>1, <2>5, <2>6, <2>8, EngineIntro
<1>. QED
  BY <1>3, <1>4

\* A step of the cluster leaves the committed entries as they are.
LEMMA EngineEnvironment ==
    ASSUME StorageInv, EngineInv, Environment
    PROVE  EngineInv'
<1>1. ClusterMoves /\ UNCHANGED <<pc, dapply, kv, fuzz>>
  BY EnvironmentMoves DEF StorageInv
<1>2. /\ ccommit <= ccommit' /\ ccommit' \in Nat /\ ccommit \in Nat
      /\ \A i \in 1..ccommit : llog'[i] = llog[i]
  BY <1>1, Bounds, Numbers DEF ClusterMoves, Index, StorageInv
<1>3. fuzz \in Nat /\ dapply.index \in Nat /\ dapply.index <= ccommit
  BY Numbers DEF StorageInv, DiskInv, DiskStates
<1>4. fuzz <= ccommit /\ (pc = "exec" => dapply.index > 0)
  BY DEF EngineInv
<1>5. Reached \in Nat /\ Reached <= ccommit /\ Reached' = Reached
  BY <1>1, <1>2, <1>3, <1>4 DEF Reached
<1>6. PICK r \in Nat : r = Reached
  BY <1>5
<1>7. ASSUME pc \notin {"snapConf", "snapData"}
      PROVE  Covers(llog', kv, r, fuzz)
  <2>1. Covers(llog, kv, r, fuzz)
    BY <1>6, <1>7 DEF EngineInv
  <2>. QED
    BY <1>2, <1>3, <1>4, <1>5, <1>6, <2>1, CoversPrefix
<1>8. pc' \notin {"snapConf", "snapData"} => Covers(llog', kv', Reached', fuzz')
  BY <1>1, <1>5, <1>6, <1>7
<1>9. fuzz' <= ccommit' /\ (pc' = "exec" => dapply'.index > 0)
  BY <1>1, <1>2, <1>3, <1>4
<1>. QED
  BY <1>8, <1>9 DEF EngineInv

\* Every step keeps EngineInv.
LEMMA EngineNext ==
    ASSUME "snapshot" \notin Windows, "apply" \notin Windows,
           StorageInv, KvInv, Next
    PROVE  EngineInv'
<1>0. Chain(llog) /\ ShipInv /\ PutInv /\ EngineInv
  BY DEF KvInv
<1>1. CASE Environment
  BY <1>0, <1>1, EngineEnvironment
<1>2. CASE UNCHANGED <<pc, llog, ccommit, dapply, kv, fuzz>>
  BY <1>0, <1>2 DEF EngineInv, Reached
<1>3. CASE RaftRecv \/ Bootstrap \/ Restart
  BY <1>2, <1>3 DEF RaftRecv, RecvTerm, RecvCommit, RecvAppend, RecvSnapshot,
     Bootstrap, Restart, RestartFrom
<1>4. CASE Crash
  BY <1>0, <1>4, EngineCrash
<1>5. CASE TakeReady \/ AppendEntry \/ DeleteTail \/ SetLastTerm \/ SetLastIndex
           \/ SaveLocalState \/ Send
  <2>1. /\ UNCHANGED <<llog, ccommit, dapply, kv, fuzz>>
        /\ pc \notin {"snapConf", "snapData", "exec"}
        /\ pc' # "exec"
    BY <1>5 DEF TakeReady, StartAppend, AppendEntry, DeleteTail, SetLastTerm, SetLastIndex,
       SaveLocalState, Send
  <2>. QED
    BY <1>0, <2>1, EngineQuiet
<1>6. CASE Advance
  <2>1. /\ UNCHANGED <<llog, ccommit, dapply, kv, fuzz>> /\ pc = "apply" /\ pc' = "idle"
    BY <1>6 DEF Advance
  <2>. QED
    BY <1>0, <2>1, EngineQuiet
<1>7. CASE SnapApplyState \/ SnapConfState \/ \E k \in Key : SnapPut(k)
  <2>1. pc' \in {"snapConf", "snapData"} /\ UNCHANGED <<ccommit, fuzz>>
    BY <1>7 DEF SnapApplyState, SnapConfState, SnapPut
  <2>. QED
    BY <1>0, <2>1 DEF EngineInv
<1>8. CASE SnapDone
  BY <1>0, <1>8, EngineSnapshot
<1>9. CASE ProcessEntry
  BY <1>0, <1>9, EngineProcess
<1>10. CASE \E g \in gc : GcRun(g)
  BY <1>2, <1>10 DEF GcRun
<1>. QED
  BY <1>1, <1>3, <1>4, <1>5, <1>6, <1>7, <1>8, <1>9, <1>10 DEF Next, OnTick, SaveReady

-----------------------------------------------------------------------------
(* Theorems *)

\* KvInv holds of an empty engine and a log that is being bootstrapped.
LEMMA KvInit ==
    ASSUME Init
    PROVE  KvInv
<1>1. llog = [i \in 1..Boot |-> [Hole EXCEPT !.term = 1]] /\ Boot \in Nat /\ ccommit = Boot
  BY Bounds DEF Init
<1>2. Len(llog) = Boot
  BY <1>1
<1>3. \A i \in 1..Boot : llog[i].st = EmptyMap /\ llog[i].kind = "none"
  BY <1>1 DEF Hole
<1>4. \A i \in 0..Boot : StateAt(llog, i) = EmptyMap
  <2>1. \A i \in 0..Boot : i = 0 \/ i \in 1..Boot
    BY <1>1
  <2>. QED
    BY <1>3, <2>1 DEF StateAt
<1>5. Chain(llog)
  <2>. SUFFICES ASSUME NEW i \in 1..Boot
                PROVE  /\ llog[i].st = NextMap(StateAt(llog, i - 1), llog[i].kind,
                                               llog[i].key, llog[i].val)
                       /\ llog[i].kind \in {"put", "del"} => llog[i].key \in Key
    BY <1>2 DEF Chain
  <2>1. i - 1 \in 0..Boot
    BY <1>1
  <2>. QED
    BY <1>3, <1>4, <2>1 DEF NextMap
<1>6. ShipInv /\ PutInv
  BY DEF Init, ShipInv, PutInv, NoSnap, NoReady
<1>7. fuzz = 0 /\ pc = "idle" /\ dapply.index = 0
  BY DEF Init, ZeroApply
<1>8. EngineInv
  <2>1. Reached = 0 /\ Larger(0, 0) = 0
    BY <1>7 DEF Reached, Larger
  <2>2. StateAt(llog, 0) = EmptyMap
    BY DEF StateAt
  <2>3. Covers(llog, kv, 0, 0)
    BY <2>1, <2>2 DEF Covers, EmptyMap
  <2>. QED
    BY <1>1, <1>7, <2>1, <2>3 DEF EngineInv
<1>. QED
  BY <1>5, <1>6, <1>8 DEF KvInv

\* The key-value engine keeps up with the applied index: the invariant of both.
THEOREM EngineSafe ==
    ASSUME "snapshot" \notin Windows, "truncate" \notin Windows,
           "apply" \notin Windows, "snapgen" \notin Windows
    PROVE  Spec => []KvInv
<1>1. Init => KvInv
  BY KvInit
<1>2. StorageInv /\ KvInv /\ Next => KvInv'
  <2>. SUFFICES ASSUME StorageInv, KvInv, Next PROVE KvInv'
    OBVIOUS
  <2>1. Chain(llog')
    BY ChainNext DEF KvInv
  <2>2. ShipInv' /\ PutInv' /\ EngineInv'
    BY ShipNext, PutNext, EngineNext DEF KvInv
  <2>. QED
    BY <2>1, <2>2 DEF KvInv
<1>3. KvInv /\ UNCHANGED vars => KvInv'
  BY DEF vars, KvInv, ShipInv, PutInv, Pairs, EngineInv, Reached
<1>. QED
  BY <1>1, <1>2, <1>3, StorageSafe, PTL DEF Spec

\* A put is never lost.  Whatever the order of crashes, snapshots and compactions,
\* once process or applySnapshot is through, every key that is live after the
\* applied prefix of the log has its value in the engine, also when the snapshot
\* was newer than its index, and carried keys that were deleted.
THEOREM PutsKept ==
    ASSUME "snapshot" \notin Windows, "truncate" \notin Windows,
           "apply" \notin Windows, "snapgen" \notin Windows
    PROVE  Spec => []NoLostPut
<1>1. StorageInv /\ KvInv => NoLostPut
  <2>. SUFFICES ASSUME StorageInv, KvInv, Settled, dapply.index >= fuzz, NEW k \in Key,
                       StateAt(llog, dapply.index)[k] # Nil
                PROVE  kv[k] = StateAt(llog, dapply.index)[k]
    BY DEF NoLostPut
  <2>1. dapply.index \in Nat /\ fuzz \in Nat
    BY Numbers DEF StorageInv
  <2>2. Reached = dapply.index /\ Larger(dapply.index, fuzz) = dapply.index
    BY <2>1 DEF Reached, Settled, Larger
  <2>3. Covers(llog, kv, dapply.index, fuzz)
    BY <2>2 DEF KvInv, EngineInv, Settled
  <2>4. ~\E i \in (dapply.index + 1)..fuzz : TRUE
    BY <2>1
  <2>. QED
    BY <2>2, <2>3, <2>4 DEF Covers
<1>. QED
  BY <1>1, StorageSafe, EngineSafe, PTL
=============================================================================
