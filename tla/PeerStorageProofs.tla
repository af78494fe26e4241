-------------------------- MODULE PeerStorageProofs --------------------------
(***************************************************************************)
(* Proofs about PeerStorage: the invariant of PeerStorageInv is inductive, *)
(* and what follows from it.  One section per conjunct of StorageInv, with *)
(* one lemma XNext (every step preserves the conjunct X) at its end; the   *)
(* theorems are in the last section.                                       *)
(***************************************************************************)
EXTENDS PeerStorageInv, TLAPS, SequenceTheorems

\* An element of a sequence over S is in S.
LEMMA ElementType ==
    ASSUME NEW S, NEW s \in Seq(S), NEW i \in 1..Len(s)
    PROVE  s[i] \in S
OBVIOUS

\* The numeric fields of an entry are naturals, its ghost state a map.
LEMMA EntryType ==
    ASSUME NEW e \in Entry
    PROVE  /\ e.term \in Nat
           /\ e.cidx \in Nat
           /\ e.cterm \in Nat
           /\ e.st \in Map
BY ConstantsAssumption DEF Entry, Term, Index

\* What SubSeq(s, 1, n), the truncation of a log, returns.
LEMMA PrefixType ==
    ASSUME NEW S, NEW s \in Seq(S), NEW n \in Nat, n <= Len(s)
    PROVE  /\ SubSeq(s, 1, n) \in Seq(S)
           /\ Len(SubSeq(s, 1, n)) = n
           /\ \A i \in 1..n : SubSeq(s, 1, n)[i] = s[i]
<1>1. \A i \in 1..n : s[i] \in S
  OBVIOUS
<1>. QED
  BY <1>1, SubSeqProperties

\* What Append, the leader adding an entry, returns.
LEMMA AppendType ==
    ASSUME NEW S, NEW s \in Seq(S), NEW e \in S
    PROVE  /\ Append(s, e) \in Seq(S)
           /\ Len(Append(s, e)) = Len(s) + 1
           /\ \A i \in 1..Len(s) : Append(s, e)[i] = s[i]
           /\ Append(s, e)[Len(s) + 1] = e
BY AppendProperties

\* A log that matches the leader's still does when the leader appends an
\* entry of its own term.
LEMMA FollowsAppend ==
    ASSUME NEW log \in Seq(Entry), NEW lead \in Seq(Entry), NEW t \in Nat,
           NEW e \in Entry, e.term = t,
           Follows(log, lead, t)
    PROVE  Follows(log, Append(lead, e), t)
<1>. DEFINE new == Append(lead, e)
<1>1. /\ Len(new) = Len(lead) + 1
      /\ \A i \in 1..Len(lead) : new[i] = lead[i]
      /\ new[Len(lead) + 1] = e
  BY AppendType
<1>. HIDE DEF new
<1>. SUFFICES ASSUME NEW i \in 1..Len(log)
              PROVE  /\ 1 <= log[i].term
                     /\ log[i].term <= t
                     /\ log[i].term = t => i <= Len(new)
                     /\ i <= Len(new) /\ log[i].term = new[i].term =>
                          \A j \in 1..i : log[j] = new[j]
  BY DEF Follows, new
<1>. QED
  BY <1>1 DEF Follows

\* A log that matches the old leader's matches that of a new leader, which
\* starts from a prefix of the old one and an entry of the new term.
LEMMA FollowsChange ==
    ASSUME NEW log \in Seq(Entry), NEW lead \in Seq(Entry), NEW t \in Nat,
           NEW n \in Nat, n <= Len(lead),
           NEW e \in Entry, e.term = t + 1,
           Follows(log, lead, t)
    PROVE  Follows(log, Append(SubSeq(lead, 1, n), e), t + 1)
<1>. DEFINE old == SubSeq(lead, 1, n)
            new == Append(old, e)
<1>1. /\ old \in Seq(Entry)
      /\ Len(old) = n
      /\ \A i \in 1..n : old[i] = lead[i]
  BY PrefixType
<1>. HIDE DEF old
<1>2. /\ Len(new) = n + 1
      /\ \A i \in 1..n : new[i] = lead[i]
      /\ new[n + 1] = e
  BY <1>1, AppendType
<1>. HIDE DEF new
<1>. SUFFICES ASSUME NEW i \in 1..Len(log)
              PROVE  /\ 1 <= log[i].term
                     /\ log[i].term <= t + 1
                     /\ log[i].term = t + 1 => i <= Len(new)
                     /\ i <= Len(new) /\ log[i].term = new[i].term =>
                          \A j \in 1..i : log[j] = new[j]
  BY DEF Follows, new, old
<1>3. log[i].term \in Nat /\ Len(lead) \in Nat
  BY ElementType, EntryType
<1>4. /\ 1 <= log[i].term /\ log[i].term <= t
      /\ i <= Len(lead) /\ log[i].term = lead[i].term => \A j \in 1..i : log[j] = lead[j]
  BY DEF Follows
<1>5. ASSUME i <= Len(new), log[i].term = new[i].term
      PROVE  \A j \in 1..i : log[j] = new[j]
  <2>1. i # n + 1
    BY <1>2, <1>3, <1>4, <1>5
  <2>2. i <= n
    BY <1>2, <1>5, <2>1
  <2>3. \A j \in 1..i : log[j] = lead[j]
    BY <1>2, <1>3, <1>4, <1>5, <2>2
  <2>. QED
    BY <1>2, <2>2, <2>3
<1>. QED
  BY <1>3, <1>4, <1>5

\* A prefix of the leader's log, what a MsgApp or a MsgSnap leaves this
\* replica with, matches the leader's log.
LEMMA FollowsPrefix ==
    ASSUME NEW lead \in Seq(Entry), NEW t \in Nat, NEW n \in Nat, n <= Len(lead),
           \A i \in 1..Len(lead) : 1 <= lead[i].term /\ lead[i].term <= t
    PROVE  Follows(SubSeq(lead, 1, n), lead, t)
BY PrefixType DEF Follows

\* A log that matches the leader's agrees with each prefix of the leader's.
LEMMA AgreePrefix ==
    ASSUME NEW log \in Seq(Entry), NEW lead \in Seq(Entry), NEW t \in Nat,
           NEW n \in Nat, n <= Len(lead),
           Follows(log, lead, t)
    PROVE  Agree(log, SubSeq(lead, 1, n))
<1>. DEFINE old == SubSeq(lead, 1, n)
<1>1. /\ Len(old) = n
      /\ \A i \in 1..n : old[i] = lead[i]
  BY PrefixType
<1>. HIDE DEF old
<1>. QED
  BY <1>1 DEF Follows, Agree, old

-----------------------------------------------------------------------------
(* Numbers *)

\* The numeric facts of the assumption on the constants.
LEMMA Bounds == MaxIndex \in Nat /\ MaxTerm \in Nat /\ MaxCrash \in Nat /\ Boot \in Nat
                /\ Boot <= MaxIndex /\ 1 <= MaxTerm
BY ConstantsAssumption

\* TypeOK, as far as arithmetic needs it: all indexes and terms are naturals.
LEMMA Numbers ==
    ASSUME TypeOK
    PROVE  /\ lterm \in Nat /\ ccommit \in Nat
           /\ stable \in Nat /\ rcommit \in Nat /\ rapplied \in Nat
           /\ rterm \in Nat /\ rsnap.index \in Nat /\ rsnap.term \in Nat
           /\ local.lastIndex \in Nat /\ local.lastTerm \in Nat
           /\ local.term \in Nat /\ local.commit \in Nat
           /\ apply.index \in Nat /\ apply.truncIndex \in Nat
           /\ apply.truncTerm \in Nat
           /\ cur \in Nat
           /\ rd.lo \in Nat /\ rd.commit \in Nat /\ rd.term \in Nat
           /\ rd.from \in Nat /\ 1 <= rd.from
           /\ rd.snap.index \in Nat /\ rd.snap.term \in Nat
           /\ lastCompacted \in Nat
           /\ dlocal.lastIndex \in Nat /\ dlocal.lastTerm \in Nat
           /\ dlocal.term \in Nat /\ dlocal.commit \in Nat
           /\ dapply.index \in Nat /\ dapply.truncIndex \in Nat
           /\ dapply.truncTerm \in Nat
           /\ released \in Nat /\ relTerm \in Nat /\ ack \in Nat /\ fuzz \in Nat
<1>1. \A i \in Index : i \in Nat
  BY Bounds DEF Index
<1>2. \A t \in Term : t \in Nat
  BY Bounds DEF Term
<1>3. /\ lterm \in Nat /\ ccommit \in Nat
      /\ stable \in Nat /\ rcommit \in Nat /\ rapplied \in Nat
      /\ rterm \in Nat /\ lastCompacted \in Nat
      /\ released \in Nat /\ relTerm \in Nat /\ ack \in Nat /\ fuzz \in Nat
  BY <1>1, <1>2 DEF TypeOK
<1>4. rsnap.index \in Nat /\ rsnap.term \in Nat
  BY <1>1, <1>2 DEF TypeOK, Snapshot
<1>5. /\ local.lastIndex \in Nat /\ local.lastTerm \in Nat
      /\ local.term \in Nat /\ local.commit \in Nat
      /\ dlocal.lastIndex \in Nat /\ dlocal.lastTerm \in Nat
      /\ dlocal.term \in Nat /\ dlocal.commit \in Nat
  BY <1>1, <1>2 DEF TypeOK, LocalState
<1>6. /\ apply.index \in Nat /\ apply.truncIndex \in Nat
      /\ apply.truncTerm \in Nat
      /\ dapply.index \in Nat /\ dapply.truncIndex \in Nat
      /\ dapply.truncTerm \in Nat
  BY <1>1, <1>2 DEF TypeOK, ApplyState
<1>7. cur \in Nat
  BY Bounds DEF TypeOK
<1>8. /\ rd.lo \in Nat /\ rd.commit \in Nat /\ rd.term \in Nat
      /\ rd.from \in 1..(MaxIndex + 1)
      /\ rd.snap \in Snapshot
  BY <1>1, <1>2 DEF TypeOK, Ready
<1>9. rd.from \in Nat /\ 1 <= rd.from
  BY <1>8, Bounds
<1>10. rd.snap.index \in Nat /\ rd.snap.term \in Nat
  BY <1>1, <1>2, <1>8 DEF Snapshot
<1>. QED
  BY <1>3, <1>4, <1>5, <1>6, <1>7, <1>8, <1>9, <1>10

\* TypeOK, as far as the logs are concerned.
LEMMA Logs ==
    ASSUME TypeOK
    PROVE  /\ llog \in Seq(Entry) /\ Len(llog) \in Nat
           /\ rlog \in Seq(Entry) /\ Len(rlog) \in Nat
           /\ rd.log \in Seq(Entry) /\ Len(rd.log) \in Nat
           /\ dlog \in [1..MaxIndex -> Entry]
           /\ Len(llog) <= MaxIndex
           /\ Len(rlog) <= MaxIndex
           /\ Len(rd.log) <= MaxIndex
           /\ \A i \in 1..Len(llog) : llog[i] \in Entry
           /\ \A i \in 1..Len(rlog) : rlog[i] \in Entry
           /\ \A i \in 1..Len(rd.log) : rd.log[i] \in Entry
<1>1. llog \in Seq(Entry) /\ rlog \in Seq(Entry) /\ dlog \in [1..MaxIndex -> Entry]
      /\ Len(llog) \in Index /\ Len(rlog) \in Index /\ Len(rd.log) \in Index
  BY DEF TypeOK
<1>2. rd.log \in Seq(Entry)
  BY DEF TypeOK, Ready
<1>3. \A i \in Index : i \in Nat /\ i <= MaxIndex
  BY Bounds DEF Index
<1>. QED
  BY <1>1, <1>2, <1>3, ElementType

-----------------------------------------------------------------------------
(* The leader's log *)

\* The key-value state after a prefix of a log is a map.
LEMMA StateAtType ==
    ASSUME NEW log \in Seq(Entry), NEW n \in 0..Len(log)
    PROVE  StateAt(log, n) \in Map
<1>1. CASE n = 0
  BY <1>1 DEF StateAt, EmptyMap, Map
<1>2. CASE n # 0
  <2>1. log[n] \in Entry
    BY <1>2, ElementType
  <2>. QED
    BY <1>2, <2>1, EntryType DEF StateAt
<1>. QED
  BY <1>1, <1>2

\* Applying a request to a map (processRequest) gives a map.
LEMMA NextMapType ==
    ASSUME NEW m \in Map, NEW kind \in Kinds, NEW key, NEW val \in Value \cup {Nil}
    PROVE  NextMap(m, kind, key, val) \in Map
BY DEF NextMap, Map, Kinds

\* What a step of the cluster may do to the leader's log: only the part
\* after the commit index changes, and a log that agrees with the new leader
\* agreed with the old one.
ClusterMoves ==
    /\ llog' \in Seq(Entry) /\ Len(llog') \in Index
    /\ lterm' \in Term /\ ccommit' \in Index
    /\ ccommit <= ccommit'
    /\ lterm <= lterm'
    /\ \A i \in 1..ccommit : llog'[i] = llog[i]
    /\ \A log \in Seq(Entry) :
         Follows(log, llog, lterm) =>
           /\ Follows(log, llog', lterm')
           /\ \A i \in 1..Len(log) :
                i <= Len(llog') /\ log[i].term = llog'[i].term =>
                  i <= Len(llog) /\ llog'[i] = llog[i]
    /\ ClusterInv'

\* A leader that appends an entry of its term makes a move of the cluster.
LEMMA AppendMoves ==
    ASSUME TypeOK, ClusterInv, NEW e \in Entry, e.term = lterm,
           e.kind = "compact" =>
              1 <= e.cidx /\ e.cidx <= Len(llog) /\ e.cterm = llog[e.cidx].term,
           Len(llog) < MaxIndex,
           llog' \in Seq(Entry),
           Len(llog') = Len(llog) + 1,
           \A i \in 1..Len(llog) : llog'[i] = llog[i],
           llog'[Len(llog) + 1] = e,
           \A log \in Seq(Entry) :
             Follows(log, llog, lterm) => Follows(log, llog', lterm),
           lterm' = lterm, ccommit' = ccommit
    PROVE  ClusterMoves
<1>0. /\ lterm \in Nat /\ ccommit \in Nat /\ MaxIndex \in Nat /\ MaxTerm \in Nat
      /\ llog \in Seq(Entry) /\ Len(llog) \in Nat
      /\ \A i \in 1..Len(llog) : llog[i] \in Entry
      /\ lterm \in Term /\ ccommit \in Index
  BY Bounds, Numbers, Logs DEF TypeOK
<1>1. /\ llog' \in Seq(Entry)
      /\ Len(llog') = Len(llog) + 1
      /\ \A i \in 1..Len(llog) : llog'[i] = llog[i]
      /\ llog'[Len(llog) + 1] = e
  OBVIOUS
<1>2. Len(llog') \in Index
  BY <1>0, <1>1 DEF Index
<1>3. lterm' \in Term /\ ccommit' \in Index
  BY <1>0 DEF TypeOK
<1>4. \A i \in 1..ccommit : llog'[i] = llog[i]
  BY <1>0, <1>1 DEF ClusterInv
<1>5. ASSUME NEW log \in Seq(Entry), Follows(log, llog, lterm)
      PROVE  /\ Follows(log, llog', lterm')
             /\ \A i \in 1..Len(log) :
                  i <= Len(llog') /\ log[i].term = llog'[i].term =>
                    i <= Len(llog) /\ llog'[i] = llog[i]
  <2>1. Follows(log, llog', lterm')
    BY <1>0, <1>5
  <2>. QED
    BY <1>0, <1>1, <1>5, <2>1 DEF Follows
<1>6. ClusterInv'
  <2>1. ASSUME NEW i \in 1..Len(llog')
        PROVE  /\ 1 <= llog'[i].term
               /\ llog'[i].term <= lterm'
               /\ llog'[i].kind = "compact" =>
                    /\ 1 <= llog'[i].cidx
                    /\ llog'[i].cidx < i
                    /\ llog'[i].cterm = llog'[llog'[i].cidx].term
    <3>1. CASE i \in 1..Len(llog)
      <4>1. llog'[i] = llog[i] /\ llog[i].cidx \in Nat
        BY <1>0, <1>1, <3>1, EntryType
      <4>. QED
        BY <1>0, <1>1, <3>1, <4>1 DEF ClusterInv
    <3>2. CASE i = Len(llog) + 1
      <4>1. e.cidx \in Nat
        BY <1>0, EntryType
      <4>. QED
        BY <1>0, <1>1, <3>2, <4>1 DEF ClusterInv
    <3>. QED
      BY <1>0, <1>1, <3>1, <3>2
  <2>. QED
    BY <1>0, <1>1, <2>1 DEF ClusterInv
<1>. QED
  BY <1>0, <1>1, <1>2, <1>3, <1>4, <1>5, <1>6 DEF ClusterMoves

\* A change of leader is a move of the cluster.
LEMMA ChangeMoves ==
    ASSUME TypeOK, ClusterInv, NEW n \in Nat, ccommit <= n, n <= Len(llog),
           n < MaxIndex, lterm < MaxTerm,
           NEW e \in Entry, e.term = lterm + 1, e.kind = "none",
           llog' \in Seq(Entry),
           Len(llog') = n + 1,
           \A i \in 1..n : llog'[i] = llog[i],
           llog'[n + 1] = e,
           \A log \in Seq(Entry) :
             Follows(log, llog, lterm) => Follows(log, llog', lterm + 1),
           lterm' = lterm + 1, ccommit' = ccommit
    PROVE  ClusterMoves
<1>0. /\ lterm \in Nat /\ ccommit \in Nat /\ MaxIndex \in Nat /\ MaxTerm \in Nat
      /\ llog \in Seq(Entry) /\ Len(llog) \in Nat
      /\ \A i \in 1..Len(llog) : llog[i] \in Entry
      /\ lterm \in Term /\ ccommit \in Index
  BY Bounds, Numbers, Logs DEF TypeOK
<1>2. /\ llog' \in Seq(Entry)
      /\ Len(llog') = n + 1
      /\ \A i \in 1..n : llog'[i] = llog[i]
      /\ llog'[n + 1] = e
  OBVIOUS
<1>3. Len(llog') \in Index /\ lterm' \in Term /\ ccommit' \in Index
  BY <1>0, <1>2 DEF Index, Term, TypeOK
<1>4. \A i \in 1..ccommit : llog'[i] = llog[i]
  BY <1>0, <1>2
<1>5. ASSUME NEW log \in Seq(Entry), Follows(log, llog, lterm)
      PROVE  /\ Follows(log, llog', lterm')
             /\ \A i \in 1..Len(log) :
                  i <= Len(llog') /\ log[i].term = llog'[i].term =>
                    i <= Len(llog) /\ llog'[i] = llog[i]
  <2>1. Follows(log, llog', lterm')
    BY <1>0, <1>5
  <2>2. \A i \in 1..Len(log) : log[i].term <= lterm /\ log[i].term \in Nat
    BY <1>0, <1>5, ElementType, EntryType DEF Follows
  <2>. QED
    BY <1>0, <1>2, <2>1, <2>2
<1>6. ClusterInv'
  <2>1. ASSUME NEW i \in 1..Len(llog')
        PROVE  /\ 1 <= llog'[i].term
               /\ llog'[i].term <= lterm'
               /\ llog'[i].kind = "compact" =>
                    /\ 1 <= llog'[i].cidx
                    /\ llog'[i].cidx < i
                    /\ llog'[i].cterm = llog'[llog'[i].cidx].term
    <3>1. CASE i \in 1..n
      <4>1. i \in 1..Len(llog) /\ llog'[i] = llog[i]
        BY <1>0, <1>2, <3>1
      <4>2. llog[i].cidx \in Nat /\ llog[i].term \in Nat
        BY <1>0, <4>1, EntryType
      <4>3. /\ 1 <= llog[i].term
            /\ llog[i].term <= lterm
            /\ llog[i].kind = "compact" =>
                 /\ llog[i].cidx \in 1..(i - 1)
                 /\ llog[i].cterm = llog[llog[i].cidx].term
        BY <4>1, <4>2 DEF ClusterInv
      <4>4. \A j \in 1..(i - 1) : llog'[j] = llog[j]
        BY <1>2, <3>1
      <4>. QED
        BY <1>0, <4>1, <4>2, <4>3, <4>4
    <3>2. CASE i = n + 1
      BY <1>0, <1>2, <3>2 DEF ClusterInv
    <3>. QED
      BY <1>0, <1>2, <3>1, <3>2
  <2>. QED
    BY <1>0, <1>2, <2>1 DEF ClusterInv
<1>. QED
  BY <1>0, <1>2, <1>3, <1>4, <1>5, <1>6 DEF ClusterMoves

\* All that the environment does is such a move and nothing else.
LEMMA EnvironmentMoves ==
    ASSUME TypeOK, ClusterInv, Environment
    PROVE  ClusterMoves /\ ClusterStep
<1>0. /\ lterm \in Nat /\ ccommit \in Nat /\ MaxIndex \in Nat /\ MaxTerm \in Nat
      /\ llog \in Seq(Entry) /\ Len(llog) \in Nat
      /\ \A i \in 1..Len(llog) : llog[i] \in Entry
      /\ lterm \in Term /\ ccommit \in Index
      /\ 0 \in Index /\ 0 \in Term
      /\ Nil \in Key \cup {Nil} /\ Nil \in Value \cup {Nil}
  BY Bounds, Numbers, Logs DEF TypeOK, Index, Term
<1>1. ASSUME NEW k \in Key, NEW v \in Value \cup {Nil}, NEW kind \in {"put", "del"},
             LeaderAppend(kind, k, v)
      PROVE  ClusterMoves /\ ClusterStep
  <2>. DEFINE e == NewEntry(llog, lterm, kind, k, v, 0, 0)
  <2>0. kind \in Kinds /\ kind # "compact"
    BY DEF Kinds
  <2>m. NextMap(StateAt(llog, Len(llog)), kind, k, v) \in Map
    BY <1>0, <2>0, StateAtType, NextMapType
  <2>1. e \in Entry /\ e.term = lterm /\ e.kind = kind
    BY <1>0, <2>0, <2>m DEF NewEntry, Entry
  <2>2. /\ Len(llog) < MaxIndex /\ llog' = Append(llog, e)
        /\ lterm' = lterm /\ ccommit' = ccommit /\ ClusterStep
    BY <1>1 DEF LeaderAppend
  <2>. HIDE DEF e
  <2>3. /\ llog' \in Seq(Entry)
        /\ Len(llog') = Len(llog) + 1
        /\ \A i \in 1..Len(llog) : llog'[i] = llog[i]
        /\ llog'[Len(llog) + 1] = e
    BY <1>0, <2>1, <2>2, AppendType
  <2>4. \A log \in Seq(Entry) :
          Follows(log, llog, lterm) => Follows(log, llog', lterm)
    BY <1>0, <2>1, <2>2, FollowsAppend
  <2>. QED
    BY <2>0, <2>1, <2>2, <2>3, <2>4, AppendMoves
<1>2. ASSUME NEW ci \in 1..MaxIndex, LeaderCompact(ci)
      PROVE  ClusterMoves /\ ClusterStep
  <2>. DEFINE e == NewEntry(llog, lterm, "compact", Nil, Nil, ci, llog[ci].term)
  <2>1. /\ Len(llog) < MaxIndex /\ llog' = Append(llog, e) /\ ci < ccommit
        /\ lterm' = lterm /\ ccommit' = ccommit /\ ClusterStep
    BY <1>2 DEF LeaderCompact
  <2>2. ci \in 1..Len(llog) /\ ci \in Index
        /\ "compact" \in Kinds /\ "compact" \notin {"put", "del"}
    BY <1>0, <2>1 DEF ClusterInv, Index, Kinds
  <2>3. llog[ci].term \in Term
    BY <1>0, <2>2 DEF Entry
  <2>m. NextMap(StateAt(llog, Len(llog)), "compact", Nil, Nil) \in Map
    BY <1>0, <2>2, StateAtType, NextMapType
  <2>4. /\ e \in Entry /\ e.term = lterm /\ e.cidx = ci
        /\ e.cterm = llog[ci].term
    BY <1>0, <2>2, <2>3, <2>m DEF NewEntry, Entry
  <2>. HIDE DEF e
  <2>5. /\ llog' \in Seq(Entry)
        /\ Len(llog') = Len(llog) + 1
        /\ \A i \in 1..Len(llog) : llog'[i] = llog[i]
        /\ llog'[Len(llog) + 1] = e
    BY <1>0, <2>1, <2>4, AppendType
  <2>6. \A log \in Seq(Entry) :
          Follows(log, llog, lterm) => Follows(log, llog', lterm)
    BY <1>0, <2>1, <2>4, FollowsAppend
  <2>7. 1 <= e.cidx /\ e.cidx <= Len(llog) /\ e.cterm = llog[e.cidx].term
    BY <1>0, <2>2, <2>4
  <2>. QED
    BY <2>1, <2>4, <2>5, <2>6, <2>7, AppendMoves
<1>3. ASSUME NEW n \in 1..MaxIndex, LeaderCommit(n)
      PROVE  ClusterMoves /\ ClusterStep
  <2>1. /\ ccommit < n /\ n <= Len(llog) /\ ccommit' = n
        /\ llog' = llog /\ lterm' = lterm /\ ClusterStep
    BY <1>3 DEF LeaderCommit
  <2>2. Boot <= n
    BY <1>0, <2>1, Bounds DEF ClusterInv
  <2>3. ClusterInv'
    BY <2>1, <2>2 DEF ClusterInv
  <2>4. Len(llog) \in Index /\ n \in Index
    BY <1>0 DEF TypeOK, Index
  <2>. QED
    BY <1>0, <2>1, <2>3, <2>4 DEF ClusterMoves
<1>4. ASSUME NEW n \in Index, LeaderChange(n)
      PROVE  ClusterMoves /\ ClusterStep
  <2>. DEFINE old == SubSeq(llog, 1, n)
              e == NewEntry(old, lterm + 1, "none", Nil, Nil, 0, 0)
  <2>1. /\ n \in Nat /\ ccommit <= n /\ n <= Len(llog) /\ n < MaxIndex
        /\ lterm < MaxTerm /\ llog' = Append(old, e)
        /\ lterm' = lterm + 1 /\ ccommit' = ccommit /\ ClusterStep
    BY <1>0, <1>4 DEF LeaderChange, Index
  <2>2. /\ old \in Seq(Entry) /\ Len(old) = n
        /\ \A i \in 1..n : old[i] = llog[i]
    BY <1>0, <2>1, PrefixType
  <2>3. lterm + 1 \in Term /\ "none" \in Kinds /\ "none" \notin {"put", "del"}
    BY <1>0, <2>1 DEF Term, Kinds
  <2>. HIDE DEF old
  <2>m. NextMap(StateAt(old, Len(old)), "none", Nil, Nil) \in Map
    BY <1>0, <2>1, <2>2, <2>3, StateAtType, NextMapType
  <2>4. e \in Entry /\ e.term = lterm + 1 /\ e.kind = "none"
    BY <1>0, <2>2, <2>3, <2>m DEF NewEntry, Entry
  <2>. HIDE DEF e
  <2>5. /\ llog' \in Seq(Entry)
        /\ Len(llog') = n + 1
        /\ \A i \in 1..n : llog'[i] = llog[i]
        /\ llog'[n + 1] = e
    BY <1>0, <2>1, <2>2, <2>4, AppendType
  <2>6. \A log \in Seq(Entry) :
          Follows(log, llog, lterm) => Follows(log, llog', lterm + 1)
    BY <1>0, <2>1, <2>4, FollowsChange DEF old
  <2>. QED
    BY <2>1, <2>4, <2>5, <2>6, ChangeMoves
<1>. QED
  BY <1>1, <1>2, <1>3, <1>4 DEF Environment

-----------------------------------------------------------------------------
(* Every step preserves log matching *)

USE DEF clusterVars, raftVars, memVars, tickVars, gcVars, diskVars, ghostVars,
        ClusterStep, RaftStep, TickStep

\* A prefix of a log that matches the leader's matches it too.
LEMMA FollowsShorter ==
    ASSUME NEW log \in Seq(Entry), NEW lead \in Seq(Entry), NEW t \in Nat,
           NEW n \in Nat, n <= Len(log),
           Follows(log, lead, t)
    PROVE  Follows(SubSeq(log, 1, n), lead, t)
<1>. DEFINE old == SubSeq(log, 1, n)
<1>1. /\ Len(old) = n
      /\ \A i \in 1..n : old[i] = log[i]
  BY PrefixType
<1>. HIDE DEF old
<1>. QED
  BY <1>1 DEF Follows, old

\* The empty log of NoReady matches every log.
LEMMA EmptyLog ==
    ASSUME NEW log, NEW lead, NEW t
    PROVE  Follows(NoReady.log, lead, t) /\ Agree(NoReady.log, log)
BY DEF Follows, Agree, NoReady

\* Every step preserves ClusterInv: only the environment touches the leader's
\* log.
LEMMA ClusterNext ==
    ASSUME TypeOK, ClusterInv, Next
    PROVE  ClusterInv'
<1>1. CASE Environment
  BY <1>1, EnvironmentMoves DEF ClusterMoves
<1>2. CASE UNCHANGED clusterVars
  BY <1>2 DEF ClusterInv
<1>3. CASE RaftRecv
  BY <1>2, <1>3 DEF RaftRecv, RecvTerm, RecvCommit, RecvAppend, RecvSnapshot
<1>4. CASE Bootstrap \/ Restart \/ Crash
  BY <1>2, <1>4 DEF Bootstrap, Restart, RestartFrom, Crash
<1>5. CASE OnTick
  BY <1>2, <1>5 DEF OnTick, TakeReady, SaveReady, SnapApplyState, SnapConfState,
     SnapDone, SnapPut, AppendEntry, DeleteTail, SetLastTerm, SetLastIndex,
     SaveLocalState, Send, ProcessEntry, ApplyIndex, ExecWrite, ExecNone,
     ExecCompact, Compact, Advance
<1>6. CASE \E g \in gc : GcRun(g)
  BY <1>2, <1>6 DEF GcRun
<1>. QED
  BY <1>1, <1>3, <1>4, <1>5, <1>6 DEF Next

\* Every step preserves LogInv: the logs that raft and the Ready hold are
\* replaced only by prefixes of the leader's log, or by what is on disk.
LEMMA LogNext ==
    ASSUME StorageInv, Next
    PROVE  LogInv'
<1>0. /\ TypeOK /\ ClusterInv /\ LogInv /\ RaftInv /\ DiskInv
      /\ llog \in Seq(Entry) /\ rlog \in Seq(Entry) /\ rd.log \in Seq(Entry)
      /\ Len(llog) \in Nat /\ Len(rlog) \in Nat
      /\ lterm \in Nat /\ released \in Nat /\ ccommit \in Nat
      /\ MaxIndex \in Nat /\ Boot \in Nat
  BY Logs, Numbers, Bounds DEF StorageInv
<1>1. CASE Environment
  <2>1. ClusterMoves /\ rlog' = rlog /\ rd' = rd
    BY <1>0, <1>1, EnvironmentMoves
  <2>2. Follows(rlog, llog', lterm') /\ Follows(rd.log, llog', lterm')
    BY <1>0, <2>1 DEF ClusterMoves, LogInv
  <2>. QED
    BY <1>0, <2>1, <2>2 DEF LogInv
<1>2. ASSUME NEW n \in Nat, n <= Len(llog), rlog' = SubSeq(llog, 1, n),
             rd' = rd, UNCHANGED clusterVars
      PROVE  LogInv'
  <2>1. Follows(SubSeq(llog, 1, n), llog, lterm)
    BY <1>0, <1>2, FollowsPrefix DEF ClusterInv
  <2>2. Agree(rd.log, SubSeq(llog, 1, n))
    BY <1>0, <1>2, AgreePrefix DEF LogInv
  <2>. QED
    BY <1>0, <1>2, <2>1, <2>2 DEF LogInv
<1>3. CASE UNCHANGED <<clusterVars, rlog, rd>>
  BY <1>0, <1>3 DEF LogInv
<1>4. CASE RecvTerm \/ \E c \in 1..MaxIndex : RecvCommit(c)
  BY <1>3, <1>4 DEF RecvTerm, RecvCommit
<1>5. ASSUME NEW n \in 1..MaxIndex, NEW c \in Index, NEW ci \in 1..MaxIndex,
             RecvAppend(n, c, ci)
      PROVE  LogInv'
  BY <1>0, <1>2, <1>5 DEF RecvAppend
<1>6. ASSUME NEW n \in 1..MaxIndex, NEW m \in Index, NEW d \in Map,
             NEW ci \in 1..MaxIndex, RecvSnapshot(n, m, d, ci)
      PROVE  LogInv'
  BY <1>0, <1>2, <1>6 DEF RecvSnapshot, ClusterInv
<1>7. CASE Bootstrap
  BY <1>0, <1>2, <1>7 DEF Bootstrap, ClusterInv
<1>8. CASE Restart
  <2>1. ~up /\ rlog' = DiskLog /\ rd' = rd /\ UNCHANGED clusterVars
    BY <1>8 DEF Restart, RestartFrom, DiskLog
  <2>2. pc = "idle" /\ rd = NoReady
    BY <1>0, <2>1 DEF RaftInv, Active
  <2>3. Follows(DiskLog, llog, lterm)
    BY <1>0, <2>2 DEF DiskInv, DiskStates, DiskFresh, DiskWhole, InSnapshotWindow, InTruncateWindow
  <2>. QED
    BY <1>0, <2>1, <2>2, <2>3, EmptyLog DEF LogInv
<1>9. CASE Crash
  <2>1. rlog' = SubSeq(rlog, 1, released) /\ rd' = NoReady /\ UNCHANGED clusterVars
    BY <1>9 DEF Crash
  <2>2. Follows(SubSeq(rlog, 1, released), llog, lterm)
    BY <1>0, FollowsShorter DEF LogInv, RaftInv
  <2>. QED
    BY <2>1, <2>2, EmptyLog DEF LogInv
<1>10. CASE TakeReady
  <2>1. rlog' = rlog /\ rd'.log = rlog /\ UNCHANGED clusterVars
    BY <1>10 DEF TakeReady
  <2>2. Agree(rlog, rlog)
    BY DEF Agree
  <2>. QED
    BY <1>0, <2>1, <2>2 DEF LogInv
<1>11. CASE Advance
  <2>1. rlog' = rlog /\ rd' = NoReady /\ UNCHANGED clusterVars
    BY <1>11 DEF Advance
  <2>. QED
    BY <1>0, <2>1, EmptyLog DEF LogInv
<1>12. CASE SaveReady \/ Send \/ ProcessEntry
  BY <1>3, <1>12 DEF SaveReady, SnapApplyState, SnapConfState,
     SnapDone, SnapPut, AppendEntry, DeleteTail, SetLastTerm, SetLastIndex,
     SaveLocalState, Send, ProcessEntry, ApplyIndex, ExecWrite, ExecNone,
     ExecCompact, Compact
<1>13. CASE \E g \in gc : GcRun(g)
  BY <1>3, <1>13 DEF GcRun
<1>. QED
  BY <1>1, <1>4, <1>5, <1>6, <1>7, <1>8, <1>9, <1>10, <1>11, <1>12, <1>13
  DEF Next, RaftRecv, OnTick

-----------------------------------------------------------------------------
(* Every step preserves RaftInv *)

\* matchTerm at one index shows that the whole prefix is the leader's.
LEMMA MatchesPrefix ==
    ASSUME TypeOK, LogInv, NEW n \in Nat, n <= Len(llog), Matches(n)
    PROVE  n <= Len(rlog) /\ \A i \in 1..n : rlog[i] = llog[i]
BY Logs DEF Matches, LogInv, Follows

\* At a restart the commit index is the saved one.
LEMMA StartCommitSaved ==
    ASSUME TypeOK, RaftInv, DiskInv, ~up
    PROVE  /\ StartCommit = dlocal.commit
           /\ dapply.truncIndex <= dapply.index
           /\ dapply.index <= dlocal.commit
           /\ dlocal.commit <= dlocal.lastIndex
           /\ dlocal.commit <= ccommit
           /\ Follows(DiskLog, llog, lterm)
           /\ \A i \in 1..dlocal.commit : DiskLog[i] = llog[i]
           /\ dapply.truncIndex < dlocal.lastIndex =>
                dlocal.lastTerm = dlog[dlocal.lastIndex].term
<1>1. ~InSnapshotWindow /\ ~InTruncateWindow
  BY DEF RaftInv, Active, InSnapshotWindow, InTruncateWindow
<1>. QED
  BY <1>1, Numbers DEF DiskInv, DiskStates, DiskFresh, DiskWhole, StartCommit, HardStateSaved

\* The log a restart finds.
LEMMA DiskLogType ==
    ASSUME TypeOK, ClusterInv, DiskInv
    PROVE  /\ DiskLog \in Seq(Entry)
           /\ Len(DiskLog) = dlocal.lastIndex
           /\ \A i \in 1..dlocal.lastIndex :
                DiskLog[i] = IF i <= dapply.truncIndex THEN llog[i] ELSE dlog[i]
<1>1. /\ dlocal.lastIndex \in Nat /\ dlocal.lastIndex <= MaxIndex
  BY Bounds DEF TypeOK, LocalState, Index
<1>2. dapply.truncIndex <= Len(llog)
  <2>1. dapply.truncIndex <= dapply.index /\ dapply.index <= ccommit /\ ccommit <= Len(llog)
    BY DEF DiskInv, DiskStates, ClusterInv
  <2>2. /\ dapply.truncIndex \in Nat /\ dapply.index \in Nat /\ ccommit \in Nat
        /\ Len(llog) \in Nat
    BY Numbers, Logs
  <2>. QED
    BY <2>1, <2>2
<1>n. /\ dapply.truncIndex \in Nat /\ MaxIndex \in Nat /\ Len(llog) \in Nat
      /\ dlog \in [1..MaxIndex -> Entry]
      /\ \A i \in 1..Len(llog) : llog[i] \in Entry
  BY Logs, Numbers, Bounds
<1>3. ASSUME NEW i \in 1..dlocal.lastIndex
      PROVE  (IF i <= dapply.truncIndex THEN llog[i] ELSE dlog[i]) \in Entry
  <2>1. i \in 1..MaxIndex /\ (i <= dapply.truncIndex => i \in 1..Len(llog))
    BY <1>1, <1>2, <1>n
  <2>2. dlog[i] \in Entry
    BY <2>1, <1>n
  <2>. QED
    BY <2>1, <2>2, <1>n
<1>. QED
  BY <1>1, <1>3 DEF DiskLog

\* A Ready's last entry is in the raft log: so is all of the Ready.
LEMMA StillLastPrefix ==
    ASSUME TypeOK, LogInv, StillLast(rd)
    PROVE  /\ Len(rd.log) <= Len(rlog)
           /\ rd.lo < Len(rd.log)
           /\ stable < Len(rd.log)
           /\ \A i \in 1..Len(rd.log) : rd.log[i] = rlog[i]
<1>1. /\ Len(rlog) \in Nat /\ Len(rd.log) \in Nat /\ rd.lo \in Nat /\ stable \in Nat
  BY Logs, Numbers
<1>2. /\ Len(rd.log) \in 1..Len(rd.log) /\ Len(rd.log) <= Len(rlog)
      /\ rd.lo < Len(rd.log) /\ stable < Len(rd.log)
      /\ rd.log[Len(rd.log)].term = rlog[Len(rd.log)].term
  BY <1>1 DEF StillLast
<1>. QED
  BY <1>2 DEF LogInv, Agree

\* A snapshot that came after the Ready keeps the Ready from moving the
\* offset of the unstable log.
LEMMA NewerSnapshot ==
    ASSUME TypeOK, LogInv, RaftInv, ReadyInv, Active,
           rsnap.index # rd.snap.index
    PROVE  ~StillLast(rd) /\ rd.commit < rsnap.index
<1>0. /\ rsnap.index > 0 /\ rsnap.index = stable /\ rsnap.index <= rcommit
      /\ rsnap.index <= Len(rd.log) => rd.log[rsnap.index].term # llog[rsnap.index].term
  BY DEF RaftInv, ReadyInv, ReadyOffset
<1>n. /\ rsnap.index \in Nat /\ Len(rd.log) \in Nat /\ rcommit \in Nat
      /\ rd.commit \in Nat /\ stable \in Nat
  BY Logs, Numbers
<1>1. ASSUME StillLast(rd) PROVE FALSE
  <2>1. rsnap.index \in 1..Len(rd.log) /\ rd.log[rsnap.index] = rlog[rsnap.index]
    BY <1>0, <1>n, <1>1, StillLastPrefix
  <2>2. rlog[rsnap.index] = llog[rsnap.index]
    BY <1>0, <1>n DEF RaftInv
  <2>. QED
    BY <1>0, <2>1, <2>2
<1>2. ASSUME rsnap.index <= rd.commit PROVE FALSE
  <2>1. rsnap.index \in 1..rd.commit /\ rd.commit <= Len(rd.log)
    BY <1>0, <1>n, <1>2 DEF ReadyInv, ReadyBounds
  <2>2. rd.log[rsnap.index] = llog[rsnap.index]
    BY <2>1 DEF ReadyInv, ReadyCommitted
  <2>. QED
    BY <1>0, <1>n, <2>1, <2>2
<1>. QED
  BY <1>1, <1>2, <1>n

\* Every step preserves RaftInv: the commit index of this replica covers only
\* entries of the cluster, also after a restart from disk.
LEMMA RaftNext ==
    ASSUME StorageInv, Next
    PROVE  RaftInv'
<1>0. /\ TypeOK /\ ClusterInv /\ LogInv /\ RaftInv /\ ReadyInv /\ MemInv /\ DiskInv
      /\ ReleasedDurable
      /\ llog \in Seq(Entry) /\ rlog \in Seq(Entry) /\ rd.log \in Seq(Entry)
      /\ Len(llog) \in Nat /\ Len(rlog) \in Nat /\ Len(rd.log) \in Nat
      /\ lterm \in Nat /\ released \in Nat /\ ack \in Nat /\ ccommit \in Nat
      /\ stable \in Nat /\ rcommit \in Nat /\ rapplied \in Nat /\ rterm \in Nat
      /\ rsnap.index \in Nat /\ rd.commit \in Nat /\ rd.snap.index \in Nat
      /\ MaxIndex \in Nat /\ Boot \in Nat
  BY Logs, Numbers, Bounds DEF StorageInv
<1>1. CASE Environment
  <2>1. ClusterMoves /\ ClusterStep
    BY <1>0, <1>1, EnvironmentMoves
  <2>2. /\ ccommit <= ccommit' /\ lterm <= lterm' /\ ccommit' \in Nat /\ lterm' \in Nat
        /\ \A i \in 1..ccommit : llog'[i] = llog[i]
    BY <1>0, <2>1, Bounds DEF ClusterMoves, Index, Term
  <2>3. UNCHANGED <<raftVars, released, up, pc, rd>>
    BY <2>1
  <2>4. UNCHANGED <<stable, rlog, rcommit, rapplied, rterm, rsnap>>
    BY <2>3 DEF raftVars
  <2>5. \A i \in 1..rcommit' : rlog'[i] = llog'[i]
    BY <1>0, <2>2, <2>4 DEF RaftInv
  <2>6. rsnap'.index > 0 =>
          /\ rsnap'.index = stable'
          /\ rsnap'.index <= rcommit'
          /\ rapplied' < rsnap'.index
          /\ rsnap'.term = llog'[rsnap'.index].term
    BY <1>0, <2>2, <2>4 DEF RaftInv
  <2>7. rcommit' <= ccommit' /\ rterm' <= lterm'
    BY <1>0, <2>2, <2>4 DEF RaftInv
  <2>. QED
    BY <1>0, <2>3, <2>4, <2>5, <2>6, <2>7 DEF RaftInv, Active
<1>2. CASE RecvTerm
  BY <1>0, <1>2 DEF RecvTerm, RaftInv, Active
<1>3. ASSUME NEW c \in 1..MaxIndex, RecvCommit(c)
      PROVE  RaftInv'
  <2>1. c <= Len(rlog) /\ \A i \in 1..c : rlog[i] = llog[i]
    BY <1>0, <1>3, MatchesPrefix DEF RecvCommit, ClusterInv
  <2>. QED
    BY <1>0, <1>3, <2>1 DEF RecvCommit, RaftInv, Active
<1>4. ASSUME NEW n \in 1..MaxIndex, NEW c \in Index, NEW ci \in 1..MaxIndex,
             RecvAppend(n, c, ci)
      PROVE  RaftInv'
  <2>1. /\ n <= Len(llog) /\ ci <= n /\ ci > rcommit
        /\ c >= rcommit /\ c <= n /\ c <= ccommit /\ c \in Nat
        /\ up /\ up' = up /\ rlog' = SubSeq(llog, 1, n) /\ rterm' = lterm
        /\ stable' = Smaller(stable, ci - 1) /\ rcommit' = c
        /\ released' = Smaller(released, ci - 1)
        /\ UNCHANGED <<rapplied, rsnap, pc, rd, clusterVars>>
    BY <1>0, <1>4 DEF RecvAppend, Retract, Index
  <2>2. Len(rlog') = n /\ \A i \in 1..n : rlog'[i] = llog[i]
    BY <1>0, <2>1, PrefixType
  <2>3. stable' <= n /\ released' <= n /\ (rsnap.index > 0 => stable' = stable)
    BY <1>0, <2>1 DEF Smaller, RaftInv
  <2>. QED
    BY <1>0, <2>1, <2>2, <2>3 DEF RaftInv, Active
<1>5. ASSUME NEW n \in 1..MaxIndex, NEW m \in Index, NEW d \in Map,
             NEW ci \in 1..MaxIndex, RecvSnapshot(n, m, d, ci)
      PROVE  RaftInv'
  <2>1. /\ n <= ccommit /\ ci <= n /\ n > rcommit /\ n <= Len(llog)
        /\ up /\ up' = up /\ rlog' = SubSeq(llog, 1, n) /\ rterm' = lterm
        /\ stable' = n /\ rcommit' = n
        /\ released' = Smaller(released, ci - 1)
        /\ rsnap'.index = n /\ rsnap'.term = llog[n].term
        /\ UNCHANGED <<rapplied, pc, rd, clusterVars>>
    BY <1>0, <1>5 DEF RecvSnapshot, Retract, ClusterInv
  <2>2. Len(rlog') = n /\ \A i \in 1..n : rlog'[i] = llog[i]
    BY <1>0, <2>1, PrefixType
  <2>3. released' <= n
    BY <1>0, <2>1 DEF Smaller
  <2>. QED
    BY <1>0, <2>1, <2>2, <2>3 DEF RaftInv, Active
<1>6. CASE Bootstrap
  <2>1. /\ ~up /\ ~dconf /\ up' /\ rlog' = SubSeq(llog, 1, Boot)
        /\ stable' = 0 /\ rcommit' = Boot /\ rapplied' = 0 /\ rterm' = 1
        /\ UNCHANGED <<rsnap, pc, rd, clusterVars, released>>
    BY <1>6 DEF Bootstrap
  <2>2. Len(rlog') = Boot /\ \A i \in 1..Boot : rlog'[i] = llog[i]
    BY <1>0, <2>1, PrefixType DEF ClusterInv
  <2>3. released = 0 /\ Boot <= ccommit /\ 1 <= lterm /\ rsnap = NoSnap
        /\ rd = NoReady
    BY <1>0, <2>1 DEF DiskInv, DiskStates, DiskFresh, DiskWhole, ClusterInv, RaftInv
  <2>. QED
    BY <1>0, <2>1, <2>2, <2>3 DEF RaftInv, Active, NoSnap
<1>7. CASE Restart
  <2>1. /\ ~up /\ up' /\ rlog' = DiskLog /\ stable' = dlocal.lastIndex
        /\ rcommit' = StartCommit /\ rterm' = dlocal.term
        /\ rapplied' = Larger(dapply.truncIndex, dapply.index)
        /\ UNCHANGED <<rsnap, pc, rd, clusterVars, released>>
    BY <1>7 DEF Restart, RestartFrom, DiskLog
  <2>2. /\ rcommit' = dlocal.commit /\ rapplied' = dapply.index
        /\ dapply.truncIndex <= dapply.index
        /\ dapply.index <= dlocal.commit
        /\ dlocal.commit <= dlocal.lastIndex
        /\ dlocal.commit <= ccommit
        /\ \A i \in 1..dlocal.commit : DiskLog[i] = llog[i]
    BY <1>0, <2>1, StartCommitSaved, Numbers DEF Larger
  <2>3. Len(DiskLog) = dlocal.lastIndex
    BY <1>0, DiskLogType
  <2>4. released <= dlocal.lastIndex
    <3>1. /\ released \in Nat /\ dlocal.lastIndex \in Nat /\ dlocal.commit \in Nat
          /\ dapply.index \in Nat /\ dapply.truncIndex \in Nat
      BY <1>0, Numbers
    <3>2. \A i \in 1..released : i <= dapply.truncIndex \/ i <= dlocal.lastIndex
      BY <1>0 DEF ReleasedDurable
    <3>3. released = 0 \/ released <= dapply.truncIndex \/ released <= dlocal.lastIndex
      BY <3>1, <3>2
    <3>. QED
      BY <2>2, <3>1, <3>3
  <2>5. rsnap = NoSnap /\ rd = NoReady /\ dlocal.term <= lterm
    BY <1>0, <2>1 DEF RaftInv, DiskInv, DiskStates, DiskFresh, DiskWhole
  <2>. QED
    BY <1>0, <2>1, <2>2, <2>3, <2>4, <2>5 DEF RaftInv, Active, NoSnap
<1>8. CASE Crash
  <2>1. /\ rlog' = SubSeq(rlog, 1, released) /\ ~up'
        /\ stable' = 0 /\ rcommit' = 0 /\ rapplied' = 0 /\ rterm' = 0
        /\ rsnap' = NoSnap /\ rd' = NoReady /\ pc' = "idle"
        /\ UNCHANGED <<clusterVars, released>>
    BY <1>8 DEF Crash
  <2>2. Len(rlog') = released
    BY <1>0, <2>1, PrefixType DEF RaftInv
  <2>. QED
    BY <1>0, <2>1, <2>2 DEF RaftInv, Active, NoSnap
<1>9. CASE TakeReady
  <2>1. pc' # "idle" /\ up /\ up' = up /\ UNCHANGED <<raftVars, clusterVars, released>>
    BY <1>9 DEF TakeReady, StartAppend
  <2>. QED
    BY <1>0, <2>1 DEF RaftInv, Active
<1>10. CASE Advance
  <2>1. /\ pc = "apply" /\ up /\ up' = up /\ pc' = "idle" /\ rd' = NoReady
        /\ rapplied' = IF rd.from <= rd.commit THEN rd.commit
                       ELSE IF rd.snap.index > 0 THEN rd.snap.index
                       ELSE rapplied
        /\ stable' = IF StillLast(rd) THEN Len(rd.log) ELSE stable
        /\ rsnap' = IF rsnap.index = rd.snap.index THEN NoSnap ELSE rsnap
        /\ UNCHANGED <<clusterVars, rlog, rcommit, rterm, released>>
    BY <1>10 DEF Advance
  <2>2. /\ Active /\ rd.commit <= rcommit
        /\ rd.snap.index > 0 => rd.snap.index <= rd.commit
    BY <1>0, <2>1 DEF Active, ReadyInv, ReadyBounds
  <2>3. stable' <= Len(rlog)
    BY <1>0, <2>1, StillLastPrefix DEF RaftInv
  <2>4. rapplied' <= rcommit
    BY <1>0, <2>1, <2>2 DEF RaftInv
  <2>5. rsnap'.index > 0 =>
          /\ rsnap' = rsnap /\ stable' = stable /\ rapplied' < rsnap.index
    BY <1>0, <2>1, <2>2, NewerSnapshot DEF RaftInv, NoSnap
  <2>. QED
    BY <1>0, <2>1, <2>3, <2>4, <2>5 DEF RaftInv, Active
<1>11. CASE Send
  <2>1. /\ pc = "send" /\ pc' = "apply" /\ up /\ up' = up /\ released' = ack
        /\ UNCHANGED <<raftVars, clusterVars, rd>>
    BY <1>11 DEF Send
  <2>2. ack <= Len(rlog)
    BY <1>0, <2>1 DEF ReadyInv, ReadyAcked, Active
  <2>. QED
    BY <1>0, <2>1, <2>2 DEF RaftInv, Active
<1>12. CASE SaveReady \/ ProcessEntry
  <2>1. /\ pc' # "idle" /\ up /\ up' = up
        /\ UNCHANGED <<raftVars, clusterVars, rd, released>>
    BY <1>12 DEF SaveReady, SnapApplyState, SnapConfState,
       SnapDone, StartAppend, SnapPut, AppendEntry, DeleteTail, SetLastTerm,
       SetLastIndex, SaveLocalState, ProcessEntry, ApplyIndex, ExecWrite,
       ExecNone, ExecCompact, Compact
  <2>. QED
    BY <1>0, <2>1 DEF RaftInv, Active
<1>13. CASE \E g \in gc : GcRun(g)
  BY <1>0, <1>13 DEF GcRun, RaftInv, Active
<1>. QED
  BY <1>1, <1>2, <1>3, <1>4, <1>5, <1>6, <1>7, <1>8, <1>9, <1>10, <1>11, <1>12,
     <1>13
  DEF Next, RaftRecv, OnTick

-----------------------------------------------------------------------------
(* Every step preserves ReadyInv *)

\* What the replica's log shares with the leader's lies before a conflict.
LEMMA BeforeConflict ==
    ASSUME TypeOK, LogInv, NEW ci \in Nat, 1 <= ci, ci <= Len(llog), Conflict(ci)
    PROVE  /\ ci - 1 <= Len(rlog)
           /\ \A i \in 1..(ci - 1) : rlog[i] = llog[i]
           /\ \A i \in 1..Len(rlog) :
                i <= Len(llog) /\ rlog[i].term = llog[i].term => i < ci
<1>n. Len(llog) \in Nat /\ Len(rlog) \in Nat
  BY Logs
<1>1. ci - 1 <= Len(rlog) /\ \A i \in 1..(ci - 1) : rlog[i] = llog[i]
  BY <1>n, MatchesPrefix DEF Conflict
<1>2. ASSUME NEW i \in 1..Len(rlog), i <= Len(llog), rlog[i].term = llog[i].term,
             ci <= i
      PROVE  FALSE
  <2>1. rlog[ci] = llog[ci] /\ ci <= Len(rlog)
    BY <1>n, <1>2 DEF LogInv, Follows
  <2>. QED
    BY <2>1 DEF Conflict, Matches
<1>. QED
  BY <1>n, <1>1, <1>2

\* ... and so does what the Ready shares with it.
LEMMA ReadyBeforeConflict ==
    ASSUME TypeOK, LogInv, ReadyInv, Active,
           NEW ci \in Nat, 1 <= ci, ci <= Len(llog), Conflict(ci),
           NEW i \in 1..Len(rd.log), i <= Len(llog), rd.log[i].term = llog[i].term
    PROVE  i < ci
<1>1. i \in 1..Len(rlog) /\ rlog[i].term = llog[i].term
  BY Logs DEF ReadyInv, ReadyKept
<1>. QED
  BY <1>1, BeforeConflict

\* ReadyInv from its five parts.
LEMMA ReadyIntro ==
    ASSUME Active' => /\ ReadyBounds' /\ ReadyCommitted' /\ ReadyOffset'
                      /\ ReadyKept' /\ ReadyAcked'
    PROVE  ReadyInv'
BY DEF ReadyInv

\* The five parts of ReadyInv.
LEMMA ReadyElim ==
    ASSUME ReadyInv, Active
    PROVE  ReadyBounds /\ ReadyCommitted /\ ReadyOffset /\ ReadyKept /\ ReadyAcked
BY DEF ReadyInv

\* A move of the cluster does not disturb the Ready that is being handled.
LEMMA ReadyEnvironment ==
    ASSUME StorageInv, Active, Environment
    PROVE  ReadyInv'
<1>0. /\ Len(rlog) \in Nat /\ Len(rd.log) \in Nat
      /\ ccommit \in Nat /\ rcommit \in Nat /\ rd.commit \in Nat
      /\ rsnap.index \in Nat /\ rd.snap.index \in Nat
  BY Logs, Numbers DEF StorageInv
<1>1. ClusterMoves /\ ClusterStep
  BY EnvironmentMoves DEF StorageInv
<1>2. UNCHANGED <<raftVars, released, ack, up, pc, rd>>
  BY <1>1
<1>r. ReadyBounds /\ ReadyCommitted /\ ReadyOffset /\ ReadyKept /\ ReadyAcked
  BY ReadyElim DEF StorageInv
<1>3. \A i \in 1..ccommit : llog'[i] = llog[i]
  BY <1>1 DEF ClusterMoves
<1>4. \A i \in 1..Len(rd.log) :
        i <= Len(llog') /\ rd.log[i].term = llog'[i].term =>
          i <= Len(llog) /\ llog'[i] = llog[i]
  <2>1. rd.log \in Seq(Entry) /\ Follows(rd.log, llog, lterm)
    BY Logs DEF StorageInv, LogInv
  <2>. QED
    BY <1>1, <2>1 DEF ClusterMoves
<1>5. rd.commit <= ccommit /\ rd.snap.index <= ccommit /\ rsnap.index <= ccommit
  <2>1. rcommit <= ccommit /\ (rsnap.index > 0 => rsnap.index <= rcommit)
    BY DEF StorageInv, RaftInv
  <2>2. rd.commit <= rcommit /\ (rd.snap.index > 0 => rd.snap.index <= rd.commit)
    BY <1>r DEF ReadyBounds
  <2>. QED
    BY <1>0, <2>1, <2>2
<1>6. ReadyBounds'
  BY <1>r, <1>2 DEF ReadyBounds
<1>7. ReadyCommitted'
  <2>1. \A i \in 1..rd.commit : llog'[i] = llog[i]
    BY <1>0, <1>3, <1>5
  <2>2. rd.snap.index > 0 => llog'[rd.snap.index] = llog[rd.snap.index]
    BY <1>0, <1>3, <1>5
  <2>. QED
    BY <1>r, <1>2, <2>1, <2>2 DEF ReadyCommitted
<1>8. ReadyOffset'
  <2>1. rsnap.index > 0 => llog'[rsnap.index] = llog[rsnap.index]
    BY <1>0, <1>3, <1>5
  <2>. QED
    BY <1>r, <1>2, <2>1 DEF ReadyOffset
<1>9. ReadyKept'
  BY <1>r, <1>2, <1>4 DEF ReadyKept
<1>10. ReadyAcked'
  BY <1>r, <1>2 DEF ReadyAcked
<1>. QED
  BY <1>6, <1>7, <1>8, <1>9, <1>10, ReadyIntro

\* A MsgApp that arrives while handleReady runs replaces only entries of the
\* Ready that the leader does not have.
LEMMA ReadyAppend ==
    ASSUME StorageInv, Active,
           NEW n \in 1..MaxIndex, NEW c \in Index, NEW ci \in 1..MaxIndex,
           RecvAppend(n, c, ci)
    PROVE  ReadyInv'
<1>0. /\ Len(llog) \in Nat /\ Len(rlog) \in Nat /\ Len(rd.log) \in Nat
      /\ released \in Nat /\ ack \in Nat /\ stable \in Nat
      /\ rcommit \in Nat /\ rd.commit \in Nat /\ rterm \in Nat /\ lterm \in Nat
      /\ rd.term \in Nat /\ rd.lo \in Nat
      /\ n \in Nat /\ ci \in Nat /\ 1 <= ci /\ c \in Nat
  <2>1. n \in Nat /\ ci \in Nat /\ 1 <= ci /\ c \in Nat
    BY Bounds DEF Index
  <2>. QED
    BY <2>1, Logs, Numbers DEF StorageInv
<1>1. /\ n <= Len(llog) /\ ci <= n /\ Conflict(ci)
      /\ c >= rcommit
      /\ rlog' = SubSeq(llog, 1, n) /\ rterm' = lterm
      /\ stable' = Smaller(stable, ci - 1) /\ rcommit' = c
      /\ released' = Smaller(released, ci - 1)
      /\ ack' = Smaller(ack, ci - 1)
      /\ UNCHANGED <<rapplied, rsnap, pc, rd, clusterVars>>
  BY DEF RecvAppend, Retract
<1>2. Len(rlog') = n /\ \A i \in 1..n : rlog'[i] = llog[i]
  <2>1. llog \in Seq(Entry)
    BY Logs DEF StorageInv
  <2>. QED
    BY <1>0, <1>1, <2>1, PrefixType
<1>r. ReadyBounds /\ ReadyCommitted /\ ReadyOffset /\ ReadyKept /\ ReadyAcked
  BY ReadyElim DEF StorageInv
<1>3. /\ stable' <= stable /\ stable' < n
      /\ released' <= ack' /\ ack' <= ack /\ ack' <= ci - 1
      /\ stable' \in Nat /\ ack' \in Nat
  <2>1. released <= ack
    BY <1>r DEF ReadyAcked
  <2>2. /\ stable' = (IF stable < ci - 1 THEN stable ELSE ci - 1)
        /\ released' = (IF released < ci - 1 THEN released ELSE ci - 1)
        /\ ack' = (IF ack < ci - 1 THEN ack ELSE ci - 1)
        /\ ci <= n
    BY <1>1 DEF Smaller
  <2>. QED
    BY <1>0, <2>1, <2>2
<1>4. /\ ci <= Len(llog) /\ ci - 1 \in Nat
      /\ \A i \in 1..(ci - 1) : rlog[i] = llog[i]
  <2>1. TypeOK /\ LogInv
    BY DEF StorageInv
  <2>2. ci <= Len(llog) /\ ci - 1 \in Nat
    BY <1>0, <1>1
  <2>3. ci \in Nat /\ 1 <= ci /\ Conflict(ci)
    BY <1>0, <1>1
  <2>. QED
    BY <2>1, <2>2, <2>3, BeforeConflict
<1>5. \A i \in 1..Len(rd.log) :
          i <= Len(llog) /\ rd.log[i].term = llog[i].term => i < ci
  <2>1. TypeOK /\ LogInv /\ ReadyInv
    BY DEF StorageInv
  <2>. QED
    BY <1>0, <1>1, <1>4, <2>1, ReadyBeforeConflict
<1>6. ReadyBounds'
  <2>1. rd.commit <= c /\ rd.term <= lterm
    <3>1. rd.commit <= rcommit /\ rd.term <= rterm /\ rterm <= lterm
      BY <1>r DEF ReadyBounds, StorageInv, RaftInv
    <3>. QED
      BY SMTT(20), <1>0, <1>1, <3>1
  <2>. QED
    BY <1>1, <1>r, <2>1 DEF ReadyBounds
<1>7. ReadyCommitted'
  BY <1>1, <1>r DEF ReadyCommitted
<1>8. ReadyOffset'
  <2>1. rsnap.index = rd.snap.index => stable' <= rd.lo
    BY <1>0, <1>3, <1>r DEF ReadyOffset
  <2>2. Len(rlog') # stable'
    BY <1>0, <1>2, <1>3
  <2>. QED
    BY <1>1, <1>r, <2>1, <2>2 DEF ReadyOffset
<1>9. ReadyKept'
  <2>. SUFFICES ASSUME NEW i \in 1..Len(rd.log),
                       i <= Len(llog), rd.log[i].term = llog[i].term
                PROVE  i <= Len(rlog') /\ rlog'[i].term = llog[i].term
    BY <1>1 DEF ReadyKept
  <2>1. i \in 1..n
    BY <1>0, <1>1, <1>5
  <2>. QED
    BY <1>0, <1>2, <2>1
<1>10. ReadyAcked'
  <2>1. ack' <= Len(rlog') /\ ack' <= Len(rd.log)
    BY SMTT(20), <1>0, <1>1, <1>2, <1>3, <1>r DEF ReadyAcked
  <2>2. ASSUME NEW i \in 1..ack' PROVE rd.log[i] = rlog'[i]
    <3>1. i \in 1..ack /\ i \in 1..(ci - 1) /\ i \in 1..n
      BY <1>0, <1>1, <1>3
    <3>. QED
      BY <3>1, <1>2, <1>4, <1>r DEF ReadyAcked
  <2>. QED
    BY <1>1, <1>3, <2>1, <2>2 DEF ReadyAcked
<1>. QED
  BY <1>6, <1>7, <1>8, <1>9, <1>10, ReadyIntro

\* A MsgSnap that arrives while handleReady runs leaves a Ready whose last
\* entry Advance will not find in the raft log.
LEMMA ReadySnapshot ==
    ASSUME StorageInv, Active,
           NEW n \in 1..MaxIndex, NEW m \in Index, NEW d \in Map,
           NEW ci \in 1..MaxIndex, RecvSnapshot(n, m, d, ci)
    PROVE  ReadyInv'
<1>0. /\ Len(llog) \in Nat /\ Len(rlog) \in Nat /\ Len(rd.log) \in Nat
      /\ released \in Nat /\ ack \in Nat /\ ccommit \in Nat
      /\ rcommit \in Nat /\ rd.commit \in Nat /\ rterm \in Nat /\ lterm \in Nat
      /\ rd.term \in Nat /\ rd.snap.index \in Nat
      /\ n \in Nat /\ 1 <= n /\ ci \in Nat /\ 1 <= ci
  <2>1. n \in Nat /\ 1 <= n /\ ci \in Nat /\ 1 <= ci
    BY Bounds
  <2>. QED
    BY <2>1, Logs, Numbers DEF StorageInv
<1>1. /\ n <= ccommit /\ ci <= n /\ Conflict(ci) /\ n > rcommit
      /\ rlog' = SubSeq(llog, 1, n) /\ rterm' = lterm
      /\ stable' = n /\ rcommit' = n
      /\ released' = Smaller(released, ci - 1)
      /\ ack' = Smaller(ack, ci - 1)
      /\ rsnap'.index = n
      /\ UNCHANGED <<rapplied, pc, rd, clusterVars>>
  BY DEF RecvSnapshot, Retract
<1>l. n <= Len(llog) /\ ci <= Len(llog)
  BY <1>0, <1>1 DEF StorageInv, ClusterInv
<1>2. Len(rlog') = n /\ \A i \in 1..n : rlog'[i] = llog[i]
  <2>1. llog \in Seq(Entry)
    BY Logs DEF StorageInv
  <2>. QED
    BY <1>0, <1>1, <1>l, <2>1, PrefixType
<1>r. ReadyBounds /\ ReadyCommitted /\ ReadyOffset /\ ReadyKept /\ ReadyAcked
  BY ReadyElim DEF StorageInv
<1>3. /\ released' <= ack' /\ ack' <= ack /\ ack' <= ci - 1
      /\ ack' \in Nat
  BY <1>0, <1>1, <1>r DEF Smaller, ReadyAcked
<1>4. \A i \in 1..(ci - 1) : rlog[i] = llog[i]
  <2>1. TypeOK /\ LogInv
    BY DEF StorageInv
  <2>. QED
    BY <1>0, <1>1, <1>l, <2>1, BeforeConflict
<1>5. \A i \in 1..Len(rd.log) :
          i <= Len(llog) /\ rd.log[i].term = llog[i].term => i < ci
  <2>1. TypeOK /\ LogInv /\ ReadyInv
    BY DEF StorageInv
  <2>. QED
    BY <1>0, <1>1, <1>l, <2>1, ReadyBeforeConflict
<1>6. ReadyBounds'
  <2>1. rd.commit <= n /\ rd.term <= lterm
    BY SMTT(20), <1>0, <1>1, <1>r DEF ReadyBounds, StorageInv, RaftInv
  <2>. QED
    BY <1>1, <1>r, <2>1 DEF ReadyBounds
<1>7. ReadyCommitted'
  BY <1>1, <1>r DEF ReadyCommitted
<1>8. ReadyOffset'
  <2>1. rd.snap.index < n
    BY <1>0, <1>1, <1>r DEF ReadyBounds
  <2>2. ASSUME n <= Len(rd.log), rd.log[n].term = llog[n].term
        PROVE  FALSE
    <3>1. n \in 1..Len(rd.log) /\ ci <= n
      BY <1>0, <1>1, <2>2
    <3>2. n < ci
      BY <1>5, <1>l, <2>2, <3>1
    <3>. QED
      BY <1>0, <3>1, <3>2
  <2>. QED
    BY <1>0, <1>1, <2>1, <2>2 DEF ReadyOffset
<1>9. ReadyKept'
  <2>. SUFFICES ASSUME NEW i \in 1..Len(rd.log),
                       i <= Len(llog), rd.log[i].term = llog[i].term
                PROVE  i <= Len(rlog') /\ rlog'[i].term = llog[i].term
    BY <1>1 DEF ReadyKept
  <2>1. i \in 1..n
    BY <1>0, <1>1, <1>5
  <2>. QED
    BY <1>0, <1>2, <2>1
<1>10. ReadyAcked'
  <2>1. ack' <= Len(rlog') /\ ack' <= Len(rd.log)
    BY <1>0, <1>1, <1>2, <1>3, <1>r DEF ReadyAcked
  <2>2. ASSUME NEW i \in 1..ack' PROVE rd.log[i] = rlog'[i]
    <3>1. i \in 1..ack /\ i \in 1..(ci - 1) /\ i \in 1..n
      BY <1>0, <1>1, <1>3
    <3>. QED
      BY <3>1, <1>2, <1>4, <1>r DEF ReadyAcked
  <2>. QED
    BY <1>1, <1>3, <2>1, <2>2 DEF ReadyAcked
<1>. QED
  BY <1>6, <1>7, <1>8, <1>9, <1>10, ReadyIntro

\* A Ready describes the raft log at the moment it is taken.
LEMMA ReadyTake ==
    ASSUME StorageInv, TakeReady
    PROVE  ReadyInv'
<1>0. /\ stable \in Nat /\ rcommit \in Nat /\ rapplied \in Nat /\ rterm \in Nat
      /\ rsnap.index \in Nat /\ Len(rlog) \in Nat
  BY Logs, Numbers DEF StorageInv
<1>1. /\ UNCHANGED <<raftVars, clusterVars, released>>
      /\ rd' = [snap |-> rsnap, lo |-> stable, log |-> rlog, term |-> rterm,
                commit |-> rcommit, from |-> Larger(rapplied, rsnap.index) + 1]
      /\ ack' = Len(rlog)
  BY DEF TakeReady
<1>2. /\ rd'.snap = rsnap /\ rd'.lo = stable /\ rd'.log = rlog
      /\ rd'.term = rterm /\ rd'.commit = rcommit
      /\ rd'.from = Larger(rapplied, rsnap.index) + 1
  BY <1>1
<1>3. RaftInv
  BY DEF StorageInv
<1>6. ReadyBounds'
  BY <1>0, <1>1, <1>2, <1>3 DEF ReadyBounds, RaftInv
<1>7. ReadyCommitted'
  BY <1>1, <1>2, <1>3 DEF ReadyCommitted, RaftInv
<1>8. ReadyOffset'
  BY <1>0, <1>1, <1>2 DEF ReadyOffset
<1>9. ReadyKept'
  BY <1>1, <1>2 DEF ReadyKept
<1>10. ReadyAcked'
  BY <1>0, <1>1, <1>2, <1>3 DEF ReadyAcked, RaftInv
<1>. QED
  BY <1>6, <1>7, <1>8, <1>9, <1>10, ReadyIntro

\* Every step preserves ReadyInv: what handleReady works with stays right
\* while the raft goroutine goes on receiving messages.
LEMMA ReadyNext ==
    ASSUME StorageInv, Next
    PROVE  ReadyInv'
<1>1. CASE Active /\ Environment
  BY <1>1, ReadyEnvironment
<1>2. CASE Active /\ (RecvTerm \/ \E c \in 1..MaxIndex : RecvCommit(c))
  <2>0. rcommit \in Nat /\ rd.commit \in Nat /\ rterm \in Nat /\ lterm \in Nat
        /\ rd.term \in Nat
    BY Numbers DEF StorageInv
  <2>1. UNCHANGED <<clusterVars, rlog, stable, rapplied, rsnap, released, ack, pc, rd>>
    BY <1>2 DEF RecvTerm, RecvCommit
  <2>2. rcommit <= rcommit' /\ rcommit' \in Nat /\ rterm' = lterm
    BY <1>2, <2>0, Bounds DEF RecvTerm, RecvCommit
  <2>3. rterm <= lterm
    BY DEF StorageInv, RaftInv
  <2>r. ReadyBounds /\ ReadyCommitted /\ ReadyOffset /\ ReadyKept /\ ReadyAcked
    BY <1>2, ReadyElim DEF StorageInv
  <2>4. ReadyBounds'
    <3>1. rd.commit <= rcommit' /\ rd.term <= rterm'
      BY <2>0, <2>2, <2>3, <2>r DEF ReadyBounds
    <3>. QED
      BY <2>1, <2>r, <3>1 DEF ReadyBounds
  <2>5. ReadyCommitted' /\ ReadyOffset' /\ ReadyKept' /\ ReadyAcked'
    BY <2>1, <2>r DEF ReadyCommitted, ReadyOffset, ReadyKept, ReadyAcked
  <2>. QED
    BY <2>4, <2>5, ReadyIntro
<1>3. ASSUME Active, NEW n \in 1..MaxIndex, NEW c \in Index, NEW ci \in 1..MaxIndex,
             RecvAppend(n, c, ci)
      PROVE  ReadyInv'
  BY <1>3, ReadyAppend
<1>4. ASSUME Active, NEW n \in 1..MaxIndex, NEW m \in Index, NEW d \in Map,
             NEW ci \in 1..MaxIndex, RecvSnapshot(n, m, d, ci)
      PROVE  ReadyInv'
  BY <1>4, ReadySnapshot
<1>5. CASE ~Active /\ (Environment \/ RaftRecv \/ \E g \in gc : GcRun(g))
  <2>1. CASE Environment
    BY <1>5, <2>1, EnvironmentMoves DEF StorageInv, ReadyInv, Active
  <2>2. CASE RaftRecv
    <3>1. pc' = pc
      BY <2>2 DEF RaftRecv, RecvTerm, RecvCommit, RecvAppend, RecvSnapshot
    <3>. QED
      BY <1>5, <3>1 DEF ReadyInv, Active
  <2>3. CASE \E g \in gc : GcRun(g)
    BY <1>5, <2>3 DEF GcRun, ReadyInv, Active
  <2>. QED
    BY <1>5, <2>1, <2>2, <2>3
<1>6. CASE Bootstrap \/ Restart
  <2>1. ~up /\ pc' = pc
    BY <1>6 DEF Bootstrap, Restart, RestartFrom
  <2>2. pc = "idle"
    BY <2>1 DEF StorageInv, RaftInv, Active
  <2>. QED
    BY <2>1, <2>2 DEF ReadyInv, Active
<1>7. CASE Crash \/ Advance
  <2>1. pc' = "idle"
    BY <1>7 DEF Crash, Advance
  <2>. QED
    BY <2>1 DEF ReadyInv, Active
<1>8. CASE TakeReady
  BY <1>8, ReadyTake
<1>9. CASE SaveReady \/ Send \/ ProcessEntry \/ (Active /\ \E g \in gc : GcRun(g))
  <2>1. Active /\ UNCHANGED <<raftVars, clusterVars, rd, ack>> /\ released' \in {released, ack}
    BY <1>9 DEF SaveReady, SnapApplyState, SnapConfState,
       SnapDone, SnapPut, AppendEntry, DeleteTail, SetLastTerm, SetLastIndex,
       SaveLocalState, Send, ProcessEntry, ApplyIndex, ExecWrite, ExecNone,
       ExecCompact, Compact, Active, GcRun
  <2>r. ReadyBounds /\ ReadyCommitted /\ ReadyOffset /\ ReadyKept /\ ReadyAcked
    BY <2>1, ReadyElim DEF StorageInv
  <2>2. ReadyBounds'
    BY <2>1, <2>r DEF ReadyBounds
  <2>3. ReadyCommitted' /\ ReadyOffset' /\ ReadyKept'
    BY <2>1, <2>r DEF ReadyCommitted, ReadyOffset, ReadyKept
  <2>4. ReadyAcked'
    <3>1. released' <= ack
      <4>1. ack \in Nat
        BY Numbers DEF StorageInv
      <4>. QED
        BY <2>1, <2>r, <4>1 DEF ReadyAcked
    <3>. QED
      BY <2>1, <2>r, <3>1 DEF ReadyAcked
  <2>. QED
    BY <2>2, <2>3, <2>4, ReadyIntro
<1>. QED
  BY <1>1, <1>2, <1>3, <1>4, <1>5, <1>6, <1>7, <1>8, <1>9
  DEF Next, RaftRecv, OnTick

-----------------------------------------------------------------------------
(* Every step preserves MemInv *)

\* MemInv of a running replica from its parts.
LEMMA MemIntro ==
    ASSUME up', ApplyMem', LocalMem', AppliedMem'
    PROVE  MemInv'
BY DEF MemInv

\* The parts of MemInv for a running replica.
LEMMA MemElim ==
    ASSUME StorageInv, up
    PROVE  ApplyMem /\ LocalMem /\ AppliedMem
BY DEF StorageInv, MemInv

\* Steps of the cluster and of raft, which peerStorage does not see.
LEMMA MemQuiet ==
    ASSUME StorageInv,
           UNCHANGED <<memVars, tickVars, gc, dlocal, dapply, up, rapplied>>,
           rterm <= rterm', rcommit <= rcommit', rterm' \in Nat, rcommit' \in Nat
    PROVE  MemInv'
<1>0. /\ local.term \in Nat /\ local.commit \in Nat /\ rterm \in Nat /\ rcommit \in Nat
  BY Numbers DEF StorageInv
<1>1. CASE up
  <2>m. ApplyMem /\ LocalMem /\ AppliedMem
    BY <1>1, MemElim
  <2>1. ApplyMem'
    BY <2>m DEF ApplyMem, Current
  <2>2. LocalMem'
    <3>1. local.term <= rterm' /\ local.commit <= rcommit'
      BY <1>0, <2>m DEF LocalMem
    <3>. QED
      BY <2>m, <3>1 DEF LocalMem, Active
  <2>3. AppliedMem'
    BY <2>m DEF AppliedMem
  <2>. QED
    BY <1>1, <2>1, <2>2, <2>3, MemIntro
<1>2. CASE ~up
  BY <1>2 DEF StorageInv, MemInv
<1>. QED
  BY <1>1, <1>2

\* newPeer loads what is on disk.
LEMMA MemStart ==
    ASSUME StorageInv, Bootstrap \/ Restart
    PROVE  MemInv'
<1>0. /\ dlocal.term \in Nat /\ dlocal.commit \in Nat
      /\ dapply.index \in Nat /\ dapply.truncIndex \in Nat /\ Boot \in Nat
  BY Numbers, Bounds DEF StorageInv
<1>1. /\ ~up /\ up' /\ local' = dlocal /\ apply' = dapply
      /\ UNCHANGED <<tickVars, gc, dlocal, dapply>>
  BY DEF Bootstrap, Restart, RestartFrom
<1>2. gc = {} /\ pc = "idle" /\ dapply.truncIndex <= dapply.index
  BY <1>1 DEF StorageInv, MemInv, RaftInv, Active, DiskInv, DiskStates, DiskFresh, DiskWhole
<1>3. /\ dlocal.term <= rterm' /\ dlocal.commit <= rcommit'
      /\ dapply.index = rapplied'
  <2>1. CASE Bootstrap
    <3>1. ~dconf /\ rterm' = 1 /\ rcommit' = Boot /\ rapplied' = 0
      BY <2>1 DEF Bootstrap
    <3>2. dlocal = ZeroLocal /\ dapply = ZeroApply
      BY <3>1 DEF StorageInv, DiskInv, DiskStates, DiskFresh, DiskWhole
    <3>. QED
      BY <1>0, <3>1, <3>2 DEF ZeroLocal, ZeroApply
  <2>2. CASE Restart
    <3>1. /\ rcommit' = StartCommit /\ rterm' = dlocal.term
          /\ rapplied' = Larger(dapply.truncIndex, dapply.index)
      BY <2>2 DEF Restart, RestartFrom
    <3>2. StartCommit = dlocal.commit
      BY <1>1, StartCommitSaved DEF StorageInv
    <3>. QED
      BY <1>0, <1>2, <3>1, <3>2 DEF Larger
  <2>. QED
    BY <2>1, <2>2
<1>4. ApplyMem'
  BY <1>1, <1>2 DEF ApplyMem
<1>5. LocalMem'
  BY <1>1, <1>2, <1>3 DEF LocalMem, Active
<1>6. AppliedMem'
  BY <1>1, <1>2, <1>3 DEF AppliedMem
<1>. QED
  BY <1>1, <1>4, <1>5, <1>6, MemIntro

\* saveReadyState changes memory and disk in the order that MemInv allows.
LEMMA MemSave ==
    ASSUME StorageInv, TakeReady \/ SaveReady \/ Send
    PROVE  MemInv'
<1>0. /\ local.term \in Nat /\ local.commit \in Nat /\ local.lastIndex \in Nat
      /\ rterm \in Nat /\ rcommit \in Nat /\ rapplied \in Nat
      /\ rsnap.index \in Nat
      /\ apply.index \in Nat /\ apply.truncIndex \in Nat
      /\ rd.snap.index \in Nat /\ rd.from \in Nat /\ rd.commit \in Nat
  BY Numbers DEF StorageInv
<1>1. up /\ up' /\ UNCHANGED <<raftVars, gcVars>>
  BY DEF TakeReady, SaveReady, Send, SnapApplyState, SnapConfState,
     SnapDone, SnapPut, AppendEntry, DeleteTail, SetLastTerm, SetLastIndex,
     SaveLocalState
<1>m. ApplyMem /\ LocalMem /\ AppliedMem
  BY <1>1, MemElim
<1>2. CASE TakeReady
  <2>1. /\ pc = "idle" /\ pc' \in {"snap", "append", "save"}
        /\ pc' = "snap" => rsnap.index > 0
        /\ pc' # "snap" => rsnap.index = 0
        /\ rd'.snap = rsnap /\ rd'.term = rterm /\ rd'.commit = rcommit
        /\ rd'.from = Larger(rapplied, rsnap.index) + 1
        /\ UNCHANGED <<memVars, dlocal, dapply>>
    BY <1>0, <1>2 DEF TakeReady, StartAppend
  <2>2. ApplyMem'
    BY <1>1, <1>m, <2>1 DEF ApplyMem
  <2>3. LocalMem'
    BY <1>1, <1>m, <2>1 DEF LocalMem
  <2>4. AppliedMem'
    <3>1. pc' # "snap" => rd'.from = rapplied + 1 /\ rsnap.index <= apply.truncIndex
      BY <1>0, <2>1 DEF Larger
    <3>. QED
      BY <1>0, <1>1, <1>m, <2>1, <3>1 DEF AppliedMem
  <2>. QED
    BY <1>1, <2>2, <2>3, <2>4, MemIntro
<1>3. CASE SnapApplyState
  <2>1. /\ pc = "snap" /\ pc' = "snapConf"
        /\ local' = [local EXCEPT !.lastIndex = rd.snap.index,
                              !.lastTerm = rd.snap.term]
        /\ apply' = [index |-> rd.snap.index, truncIndex |-> rd.snap.index,
                 truncTerm |-> rd.snap.term]
        /\ dapply' = apply'
        /\ UNCHANGED <<rd, dlocal>>
    BY <1>3 DEF SnapApplyState
  <2>2. local'.term = local.term /\ local'.commit = local.commit
        /\ local'.lastIndex = rd.snap.index
    BY <2>1 DEF StorageInv, TypeOK, LocalState
  <2>3. /\ rd.snap.index > 0 /\ rapplied < rd.snap.index
        /\ rd.from = Larger(rapplied, rd.snap.index) + 1
    BY <1>m, <2>1 DEF StorageInv, ReadyInv, ReadyBounds, AppliedMem, Active
  <2>4. apply.truncIndex <= rd.snap.index /\ rd.from - 1 = rd.snap.index
    BY <1>0, <1>m, <2>1, <2>3 DEF ApplyMem, AppliedMem, Larger
  <2>5. ApplyMem'
    <3>1. ASSUME NEW g \in gc PROVE g[2] <= rd.snap.index + 1
      <4>1. g[2] <= apply.truncIndex + 1 /\ g[2] \in Nat
        BY <1>m, Bounds DEF ApplyMem, StorageInv, TypeOK
      <4>. QED
        BY <1>0, <2>4, <4>1
    <3>. QED
      BY <1>0, <1>1, <2>1, <3>1 DEF ApplyMem
  <2>6. LocalMem'
    BY <1>1, <1>m, <2>1, <2>2 DEF LocalMem, Active
  <2>7. AppliedMem'
    BY <1>0, <1>1, <2>1, <2>2, <2>3, <2>4 DEF AppliedMem
  <2>. QED
    BY <1>1, <2>5, <2>6, <2>7, MemIntro
<1>4. CASE SnapConfState \/ \E k \in Key : SnapPut(k)
  <2>1. /\ pc \in {"snapConf", "snapData"} /\ pc' = "snapData"
        /\ UNCHANGED <<memVars, rd, dlocal, dapply>>
    BY <1>4 DEF SnapConfState, SnapPut
  <2>2. ApplyMem'
    BY <1>1, <1>m, <2>1 DEF ApplyMem
  <2>3. LocalMem'
    BY <1>1, <1>m, <2>1 DEF LocalMem, Active
  <2>4. AppliedMem'
    BY <1>1, <1>m, <2>1 DEF AppliedMem
  <2>. QED
    BY <1>1, <2>2, <2>3, <2>4, MemIntro
<1>5. CASE SnapDone
  <2>1. /\ pc = "snapData" /\ pc' \in {"append", "save"}
        /\ UNCHANGED <<memVars, rd, dlocal, dapply>>
    BY <1>5 DEF SnapDone, StartAppend
  <2>2. ApplyMem'
    BY <1>1, <1>m, <2>1 DEF ApplyMem
  <2>3. LocalMem'
    BY <1>0, <1>1, <1>m, <2>1 DEF LocalMem, AppliedMem, Active
  <2>4. AppliedMem'
    BY <1>1, <1>m, <2>1 DEF AppliedMem
  <2>. QED
    BY <1>1, <2>2, <2>3, <2>4, MemIntro
<1>6. CASE AppendEntry \/ DeleteTail
  <2>1. /\ pc = "append" /\ pc' = "append"
        /\ UNCHANGED <<memVars, rd, dlocal, dapply>>
    BY <1>6 DEF AppendEntry, DeleteTail
  <2>2. ApplyMem'
    BY <1>1, <1>m, <2>1 DEF ApplyMem
  <2>3. LocalMem'
    BY <1>1, <1>m, <2>1 DEF LocalMem, Active
  <2>4. AppliedMem'
    BY <1>1, <1>m, <2>1 DEF AppliedMem
  <2>. QED
    BY <1>1, <2>2, <2>3, <2>4, MemIntro
<1>7. CASE SetLastTerm \/ SetLastIndex
  <2>1. /\ pc \in {"append", "setIndex"} /\ pc' \in {"setIndex", "save"}
        /\ UNCHANGED <<apply, rd, dlocal, dapply>>
        /\ \/ local' = [local EXCEPT !.lastTerm = LastEntTerm]
           \/ local' = [local EXCEPT !.lastIndex = LastEntIndex]
    BY <1>7 DEF SetLastTerm, SetLastIndex
  <2>2. local'.term = local.term /\ local'.commit = local.commit
    BY <2>1 DEF StorageInv, TypeOK, LocalState
  <2>3. ApplyMem'
    BY <1>1, <1>m, <2>1 DEF ApplyMem
  <2>4. LocalMem'
    BY <1>1, <1>m, <2>1, <2>2 DEF LocalMem, Active
  <2>5. AppliedMem'
    BY <1>1, <1>m, <2>1 DEF AppliedMem
  <2>. QED
    BY <1>1, <2>3, <2>4, <2>5, MemIntro
<1>8. CASE SaveLocalState
  <2>1. /\ pc = "save" /\ pc' = "send"
        /\ local' = [local EXCEPT !.term = rd.term, !.commit = rd.commit]
        /\ dlocal' = local'
        /\ UNCHANGED <<apply, rd, dapply>>
    BY <1>8 DEF SaveLocalState, WriteLocalState
  <2>2. local'.term = rd.term /\ local'.commit = rd.commit
    BY <2>1 DEF StorageInv, TypeOK, LocalState
  <2>3. rd.term <= rterm /\ rd.commit <= rcommit /\ rd.term \in Nat
    BY <2>1, Numbers DEF StorageInv, ReadyInv, ReadyBounds, Active
  <2>4. ApplyMem'
    BY <1>1, <1>m, <2>1 DEF ApplyMem
  <2>5. LocalMem'
    BY <1>0, <1>1, <2>1, <2>2, <2>3 DEF LocalMem, Active
  <2>6. AppliedMem'
    BY <1>1, <1>m, <2>1 DEF AppliedMem
  <2>. QED
    BY <1>1, <2>4, <2>5, <2>6, MemIntro
<1>9. CASE Send
  <2>1. /\ pc = "send" /\ pc' = "apply" /\ cur' = rd.from
        /\ UNCHANGED <<memVars, rd, dlocal, dapply>>
    BY <1>9 DEF Send
  <2>2. rd.from <= rd.commit + 1
    <3>1. ReadyBounds
      BY <2>1 DEF StorageInv, ReadyInv, Active
    <3>. QED
      BY <1>0, <3>1 DEF ReadyBounds, Larger
  <2>3. ApplyMem'
    BY <1>1, <1>m, <2>1 DEF ApplyMem
  <2>4. LocalMem'
    BY <1>1, <1>m, <2>1 DEF LocalMem, Active
  <2>5. AppliedMem'
    BY <1>0, <1>1, <1>m, <2>1, <2>2 DEF AppliedMem
  <2>. QED
    BY <1>1, <2>3, <2>4, <2>5, MemIntro
<1>. QED
  BY <1>2, <1>3, <1>4, <1>5, <1>6, <1>7, <1>8, <1>9 DEF SaveReady

\* The entry that process has in hand is the cluster's.
LEMMA CurrentEntry ==
    ASSUME StorageInv, up, pc \in {"exec", "compact"}
    PROVE  /\ cur \in 1..Len(rd.log) /\ cur \in 1..rd.commit /\ cur = apply.index
           /\ cur <= ccommit
           /\ Current = llog[cur]
           /\ Current \in Entry
           /\ Current.kind = "compact" =>
                /\ Current.cidx \in Nat /\ 1 <= Current.cidx /\ Current.cidx < cur
                /\ Current.cterm = llog[Current.cidx].term
<1>0. /\ cur \in Nat /\ rd.commit \in Nat /\ Len(rd.log) \in Nat /\ Len(llog) \in Nat
      /\ rcommit \in Nat /\ ccommit \in Nat /\ rd.from \in Nat /\ 1 <= rd.from
      /\ \A i \in 1..Len(rd.log) : rd.log[i] \in Entry
  BY Numbers, Logs DEF StorageInv
<1>1. cur = apply.index /\ cur <= rd.commit /\ rd.from <= cur
  BY MemElim DEF AppliedMem
<1>2. ReadyBounds /\ ReadyCommitted
  BY DEF StorageInv, ReadyInv, Active
<1>3. cur \in 1..rd.commit /\ cur \in 1..Len(rd.log)
  BY <1>0, <1>1, <1>2 DEF ReadyBounds
<1>4. Current = llog[cur] /\ Current \in Entry
  BY <1>0, <1>2, <1>3 DEF ReadyCommitted, Current
<1>5. cur <= ccommit /\ cur \in 1..Len(llog)
  BY <1>0, <1>2, <1>3 DEF ReadyBounds, StorageInv, RaftInv, ClusterInv
<1>6. Current.cidx \in Nat
  BY <1>4, EntryType
<1>. QED
  BY <1>1, <1>3, <1>4, <1>5, <1>6 DEF StorageInv, ClusterInv

\* process moves the applied index, and a CompactLog request the truncated
\* index, in memory and then on disk.
LEMMA MemProcess ==
    ASSUME StorageInv, ProcessEntry
    PROVE  MemInv'
<1>0. /\ cur \in Nat /\ rd.commit \in Nat /\ rd.from \in Nat
      /\ apply.index \in Nat /\ apply.truncIndex \in Nat
  BY Numbers DEF StorageInv
<1>1. up /\ up' /\ UNCHANGED <<raftVars, local, dlocal, rd>>
  BY DEF ProcessEntry, ApplyIndex, ExecWrite, ExecNone, ExecCompact, Compact
<1>m. ApplyMem /\ LocalMem /\ AppliedMem
  BY <1>1, MemElim
<1>l. ASSUME pc \in {"apply", "exec", "compact"}, pc' \in {"apply", "exec", "compact"}
      PROVE  LocalMem'
  BY <1>1, <1>m, <1>l DEF LocalMem, Active
<1>2. CASE ApplyIndex
  <2>1. /\ pc = "apply" /\ pc' = "exec" /\ cur <= rd.commit
        /\ apply' = [apply EXCEPT !.index = cur] /\ dapply' = apply'
        /\ UNCHANGED <<gc, cur>>
    BY <1>2 DEF ApplyIndex
  <2>2. apply'.index = cur /\ apply'.truncIndex = apply.truncIndex
    BY <2>1 DEF StorageInv, TypeOK, ApplyState
  <2>3. ApplyMem'
    <3>1. apply.truncIndex <= cur
      BY <1>0, <1>m, <2>1 DEF ApplyMem, AppliedMem
    <3>. QED
      BY <1>1, <1>m, <2>1, <2>2, <3>1 DEF ApplyMem
  <2>4. AppliedMem'
    BY <1>1, <1>m, <2>1, <2>2 DEF AppliedMem
  <2>. QED
    BY <1>1, <1>l, <2>1, <2>3, <2>4, MemIntro
<1>3. CASE ExecWrite \/ ExecNone
  <2>1. /\ pc = "exec" /\ pc' = "apply" /\ cur' = cur + 1
        /\ UNCHANGED <<apply, dapply, gc>>
    BY <1>3 DEF ExecWrite, ExecNone
  <2>2. ApplyMem'
    BY <1>1, <1>m, <2>1 DEF ApplyMem
  <2>3. AppliedMem'
    BY <1>0, <1>1, <1>m, <2>1 DEF AppliedMem
  <2>. QED
    BY <1>1, <1>l, <2>1, <2>2, <2>3, MemIntro
<1>4. CASE ExecCompact
  <2>1. /\ pc = "exec" /\ pc' = "compact" /\ Current.kind = "compact"
        /\ Current.cidx >= apply.truncIndex
        /\ apply' = [apply EXCEPT !.truncIndex = Current.cidx]
        /\ UNCHANGED <<dapply, gc, cur>>
    BY <1>4 DEF ExecCompact
  <2>2. apply'.index = apply.index /\ apply'.truncIndex = Current.cidx
    BY <2>1 DEF StorageInv, TypeOK, ApplyState
  <2>3. Current' = Current
    BY <1>1, <2>1 DEF Current
  <2>4. Current.cidx \in Nat /\ Current.cidx < cur /\ cur = apply.index
    BY <1>1, <2>1, CurrentEntry
  <2>5. ApplyMem'
    <3>1. ASSUME NEW g \in gc PROVE g[2] <= Current.cidx + 1
      <4>1. g[2] <= apply.truncIndex + 1 /\ g[2] \in Nat
        BY <1>m, Bounds DEF ApplyMem, StorageInv, TypeOK
      <4>. QED
        BY <1>0, <2>1, <2>4, <4>1
    <3>2. dapply.index = apply.index /\ dapply.truncIndex <= Current.cidx
      BY <1>0, <1>m, <2>1, <2>4 DEF ApplyMem
    <3>3. Current.cidx <= apply.index
      BY <1>0, <2>4
    <3>. QED
      BY <1>1, <2>1, <2>2, <2>3, <3>1, <3>2, <3>3 DEF ApplyMem
  <2>6. AppliedMem'
    BY <1>1, <1>m, <2>1, <2>2 DEF AppliedMem
  <2>. QED
    BY <1>1, <1>l, <2>1, <2>5, <2>6, MemIntro
<1>5. CASE Compact
  <2>1. /\ pc = "compact" /\ pc' = "apply" /\ cur' = cur + 1
        /\ apply' = [apply EXCEPT !.truncTerm = Current.cterm] /\ dapply' = apply'
        /\ gc' = gc \cup {<<lastCompacted + 1, apply.truncIndex + 1>>}
    BY <1>5 DEF Compact
  <2>2. apply'.index = apply.index /\ apply'.truncIndex = apply.truncIndex
    BY <2>1 DEF StorageInv, TypeOK, ApplyState
  <2>3. ApplyMem'
    <3>1. \A g \in gc' : g[2] <= apply.truncIndex + 1
      BY <1>0, <1>m, <2>1 DEF ApplyMem
    <3>. QED
      BY <1>m, <2>1, <2>2, <3>1 DEF ApplyMem
  <2>4. AppliedMem'
    BY <1>0, <1>1, <1>m, <2>1, <2>2 DEF AppliedMem
  <2>. QED
    BY <1>1, <1>l, <2>1, <2>3, <2>4, MemIntro
<1>. QED
  BY <1>2, <1>3, <1>4, <1>5 DEF ProcessEntry

\* Advance tells raft the applied index that memory and disk already have.
LEMMA MemAdvance ==
    ASSUME StorageInv, Advance
    PROVE  MemInv'
<1>0. /\ cur \in Nat /\ rd.commit \in Nat /\ rd.from \in Nat /\ rapplied \in Nat
      /\ apply.index \in Nat /\ rd.snap.index \in Nat
  BY Numbers DEF StorageInv
<1>1. /\ up /\ up' /\ pc = "apply" /\ pc' = "idle" /\ cur > rd.commit
      /\ rapplied' = IF rd.from <= rd.commit THEN rd.commit
                     ELSE IF rd.snap.index > 0 THEN rd.snap.index
                     ELSE rapplied
      /\ UNCHANGED <<memVars, dlocal, dapply, gc, rterm, rcommit>>
  BY DEF Advance
<1>m. ApplyMem /\ LocalMem /\ AppliedMem
  BY <1>1, MemElim
<1>2. cur = apply.index + 1 /\ cur <= rd.commit + 1 /\ rd.from <= cur
  BY <1>1, <1>m DEF AppliedMem
<1>3. /\ rd.from = Larger(rapplied, rd.snap.index) + 1
      /\ rd.snap.index > 0 => rapplied < rd.snap.index
  BY <1>1 DEF StorageInv, ReadyInv, ReadyBounds, Active
<1>4. apply.index = rapplied'
  BY <1>0, <1>1, <1>2, <1>3 DEF Larger
<1>5. ApplyMem'
  BY <1>1, <1>m DEF ApplyMem
<1>6. LocalMem'
  BY <1>1, <1>m DEF LocalMem, Active
<1>7. AppliedMem'
  BY <1>1, <1>4 DEF AppliedMem
<1>. QED
  BY <1>1, <1>5, <1>6, <1>7, MemIntro

\* Every step preserves MemInv: the states in memory and on disk differ only
\* between an assignment and the write that follows it.
LEMMA MemNext ==
    ASSUME StorageInv, Next
    PROVE  MemInv'
<1>0. rterm \in Nat /\ lterm \in Nat /\ rcommit \in Nat /\ rterm <= lterm
  BY Numbers DEF StorageInv, RaftInv
<1>1. CASE Environment
  BY <1>0, <1>1, EnvironmentMoves, MemQuiet DEF StorageInv
<1>2. CASE RaftRecv
  <2>1. /\ UNCHANGED <<memVars, tickVars, gc, dlocal, dapply, up, rapplied>>
        /\ rterm' = lterm
    BY <1>2 DEF RaftRecv, RecvTerm, RecvCommit, RecvAppend, RecvSnapshot
  <2>2. rcommit <= rcommit' /\ rcommit' \in Nat
    BY <1>0, <1>2, Bounds
    DEF RaftRecv, RecvTerm, RecvCommit, RecvAppend, RecvSnapshot, Index
  <2>. QED
    BY <1>0, <2>1, <2>2, MemQuiet
<1>3. CASE Crash
  BY <1>3 DEF Crash, MemInv
<1>4. CASE \E g \in gc : GcRun(g)
  <2>1. /\ UNCHANGED <<memVars, tickVars, dlocal, dapply, up, raftVars>>
        /\ gc' \subseteq gc /\ up /\ up'
    BY <1>4 DEF GcRun
  <2>m. ApplyMem /\ LocalMem /\ AppliedMem
    BY <2>1, MemElim
  <2>2. ApplyMem'
    BY <2>1, <2>m DEF ApplyMem, Current
  <2>3. LocalMem' /\ AppliedMem'
    BY <2>1, <2>m DEF LocalMem, AppliedMem, Active
  <2>. QED
    BY <2>1, <2>2, <2>3, MemIntro
<1>. QED
  BY <1>1, <1>2, <1>3, <1>4, MemStart, MemSave, MemProcess, MemAdvance
  DEF Next, OnTick

-----------------------------------------------------------------------------
(* Every step preserves WriteInv *)

\* gcRaftLog never deletes anything: the truncated index has already passed
\* the range it is called with.
LEMMA GcDeletesNothing ==
    ASSUME StorageInv, NEW g \in gc, GcRun(g)
    PROVE  dlog' = dlog
<1>1. up /\ g[1] \in Nat /\ g[2] \in Nat /\ apply.truncIndex \in Nat
  <2>1. g \in (1..(MaxIndex + 1)) \X (1..(MaxIndex + 1)) /\ MaxIndex \in Nat
    BY Bounds DEF StorageInv, TypeOK
  <2>2. up /\ apply.truncIndex \in Nat
    BY Numbers DEF StorageInv, GcRun
  <2>. QED
    BY <2>1, <2>2
<1>2. g[2] <= apply.truncIndex + 1
  BY <1>1, MemElim DEF ApplyMem
<1>3. ~(g[1] < g[2] /\ EntriesOK(g[1], g[2]))
  BY <1>1, <1>2 DEF EntriesOK, CheckRange
<1>. QED
  BY <1>3 DEF GcRun

\* A step that leaves the Ready, the states in memory and the log on disk
\* alone preserves WriteInv.
LEMMA WriteQuiet ==
    ASSUME StorageInv, UNCHANGED <<memVars, pc, cur, rd, dlog>>
    PROVE  WriteInv'
BY DEF StorageInv, WriteInv, AppendProgress, LogWritten, LastMem, Saved, LastEntTerm

\* truncateAndAppend starts behind both the stable log and the truncated
\* index; when it is skipped there is nothing to write.
LEMMA WriteTake ==
    ASSUME StorageInv, TakeReady
    PROVE  WriteInv'
<1>0. /\ Len(rlog) \in Nat /\ stable \in Nat /\ apply.truncIndex \in Nat
      /\ local.lastIndex \in Nat /\ rsnap.index \in Nat
      /\ rcommit \in Nat /\ rapplied \in Nat
  BY Logs, Numbers DEF StorageInv
<1>1. /\ rd'.log = rlog /\ rd'.lo = stable
      /\ rsnap.index > 0 => pc' = "snap"
      /\ ~(rsnap.index > 0) => StartAppend(rd', apply.truncIndex)
      /\ up /\ pc = "idle" /\ UNCHANGED <<memVars, dlog>>
  BY DEF TakeReady
<1>2. CASE rsnap.index > 0
  BY <1>1, <1>2 DEF WriteInv, AppendProgress, LogWritten, LastMem, Saved, LastEntTerm
<1>3. CASE rsnap.index = 0
  <2>0. stable <= Len(rlog)
    BY DEF StorageInv, RaftInv
  <2>s. /\ \A i \in (apply.truncIndex + 1)..stable : dlog[i] = rlog[i]
        /\ Len(rlog) = stable => local.lastIndex = stable
        /\ local.lastIndex <= stable /\ apply.truncIndex < local.lastIndex =>
             local.lastTerm = rlog[local.lastIndex].term
    BY <1>1, <1>3 DEF StorageInv, StoreInv, ContractInv
  <2>1. CASE Len(rlog) > stable /\ Len(rlog) > apply.truncIndex
    <3>1. pc' = "append" /\ cur' = Larger(stable, apply.truncIndex) + 1
      BY <1>0, <1>1, <1>3, <2>1 DEF StartAppend
    <3>2. stable < cur' /\ apply.truncIndex < cur'
      BY <1>0, <3>1 DEF Larger
    <3>3. ASSUME NEW i \in (apply.truncIndex + 1)..Len(rlog), i < cur'
          PROVE  dlog[i] = rlog[i]
      <4>1. i \in (apply.truncIndex + 1)..stable
        BY <1>0, <3>1, <3>3 DEF Larger
      <4>. QED
        BY <2>s, <4>1
    <3>. QED
      BY <1>1, <2>1, <3>1, <3>2, <3>3
      DEF WriteInv, AppendProgress, LogWritten, LastMem, Saved
  <2>2. CASE ~(Len(rlog) > stable /\ Len(rlog) > apply.truncIndex)
    <3>1. pc' = "save"
      BY <1>0, <1>1, <1>3, <2>2 DEF StartAppend
    <3>2. Len(rlog) = stable
      <4>1. apply.truncIndex <= stable \/ apply.truncIndex < rcommit
        BY <1>1 DEF StorageInv, StoreInv, TruncInv
      <4>2. rcommit <= Len(rlog)
        BY DEF StorageInv, RaftInv
      <4>. QED
        BY <1>0, <2>0, <2>2, <4>1, <4>2
    <3>3. \A i \in (apply.truncIndex + 1)..Len(rlog) : dlog[i] = rlog[i]
      BY <2>s, <3>2
    <3>4. /\ local.lastIndex = Len(rlog)
          /\ apply.truncIndex < Len(rlog) => local.lastTerm = rlog[Len(rlog)].term
      BY <1>0, <2>s, <3>2
    <3>. QED
      BY <1>1, <3>1, <3>3, <3>4
      DEF WriteInv, AppendProgress, LogWritten, LastMem, Saved, LastEntTerm
  <2>. QED
    BY <2>1, <2>2
<1>. QED
  BY <1>0, <1>2, <1>3

\* After applySnapshot truncateAndAppend starts behind the snapshot.
LEMMA WriteSnapDone ==
    ASSUME StorageInv, SnapDone
    PROVE  WriteInv'
<1>0. /\ Len(rd.log) \in Nat /\ rd.lo \in Nat /\ apply.truncIndex \in Nat
      /\ local.lastIndex \in Nat /\ rd.snap.index \in Nat
  BY Logs, Numbers DEF StorageInv
<1>1. /\ up /\ pc = "snapData" /\ StartAppend(rd, apply.truncIndex)
      /\ UNCHANGED <<memVars, rd, dlog>>
  BY DEF SnapDone
<1>2. /\ apply.truncIndex = rd.snap.index /\ local.lastIndex = rd.snap.index
      /\ rd.snap.index > 0
  BY <1>1, MemElim DEF AppliedMem
<1>3. rd.lo = rd.snap.index /\ rd.lo <= Len(rd.log)
  BY <1>1, <1>2 DEF StorageInv, ReadyInv, ReadyBounds, Active
<1>4. CASE Len(rd.log) > rd.lo
  <2>1. pc' = "append" /\ cur' = apply.truncIndex + 1
    BY <1>0, <1>1, <1>2, <1>3, <1>4 DEF StartAppend, Larger
  <2>2. \A i \in (apply.truncIndex + 1)..Len(rd.log) : ~(i < cur')
    BY <1>0, <2>1
  <2>3. rd.lo < cur' /\ apply.truncIndex < cur'
    BY <1>0, <1>2, <1>3, <2>1
  <2>. QED
    BY <1>1, <1>4, <2>1, <2>2, <2>3
    DEF WriteInv, AppendProgress, LogWritten, LastMem, Saved
<1>5. CASE Len(rd.log) = rd.lo
  <2>1. pc' = "save"
    BY <1>0, <1>1, <1>5 DEF StartAppend
  <2>2. apply.truncIndex = Len(rd.log) /\ local.lastIndex = Len(rd.log)
    BY <1>2, <1>3, <1>5
  <2>. QED
    BY <1>0, <1>1, <2>1, <2>2
    DEF WriteInv, AppendProgress, LogWritten, LastMem, Saved
<1>. QED
  BY <1>0, <1>3, <1>4, <1>5

\* Each write of truncateAndAppend extends what is on disk by one entry.
LEMMA WriteAppend ==
    ASSUME StorageInv, AppendEntry \/ DeleteTail
    PROVE  WriteInv'
<1>0. /\ Len(rd.log) \in Nat /\ rd.lo \in Nat /\ apply.truncIndex \in Nat /\ cur \in Nat
      /\ dlog \in [1..MaxIndex -> Entry]
  BY Logs, Numbers DEF StorageInv
<1>1. /\ pc = "append" /\ pc' = "append" /\ cur' = cur + 1
      /\ UNCHANGED <<memVars, rd>>
  BY DEF AppendEntry, DeleteTail
<1>2. /\ rd.lo < Len(rd.log) /\ rd.lo < cur /\ apply.truncIndex < cur
      /\ \A i \in (apply.truncIndex + 1)..Len(rd.log) :
           i < cur => dlog[i] = rd.log[i]
  BY <1>1 DEF StorageInv, WriteInv, AppendProgress
<1>l. Len(rd.log) <= MaxIndex /\ MaxIndex \in Nat
  BY Logs, Bounds DEF StorageInv
<1>3. ASSUME NEW i \in (apply.truncIndex + 1)..Len(rd.log), i < cur + 1
      PROVE  dlog'[i] = rd.log[i]
  <2>0. i \in 1..MaxIndex
    BY <1>0, <1>l
  <2>1. CASE AppendEntry
    <3>1. dlog' = [dlog EXCEPT ![cur] = rd.log[cur]]
      BY <2>1 DEF AppendEntry
    <3>2. CASE i = cur
      BY <1>0, <2>0, <3>1, <3>2
    <3>3. CASE i < cur
      BY <1>0, <1>2, <2>0, <3>1, <3>3
    <3>. QED
      BY <1>0, <1>3, <3>2, <3>3
  <2>2. CASE DeleteTail
    <3>1. dlog' = [dlog EXCEPT ![cur] = Hole] /\ cur > Len(rd.log)
      BY <2>2 DEF DeleteTail
    <3>. QED
      BY <1>0, <1>2, <2>0, <3>1
  <2>. QED
    BY <2>1, <2>2
<1>4. rd.lo < cur + 1 /\ apply.truncIndex < cur + 1
  BY <1>0, <1>2
<1>. QED
  BY <1>1, <1>2, <1>3, <1>4 DEF WriteInv, AppendProgress, LogWritten, LastMem, Saved

\* truncateAndAppend leaves the last index and term of the Ready in memory.
LEMMA WriteLast ==
    ASSUME StorageInv, SetLastTerm \/ SetLastIndex
    PROVE  WriteInv'
<1>0. Len(rd.log) \in Nat /\ apply.truncIndex \in Nat /\ cur \in Nat
  BY Logs, Numbers DEF StorageInv
<1>1. CASE SetLastTerm
  <2>1. /\ pc = "append" /\ pc' = "setIndex" /\ cur > Len(rd.log)
        /\ local' = [local EXCEPT !.lastTerm = LastEntTerm]
        /\ UNCHANGED <<apply, rd, dlog>>
    BY <1>1 DEF SetLastTerm
  <2>2. local'.lastTerm = LastEntTerm
    BY <2>1 DEF StorageInv, TypeOK, LocalState
  <2>3. /\ rd.lo < Len(rd.log)
        /\ \A i \in (apply.truncIndex + 1)..Len(rd.log) : dlog[i] = rd.log[i]
    BY <1>0, <2>1 DEF StorageInv, WriteInv, AppendProgress
  <2>. QED
    BY <2>1, <2>2, <2>3
    DEF WriteInv, AppendProgress, LogWritten, LastMem, Saved, LastEntTerm
<1>2. CASE SetLastIndex
  <2>1. /\ pc = "setIndex" /\ pc' = "save"
        /\ local' = [local EXCEPT !.lastIndex = LastEntIndex]
        /\ UNCHANGED <<apply, rd, dlog>>
    BY <1>2 DEF SetLastIndex
  <2>2. local'.lastTerm = local.lastTerm /\ local'.lastIndex = Len(rd.log)
    BY <2>1 DEF StorageInv, TypeOK, LocalState, LastEntIndex
  <2>3. /\ local.lastTerm = LastEntTerm
        /\ \A i \in (apply.truncIndex + 1)..Len(rd.log) : dlog[i] = rd.log[i]
    BY <2>1 DEF StorageInv, WriteInv, LogWritten, LastMem
  <2>. QED
    BY <2>1, <2>2, <2>3
    DEF WriteInv, AppendProgress, LogWritten, LastMem, Saved, LastEntTerm
<1>. QED
  BY <1>1, <1>2

\* The truncated index only grows.
LEMMA TruncGrows ==
    ASSUME StorageInv, SaveLocalState \/ Send \/ ProcessEntry
    PROVE  apply.truncIndex <= apply'.truncIndex /\ apply'.truncIndex \in Nat
<1>0. apply.truncIndex \in Nat
  BY Numbers DEF StorageInv
<1>1. CASE apply'.truncIndex = apply.truncIndex
  BY <1>0, <1>1
<1>2. CASE ExecCompact
  <2>1. /\ up /\ pc = "exec" /\ Current.kind = "compact"
        /\ Current.cidx >= apply.truncIndex
        /\ apply' = [apply EXCEPT !.truncIndex = Current.cidx]
    BY <1>2 DEF ExecCompact
  <2>2. apply'.truncIndex = Current.cidx
    BY <2>1 DEF StorageInv, TypeOK, ApplyState
  <2>3. Current.cidx \in Nat
    BY <2>1, CurrentEntry
  <2>. QED
    BY <1>0, <2>1, <2>2, <2>3
<1>3. CASE ApplyIndex \/ Compact
  BY <1>0, <1>3 DEF ApplyIndex, Compact, StorageInv, TypeOK, ApplyState
<1>4. CASE SaveLocalState \/ Send \/ ExecWrite \/ ExecNone
  BY <1>1, <1>4 DEF SaveLocalState, Send, ExecWrite, ExecNone
<1>. QED
  BY <1>2, <1>3, <1>4 DEF ProcessEntry

\* Applying entries only shortens, from below, the log WriteInv is about.
LEMMA WriteProcess ==
    ASSUME StorageInv, SaveLocalState \/ Send \/ ProcessEntry
    PROVE  WriteInv'
<1>0. /\ Len(rd.log) \in Nat /\ apply.truncIndex \in Nat
  BY Logs, Numbers DEF StorageInv
<1>1. pc \in Saved /\ pc' \in Saved /\ UNCHANGED <<rd, dlog>>
  BY DEF SaveLocalState, Send, ProcessEntry, ApplyIndex, ExecWrite, ExecNone,
     ExecCompact, Compact, Saved
<1>2. local'.lastIndex = local.lastIndex /\ local'.lastTerm = local.lastTerm
  BY DEF SaveLocalState, Send, ProcessEntry, ApplyIndex, ExecWrite, ExecNone,
     ExecCompact, Compact, StorageInv, TypeOK, LocalState
<1>3. apply.truncIndex <= apply'.truncIndex /\ apply'.truncIndex \in Nat
  BY TruncGrows
<1>4. /\ \A i \in (apply.truncIndex + 1)..Len(rd.log) : dlog[i] = rd.log[i]
      /\ local.lastIndex = Len(rd.log)
      /\ apply.truncIndex < Len(rd.log) => local.lastTerm = LastEntTerm
  BY <1>1 DEF StorageInv, WriteInv, LogWritten, LastMem
<1>5. AppendProgress'
  BY <1>1 DEF AppendProgress, Saved
<1>6. LogWritten'
  BY <1>0, <1>1, <1>3, <1>4 DEF LogWritten
<1>7. LastMem'
  BY <1>0, <1>1, <1>2, <1>3, <1>4 DEF LastMem, LastEntTerm, Saved
<1>. QED
  BY <1>5, <1>6, <1>7 DEF WriteInv

\* Every step preserves WriteInv.
LEMMA WriteNext ==
    ASSUME StorageInv, Next
    PROVE  WriteInv'
<1>1. ASSUME pc' \in {"idle", "snapConf", "snapData"}
      PROVE  WriteInv'
  BY <1>1 DEF WriteInv, AppendProgress, LogWritten, LastMem, Saved
<1>2. CASE Environment
  BY <1>2, EnvironmentMoves, WriteQuiet DEF StorageInv
<1>3. CASE RaftRecv
  BY <1>3, WriteQuiet DEF RaftRecv, RecvTerm, RecvCommit, RecvAppend, RecvSnapshot
<1>4. CASE Bootstrap \/ Restart
  <2>1. ~up /\ pc' = pc
    BY <1>4 DEF Bootstrap, Restart, RestartFrom
  <2>. QED
    BY <1>1, <2>1 DEF StorageInv, RaftInv, Active
<1>5. CASE Crash \/ Advance \/ SnapApplyState \/ SnapConfState \/ \E k \in Key : SnapPut(k)
  <2>1. pc' \in {"idle", "snapConf", "snapData"}
    BY <1>5 DEF Crash, Advance, SnapApplyState, SnapConfState, SnapPut
  <2>. QED
    BY <1>1, <2>1
<1>6. CASE \E g \in gc : GcRun(g)
  BY <1>6, GcDeletesNothing, WriteQuiet DEF GcRun
<1>. QED
  BY <1>2, <1>3, <1>4, <1>5, <1>6, WriteTake, WriteSnapDone, WriteAppend,
     WriteLast, WriteProcess
  DEF Next, OnTick, SaveReady

-----------------------------------------------------------------------------
(* Every step preserves StoreInv *)

\* What is applied is committed.
LEMMA AppliedCommitted ==
    ASSUME StorageInv, up
    PROVE  /\ apply.index <= rcommit
           /\ apply.truncIndex <= rcommit
           /\ Active => apply.index <= rd.commit
<1>0. /\ apply.index \in Nat /\ apply.truncIndex \in Nat /\ rcommit \in Nat
      /\ rapplied \in Nat /\ rd.commit \in Nat /\ rd.from \in Nat /\ cur \in Nat
      /\ rd.snap.index \in Nat
  BY Numbers DEF StorageInv
<1>m. ApplyMem /\ AppliedMem
  BY MemElim
<1>1. CASE Active
  <2>1. ReadyBounds
    BY <1>1, ReadyElim DEF StorageInv
  <2>2. pc \in {"snap", "snapConf", "snapData", "append", "setIndex", "save",
                "send", "apply", "exec", "compact"}
    BY <1>1 DEF StorageInv, TypeOK, Active
  <2>3. apply.index <= rd.commit
    BY <1>0, <1>m, <2>1, <2>2 DEF AppliedMem, ReadyBounds, Larger
  <2>. QED
    BY <1>0, <1>m, <2>1, <2>3 DEF ApplyMem, ReadyBounds
<1>2. CASE ~Active
  BY <1>0, <1>m, <1>2 DEF AppliedMem, ApplyMem, Active, StorageInv, RaftInv
<1>. QED
  BY <1>1, <1>2

\* Every step preserves TruncInv: a CompactLog request is below the applied
\* index, and a conflict above the commit index.
LEMMA TruncNext ==
    ASSUME StorageInv, Next
    PROVE  TruncInv'
<1>0. /\ apply.truncIndex \in Nat /\ rcommit \in Nat /\ stable \in Nat
      /\ dlocal.lastIndex \in Nat /\ rsnap.index \in Nat /\ rd.snap.index \in Nat
      /\ rd.commit \in Nat
  BY Numbers DEF StorageInv
<1>1. ASSUME up' = up, apply'.truncIndex = apply.truncIndex,
             stable <= stable', stable' \in Nat,
             rcommit <= rcommit', rcommit' \in Nat
      PROVE  TruncInv'
  BY <1>0, <1>1 DEF StorageInv, StoreInv, TruncInv
<1>2. CASE Environment
  BY <1>0, <1>1, <1>2, EnvironmentMoves DEF StorageInv
<1>3. CASE RecvTerm \/ \E c \in 1..MaxIndex : RecvCommit(c)
  BY <1>0, <1>1, <1>3, Bounds DEF RecvTerm, RecvCommit
<1>4. ASSUME NEW n \in 1..MaxIndex, NEW c \in Index, NEW ci \in 1..MaxIndex,
             RecvAppend(n, c, ci)
      PROVE  TruncInv'
  <2>1. /\ up /\ ci > rcommit /\ c >= rcommit /\ stable' = Smaller(stable, ci - 1)
        /\ rcommit' = c /\ UNCHANGED <<up, apply>>
    BY <1>4 DEF RecvAppend
  <2>2. apply.truncIndex <= rcommit /\ ci \in Nat /\ c \in Nat
    BY <2>1, AppliedCommitted, Bounds DEF Index
  <2>3. apply.truncIndex <= stable \/ apply.truncIndex < rcommit
    BY <2>1 DEF StorageInv, StoreInv, TruncInv
  <2>. QED
    BY <1>0, <2>1, <2>2, <2>3 DEF TruncInv, Smaller
<1>5. ASSUME NEW n \in 1..MaxIndex, NEW m \in Index, NEW d \in Map,
             NEW ci \in 1..MaxIndex, RecvSnapshot(n, m, d, ci)
      PROVE  TruncInv'
  <2>1. up /\ n > rcommit /\ stable' = n /\ apply' = apply
    BY <1>5 DEF RecvSnapshot
  <2>2. apply.truncIndex <= rcommit /\ n \in Nat
    BY <2>1, AppliedCommitted, Bounds
  <2>. QED
    BY <1>0, <2>1, <2>2 DEF TruncInv
<1>6. CASE Bootstrap
  <2>1. ~dconf /\ apply' = dapply /\ stable' = 0
    BY <1>6 DEF Bootstrap
  <2>. QED
    BY <2>1 DEF StorageInv, DiskInv, DiskStates, DiskFresh, DiskWhole, ZeroApply, TruncInv
<1>7. CASE Restart
  <2>1. ~up /\ apply' = dapply /\ stable' = dlocal.lastIndex
    BY <1>7 DEF Restart, RestartFrom
  <2>2. /\ dapply.truncIndex <= dapply.index /\ dapply.index <= dlocal.commit
        /\ dlocal.commit <= dlocal.lastIndex
    BY <2>1, StartCommitSaved DEF StorageInv
  <2>3. dapply.truncIndex <= dlocal.lastIndex
    BY <2>2, Numbers DEF StorageInv
  <2>. QED
    BY <2>1, <2>3 DEF TruncInv
<1>8. CASE Crash
  BY <1>8 DEF Crash, TruncInv
<1>9. CASE SnapApplyState
  <2>1. /\ up /\ pc = "snap" /\ UNCHANGED <<stable, rcommit>>
        /\ apply' = [index |-> rd.snap.index, truncIndex |-> rd.snap.index,
                     truncTerm |-> rd.snap.term]
    BY <1>9 DEF SnapApplyState
  <2>2. Active /\ rd.snap.index > 0 /\ rd.snap.index <= rd.commit
    BY <2>1, MemElim DEF StorageInv, ReadyInv, ReadyBounds, AppliedMem, Active
  <2>3. CASE rsnap.index = rd.snap.index
    BY <2>1, <2>2, <2>3, <1>0 DEF StorageInv, RaftInv, TruncInv
  <2>4. CASE rsnap.index # rd.snap.index
    <3>1. rd.commit < rsnap.index
      BY <2>2, <2>4, NewerSnapshot DEF StorageInv
    <3>2. rsnap.index = stable
      BY <1>0, <3>1 DEF StorageInv, RaftInv
    <3>. QED
      BY <1>0, <2>1, <2>2, <3>1, <3>2 DEF TruncInv
  <2>. QED
    BY <2>3, <2>4
<1>10. CASE ExecCompact
  <2>1. /\ up /\ pc = "exec" /\ UNCHANGED <<stable, rcommit>>
        /\ Current.kind = "compact"
        /\ apply' = [apply EXCEPT !.truncIndex = Current.cidx]
    BY <1>10 DEF ExecCompact
  <2>2. apply'.truncIndex = Current.cidx
    BY <2>1 DEF StorageInv, TypeOK, ApplyState
  <2>3. Current.cidx \in Nat /\ Current.cidx < apply.index /\ apply.index \in Nat
    BY <2>1, CurrentEntry, Numbers DEF StorageInv
  <2>4. apply.index <= rcommit
    BY <2>1, AppliedCommitted
  <2>. QED
    BY <1>0, <2>1, <2>2, <2>3, <2>4 DEF TruncInv
<1>11. CASE Advance
  <2>1. /\ up' = up /\ UNCHANGED <<apply, rcommit>>
        /\ stable' = IF StillLast(rd) THEN Len(rd.log) ELSE stable
    BY <1>11 DEF Advance
  <2>2. stable <= stable' /\ stable' \in Nat
    <3>1. StillLast(rd) => stable < Len(rd.log)
      BY DEF StillLast
    <3>2. Len(rd.log) \in Nat
      BY Logs DEF StorageInv
    <3>. QED
      BY <1>0, <2>1, <3>1, <3>2
  <2>. QED
    BY <1>0, <1>1, <2>1, <2>2
<1>12. CASE ApplyIndex \/ Compact
  BY <1>0, <1>1, <1>12 DEF ApplyIndex, Compact, StorageInv, TypeOK, ApplyState
<1>13. CASE UNCHANGED <<up, apply, stable, rcommit>>
  BY <1>0, <1>1, <1>13
<1>14. CASE TakeReady \/ SnapConfState \/ SnapDone \/ \E k \in Key : SnapPut(k)
  BY <1>13, <1>14 DEF TakeReady, SnapConfState, SnapDone, SnapPut
<1>15. CASE AppendEntry \/ DeleteTail \/ SetLastTerm \/ SetLastIndex \/ SaveLocalState
            \/ Send \/ ExecWrite \/ ExecNone \/ \E g \in gc : GcRun(g)
  BY <1>13, <1>15 DEF AppendEntry, DeleteTail, SetLastTerm, SetLastIndex,
     SaveLocalState, Send, ExecWrite, ExecNone, GcRun
<1>. QED
  BY <1>2, <1>3, <1>4, <1>5, <1>6, <1>7, <1>8, <1>9, <1>10, <1>11, <1>12, <1>14,
     <1>15
  DEF Next, RaftRecv, OnTick, SaveReady, ProcessEntry

\* The parts of the contract that a step may not see.
LEMMA ContractQuiet ==
    ASSUME StorageInv, UNCHANGED <<up, stable, rlog, rsnap, dlog>>,
           local'.lastIndex = local.lastIndex, local'.lastTerm = local.lastTerm,
           apply.truncIndex <= apply'.truncIndex, apply'.truncIndex \in Nat,
           pc # "setIndex"
    PROVE  ContractInv'
<1>0. /\ apply.truncIndex \in Nat /\ stable \in Nat /\ local.lastIndex \in Nat
  BY Numbers DEF StorageInv
<1>. SUFFICES ASSUME up, rsnap.index = 0
              PROVE  ContractInv'
  BY DEF ContractInv
<1>1. /\ stable <= local.lastIndex
      /\ \A i \in (apply.truncIndex + 1)..stable : dlog[i] = rlog[i]
      /\ Len(rlog) = stable => local.lastIndex = stable
      /\ local.lastIndex <= stable /\ apply.truncIndex < local.lastIndex =>
             local.lastTerm = rlog[local.lastIndex].term
  BY DEF StorageInv, StoreInv, ContractInv
<1>2. \A i \in (apply'.truncIndex + 1)..stable : dlog[i] = rlog[i]
  BY <1>0, <1>1
<1>3. apply'.truncIndex < local.lastIndex => apply.truncIndex < local.lastIndex
  BY <1>0
<1>. QED
  BY <1>1, <1>2, <1>3 DEF ContractInv

\* A MsgApp moves the unstable offset back to the first conflict, below which
\* the log on disk is still the one in raft.
LEMMA ContractAppend ==
    ASSUME StorageInv,
           NEW n \in 1..MaxIndex, NEW c \in Index, NEW ci \in 1..MaxIndex,
           RecvAppend(n, c, ci)
    PROVE  ContractInv'
<1>0. /\ apply.truncIndex \in Nat /\ stable \in Nat /\ local.lastIndex \in Nat
      /\ n \in Nat /\ ci \in Nat /\ 1 <= ci /\ Len(llog) \in Nat
  <2>1. n \in Nat /\ ci \in Nat /\ 1 <= ci
    BY Bounds
  <2>. QED
    BY <2>1, Numbers, Logs DEF StorageInv
<1>1. /\ n <= Len(llog) /\ ci <= n /\ Conflict(ci) /\ up
      /\ rlog' = SubSeq(llog, 1, n) /\ stable' = Smaller(stable, ci - 1)
      /\ UNCHANGED <<rsnap, memVars, dlog, up, pc>>
  BY DEF RecvAppend
<1>2. Len(rlog') = n /\ \A i \in 1..n : rlog'[i] = llog[i]
  <2>1. llog \in Seq(Entry)
    BY Logs DEF StorageInv
  <2>. QED
    BY <1>0, <1>1, <2>1, PrefixType
<1>3. \A i \in 1..(ci - 1) : rlog[i] = llog[i]
  <2>1. TypeOK /\ LogInv /\ ci <= Len(llog)
    BY <1>0, <1>1 DEF StorageInv
  <2>. QED
    BY <1>0, <1>1, <2>1, BeforeConflict
<1>4. \A i \in 1..(ci - 1) : rlog'[i] = rlog[i]
  BY <1>0, <1>1, <1>2, <1>3
<1>5. stable' <= stable /\ stable' <= ci - 1 /\ stable' \in Nat
  BY <1>0, <1>1 DEF Smaller
<1>. SUFFICES ASSUME rsnap.index = 0
              PROVE  ContractInv'
  BY <1>1 DEF ContractInv
<1>6. /\ stable <= local.lastIndex
      /\ \A i \in (apply.truncIndex + 1)..stable : dlog[i] = rlog[i]
      /\ pc # "setIndex" /\ local.lastIndex <= stable
            /\ apply.truncIndex < local.lastIndex =>
             local.lastTerm = rlog[local.lastIndex].term
  BY <1>1 DEF StorageInv, StoreInv, ContractInv
<1>7. stable' <= local.lastIndex /\ Len(rlog') # stable'
  BY <1>0, <1>1, <1>2, <1>5, <1>6
<1>8. \A i \in (apply.truncIndex + 1)..stable' : dlog[i] = rlog'[i]
  BY <1>0, <1>4, <1>5, <1>6
<1>9. pc # "setIndex" /\ local.lastIndex <= stable'
            /\ apply.truncIndex < local.lastIndex =>
             local.lastTerm = rlog'[local.lastIndex].term
  BY <1>0, <1>4, <1>5, <1>6
<1>. QED
  BY <1>1, <1>7, <1>8, <1>9 DEF ContractInv

\* A restarted raft finds in storage what it believes is there.
LEMMA ContractStart ==
    ASSUME StorageInv, Bootstrap \/ Restart
    PROVE  ContractInv'
<1>1. CASE Bootstrap
  <2>1. /\ ~dconf /\ stable' = 0 /\ local' = dlocal /\ apply' = dapply
    BY <1>1 DEF Bootstrap
  <2>2. dlocal = ZeroLocal /\ dapply = ZeroApply
    BY <2>1 DEF StorageInv, DiskInv, DiskStates, DiskFresh, DiskWhole
  <2>. QED
    BY <2>1, <2>2 DEF ContractInv, ZeroLocal, ZeroApply
<1>2. CASE Restart
  <2>1. /\ ~up /\ rlog' = DiskLog /\ stable' = dlocal.lastIndex
        /\ local' = dlocal /\ apply' = dapply /\ dlog' = dlog
    BY <1>2 DEF Restart, RestartFrom, DiskLog
  <2>2. /\ Len(DiskLog) = dlocal.lastIndex
        /\ \A i \in 1..dlocal.lastIndex :
                DiskLog[i] = IF i <= dapply.truncIndex THEN llog[i] ELSE dlog[i]
    BY DiskLogType DEF StorageInv
  <2>0. dlocal.lastIndex \in Nat /\ dapply.truncIndex \in Nat
    BY Numbers DEF StorageInv
  <2>3. \A i \in (dapply.truncIndex + 1)..dlocal.lastIndex : dlog[i] = DiskLog[i]
    BY <2>0, <2>2
  <2>4. dapply.truncIndex < dlocal.lastIndex =>
                dlocal.lastTerm = dlog[dlocal.lastIndex].term
    BY <2>1, StartCommitSaved DEF StorageInv
  <2>5. dapply.truncIndex < dlocal.lastIndex =>
                dlocal.lastTerm = DiskLog[dlocal.lastIndex].term
    BY <2>0, <2>3, <2>4
  <2>. QED
    BY <2>0, <2>1, <2>2, <2>3, <2>5 DEF ContractInv
<1>. QED
  BY <1>1, <1>2

\* truncateAndAppend writes above the offset of the unstable log, which raft
\* does not read from storage.
LEMMA ContractWrite ==
    ASSUME StorageInv, AppendEntry \/ DeleteTail \/ SetLastTerm \/ SetLastIndex
    PROVE  ContractInv'
<1>0. /\ apply.truncIndex \in Nat /\ stable \in Nat /\ local.lastIndex \in Nat
      /\ rd.lo \in Nat /\ cur \in Nat /\ Len(rd.log) \in Nat /\ Len(rlog) \in Nat
  BY Numbers, Logs DEF StorageInv
<1>1. /\ Active /\ up /\ UNCHANGED <<up, stable, rlog, rsnap, apply, rd>>
      /\ pc \in {"append", "setIndex"}
  BY DEF AppendEntry, DeleteTail, SetLastTerm, SetLastIndex, Active
<1>. SUFFICES ASSUME rsnap.index = 0
              PROVE  ContractInv'
  BY <1>1 DEF ContractInv
<1>2. /\ stable <= local.lastIndex
      /\ \A i \in (apply.truncIndex + 1)..stable : dlog[i] = rlog[i]
      /\ Len(rlog) = stable => local.lastIndex = stable
      /\ pc # "setIndex" /\ local.lastIndex <= stable
            /\ apply.truncIndex < local.lastIndex =>
             local.lastTerm = rlog[local.lastIndex].term
  BY <1>1 DEF StorageInv, StoreInv, ContractInv
<1>3. stable <= rd.lo /\ (Len(rlog) = stable => Len(rd.log) = stable)
  BY <1>1 DEF StorageInv, ReadyInv, ReadyOffset
<1>4. CASE AppendEntry \/ DeleteTail
  <2>1. /\ pc = "append" /\ pc' = pc /\ local' = local
        /\ \/ dlog' = [dlog EXCEPT ![cur] = rd.log[cur]]
           \/ dlog' = [dlog EXCEPT ![cur] = Hole]
    BY <1>4 DEF AppendEntry, DeleteTail
  <2>2. rd.lo < cur
    BY <2>1 DEF StorageInv, WriteInv, AppendProgress
  <2>3. ASSUME NEW i \in (apply.truncIndex + 1)..stable
        PROVE  dlog'[i] = rlog[i]
    <3>1. i # cur
      BY <1>0, <1>3, <2>2
    <3>2. dlog \in [1..MaxIndex -> Entry] /\ i \in 1..MaxIndex
      <4>1. dlog \in [1..MaxIndex -> Entry] /\ stable <= MaxIndex /\ MaxIndex \in Nat
        BY Bounds DEF StorageInv, TypeOK, Index
      <4>. QED
        BY <1>0, <4>1
    <3>. QED
      BY <1>2, <2>1, <3>1, <3>2
  <2>. QED
    BY <1>1, <1>2, <2>1, <2>3 DEF ContractInv
<1>5. CASE SetLastTerm
  <2>1. /\ pc' = "setIndex" /\ dlog' = dlog
        /\ local' = [local EXCEPT !.lastTerm = LastEntTerm]
    BY <1>5 DEF SetLastTerm
  <2>2. local'.lastIndex = local.lastIndex
    BY <2>1 DEF StorageInv, TypeOK, LocalState
  <2>. QED
    BY <1>1, <1>2, <2>1, <2>2 DEF ContractInv
<1>6. CASE SetLastIndex
  <2>1. /\ pc = "setIndex" /\ dlog' = dlog
        /\ local' = [local EXCEPT !.lastIndex = LastEntIndex]
    BY <1>6 DEF SetLastIndex
  <2>2. local'.lastIndex = Len(rd.log)
    BY <2>1 DEF StorageInv, TypeOK, LocalState, LastEntIndex
  <2>3. rd.lo < Len(rd.log)
    BY <2>1 DEF StorageInv, WriteInv, LastMem
  <2>4. stable < Len(rd.log) /\ (Len(rlog) = stable => Len(rd.log) = stable)
    BY <1>0, <1>3, <2>3
  <2>. QED
    BY <1>0, <1>1, <1>2, <2>1, <2>2, <2>4 DEF ContractInv
<1>. QED
  BY <1>4, <1>5, <1>6

\* Advance declares stable only what truncateAndAppend has written.
LEMMA ContractAdvance ==
    ASSUME StorageInv, Advance
    PROVE  ContractInv'
<1>0. /\ apply.truncIndex \in Nat /\ stable \in Nat /\ local.lastIndex \in Nat
      /\ rd.lo \in Nat /\ Len(rd.log) \in Nat /\ Len(rlog) \in Nat
      /\ rsnap.index \in Nat /\ rd.snap.index \in Nat
      /\ rd.commit \in Nat /\ rcommit \in Nat
  BY Numbers, Logs DEF StorageInv
<1>1. /\ up /\ up' /\ pc = "apply" /\ pc' = "idle"
      /\ stable' = IF StillLast(rd) THEN Len(rd.log) ELSE stable
      /\ rsnap' = IF rsnap.index = rd.snap.index THEN NoSnap ELSE rsnap
      /\ UNCHANGED <<rlog, memVars, dlog>>
  BY DEF Advance
<1>r. ReadyBounds /\ ReadyCommitted /\ ReadyOffset
  BY <1>1, ReadyElim DEF StorageInv, Active
<1>2. CASE rsnap.index # rd.snap.index
  BY <1>0, <1>1, <1>2, <1>r DEF ReadyOffset, ContractInv
<1>3. CASE rsnap.index = rd.snap.index
  <2>1. /\ \A i \in (apply.truncIndex + 1)..Len(rd.log) : dlog[i] = rd.log[i]
        /\ local.lastIndex = Len(rd.log)
        /\ apply.truncIndex < Len(rd.log) =>
              local.lastTerm = rd.log[Len(rd.log)].term
    BY <1>1 DEF StorageInv, WriteInv, LogWritten, LastMem, Saved, LastEntTerm
  <2>2. CASE StillLast(rd)
    <3>1. \A i \in 1..Len(rd.log) : rd.log[i] = rlog[i]
      BY <2>2, StillLastPrefix DEF StorageInv
    <3>2. \A i \in (apply.truncIndex + 1)..Len(rd.log) : dlog[i] = rlog[i]
      BY <1>0, <2>1, <3>1
    <3>3. apply.truncIndex < Len(rd.log) =>
              local.lastTerm = rlog[Len(rd.log)].term
      BY <1>0, <2>1, <3>1
    <3>4. stable' = Len(rd.log)
      BY <1>1, <2>2
    <3>. QED
      BY <1>0, <1>1, <2>1, <3>2, <3>3, <3>4 DEF ContractInv
  <2>3. CASE ~StillLast(rd)
    <3>0. stable' = stable
      BY <1>1, <2>3
    <3>1. /\ stable <= rd.lo /\ rd.lo <= Len(rd.log)
          /\ Len(rlog) = stable => Len(rd.log) = stable
      BY <1>3, <1>r DEF ReadyOffset, ReadyBounds
    <3>2. ASSUME NEW i \in (apply.truncIndex + 1)..stable
          PROVE  dlog[i] = rlog[i]
      <4>1. CASE rsnap.index = 0
        BY <1>1, <4>1 DEF StorageInv, StoreInv, ContractInv
      <4>2. CASE rsnap.index > 0
        <5>1. stable = rsnap.index /\ rsnap.index <= rd.commit
          BY <1>3, <1>r, <4>2 DEF StorageInv, RaftInv, ReadyBounds
        <5>2. rd.commit <= Len(rd.log) /\ rd.commit <= rcommit
          BY <1>r DEF ReadyBounds
        <5>3. /\ i \in 1..rd.commit /\ i \in 1..rcommit
              /\ i \in (apply.truncIndex + 1)..Len(rd.log)
          BY <1>0, <5>1, <5>2
        <5>4. rd.log[i] = llog[i] /\ rlog[i] = llog[i]
          BY <1>r, <5>3 DEF ReadyCommitted, StorageInv, RaftInv
        <5>. QED
          BY <2>1, <5>3, <5>4
      <4>. QED
        BY <1>0, <4>1, <4>2
    <3>3. ASSUME local.lastIndex <= stable, apply.truncIndex < local.lastIndex
          PROVE  local.lastTerm = rlog[local.lastIndex].term
      <4>1. Len(rd.log) = stable /\ apply.truncIndex < Len(rd.log)
        BY <1>0, <2>1, <3>1, <3>3
      <4>2. dlog[stable] = rlog[stable] /\ dlog[stable] = rd.log[stable]
        BY <1>0, <2>1, <3>2, <4>1
      <4>. QED
        BY <2>1, <4>1, <4>2
    <3>4. stable <= local.lastIndex /\ (Len(rlog) = stable => local.lastIndex = stable)
      BY <1>0, <2>1, <3>1
    <3>. QED
      BY <1>1, <3>0, <3>2, <3>3, <3>4 DEF ContractInv
  <2>. QED
    BY <2>2, <2>3
<1>. QED
  BY <1>2, <1>3

\* Every step preserves ContractInv.
LEMMA ContractNext ==
    ASSUME StorageInv, Next
    PROVE  ContractInv'
<1>0. apply.truncIndex \in Nat /\ rsnap.index \in Nat
  BY Numbers DEF StorageInv
<1>1. CASE UNCHANGED <<up, pc, stable, rlog, rsnap, dlog, local, apply>>
  BY <1>1 DEF StorageInv, StoreInv, ContractInv
<1>2. CASE Environment \/ RecvTerm \/ \E c \in 1..MaxIndex : RecvCommit(c)
  BY <1>1, <1>2, EnvironmentMoves DEF StorageInv, RecvTerm, RecvCommit
<1>3. ASSUME NEW n \in 1..MaxIndex, NEW m \in Index, NEW d \in Map,
             NEW ci \in 1..MaxIndex, RecvSnapshot(n, m, d, ci)
      PROVE  ContractInv'
  <2>1. rsnap'.index = n /\ n # 0
    BY <1>3, Bounds DEF RecvSnapshot
  <2>. QED
    BY <2>1 DEF ContractInv
<1>4. CASE Crash
  BY <1>4 DEF Crash, ContractInv
<1>5. CASE SnapApplyState
  <2>1. up /\ pc = "snap" /\ rsnap' = rsnap
    BY <1>5 DEF SnapApplyState
  <2>2. rd.snap.index > 0
    BY <2>1, MemElim DEF AppliedMem
  <2>3. rsnap.index # 0
    BY <1>0, <2>1, <2>2 DEF StorageInv, ReadyInv, ReadyOffset, Active
  <2>. QED
    BY <2>1, <2>3 DEF ContractInv
<1>6. CASE TakeReady \/ SnapConfState \/ SnapDone \/ (\E k \in Key : SnapPut(k)) \/ Send
  BY <1>0, <1>6, ContractQuiet
  DEF TakeReady, SnapConfState, SnapDone, SnapPut, Send
<1>7. CASE SaveLocalState \/ ProcessEntry
  <2>1. UNCHANGED <<up, stable, rlog, rsnap, dlog>> /\ pc # "setIndex"
    BY <1>7 DEF SaveLocalState, ProcessEntry, ApplyIndex, ExecWrite, ExecNone,
       ExecCompact, Compact
  <2>2. local'.lastIndex = local.lastIndex /\ local'.lastTerm = local.lastTerm
    BY <1>7 DEF SaveLocalState, ProcessEntry, ApplyIndex, ExecWrite, ExecNone,
       ExecCompact, Compact, StorageInv, TypeOK, LocalState
  <2>3. apply.truncIndex <= apply'.truncIndex /\ apply'.truncIndex \in Nat
    BY <1>7, TruncGrows
  <2>. QED
    BY <2>1, <2>2, <2>3, ContractQuiet
<1>8. CASE \E g \in gc : GcRun(g)
  BY <1>1, <1>8, GcDeletesNothing DEF GcRun
<1>. QED
  BY <1>2, <1>3, <1>4, <1>5, <1>6, <1>7, <1>8, ContractAppend, ContractStart,
     ContractWrite, ContractAdvance
  DEF Next, RaftRecv, OnTick, SaveReady

\* Every step preserves StoreInv.
LEMMA StoreNext ==
    ASSUME StorageInv, Next
    PROVE  StoreInv'
BY TruncNext, ContractNext DEF StoreInv

-----------------------------------------------------------------------------
(* Every step preserves DiskInv, as long as there is no crash in a window *)

\* Every step preserves DiskStates.
LEMMA DiskStatesNext ==
    ASSUME StorageInv, Next
    PROVE  DiskStates'
<1>0. /\ dapply.truncIndex \in Nat /\ dapply.index \in Nat /\ ccommit \in Nat
      /\ lterm \in Nat /\ dlocal.term \in Nat /\ dlocal.commit \in Nat
      /\ rterm \in Nat /\ rcommit \in Nat /\ rd.term \in Nat /\ rd.commit \in Nat
      /\ rd.snap.index \in Nat /\ cur \in Nat
  BY Numbers DEF StorageInv
<1>d. DiskStates
  BY DEF StorageInv, DiskInv
<1>r. rcommit <= ccommit /\ rterm <= lterm
  BY DEF StorageInv, RaftInv
<1>1. CASE Environment
  <2>1. ClusterMoves /\ ClusterStep
    BY <1>1, EnvironmentMoves DEF StorageInv
  <2>2. /\ ccommit <= ccommit' /\ lterm <= lterm' /\ ccommit' \in Nat /\ lterm' \in Nat
        /\ \A i \in 1..ccommit : llog'[i] = llog[i]
    BY <1>0, <2>1, Bounds DEF ClusterMoves, Index, Term
  <2>3. TermAt(llog', dapply.truncIndex) = TermAt(llog, dapply.truncIndex)
    BY <1>0, <1>d, <2>2 DEF DiskStates, TermAt
  <2>4. dapply' = dapply /\ dlocal' = dlocal
    BY <2>1
  <2>. QED
    BY <1>0, <1>d, <2>2, <2>3, <2>4 DEF DiskStates
<1>2. CASE UNCHANGED <<clusterVars, dapply, dlocal>>
  BY <1>d, <1>2 DEF DiskStates, TermAt
<1>3. CASE SnapApplyState
  <2>1. /\ up /\ pc = "snap" /\ UNCHANGED <<clusterVars, dlocal>>
        /\ dapply' = [index |-> rd.snap.index, truncIndex |-> rd.snap.index,
                      truncTerm |-> rd.snap.term]
    BY <1>3 DEF SnapApplyState
  <2>2. ReadyBounds /\ ReadyCommitted
    BY <2>1 DEF StorageInv, ReadyInv, Active
  <2>3. /\ rd.snap.index > 0 /\ rd.snap.index <= rd.commit /\ rd.commit <= rcommit
        /\ rd.snap.term = llog[rd.snap.index].term
    BY <2>1, <2>2, MemElim DEF ReadyBounds, ReadyCommitted, AppliedMem
  <2>4. dapply'.truncTerm = TermAt(llog, dapply'.truncIndex)
    BY <1>0, <2>1, <2>3 DEF TermAt
  <2>5. dapply'.index = rd.snap.index /\ dapply'.truncIndex = rd.snap.index
    BY <2>1
  <2>6. rd.snap.index <= ccommit
    BY <1>0, <1>r, <2>3
  <2>. QED
    BY <1>0, <1>d, <2>1, <2>4, <2>5, <2>6 DEF DiskStates, TermAt
<1>4. CASE SaveLocalState
  <2>1. /\ pc = "save" /\ dlocal' = [local EXCEPT !.term = rd.term, !.commit = rd.commit]
        /\ UNCHANGED <<clusterVars, dapply>>
    BY <1>4 DEF SaveLocalState, WriteLocalState
  <2>2. dlocal'.term = rd.term /\ dlocal'.commit = rd.commit
    BY <2>1 DEF StorageInv, TypeOK, LocalState
  <2>3. rd.term <= rterm /\ rd.commit <= rcommit
    BY <2>1 DEF StorageInv, ReadyInv, ReadyBounds, Active
  <2>. QED
    BY <1>0, <1>d, <1>r, <2>1, <2>2, <2>3 DEF DiskStates, TermAt
<1>5. CASE ApplyIndex
  <2>1. /\ up /\ pc = "apply" /\ cur <= rd.commit /\ UNCHANGED <<clusterVars, dlocal>>
        /\ dapply' = [apply EXCEPT !.index = cur]
    BY <1>5 DEF ApplyIndex
  <2>2. apply = dapply /\ cur = apply.index + 1
    BY <2>1, MemElim DEF ApplyMem, AppliedMem
  <2>3. /\ dapply'.index = cur /\ dapply'.truncIndex = dapply.truncIndex
        /\ dapply'.truncTerm = dapply.truncTerm
    BY <2>1, <2>2 DEF StorageInv, TypeOK, ApplyState
  <2>4. rd.commit <= rcommit
    BY <2>1 DEF StorageInv, ReadyInv, ReadyBounds, Active
  <2>. QED
    BY <1>0, <1>d, <1>r, <2>1, <2>2, <2>3, <2>4 DEF DiskStates, TermAt
<1>6. CASE Compact
  <2>1. /\ up /\ pc = "compact" /\ UNCHANGED <<clusterVars, dlocal>>
        /\ dapply' = [apply EXCEPT !.truncTerm = Current.cterm]
    BY <1>6 DEF Compact
  <2>2. /\ dapply'.index = apply.index /\ dapply'.truncIndex = apply.truncIndex
        /\ dapply'.truncTerm = Current.cterm
    BY <2>1 DEF StorageInv, TypeOK, ApplyState
  <2>3. /\ apply.index = dapply.index /\ Current.kind = "compact"
        /\ apply.truncIndex = Current.cidx /\ apply.truncIndex <= apply.index
    BY <2>1, MemElim DEF ApplyMem
  <2>4. Current.cidx \in Nat /\ 1 <= Current.cidx /\ Current.cterm = llog[Current.cidx].term
    BY <2>1, <2>3, CurrentEntry
  <2>5. dapply'.truncTerm = TermAt(llog, dapply'.truncIndex)
    BY <2>2, <2>3, <2>4 DEF TermAt
  <2>. QED
    BY <1>d, <2>1, <2>2, <2>3, <2>5 DEF DiskStates, TermAt
<1>7. CASE RaftRecv \/ Bootstrap \/ Restart \/ Crash
  BY <1>2, <1>7 DEF RaftRecv, RecvTerm, RecvCommit, RecvAppend, RecvSnapshot,
     Bootstrap, Restart, RestartFrom, Crash
<1>8. CASE TakeReady \/ SnapConfState \/ SnapDone \/ (\E k \in Key : SnapPut(k))
           \/ AppendEntry \/ DeleteTail \/ SetLastTerm \/ SetLastIndex
  BY <1>2, <1>8 DEF TakeReady, SnapConfState, SnapDone, SnapPut, AppendEntry,
     DeleteTail, SetLastTerm, SetLastIndex
<1>9. CASE Send \/ ExecWrite \/ ExecNone \/ ExecCompact \/ Advance
           \/ \E g \in gc : GcRun(g)
  BY <1>2, <1>9 DEF Send, ExecWrite, ExecNone, ExecCompact, Advance, GcRun
<1>. QED
  BY <1>1, <1>3, <1>4, <1>5, <1>6, <1>7, <1>8, <1>9
  DEF Next, OnTick, SaveReady, ProcessEntry

\* Every step preserves DiskFresh: newPeer writes the ConfState first.
LEMMA DiskFreshNext ==
    ASSUME StorageInv, Next
    PROVE  DiskFresh'
<1>1. CASE ~dconf
  <2>1. ~up /\ dlocal = ZeroLocal /\ dapply = ZeroApply /\ released = 0
    BY <1>1 DEF StorageInv, DiskInv, DiskFresh
  <2>2. CASE Environment
    BY <2>1, <2>2, EnvironmentMoves DEF StorageInv, DiskFresh
  <2>3. CASE Bootstrap
    BY <2>3 DEF Bootstrap, DiskFresh
  <2>4. ~RaftRecv /\ ~Restart /\ ~Crash /\ ~OnTick /\ ~\E g \in gc : GcRun(g)
    BY <1>1, <2>1 DEF RaftRecv, RecvTerm, RecvCommit, RecvAppend, RecvSnapshot,
       Restart, RestartFrom, Crash, OnTick, TakeReady, SaveReady, SnapApplyState,
       SnapConfState, SnapDone, SnapPut, AppendEntry, DeleteTail, SetLastTerm,
       SetLastIndex, SaveLocalState, Send, ProcessEntry, ApplyIndex, ExecWrite,
       ExecNone, ExecCompact, Compact, Advance, GcRun
  <2>. QED
    BY <2>2, <2>3, <2>4 DEF Next
<1>2. CASE dconf
  <2>1. CASE Environment
    BY <1>2, <2>1, EnvironmentMoves DEF StorageInv, DiskFresh
  <2>2. CASE RaftRecv
    <3>1. UNCHANGED diskVars
      BY <2>2 DEF RaftRecv, RecvTerm, RecvCommit, RecvAppend, RecvSnapshot, RaftStep
    <3>. QED
      BY <1>2, <3>1 DEF diskVars, DiskFresh
  <2>3. CASE Bootstrap \/ Restart \/ Crash
    BY <1>2, <2>3 DEF Bootstrap, Restart, RestartFrom, Crash, diskVars, DiskFresh
  <2>4. CASE TakeReady \/ Send \/ Advance
    BY <1>2, <2>4 DEF TakeReady, Send, Advance, diskVars, DiskFresh
  <2>5. CASE SaveReady
    BY <1>2, <2>5 DEF SaveReady, SnapApplyState, SnapConfState, SnapDone, SnapPut, AppendEntry,
       DeleteTail, SetLastTerm, SetLastIndex, SaveLocalState, diskVars, DiskFresh
  <2>6. CASE ProcessEntry
    BY <1>2, <2>6 DEF ProcessEntry, ApplyIndex, ExecWrite, ExecNone, ExecCompact, Compact,
       diskVars, DiskFresh
  <2>7. CASE \E g \in gc : GcRun(g)
    BY <1>2, <2>7 DEF GcRun, DiskFresh
  <2>. QED
    BY <2>1, <2>2, <2>3, <2>4, <2>5, <2>6, <2>7 DEF Next, OnTick
<1>. QED
  BY <1>1, <1>2

\* The log on disk is the same when its entries are.
LEMMA DiskLogSame ==
    ASSUME dlocal'.lastIndex = dlocal.lastIndex,
           \A i \in 1..dlocal.lastIndex :
             (IF i <= dapply'.truncIndex THEN llog'[i] ELSE dlog'[i])
             = (IF i <= dapply.truncIndex THEN llog[i] ELSE dlog[i])
    PROVE  DiskLog' = DiskLog
BY DEF DiskLog

\* A move of the cluster leaves the committed log on disk the cluster's.
LEMMA DiskWholeEnvironment ==
    ASSUME StorageInv, DiskWhole, Environment
    PROVE  DiskWhole'
<1>0. /\ dapply.truncIndex \in Nat /\ dapply.index \in Nat /\ ccommit \in Nat
      /\ dlocal.commit \in Nat /\ dlocal.lastIndex \in Nat
  BY Numbers DEF StorageInv
<1>1. ClusterMoves /\ UNCHANGED <<dlog, dlocal, dapply>>
  BY EnvironmentMoves DEF StorageInv
<1>2. \A i \in 1..ccommit : llog'[i] = llog[i]
  BY <1>1 DEF ClusterMoves
<1>d. /\ dapply.truncIndex <= dapply.index /\ dapply.index <= ccommit
      /\ dlocal.commit <= ccommit
  BY DEF StorageInv, DiskInv, DiskStates
<1>3. \A i \in 1..dapply.truncIndex : llog'[i] = llog[i]
  BY <1>0, <1>2, <1>d
<1>4. DiskLog' = DiskLog
  BY <1>0, <1>1, <1>3, DiskLogSame
<1>5. Follows(DiskLog, llog', lterm')
  <2>1. DiskLog \in Seq(Entry)
    BY DiskLogType DEF StorageInv
  <2>. QED
    BY <1>1, <2>1 DEF ClusterMoves, DiskWhole
<1>6. \A i \in 1..dlocal.commit : DiskLog[i] = llog'[i]
  BY <1>0, <1>2, <1>d DEF DiskWhole
<1>. QED
  BY <1>1, <1>4, <1>5, <1>6 DEF DiskWhole

\* truncateAndAppend writes behind the last index on disk.
LEMMA DiskWholeWrite ==
    ASSUME StorageInv, DiskWhole, AppendEntry \/ DeleteTail, dlocal.lastIndex < cur
    PROVE  DiskWhole'
<1>0. /\ dlocal.lastIndex \in Nat /\ dapply.truncIndex \in Nat /\ cur \in Nat
      /\ dlocal.lastIndex <= MaxIndex /\ MaxIndex \in Nat
      /\ dlog \in [1..MaxIndex -> Entry]
  <2>1. dlocal.lastIndex <= MaxIndex /\ MaxIndex \in Nat
    BY Bounds DEF StorageInv, TypeOK, LocalState, Index
  <2>. QED
    BY <2>1, Numbers, Logs DEF StorageInv
<1>1. /\ UNCHANGED <<clusterVars, dlocal, dapply>>
      /\ \/ dlog' = [dlog EXCEPT ![cur] = rd.log[cur]]
         \/ dlog' = [dlog EXCEPT ![cur] = Hole]
  BY DEF AppendEntry, DeleteTail
<1>2. \A i \in 1..dlocal.lastIndex : dlog'[i] = dlog[i]
  BY <1>0, <1>1
<1>3. DiskLog' = DiskLog
  BY <1>1, <1>2, DiskLogSame
<1>4. dapply.truncIndex < dlocal.lastIndex =>
         dlog'[dlocal.lastIndex] = dlog[dlocal.lastIndex]
  BY <1>0, <1>2
<1>. QED
  BY <1>1, <1>3, <1>4 DEF DiskWhole

\* writeLocalState makes the log of the Ready the one on disk.
LEMMA DiskWholeSave ==
    ASSUME StorageInv, SaveLocalState
    PROVE  DiskWhole'
<1>0. /\ apply.truncIndex \in Nat /\ apply.index \in Nat /\ rd.commit \in Nat
      /\ Len(rd.log) \in Nat /\ rd.log \in Seq(Entry)
  BY Numbers, Logs DEF StorageInv
<1>1. /\ up /\ pc = "save"
      /\ dlocal' = [local EXCEPT !.term = rd.term, !.commit = rd.commit]
      /\ UNCHANGED <<clusterVars, dlog, dapply>>
  BY DEF SaveLocalState, WriteLocalState
<1>2. /\ dlocal'.commit = rd.commit /\ dlocal'.lastIndex = local.lastIndex
      /\ dlocal'.lastTerm = local.lastTerm
  BY <1>1 DEF StorageInv, TypeOK, LocalState
<1>3. apply = dapply /\ apply.truncIndex <= apply.index /\ apply.index <= rd.commit
  BY <1>1, MemElim, AppliedCommitted DEF ApplyMem, Active
<1>4. rd.commit <= Len(rd.log) /\ \A i \in 1..rd.commit : rd.log[i] = llog[i]
  BY <1>1 DEF StorageInv, ReadyInv, ReadyBounds, ReadyCommitted, Active
<1>5. /\ local.lastIndex = Len(rd.log)
      /\ \A i \in (apply.truncIndex + 1)..Len(rd.log) : dlog[i] = rd.log[i]
      /\ apply.truncIndex < Len(rd.log) => local.lastTerm = rd.log[Len(rd.log)].term
  BY <1>1 DEF StorageInv, WriteInv, LogWritten, LastMem, Saved, LastEntTerm
<1>6. DiskLog' = rd.log
  <2>1. \A i \in 1..Len(rd.log) :
          (IF i <= dapply.truncIndex THEN llog[i] ELSE dlog[i]) = rd.log[i]
    BY <1>0, <1>3, <1>4, <1>5
  <2>2. rd.log = [i \in 1..Len(rd.log) |-> rd.log[i]]
    BY <1>0
  <2>3. DiskLog' = [i \in 1..Len(rd.log) |->
                      IF i <= dapply.truncIndex THEN llog[i] ELSE dlog[i]]
    BY <1>1, <1>2, <1>5 DEF DiskLog
  <2>. QED
    BY <2>1, <2>2, <2>3
<1>7. Follows(rd.log, llog, lterm)
  BY DEF StorageInv, LogInv
<1>8. apply.truncIndex < Len(rd.log) => local.lastTerm = dlog[Len(rd.log)].term
  BY <1>0, <1>5
<1>. QED
  BY <1>1, <1>2, <1>3, <1>4, <1>5, <1>6, <1>7, <1>8 DEF DiskWhole

\* process: the applied index, and a CompactLog request.
LEMMA DiskWholeProcess ==
    ASSUME StorageInv, DiskWhole, ApplyIndex \/ Compact
    PROVE  DiskWhole'
<1>0. /\ apply.truncIndex \in Nat /\ dapply.truncIndex \in Nat /\ cur \in Nat
      /\ dlocal.lastIndex \in Nat /\ dlocal.commit \in Nat /\ rd.commit \in Nat
  BY Numbers DEF StorageInv
<1>1. /\ up /\ pc \in {"apply", "compact"} /\ UNCHANGED <<clusterVars, dlog, dlocal>>
  BY DEF ApplyIndex, Compact
<1>2. dlocal.commit = rd.commit
  BY <1>1, MemElim DEF LocalMem
<1>3. CASE ApplyIndex
  <2>1. /\ pc = "apply" /\ cur <= rd.commit /\ dapply' = [apply EXCEPT !.index = cur]
    BY <1>3 DEF ApplyIndex
  <2>2. apply = dapply
    BY <1>1, <2>1, MemElim DEF ApplyMem
  <2>3. dapply'.index = cur /\ dapply'.truncIndex = dapply.truncIndex
    BY <2>1, <2>2 DEF StorageInv, TypeOK, ApplyState
  <2>4. DiskLog' = DiskLog
    BY <1>1, <2>3, DiskLogSame
  <2>. QED
    BY <1>1, <1>2, <2>1, <2>3, <2>4 DEF DiskWhole
<1>4. CASE Compact
  <2>1. pc = "compact" /\ dapply' = [apply EXCEPT !.truncTerm = Current.cterm]
    BY <1>4 DEF Compact
  <2>2. dapply'.index = apply.index /\ dapply'.truncIndex = apply.truncIndex
    BY <2>1 DEF StorageInv, TypeOK, ApplyState
  <2>3. /\ apply.index = dapply.index /\ dapply.truncIndex <= apply.truncIndex
        /\ Current.kind = "compact" /\ apply.truncIndex = Current.cidx
    BY <1>1, <2>1, MemElim DEF ApplyMem
  <2>4. Current.cidx \in Nat /\ Current.cidx < cur /\ cur \in 1..rd.commit
    BY <1>1, <2>1, <2>3, CurrentEntry
  <2>5. apply.truncIndex <= dlocal.commit
    BY <1>0, <1>2, <2>3, <2>4
  <2>w. /\ dlocal.commit <= dlocal.lastIndex
        /\ \A i \in 1..dlocal.commit : DiskLog[i] = llog[i]
    BY DEF DiskWhole
  <2>l. \A i \in 1..dlocal.lastIndex :
          DiskLog[i] = IF i <= dapply.truncIndex THEN llog[i] ELSE dlog[i]
    BY DEF DiskLog
  <2>6. ASSUME NEW i \in 1..dlocal.lastIndex
        PROVE  (IF i <= apply.truncIndex THEN llog[i] ELSE dlog[i])
               = (IF i <= dapply.truncIndex THEN llog[i] ELSE dlog[i])
    <3>1. CASE i <= apply.truncIndex
      <4>1. i \in 1..dlocal.commit
        BY <1>0, <2>5, <3>1
      <4>. QED
        BY <2>l, <2>w, <3>1, <4>1
    <3>2. CASE ~(i <= apply.truncIndex)
      BY <1>0, <2>3, <3>2
    <3>. QED
      BY <3>1, <3>2
  <2>7. DiskLog' = DiskLog
    BY <1>1, <2>2, <2>6, DiskLogSame
  <2>8. dapply'.truncIndex < dlocal.lastIndex => dapply.truncIndex < dlocal.lastIndex
    BY <1>0, <2>2, <2>3
  <2>. QED
    BY <1>1, <2>2, <2>3, <2>7, <2>8 DEF DiskWhole
<1>. QED
  BY <1>3, <1>4

\* Every step preserves DiskInv; a crash does because it may not happen in
\* the windows of applySnapshot and of truncateAndAppend.
LEMMA DiskNext ==
    ASSUME StorageInv, Next, "snapshot" \notin Windows, "truncate" \notin Windows
    PROVE  DiskInv'
<1>. SUFFICES ASSUME ~InSnapshotWindow', ~InTruncateWindow'
              PROVE  DiskWhole'
  BY DiskStatesNext, DiskFreshNext DEF DiskInv
<1>0. /\ dlocal.lastIndex \in Nat /\ rd.lo \in Nat /\ cur \in Nat
      /\ rd.snap.index \in Nat
  BY Numbers DEF StorageInv
<1>d. ~InSnapshotWindow /\ ~InTruncateWindow => DiskWhole
  BY DEF StorageInv, DiskInv
<1>e. pc \in {"idle", "send", "apply", "exec", "compact"} => DiskWhole
  BY <1>d DEF InSnapshotWindow, InTruncateWindow
<1>1. ASSUME DiskWhole, UNCHANGED <<clusterVars, dlog, dlocal, dapply>>
      PROVE  DiskWhole'
  BY <1>1 DEF DiskWhole, DiskLog
<1>2. ASSUME UNCHANGED <<pc, cur, rd, clusterVars, dlog, dlocal, dapply>>
      PROVE  DiskWhole'
  BY <1>1, <1>2, <1>d DEF InSnapshotWindow, InTruncateWindow
<1>3. CASE Environment
  <2>1. UNCHANGED <<pc, cur, rd, dlocal>>
    BY <1>3, EnvironmentMoves DEF StorageInv
  <2>2. DiskWhole
    BY <1>d, <2>1 DEF InSnapshotWindow, InTruncateWindow
  <2>. QED
    BY <1>3, <2>2, DiskWholeEnvironment
<1>4. CASE RaftRecv
  BY <1>2, <1>4 DEF RaftRecv, RecvTerm, RecvCommit, RecvAppend, RecvSnapshot
<1>5. CASE Bootstrap \/ Restart
  <2>1. ~up /\ UNCHANGED <<clusterVars, dlog, dlocal, dapply>>
    BY <1>5 DEF Bootstrap, Restart, RestartFrom
  <2>2. pc = "idle"
    BY <2>1 DEF StorageInv, RaftInv, Active
  <2>. QED
    BY <1>1, <1>e, <2>1, <2>2
<1>6. CASE Crash
  BY <1>1, <1>6, <1>d DEF Crash
<1>7. CASE TakeReady \/ Send \/ ExecWrite \/ ExecNone \/ ExecCompact \/ Advance
  <2>1. /\ pc \in {"idle", "send", "exec", "apply"}
        /\ UNCHANGED <<clusterVars, dlog, dlocal, dapply>>
    BY <1>7 DEF TakeReady, Send, ExecWrite, ExecNone, ExecCompact, Advance
  <2>. QED
    BY <1>1, <1>e, <2>1
<1>8. CASE SnapApplyState \/ SnapConfState \/ SnapDone \/ \E k \in Key : SnapPut(k)
  <2>1. /\ up /\ pc \in {"snap", "snapConf", "snapData"} /\ rd' = rd
        /\ pc' \in {"snapConf", "snapData", "append", "save"}
    BY <1>8 DEF SnapApplyState, SnapConfState, SnapDone, SnapPut, StartAppend
  <2>2. rd.snap.index > 0
    BY <2>1, MemElim DEF AppliedMem
  <2>3. InSnapshotWindow'
    BY <2>1, <2>2 DEF InSnapshotWindow
  <2>. QED
    BY <2>3
<1>9. CASE AppendEntry \/ DeleteTail
  <2>1. /\ pc = "append" /\ pc' = "append" /\ cur' = cur + 1
        /\ UNCHANGED <<rd, dlocal>>
    BY <1>9 DEF AppendEntry, DeleteTail
  <2>2. rd.lo < Len(rd.log) /\ rd.lo < cur
    BY <2>1 DEF StorageInv, WriteInv, AppendProgress
  <2>3. ~(rd.lo < dlocal.lastIndex)
    BY <1>0, <2>1, <2>2 DEF InTruncateWindow
  <2>4. ~InSnapshotWindow /\ ~InTruncateWindow
    BY <2>1, <2>3 DEF InSnapshotWindow, InTruncateWindow
  <2>5. dlocal.lastIndex < cur
    BY <1>0, <2>2, <2>3
  <2>. QED
    BY <1>9, <1>d, <2>4, <2>5, DiskWholeWrite
<1>10. CASE SetLastTerm \/ SetLastIndex
  <2>1. /\ pc \in {"append", "setIndex"} /\ pc' \in {"setIndex", "save"}
        /\ UNCHANGED <<rd, clusterVars, dlog, dlocal, dapply>>
    BY <1>10 DEF SetLastTerm, SetLastIndex
  <2>2. rd.lo < Len(rd.log)
    BY <2>1 DEF StorageInv, WriteInv, AppendProgress, LastMem
  <2>3. ~InSnapshotWindow /\ ~InTruncateWindow
    BY <2>1, <2>2 DEF InSnapshotWindow, InTruncateWindow
  <2>. QED
    BY <1>1, <1>d, <2>1, <2>3
<1>11. CASE ApplyIndex \/ Compact
  <2>1. pc \in {"apply", "compact"}
    BY <1>11 DEF ApplyIndex, Compact
  <2>. QED
    BY <1>11, <1>e, <2>1, DiskWholeProcess
<1>12. CASE \E g \in gc : GcRun(g)
  BY <1>2, <1>12, GcDeletesNothing DEF GcRun
<1>. QED
  BY <1>3, <1>4, <1>5, <1>6, <1>7, <1>8, <1>9, <1>10, <1>11, <1>12, DiskWholeSave
  DEF Next, OnTick, SaveReady, ProcessEntry

-----------------------------------------------------------------------------
(* Every step preserves ReleasedDurable *)

\* A step that leaves the logs and what was acknowledged alone preserves
\* ReleasedDurable.
LEMMA ReleasedQuiet ==
    ASSUME StorageInv, UNCHANGED <<released, relTerm, rlog, dlog, dlocal>>,
           dapply.truncIndex <= dapply'.truncIndex, dapply'.truncIndex \in Nat
    PROVE  ReleasedDurable'
<1>0. dapply.truncIndex \in Nat /\ released \in Nat
  BY Numbers DEF StorageInv
<1>. QED
  BY <1>0 DEF StorageInv, ReleasedDurable

\* A conflict in the log takes back the acknowledgements it concerns.
LEMMA ReleasedConflict ==
    ASSUME StorageInv, NEW ci \in Nat, 1 <= ci, ci <= Len(llog), Conflict(ci),
           NEW n \in Nat, ci <= n, n <= Len(llog), rlog' = SubSeq(llog, 1, n),
           released' = Smaller(released, ci - 1),
           UNCHANGED <<relTerm, dlog, dlocal, dapply>>
    PROVE  ReleasedDurable'
<1>0. released \in Nat
  BY Numbers DEF StorageInv
<1>1. \A i \in 1..n : rlog'[i] = llog[i]
  <2>1. llog \in Seq(Entry)
    BY Logs DEF StorageInv
  <2>. QED
    BY <2>1, PrefixType
<1>2. \A i \in 1..(ci - 1) : rlog[i] = llog[i]
  <2>1. TypeOK /\ LogInv
    BY DEF StorageInv
  <2>. QED
    BY <2>1, BeforeConflict
<1>3. released' <= released /\ released' <= ci - 1 /\ released' \in Nat
  BY <1>0 DEF Smaller
<1>r. ReleasedDurable
  BY DEF StorageInv
<1>4. ASSUME NEW i \in 1..released'
      PROVE  \/ i <= dapply.truncIndex
             \/ i <= dlocal.lastIndex /\ dlog[i] = rlog'[i]
  <2>1. i \in 1..released /\ i \in 1..(ci - 1) /\ i \in 1..n
    BY <1>0, <1>3
  <2>2. rlog'[i] = rlog[i]
    BY <1>1, <1>2, <2>1
  <2>. QED
    BY <1>r, <2>1, <2>2 DEF ReleasedDurable
<1>. QED
  BY <1>r, <1>4 DEF ReleasedDurable

\* Every step preserves ReleasedDurable: messages leave after writeLocalState,
\* and truncateAndAppend only replaces entries above a conflict.
LEMMA ReleasedNext ==
    ASSUME StorageInv, Next
    PROVE  ReleasedDurable'
<1>0. /\ released \in Nat /\ ack \in Nat /\ relTerm \in Nat
      /\ dapply.truncIndex \in Nat /\ apply.truncIndex \in Nat
      /\ dlocal.term \in Nat /\ dlocal.lastIndex \in Nat
      /\ rd.term \in Nat /\ cur \in Nat /\ Len(rd.log) \in Nat
  BY Numbers, Logs DEF StorageInv
<1>r. ReleasedDurable
  BY DEF StorageInv
<1>1. CASE UNCHANGED <<released, relTerm, rlog, dlog, dlocal, dapply>>
  BY <1>r, <1>1 DEF ReleasedDurable
<1>2. CASE Environment \/ RecvTerm \/ \E c \in 1..MaxIndex : RecvCommit(c)
  BY <1>1, <1>2, EnvironmentMoves DEF StorageInv, RecvTerm, RecvCommit
<1>3. ASSUME NEW n \in 1..MaxIndex, NEW c \in Index, NEW ci \in 1..MaxIndex,
             RecvAppend(n, c, ci)
      PROVE  ReleasedDurable'
  <2>1. /\ n <= Len(llog) /\ ci <= n /\ Conflict(ci)
        /\ rlog' = SubSeq(llog, 1, n) /\ released' = Smaller(released, ci - 1)
        /\ UNCHANGED <<relTerm, dlog, dlocal, dapply>>
    BY <1>3 DEF RecvAppend, Retract
  <2>2. n \in Nat /\ ci \in Nat /\ 1 <= ci /\ Len(llog) \in Nat
    BY Bounds, Logs DEF StorageInv
  <2>3. ci <= Len(llog)
    BY <2>1, <2>2
  <2>. QED
    BY <2>1, <2>2, <2>3, ReleasedConflict
<1>4. ASSUME NEW n \in 1..MaxIndex, NEW m \in Index, NEW d \in Map,
             NEW ci \in 1..MaxIndex, RecvSnapshot(n, m, d, ci)
      PROVE  ReleasedDurable'
  <2>1. /\ n <= ccommit /\ ci <= n /\ Conflict(ci)
        /\ rlog' = SubSeq(llog, 1, n) /\ released' = Smaller(released, ci - 1)
        /\ UNCHANGED <<relTerm, dlog, dlocal, dapply>>
    BY <1>4 DEF RecvSnapshot, Retract
  <2>2. n \in Nat /\ ci \in Nat /\ 1 <= ci
    BY Bounds
  <2>3. ccommit <= Len(llog) /\ ccommit \in Nat /\ Len(llog) \in Nat
    BY Numbers, Logs DEF StorageInv, ClusterInv
  <2>4. n <= Len(llog) /\ ci <= Len(llog)
    BY <2>1, <2>2, <2>3
  <2>. QED
    BY <2>1, <2>2, <2>4, ReleasedConflict
<1>5. CASE Bootstrap
  <2>1. released' = 0 /\ UNCHANGED <<relTerm, dlocal>>
    BY <1>5 DEF Bootstrap, StorageInv, DiskInv, DiskFresh
  <2>. QED
    BY <1>r, <2>1 DEF ReleasedDurable
<1>6. CASE Restart
  <2>1. rlog' = DiskLog /\ UNCHANGED <<released, relTerm, dlog, dlocal, dapply>>
    BY <1>6 DEF Restart, RestartFrom, DiskLog
  <2>2. \A i \in 1..dlocal.lastIndex :
          DiskLog[i] = IF i <= dapply.truncIndex THEN llog[i] ELSE dlog[i]
    BY DEF DiskLog
  <2>3. ASSUME NEW i \in 1..released, ~(i <= dapply.truncIndex)
        PROVE  i <= dlocal.lastIndex /\ dlog[i] = DiskLog[i]
    <3>1. i <= dlocal.lastIndex
      BY <1>r, <2>3 DEF ReleasedDurable
    <3>. QED
      BY <1>0, <2>2, <2>3, <3>1
  <2>. QED
    BY <1>r, <2>1, <2>3 DEF ReleasedDurable
<1>7. CASE Crash
  <2>1. /\ rlog' = SubSeq(rlog, 1, released)
        /\ UNCHANGED <<released, relTerm, dlog, dlocal, dapply>>
    BY <1>7 DEF Crash
  <2>2. rlog \in Seq(Entry) /\ released <= Len(rlog)
    BY Logs DEF StorageInv, RaftInv
  <2>3. \A i \in 1..released : rlog'[i] = rlog[i]
    BY <1>0, <2>1, <2>2, PrefixType
  <2>. QED
    BY <1>r, <2>1, <2>3 DEF ReleasedDurable
<1>8. CASE SnapApplyState
  <2>1. /\ up /\ pc = "snap" /\ UNCHANGED <<released, relTerm, rlog, dlog, dlocal>>
        /\ dapply' = [index |-> rd.snap.index, truncIndex |-> rd.snap.index,
                      truncTerm |-> rd.snap.term]
    BY <1>8 DEF SnapApplyState
  <2>2. dapply.truncIndex <= rapplied /\ rapplied \in Nat
    <3>1. /\ apply = dapply /\ apply.index = rapplied
          /\ apply.truncIndex <= apply.index
      BY <2>1, MemElim DEF ApplyMem, AppliedMem
    <3>. QED
      BY <3>1, Numbers DEF StorageInv
  <2>3. rapplied < rd.snap.index /\ rd.snap.index \in Nat
    BY <2>1, MemElim, Numbers DEF StorageInv, ReadyInv, ReadyBounds, Active, AppliedMem
  <2>4. dapply.truncIndex <= dapply'.truncIndex /\ dapply'.truncIndex \in Nat
    BY <1>0, <2>1, <2>2, <2>3
  <2>. QED
    BY <2>1, <2>4, ReleasedQuiet
<1>a. Active => /\ released <= ack /\ ack <= Len(rd.log)
                /\ \A i \in 1..ack : rd.log[i] = rlog[i]
  BY DEF StorageInv, ReadyInv, ReadyAcked
<1>9. CASE AppendEntry \/ DeleteTail
  <2>1. /\ pc = "append" /\ UNCHANGED <<released, relTerm, rlog, dlocal, dapply>>
        /\ \/ dlog' = [dlog EXCEPT ![cur] = rd.log[cur]]
           \/ cur > Len(rd.log) /\ dlog' = [dlog EXCEPT ![cur] = Hole]
    BY <1>9 DEF AppendEntry, DeleteTail
  <2>2. ASSUME NEW i \in 1..released, dlog[i] = rlog[i]
        PROVE  dlog'[i] = rlog[i]
    <3>1. i \in 1..ack /\ rd.log[i] = rlog[i] /\ i <= Len(rd.log)
      BY SMTT(20), <1>0, <1>a, <2>1 DEF Active
    <3>2. dlog \in [1..MaxIndex -> Entry] /\ i \in 1..MaxIndex
      <4>1. dlog \in [1..MaxIndex -> Entry] /\ released <= MaxIndex /\ MaxIndex \in Nat
        BY Bounds DEF StorageInv, TypeOK, Index
      <4>. QED
        BY <1>0, <4>1
    <3>3. CASE i # cur
      BY <2>1, <2>2, <3>2, <3>3
    <3>4. CASE i = cur
      <4>1. ~(cur > Len(rd.log))
        BY <1>0, <3>1, <3>4
      <4>2. dlog' = [dlog EXCEPT ![cur] = rd.log[cur]]
        BY <2>1, <4>1
      <4>. QED
        BY <3>1, <3>2, <3>4, <4>2
    <3>. QED
      BY <3>3, <3>4
  <2>. QED
    BY <1>r, <2>1, <2>2 DEF ReleasedDurable
<1>10. CASE SaveLocalState
  <2>1. /\ up /\ pc = "save" /\ UNCHANGED <<released, relTerm, rlog, dlog, dapply>>
        /\ dlocal' = [local EXCEPT !.term = rd.term, !.commit = rd.commit]
    BY <1>10 DEF SaveLocalState, WriteLocalState
  <2>2. dlocal'.lastIndex = local.lastIndex /\ dlocal'.term = rd.term
    BY <2>1 DEF StorageInv, TypeOK, LocalState
  <2>3. local.lastIndex = Len(rd.log)
    BY <2>1 DEF StorageInv, WriteInv, LastMem, Saved
  <2>4. dlocal.term <= rd.term
    BY <2>1, MemElim DEF LocalMem, Active
  <2>5. relTerm <= rd.term
    BY <1>0, <1>r, <2>4 DEF ReleasedDurable
  <2>6. \A i \in 1..released : i <= Len(rd.log)
    BY <1>0, <1>a, <2>1 DEF Active
  <2>. QED
    BY <1>r, <2>1, <2>2, <2>3, <2>5, <2>6 DEF ReleasedDurable
<1>11. CASE Send
  <2>1. /\ up /\ pc = "send" /\ released' = ack /\ relTerm' = rd.term
        /\ UNCHANGED <<rlog, dlog, dlocal, dapply>>
    BY <1>11 DEF Send
  <2>2. local = dlocal /\ apply = dapply /\ local.term = rd.term
    BY <2>1, MemElim DEF LocalMem, ApplyMem
  <2>3. /\ local.lastIndex = Len(rd.log)
        /\ \A i \in (apply.truncIndex + 1)..Len(rd.log) : dlog[i] = rd.log[i]
    BY <2>1 DEF StorageInv, WriteInv, LogWritten, LastMem, Saved
  <2>4. ASSUME NEW i \in 1..ack, ~(i <= dapply.truncIndex)
        PROVE  i <= dlocal.lastIndex /\ dlog[i] = rlog[i]
    <3>1. i \in (apply.truncIndex + 1)..Len(rd.log) /\ rd.log[i] = rlog[i]
      BY <1>0, <1>a, <2>1, <2>2, <2>4 DEF Active
    <3>. QED
      BY <2>2, <2>3, <3>1
  <2>. QED
    BY <1>0, <2>1, <2>2, <2>4 DEF ReleasedDurable
<1>12. CASE ApplyIndex \/ Compact
  <2>1. up /\ UNCHANGED <<released, relTerm, rlog, dlog, dlocal>> /\ dapply' = apply'
        /\ pc \in {"apply", "compact"}
    BY <1>12 DEF ApplyIndex, Compact
  <2>2. apply.truncIndex <= apply'.truncIndex /\ apply'.truncIndex \in Nat
    BY <1>12, TruncGrows DEF ProcessEntry
  <2>3. dapply.truncIndex <= apply.truncIndex
    BY <1>0, <2>1, MemElim DEF ApplyMem
  <2>4. dapply.truncIndex <= dapply'.truncIndex /\ dapply'.truncIndex \in Nat
    BY <1>0, <2>1, <2>2, <2>3
  <2>. QED
    BY <2>1, <2>4, ReleasedQuiet
<1>13. CASE TakeReady \/ SnapConfState \/ SnapDone \/ (\E k \in Key : SnapPut(k))
            \/ SetLastTerm \/ SetLastIndex
  BY <1>1, <1>13 DEF TakeReady, SnapConfState, SnapDone, SnapPut, SetLastTerm,
     SetLastIndex
<1>14. CASE ExecWrite \/ ExecNone \/ ExecCompact \/ Advance
  BY <1>1, <1>14 DEF ExecWrite, ExecNone, ExecCompact, Advance
<1>15. CASE \E g \in gc : GcRun(g)
  BY <1>1, <1>15, GcDeletesNothing DEF GcRun
<1>. QED
  BY <1>2, <1>3, <1>4, <1>5, <1>6, <1>7, <1>8, <1>9, <1>10, <1>11, <1>12, <1>13,
     <1>14, <1>15
  DEF Next, RaftRecv, OnTick, SaveReady, ProcessEntry

-----------------------------------------------------------------------------
(* Every step preserves TypeOK *)

\* The values of a fresh or crashed replica have their types.
LEMMA ZeroTypes ==
    /\ 0 \in Index /\ 0 \in Term /\ 1 \in Term
    /\ EmptyMap \in Map
    /\ NoSnap \in Snapshot
    /\ ZeroLocal \in LocalState
    /\ ZeroApply \in ApplyState
    /\ Hole \in Entry
    /\ NoReady \in Ready /\ Len(NoReady.log) = 0
<1>1. 0 \in Index /\ 0 \in Term /\ 1 \in Term /\ 1 \in 1..(MaxIndex + 1)
  BY Bounds DEF Index, Term
<1>2. EmptyMap \in Map
  BY DEF EmptyMap, Map
<1>3. NoSnap \in Snapshot
  BY <1>1, <1>2 DEF NoSnap, Snapshot
<1>4. ZeroLocal \in LocalState /\ ZeroApply \in ApplyState
  BY <1>1 DEF ZeroLocal, LocalState, ZeroApply, ApplyState
<1>5. Hole \in Entry
  BY <1>1, <1>2 DEF Hole, Entry, Kinds
<1>6. NoReady \in Ready /\ Len(NoReady.log) = 0
  <2>1. <<>> \in Seq(Entry) /\ Len(<<>>) = 0
    OBVIOUS
  <2>. QED
    BY <1>1, <1>3, <2>1 DEF NoReady, Ready
<1>. QED
  BY <1>1, <1>2, <1>3, <1>4, <1>5, <1>6

\* What the raft goroutine receives is well typed.
LEMMA TypeRaft ==
    ASSUME StorageInv, RaftRecv
    PROVE  TypeOK'
<1>0. TypeOK /\ MaxIndex \in Nat /\ stable \in Nat /\ released \in Nat /\ ack \in Nat
      /\ Len(llog) \in Nat /\ Len(llog) <= MaxIndex /\ llog \in Seq(Entry)
  BY Bounds, Numbers, Logs DEF StorageInv
<1>1. CASE RecvTerm \/ \E c \in 1..MaxIndex : RecvCommit(c)
  <2>1. /\ UNCHANGED <<clusterVars, rlog, stable, rapplied, rsnap, memVars, tickVars,
                       gcVars, diskVars, up, crashes, released, relTerm, ack, fuzz>>
        /\ rterm' = lterm
    BY <1>1 DEF RecvTerm, RecvCommit
  <2>2. rcommit' \in Index
    BY <1>0, <1>1 DEF RecvTerm, RecvCommit, TypeOK, Index
  <2>. QED
    BY <1>0, <2>1, <2>2 DEF TypeOK
<1>2. ASSUME NEW n \in Nat, NEW ci \in Nat, 1 <= ci, ci <= n, n <= Len(llog),
             rlog' = SubSeq(llog, 1, n), Retract(ci)
      PROVE  /\ rlog' \in Seq(Entry) /\ Len(rlog') \in Index
             /\ released' \in Index /\ ack' \in Index
             /\ n \in Index
             /\ \A i \in Index : Smaller(i, ci - 1) \in Index
  <2>1. rlog' \in Seq(Entry) /\ Len(rlog') = n
    BY <1>0, <1>2, PrefixType
  <2>2. n \in Index /\ \A i \in Index : Smaller(i, ci - 1) \in Index
    BY <1>0, <1>2 DEF Index, Smaller
  <2>. QED
    BY <1>0, <1>2, <2>1, <2>2 DEF Retract, TypeOK
<1>3. ASSUME NEW n \in 1..MaxIndex, NEW c \in Index, NEW ci \in 1..MaxIndex,
             RecvAppend(n, c, ci)
      PROVE  TypeOK'
  <2>0. n \in Nat /\ ci \in Nat /\ 1 <= ci
    BY <1>0
  <2>1. /\ n <= Len(llog) /\ ci <= n /\ rlog' = SubSeq(llog, 1, n) /\ Retract(ci)
        /\ stable' = Smaller(stable, ci - 1) /\ rcommit' = c /\ rterm' = lterm
        /\ UNCHANGED <<clusterVars, rapplied, rsnap, memVars, tickVars,
                       gcVars, diskVars, up, crashes, relTerm, fuzz>>
    BY <1>3 DEF RecvAppend
  <2>2. /\ rlog' \in Seq(Entry) /\ Len(rlog') \in Index
        /\ released' \in Index /\ ack' \in Index /\ stable' \in Index
    BY <1>0, <1>2, <2>0, <2>1 DEF TypeOK
  <2>3. /\ rcommit' \in Index /\ rterm' \in Term
        /\ UNCHANGED <<clusterVars, rapplied, rsnap, memVars, tickVars,
                       gcVars, diskVars, up, crashes, relTerm, fuzz>>
    BY <1>0, <2>1 DEF TypeOK
  <2>. QED
    BY <1>0, <2>2, <2>3 DEF TypeOK
<1>4. ASSUME NEW n \in 1..MaxIndex, NEW m \in Index, NEW d \in Map,
             NEW ci \in 1..MaxIndex, RecvSnapshot(n, m, d, ci)
      PROVE  TypeOK'
  <2>0. n \in Nat /\ 1 <= n /\ ci \in Nat /\ 1 <= ci
    BY <1>0
  <2>1. /\ n <= ccommit /\ ci <= n /\ rlog' = SubSeq(llog, 1, n) /\ Retract(ci)
        /\ stable' = n /\ rcommit' = n /\ rterm' = lterm
        /\ rsnap' = [index |-> n, term |-> llog[n].term, data |-> d, upto |-> m]
        /\ UNCHANGED <<clusterVars, rapplied, memVars, tickVars,
                       gcVars, diskVars, up, crashes, relTerm, fuzz>>
    BY <1>4 DEF RecvSnapshot
  <2>2. n <= Len(llog) /\ n \in 1..Len(llog)
    <3>1. ccommit \in Nat /\ ccommit <= Len(llog)
      BY Numbers DEF StorageInv, ClusterInv
    <3>. QED
      BY <1>0, <2>0, <2>1, <3>1
  <2>3. /\ rlog' \in Seq(Entry) /\ Len(rlog') \in Index
        /\ released' \in Index /\ ack' \in Index /\ n \in Index
    BY <1>2, <2>0, <2>1, <2>2
  <2>4. rsnap' \in Snapshot
    <3>1. llog[n].term \in Term
      <4>1. llog[n] \in Entry
        BY <1>0, <2>2, ElementType
      <4>. QED
        BY <4>1 DEF Entry
    <3>. QED
      BY <2>1, <2>3, <3>1 DEF Snapshot
  <2>5. /\ stable' \in Index /\ rcommit' \in Index /\ rterm' \in Term
        /\ UNCHANGED <<clusterVars, rapplied, memVars, tickVars,
                       gcVars, diskVars, up, crashes, relTerm, fuzz>>
    BY <1>0, <2>1, <2>3 DEF TypeOK
  <2>. QED
    BY <1>0, <2>3, <2>4, <2>5 DEF TypeOK
<1>. QED
  BY <1>1, <1>3, <1>4 DEF RaftRecv

\* Start, restart and crash leave well-typed states.
LEMMA TypeStart ==
    ASSUME StorageInv, Bootstrap \/ Restart \/ Crash
    PROVE  TypeOK'
<1>0. TypeOK /\ Boot \in Nat /\ llog \in Seq(Entry) /\ rlog \in Seq(Entry)
      /\ released \in Nat
  BY Bounds, Numbers, Logs DEF StorageInv
<1>1. CASE Bootstrap
  <2>1. /\ rlog' = SubSeq(llog, 1, Boot)
        /\ local' = dlocal /\ apply' = dapply /\ lastCompacted' = dapply.truncIndex
        /\ stable' = 0 /\ rcommit' = Boot /\ rapplied' = 0 /\ rterm' = 1
        /\ up' = TRUE /\ dconf' = TRUE
        /\ UNCHANGED <<clusterVars, rsnap, tickVars, gc, dlog, dlocal, dapply, kv,
                       crashes, ghostVars>>
    BY <1>1 DEF Bootstrap
  <2>2. Boot \in Index /\ Boot <= Len(llog)
    <3>1. ccommit \in Nat /\ Boot <= ccommit /\ ccommit <= Len(llog)
          /\ Len(llog) \in Nat
      BY Numbers, Logs DEF StorageInv, ClusterInv
    <3>2. Boot \in Index
      BY Bounds DEF Index
    <3>. QED
      BY <1>0, <3>1, <3>2
  <2>3. rlog' \in Seq(Entry) /\ Len(rlog') \in Index
    BY <1>0, <2>1, <2>2, PrefixType
  <2>4. dapply.truncIndex \in Index
    BY <1>0 DEF TypeOK, ApplyState
  <2>5. /\ stable' \in Index /\ rcommit' \in Index /\ rapplied' \in Index
        /\ rterm' \in Term /\ lastCompacted' \in Index
        /\ local' = dlocal /\ apply' = dapply /\ up' = TRUE /\ dconf' = TRUE
        /\ UNCHANGED <<clusterVars, rsnap, tickVars, gc, dlog, dlocal, dapply, kv,
                       crashes, ghostVars>>
    BY <2>1, <2>2, <2>4, ZeroTypes
  <2>. QED
    BY <1>0, <2>3, <2>5 DEF TypeOK
<1>2. CASE Restart
  <2>1. /\ ~up /\ rlog' = DiskLog
        /\ local' = dlocal /\ apply' = dapply /\ lastCompacted' = dapply.truncIndex
        /\ stable' = dlocal.lastIndex /\ rcommit' = StartCommit
        /\ rapplied' = Larger(dapply.truncIndex, dapply.index) /\ rterm' = dlocal.term
        /\ up' = TRUE
        /\ UNCHANGED <<clusterVars, rsnap, tickVars, gc, diskVars, crashes, ghostVars>>
    BY <1>2 DEF Restart, RestartFrom, DiskLog
  <2>2. /\ dlocal.lastIndex \in Index /\ dlocal.commit \in Index /\ dlocal.term \in Term
        /\ dapply.truncIndex \in Index /\ dapply.index \in Index
    BY <1>0 DEF TypeOK, ApplyState, LocalState
  <2>3. rlog' \in Seq(Entry) /\ Len(rlog') \in Index
    <3>1. DiskLog \in Seq(Entry) /\ Len(DiskLog) = dlocal.lastIndex
      BY DiskLogType DEF StorageInv
    <3>. QED
      BY <2>1, <2>2, <3>1
  <2>4. StartCommit = dlocal.commit
    BY <2>1, StartCommitSaved DEF StorageInv
  <2>5. /\ stable' \in Index /\ rcommit' \in Index /\ rapplied' \in Index
        /\ rterm' \in Term /\ lastCompacted' \in Index
        /\ local' = dlocal /\ apply' = dapply /\ up' = TRUE
        /\ UNCHANGED <<clusterVars, rsnap, tickVars, gc, diskVars, crashes, ghostVars>>
    BY <2>1, <2>2, <2>4 DEF Larger
  <2>. QED
    BY <1>0, <2>3, <2>5 DEF TypeOK
<1>3. CASE Crash
  <2>1. /\ rlog' = SubSeq(rlog, 1, released)
        /\ crashes < MaxCrash /\ crashes' = crashes + 1 /\ up' = FALSE
        /\ stable' = 0 /\ rcommit' = 0 /\ rapplied' = 0 /\ rterm' = 0
        /\ rsnap' = NoSnap /\ local' = ZeroLocal /\ apply' = ZeroApply
        /\ pc' = "idle" /\ cur' = 0 /\ todo' = {} /\ rd' = NoReady
        /\ lastCompacted' = 0 /\ gc' = {} /\ ack' = released
        /\ UNCHANGED <<clusterVars, diskVars, released, relTerm, fuzz>>
    BY <1>3 DEF Crash
  <2>2. released <= Len(rlog) /\ released \in Index
    BY DEF StorageInv, RaftInv, TypeOK
  <2>3. rlog' \in Seq(Entry) /\ Len(rlog') \in Index
    BY <1>0, <2>1, <2>2, PrefixType
  <2>4. crashes' \in 0..MaxCrash /\ 0 \in 0..(MaxIndex + 1)
    BY <1>0, <2>1, Bounds DEF TypeOK
  <2>5. rd' \in Ready /\ Len(rd'.log) \in Index
    BY <2>1, ZeroTypes
  <2>6. /\ stable' \in Index /\ rcommit' \in Index /\ rapplied' \in Index
        /\ rterm' \in Term /\ lastCompacted' \in Index /\ ack' \in Index
        /\ rsnap' \in Snapshot /\ local' \in LocalState /\ apply' \in ApplyState
        /\ pc' = "idle" /\ cur' = 0 /\ todo' = {} /\ gc' = {} /\ up' = FALSE
        /\ UNCHANGED <<clusterVars, diskVars, released, relTerm, fuzz>>
    BY <2>1, <2>2, ZeroTypes
  <2>. QED
    BY <1>0, <2>3, <2>4, <2>5, <2>6 DEF TypeOK
<1>. QED
  BY <1>1, <1>2, <1>3

\* saveReadyState and the send leave well-typed states.
LEMMA TypeSave ==
    ASSUME StorageInv, TakeReady \/ SaveReady \/ Send
    PROVE  TypeOK'
<1>0. TypeOK
  BY DEF StorageInv
<1>i. /\ \A n \in Index : n \in Nat /\ n <= MaxIndex /\ n + 1 \in 1..(MaxIndex + 1)
      /\ \A n \in Index : n + 1 \in 0..(MaxIndex + 1)
      /\ 0 \in 0..(MaxIndex + 1)
      /\ MaxIndex \in Nat
  BY Bounds DEF Index
<1>a. ASSUME NEW r, r.lo \in Index, StartAppend(r, apply.truncIndex)
      PROVE  pc' \in {"append", "save"} /\ cur' \in 0..(MaxIndex + 1)
  <2>1. apply.truncIndex \in Index
    BY <1>0 DEF TypeOK, ApplyState
  <2>. QED
    BY <1>a, <1>i, <2>1 DEF StartAppend, Larger
<1>1. CASE TakeReady
  <2>1. /\ rd' = [snap |-> rsnap, lo |-> stable, log |-> rlog, term |-> rterm,
                  commit |-> rcommit, from |-> Larger(rapplied, rsnap.index) + 1]
        /\ ack' = Len(rlog)
        /\ IF rsnap.index > 0 THEN pc' = "snap" /\ cur' = 0
                              ELSE StartAppend(rd', apply.truncIndex)
        /\ UNCHANGED <<clusterVars, raftVars, memVars, todo, gcVars, diskVars,
                       up, crashes, released, relTerm, fuzz>>
    BY <1>1 DEF TakeReady
  <2>2. rsnap.index \in Index /\ rapplied \in Index
    BY <1>0 DEF TypeOK, Snapshot
  <2>3. Larger(rapplied, rsnap.index) + 1 \in 1..(MaxIndex + 1)
    BY <1>i, <2>2 DEF Larger
  <2>4. rd' \in Ready /\ Len(rd'.log) \in Index /\ rd'.lo \in Index
    BY <1>0, <2>1, <2>3 DEF TypeOK, Ready
  <2>5. pc' \in {"snap", "append", "save"} /\ cur' \in 0..(MaxIndex + 1)
    BY <1>a, <1>i, <2>1, <2>4
  <2>6. /\ ack' \in Index
        /\ UNCHANGED <<clusterVars, raftVars, memVars, todo, gcVars, diskVars,
                       up, crashes, released, relTerm, fuzz>>
    BY <1>0, <2>1 DEF TypeOK
  <2>. QED
    BY <1>0, <2>4, <2>5, <2>6 DEF TypeOK
<1>2. CASE SnapApplyState
  <2>1. /\ local' = [local EXCEPT !.lastIndex = rd.snap.index,
                                  !.lastTerm = rd.snap.term]
        /\ apply' = [index |-> rd.snap.index, truncIndex |-> rd.snap.index,
                     truncTerm |-> rd.snap.term]
        /\ dapply' = apply' /\ pc' = "snapConf"
        /\ UNCHANGED <<clusterVars, raftVars, cur, todo, rd, gcVars, dlog, dlocal,
                       dconf, kv, up, crashes, ghostVars>>
    BY <1>2 DEF SnapApplyState
  <2>2. rd.snap \in Snapshot
    BY <1>0 DEF TypeOK, Ready
  <2>3. rd.snap.index \in Index /\ rd.snap.term \in Term
    BY <2>2 DEF Snapshot
  <2>4. local' \in LocalState /\ apply' \in ApplyState
    BY <1>0, <2>1, <2>3 DEF TypeOK, LocalState, ApplyState
  <2>5. /\ dapply' = apply' /\ pc' = "snapConf"
        /\ UNCHANGED <<clusterVars, raftVars, cur, todo, rd, gcVars, dlog, dlocal,
                       dconf, kv, up, crashes, ghostVars>>
    BY <2>1
  <2>. QED
    BY <1>0, <2>4, <2>5 DEF TypeOK
<1>3. CASE SnapConfState
  <2>1. /\ dconf' = TRUE /\ todo' \subseteq Key /\ pc' = "snapData"
        /\ UNCHANGED <<clusterVars, raftVars, memVars, cur, rd, gcVars, dlog, dlocal,
                       dapply, kv, up, crashes, ghostVars>>
    BY <1>3 DEF SnapConfState, Pairs
  <2>. QED
    BY <1>0, <2>1 DEF TypeOK
<1>4. ASSUME NEW k \in Key, SnapPut(k)
      PROVE  TypeOK'
  <2>1. /\ kv' = [kv EXCEPT ![k] = rd.snap.data[k]] /\ todo' \subseteq todo
        /\ UNCHANGED <<clusterVars, raftVars, memVars, pc, cur, rd, gcVars, dlog,
                       dlocal, dapply, dconf, up, crashes, ghostVars>>
    BY <1>4 DEF SnapPut
  <2>2. rd.snap.data \in Map
    <3>1. rd.snap \in Snapshot
      BY <1>0 DEF TypeOK, Ready
    <3>. QED
      BY <3>1 DEF Snapshot
  <2>3. kv' \in Map
    BY <1>0, <2>1, <2>2 DEF TypeOK, Map
  <2>4. /\ todo' \subseteq Key
        /\ UNCHANGED <<clusterVars, raftVars, memVars, pc, cur, rd, gcVars, dlog,
                       dlocal, dapply, dconf, up, crashes, ghostVars>>
    BY <1>0, <2>1 DEF TypeOK
  <2>. QED
    BY <1>0, <2>3, <2>4 DEF TypeOK
<1>5. CASE SnapDone
  <2>1. /\ fuzz' = rd.snap.upto /\ StartAppend(rd, apply.truncIndex)
        /\ UNCHANGED <<clusterVars, raftVars, memVars, todo, rd, gcVars, diskVars,
                       up, crashes, released, relTerm, ack>>
    BY <1>5 DEF SnapDone
  <2>2. rd.snap \in Snapshot /\ rd.lo \in Index
    BY <1>0 DEF TypeOK, Ready
  <2>3. fuzz' \in Index
    BY <2>1, <2>2 DEF Snapshot
  <2>4. /\ pc' \in {"append", "save"} /\ cur' \in 0..(MaxIndex + 1)
        /\ UNCHANGED <<clusterVars, raftVars, memVars, todo, rd, gcVars, diskVars,
                       up, crashes, released, relTerm, ack>>
    BY <1>a, <2>1, <2>2
  <2>. QED
    BY <1>0, <2>3, <2>4 DEF TypeOK
<1>6. CASE AppendEntry \/ DeleteTail
  <2>1. /\ pc' = pc /\ cur' = cur + 1
        /\ \/ cur <= Len(rd.log) /\ dlog' = [dlog EXCEPT ![cur] = rd.log[cur]]
           \/ cur <= local.lastIndex /\ dlog' = [dlog EXCEPT ![cur] = Hole]
        /\ UNCHANGED <<clusterVars, raftVars, memVars, todo, rd, gcVars, dlocal, dapply,
                       dconf, kv, up, crashes, ghostVars>>
    BY <1>6 DEF AppendEntry, DeleteTail
  <2>2. /\ Len(rd.log) \in Index /\ local.lastIndex \in Index /\ cur \in Nat
        /\ rd.log \in Seq(Entry) /\ rd.lo \in Nat
    BY <1>0, Numbers DEF TypeOK, LocalState, Ready
  <2>3. 1 <= cur
    <3>1. rd.lo < cur
      BY <1>6 DEF AppendEntry, DeleteTail, StorageInv, WriteInv, AppendProgress
    <3>. QED
      BY <2>2, <3>1
  <2>4. cur' \in 0..(MaxIndex + 1)
    BY <1>i, <2>1, <2>2
  <2>5. dlog' \in [1..MaxIndex -> Entry]
    <3>1. dlog \in [1..MaxIndex -> Entry] /\ Hole \in Entry
      BY <1>0, ZeroTypes DEF TypeOK
    <3>2. cur <= Len(rd.log) => rd.log[cur] \in Entry
      BY <1>i, <2>2, <2>3, ElementType
    <3>. QED
      BY <2>1, <3>1, <3>2
  <2>6. /\ pc' = pc
        /\ UNCHANGED <<clusterVars, raftVars, memVars, todo, rd, gcVars, dlocal, dapply,
                       dconf, kv, up, crashes, ghostVars>>
    BY <2>1
  <2>. QED
    BY <1>0, <2>4, <2>5, <2>6 DEF TypeOK
<1>7. CASE SetLastTerm \/ SetLastIndex
  <2>1. /\ \/ pc = "append" /\ local' = [local EXCEPT !.lastTerm = LastEntTerm]
           \/ local' = [local EXCEPT !.lastIndex = LastEntIndex]
        /\ pc' \in {"setIndex", "save"}
        /\ UNCHANGED <<clusterVars, raftVars, apply, cur, todo, rd, gcVars, diskVars,
                       up, crashes, ghostVars>>
    BY <1>7 DEF SetLastTerm, SetLastIndex
  <2>2. LastEntIndex \in Index /\ rd.log \in Seq(Entry) /\ rd.lo \in Nat
    BY <1>0, Numbers DEF TypeOK, LastEntIndex, Ready
  <2>3. pc = "append" => LastEntTerm \in Term
    <3>1. pc = "append" => rd.lo < Len(rd.log)
      BY DEF StorageInv, WriteInv, AppendProgress
    <3>2. Len(rd.log) \in Nat
      BY <1>0, Logs
    <3>3. pc = "append" => rd.log[Len(rd.log)] \in Entry
      BY <2>2, <3>1, <3>2, ElementType
    <3>. QED
      BY <3>3 DEF LastEntTerm, Entry
  <2>4. local' \in LocalState
    BY <1>0, <2>1, <2>2, <2>3 DEF TypeOK, LocalState
  <2>5. /\ pc' \in {"setIndex", "save"}
        /\ UNCHANGED <<clusterVars, raftVars, apply, cur, todo, rd, gcVars, diskVars,
                       up, crashes, ghostVars>>
    BY <2>1
  <2>. QED
    BY <1>0, <2>4, <2>5 DEF TypeOK
<1>8. CASE SaveLocalState
  <2>1. /\ local' = [local EXCEPT !.term = rd.term, !.commit = rd.commit]
        /\ dlocal' = local' /\ pc' = "send"
        /\ UNCHANGED <<clusterVars, raftVars, apply, cur, todo, rd, gcVars, dlog,
                       dapply, dconf, kv, up, crashes, ghostVars>>
    BY <1>8 DEF SaveLocalState, WriteLocalState
  <2>2. rd.term \in Term /\ rd.commit \in Index
    BY <1>0 DEF TypeOK, Ready
  <2>3. local' \in LocalState
    BY <1>0, <2>1, <2>2 DEF TypeOK, LocalState
  <2>4. /\ dlocal' = local' /\ pc' = "send"
        /\ UNCHANGED <<clusterVars, raftVars, apply, cur, todo, rd, gcVars, dlog,
                       dapply, dconf, kv, up, crashes, ghostVars>>
    BY <2>1
  <2>. QED
    BY <1>0, <2>3, <2>4 DEF TypeOK
<1>9. CASE Send
  <2>1. /\ released' = ack /\ relTerm' = rd.term /\ pc' = "apply" /\ cur' = rd.from
        /\ UNCHANGED <<clusterVars, raftVars, memVars, todo, rd, gcVars, diskVars,
                       up, crashes, ack, fuzz>>
    BY <1>9 DEF Send
  <2>2. rd.term \in Term /\ rd.from \in 1..(MaxIndex + 1)
    BY <1>0 DEF TypeOK, Ready
  <2>3. cur' \in 0..(MaxIndex + 1)
    BY <1>i, <2>1, <2>2
  <2>. QED
    BY <1>0, <2>1, <2>2, <2>3 DEF TypeOK
<1>. QED
  BY <1>1, <1>2, <1>3, <1>4, <1>5, <1>6, <1>7, <1>8, <1>9 DEF SaveReady

\* process and Advance leave well-typed states.
LEMMA TypeProcess ==
    ASSUME StorageInv, ProcessEntry \/ Advance
    PROVE  TypeOK'
<1>0. TypeOK
  BY DEF StorageInv
<1>i. /\ \A n \in Index : n \in Nat /\ n <= MaxIndex /\ n + 1 \in 1..(MaxIndex + 1)
      /\ 0 \in 0..(MaxIndex + 1)
      /\ MaxIndex \in Nat /\ cur \in Nat /\ rd.commit \in Index
  BY <1>0, Bounds, Numbers DEF Index, TypeOK, Ready
<1>c. ASSUME up, pc \in {"exec", "compact"}
      PROVE  /\ cur + 1 \in 0..(MaxIndex + 1)
             /\ Current \in Entry
  <2>1. cur \in 1..rd.commit /\ Current \in Entry
    BY <1>c, CurrentEntry
  <2>. QED
    BY <1>i, <2>1
<1>1. CASE ApplyIndex
  <2>1. /\ apply' = [apply EXCEPT !.index = cur] /\ dapply' = apply' /\ pc' = "exec"
        /\ cur <= rd.commit
        /\ UNCHANGED <<clusterVars, raftVars, local, cur, todo, rd, gcVars, dlog, dlocal,
                       dconf, kv, up, crashes, ghostVars>>
    BY <1>1 DEF ApplyIndex
  <2>2. cur \in Index
    BY <1>i, <2>1 DEF Index
  <2>3. apply' \in ApplyState
    BY <1>0, <2>1, <2>2 DEF TypeOK, ApplyState
  <2>4. /\ dapply' = apply' /\ pc' = "exec"
        /\ UNCHANGED <<clusterVars, raftVars, local, cur, todo, rd, gcVars, dlog, dlocal,
                       dconf, kv, up, crashes, ghostVars>>
    BY <2>1
  <2>. QED
    BY <1>0, <2>3, <2>4 DEF TypeOK
<1>2. CASE ExecWrite
  <2>1. /\ up /\ pc = "exec" /\ kv' = NextMap(kv, Current.kind, Current.key, Current.val)
        /\ pc' = "apply" /\ cur' = cur + 1
        /\ UNCHANGED <<clusterVars, raftVars, memVars, todo, rd, gcVars, dlog, dlocal,
                       dapply, dconf, up, crashes, ghostVars>>
    BY <1>2 DEF ExecWrite
  <2>2. Current \in Entry
    BY <1>c, <2>1
  <2>3. Current.kind \in Kinds /\ Current.val \in Value \cup {Nil}
    BY <2>2 DEF Entry
  <2>4. kv' \in Map
    BY <1>0, <2>1, <2>3, NextMapType DEF TypeOK
  <2>5. /\ pc' = "apply" /\ cur' \in 0..(MaxIndex + 1)
        /\ UNCHANGED <<clusterVars, raftVars, memVars, todo, rd, gcVars, dlog, dlocal,
                       dapply, dconf, up, crashes, ghostVars>>
    BY <1>c, <2>1
  <2>. QED
    BY <1>0, <2>4, <2>5 DEF TypeOK
<1>3. CASE ExecNone
  <2>1. /\ up /\ pc = "exec" /\ pc' = "apply" /\ cur' = cur + 1
        /\ UNCHANGED <<clusterVars, raftVars, memVars, todo, rd, gcVars, diskVars,
                       up, crashes, ghostVars>>
    BY <1>3 DEF ExecNone
  <2>2. cur' \in 0..(MaxIndex + 1)
    BY <1>c, <2>1
  <2>. QED
    BY <1>0, <2>1, <2>2 DEF TypeOK
<1>4. CASE ExecCompact
  <2>1. /\ up /\ pc = "exec" /\ apply' = [apply EXCEPT !.truncIndex = Current.cidx]
        /\ pc' = "compact"
        /\ UNCHANGED <<clusterVars, raftVars, local, cur, todo, rd, gcVars, diskVars,
                       up, crashes, ghostVars>>
    BY <1>4 DEF ExecCompact
  <2>2. Current.cidx \in Index
    BY <1>c, <2>1 DEF Entry
  <2>3. apply' \in ApplyState
    BY <1>0, <2>1, <2>2 DEF TypeOK, ApplyState
  <2>4. /\ pc' = "compact"
        /\ UNCHANGED <<clusterVars, raftVars, local, cur, todo, rd, gcVars, diskVars,
                       up, crashes, ghostVars>>
    BY <2>1
  <2>. QED
    BY <1>0, <2>3, <2>4 DEF TypeOK
<1>5. CASE Compact
  <2>1. /\ up /\ pc = "compact"
        /\ apply' = [apply EXCEPT !.truncTerm = Current.cterm] /\ dapply' = apply'
        /\ gc' = gc \cup {<<lastCompacted + 1, apply.truncIndex + 1>>}
        /\ lastCompacted' = apply.truncIndex /\ pc' = "apply" /\ cur' = cur + 1
        /\ UNCHANGED <<clusterVars, raftVars, local, todo, rd, dlog, dlocal, dconf, kv,
                       up, crashes, ghostVars>>
    BY <1>5 DEF Compact
  <2>2. Current.cterm \in Term
    BY <1>c, <2>1 DEF Entry
  <2>3. apply' \in ApplyState
    BY <1>0, <2>1, <2>2 DEF TypeOK, ApplyState
  <2>4. lastCompacted' \in Index /\ apply.truncIndex \in Index /\ lastCompacted \in Index
    BY <1>0, <2>1 DEF TypeOK, ApplyState
  <2>5. gc' \subseteq (1..(MaxIndex + 1)) \X (1..(MaxIndex + 1))
    <3>1. lastCompacted + 1 \in 1..(MaxIndex + 1) /\ apply.truncIndex + 1 \in 1..(MaxIndex + 1)
      BY <1>i, <2>4
    <3>2. gc \subseteq (1..(MaxIndex + 1)) \X (1..(MaxIndex + 1))
      BY <1>0 DEF TypeOK
    <3>. QED
      BY <2>1, <3>1, <3>2
  <2>6. /\ dapply' = apply' /\ pc' = "apply" /\ cur' \in 0..(MaxIndex + 1)
        /\ UNCHANGED <<clusterVars, raftVars, local, todo, rd, dlog, dlocal, dconf, kv,
                       up, crashes, ghostVars>>
    BY <1>c, <2>1
  <2>. QED
    BY <1>0, <2>3, <2>4, <2>5, <2>6 DEF TypeOK
<1>6. CASE Advance
  <2>1. /\ rapplied' \in {rd.commit, rd.snap.index, rapplied}
        /\ stable' \in {Len(rd.log), stable} /\ rsnap' \in {NoSnap, rsnap}
        /\ pc' = "idle" /\ cur' = 0 /\ rd' = NoReady
        /\ UNCHANGED <<clusterVars, rlog, rcommit, rterm, memVars, todo, gcVars, diskVars,
                       up, crashes, ghostVars>>
    BY <1>6 DEF Advance
  <2>2. rd.snap \in Snapshot
    BY <1>0 DEF TypeOK, Ready
  <2>3. rd.snap.index \in Index
    BY <2>2 DEF Snapshot
  <2>4. /\ rapplied' \in Index /\ stable' \in Index /\ rsnap' \in Snapshot
        /\ rd' \in Ready /\ Len(rd'.log) \in Index
    BY <1>0, <1>i, <2>1, <2>3, ZeroTypes DEF TypeOK
  <2>5. /\ pc' = "idle" /\ cur' \in 0..(MaxIndex + 1)
        /\ UNCHANGED <<clusterVars, rlog, rcommit, rterm, memVars, todo, gcVars, diskVars,
                       up, crashes, ghostVars>>
    BY <1>i, <2>1
  <2>. QED
    BY <1>0, <2>4, <2>5 DEF TypeOK
<1>. QED
  BY <1>1, <1>2, <1>3, <1>4, <1>5, <1>6 DEF ProcessEntry

\* Every step preserves TypeOK.
LEMMA TypeNext ==
    ASSUME StorageInv, Next
    PROVE  TypeOK'
<1>0. TypeOK
  BY DEF StorageInv
<1>1. CASE Environment
  <2>1. ClusterMoves /\ ClusterStep
    BY <1>1, EnvironmentMoves DEF StorageInv
  <2>2. /\ llog' \in Seq(Entry) /\ Len(llog') \in Index
        /\ lterm' \in Term /\ ccommit' \in Index
    BY <2>1 DEF ClusterMoves
  <2>. QED
    BY <1>0, <2>1, <2>2 DEF TypeOK
<1>2. CASE \E g \in gc : GcRun(g)
  <2>1. /\ dlog' = dlog /\ gc' \subseteq gc
        /\ UNCHANGED <<clusterVars, raftVars, memVars, tickVars, lastCompacted, dlocal,
                       dapply, dconf, kv, up, crashes, ghostVars>>
    BY <1>2, GcDeletesNothing DEF GcRun
  <2>. QED
    BY <1>0, <2>1 DEF TypeOK
<1>. QED
  BY <1>1, <1>2, TypeRaft, TypeStart, TypeSave, TypeProcess DEF Next, OnTick

-----------------------------------------------------------------------------
(* The inductive invariant *)

\* The inductive invariant holds of an empty disk.
LEMMA InitInv ==
    ASSUME Init
    PROVE  StorageInv
<1>. DEFINE e == [Hole EXCEPT !.term = 1]
<1>0. /\ Boot \in Nat /\ Boot \in Index /\ MaxIndex \in Nat
      /\ 0 \in 0..MaxCrash /\ 0 \in 0..(MaxIndex + 1)
  BY Bounds DEF Index
<1>1. e \in Entry /\ e.term = 1 /\ e.kind = "none"
  BY ZeroTypes DEF Hole, Entry
<1>i. /\ llog = [i \in 1..Boot |-> e]
      /\ lterm = 1 /\ ccommit = Boot /\ rlog = <<>>
      /\ stable = 0 /\ rcommit = 0 /\ rapplied = 0 /\ rterm = 0
      /\ rsnap = NoSnap /\ local = ZeroLocal /\ apply = ZeroApply
      /\ pc = "idle" /\ cur = 0 /\ todo = {} /\ rd = NoReady
      /\ lastCompacted = 0 /\ gc = {}
      /\ dlog = [i \in 1..MaxIndex |-> Hole]
      /\ dlocal = ZeroLocal /\ dapply = ZeroApply
      /\ dconf = FALSE /\ kv = EmptyMap /\ up = FALSE /\ crashes = 0
      /\ released = 0 /\ relTerm = 0 /\ ack = 0 /\ fuzz = 0
  BY DEF Init
<1>. HIDE DEF e
<1>2. /\ llog \in Seq(Entry) /\ Len(llog) = Boot
      /\ \A i \in 1..Boot : llog[i] = e
  BY <1>0, <1>1, <1>i
<1>3. rlog \in Seq(Entry) /\ Len(rlog) = 0
  BY <1>i
<1>4. TypeOK
  <2>1. dlog \in [1..MaxIndex -> Entry]
    BY <1>i, ZeroTypes
  <2>2. rd \in Ready /\ Len(rd.log) \in Index
    BY <1>i, ZeroTypes
  <2>. QED
    BY <1>0, <1>2, <1>3, <1>i, <2>1, <2>2, ZeroTypes DEF TypeOK
<1>5. ClusterInv
  BY <1>0, <1>1, <1>2, <1>i DEF ClusterInv
<1>6. LogInv
  <2>1. Follows(rlog, llog, lterm)
    BY <1>3 DEF Follows
  <2>. QED
    BY <1>i, <2>1, EmptyLog DEF LogInv
<1>7. RaftInv
  BY <1>0, <1>3, <1>i DEF RaftInv, NoSnap, Active
<1>8. ReadyInv /\ MemInv /\ WriteInv /\ StoreInv
  BY <1>i DEF ReadyInv, MemInv, WriteInv, AppendProgress, LogWritten, LastMem, Saved,
     StoreInv, TruncInv, ContractInv, Active
<1>9. DiskInv
  <2>1. DiskStates /\ DiskFresh
    BY <1>0, <1>i DEF DiskStates, DiskFresh, ZeroApply, ZeroLocal, TermAt
  <2>2. DiskLog = <<>>
    BY <1>i DEF DiskLog, ZeroLocal
  <2>3. Follows(<<>>, llog, lterm)
    BY DEF Follows
  <2>4. DiskWhole
    BY <1>i, <2>2, <2>3 DEF DiskWhole, ZeroApply, ZeroLocal
  <2>. QED
    BY <2>1, <2>4 DEF DiskInv
<1>10. ReleasedDurable
  BY <1>i DEF ReleasedDurable, ZeroLocal
<1>. QED
  BY <1>4, <1>5, <1>6, <1>7, <1>8, <1>9, <1>10 DEF StorageInv

\* A step that changes nothing preserves the inductive invariant.
LEMMA StutterInv ==
    ASSUME StorageInv, UNCHANGED vars
    PROVE  StorageInv'
<1>1. UNCHANGED <<clusterVars, raftVars, memVars, tickVars, gcVars, diskVars,
                  up, crashes, ghostVars>>
  BY DEF vars
<1>2. TypeOK'
  BY <1>1 DEF StorageInv, TypeOK
<1>3. ClusterInv' /\ LogInv' /\ RaftInv'
  BY <1>1 DEF StorageInv, ClusterInv, LogInv, RaftInv, Active
<1>4. ReadyInv'
  BY <1>1 DEF StorageInv, ReadyInv, ReadyBounds, ReadyCommitted, ReadyOffset,
     ReadyKept, ReadyAcked, Active
<1>5. MemInv'
  BY <1>1 DEF StorageInv, MemInv, ApplyMem, LocalMem, AppliedMem, Active, Current
<1>6. WriteInv' /\ StoreInv'
  BY <1>1, WriteQuiet DEF StorageInv, StoreInv, TruncInv, ContractInv
<1>7. DiskInv'
  BY <1>1 DEF StorageInv, DiskInv, DiskStates, DiskFresh, DiskWhole, DiskLog, TermAt,
     InSnapshotWindow, InTruncateWindow
<1>8. ReleasedDurable'
  BY <1>1 DEF StorageInv, ReleasedDurable
<1>. QED
  BY <1>2, <1>3, <1>4, <1>5, <1>6, <1>7, <1>8 DEF StorageInv

\* The invariant is inductive: every step of handleReady, of raft, of the
\* cluster, and every crash outside the two windows, preserves it.
LEMMA NextInv ==
    ASSUME "snapshot" \notin Windows, "truncate" \notin Windows,
           StorageInv, [Next]_vars
    PROVE  StorageInv'
<1>1. CASE Next
  <2>1. TypeOK' /\ ClusterInv' /\ LogInv' /\ RaftInv'
    BY <1>1, TypeNext, ClusterNext, LogNext, RaftNext DEF StorageInv
  <2>2. ReadyInv' /\ MemInv' /\ WriteInv' /\ StoreInv'
    BY <1>1, ReadyNext, MemNext, WriteNext, StoreNext
  <2>3. DiskInv' /\ ReleasedDurable'
    BY <1>1, DiskNext, ReleasedNext
  <2>. QED
    BY <2>1, <2>2, <2>3 DEF StorageInv
<1>. QED
  BY <1>1, StutterInv

\* The inductive invariant holds at all times, for any number of keys,
\* entries, terms and crashes, if no crash falls between two writes of
\* applySnapshot or of truncateAndAppend.
THEOREM StorageSafe ==
    ASSUME "snapshot" \notin Windows, "truncate" \notin Windows
    PROVE  Spec => []StorageInv
<1>1. Init => StorageInv
  BY InitInv
<1>2. StorageInv /\ [Next]_vars => StorageInv'
  BY NextInv
<1>. QED
  BY <1>1, <1>2, PTL DEF Spec

\* The model is type correct: no step of handleReady leaves the bounds of the
\* leader's log.
THEOREM TypeCorrect ==
    ASSUME "snapshot" \notin Windows, "truncate" \notin Windows
    PROVE  Spec => []TypeOK
<1>1. StorageInv => TypeOK
  BY DEF StorageInv
<1>. QED
  BY <1>1, StorageSafe, PTL

\* handleReady sends its messages after saveReadyState: what an
\* acknowledgement vouches for is on disk from then on, across crashes.
THEOREM AcknowledgedDurable ==
    ASSUME "snapshot" \notin Windows, "truncate" \notin Windows
    PROVE  Spec => []ReleasedDurable
<1>1. StorageInv => ReleasedDurable
  BY DEF StorageInv
<1>. QED
  BY <1>1, StorageSafe, PTL

\* The inductive invariant implies the Storage contract outside the torn
\* assignments.
LEMMA InvAgrees ==
    ASSUME StorageInv
    PROVE  StorageAgrees
<1>. SUFFICES ASSUME pc \notin {"setIndex", "compact"}, up, rsnap.index = 0
              PROVE  /\ \A i \in apply.truncIndex..stable : StorageAgreesAt(i)
                     /\ Len(rlog) = stable => local.lastIndex = stable
  BY DEF StorageAgrees, StorageContract
<1>0. /\ apply.truncIndex \in Nat /\ stable \in Nat /\ local.lastIndex \in Nat
      /\ rcommit \in Nat /\ Len(rlog) \in Nat
  BY Numbers, Logs DEF StorageInv
<1>1. /\ stable <= local.lastIndex
      /\ \A i \in (apply.truncIndex + 1)..stable : dlog[i] = rlog[i]
      /\ Len(rlog) = stable => local.lastIndex = stable
      /\ local.lastIndex <= stable /\ apply.truncIndex < local.lastIndex =>
             local.lastTerm = rlog[local.lastIndex].term
  BY DEF StorageInv, StoreInv, ContractInv
<1>2. stable <= Len(rlog) /\ \A i \in 1..rcommit : rlog[i] = llog[i]
  BY DEF StorageInv, RaftInv
<1>3. apply.truncTerm = TermAt(rlog, apply.truncIndex)
  <2>1. apply = dapply
    BY MemElim DEF ApplyMem
  <2>2. apply.truncTerm = TermAt(llog, apply.truncIndex)
    BY <2>1 DEF StorageInv, DiskInv, DiskStates
  <2>3. apply.truncIndex <= rcommit
    BY AppliedCommitted
  <2>. QED
    BY <1>0, <1>2, <2>2, <2>3 DEF TermAt
<1>4. ASSUME NEW i \in apply.truncIndex..stable
      PROVE  StorageAgreesAt(i)
  <2>1. CASE i = apply.truncIndex
    BY <1>0, <1>3, <2>1 DEF StorageAgreesAt, TermReturns, TermAt, FirstIndex
  <2>2. CASE i # apply.truncIndex
    <3>1. i \in (apply.truncIndex + 1)..stable /\ i \in 1..Len(rlog) /\ i # 0
      BY <1>0, <1>2, <2>2
    <3>2. dlog[i] = rlog[i] /\ 1 <= rlog[i].term
      BY <1>1, <3>1 DEF StorageInv, LogInv, Follows
    <3>3. dlog[i] # Hole
      BY <3>2 DEF Hole
    <3>4. CheckRange(i, i + 1)
      BY <1>0, <1>1, <3>1 DEF CheckRange
    <3>5. i = local.lastIndex => local.lastTerm = rlog[i].term
      BY <1>0, <1>1, <3>1
    <3>. QED
      BY <2>2, <3>1, <3>2, <3>3, <3>4, <3>5 DEF StorageAgreesAt, TermReturns
  <2>. QED
    BY <2>1, <2>2
<1>. QED
  BY <1>1, <1>4

\* The raft goroutine, whenever it calls peerStorage outside the two pairs of
\* torn assignments, gets the terms and entries it believes are stored.
THEOREM StorageAgreement ==
    ASSUME "snapshot" \notin Windows, "truncate" \notin Windows
    PROVE  Spec => []StorageAgrees
<1>1. StorageInv => StorageAgrees
  BY InvAgrees
<1>. QED
  BY <1>1, StorageSafe, PTL

\* The inductive invariant implies that a crashed replica can restart.
LEMMA InvRecoverable ==
    ASSUME StorageInv
    PROVE  Recoverable
<1>. SUFFICES ASSUME ~up
              PROVE  Recoverable
  BY DEF Recoverable
<1>0. /\ dapply.truncIndex \in Nat /\ dapply.index \in Nat
      /\ dlocal.commit \in Nat /\ dlocal.lastIndex \in Nat
  BY Numbers DEF StorageInv
<1>1. /\ StartCommit = dlocal.commit
      /\ dapply.truncIndex <= dapply.index
      /\ dapply.index <= dlocal.commit
      /\ dlocal.commit <= dlocal.lastIndex
      /\ Follows(DiskLog, llog, lterm)
      /\ \A i \in 1..dlocal.commit : DiskLog[i] = llog[i]
  BY StartCommitSaved DEF StorageInv
<1>2. /\ Len(DiskLog) = dlocal.lastIndex
      /\ \A i \in 1..dlocal.lastIndex :
           DiskLog[i] = IF i <= dapply.truncIndex THEN llog[i] ELSE dlog[i]
  BY DiskLogType DEF StorageInv
<1>3. NewRaftOK /\ dapply.truncIndex <= dlocal.lastIndex
  BY <1>0, <1>1 DEF NewRaftOK
<1>4. ASSUME NEW i \in (dapply.truncIndex + 1)..dlocal.lastIndex
      PROVE  dlog[i] # Hole
  <2>1. i \in 1..Len(DiskLog) /\ DiskLog[i] = dlog[i]
    BY <1>0, <1>2
  <2>2. 1 <= DiskLog[i].term
    BY <1>1, <2>1 DEF Follows
  <2>. QED
    BY <2>1, <2>2 DEF Hole
<1>5. ASSUME NEW i \in (dapply.truncIndex + 1)..StartCommit
      PROVE  dlog[i] = llog[i]
  BY <1>0, <1>1, <1>2
<1>. QED
  BY <1>3, <1>4, <1>5 DEF Recoverable

\* After a crash outside the two windows newPeer starts without a panic, on a
\* log without holes whose committed part is the cluster's.
THEOREM CrashRecovery ==
    ASSUME "snapshot" \notin Windows, "truncate" \notin Windows
    PROVE  Spec => []Recoverable
<1>1. StorageInv => Recoverable
  BY InvRecoverable
<1>. QED
  BY <1>1, StorageSafe, PTL

\* No step of the replica moves a durable index or the durable term back.
LEMMA DurableStep ==
    ASSUME StorageInv, Next
    PROVE  /\ dapply.index <= dapply'.index
           /\ dapply.truncIndex <= dapply'.truncIndex
           /\ dlocal.commit <= dlocal'.commit
           /\ dlocal.term <= dlocal'.term
<1>0. /\ dapply.truncIndex \in Nat /\ dapply.index \in Nat /\ dlocal.commit \in Nat
      /\ dlocal.term \in Nat /\ apply.truncIndex \in Nat /\ cur \in Nat
      /\ rd.snap.index \in Nat /\ rapplied \in Nat
  BY Numbers DEF StorageInv
<1>1. CASE UNCHANGED <<dapply, dlocal>>
  BY <1>0, <1>1
<1>2. CASE SnapApplyState
  <2>1. /\ up /\ pc = "snap" /\ dlocal' = dlocal
        /\ dapply' = [index |-> rd.snap.index, truncIndex |-> rd.snap.index,
                      truncTerm |-> rd.snap.term]
    BY <1>2 DEF SnapApplyState
  <2>2. /\ apply = dapply /\ apply.index = rapplied
        /\ apply.truncIndex <= apply.index /\ rd.snap.index > 0
    BY <2>1, MemElim DEF ApplyMem, AppliedMem
  <2>3. rapplied < rd.snap.index
    BY <2>1, <2>2 DEF StorageInv, ReadyInv, ReadyBounds, Active
  <2>. QED
    BY <1>0, <2>1, <2>2, <2>3
<1>3. CASE SaveLocalState
  <2>1. /\ up /\ pc = "save" /\ dapply' = dapply
        /\ dlocal' = [local EXCEPT !.term = rd.term, !.commit = rd.commit]
    BY <1>3 DEF SaveLocalState, WriteLocalState
  <2>2. dlocal'.term = rd.term /\ dlocal'.commit = rd.commit
    BY <2>1 DEF StorageInv, TypeOK, LocalState
  <2>3. dlocal.term <= rd.term /\ dlocal.commit <= rd.commit
    BY <2>1, MemElim DEF LocalMem, Active
  <2>. QED
    BY <1>0, <2>1, <2>2, <2>3
<1>4. CASE ApplyIndex
  <2>1. /\ up /\ pc = "apply" /\ dlocal' = dlocal /\ dapply' = [apply EXCEPT !.index = cur]
    BY <1>4 DEF ApplyIndex
  <2>2. apply = dapply /\ cur = apply.index + 1
    BY <2>1, MemElim DEF ApplyMem, AppliedMem
  <2>3. dapply'.index = cur /\ dapply'.truncIndex = dapply.truncIndex
    BY <2>1, <2>2 DEF StorageInv, TypeOK, ApplyState
  <2>. QED
    BY <1>0, <2>1, <2>2, <2>3
<1>5. CASE Compact
  <2>1. /\ up /\ pc = "compact" /\ dlocal' = dlocal
        /\ dapply' = [apply EXCEPT !.truncTerm = Current.cterm]
    BY <1>5 DEF Compact
  <2>2. dapply.index = apply.index /\ dapply.truncIndex <= apply.truncIndex
    BY <2>1, MemElim DEF ApplyMem
  <2>3. dapply'.index = apply.index /\ dapply'.truncIndex = apply.truncIndex
    BY <2>1 DEF StorageInv, TypeOK, ApplyState
  <2>. QED
    BY <1>0, <2>1, <2>2, <2>3
<1>6. CASE Environment
  BY <1>1, <1>6, EnvironmentMoves DEF StorageInv
<1>7. CASE RaftRecv \/ Bootstrap \/ Restart \/ Crash
  BY <1>1, <1>7 DEF RaftRecv, RecvTerm, RecvCommit, RecvAppend, RecvSnapshot,
     Bootstrap, Restart, RestartFrom, Crash
<1>8. CASE TakeReady \/ SnapConfState \/ SnapDone \/ (\E k \in Key : SnapPut(k))
           \/ AppendEntry \/ DeleteTail \/ SetLastTerm \/ SetLastIndex
  BY <1>1, <1>8 DEF TakeReady, SnapConfState, SnapDone, SnapPut, AppendEntry,
     DeleteTail, SetLastTerm, SetLastIndex
<1>9. CASE Send \/ ExecWrite \/ ExecNone \/ ExecCompact \/ Advance
           \/ \E g \in gc : GcRun(g)
  BY <1>1, <1>9 DEF Send, ExecWrite, ExecNone, ExecCompact, Advance, GcRun
<1>. QED
  BY <1>2, <1>3, <1>4, <1>5, <1>6, <1>7, <1>8, <1>9
  DEF Next, OnTick, SaveReady, ProcessEntry

\* putMeta never writes an applied, truncated or commit index, or a term,
\* smaller than the one on disk, across any number of crashes.
THEOREM DurableProgress ==
    ASSUME "snapshot" \notin Windows, "truncate" \notin Windows
    PROVE  Spec => DurableMonotone
<1>1. StorageInv /\ [Next]_vars =>
        [/\ dapply.index <= dapply'.index
         /\ dapply.truncIndex <= dapply'.truncIndex
         /\ dlocal.commit <= dlocal'.commit
         /\ dlocal.term <= dlocal'.term]_<<dapply, dlocal>>
  BY DurableStep DEF vars
<1>. QED
  BY <1>1, StorageSafe, PTL DEF Spec, DurableMonotone

-----------------------------------------------------------------------------
(* The committed part of the log on disk *)

\* Outside the windows it is part of the inductive invariant.
LEMMA WholeOnDisk ==
    ASSUME TypeOK, ClusterInv, DiskInv, ~InSnapshotWindow, ~InTruncateWindow
    PROVE  CommittedOnDisk
<1>0. /\ dapply.truncIndex \in Nat /\ dlocal.commit \in Nat
      /\ dlocal.lastIndex \in Nat
  BY Numbers
<1>1. /\ dlocal.commit <= dlocal.lastIndex
      /\ \A i \in 1..dlocal.commit : DiskLog[i] = llog[i]
  BY DEF DiskInv, DiskWhole
<1>2. \A i \in 1..dlocal.lastIndex :
         DiskLog[i] = IF i <= dapply.truncIndex THEN llog[i] ELSE dlog[i]
  BY DiskLogType
<1>. QED
  BY <1>0, <1>1, <1>2 DEF CommittedOnDisk

\* Where truncateAndAppend writes: above the truncated index, and what it
\* writes below the saved commit index is the cluster's entry.
LEMMA WritePosition ==
    ASSUME StorageInv, AppendEntry \/ DeleteTail
    PROVE  /\ dapply.truncIndex < cur
           /\ UNCHANGED <<llog, dlocal, dapply>>
           /\ \A i \in 1..MaxIndex : i # cur => dlog'[i] = dlog[i]
           /\ cur <= dlocal.commit => dlog'[cur] = llog[cur]
<1>0. /\ dapply.truncIndex \in Nat /\ dlocal.commit \in Nat /\ cur \in Nat
      /\ rd.commit \in Nat /\ Len(rd.log) \in Nat /\ MaxIndex \in Nat
      /\ dlog \in [1..MaxIndex -> Entry]
  BY Numbers, Logs, Bounds DEF StorageInv
<1>1. /\ up /\ pc = "append" /\ UNCHANGED <<llog, dlocal, dapply>>
      /\ \/ cur <= Len(rd.log) /\ dlog' = [dlog EXCEPT ![cur] = rd.log[cur]]
         \/ cur > Len(rd.log) /\ dlog' = [dlog EXCEPT ![cur] = Hole]
  BY DEF AppendEntry, DeleteTail, TickStep, clusterVars
<1>2. apply = dapply /\ local.commit = dlocal.commit /\ local.commit <= rd.commit
  BY <1>1, MemElim DEF ApplyMem, LocalMem, Active
<1>3. apply.truncIndex < cur
  BY <1>1 DEF StorageInv, WriteInv, AppendProgress
<1>4. rd.commit <= Len(rd.log) /\ \A i \in 1..rd.commit : rd.log[i] = llog[i]
  BY <1>1 DEF StorageInv, ReadyInv, Active, ReadyBounds, ReadyCommitted
<1>5. ASSUME cur <= dlocal.commit
      PROVE  dlog'[cur] = llog[cur]
  <2>1. cur \in 1..rd.commit /\ cur <= Len(rd.log)
    BY <1>0, <1>2, <1>3, <1>4, <1>5
  <2>2. cur \in 1..MaxIndex
    BY <1>0, <2>1 DEF StorageInv, TypeOK, Index
  <2>. QED
    BY <1>0, <1>1, <1>4, <2>1, <2>2
<1>. QED
  BY <1>0, <1>1, <1>2, <1>3, <1>5

\* Every step preserves CommittedOnDisk: inside the windows too, only
\* truncateAndAppend writes the log, and applySnapshot raises the truncated index.
LEMMA OnDiskNext ==
    ASSUME "snapshot" \notin Windows, "truncate" \notin Windows,
           StorageInv, CommittedOnDisk, Next
    PROVE  CommittedOnDisk'
<1>0. /\ dapply.truncIndex \in Nat /\ dlocal.commit \in Nat /\ cur \in Nat
      /\ ccommit \in Nat /\ MaxIndex \in Nat /\ dlocal.commit <= MaxIndex
  <2>1. dlocal.commit <= MaxIndex
    BY Bounds DEF StorageInv, TypeOK, LocalState, Index
  <2>. QED
    BY <2>1, Numbers, Bounds DEF StorageInv
<1>i. StorageInv'
  BY NextInv
<1>w. ~InSnapshotWindow' /\ ~InTruncateWindow' => CommittedOnDisk'
  <2>1. ASSUME TypeOK', ClusterInv', DiskInv', ~InSnapshotWindow', ~InTruncateWindow'
        PROVE  CommittedOnDisk'
    BY <2>1, WholeOnDisk, PTL
  <2>. QED
    BY <1>i, <2>1 DEF StorageInv
<1>1. CASE UNCHANGED <<llog, dlog, dlocal, dapply>>
  BY <1>1 DEF CommittedOnDisk
<1>2. CASE Environment
  <2>1. ClusterMoves /\ UNCHANGED <<dlog, dlocal, dapply>>
    BY <1>2, EnvironmentMoves DEF StorageInv
  <2>2. \A i \in 1..ccommit : llog'[i] = llog[i]
    BY <2>1 DEF ClusterMoves
  <2>3. dlocal.commit <= ccommit
    BY DEF StorageInv, DiskInv, DiskStates
  <2>. QED
    BY <1>0, <2>1, <2>2, <2>3 DEF CommittedOnDisk
<1>3. CASE RaftRecv \/ Bootstrap \/ Restart \/ Crash
  BY <1>1, <1>3 DEF RaftRecv, RecvTerm, RecvCommit, RecvAppend, RecvSnapshot,
     Bootstrap, Restart, RestartFrom, Crash, clusterVars
<1>4. CASE SnapApplyState
  <2>1. /\ UNCHANGED <<llog, dlog, dlocal>>
        /\ dapply.truncIndex <= dapply'.truncIndex
        /\ dapply'.truncIndex \in Nat
    <3>1. UNCHANGED <<llog, dlog, dlocal>>
      BY <1>4 DEF SnapApplyState, clusterVars, raftVars
    <3>2. dapply'.truncIndex \in Nat
      BY <1>i DEF StorageInv, TypeOK, ApplyState, Index
    <3>. QED
      BY <3>1, <3>2, DurableStep
  <2>. QED
    BY <1>0, <2>1 DEF CommittedOnDisk
<1>5. CASE AppendEntry \/ DeleteTail
  BY <1>0, <1>5, WritePosition DEF CommittedOnDisk
<1>6. CASE SaveLocalState
  <2>1. pc' = "send"
    BY <1>6 DEF SaveLocalState
  <2>. QED
    BY <1>w, <2>1 DEF InSnapshotWindow, InTruncateWindow
<1>7. CASE ApplyIndex \/ Compact
  <2>1. pc' \in {"apply", "exec"}
    BY <1>7 DEF ApplyIndex, Compact
  <2>. QED
    BY <1>w, <2>1 DEF InSnapshotWindow, InTruncateWindow
<1>8. CASE TakeReady \/ SnapConfState \/ SnapDone \/ (\E k \in Key : SnapPut(k))
           \/ SetLastTerm \/ SetLastIndex
  BY <1>1, <1>8 DEF TakeReady, SnapConfState, SnapDone, SnapPut, SetLastTerm,
     SetLastIndex, clusterVars, raftVars, diskVars
<1>9. CASE Send \/ ExecWrite \/ ExecNone \/ ExecCompact \/ Advance
  BY <1>1, <1>9 DEF Send, ExecWrite, ExecNone, ExecCompact, Advance, clusterVars,
     raftVars, diskVars
<1>10. CASE \E g \in gc : GcRun(g)
  BY <1>1, <1>10, GcDeletesNothing DEF GcRun, clusterVars, raftVars
<1>. QED
  BY <1>2, <1>3, <1>4, <1>5, <1>6, <1>7, <1>8, <1>9, <1>10
  DEF Next, OnTick, SaveReady, ProcessEntry

\* No step changes the log on disk at or below the saved commit index or the
\* truncated index.
LEMMA KeptStep ==
    ASSUME StorageInv, CommittedOnDisk, Next, NEW i \in 1..MaxIndex,
           i <= dlocal.commit \/ i <= dapply.truncIndex
    PROVE  dlog'[i] = dlog[i]
<1>0. dapply.truncIndex \in Nat /\ dlocal.commit \in Nat /\ cur \in Nat
  BY Numbers DEF StorageInv
<1>1. CASE AppendEntry \/ DeleteTail
  <2>1. CASE i # cur
    BY <1>1, <2>1, WritePosition
  <2>2. CASE i = cur
    <3>1. i \in (dapply.truncIndex + 1)..dlocal.commit /\ dlog'[i] = llog[i]
      BY <1>0, <1>1, <2>2, WritePosition
    <3>. QED
      BY <3>1 DEF CommittedOnDisk
  <2>. QED
    BY <2>1, <2>2
<1>2. CASE Environment
  BY <1>2, EnvironmentMoves DEF StorageInv
<1>3. CASE RaftRecv \/ Bootstrap \/ Restart \/ Crash
  BY <1>3 DEF RaftRecv, RecvTerm, RecvCommit, RecvAppend, RecvSnapshot,
     Bootstrap, Restart, RestartFrom, Crash
<1>4. CASE TakeReady \/ SnapApplyState \/ SnapConfState \/ SnapDone
           \/ (\E k \in Key : SnapPut(k)) \/ SetLastTerm \/ SetLastIndex
           \/ SaveLocalState
  BY <1>4 DEF TakeReady, SnapApplyState, SnapConfState, SnapDone, SnapPut,
     SetLastTerm, SetLastIndex, SaveLocalState
<1>5. CASE Send \/ ApplyIndex \/ ExecWrite \/ ExecNone \/ ExecCompact \/ Compact
           \/ Advance
  BY <1>5 DEF Send, ApplyIndex, ExecWrite, ExecNone, ExecCompact, Compact, Advance
<1>6. CASE \E g \in gc : GcRun(g)
  BY <1>6, GcDeletesNothing
<1>. QED
  BY <1>1, <1>2, <1>3, <1>4, <1>5, <1>6 DEF Next, OnTick, SaveReady, ProcessEntry

\* An entry that is committed or compacted stays on disk as it is: no conflict
\* rewrites it, and gcRaftLog, which should, never deletes it.
THEOREM CommittedLogKept ==
    ASSUME "snapshot" \notin Windows, "truncate" \notin Windows
    PROVE  Spec => CommittedKept
<1>1. Init => CommittedOnDisk
  <2>1. Init => dlocal.commit = 0 /\ dapply.truncIndex = 0
    BY DEF Init, ZeroLocal, ZeroApply
  <2>. QED
    BY <2>1 DEF CommittedOnDisk
<1>2. StorageInv /\ CommittedOnDisk /\ [Next]_vars => CommittedOnDisk'
  BY OnDiskNext DEF vars, diskVars, clusterVars, CommittedOnDisk
<1>3. StorageInv /\ CommittedOnDisk /\ [Next]_vars =>
        [\A i \in 1..MaxIndex :
            i <= dlocal.commit \/ i <= dapply.truncIndex => dlog'[i] = dlog[i]]_dlog
  BY KeptStep DEF vars, diskVars
<1>. QED
  BY <1>1, <1>2, <1>3, StorageSafe, PTL DEF Spec, CommittedKept

=============================================================================
