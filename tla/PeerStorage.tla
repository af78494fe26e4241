---------------------------- MODULE PeerStorage ----------------------------
(***************************************************************************)
(* One replica of the raft store: peerStorage (peer_storage.go) and the    *)
(* goroutine that drives it, peer.onTick -> handleReady (peer.go), down to *)
(* the single synced Pebble write, with crashes between any two writes.    *)
(*                                                                         *)
(* The etcd raft library is the environment.  What the rest of the cluster *)
(* does is condensed into the log of the current leader (llog), of which   *)
(* the first ccommit entries are committed and never change.  The replica  *)
(* is a follower; its raft instance runs in a goroutine of its own, so the *)
(* messages it receives interleave with the handling of a Ready.           *)
(*                                                                         *)
(* An entry carries a ghost field st, the key-value map that results from  *)
(* applying the log up to and including that entry.                        *)
(***************************************************************************)
EXTENDS Naturals, Sequences

CONSTANTS
    Key, Value, \* what clients store
    Nil,        \* "no value": a key that is not in the map
    Boot,       \* number of ConfChange entries StartNode puts into the log
    Requests,   \* kinds of requests that are made: put, del, compact
    MaxIndex,   \* bound on the length of the leader's log
    MaxTerm,    \* bound on the leader's term
    MaxCrash,   \* bound on the number of crashes
    Windows     \* which of the rare situations below may happen

\* A crash between two writes of applySnapshot, of truncateAndAppend or of
\* process (see Crash); a snapshot whose data lacks the entry at its index;
\* a snapshot with keys that were deleted (see RecvSnapshot).
AllWindows == {"snapshot", "truncate", "apply", "snapgen", "linger"}

ASSUME ConstantsAssumption ==
    /\ Nil \notin Value
    /\ Nil \notin Key
    /\ Requests \subseteq {"put", "del", "compact"}
    /\ Boot \in Nat
    /\ MaxIndex \in Nat
    /\ MaxTerm \in Nat
    /\ MaxCrash \in Nat
    /\ Boot <= MaxIndex
    /\ 1 <= MaxTerm
    /\ Windows \subseteq AllWindows

VARIABLES
    llog, lterm, ccommit,            \* the cluster
    rlog, stable, rcommit, rapplied, \* raftLog of this replica
    rterm, rsnap,
    local, apply,                    \* peerStorage in memory
    pc, cur, todo, rd,               \* the onTick goroutine
    lastCompacted, gc,               \* the gcRaftLog goroutines it starts
    dlog, dlocal, dapply, dconf, kv, \* on disk
    up, crashes,
    released, relTerm, ack, fuzz     \* ghosts

\* released and relTerm: the log index and the term that messages this
\* replica has sent vouch for.  ack: what the messages of the Ready in hand
\* will vouch for.  fuzz: the log index that the data of the last snapshot
\* applied had reached when the leader scanned it.

clusterVars == <<llog, lterm, ccommit>>
raftVars    == <<rlog, stable, rcommit, rapplied, rterm, rsnap>>
memVars     == <<local, apply>>
tickVars    == <<pc, cur, todo, rd>>
gcVars      == <<lastCompacted, gc>>
diskVars    == <<dlog, dlocal, dapply, dconf, kv>>
ghostVars   == <<released, relTerm, ack, fuzz>>
vars == <<clusterVars, raftVars, memVars, tickVars, gcVars, diskVars,
          up, crashes, ghostVars>>

-----------------------------------------------------------------------------
(* Data *)

Index == 0..MaxIndex
Term  == 0..MaxTerm
Map   == [Key -> Value \cup {Nil}]

EmptyMap == [k \in Key |-> Nil]

Kinds == {"none", "put", "del", "compact"}

Entry == [term  : Term, kind : Kinds,
          key   : Key \cup {Nil}, val : Value \cup {Nil},
          cidx  : Index, cterm : Term, \* of a CompactLog request
          st    : Map]

\* What is under a RaftLogEntryKey that was never written or was deleted.
Hole == [term |-> 0, kind |-> "none", key |-> Nil, val |-> Nil,
         cidx |-> 0, cterm |-> 0, st |-> EmptyMap]

\* peer.processRequest on the map: Put and Delete write one key, an entry
\* without a Request (a leader's empty entry, a ConfChange, which unmarshals
\* into an empty RaftCmdRequest, or an AdminRequest) writes none.
NextMap(m, kind, key, val) ==
    CASE kind = "put" -> [m EXCEPT ![key] = val]
      [] kind = "del" -> [m EXCEPT ![key] = Nil]
      [] OTHER        -> m

\* The map after the first i entries of log.
StateAt(log, i) == IF i = 0 THEN EmptyMap ELSE log[i].st

NewEntry(log, t, kind, key, val, ci, ct) ==
    [term |-> t, kind |-> kind, key |-> key, val |-> val,
     cidx |-> ci, cterm |-> ct,
     st |-> NextMap(StateAt(log, Len(log)), kind, key, val)]

\* raftpb.Snapshot; upto is a ghost: the log index whose effects the data
\* shows.  A snapshot with index 0 is raft's empty snapshot.
Snapshot == [index : Index, term : Term, data : Map, upto : Index]
NoSnap   == [index |-> 0, term |-> 0, data |-> EmptyMap, upto |-> 0]

\* RaftLocalState, with the HardState's term and commit, and RaftApplyState.
LocalState == [lastIndex : Index, lastTerm : Term, term : Term, commit : Index]
ApplyState == [index : Index, truncIndex : Index, truncTerm : Term]

\* raft.Ready: the entries of log above lo are to be persisted, then the
\* HardState, and the committed entries from..commit are to be applied.
\* (The part of log up to lo is a ghost, except for the committed entries.)
Ready == [snap : Snapshot, lo : Index, log : Seq(Entry),
          term : Term, commit : Index, from : 1..(MaxIndex + 1)]
NoReady == [snap |-> NoSnap, lo |-> 0, log |-> <<>>, term |-> 0,
            commit |-> 0, from |-> 1]

Larger(a, b)  == IF a < b THEN b ELSE a
Smaller(a, b) == IF a < b THEN a ELSE b

ZeroLocal == [lastIndex |-> 0, lastTerm |-> 0, term |-> 0, commit |-> 0]
ZeroApply == [index |-> 0, truncIndex |-> 0, truncTerm |-> 0]

-----------------------------------------------------------------------------
(* What raft reads through the Storage interface *)

FirstIndex == apply.truncIndex + 1

\* checkRange returns no error.
CheckRange(lo, hi) ==
    /\ lo <= hi
    /\ hi <= local.lastIndex + 1
    /\ lo > apply.truncIndex

\* Term(i) returns t and no error.
TermReturns(i, t) ==
    IF i = apply.truncIndex
    THEN t = apply.truncTerm
    ELSE /\ CheckRange(i, i + 1)
         /\ IF i = local.lastIndex
            THEN t = local.lastTerm
            ELSE dlog[i] # Hole /\ t = dlog[i].term

\* Entries(lo, hi, _) returns all of lo..hi-1 and no error.
EntriesOK(lo, hi) ==
    CheckRange(lo, hi) /\ \A i \in lo..(hi - 1) : dlog[i] # Hole

-----------------------------------------------------------------------------
Init ==
    /\ llog = [i \in 1..Boot |-> [Hole EXCEPT !.term = 1]]
    /\ lterm = 1
    /\ ccommit = Boot
    /\ rlog = <<>>
    /\ stable = 0 /\ rcommit = 0 /\ rapplied = 0
    /\ rterm = 0
    /\ rsnap = NoSnap
    /\ local = ZeroLocal /\ apply = ZeroApply
    /\ pc = "idle" /\ cur = 0 /\ todo = {} /\ rd = NoReady
    /\ lastCompacted = 0 /\ gc = {}
    /\ dlog = [i \in 1..MaxIndex |-> Hole]
    /\ dlocal = ZeroLocal /\ dapply = ZeroApply
    /\ dconf = FALSE
    /\ kv = EmptyMap
    /\ up = FALSE /\ crashes = 0
    /\ released = 0 /\ relTerm = 0 /\ ack = 0 /\ fuzz = 0

-----------------------------------------------------------------------------
(* The cluster: the log of the current leader *)

ClusterStep ==
    UNCHANGED <<raftVars, memVars, tickVars, gcVars, diskVars, up, crashes,
                ghostVars>>

\* RaftStore.Set and RaftStore.Delete propose a command to the leader.
LeaderAppend(kind, k, v) ==
    /\ kind \in Requests
    /\ Len(llog) < MaxIndex
    /\ llog' = Append(llog, NewEntry(llog, lterm, kind, k, v, 0, 0))
    /\ UNCHANGED <<lterm, ccommit>>
    /\ ClusterStep

\* The leader's onLogGCTask: it proposes to compact up to the entry before
\* the last one it applied.  (The threshold of 1000 entries is left out.)
LeaderCompact(ci) ==
    /\ "compact" \in Requests
    /\ Len(llog) < MaxIndex
    /\ ci < ccommit
    /\ llog' = Append(llog, NewEntry(llog, lterm, "compact", Nil, Nil,
                                     ci, llog[ci].term))
    /\ UNCHANGED <<lterm, ccommit>>
    /\ ClusterStep

\* A leader commits an entry of its own term, and all before it.
LeaderCommit(n) ==
    /\ n > ccommit
    /\ n <= Len(llog)
    /\ llog[n].term = lterm
    /\ ccommit' = n
    /\ UNCHANGED <<llog, lterm>>
    /\ ClusterStep

\* A new leader has every committed entry, and may lack the ones after them.
LeaderChange(n) ==
    /\ lterm < MaxTerm
    /\ n < MaxIndex
    /\ n >= ccommit
    /\ n <= Len(llog)
    /\ lterm' = lterm + 1
    /\ llog' = LET old == SubSeq(llog, 1, n)
               IN  Append(old, NewEntry(old, lterm + 1, "none", Nil, Nil, 0, 0))
    /\ UNCHANGED ccommit
    /\ ClusterStep

-----------------------------------------------------------------------------
(* The raft goroutine of this replica: it receives messages at any time,   *)
(* also while a Ready is being handled.                                    *)

RaftStep ==
    /\ up
    /\ rterm' = lterm
    /\ UNCHANGED <<clusterVars, memVars, tickVars, gcVars, diskVars, up,
                   crashes, relTerm, fuzz>>

\* raftLog.matchTerm for the leader's entry n.
Matches(n) == n > 0 => n <= Len(rlog) /\ rlog[n].term = llog[n].term

\* ci is the first index at which the replica's log and the leader's differ.
Conflict(ci) == Matches(ci - 1) /\ ~Matches(ci)

\* A message of a newer term that carries nothing new for the log.
RecvTerm ==
    /\ rterm < lterm
    /\ RaftStep
    /\ UNCHANGED <<rlog, stable, rcommit, rapplied, rsnap, released, ack>>

\* A MsgApp or MsgHeartbeat without new entries, or a MsgSnap whose index
\* the log already has, moves the commit index.
RecvCommit(c) ==
    /\ c > rcommit
    /\ c <= ccommit
    /\ Matches(c)
    /\ RaftStep
    /\ rcommit' = c
    /\ UNCHANGED <<rlog, stable, rapplied, rsnap, released, ack>>

\* Acknowledgements of the entries dropped at a conflict went to a leader
\* that is deposed by now: this replica vouches for them no longer.
Retract(ci) ==
    /\ released' = Smaller(released, ci - 1)
    /\ ack' = Smaller(ack, ci - 1)

\* A MsgApp with entries up to n: maybeAppend drops the replica's entries
\* from the first conflict on, and unstable.truncateAndAppend moves the
\* offset of the unstable part back.
RecvAppend(n, c, ci) ==
    /\ n <= Len(llog)
    /\ ci <= n
    /\ Conflict(ci)
    /\ ci > rcommit
    /\ c >= rcommit /\ c <= n /\ c <= ccommit
    /\ RaftStep
    /\ rlog' = SubSeq(llog, 1, n)
    /\ stable' = Smaller(stable, ci - 1)
    /\ rcommit' = c
    /\ Retract(ci)
    /\ UNCHANGED <<rapplied, rsnap>>

\* A map that a leader running this code can ship as its state at index m:
\* every live key is there; a key that is deleted may linger with a value
\* it once had, because applySnapshot never removes keys.
ShippedMap(m, d) ==
    \A k \in Key :
        LET v == StateAt(llog, m)[k]
        IN  IF v # Nil THEN d[k] = v
            ELSE \/ d[k] = Nil
                 \/ "linger" \in Windows /\ \E j \in 1..m : d[k] = llog[j].st[k]

\* A MsgSnap: raft.restore.  The sender runs SchedSnapGen next to its apply
\* loop, so the data may be newer than the index (and, in the window
\* "snapgen", may lack the entry at the index).  Leaders only send snapshots
\* once they have compacted their log.
RecvSnapshot(n, m, d, ci) ==
    /\ n > rcommit
    /\ n <= ccommit
    /\ m <= ccommit
    /\ m >= n \/ ("snapgen" \in Windows /\ m = n - 1)
    /\ \E i \in 1..ccommit : llog[i].kind = "compact"
    /\ ShippedMap(m, d)
    /\ ci <= n
    /\ Conflict(ci)
    /\ RaftStep
    /\ rlog' = SubSeq(llog, 1, n)
    /\ stable' = n
    /\ rcommit' = n
    /\ rsnap' = [index |-> n, term |-> llog[n].term, data |-> d, upto |-> m]
    /\ Retract(ci)
    /\ UNCHANGED rapplied

-----------------------------------------------------------------------------
(* Start, restart and crash *)

\* The first start, newPeer with no ConfState on disk: raft.StartNode puts
\* Boot committed ConfChange entries into the unstable log, and newPeer
\* writes the ConfState, before any of those entries is on disk.
Bootstrap ==
    /\ ~up
    /\ ~dconf
    /\ up' = TRUE
    /\ dconf' = TRUE
    /\ local' = dlocal /\ apply' = dapply
    /\ lastCompacted' = dapply.truncIndex
    /\ rlog' = SubSeq(llog, 1, Boot)
    /\ stable' = 0 /\ rcommit' = Boot /\ rapplied' = 0
    /\ rterm' = 1
    /\ UNCHANGED <<clusterVars, rsnap, tickVars, gc, dlog, dlocal, dapply, kv,
                   crashes, ghostVars>>

\* IsEmptyHardState fails: a HardState was saved and newRaft loads it.
HardStateSaved == dlocal.term # 0 \/ dlocal.commit # 0

\* newLog starts from the truncated index.
StartCommit == IF HardStateSaved THEN dlocal.commit ELSE dapply.truncIndex

\* newRaft does not panic: loadState wants the saved commit index within the
\* log, appliedTo wants the applied index between the truncated index and it.
NewRaftOK ==
    /\ HardStateSaved => /\ dapply.truncIndex <= dlocal.commit
                         /\ dlocal.commit <= dlocal.lastIndex
    /\ dapply.index # 0 => /\ dapply.truncIndex <= dapply.index
                           /\ dapply.index <= StartCommit

\* newPeer with a ConfState: raft.RestartNode, which starts to apply after
\* the index applied.  (Below the truncated index rlog is a ghost.)
RestartFrom(applied) ==
    /\ ~up
    /\ dconf
    /\ NewRaftOK
    /\ up' = TRUE
    /\ local' = dlocal /\ apply' = dapply
    /\ lastCompacted' = dapply.truncIndex
    /\ rlog' = [i \in 1..dlocal.lastIndex |->
                  IF i <= dapply.truncIndex THEN llog[i] ELSE dlog[i]]
    /\ stable' = dlocal.lastIndex
    /\ rcommit' = StartCommit
    /\ rapplied' = applied
    /\ rterm' = dlocal.term
    /\ UNCHANGED <<clusterVars, rsnap, tickVars, gc, diskVars, crashes,
                   ghostVars>>

\* Mutants: Config.Applied is not set, or is taken from the HardState.
RestartReapply == RestartFrom(dapply.truncIndex)
RestartSkip == RestartFrom(StartCommit)

\* Config.Applied is the applied index on disk.
Restart == RestartFrom(Larger(dapply.truncIndex, dapply.index))

\* The entry a step of the apply loop is at.
Current == rd.log[cur]

\* Between two writes of applySnapshot, or between it and writeLocalState.
InSnapshotWindow ==
    /\ rd.snap.index > 0
    /\ pc \in {"snapConf", "snapData", "append", "setIndex", "save"}

\* truncateAndAppend has overwritten or deleted entries that the LastIndex
\* on disk still counts.
InTruncateWindow ==
    /\ pc \in {"append", "setIndex", "save"}
    /\ rd.lo < Len(rd.log)
    /\ rd.lo < dlocal.lastIndex
    /\ pc # "append" \/ cur > rd.lo + 1

\* process has written the applied index and not yet the key.
InApplyWindow == pc = "exec" /\ Current.kind \in {"put", "del"}

\* Everything in memory is lost.  (rlog keeps, as a ghost, the entries this
\* replica has vouched for.)
Crash ==
    /\ up
    /\ crashes < MaxCrash
    /\ InSnapshotWindow => "snapshot" \in Windows
    /\ InTruncateWindow => "truncate" \in Windows
    /\ InApplyWindow => "apply" \in Windows
    /\ up' = FALSE
    /\ crashes' = crashes + 1
    /\ rlog' = SubSeq(rlog, 1, released)
    /\ stable' = 0 /\ rcommit' = 0 /\ rapplied' = 0
    /\ rterm' = 0
    /\ rsnap' = NoSnap
    /\ local' = ZeroLocal /\ apply' = ZeroApply
    /\ pc' = "idle" /\ cur' = 0 /\ todo' = {} /\ rd' = NoReady
    /\ lastCompacted' = 0 /\ gc' = {}
    /\ ack' = released
    /\ UNCHANGED <<clusterVars, diskVars, released, relTerm, fuzz>>

-----------------------------------------------------------------------------
(* The onTick goroutine: one Ready, one synced write per step *)

TickStep == up /\ UNCHANGED <<clusterVars, up, crashes>>

\* Where saveReadyState goes after the snapshot: truncateAndAppend, or past
\* it when there is nothing to append above the truncated index.
StartAppend(r, trunc) ==
    IF Len(r.log) > r.lo /\ Len(r.log) > trunc
    THEN pc' = "append" /\ cur' = Larger(r.lo, trunc) + 1
    ELSE pc' = "save" /\ cur' = 0

\* node.run offers a Ready (newReady, HasReady) and onTick takes it.
TakeReady ==
    /\ TickStep
    /\ pc = "idle"
    /\ LET from == Larger(rapplied, rsnap.index) + 1
       IN  /\ \/ rsnap.index > 0
              \/ Len(rlog) > stable
              \/ rterm # local.term
              \/ rcommit # local.commit
              \/ rcommit >= from
           /\ rd' = [snap |-> rsnap, lo |-> stable, log |-> rlog,
                     term |-> rterm, commit |-> rcommit, from |-> from]
    /\ ack' = Len(rlog)
    /\ IF rsnap.index > 0 THEN pc' = "snap" /\ cur' = 0
                          ELSE StartAppend(rd', apply.truncIndex)
    /\ UNCHANGED <<raftVars, memVars, todo, gcVars, diskVars, released, relTerm,
                   fuzz>>

\* applySnapshot, first write: the apply state.
SnapApplyState ==
    /\ TickStep
    /\ pc = "snap"
    /\ local' = [local EXCEPT !.lastIndex = rd.snap.index,
                              !.lastTerm = rd.snap.term]
    /\ apply' = [index |-> rd.snap.index, truncIndex |-> rd.snap.index,
                 truncTerm |-> rd.snap.term]
    /\ dapply' = apply'
    /\ pc' = "snapConf"
    /\ UNCHANGED <<raftVars, cur, todo, rd, gcVars, dlog, dlocal, dconf, kv,
                   ghostVars>>

\* The pairs that storage.Decode finds in the snapshot.
Pairs == {k \in Key : rd.snap.data[k] # Nil}

\* applySnapshot, second write: the ConfState.
SnapConfState ==
    /\ TickStep
    /\ pc = "snapConf"
    /\ dconf' = TRUE
    /\ todo' = Pairs
    /\ pc' = "snapData"
    /\ UNCHANGED <<raftVars, memVars, cur, rd, gcVars, dlog, dlocal, dapply, kv,
                   ghostVars>>

\* applySnapshot puts the pairs of the snapshot one by one.
SnapPut(k) ==
    /\ TickStep
    /\ pc = "snapData"
    /\ k \in todo
    /\ kv' = [kv EXCEPT ![k] = rd.snap.data[k]]
    /\ todo' = todo \ {k}
    /\ UNCHANGED <<raftVars, memVars, pc, cur, rd, gcVars, dlog, dlocal, dapply,
                   dconf, ghostVars>>

SnapDone ==
    /\ TickStep
    /\ pc = "snapData"
    /\ todo = {}
    /\ fuzz' = rd.snap.upto
    /\ StartAppend(rd, apply.truncIndex)
    /\ UNCHANGED <<raftVars, memVars, todo, rd, gcVars, diskVars, released,
                   relTerm, ack>>

\* truncateAndAppend: appendLogEntries, one write per entry.
AppendEntry ==
    /\ TickStep
    /\ pc = "append"
    /\ cur <= Len(rd.log)
    /\ dlog' = [dlog EXCEPT ![cur] = rd.log[cur]]
    /\ cur' = cur + 1
    /\ UNCHANGED <<raftVars, memVars, pc, todo, rd, gcVars, dlocal, dapply,
                   dconf, kv, ghostVars>>

\* truncateAndAppend: deleteLogEntries of the stale tail.
DeleteTail ==
    /\ TickStep
    /\ pc = "append"
    /\ cur > Len(rd.log)
    /\ cur <= local.lastIndex
    /\ dlog' = [dlog EXCEPT ![cur] = Hole]
    /\ cur' = cur + 1
    /\ UNCHANGED <<raftVars, memVars, pc, todo, rd, gcVars, dlocal, dapply,
                   dconf, kv, ghostVars>>

\* Mutants: the term of the HardState for that of the last entry, and an
\* index past the last entry.
CurrentTerm == rd.term
PastLast == Len(rd.log) + 1

\* lastEnt of truncateAndAppend.
LastEntTerm == rd.log[Len(rd.log)].term
LastEntIndex == Len(rd.log)

\* truncateAndAppend: LastTerm, then LastIndex, with no lock around them
\* while the raft goroutine calls Term and LastIndex.
SetLastTerm ==
    /\ TickStep
    /\ pc = "append"
    /\ cur > Len(rd.log)
    /\ cur > local.lastIndex
    /\ local' = [local EXCEPT !.lastTerm = LastEntTerm]
    /\ pc' = "setIndex"
    /\ UNCHANGED <<raftVars, apply, cur, todo, rd, gcVars, diskVars, ghostVars>>

SetLastIndex ==
    /\ TickStep
    /\ pc = "setIndex"
    /\ local' = [local EXCEPT !.lastIndex = LastEntIndex]
    /\ pc' = "save"
    /\ UNCHANGED <<raftVars, apply, cur, todo, rd, gcVars, diskVars, ghostVars>>

\* Mutants: nothing is written unless the HardState has changed, or only the
\* HardState is written.
WriteIfHardState(l) ==
    IF l.term # dlocal.term \/ l.commit # dlocal.commit THEN l ELSE dlocal
WriteHardState(l) == [dlocal EXCEPT !.term = l.term, !.commit = l.commit]

\* writeLocalState: what is on disk afterwards.
WriteLocalState(l) == l

\* The end of saveReadyState: HardState and writeLocalState.
SaveLocalState ==
    /\ TickStep
    /\ pc = "save"
    /\ local' = [local EXCEPT !.term = rd.term, !.commit = rd.commit]
    /\ dlocal' = WriteLocalState(local')
    /\ pc' = "send"
    /\ UNCHANGED <<raftVars, apply, cur, todo, rd, gcVars, dlog, dapply, dconf,
                   kv, ghostVars>>

\* router.sendRaftMsgs.
Send ==
    /\ TickStep
    /\ pc = "send"
    /\ released' = ack
    /\ relTerm' = rd.term
    /\ pc' = "apply"
    /\ cur' = rd.from
    /\ UNCHANGED <<raftVars, memVars, todo, rd, gcVars, diskVars, ack, fuzz>>

\* process, first half: the applied index, in memory and on disk.
ApplyIndex ==
    /\ TickStep
    /\ pc = "apply"
    /\ cur <= rd.commit
    /\ apply' = [apply EXCEPT !.index = cur]
    /\ dapply' = apply'
    /\ pc' = "exec"
    /\ UNCHANGED <<raftVars, local, cur, todo, rd, gcVars, dlog, dlocal, dconf,
                   kv, ghostVars>>

\* process, second half, for Put and Delete: processRequest.
ExecWrite ==
    /\ TickStep
    /\ pc = "exec"
    /\ Current.kind \in {"put", "del"}
    /\ kv' = NextMap(kv, Current.kind, Current.key, Current.val)
    /\ pc' = "apply"
    /\ cur' = cur + 1
    /\ UNCHANGED <<raftVars, memVars, todo, rd, gcVars, dlog, dlocal, dapply,
                   dconf, ghostVars>>

\* ... for an entry that carries no request, or a CompactLog that is behind.
ExecNone ==
    /\ TickStep
    /\ pc = "exec"
    /\ \/ Current.kind = "none"
       \/ Current.kind = "compact" /\ Current.cidx < apply.truncIndex
    /\ pc' = "apply"
    /\ cur' = cur + 1
    /\ UNCHANGED <<raftVars, memVars, todo, rd, gcVars, diskVars, ghostVars>>

\* ... for CompactLog: processAdminRequest.  TruncatedState.Index moves
\* first, then TruncatedState.Term, again with no lock.
ExecCompact ==
    /\ TickStep
    /\ pc = "exec"
    /\ Current.kind = "compact"
    /\ Current.cidx >= apply.truncIndex
    /\ apply' = [apply EXCEPT !.truncIndex = Current.cidx]
    /\ pc' = "compact"
    /\ UNCHANGED <<raftVars, local, cur, todo, rd, gcVars, diskVars, ghostVars>>

Compact ==
    /\ TickStep
    /\ pc = "compact"
    /\ apply' = [apply EXCEPT !.truncTerm = Current.cterm]
    /\ dapply' = apply'
    /\ gc' = gc \cup {<<lastCompacted + 1, apply.truncIndex + 1>>}
    /\ lastCompacted' = apply.truncIndex
    /\ pc' = "apply"
    /\ cur' = cur + 1
    /\ UNCHANGED <<raftVars, local, todo, rd, dlog, dlocal, dconf, kv,
                   ghostVars>>

\* unstable.stableTo: the entries of r are still those of the unstable log.
StillLast(r) ==
    LET e == Len(r.log)
    IN  /\ e > r.lo
        /\ e > stable
        /\ e <= Len(rlog)
        /\ rlog[e].term = r.log[e].term

\* rawNode.Advance.
Advance ==
    /\ TickStep
    /\ pc = "apply"
    /\ cur > rd.commit
    /\ rapplied' = IF rd.from <= rd.commit THEN rd.commit
                   ELSE IF rd.snap.index > 0 THEN rd.snap.index
                   ELSE rapplied
    /\ stable' = IF StillLast(rd) THEN Len(rd.log) ELSE stable
    /\ rsnap' = IF rsnap.index = rd.snap.index THEN NoSnap ELSE rsnap
    /\ pc' = "idle" /\ cur' = 0 /\ rd' = NoReady
    /\ UNCHANGED <<rlog, rcommit, rterm, memVars, todo, gcVars, diskVars,
                   ghostVars>>

\* Mutant: the entries are read without the check of their range.
GcUnchecked(g) ==
    /\ TickStep
    /\ g \in gc
    /\ gc' = gc \ {g}
    /\ dlog' = [i \in 1..MaxIndex |->
                   IF i >= g[1] /\ i < g[2] THEN Hole ELSE dlog[i]]
    /\ UNCHANGED <<raftVars, memVars, tickVars, lastCompacted, dlocal, dapply,
                   dconf, kv, ghostVars>>

\* gcRaftLog(start, end), a goroutine of its own.
GcRun(g) ==
    /\ TickStep
    /\ g \in gc
    /\ gc' = gc \ {g}
    /\ dlog' = IF g[1] < g[2] /\ EntriesOK(g[1], g[2])
               THEN [i \in 1..MaxIndex |->
                        IF i >= g[1] /\ i < g[2] THEN Hole ELSE dlog[i]]
               ELSE dlog
    /\ UNCHANGED <<raftVars, memVars, tickVars, lastCompacted, dlocal, dapply,
                   dconf, kv, ghostVars>>

-----------------------------------------------------------------------------
Environment ==
    \/ \E k \in Key, v \in Value : LeaderAppend("put", k, v)
    \/ \E k \in Key : LeaderAppend("del", k, Nil)
    \/ \E ci \in 1..MaxIndex : LeaderCompact(ci)
    \/ \E n \in 1..MaxIndex : LeaderCommit(n)
    \/ \E n \in Index : LeaderChange(n)

RaftRecv ==
    \/ RecvTerm
    \/ \E c \in 1..MaxIndex : RecvCommit(c)
    \/ \E n \in 1..MaxIndex, c \in Index, ci \in 1..MaxIndex : RecvAppend(n, c, ci)
    \/ \E n \in 1..MaxIndex, m \in Index, d \in Map, ci \in 1..MaxIndex :
          RecvSnapshot(n, m, d, ci)

SaveReady ==
    \/ SnapApplyState \/ SnapConfState \/ SnapDone
    \/ \E k \in Key : SnapPut(k)
    \/ AppendEntry \/ DeleteTail \/ SetLastTerm \/ SetLastIndex
    \/ SaveLocalState

ProcessEntry ==
    ApplyIndex \/ ExecWrite \/ ExecNone \/ ExecCompact \/ Compact

OnTick == TakeReady \/ SaveReady \/ Send \/ ProcessEntry \/ Advance

Next ==
    \/ Environment
    \/ RaftRecv
    \/ Bootstrap \/ Restart \/ Crash
    \/ OnTick
    \/ \E g \in gc : GcRun(g)

Spec == Init /\ [][Next]_vars

-----------------------------------------------------------------------------
(* Properties *)

\* Every variable has the type its comments claim; in particular no entry is
\* ever at an index outside the leader's log, and the program counter of
\* onTick is one of the points between two writes of handleReady.
TypeOK ==
    /\ llog \in Seq(Entry) /\ Len(llog) \in Index
    /\ lterm \in Term /\ ccommit \in Index
    /\ rlog \in Seq(Entry) /\ Len(rlog) \in Index
    /\ stable \in Index /\ rcommit \in Index /\ rapplied \in Index
    /\ rterm \in Term
    /\ rsnap \in Snapshot
    /\ local \in LocalState /\ apply \in ApplyState
    /\ pc \in {"idle", "snap", "snapConf", "snapData", "append", "setIndex",
              "save", "send", "apply", "exec", "compact"}
    /\ cur \in 0..(MaxIndex + 1)
    /\ todo \subseteq Key
    /\ rd \in Ready /\ Len(rd.log) \in Index
    /\ lastCompacted \in Index
    /\ gc \subseteq (1..(MaxIndex + 1)) \X (1..(MaxIndex + 1))
    /\ dlog \in [1..MaxIndex -> Entry]
    /\ dlocal \in LocalState /\ dapply \in ApplyState
    /\ dconf \in BOOLEAN
    /\ kv \in Map
    /\ up \in BOOLEAN /\ crashes \in 0..MaxCrash
    /\ released \in Index /\ relTerm \in Term /\ ack \in Index /\ fuzz \in Index

\* What the raft library is promised by its Storage interface: whenever the
\* raft goroutine may ask, Term gives the term of every entry that raft
\* believes is in storage, Entries can return all those after the truncated
\* index, and LastIndex is right when raft has nothing unstable.  (While a
\* snapshot is pending raft answers from the snapshot instead.)
StorageAgreesAt(i) ==
    /\ TermReturns(i, IF i = 0 THEN 0 ELSE rlog[i].term)
    /\ i >= FirstIndex => dlog[i] = rlog[i]

StorageContract ==
    up /\ rsnap.index = 0 =>
        /\ \A i \in apply.truncIndex..stable : StorageAgreesAt(i)
        /\ Len(rlog) = stable => local.lastIndex = stable

\* The contract, outside the two instructions where LastTerm and LastIndex,
\* or the truncated index and term, disagree for a moment.
StorageAgrees == pc \notin {"setIndex", "compact"} => StorageContract

\* A crashed replica can be started again: newRaft does not panic, the log
\* has no holes above the truncated index, and all of its committed part is
\* the cluster's.
Recoverable ==
    ~up => /\ NewRaftOK
           /\ dapply.truncIndex <= dlocal.lastIndex
           /\ \A i \in (dapply.truncIndex + 1)..dlocal.lastIndex : dlog[i] # Hole
           /\ \A i \in (dapply.truncIndex + 1)..StartCommit : dlog[i] = llog[i]

\* Entries this replica has acknowledged to a leader that still counts on
\* them are on disk, at every moment, as is the term it has spoken in.
ReleasedDurable ==
    /\ \A i \in 1..released :
          \/ i <= dapply.truncIndex
          \/ i <= dlocal.lastIndex /\ dlog[i] = rlog[i]
    /\ relTerm <= dlocal.term

\* The key-value engine is not in the middle of a change.
Settled == pc \notin {"exec", "snapConf", "snapData"}

\* The applied index on disk never promises more than the key-value engine
\* holds: every key that is live after the applied prefix of the log has the
\* value of that prefix.
NoLostPut ==
    Settled /\ dapply.index >= fuzz =>
        \A k \in Key : LET v == StateAt(llog, dapply.index)[k]
                      IN  v # Nil => kv[k] = v

\* The key-value engine holds exactly the applied prefix of the log.
KvExact ==
    Settled /\ dapply.index >= fuzz => kv = StateAt(llog, dapply.index)

\* An entry on disk that is committed or compacted is never rewritten, and never
\* deleted: a conflict does not reach so far down (truncateAndAppend), and
\* gcRaftLog asks Entries for a range that the truncated index has passed, gets
\* ErrCompacted and leaves the log as long as it is (peer.go:275-282).
CommittedKept ==
    [][\A i \in 1..MaxIndex :
          i <= dlocal.commit \/ i <= dapply.truncIndex => dlog'[i] = dlog[i]]_dlog

\* The durable applied, truncated and commit indexes and the durable term
\* never go back, across any number of crashes.
DurableMonotone ==
    [][/\ dapply.index <= dapply'.index
       /\ dapply.truncIndex <= dapply'.truncIndex
       /\ dlocal.commit <= dlocal'.commit
       /\ dlocal.term <= dlocal'.term]_<<dapply, dlocal>>

\* onTick keeps running (a goroutine is scheduled again), the operator
\* restarts a crashed process.
Fairness == WF_vars(OnTick) /\ WF_vars(Bootstrap \/ Restart)
FairSpec == Spec /\ Fairness

\* What is durably known to be committed is applied in the end.
CommittedApplied ==
    \A i \in 1..MaxIndex : (dlocal.commit >= i) ~> (dapply.index >= i)

=============================================================================
