--------------------------- MODULE PeerStorageInv ---------------------------
(***************************************************************************)
(* An inductive invariant of PeerStorage for crashes outside the windows   *)
(* of applySnapshot and truncateAndAppend.  It implies StorageAgrees,      *)
(* Recoverable and ReleasedDurable; the proofs are in PeerStorageProofs.   *)
(* KvInv, at the end, adds what the key-value engine holds.  It implies    *)
(* NoLostPut; the proofs are in KvProofs.                                  *)
(***************************************************************************)
EXTENDS PeerStorage

Active == pc # "idle"

\* saveReadyState is through with the log entries of the Ready.
Saved == {"save", "send", "apply", "exec", "compact"}

TermAt(log, i) == IF i = 0 THEN 0 ELSE log[i].term

\* The leader's log.
ClusterInv ==
    /\ Boot <= ccommit
    /\ ccommit <= Len(llog)
    /\ 1 <= lterm
    /\ \A i \in 1..Len(llog) :
         /\ 1 <= llog[i].term
         /\ llog[i].term <= lterm
         /\ llog[i].kind = "compact" =>
              /\ 1 <= llog[i].cidx
              /\ llog[i].cidx < i
              /\ llog[i].cterm = llog[llog[i].cidx].term

\* Raft's log matching, between a log of this replica and the log lead of
\* the leader of term t.
Follows(log, lead, t) ==
    \A i \in 1..Len(log) :
        /\ 1 <= log[i].term
        /\ log[i].term <= t
        /\ log[i].term = t => i <= Len(lead)
        /\ i <= Len(lead) /\ log[i].term = lead[i].term =>
             \A j \in 1..i : log[j] = lead[j]

\* ... and between two logs of this replica.
Agree(a, b) ==
    \A i \in 1..Len(a) :
        i <= Len(b) /\ a[i].term = b[i].term => \A j \in 1..i : a[j] = b[j]

LogInv ==
    /\ Follows(rlog, llog, lterm)
    /\ Follows(rd.log, llog, lterm)
    /\ Agree(rd.log, rlog)

\* raftLog.  A pending snapshot sits at the offset of the unstable log.
RaftInv ==
    /\ stable <= Len(rlog)
    /\ rcommit <= Len(rlog)
    /\ rcommit <= ccommit
    /\ rapplied <= rcommit
    /\ rterm <= lterm
    /\ \A i \in 1..rcommit : rlog[i] = llog[i]
    /\ rsnap.index > 0 =>
         /\ rsnap.index = stable
         /\ rsnap.index <= rcommit
         /\ rapplied < rsnap.index
         /\ rsnap.term = llog[rsnap.index].term
    /\ released <= Len(rlog)
    /\ ~up => /\ stable = 0 /\ rcommit = 0 /\ rapplied = 0
              /\ rsnap = NoSnap
              /\ ~Active
    /\ ~Active => rd = NoReady

\* The Ready in hand against the raft log, which may have moved on: its
\* indexes,
ReadyBounds ==
    /\ rd.lo <= Len(rd.log)
    /\ rd.commit <= Len(rd.log)
    /\ rd.commit <= rcommit
    /\ rd.term <= rterm
    /\ rapplied <= rd.commit
    /\ rd.from = Larger(rapplied, rd.snap.index) + 1
    /\ rd.snap.index > 0 => /\ rd.lo = rd.snap.index
                            /\ rd.snap.index <= rd.commit
                            /\ rapplied < rd.snap.index

\* its committed entries,
ReadyCommitted ==
    /\ \A i \in 1..rd.commit : rd.log[i] = llog[i]
    /\ rd.snap.index > 0 => rd.snap.term = llog[rd.snap.index].term

\* the offset of the unstable log since it was taken, also when a snapshot
\* has come after it,
ReadyOffset ==
    /\ rsnap.index = rd.snap.index =>
         /\ stable <= rd.lo
         /\ Len(rlog) = stable => Len(rd.log) = stable
    /\ rsnap.index # rd.snap.index =>
         /\ rsnap.index > 0
         /\ rsnap.index <= Len(rd.log) =>
              rd.log[rsnap.index].term # llog[rsnap.index].term

\* what it shares with the leader, which raft has kept,
ReadyKept ==
    \A i \in 1..Len(rd.log) :
        i <= Len(llog) /\ rd.log[i].term = llog[i].term =>
            i <= Len(rlog) /\ rlog[i].term = llog[i].term

\* and the entries its messages vouch for.
ReadyAcked ==
    /\ released <= ack
    /\ ack <= Len(rlog)
    /\ ack <= Len(rd.log)
    /\ \A i \in 1..ack : rd.log[i] = rlog[i]

ReadyInv ==
    Active => ReadyBounds /\ ReadyCommitted /\ ReadyOffset /\ ReadyKept
              /\ ReadyAcked

\* The memory of peerStorage against its disk: the apply state,
ApplyMem ==
    /\ pc # "compact" => apply = dapply
    /\ pc = "compact" => /\ dapply.index = apply.index
                         /\ dapply.truncIndex <= apply.truncIndex
                         /\ Current.kind = "compact"
                         /\ apply.truncIndex = Current.cidx
    /\ apply.truncIndex <= apply.index
    /\ \A g \in gc : g[2] <= apply.truncIndex + 1

\* the local state, which lags behind raft,
LocalMem ==
    /\ local.term = dlocal.term
    /\ local.commit = dlocal.commit
    /\ \/ pc \in {"idle", "snap", "send", "apply", "exec", "compact"}
       \/ pc = "append" /\ rd.snap.index = 0
       => local = dlocal
    /\ local.term <= rterm
    /\ local.commit <= rcommit
    /\ Active => local.term <= rd.term /\ local.commit <= rd.commit
    /\ pc \in {"send", "apply", "exec", "compact"} =>
         local.term = rd.term /\ local.commit = rd.commit

\* and the applied index at each point of handleReady.
AppliedMem ==
    /\ pc \in {"idle", "snap"} => apply.index = rapplied
    /\ pc = "snap" => rd.snap.index > 0
    /\ pc \in {"snapConf", "snapData"} =>
         /\ rd.snap.index > 0
         /\ apply.truncIndex = rd.snap.index
         /\ local.lastIndex = rd.snap.index
    /\ pc \in {"snapConf", "snapData", "append", "setIndex", "save", "send"} =>
         /\ apply.index = rd.from - 1
         /\ rd.snap.index <= apply.truncIndex
    /\ pc = "apply" => /\ cur = apply.index + 1
                       /\ cur <= rd.commit + 1
                       /\ rd.from <= cur
    /\ pc \in {"exec", "compact"} => /\ cur = apply.index
                                     /\ cur <= rd.commit
                                     /\ rd.from <= cur

MemInv ==
    /\ up => ApplyMem /\ LocalMem /\ AppliedMem
    /\ ~up => gc = {}

\* How far truncateAndAppend has got with the entries on disk,
AppendProgress ==
    pc = "append" =>
        /\ rd.lo < Len(rd.log)
        /\ rd.lo < cur
        /\ apply.truncIndex < cur
        /\ \A i \in (apply.truncIndex + 1)..Len(rd.log) :
             i < cur => dlog[i] = rd.log[i]

LogWritten ==
    pc \in Saved \cup {"setIndex"} =>
        \A i \in (apply.truncIndex + 1)..Len(rd.log) : dlog[i] = rd.log[i]

\* and with the last index and term in memory.
LastMem ==
    /\ pc = "setIndex" => /\ rd.lo < Len(rd.log)
                          /\ local.lastTerm = LastEntTerm
    /\ pc \in Saved =>
         /\ local.lastIndex = Len(rd.log)
         /\ apply.truncIndex < Len(rd.log) => local.lastTerm = LastEntTerm

WriteInv == AppendProgress /\ LogWritten /\ LastMem

\* The truncated index is in the stable part of the log, or else below the
\* commit index.
TruncInv ==
    up => apply.truncIndex <= stable \/ apply.truncIndex < rcommit

\* The Storage contract.
ContractInv ==
    up /\ rsnap.index = 0 =>
        /\ stable <= local.lastIndex
        /\ \A i \in (apply.truncIndex + 1)..stable : dlog[i] = rlog[i]
        /\ Len(rlog) = stable => local.lastIndex = stable
        /\ pc # "setIndex" /\ local.lastIndex <= stable
              /\ apply.truncIndex < local.lastIndex =>
             local.lastTerm = rlog[local.lastIndex].term

StoreInv == TruncInv /\ ContractInv

\* The log a restart would find.
DiskLog ==
    [i \in 1..dlocal.lastIndex |->
        IF i <= dapply.truncIndex THEN llog[i] ELSE dlog[i]]

\* The states on disk against the cluster,
DiskStates ==
    /\ dapply.truncIndex <= dapply.index
    /\ dapply.index <= ccommit
    /\ dapply.truncTerm = TermAt(llog, dapply.truncIndex)
    /\ dlocal.term <= lterm
    /\ dlocal.commit <= ccommit

\* before the first start,
DiskFresh ==
    ~dconf => /\ ~up
              /\ dlocal = ZeroLocal /\ dapply = ZeroApply
              /\ released = 0

\* and, outside the windows, against each other and the log on disk.
DiskWhole ==
    /\ dapply.index <= dlocal.commit
    /\ dlocal.commit <= dlocal.lastIndex
    /\ Follows(DiskLog, llog, lterm)
    /\ \A i \in 1..dlocal.commit : DiskLog[i] = llog[i]
    /\ dapply.truncIndex < dlocal.lastIndex =>
         dlocal.lastTerm = dlog[dlocal.lastIndex].term

DiskInv ==
    /\ DiskStates
    /\ DiskFresh
    /\ ~InSnapshotWindow /\ ~InTruncateWindow => DiskWhole

StorageInv ==
    /\ TypeOK
    /\ ClusterInv
    /\ LogInv
    /\ RaftInv
    /\ ReadyInv
    /\ MemInv
    /\ WriteInv
    /\ StoreInv
    /\ DiskInv
    /\ ReleasedDurable

\* On top of it: what is saved as committed is on disk also inside the windows, where
\* DiskWhole says nothing.
CommittedOnDisk ==
    \A i \in (dapply.truncIndex + 1)..dlocal.commit : dlog[i] = llog[i]


\* Next to it, the key-value engine.  The ghost maps of a log are what its
\* requests make of each other.
Chain(log) ==
    \A i \in 1..Len(log) :
        /\ log[i].st = NextMap(StateAt(log, i - 1), log[i].kind, log[i].key, log[i].val)
        /\ log[i].kind \in {"put", "del"} => log[i].key \in Key

\* A map holds every key that is live after the first i entries.
Holds(log, m, i) ==
    \A k \in Key : StateAt(log, i)[k] # Nil => m[k] = StateAt(log, i)[k]

\* A snapshot holds what was live when the leader scanned it, at its index or
\* later.
ShipInv ==
    \A s \in {rsnap, rd.snap} :
        s.index > 0 => s.index <= s.upto /\ s.upto <= ccommit /\ Holds(llog, s.data, s.upto)

\* applySnapshot puts the pairs one by one, those in todo last.
PutInv == pc = "snapData" => \A k \in Pairs \ todo : kv[k] = rd.snap.data[k]

\* The engine after the first r entries were applied, some on top of data that
\* showed the first f: of the keys live by then, all but those that an entry in
\* between will still write are right.
Covers(log, m, r, f) ==
    \A k \in Key :
        \/ StateAt(log, Larger(r, f))[k] = Nil
        \/ m[k] = StateAt(log, Larger(r, f))[k]
        \/ \E i \in (r + 1)..f : log[i].kind \in {"put", "del"} /\ log[i].key = k

\* process writes the applied index before the key.
Reached == IF pc = "exec" THEN dapply.index - 1 ELSE dapply.index

EngineInv ==
    /\ fuzz <= ccommit
    /\ pc = "exec" => dapply.index > 0
    /\ pc \notin {"snapConf", "snapData"} => Covers(llog, kv, Reached, fuzz)

KvInv == Chain(llog) /\ ShipInv /\ PutInv /\ EngineInv

=============================================================================
