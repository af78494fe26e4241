------------------------------ MODULE SnapGen -------------------------------
(***************************************************************************)
(* How a leader brings a follower up to date that lags behind its          *)
(* compacted log: peerStorage.Snapshot and the SchedSnapGen goroutine,     *)
(* onTick that goes on applying and compacting, raft's Progress of the     *)
(* follower, and the messages between them, which may be lost.             *)
(*                                                                         *)
(* The log is fixed and committed: LogTerms gives the term of each entry.  *)
(* The leader may lose its office, apply a snapshot as a follower, and be  *)
(* elected again.  The follower is raft only; a MsgHeartbeat and its       *)
(* answer are one step; entries are the indexes of the log.                *)
(***************************************************************************)
EXTENDS Integers, Sequences, FiniteSetsExt

CONSTANTS LogTerms,  \* bound: the terms of the entries 1, 2, ...
          MaxTried,  \* defaultSnapTriedCnt
          MaxElect,  \* bound: how often the leader is elected again
          MaxLost,   \* bound: how many messages are lost
          NetCap     \* bound: messages under way when a heartbeat is answered

LastIndex == Len(LogTerms)

ASSUME SnapGenAssumption ==
    /\ LogTerms \in Seq(Nat \ {0}) /\ LastIndex > 0
    /\ \A i, j \in 1..LastIndex : i <= j => LogTerms[i] <= LogTerms[j]
    /\ {MaxTried, MaxElect, MaxLost, NetCap} \subseteq Nat

VARIABLES lead,         \* this replica is the leader
          down,         \* raft has panicked
          applied,      \* applyState.ApplyIndex
          kvIdx,        \* the entries whose writes are in the engine
          trunc,        \* applyState.TruncatedState.Index
          stateType,    \* snapState.StateType
          gen,          \* the goroutine that sends to snapState.Receiver, and what it has
          tried,        \* snapTriedCnt
          pr,           \* raft's Progress of the follower
          toF, toL,     \* messages on their way to the follower, to the leader
          flast, fterm, \* the follower's last entry, its index and its term
          elect, lost   \* counters for the bounds

storage == <<applied, kvIdx, trunc>>
snapVars == <<stateType, gen, tried>>
follower == <<flast, fterm>>
counters == <<elect, lost>>
vars == <<lead, down, storage, snapVars, pr, toF, toL, follower, counters>>

TermOf(i) == IF i = 0 THEN 0 ELSE LogTerms[i]

\* raftLog.term, where the log begins after the truncated index.
LogTerm(i) == IF i \in trunc..LastIndex THEN TermOf(i) ELSE 0

NoGen == [pc |-> "none", term |-> 0, index |-> 0, data |-> 0]
-----------------------------------------------------------------------------
(* tracker.Progress *)

\* A new leader expects that the follower has its whole log.
NewProgress == [state |-> "Probe", match |-> 0, next |-> LastIndex + 1, pending |-> 0,
                probeSent |-> FALSE]

\* Mutant: a follower that waits for a snapshot is not paused.
IsProbing(p) == p.state = "Probe" /\ p.probeSent

IsPaused(p) == \/ p.state = "Probe" /\ p.probeSent
               \/ p.state = "Snapshot"

BecomeReplicate(p) == [state |-> "Replicate", match |-> p.match, next |-> p.match + 1,
                       pending |-> 0, probeSent |-> FALSE]

BecomeProbe(p) == [BecomeReplicate(p) EXCEPT !.state = "Probe"]

BecomeSnapshot(p, i) == [p EXCEPT !.state = "Snapshot", !.pending = i, !.probeSent = FALSE]

\* MaybeUpdate and the state changes after it.
Acked(p, i) ==
    LET q == [p EXCEPT !.match = i, !.next = Max({@, i + 1}), !.probeSent = FALSE]
    IN IF p.state = "Probe" \/ (p.state = "Snapshot" /\ i >= p.pending)
       THEN BecomeReplicate(q) ELSE q

\* MaybeDecrTo refuses a rejection that is out of date.
StaleReject(p, rejected) == IF p.state = "Replicate" THEN rejected <= p.match
                                                     ELSE p.next - 1 # rejected

Decreased(p, rejected, hint) ==
    IF p.state = "Replicate" THEN BecomeProbe(p)
    ELSE [p EXCEPT !.next = Max({Min({rejected, hint + 1}), 1}), !.probeSent = FALSE]

\* raftLog.findConflictByTerm
ConflictByTerm(i, t) == Max({j \in 0..i : LogTerm(j) <= t})
-----------------------------------------------------------------------------
(* peerStorage *)

snapshotValid(g) == g.index >= trunc

\* The outcomes of Snapshot: not yet, the snapshot that was received, another attempt, or
\* an error.  The receiver has a snapshot when the goroutine is done.
SnapReady == stateType = "Generating" /\ gen.pc = "done"

SnapWait == /\ stateType = "Generating" /\ gen.pc # "done"
            /\ UNCHANGED snapVars

SnapReturn == /\ SnapReady /\ gen.index > 0 /\ snapshotValid(gen)
              /\ stateType' = "Relaxed" /\ tried' = 0 /\ gen' = NoGen

\* Nothing to collect, or a snapshot that is empty or was overtaken by a compaction.
SnapNone == \/ stateType # "Generating"
            \/ SnapReady /\ (gen.index = 0 \/ ~snapshotValid(gen))

\* Mutant: an invalid snapshot does not end the count.
TriedStill == tried

\* A snapshot that was collected, valid or not, ends the count.
TriedNow == IF SnapReady /\ gen.index > 0 THEN 0 ELSE tried

\* Mutant: the limit is one too high.
SnapOnceMore == /\ SnapNone /\ TriedNow <= MaxTried
                /\ tried' = TriedNow + 1
                /\ stateType' = "Generating"
                /\ gen' = [NoGen EXCEPT !.pc = "term"]

SnapAgain == /\ SnapNone /\ TriedNow < MaxTried
             /\ tried' = TriedNow + 1
             /\ stateType' = "Generating"
             /\ gen' = [NoGen EXCEPT !.pc = "term"]

SnapError == /\ SnapNone /\ TriedNow >= MaxTried
             /\ tried' = 0
             /\ stateType' = IF SnapReady THEN "Relaxed" ELSE stateType
             /\ gen' = IF SnapReady THEN NoGen ELSE gen

\* SchedSnapGen: two calls of AppliedIndex, and the scan of the engine.
GenTerm == /\ gen.pc = "term" /\ ~down
           /\ gen' = [gen EXCEPT !.pc = "index", !.term = LogTerm(applied)]
           /\ UNCHANGED <<lead, down, storage, stateType, tried, pr, toF, toL, follower, counters>>

GenIndex == /\ gen.pc = "index" /\ ~down
            /\ gen' = [gen EXCEPT !.pc = "scan", !.index = applied]
            /\ UNCHANGED <<lead, down, storage, stateType, tried, pr, toF, toL, follower, counters>>

\* Mutant: the term is looked up last.
ScanThenTerm ==
    /\ gen.pc = "scan" /\ ~down
    /\ gen' = [gen EXCEPT !.pc = "done", !.data = kvIdx, !.term = LogTerm(applied)]
    /\ UNCHANGED <<lead, down, storage, stateType, tried, pr, toF, toL, follower, counters>>

GenScan == /\ gen.pc = "scan" /\ ~down
           /\ gen' = [gen EXCEPT !.pc = "done", !.data = kvIdx]
           /\ UNCHANGED <<lead, down, storage, stateType, tried, pr, toF, toL, follower, counters>>
-----------------------------------------------------------------------------
(* onTick: process, and applySnapshot while another replica leads *)

ApplyIndex == /\ ~down /\ kvIdx = applied /\ applied < LastIndex
              /\ applied' = applied + 1
              /\ UNCHANGED <<lead, down, kvIdx, trunc, snapVars, pr, toF, toL, follower, counters>>

ApplyKV == /\ ~down /\ kvIdx < applied
           /\ kvIdx' = applied
           /\ UNCHANGED <<lead, down, applied, trunc, snapVars, pr, toF, toL, follower, counters>>

\* A CompactLog entry names an index below the one that was applied when it was proposed.
Compact == /\ ~down /\ kvIdx = applied
           /\ trunc' \in trunc + 1..applied - 1
           /\ UNCHANGED <<lead, down, applied, kvIdx, snapVars, pr, toF, toL, follower, counters>>

applySnapshot == /\ ~lead /\ kvIdx = applied
                 /\ \E i \in applied + 1..LastIndex :
                      applied' = i /\ kvIdx' = i /\ trunc' = i
                 /\ stateType' = "Applying"
                 /\ UNCHANGED <<lead, down, gen, tried, pr, toF, toL, follower, counters>>

OnTick == ApplyIndex \/ ApplyKV \/ Compact \/ applySnapshot
-----------------------------------------------------------------------------
(* raft, the leader: every step ends in maybeSendAppend *)

MsgApp(p) == [type |-> "MsgApp", index |-> p.next - 1, term |-> TermOf(p.next - 1)]

\* Mutant: the index is filled in when the message is sent.
MsgSnapNow == [type |-> "MsgSnap", index |-> applied, term |-> gen.term, data |-> gen.data]

MsgSnap == [type |-> "MsgSnap", index |-> gen.index, term |-> gen.term, data |-> gen.data]

Compacted(p) == p.next <= trunc

\* Every MsgApp carries the log to its end.
AppSent(p) == IF p.next > LastIndex THEN p
              ELSE IF p.state = "Replicate" THEN [p EXCEPT !.next = LastIndex + 1]
              ELSE [p EXCEPT !.probeSent = TRUE]

maybeSendAppend(p, sendIfEmpty) ==
    LET NoEntries == p.next > LastIndex \/ Compacted(p)
    IN \/ /\ IsPaused(p) \/ (NoEntries /\ ~sendIfEmpty)
          /\ pr' = p /\ UNCHANGED <<snapVars, toF, down>>
       \/ /\ ~IsPaused(p) /\ (sendIfEmpty \/ ~NoEntries)
          /\ \/ /\ ~Compacted(p)
                /\ toF' = Append(toF, MsgApp(p)) /\ pr' = AppSent(p)
                /\ UNCHANGED <<snapVars, down>>
             \/ Compacted(p) /\ (SnapWait \/ SnapAgain) /\ pr' = p /\ UNCHANGED <<toF, down>>
             \/ /\ Compacted(p) /\ SnapReturn
                /\ toF' = Append(toF, MsgSnap) /\ pr' = BecomeSnapshot(p, gen.index)
                /\ UNCHANGED down
             \/ Compacted(p) /\ SnapError /\ pr' = p /\ down' = TRUE /\ UNCHANGED toF

\* MsgHeartbeatResp
HeartbeatResp == /\ lead /\ ~down /\ Len(toF) + Len(toL) < NetCap
                 /\ pr.match < LastIndex
                 /\ maybeSendAppend([pr EXCEPT !.probeSent = FALSE], TRUE)
                 /\ UNCHANGED <<lead, storage, toL, follower, counters>>

\* MsgAppResp
RecvAccept == /\ lead /\ ~down /\ toL # <<>> /\ ~Head(toL).reject
              /\ toL' = Tail(toL)
              /\ IF Head(toL).index > pr.match
                 THEN maybeSendAppend(Acked(pr, Head(toL).index), IsPaused(pr))
                 ELSE /\ pr' = [pr EXCEPT !.next = Max({@, Head(toL).index + 1})]
                      /\ UNCHANGED <<snapVars, toF, down>>
              /\ UNCHANGED <<lead, storage, follower, counters>>

RecvReject == /\ lead /\ ~down /\ toL # <<>> /\ Head(toL).reject
              /\ toL' = Tail(toL)
              /\ IF StaleReject(pr, Head(toL).index)
                 THEN UNCHANGED <<pr, snapVars, toF, down>>
                 ELSE maybeSendAppend(
                        Decreased(pr, Head(toL).index,
                                  ConflictByTerm(Head(toL).hint, Head(toL).term)), TRUE)
              /\ UNCHANGED <<lead, storage, follower, counters>>

\* A higher term deposes the leader; messages of an earlier term are ignored after it.
StepDown == /\ lead /\ ~down /\ elect < MaxElect
            /\ lead' = FALSE /\ toF' = <<>> /\ toL' = <<>>
            /\ UNCHANGED <<down, storage, snapVars, pr, follower, counters>>

Elected == /\ ~lead
           /\ lead' = TRUE /\ pr' = NewProgress /\ elect' = elect + 1
           /\ UNCHANGED <<down, storage, snapVars, toF, toL, follower, lost>>
-----------------------------------------------------------------------------
(* raft, the follower *)

Accept(i) == [type |-> "MsgAppResp", reject |-> FALSE, index |-> i]

Reject(i) == [type |-> "MsgAppResp", reject |-> TRUE, index |-> i,
              hint |-> Min({i, flast}), term |-> fterm]

\* handleAppendEntries
RecvApp == /\ toF # <<>> /\ Head(toF).type = "MsgApp"
           /\ LET m == Head(toF)
              IN \/ /\ m.index < flast
                    /\ toL' = Append(toL, Accept(flast)) /\ UNCHANGED follower
                 \/ /\ m.index = flast /\ m.term = fterm
                    /\ flast' = LastIndex /\ fterm' = TermOf(LastIndex)
                    /\ toL' = Append(toL, Accept(LastIndex))
                 \/ /\ m.index > flast \/ (m.index = flast /\ m.term # fterm)
                    /\ toL' = Append(toL, Reject(m.index)) /\ UNCHANGED follower
           /\ toF' = Tail(toF)
           /\ UNCHANGED <<lead, down, storage, snapVars, pr, counters>>

\* handleSnapshot
RecvSnap == /\ toF # <<>> /\ Head(toF).type = "MsgSnap"
            /\ LET m == Head(toF)
               IN IF m.index <= flast
                  THEN toL' = Append(toL, Accept(flast)) /\ UNCHANGED follower
                  ELSE /\ flast' = m.index /\ fterm' = m.term
                       /\ toL' = Append(toL, Accept(m.index))
            /\ toF' = Tail(toF)
            /\ UNCHANGED <<lead, down, storage, snapVars, pr, counters>>

\* sendRaftMsgs goes on to the next message when one cannot be sent; ReportSnapshot is
\* never called.
Lose == /\ lost < MaxLost /\ lost' = lost + 1
        /\ \/ toF # <<>> /\ toF' = Tail(toF) /\ UNCHANGED toL
           \/ toL # <<>> /\ toL' = Tail(toL) /\ UNCHANGED toF
        /\ UNCHANGED <<lead, down, storage, snapVars, pr, follower, elect>>
-----------------------------------------------------------------------------
\* Mutant: newPeerStorage leaves StateType at its zero value, SnapshotGenerating.
ZeroSnapState == /\ lead = TRUE /\ down = FALSE
                 /\ applied \in 1..LastIndex /\ kvIdx = applied /\ trunc \in 0..applied - 1
                 /\ stateType = "Generating" /\ gen = NoGen /\ tried = 0
                 /\ pr = NewProgress /\ toF = <<>> /\ toL = <<>>
                 /\ flast \in 0..LastIndex /\ fterm = TermOf(flast)
                 /\ elect = 0 /\ lost = 0

\* The leader has compacted some of what it has applied; the follower has any prefix.
Init == /\ lead = TRUE /\ down = FALSE
        /\ applied \in 1..LastIndex /\ kvIdx = applied /\ trunc \in 0..applied - 1
        /\ stateType = "Relaxed" /\ gen = NoGen /\ tried = 0
        /\ pr = NewProgress /\ toF = <<>> /\ toL = <<>>
        /\ flast \in 0..LastIndex /\ fterm = TermOf(flast)
        /\ elect = 0 /\ lost = 0

Generate == GenTerm \/ GenIndex \/ GenScan

Raft == HeartbeatResp \/ RecvAccept \/ RecvReject

Follower == RecvApp \/ RecvSnap

\* A panic of raft ends all of the leader's goroutines.
Next == Generate \/ OnTick \/ Raft \/ StepDown \/ Elected \/ Follower \/ Lose

Spec == Init /\ [][Next]_vars

\* The goroutines run, heartbeats go on, an election ends, and a message that is not
\* lost arrives.
FairSpec == /\ Spec
            /\ WF_vars(Generate) /\ WF_vars(ApplyIndex \/ ApplyKV)
            /\ WF_vars(HeartbeatResp) /\ WF_vars(RecvAccept \/ RecvReject)
            /\ WF_vars(Elected) /\ WF_vars(Follower)
-----------------------------------------------------------------------------
(* Properties *)

Progresses == [state : {"Probe", "Replicate", "Snapshot"}, match : 0..LastIndex,
               next : 1..LastIndex + 1, pending : 0..LastIndex, probeSent : BOOLEAN]

\* Types, with the order of the leader's indexes and the count of attempts.
TypeOK == /\ trunc <= kvIdx /\ kvIdx \in {applied - 1, applied} /\ applied \in 1..LastIndex
          /\ gen.pc \in {"none", "term", "index", "scan", "done"}
          /\ stateType \in {"Relaxed", "Generating", "Applying"}
          /\ pr \in Progresses /\ tried \in 0..MaxTried
          /\ flast \in 0..LastIndex /\ fterm \in Nat

Snaps == {m \in Range(toF) : m.type = "MsgSnap"} \cup {g \in {gen} : g.pc = "done"}

\* onTick raises the applied index before it writes the key, so the scan may miss the entry
\* at the snapshot's index; it never misses another one.
AtMostOneBehind == \A m \in Snaps : m.data >= m.index - 1

\* The term and the index of a snapshot come from two calls of AppliedIndex.  When onTick
\* applies an entry in between, the term may be too old, but it is never the term of a
\* later entry: the follower never looks more up to date than it is.
TermNotAhead == fterm <= TermOf(flast) /\ \A m \in Snaps : m.term <= TermOf(m.index)

\* raft panics on any error of Snapshot but "temporarily unavailable".  The error counts
\* attempts that were begun and never collected: each needs an applySnapshot, and so
\* a change of leader, in between.
PanicNeedsElections == down => elect >= MaxTried

\* The MsgSnap or its answer was lost.
Limbo == pr.state = "Snapshot" /\ toF = <<>> /\ toL = <<>>

\* A leader that waits for a snapshot of which nothing is under way waits until it is
\* deposed: nobody calls ReportSnapshot, and heartbeats do not bring it back.
LimboForever == [][lead /\ lead' /\ Limbo => Limbo']_vars

\* The follower has a term for its last entry that the entry does not have.
Torn == fterm # TermOf(flast)

\* A follower behind the leader's log gets all of it, whatever the leader applies and
\* compacts meanwhile, unless the leader panics, waits for a lost snapshot, or
\* has sent a snapshot with the wrong term.
CatchesUp == <>[](flast = LastIndex \/ Limbo \/ Torn \/ down)
=============================================================================
