------------------------------ MODULE ReadPath ------------------------------
(***************************************************************************)
(* The linearizable reads of one replica: RaftStore.Get and                *)
(* peer.linearizableRead, the goroutine peer.handleReadState, the          *)
(* goroutines peer.readApplied it starts, and the part of peer.handleReady *)
(* that hands the ReadStates over and applies entries.                     *)
(*                                                                         *)
(* The store is one register that each log entry writes, so the version of *)
(* the key-value engine is the index of the last entry written to it.  A   *)
(* read's context, a timestamp and a key, is the identity of the read.     *)
(***************************************************************************)
EXTENDS Naturals, Sequences, FiniteSets

CONSTANTS
    Read,      \* the calls of Get
    Nil,       \* no read, no response
    ReadCap,   \* capacity of the channel readc (1024 in newPeer)
    MaxIndex,  \* bound on the length of the log
    Expiry     \* whether a read may get older than 15 seconds

ASSUME ReadAssumption ==
    /\ Nil \notin Read
    /\ Nil \notin Nat
    /\ ReadCap \in Nat \ {0}
    /\ MaxIndex \in Nat \ {0}  \* the log begins with one entry
    /\ Expiry \in BOOLEAN

VARIABLES
    commit,                  \* commit index of the cluster
    rcommit, rsnap,          \* commit index and pending snapshot of this replica
    asked, states,           \* ReadIndex requests under way, raft.readStates
    pc, rd,                  \* the onTick goroutine and its Ready
    applied, kv,             \* ApplyState.ApplyIndex, version of the engine
    table, coming,           \* readStateTable, readStateComing
    readc,                   \* the channel of waiting reads
    hpc, cur, size,          \* the handleReadState goroutine
    serving,                 \* the readApplied goroutines
    phase, resp, done,       \* the calls of Get and their Callbacks
    need, served, torn, blind, expired \* ghosts

\* need: the commit index when the read was requested from raft.  served: how
\* often the read was handed to readApplied.  torn: readApplied read the
\* engine while the applied index was ahead of it.  blind: the read was
\* handed to readApplied without a ReadState.  expired: handleReadState has
\* dropped a read for its age.

raftVars    == <<commit, rcommit, rsnap, asked, states>>
tickVars    == <<pc, rd, applied, kv>>
tableVars   == <<table, coming>>
handlerVars == <<hpc, cur, size>>
getVars     == <<phase, resp, done>>
ghostVars   == <<need, served, torn, blind, expired>>
vars == <<raftVars, tickVars, tableVars, readc, handlerVars, serving, getVars,
          ghostVars>>

Index == 0..MaxIndex

\* raft.ReadState.  Index 0 is that of the zero ReadState, which a lookup of
\* an absent key in readStateTable yields: raft's own indexes are positive.
ReadState == [ctx : Read, index : Index]

\* A readApplied goroutine; n tells goroutines for the same read apart.
Serving == [read : Read, index : Index, n : Nat]

NoReady == [states |-> <<>>, snap |-> 0, commit |-> 0]

Init ==
    /\ commit = 1
    /\ rcommit = 1 /\ rsnap = 0
    /\ asked = {} /\ states = <<>>
    /\ pc = "idle" /\ rd = NoReady
    /\ applied = 1 /\ kv = 1
    /\ table = [r \in Read |-> 0] /\ coming = 0
    /\ readc = <<>>
    /\ hpc = "wait" /\ cur = Nil /\ size = 0
    /\ serving = {}
    /\ phase = [r \in Read |-> "new"]
    /\ resp = [r \in Read |-> Nil]
    /\ done = [r \in Read |-> FALSE]
    /\ need = [r \in Read |-> 0]
    /\ served = [r \in Read |-> 0]
    /\ torn = {} /\ blind = {} /\ expired = FALSE

\* The process has not died of a nil dereference in handleReadState.
Alive == hpc # "panic"

-----------------------------------------------------------------------------
(* raft *)

RaftStep == Alive /\ UNCHANGED <<tickVars, tableVars, readc, handlerVars,
                                 serving, getVars, ghostVars>>

Commit ==
    /\ RaftStep
    /\ commit < MaxIndex
    /\ commit' = commit + 1
    /\ UNCHANGED <<rcommit, rsnap, asked, states>>

RecvCommit(c) ==
    /\ RaftStep
    /\ c > rcommit
    /\ c <= commit
    /\ rcommit' = c
    /\ UNCHANGED <<commit, rsnap, asked, states>>

RecvSnapshot(n) ==
    /\ RaftStep
    /\ n > rcommit
    /\ n <= commit
    /\ rcommit' = n
    /\ rsnap' = n
    /\ UNCHANGED <<commit, asked, states>>

\* The leader answers with its commit index at some time after the request.
RecvReadIndex(r, i) ==
    /\ RaftStep
    /\ r \in asked
    /\ i >= need[r]
    /\ i <= commit
    /\ asked' = asked \ {r}
    /\ states' = Append(states, [ctx |-> r, index |-> i])
    /\ UNCHANGED <<commit, rcommit, rsnap>>

\* There is no leader, or it is deposed before a quorum has answered it.
LoseReadIndex(r) ==
    /\ RaftStep
    /\ r \in asked
    /\ asked' = asked \ {r}
    /\ UNCHANGED <<commit, rcommit, rsnap, states>>

-----------------------------------------------------------------------------
(* RaftStore.Get and peer.linearizableRead *)

GetStep(r) == Alive /\ UNCHANGED <<tickVars, tableVars, handlerVars, serving,
                                   commit, rcommit, rsnap, states, served, torn, blind,
                                   expired>>

GetStart(r) ==
    /\ GetStep(r)
    /\ phase[r] = "new"
    /\ phase' = [phase EXCEPT ![r] = "push"]
    /\ UNCHANGED <<readc, asked, resp, done, need>>

\* Mutant: a read queue without a bound.
PushUnbounded(r) ==
    /\ GetStep(r)
    /\ phase[r] = "push"
    /\ readc' = Append(readc, r)
    /\ phase' = [phase EXCEPT ![r] = "index"]
    /\ UNCHANGED <<asked, resp, done, need>>

\* The send on readc, which waits while the channel is full.
PushRead(r) ==
    /\ GetStep(r)
    /\ phase[r] = "push"
    /\ Len(readc) < ReadCap
    /\ readc' = Append(readc, r)
    /\ phase' = [phase EXCEPT ![r] = "index"]
    /\ UNCHANGED <<asked, resp, done, need>>

\* raftGroup.ReadIndex.
ReadIndex(r) ==
    /\ GetStep(r)
    /\ phase[r] = "index"
    /\ asked' = asked \cup {r}
    /\ need' = [need EXCEPT ![r] = commit]
    /\ phase' = [phase EXCEPT ![r] = "wait"]
    /\ UNCHANGED <<readc, resp, done>>

\* WaitRespWithTimeout returns because of Done ...
GetReturn(r) ==
    /\ GetStep(r)
    /\ phase[r] = "wait"
    /\ done[r]
    /\ done' = [done EXCEPT ![r] = FALSE]
    /\ phase' = [phase EXCEPT ![r] = "done"]
    /\ UNCHANGED <<readc, asked, resp, need>>

\* Mutant: WaitResp, which has no timeout.
WaitResp(r) == FALSE

\* ... or after a second, with ErrLostReadResponse.
GetTimeout(r) ==
    /\ GetStep(r)
    /\ phase[r] = "wait"
    /\ ~done[r]
    /\ phase' = [phase EXCEPT ![r] = "lost"]
    /\ UNCHANGED <<readc, asked, resp, done, need>>

-----------------------------------------------------------------------------
(* The onTick goroutine: handleReady *)

TickStep == Alive /\ UNCHANGED <<commit, rcommit, asked, readc, handlerVars,
                                 serving, getVars, ghostVars>>

TakeReady ==
    /\ TickStep
    /\ pc = "idle"
    /\ states # <<>> \/ rsnap > 0 \/ rcommit > applied
    /\ rd' = [states |-> states, snap |-> rsnap, commit |-> rcommit]
    /\ states' = <<>>
    /\ rsnap' = 0
    /\ pc' = IF rsnap > 0 THEN "snap" ELSE "table"
    /\ UNCHANGED <<applied, kv, table, coming>>

\* saveReadyState -> applySnapshot: the applied index, then the data.
SnapIndex ==
    /\ TickStep
    /\ pc = "snap"
    /\ applied' = rd.snap
    /\ pc' = "snapData"
    /\ UNCHANGED <<rsnap, states, rd, kv, table, coming>>

SnapData ==
    /\ TickStep
    /\ pc = "snapData"
    /\ kv' = rd.snap
    /\ pc' = "table"
    /\ UNCHANGED <<rsnap, states, rd, applied, table, coming>>

\* The ReadStates go into the table one by one, with no lock.
FillTable ==
    /\ TickStep
    /\ pc = "table"
    /\ rd.states # <<>>
    /\ table' = [table EXCEPT ![Head(rd.states).ctx] = Head(rd.states).index]
    /\ rd' = [rd EXCEPT !.states = Tail(@)]
    /\ pc' = IF Len(rd.states) = 1 THEN "signal" ELSE "table"
    /\ UNCHANGED <<rsnap, states, applied, kv, coming>>

\* The send on readStateComing, which holds one signal.
Signal ==
    /\ TickStep
    /\ pc = "signal"
    /\ coming = 0
    /\ coming' = 1
    /\ pc' = "apply"
    /\ UNCHANGED <<rsnap, states, rd, applied, kv, table>>

\* Mutant: a signal for every Ready.
SignalAlways ==
    /\ TickStep
    /\ pc = "table"
    /\ rd.states = <<>>
    /\ pc' = "signal"
    /\ UNCHANGED <<rsnap, states, rd, applied, kv, tableVars>>

\* A Ready without ReadStates.
NoSignal ==
    /\ TickStep
    /\ pc = "table"
    /\ rd.states = <<>>
    /\ pc' = "apply"
    /\ UNCHANGED <<rsnap, states, rd, applied, kv, tableVars>>

\* process: the applied index, then the engine.
ApplyIndex ==
    /\ TickStep
    /\ pc = "apply"
    /\ applied < rd.commit
    /\ applied' = applied + 1
    /\ pc' = "exec"
    /\ UNCHANGED <<rsnap, states, rd, kv, tableVars>>

ApplyKV ==
    /\ TickStep
    /\ pc = "exec"
    /\ kv' = applied
    /\ pc' = "apply"
    /\ UNCHANGED <<rsnap, states, rd, applied, tableVars>>

Advance ==
    /\ TickStep
    /\ pc = "apply"
    /\ applied >= rd.commit
    /\ pc' = "idle"
    /\ rd' = NoReady
    /\ UNCHANGED <<rsnap, states, applied, kv, tableVars>>

-----------------------------------------------------------------------------
(* The goroutine handleReadState *)

HandlerStep == Alive /\ UNCHANGED <<raftVars, tickVars, getVars, need, torn>>

\* Mutant: run does not start handleReadState.
NotStarted == FALSE

\* One signal: look at as many reads as there are now.
Wake ==
    /\ HandlerStep
    /\ hpc = "wait"
    /\ coming = 1
    /\ coming' = 0
    /\ size' = Len(readc)
    /\ cur' = Nil
    /\ hpc' = "scan"
    /\ UNCHANGED <<table, readc, serving, served, blind, expired>>

\* The next read of the channel.
PopRead ==
    /\ HandlerStep
    /\ hpc = "scan"
    /\ size > 0
    /\ cur' = Head(readc)
    /\ readc' = Tail(readc)
    /\ hpc' = "look"
    /\ UNCHANGED <<tableVars, size, serving, served, blind, expired>>

\* The read has a state, is put back, or is too old.
LookUp ==
    /\ HandlerStep
    /\ hpc = "look"
    /\ \/ table[cur] # 0 /\ hpc' = "serve" /\ UNCHANGED <<size, expired>>
       \/ table[cur] = 0 /\ hpc' = "back" /\ UNCHANGED <<size, expired>>
       \/ /\ table[cur] = 0
          /\ Expiry
          /\ hpc' = "scan"
          /\ size' = size - 1
          /\ expired' = TRUE
    /\ UNCHANGED <<tableVars, readc, cur, serving, served, blind>>

\* handleReadState itself sends on readc, which may be full again.
PutBack ==
    /\ HandlerStep
    /\ hpc = "back"
    /\ Len(readc) < ReadCap
    /\ readc' = Append(readc, cur)
    /\ size' = size - 1
    /\ hpc' = "scan"
    /\ UNCHANGED <<tableVars, cur, serving, served, blind, expired>>

ScanEnd ==
    /\ HandlerStep
    /\ hpc = "scan"
    /\ size = 0
    /\ hpc' = "serve"
    /\ UNCHANGED <<tableVars, readc, cur, size, serving, served, blind, expired>>

\* Mutant: the ReadState is looked up after it was deleted.
ServedIndexLate(r) == 0

\* The index that readApplied is to wait for.
ServedIndex(r) == table[r]

\* After the loop the last read looked at is served, whether it has a state
\* or not; with no read at all r is nil.
Serve ==
    /\ HandlerStep
    /\ hpc = "serve"
    /\ cur # Nil
    /\ serving' = serving \cup
          {[read |-> cur, index |-> ServedIndex(cur), n |-> served[cur]]}
    /\ served' = [served EXCEPT ![cur] = @ + 1]
    /\ blind' = IF table[cur] = 0 THEN blind \cup {cur} ELSE blind
    /\ table' = [table EXCEPT ![cur] = 0]
    /\ hpc' = "wait"
    /\ cur' = Nil
    /\ size' = 0
    /\ UNCHANGED <<coming, readc, expired>>

NilRead ==
    /\ HandlerStep
    /\ hpc = "serve"
    /\ cur = Nil
    /\ hpc' = "panic"
    /\ UNCHANGED <<tableVars, readc, cur, size, serving, served, blind, expired>>

\* Mutant: readApplied does not wait.
WaitNothing(i) == TRUE

\* waitAppliedAdvance.
WaitApplied(i) == applied >= i

\* readApplied: wait, read the engine, Callback.Done.  (A response that comes
\* after Get has returned is read by nobody.)
ReadApplied(s) ==
    /\ Alive
    /\ s \in serving
    /\ WaitApplied(s.index)
    /\ resp' = IF phase[s.read] \in {"index", "wait"}
               THEN [resp EXCEPT ![s.read] = kv] ELSE resp
    /\ done' = [done EXCEPT ![s.read] = TRUE]
    /\ torn' = IF pc \in {"snapData", "exec"} THEN torn \cup {s.read} ELSE torn
    /\ serving' = serving \ {s}
    /\ UNCHANGED <<raftVars, tickVars, tableVars, readc, handlerVars, phase,
                   need, served, blind, expired>>

-----------------------------------------------------------------------------
RaftNext ==
    \/ Commit
    \/ \E c \in Index : RecvCommit(c) \/ RecvSnapshot(c)
    \/ \E r \in Read : LoseReadIndex(r) \/ \E i \in Index : RecvReadIndex(r, i)

GetNext(r) ==
    GetStart(r) \/ PushRead(r) \/ ReadIndex(r) \/ GetReturn(r) \/ GetTimeout(r)

HandleReady ==
    \/ TakeReady \/ SnapIndex \/ SnapData
    \/ FillTable \/ Signal \/ NoSignal
    \/ ApplyIndex \/ ApplyKV \/ Advance

HandleReadState ==
    Wake \/ PopRead \/ LookUp \/ PutBack \/ ScanEnd \/ Serve \/ NilRead

Next ==
    \/ RaftNext
    \/ \E r \in Read : GetNext(r)
    \/ HandleReady
    \/ HandleReadState
    \/ \E s \in serving : ReadApplied(s)

Spec == Init /\ [][Next]_vars

-----------------------------------------------------------------------------
(* Properties *)

\* Types, and in particular the capacities of the two channels.
TypeOK ==
    /\ commit \in Index /\ rcommit \in Index /\ rsnap \in Index
    /\ asked \subseteq Read
    /\ states \in Seq(ReadState)
    /\ pc \in {"idle", "snap", "snapData", "table", "signal", "apply", "exec"}
    /\ rd \in [states : Seq(ReadState), snap : Index, commit : Index]
    /\ applied \in Index /\ kv \in Index
    /\ table \in [Read -> Index] /\ coming \in {0, 1}
    /\ readc \in Seq(Read) /\ Len(readc) <= ReadCap
    /\ hpc \in {"wait", "scan", "look", "back", "serve", "panic"}
    /\ cur \in Read \cup {Nil}
    /\ size \in Nat
    /\ serving \subseteq Serving
    /\ phase \in [Read -> {"new", "push", "index", "wait", "done", "lost"}]
    /\ resp \in [Read -> Index \cup {Nil}]
    /\ done \in [Read -> BOOLEAN]
    /\ need \in [Read -> Index]
    /\ served \in [Read -> Nat]
    /\ torn \subseteq Read /\ blind \subseteq Read /\ expired \in BOOLEAN

\* As long as handleReadState has dropped no read for its age, it never
\* dereferences a nil read: a signal is only pending while some waiting read
\* has its ReadState.
NoNilRead == ~expired => hpc # "panic"

\* As long as handleReadState has dropped no read, a read is handed to
\* readApplied at most once, so Callback.Done, whose channel holds one
\* element, never blocks.
AnsweredOnce == ~expired => \A r \in Read : served[r] <= 1

\* readApplied waits for the index of the read's own ReadState, never for that
\* of a state that is not there.
OwnState == \A s \in serving : s.index > 0 /\ s.index >= need[s.read]

\* ... which handleReadState keeps to as long as it has dropped no read.
OwnStateUnlessExpired == ~expired => OwnState

\* A Get returns a value at least as new as everything committed when it asked
\* raft for a read index.
Linearizable ==
    \A r \in Read : phase[r] = "done" => resp[r] >= need[r]

\* ... which can only fail for a Get that read the engine while handleReady had
\* raised the applied index and not yet written the data, or that was served
\* without a ReadState.
StaleExplained ==
    \A r \in Read : phase[r] = "done" /\ r \notin torn \cup blind =>
                      resp[r] >= need[r]

\* The goroutines run, a Get that has begun goes on, and its timer fires.
Fairness ==
    /\ WF_vars(HandleReady)
    /\ WF_vars(HandleReadState)
    /\ \A r \in Read :
         /\ WF_vars(PushRead(r) \/ ReadIndex(r) \/ GetReturn(r) \/ GetTimeout(r))
         /\ WF_vars(\E s \in serving : s.read = r /\ ReadApplied(s))
FairSpec == Spec /\ Fairness

\* Every Get that has begun returns, with a value or with ErrLostReadResponse.
GetReturns ==
    \A r \in Read : (phase[r] = "push") ~> (phase[r] \in {"done", "lost"})

\* handleReady finishes each Ready and calls Advance.
ReadyHandled == (pc # "idle") ~> (pc = "idle")
=============================================================================
