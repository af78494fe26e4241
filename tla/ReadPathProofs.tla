--------------------------- MODULE ReadPathProofs ---------------------------
(***************************************************************************)
(* Proofs about ReadPath: an inductive invariant, and from it every safety *)
(* property that the module states, for any set of reads, any capacity of  *)
(* readc and whether or not reads expire.                                  *)
(***************************************************************************)
EXTENDS ReadPath, FiniteSetTheorems, TLAPS

-----------------------------------------------------------------------------
(* The inductive invariant *)

\* The read waits in the channel.
Queued(r) == \E i \in 1..Len(readc) : readc[i] = r

\* handleReadState has taken the read from the channel and not yet put it back
\* or decided to serve it.
InHand(r) == hpc \in {"look", "back"} /\ cur = r

\* linearizableRead has asked raft for the read's index.
Requested(r) == phase[r] \in {"wait", "done", "lost"}

\* The sequence ss of ReadStates has one of the read.
HasState(ss, r) == \E i \in 1..Len(ss) : ss[i].ctx = r

OncePerRead(ss) == \A i, j \in 1..Len(ss) : ss[i].ctx = ss[j].ctx => i = j

\* handleReadState looks at no more reads than the channel holds.
ScanInv ==
    /\ hpc = "scan" => size <= Len(readc)
    /\ hpc \in {"look", "back"} => cur \in Read /\ size > 0 /\ size <= Len(readc) + 1

\* A read is in the channel once, or in hand.
QueueInv ==
    /\ \A i, j \in 1..Len(readc) : readc[i] = readc[j] => i = j
    /\ hpc \in {"look", "back"} => ~Queued(cur)
    /\ \A r \in Read : phase[r] \in {"new", "push"} => ~Queued(r) /\ ~InHand(r)

\* A read has at most one ReadState, and it is on its way through raft, the
\* Ready and the table only after it was asked for.
StateInv ==
    /\ OncePerRead(states)
    /\ OncePerRead(rd.states)
    /\ \A r \in asked : Requested(r) /\ table[r] = 0
    /\ \A r \in Read : HasState(states, r) =>
         Requested(r) /\ r \notin asked /\ table[r] = 0 /\ ~HasState(rd.states, r)
    /\ \A r \in Read : HasState(rd.states, r) =>
         Requested(r) /\ r \notin asked /\ table[r] = 0
    /\ \A r \in Read : table[r] # 0 => Requested(r)

\* The index of a ReadState covers what was committed at the request.
IndexInv ==
    /\ commit >= 1
    /\ \A r \in Read : Requested(r) => need[r] >= 1
    /\ \A i \in 1..Len(states) : states[i].index >= need[states[i].ctx]
    /\ \A i \in 1..Len(rd.states) : rd.states[i].index >= need[rd.states[i].ctx]
    /\ \A r \in Read : table[r] # 0 => table[r] >= need[r]

\* The applied index is ahead of the engine only between two writes of onTick.
EngineInv ==
    /\ pc \notin {"snapData", "exec"} => kv = applied
    /\ pc = "snapData" => applied = rd.snap

\* What Callback.Done gave, or readApplied is to give, a Get.
AnswerInv ==
    /\ \A s \in serving :
         s.read \in blind \/ (Requested(s.read) /\ s.index >= need[s.read])
    /\ \A r \in Read : r \notin torn \cup blind =>
         /\ done[r] /\ phase[r] # "lost" => Requested(r)
         /\ done[r] /\ phase[r] = "wait" => resp[r] \in Nat /\ resp[r] >= need[r]
         /\ phase[r] = "done" => resp[r] \in Nat /\ resp[r] >= need[r]

\* handleReadState holds the read, in hand or about to serve it.
Held(r) == hpc \in {"look", "back", "serve"} /\ cur = r

\* One of the next n reads of the channel has its ReadState.
Ahead(n) == \E i \in 1..n : i <= Len(readc) /\ table[readc[i]] # 0

\* The reads with a ReadState in the table.
Found == {r \in Read : table[r] # 0}

\* The signals that were or will be sent for a state in the table and that
\* have not yet led to its being served.
Sending == IF pc = "signal" THEN 1 ELSE 0
Busy == IF hpc = "wait" THEN 0 ELSE 1
Signals == coming + Sending + Busy

\* Every read sent to the channel is there, held or served.
Placed ==
    \A r \in Read : phase[r] \notin {"new", "push"} => served[r] = 1 \/ Queued(r) \/ Held(r)

\* A read is served once, and then nothing of it is left anywhere.
ServedOnce ==
    \A r \in Read :
      /\ served[r] <= 1
      /\ served[r] = 1 =>
           /\ Requested(r) /\ ~Queued(r) /\ ~Held(r)
           /\ table[r] = 0 /\ r \notin asked
           /\ ~HasState(states, r) /\ ~HasState(rd.states, r)

\* Every scan ends at a read that has its state.
Finds ==
    /\ hpc # "panic"
    /\ hpc = "serve" => cur \in Read /\ table[cur] # 0 /\ ~Queued(cur)
    /\ hpc = "scan" => Ahead(size)
    /\ hpc = "look" => table[cur] # 0 \/ Ahead(size - 1)
    /\ hpc = "back" => Ahead(size - 1)

\* There are as many states in the table as signals.
Backed == IsFiniteSet(Found) /\ Cardinality(Found) >= Signals

\* What holds while no read was dropped for its age.
AccountInv == ~expired => blind = {} /\ Placed /\ ServedOnce /\ Finds /\ Backed

ReadInv ==
    TypeOK /\ ScanInv /\ QueueInv /\ StateInv /\ IndexInv /\ EngineInv /\ AnswerInv
      /\ AccountInv

-----------------------------------------------------------------------------
(* Sequences *)

\* What a send to a channel leaves.
LEMMA AppendFacts ==
    ASSUME NEW S, NEW s \in Seq(S), NEW e \in S
    PROVE  /\ Append(s, e) \in Seq(S)
           /\ Len(Append(s, e)) = Len(s) + 1
           /\ \A i \in 1..Len(s) : Append(s, e)[i] = s[i]
           /\ Append(s, e)[Len(s) + 1] = e
OBVIOUS

\* What a receive from a channel returns and leaves.
LEMMA TailFacts ==
    ASSUME NEW S, NEW s \in Seq(S), Len(s) > 0
    PROVE  /\ Head(s) \in S
           /\ Head(s) = s[1]
           /\ Tail(s) \in Seq(S)
           /\ Len(Tail(s)) = Len(s) - 1
           /\ \A i \in 1..Len(s) - 1 : Tail(s)[i] = s[i + 1]
OBVIOUS

\* Only the empty channel has nothing to receive.
LEMMA EmptyFacts ==
    ASSUME NEW S, NEW s \in Seq(S)
    PROVE  s # <<>> <=> Len(s) > 0
OBVIOUS

-----------------------------------------------------------------------------
(* Types *)

\* Every step of the read path keeps the types, in particular the capacities of
\* readc and readStateComing.
LEMMA TypeNext ==
    ASSUME TypeOK, ScanInv, [Next]_vars
    PROVE  TypeOK'
<1>. USE DEF TypeOK, vars, raftVars, tickVars, tableVars, handlerVars, getVars, ghostVars
<1>0. /\ Index \subseteq Nat /\ 0 \in Index
      /\ \A i \in Index, j \in Index : i < j => i + 1 \in Index
      /\ MaxIndex \in Index
  BY ReadAssumption DEF Index
<1>1. CASE Commit
  <2>1. commit' \in Index
    BY <1>0, <1>1 DEF Commit
  <2>. QED
    BY <1>1, <2>1 DEF Commit, RaftStep
<1>2. ASSUME NEW c \in Index, RecvCommit(c) PROVE TypeOK'
  BY <1>2 DEF RecvCommit, RaftStep
<1>3. ASSUME NEW c \in Index, RecvSnapshot(c) PROVE TypeOK'
  BY <1>3 DEF RecvSnapshot, RaftStep
<1>4. ASSUME NEW r \in Read, NEW i \in Index, RecvReadIndex(r, i) PROVE TypeOK'
  <2>1. [ctx |-> r, index |-> i] \in ReadState
    BY DEF ReadState
  <2>2. states' \in Seq(ReadState)
    BY <1>4, <2>1, AppendFacts DEF RecvReadIndex
  <2>3. RaftStep /\ asked' \subseteq Read /\ UNCHANGED <<commit, rcommit, rsnap>>
    BY <1>4 DEF RecvReadIndex
  <2>. QED
    BY <2>2, <2>3 DEF RaftStep
<1>5. ASSUME NEW r \in Read, LoseReadIndex(r) PROVE TypeOK'
  BY <1>5 DEF LoseReadIndex, RaftStep
<1>6. ASSUME NEW r \in Read, GetStart(r) PROVE TypeOK'
  BY <1>6 DEF GetStart, GetStep
<1>7. ASSUME NEW r \in Read, PushRead(r) PROVE TypeOK'
  <2>1. readc' \in Seq(Read) /\ Len(readc') <= ReadCap
    BY <1>7, AppendFacts, ReadAssumption DEF PushRead
  <2>. QED
    BY <1>7, <2>1 DEF PushRead, GetStep
<1>8. ASSUME NEW r \in Read, ReadIndex(r) PROVE TypeOK'
  BY <1>8 DEF ReadIndex, GetStep
<1>9. ASSUME NEW r \in Read, GetReturn(r) PROVE TypeOK'
  BY <1>9 DEF GetReturn, GetStep
<1>10. ASSUME NEW r \in Read, GetTimeout(r) PROVE TypeOK'
  BY <1>10 DEF GetTimeout, GetStep
<1>. DEFINE Ready == [states : Seq(ReadState), snap : Index, commit : Index]
<1>a. ASSUME TickStep, rsnap' \in Index, states' \in Seq(ReadState),
             pc' \in {"idle", "snap", "snapData", "table", "signal", "apply", "exec"},
             rd' \in Ready, applied' \in Index, kv' \in Index,
             table' \in [Read -> Index], coming' \in {0, 1}
      PROVE  TypeOK'
  BY <1>a DEF TickStep
<1>b. rd \in Ready /\ rd.snap \in Index /\ rd.commit \in Index /\ rd.states \in Seq(ReadState)
  OBVIOUS
<1>11. CASE TakeReady
  <2>1. rd' = [states |-> states, snap |-> rsnap, commit |-> rcommit] /\ states' = <<>>
    BY <1>11 DEF TakeReady
  <2>2. rd' \in Ready
    BY <2>1
  <2>3. states' \in Seq(ReadState)
    BY <2>1
  <2>4. /\ TickStep
        /\ rsnap' = 0 /\ pc' \in {"snap", "table"}
        /\ UNCHANGED <<applied, kv, table, coming>>
    BY <1>11 DEF TakeReady
  <2>. QED
    BY <1>0, <1>a, <2>2, <2>3, <2>4
<1>12. CASE SnapIndex
  BY <1>a, <1>b, <1>12 DEF SnapIndex
<1>13. CASE SnapData
  BY <1>a, <1>b, <1>13 DEF SnapData
<1>14. CASE FillTable
  <2>1. Len(rd.states) > 0
    BY <1>b, <1>14, EmptyFacts DEF FillTable
  <2>2. Head(rd.states) \in ReadState /\ Tail(rd.states) \in Seq(ReadState)
    BY <1>b, <2>1, TailFacts
  <2>3. table' \in [Read -> Index]
    BY <1>14, <2>2 DEF FillTable, ReadState
  <2>4. rd' \in Ready
    BY <1>14, <2>2 DEF FillTable
  <2>5. /\ TickStep /\ pc' \in {"signal", "table"}
        /\ UNCHANGED <<rsnap, states, applied, kv, coming>>
    BY <1>14 DEF FillTable
  <2>. QED
    BY <1>a, <2>3, <2>4, <2>5
<1>15. CASE Signal
  BY <1>a, <1>b, <1>15 DEF Signal
<1>16. CASE NoSignal
  BY <1>a, <1>b, <1>16 DEF NoSignal
<1>17. CASE ApplyIndex
  <2>1. applied' \in Index
    BY <1>0, <1>b, <1>17 DEF ApplyIndex
  <2>. QED
    BY <1>a, <1>b, <1>17, <2>1 DEF ApplyIndex
<1>18. CASE ApplyKV
  BY <1>a, <1>b, <1>18 DEF ApplyKV
<1>19. CASE Advance
  <2>1. rd' \in Ready
    BY <1>0, <1>19 DEF Advance, NoReady
  <2>2. TickStep /\ pc' = "idle" /\ UNCHANGED <<rsnap, states, applied, kv, table, coming>>
    BY <1>19 DEF Advance
  <2>. QED
    BY <1>a, <2>1, <2>2
<1>c. ASSUME HandlerStep, table' \in [Read -> Index], coming' \in {0, 1},
             readc' \in Seq(Read), Len(readc') <= ReadCap,
             hpc' \in {"wait", "scan", "look", "back", "serve", "panic"},
             cur' \in Read \cup {Nil}, size' \in Nat, serving' \subseteq Serving,
             served' \in [Read -> Nat], blind' \subseteq Read, expired' \in BOOLEAN
      PROVE  TypeOK'
  BY <1>c DEF HandlerStep
<1>20. CASE Wake
  BY <1>c, <1>20 DEF Wake
<1>21. CASE PopRead
  <2>1. Len(readc) > 0
    BY <1>21 DEF PopRead, ScanInv
  <2>2. cur' \in Read /\ readc' \in Seq(Read) /\ Len(readc') <= ReadCap
    BY <1>21, <2>1, TailFacts, ReadAssumption DEF PopRead
  <2>. QED
    BY <1>c, <1>21, <2>2 DEF PopRead
<1>22. CASE LookUp
  <2>1. /\ size' \in Nat
        /\ hpc' \in {"scan", "back", "serve"}
    BY <1>22 DEF LookUp, ScanInv
  <2>2. expired' \in BOOLEAN
    BY <1>22, Zenon DEF LookUp
  <2>3. HandlerStep /\ UNCHANGED <<table, coming, readc, cur, serving, served, blind>>
    BY <1>22 DEF LookUp
  <2>. QED
    BY <1>c, <2>1, <2>2, <2>3
<1>23. CASE PutBack
  <2>1. cur \in Read /\ size > 0
    BY <1>23 DEF PutBack, ScanInv
  <2>2. readc' \in Seq(Read) /\ Len(readc') <= ReadCap /\ size' \in Nat
    BY <1>23, <2>1, AppendFacts, ReadAssumption DEF PutBack
  <2>. QED
    BY <1>c, <1>23, <2>2 DEF PutBack
<1>24. CASE ScanEnd
  BY <1>c, <1>24 DEF ScanEnd
<1>25. CASE Serve
  <2>1. cur \in Read
    BY <1>25 DEF Serve
  <2>2. [read |-> cur, index |-> table[cur], n |-> served[cur]] \in Serving
    BY <2>1 DEF Serving
  <2>3. serving' \subseteq Serving
    BY <1>25, <2>2 DEF Serve, ServedIndex
  <2>4. /\ served' \in [Read -> Nat] /\ blind' \subseteq Read
        /\ table' \in [Read -> Index] /\ size' = 0
    BY <1>0, <1>25, <2>1 DEF Serve
  <2>5. HandlerStep /\ hpc' = "wait" /\ cur' = Nil /\ UNCHANGED <<coming, readc, expired>>
    BY <1>25 DEF Serve
  <2>. QED
    BY <1>c, <2>3, <2>4, <2>5
<1>26. CASE NilRead
  BY <1>c, <1>26 DEF NilRead
<1>27. ASSUME NEW s \in serving, ReadApplied(s) PROVE TypeOK'
  <2>1. s.read \in Read
    BY DEF Serving
  <2>2. /\ serving' \subseteq Serving /\ resp' \in [Read -> Index \cup {Nil}]
        /\ done' \in [Read -> BOOLEAN] /\ torn' \subseteq Read
    BY <1>27, <2>1 DEF ReadApplied
  <2>. QED
    BY <1>27, <2>2 DEF ReadApplied
<1>28. CASE UNCHANGED vars
  BY <1>28
<1>. QED
  BY <1>1, <1>2, <1>3, <1>4, <1>5, <1>6, <1>7, <1>8, <1>9, <1>10, <1>11, <1>12, <1>13,
     <1>14, <1>15, <1>16, <1>17, <1>18, <1>19, <1>20, <1>21, <1>22, <1>23, <1>24, <1>25,
     <1>26, <1>27, <1>28
     DEF Next, RaftNext, GetNext, HandleReady, HandleReadState

-----------------------------------------------------------------------------
(* What the goroutines leave alone *)

\* A step is one of raft, of a Get, of onTick, of handleReadState or of a
\* readApplied goroutine.
LEMMA Steps ==
    ASSUME [Next]_vars
    PROVE  \/ RaftNext /\ RaftStep
           \/ \E r \in Read : GetNext(r) /\ GetStep(r)
           \/ HandleReady /\ TickStep
           \/ HandleReadState /\ HandlerStep
           \/ \E s \in serving : ReadApplied(s)
           \/ UNCHANGED vars
<1>1. RaftNext => RaftStep
  BY DEF RaftNext, Commit, RecvCommit, RecvSnapshot, RecvReadIndex, LoseReadIndex
<1>2. \A r \in Read : GetNext(r) => GetStep(r)
  BY DEF GetNext, GetStart, PushRead, ReadIndex, GetReturn, GetTimeout
<1>3. HandleReady => TickStep
  BY DEF HandleReady, TakeReady, SnapIndex, SnapData, FillTable, Signal, NoSignal,
         ApplyIndex, ApplyKV, Advance
<1>4. HandleReadState => HandlerStep
  BY DEF HandleReadState, Wake, PopRead, LookUp, PutBack, ScanEnd, Serve, NilRead
<1>. QED
  BY <1>1, <1>2, <1>3, <1>4 DEF Next

\* Only Gets and handleReadState touch the channel of reads, and only
\* handleReadState its own variables.
LEMMA QueueFrame ==
    ASSUME [Next]_vars,
           ~HandleReadState,
           ~\E r \in Read : PushRead(r)
    PROVE  UNCHANGED <<readc, hpc, cur, size>>
<1>1. \A r \in Read : GetNext(r) => PushRead(r) \/ UNCHANGED readc
  BY DEF GetNext, GetStart, ReadIndex, GetReturn, GetTimeout
<1>. USE DEF handlerVars
<1>2. CASE RaftStep \/ TickStep
  BY <1>2 DEF RaftStep, TickStep
<1>3. ASSUME NEW r \in Read, GetNext(r), GetStep(r) PROVE UNCHANGED <<readc, hpc, cur, size>>
  BY <1>1, <1>3 DEF GetStep
<1>4. ASSUME NEW s \in serving, ReadApplied(s) PROVE UNCHANGED <<readc, hpc, cur, size>>
  BY <1>4 DEF ReadApplied
<1>5. CASE UNCHANGED vars
  BY <1>5 DEF vars
<1>. QED
  BY <1>2, <1>3, <1>4, <1>5, Steps

-----------------------------------------------------------------------------
(* handleReadState and the channel of reads *)

\* handleReadState never looks at more reads than there are.
LEMMA ScanNext ==
    ASSUME TypeOK, ScanInv, [Next]_vars
    PROVE  ScanInv'
<1>. USE DEF ScanInv
<1>0. readc \in Seq(Read) /\ size \in Nat
  BY DEF TypeOK
<1>1. ASSUME NEW r \in Read, PushRead(r) PROVE ScanInv'
  <2>1. Len(readc') = Len(readc) + 1 /\ UNCHANGED <<hpc, cur, size>>
    BY <1>0, <1>1, AppendFacts DEF PushRead, GetStep, handlerVars
  <2>. QED
    BY <1>0, <2>1
<1>2. CASE Wake
  BY <1>0, <1>2 DEF Wake
<1>3. CASE PopRead
  <2>1. Len(readc) > 0
    BY <1>0, <1>3 DEF PopRead
  <2>2. Len(readc') = Len(readc) - 1 /\ cur' \in Read
    BY <1>0, <1>3, <2>1, TailFacts DEF PopRead
  <2>. QED
    BY <1>0, <1>3, <2>2 DEF PopRead
<1>4. CASE LookUp
  BY <1>0, <1>4 DEF LookUp
<1>5. CASE PutBack
  <2>1. Len(readc') = Len(readc) + 1
    BY <1>0, <1>5, AppendFacts DEF PutBack
  <2>. QED
    BY <1>0, <1>5, <2>1 DEF PutBack
<1>6. CASE ScanEnd \/ Serve \/ NilRead
  BY <1>6 DEF ScanEnd, Serve, NilRead
<1>7. CASE UNCHANGED <<readc, hpc, cur, size>>
  BY <1>7
<1>. QED
  BY <1>1, <1>2, <1>3, <1>4, <1>5, <1>6, <1>7, QueueFrame DEF HandleReadState

\* A read stays in the channel while others are sent to it ...
LEMMA QueuedAppend ==
    ASSUME readc \in Seq(Read), NEW e \in Read, readc' = Append(readc, e)
    PROVE  \A r : Queued(r)' <=> Queued(r) \/ r = e
<1>1. /\ Len(readc') = Len(readc) + 1
      /\ \A i \in 1..Len(readc) : readc'[i] = readc[i]
      /\ readc'[Len(readc) + 1] = e
  BY AppendFacts
<1>2. 1..Len(readc') = 1..Len(readc) \cup {Len(readc) + 1} /\ Len(readc) \in Nat
  BY <1>1
<1>. QED
  BY <1>1, <1>2 DEF Queued

\* ... and while others are received from it.
LEMMA QueuedTail ==
    ASSUME readc \in Seq(Read), Len(readc) > 0, readc' = Tail(readc)
    PROVE  \A r : Queued(r) <=> Queued(r)' \/ r = Head(readc)
<1>1. /\ Len(readc') = Len(readc) - 1
      /\ \A i \in 1..Len(readc) - 1 : readc'[i] = readc[i + 1]
      /\ Head(readc) = readc[1]
      /\ Len(readc) \in Nat
  BY TailFacts
<1>2. ASSUME NEW r, Queued(r), r # Head(readc) PROVE Queued(r)'
  <2>1. PICK i \in 1..Len(readc) : readc[i] = r
    BY <1>2 DEF Queued
  <2>2. i - 1 \in 1..Len(readc) - 1 /\ readc'[i - 1] = r
    BY <1>1, <1>2, <2>1
  <2>. QED
    BY <1>1, <2>2 DEF Queued
<1>3. ASSUME NEW r, Queued(r)' PROVE Queued(r)
  <2>1. PICK i \in 1..Len(readc') : readc'[i] = r
    BY <1>3 DEF Queued
  <2>2. i + 1 \in 1..Len(readc) /\ readc[i + 1] = r
    BY <1>1, <2>1
  <2>. QED
    BY <2>2 DEF Queued
<1>4. Queued(Head(readc))
  BY <1>1 DEF Queued
<1>. QED
  BY <1>2, <1>3, <1>4

\* Where the phases of the Gets change.
LEMMA PhaseFrame ==
    ASSUME [Next]_vars, phase' # phase
    PROVE  \E r \in Read : GetNext(r) /\ GetStep(r)
<1>1. CASE RaftStep \/ TickStep \/ HandlerStep
  BY <1>1 DEF RaftStep, TickStep, HandlerStep, getVars
<1>2. ASSUME NEW s \in serving, ReadApplied(s) PROVE phase' = phase
  BY <1>2 DEF ReadApplied
<1>3. CASE UNCHANGED vars
  BY <1>3 DEF vars, getVars
<1>. QED
  BY <1>1, <1>2, <1>3, Steps

\* A read that is new, or waits to be sent, was so before: a Get only goes on.
LEMMA PhaseForward ==
    ASSUME TypeOK, [Next]_vars, NEW r \in Read
    PROVE  /\ phase'[r] = "new" => phase[r] = "new"
           /\ phase'[r] \in {"new", "push"} => phase[r] \in {"new", "push"}
           /\ phase'[r] = "index" => phase[r] = "index" \/ PushRead(r)
           /\ phase'[r] = "wait" => phase[r] = "wait" \/ ReadIndex(r)
           /\ phase'[r] = "done" => phase[r] = "done" \/ GetReturn(r)
           /\ phase'[r] = "lost" => phase[r] = "lost" \/ GetTimeout(r)
           /\ Requested(r) => Requested(r)'
<1>. USE DEF TypeOK, Requested
<1>1. CASE phase' = phase
  BY <1>1
<1>2. ASSUME NEW q \in Read, GetNext(q), q # r PROVE phase'[r] = phase[r]
  BY <1>2 DEF GetNext, GetStart, PushRead, ReadIndex, GetReturn, GetTimeout
<1>3. CASE GetStart(r)
  BY <1>3 DEF GetStart
<1>4. CASE PushRead(r)
  BY <1>4 DEF PushRead
<1>5. CASE ReadIndex(r)
  BY <1>5 DEF ReadIndex
<1>6. CASE GetReturn(r)
  BY <1>6 DEF GetReturn
<1>7. CASE GetTimeout(r)
  BY <1>7 DEF GetTimeout
<1>. QED
  BY <1>1, <1>2, <1>3, <1>4, <1>5, <1>6, <1>7, PhaseFrame DEF GetNext

\* No step makes a read wait twice in the channel: a Get sends it once, and
\* handleReadState puts back only what it has taken.
LEMMA QueueNext ==
    ASSUME TypeOK, ScanInv, QueueInv, [Next]_vars
    PROVE  QueueInv'
<1>. DEFINE Once == \A i, j \in 1..Len(readc) : readc[i] = readc[j] => i = j
            Hand == hpc \in {"look", "back"} => ~Queued(cur)
            Fresh == \A r \in Read : phase[r] \in {"new", "push"} => ~Queued(r) /\ ~InHand(r)
<1>0. Once /\ Hand /\ Fresh /\ readc \in Seq(Read) /\ Len(readc) \in Nat
  BY DEF QueueInv, TypeOK
<1>a. \A r \in Read : phase'[r] \in {"new", "push"} => phase[r] \in {"new", "push"}
  BY PhaseForward
<1>b. ASSUME NEW e \in Read, readc' = Append(readc, e), ~Queued(e) PROVE Once'
  <2>1. /\ Len(readc') = Len(readc) + 1
        /\ \A i \in 1..Len(readc) : readc'[i] = readc[i] /\ readc[i] # e
        /\ readc'[Len(readc) + 1] = e
    BY <1>0, <1>b, AppendFacts DEF Queued
  <2>. QED
    BY <1>0, <2>1
<1>1. ASSUME NEW r \in Read, PushRead(r) PROVE QueueInv'
  <2>1. readc' = Append(readc, r) /\ UNCHANGED <<hpc, cur>> /\ phase[r] = "push"
    BY <1>1 DEF PushRead, GetStep, handlerVars
  <2>2. \A q : Queued(q)' <=> Queued(q) \/ q = r
    BY <1>0, <2>1, QueuedAppend
  <2>3. ~Queued(r) /\ ~InHand(r) /\ phase'[r] = "index"
    BY <1>0, <1>1, <2>1 DEF PushRead, TypeOK
  <2>4. Once'
    BY <1>b, <2>1, <2>3
  <2>5. Hand'
    BY <1>0, <2>1, <2>2, <2>3 DEF InHand, Queued
  <2>6. Fresh'
    BY <1>0, <1>a, <2>1, <2>2, <2>3 DEF InHand
  <2>. QED
    BY <2>4, <2>5, <2>6 DEF QueueInv
<1>2. CASE PopRead
  <2>1. readc' = Tail(readc) /\ Len(readc) > 0 /\ cur' = Head(readc) /\ hpc' = "look"
    BY <1>0, <1>2 DEF PopRead, ScanInv, TypeOK
  <2>2. /\ Len(readc') = Len(readc) - 1
        /\ \A i \in 1..Len(readc) - 1 : readc'[i] = readc[i + 1]
        /\ Head(readc) = readc[1]
    BY <1>0, <2>1, TailFacts
  <2>3. Once'
    BY <1>0, <2>2
  <2>4. ~\E i \in 1..Len(readc') : readc'[i] = cur'
    BY <1>0, <2>1, <2>2
  <2>5. Hand'
    BY <2>4 DEF Queued
  <2>6. \A q : Queued(q) <=> Queued(q)' \/ q = Head(readc)
    BY <1>0, <2>1, QueuedTail
  <2>7. Fresh'
    BY <1>0, <1>a, <2>1, <2>6 DEF InHand
  <2>. QED
    BY <2>3, <2>5, <2>7 DEF QueueInv
<1>3. CASE PutBack
  <2>1. readc' = Append(readc, cur) /\ cur \in Read /\ hpc = "back" /\ hpc' = "scan"
    BY <1>3 DEF PutBack, ScanInv
  <2>2. \A q : Queued(q)' <=> Queued(q) \/ q = cur
    BY <1>0, <2>1, QueuedAppend
  <2>3. ~Queued(cur) /\ phase[cur] \notin {"new", "push"}
    BY <1>0, <2>1 DEF InHand
  <2>4. Once'
    BY <1>b, <2>1, <2>3
  <2>5. Hand' /\ Fresh'
    BY <1>0, <1>a, <2>1, <2>2, <2>3 DEF InHand
  <2>. QED
    BY <2>4, <2>5 DEF QueueInv
<1>4. CASE UNCHANGED readc /\ (hpc' \notin {"look", "back"} \/ (hpc = "look" /\ cur' = cur))
  <2>1. \A q : Queued(q)' <=> Queued(q)
    BY <1>4 DEF Queued
  <2>2. Once'
    BY <1>0, <1>4
  <2>3. Hand' /\ Fresh'
    BY <1>0, <1>a, <1>4, <2>1 DEF InHand
  <2>. QED
    BY <2>2, <2>3 DEF QueueInv
<1>5. CASE UNCHANGED <<readc, hpc, cur, size>>
  <2>1. \A q : Queued(q)' <=> Queued(q)
    BY <1>5 DEF Queued
  <2>2. Once'
    BY <1>0, <1>5
  <2>3. Hand' /\ Fresh'
    BY <1>0, <1>a, <1>5, <2>1 DEF InHand
  <2>. QED
    BY <2>2, <2>3 DEF QueueInv
<1>6. CASE Wake \/ LookUp \/ ScanEnd \/ Serve \/ NilRead
  BY <1>4, <1>6 DEF Wake, LookUp, ScanEnd, Serve, NilRead
<1>. QED
  BY <1>1, <1>2, <1>3, <1>5, <1>6, QueueFrame DEF HandleReadState

-----------------------------------------------------------------------------
(* The ReadStates *)

\* raft adds a ReadState to those it has.
LEMMA StatesAppend ==
    ASSUME NEW S, NEW ss \in Seq(S), NEW e \in S
    PROVE  /\ \A r : HasState(Append(ss, e), r) <=> HasState(ss, r) \/ r = e.ctx
           /\ OncePerRead(ss) /\ ~HasState(ss, e.ctx) => OncePerRead(Append(ss, e))
<1>. DEFINE new == Append(ss, e)
<1>1. /\ Len(new) = Len(ss) + 1 /\ Len(ss) \in Nat
      /\ \A i \in 1..Len(ss) : new[i] = ss[i]
      /\ new[Len(ss) + 1] = e
  BY AppendFacts
<1>. HIDE DEF new
<1>2. 1..Len(new) = 1..Len(ss) \cup {Len(ss) + 1}
  BY <1>1
<1>3. \A r : HasState(new, r) <=> HasState(ss, r) \/ r = e.ctx
  BY <1>1, <1>2 DEF HasState
<1>4. ASSUME OncePerRead(ss), ~HasState(ss, e.ctx) PROVE OncePerRead(new)
  BY <1>1, <1>2, <1>4 DEF HasState, OncePerRead
<1>. QED
  BY <1>3, <1>4 DEF new

\* handleReady goes on to the next ReadState.
LEMMA StatesTail ==
    ASSUME NEW S, NEW ss \in Seq(S), Len(ss) > 0, OncePerRead(ss)
    PROVE  /\ OncePerRead(Tail(ss))
           /\ HasState(ss, Head(ss).ctx)
           /\ \A r : HasState(Tail(ss), r) <=> HasState(ss, r) /\ r # Head(ss).ctx
<1>. DEFINE new == Tail(ss)
<1>1. /\ Len(new) = Len(ss) - 1 /\ Len(ss) \in Nat
      /\ \A i \in 1..Len(ss) - 1 : new[i] = ss[i + 1]
      /\ Head(ss) = ss[1]
  BY TailFacts
<1>. HIDE DEF new
<1>2. OncePerRead(new)
  BY <1>1 DEF OncePerRead
<1>3. HasState(ss, Head(ss).ctx)
  BY <1>1 DEF HasState
<1>4. ASSUME NEW r, HasState(new, r) PROVE HasState(ss, r) /\ r # Head(ss).ctx
  <2>1. PICK i \in 1..Len(new) : new[i].ctx = r
    BY <1>4 DEF HasState
  <2>2. i + 1 \in 1..Len(ss) /\ ss[i + 1].ctx = r /\ i + 1 # 1
    BY <1>1, <2>1
  <2>. QED
    BY <1>1, <2>2 DEF HasState, OncePerRead
<1>5. ASSUME NEW r, HasState(ss, r), r # Head(ss).ctx PROVE HasState(new, r)
  <2>1. PICK i \in 1..Len(ss) : ss[i].ctx = r
    BY <1>5 DEF HasState
  <2>2. i - 1 \in 1..Len(new) /\ new[i - 1].ctx = r
    BY <1>1, <1>5, <2>1
  <2>. QED
    BY <2>2 DEF HasState
<1>. QED
  BY <1>2, <1>3, <1>4, <1>5 DEF new

\* The steps that create, move or delete a ReadState or a request for one.
StateStep ==
    \/ \E r \in Read : \/ LoseReadIndex(r) \/ ReadIndex(r)
                       \/ \E i \in Index : RecvReadIndex(r, i)
    \/ TakeReady \/ FillTable \/ Advance \/ Serve

\* All other steps leave the ReadStates alone.
LEMMA StateFrame ==
    ASSUME [Next]_vars, ~StateStep
    PROVE  UNCHANGED <<states, rd, asked, table>>
<1>. USE DEF StateStep
<1>1. CASE RaftNext /\ RaftStep
  BY <1>1 DEF RaftNext, RaftStep, Commit, RecvCommit, RecvSnapshot, tickVars, tableVars
<1>2. ASSUME NEW r \in Read, GetNext(r), GetStep(r) PROVE UNCHANGED <<states, rd, asked, table>>
  BY <1>2 DEF GetNext, GetStep, GetStart, PushRead, GetReturn, GetTimeout, tickVars, tableVars
<1>3. CASE HandleReady /\ TickStep
  BY <1>3 DEF HandleReady, TickStep, SnapIndex, SnapData, Signal, NoSignal, ApplyIndex,
              ApplyKV, tableVars
<1>4. CASE HandleReadState /\ HandlerStep
  BY <1>4 DEF HandleReadState, HandlerStep, Wake, PopRead, LookUp, PutBack, ScanEnd, NilRead,
              raftVars, tickVars, tableVars
<1>5. ASSUME NEW s \in serving, ReadApplied(s) PROVE UNCHANGED <<states, rd, asked, table>>
  BY <1>5 DEF ReadApplied, raftVars, tickVars, tableVars
<1>6. CASE UNCHANGED vars
  BY <1>6 DEF vars, raftVars, tickVars, tableVars
<1>. QED
  BY <1>1, <1>2, <1>3, <1>4, <1>5, <1>6, Steps

\* No step gives a read a second ReadState, or one that was not asked for.
LEMMA StateNext ==
    ASSUME TypeOK, StateInv, [Next]_vars
    PROVE  StateInv'
<1>. DEFINE Asked == \A r \in asked : Requested(r) /\ table[r] = 0
            Raft == \A r \in Read : HasState(states, r) =>
                      Requested(r) /\ r \notin asked /\ table[r] = 0 /\ ~HasState(rd.states, r)
            Ready == \A r \in Read : HasState(rd.states, r) =>
                      Requested(r) /\ r \notin asked /\ table[r] = 0
            Tab == \A r \in Read : table[r] # 0 => Requested(r)
<1>0. /\ OncePerRead(states) /\ OncePerRead(rd.states)
      /\ Asked /\ Raft /\ Ready /\ Tab
      /\ states \in Seq(ReadState) /\ rd.states \in Seq(ReadState) /\ asked \subseteq Read
      /\ table \in [Read -> Index]
  BY DEF StateInv, TypeOK
<1>a. \A r \in Read : Requested(r) => Requested(r)'
  BY PhaseForward
<1>b. ASSUME (OncePerRead(states) /\ OncePerRead(rd.states))', (Asked /\ Raft /\ Ready /\ Tab)'
      PROVE  StateInv'
  BY <1>b DEF StateInv
<1>c. \A r : ~HasState(<<>>, r)
  BY DEF HasState
<1>1. ASSUME NEW r \in Read, NEW i \in Index, RecvReadIndex(r, i) PROVE StateInv'
  <2>. DEFINE e == [ctx |-> r, index |-> i]
  <2>1. /\ r \in asked /\ asked' = asked \ {r} /\ states' = Append(states, e)
        /\ UNCHANGED <<rd, table>>
    BY <1>1 DEF RecvReadIndex, RaftStep, tickVars, tableVars
  <2>2. e \in ReadState /\ e.ctx = r
    BY DEF ReadState
  <2>3. ~HasState(states, r) /\ ~HasState(rd.states, r) /\ Requested(r) /\ table[r] = 0
    BY <1>0, <2>1
  <2>. HIDE DEF e
  <2>4. OncePerRead(states') /\ \A q : HasState(states', q) <=> HasState(states, q) \/ q = r
    BY <1>0, <2>1, <2>2, <2>3, StatesAppend
  <2>. QED
    BY <1>0, <1>a, <1>b, <2>1, <2>3, <2>4
<1>2. ASSUME NEW r \in Read, LoseReadIndex(r) PROVE StateInv'
  <2>1. asked' = asked \ {r} /\ UNCHANGED <<states, rd, table>>
    BY <1>2 DEF LoseReadIndex, RaftStep, tickVars, tableVars
  <2>. QED
    BY <1>0, <1>a, <1>b, <2>1
<1>3. ASSUME NEW r \in Read, ReadIndex(r) PROVE StateInv'
  <2>1. asked' = asked \cup {r} /\ UNCHANGED <<states, rd, table>> /\ ~Requested(r)
    BY <1>3 DEF ReadIndex, GetStep, tickVars, tableVars, Requested
  <2>2. Requested(r)'
    BY <1>3 DEF ReadIndex, Requested, TypeOK
  <2>3. table[r] = 0 /\ ~HasState(states, r) /\ ~HasState(rd.states, r)
    BY <1>0, <2>1
  <2>. QED
    BY <1>0, <1>a, <1>b, <2>1, <2>2, <2>3
<1>4. CASE TakeReady
  <2>1. states' = <<>> /\ rd'.states = states /\ UNCHANGED <<asked, table>>
    BY <1>4 DEF TakeReady, TickStep
  <2>2. OncePerRead(<<>>)
    BY DEF OncePerRead
  <2>. QED
    BY <1>0, <1>a, <1>b, <1>c, <2>1, <2>2
<1>5. CASE FillTable
  <2>. DEFINE h == Head(rd.states)
  <2>1. /\ Len(rd.states) > 0 /\ rd'.states = Tail(rd.states)
        /\ table' = [table EXCEPT ![h.ctx] = h.index]
        /\ UNCHANGED <<states, asked>>
    <3>1. rd.states # <<>> /\ rd' = [rd EXCEPT !.states = Tail(rd.states)]
      BY <1>5 DEF FillTable
    <3>2. Len(rd.states) > 0
      BY <1>0, <3>1, EmptyFacts
    <3>3. rd'.states = Tail(rd.states)
      BY <3>1 DEF TypeOK
    <3>. QED
      BY <1>5, <3>2, <3>3 DEF FillTable, TickStep
  <2>2. h \in ReadState
    BY <1>0, <2>1, TailFacts
  <2>3. PICK c \in Read : c = h.ctx /\ \A q \in Read : q # c => table'[q] = table[q]
    BY <1>0, <2>1, <2>2 DEF ReadState
  <2>4. /\ OncePerRead(rd'.states)
        /\ HasState(rd.states, c)
        /\ \A r : HasState(rd'.states, r) <=> HasState(rd.states, r) /\ r # c
    BY <1>0, <2>1, <2>3, StatesTail
  <2>5. Requested(c)' /\ c \notin asked /\ ~HasState(states, c)
    BY <1>0, <1>a, <2>3, <2>4
  <2>. HIDE DEF h
  <2>6. Asked'
    BY <1>0, <1>a, <2>1, <2>3, <2>5
  <2>7. Raft' /\ Ready' /\ Tab'
    BY <1>0, <1>a, <2>1, <2>3, <2>4, <2>5
  <2>. QED
    BY <1>0, <1>b, <2>1, <2>4, <2>6, <2>7
<1>6. CASE Advance
  <2>1. rd'.states = <<>> /\ UNCHANGED <<states, asked, table>>
    BY <1>6 DEF Advance, NoReady, TickStep, tableVars
  <2>2. OncePerRead(<<>>)
    BY DEF OncePerRead
  <2>. QED
    BY <1>0, <1>a, <1>b, <1>c, <2>1, <2>2
<1>7. CASE Serve
  <2>1. /\ cur \in Read
        /\ table' = [table EXCEPT ![cur] = 0]
        /\ UNCHANGED <<states, asked, rd>>
    BY <1>7 DEF Serve, HandlerStep, raftVars, tickVars, TypeOK
  <2>2. \A r \in Read : table'[r] \in {0, table[r]}
    BY <1>0, <2>1
  <2>. QED
    BY <1>0, <1>a, <1>b, <2>1, <2>2
<1>8. CASE UNCHANGED <<states, rd, asked, table>>
  BY <1>0, <1>a, <1>b, <1>8
<1>. QED
  BY <1>1, <1>2, <1>3, <1>4, <1>5, <1>6, <1>7, <1>8, StateFrame DEF StateStep

\* The commit index never falls, and what a read needs is fixed by its request.
LEMMA NeedFrame ==
    ASSUME TypeOK, [Next]_vars
    PROVE  /\ commit' \in Nat /\ commit' >= commit
           /\ \A r \in Read : need'[r] = need[r] \/ (ReadIndex(r) /\ need'[r] = commit)
           /\ \A r \in Read : Requested(r) => need'[r] = need[r]
<1>0. commit \in Nat
  BY ReadAssumption DEF TypeOK, Index
<1>1. CASE RaftNext /\ RaftStep
  <2>1. commit' \in {commit, commit + 1}
    BY <1>1 DEF RaftNext, Commit, RecvCommit, RecvSnapshot, RecvReadIndex, LoseReadIndex
  <2>2. need' = need
    BY <1>1 DEF RaftStep, ghostVars
  <2>. QED
    BY <1>0, <2>1, <2>2
<1>2. ASSUME NEW r \in Read, GetNext(r), GetStep(r), ~ReadIndex(r) PROVE UNCHANGED <<commit, need>>
  BY <1>2 DEF GetNext, GetStep, GetStart, PushRead, GetReturn, GetTimeout
<1>3. ASSUME NEW r \in Read, ReadIndex(r)
      PROVE  /\ commit' = commit
             /\ need'[r] = commit /\ ~Requested(r)
             /\ \A q \in Read : q # r => need'[q] = need[q]
  BY <1>3 DEF ReadIndex, GetStep, Requested, TypeOK
<1>4. CASE TickStep \/ HandlerStep
  BY <1>0, <1>4 DEF TickStep, HandlerStep, raftVars, ghostVars
<1>5. ASSUME NEW s \in serving, ReadApplied(s) PROVE UNCHANGED <<commit, need>>
  BY <1>5 DEF ReadApplied, raftVars
<1>6. CASE UNCHANGED vars
  BY <1>0, <1>6 DEF vars, raftVars, ghostVars
<1>7. CASE UNCHANGED <<commit, need>>
  BY <1>0, <1>7
<1>. QED
  BY <1>0, <1>1, <1>2, <1>3, <1>4, <1>5, <1>6, <1>7, Steps

\* Every ReadState, on its way or in the table, has an index that covers what was
\* committed when its read was requested.
LEMMA IndexNext ==
    ASSUME TypeOK, StateInv, IndexInv, [Next]_vars
    PROVE  IndexInv'
<1>. DEFINE Covers(ss) == \A i \in 1..Len(ss) : ss[i].index >= need[ss[i].ctx]
            Tab == \A r \in Read : table[r] # 0 => table[r] >= need[r]
<1>0. /\ commit \in Nat /\ commit >= 1 /\ need \in [Read -> Nat]
      /\ states \in Seq(ReadState) /\ rd.states \in Seq(ReadState)
      /\ table \in [Read -> Nat]
      /\ Covers(states) /\ Covers(rd.states) /\ Tab
      /\ \A e \in ReadState : e.ctx \in Read /\ e.index \in Nat
  BY ReadAssumption DEF TypeOK, IndexInv, ReadState, Index
<1>1. commit' >= 1
  BY <1>0, NeedFrame
<1>2. \A r \in Read : Requested(r) => need'[r] = need[r]
  BY NeedFrame
<1>3. \A r \in Read : Requested(r)' => need'[r] >= 1
  <2>. SUFFICES ASSUME NEW r \in Read, Requested(r)' PROVE need'[r] >= 1
    OBVIOUS
  <2>1. CASE Requested(r)
    BY <1>2, <2>1 DEF IndexInv
  <2>2. CASE ReadIndex(r)
    BY <1>0, <2>2 DEF ReadIndex
  <2>3. CASE ~Requested(r) /\ ~ReadIndex(r)
    BY <2>3, PhaseForward DEF Requested, GetReturn, GetTimeout
  <2>. QED
    BY <2>1, <2>2, <2>3
<1>4. ASSUME NEW ss, ss \in Seq(ReadState), Covers(ss),
             \A r \in Read : HasState(ss, r) => Requested(r)
      PROVE  \A i \in 1..Len(ss) : ss[i].index >= need'[ss[i].ctx]
  <2>. SUFFICES ASSUME NEW i \in 1..Len(ss) PROVE ss[i].index >= need'[ss[i].ctx]
    OBVIOUS
  <2>1. ss[i] \in ReadState
    BY <1>4
  <2>2. ss[i].ctx \in Read /\ HasState(ss, ss[i].ctx)
    BY <1>0, <2>1 DEF HasState
  <2>. QED
    BY <1>2, <1>4, <2>2
<1>5. Covers(states)'
  <2>1. \A i \in 1..Len(states) : states[i].index >= need'[states[i].ctx]
    BY <1>0, <1>4 DEF StateInv
  <2>2. ASSUME NEW r \in Read, NEW i \in Index, RecvReadIndex(r, i) PROVE Covers(states)'
    <3>. DEFINE e == [ctx |-> r, index |-> i]
    <3>1. states' = Append(states, e) /\ i >= need[r] /\ need' = need
      BY <2>2 DEF RecvReadIndex, RaftStep, ghostVars
    <3>2. e \in ReadState /\ e.ctx = r /\ e.index = i
      BY DEF ReadState
    <3>. HIDE DEF e
    <3>3. /\ Len(states') = Len(states) + 1
          /\ \A j \in 1..Len(states) : states'[j] = states[j]
          /\ states'[Len(states) + 1] = e
      BY <1>0, <3>1, <3>2, AppendFacts
    <3>. QED
      BY <1>0, <3>1, <3>2, <3>3
  <2>3. CASE states' = <<>>
    BY <2>3
  <2>4. CASE states' = states
    BY <2>1, <2>4
  <2>. QED
    BY <2>2, <2>3, <2>4, StateFrame
       DEF StateStep, LoseReadIndex, ReadIndex, GetStep, TakeReady, FillTable, Advance, Serve,
           HandlerStep, raftVars
<1>6. Covers(rd.states)'
  <2>1. /\ \A i \in 1..Len(states) : states[i].index >= need'[states[i].ctx]
        /\ \A i \in 1..Len(rd.states) : rd.states[i].index >= need'[rd.states[i].ctx]
    BY <1>0, <1>4 DEF StateInv
  <2>2. CASE TakeReady
    BY <2>1, <2>2 DEF TakeReady
  <2>3. CASE FillTable
    <3>1. rd' = [rd EXCEPT !.states = Tail(rd.states)] /\ rd.states # <<>>
      BY <2>3 DEF FillTable
    <3>2. rd'.states = Tail(rd.states) /\ Len(rd.states) > 0
      BY <1>0, <3>1, EmptyFacts DEF TypeOK
    <3>3. /\ Len(rd'.states) = Len(rd.states) - 1
          /\ \A i \in 1..Len(rd.states) - 1 : rd'.states[i] = rd.states[i + 1]
      BY <1>0, <3>2, TailFacts
    <3>4. ASSUME NEW i \in 1..Len(rd'.states)
          PROVE  rd'.states[i].index >= need'[rd'.states[i].ctx]
      <4>1. i + 1 \in 1..Len(rd.states) /\ rd'.states[i] = rd.states[i + 1]
        BY <1>0, <3>3
      <4>. QED
        BY <2>1, <4>1
    <3>. QED
      BY <3>4
  <2>4. CASE Advance
    BY <2>4 DEF Advance, NoReady
  <2>5. CASE rd' = rd
    BY <2>1, <2>5
  <2>. QED
    BY <2>2, <2>3, <2>4, <2>5, StateFrame
       DEF StateStep, LoseReadIndex, RecvReadIndex, RaftStep, ReadIndex, GetStep, Serve,
           HandlerStep, tickVars
<1>7. Tab'
  <2>1. \A r \in Read : table[r] # 0 => table[r] >= need'[r]
    BY <1>0, <1>2 DEF StateInv
  <2>2. CASE FillTable
    <3>1. /\ rd.states # <<>> /\ need' = need
          /\ table' = [table EXCEPT ![Head(rd.states).ctx] = Head(rd.states).index]
      BY <2>2 DEF FillTable, TickStep, ghostVars
    <3>2. Head(rd.states) = rd.states[1] /\ Head(rd.states) \in ReadState /\ Len(rd.states) > 0
      BY <1>0, <3>1, TailFacts, EmptyFacts
    <3>3. Head(rd.states).index >= need[Head(rd.states).ctx]
      BY <1>0, <3>2
    <3>. QED
      BY <1>0, <3>1, <3>2, <3>3
  <2>3. CASE Serve
    BY <1>0, <2>1, <2>3 DEF Serve
  <2>4. CASE table' = table
    BY <2>1, <2>4
  <2>. QED
    BY <2>2, <2>3, <2>4, StateFrame
       DEF StateStep, LoseReadIndex, RecvReadIndex, RaftStep, ReadIndex, GetStep, TakeReady,
           Advance, tableVars
<1>. QED
  BY <1>1, <1>3, <1>5, <1>6, <1>7 DEF IndexInv

-----------------------------------------------------------------------------
(* The engine and the answers *)

\* onTick always writes the data next when it has raised the applied index.
LEMMA EngineNext ==
    ASSUME EngineInv, [Next]_vars
    PROVE  EngineInv'
<1>. USE DEF EngineInv
<1>1. CASE TakeReady
  BY <1>1 DEF TakeReady
<1>2. CASE SnapIndex
  BY <1>2 DEF SnapIndex
<1>3. CASE SnapData
  BY <1>3 DEF SnapData
<1>4. CASE FillTable
  BY <1>4 DEF FillTable
<1>5. CASE Signal \/ NoSignal
  BY <1>5 DEF Signal, NoSignal
<1>6. CASE ApplyIndex
  BY <1>6 DEF ApplyIndex
<1>7. CASE ApplyKV
  BY <1>7 DEF ApplyKV
<1>8. CASE Advance
  BY <1>8 DEF Advance
<1>9. CASE UNCHANGED tickVars
  BY <1>9 DEF tickVars
<1>10. ASSUME NEW s \in serving, ReadApplied(s) PROVE UNCHANGED tickVars
  BY <1>10 DEF ReadApplied
<1>. QED
  BY <1>1, <1>2, <1>3, <1>4, <1>5, <1>6, <1>7, <1>8, <1>9, <1>10, Steps
     DEF HandleReady, RaftStep, GetStep, HandlerStep, vars

\* A Get's answer is as new as its request, unless it read between the two
\* writes of onTick or without a ReadState.
LEMMA AnswerNext ==
    ASSUME TypeOK, StateInv, IndexInv, EngineInv, AnswerInv, [Next]_vars
    PROVE  AnswerInv'
<1>. DEFINE Runs == \A s \in serving :
                      s.read \in blind \/ (Requested(s.read) /\ s.index >= need[s.read])
            Answer(r) == /\ done[r] /\ phase[r] # "lost" => Requested(r)
                         /\ done[r] /\ phase[r] = "wait" => resp[r] \in Nat /\ resp[r] >= need[r]
                         /\ phase[r] = "done" => resp[r] \in Nat /\ resp[r] >= need[r]
            Right == \A r \in Read : r \notin torn \cup blind => Answer(r)
<1>0. Runs /\ Right /\ \A s \in serving : s.read \in Read
  BY DEF AnswerInv, TypeOK, Serving
<1>1. \A r \in Read : Requested(r) => need'[r] = need[r]
  BY NeedFrame
<1>2. \A r \in Read : Requested(r) => Requested(r)'
  BY PhaseForward
<1>3. ASSUME NEW s \in serving, ReadApplied(s) PROVE AnswerInv'
  <2>1. /\ serving' = serving \ {s} /\ blind' = blind /\ need' = need /\ phase' = phase
        /\ torn \subseteq torn'
        /\ applied >= s.index
        /\ s.read \in Read
        /\ pc \in {"snapData", "exec"} => s.read \in torn'
    BY <1>0, <1>3 DEF ReadApplied, WaitApplied
  <2>2. \A r \in Read : r # s.read => done'[r] = done[r] /\ resp'[r] = resp[r]
    BY <1>3, <2>1 DEF ReadApplied, TypeOK
  <2>3. Runs'
    BY <1>0, <2>1 DEF Requested
  <2>4. ASSUME NEW r \in Read, r \notin torn' \cup blind', r # s.read PROVE Answer(r)'
    BY <1>0, <2>1, <2>2, <2>4 DEF Requested
  <2>5. ASSUME s.read \notin torn' \cup blind'
        PROVE  Answer(s.read)'
    <3>1. kv = applied /\ Requested(s.read) /\ s.index >= need[s.read]
      BY <1>0, <2>1, <2>5 DEF EngineInv
    <3>2. kv \in Nat /\ kv >= need[s.read]
      BY <2>1, <3>1, ReadAssumption DEF TypeOK, Index, Serving
    <3>3. CASE phase[s.read] = "wait"
      <4>1. resp'[s.read] = kv
        BY <1>3, <2>1, <3>3 DEF ReadApplied, TypeOK
      <4>. QED
        BY <2>1, <3>2, <3>3, <4>1 DEF Requested
    <3>4. CASE phase[s.read] # "wait"
      <4>1. resp' = resp
        BY <1>3, <3>1, <3>4 DEF ReadApplied, Requested
      <4>. QED
        BY <1>0, <2>1, <2>5, <3>1, <3>4, <4>1 DEF Requested
    <3>. QED
      BY <3>3, <3>4
  <2>6. Right'
    BY <2>4, <2>5
  <2>. QED
    BY <2>3, <2>6 DEF AnswerInv
<1>4. CASE Serve
  <2>1. /\ cur \in Read
        /\ serving' = serving \cup {[read |-> cur, index |-> table[cur], n |-> served[cur]]}
        /\ blind \subseteq blind' /\ (table[cur] = 0 => cur \in blind')
        /\ UNCHANGED <<phase, resp, done, need, torn>>
    BY <1>4 DEF Serve, ServedIndex, HandlerStep, getVars, TypeOK
  <2>2. cur \in blind' \/ (Requested(cur) /\ table[cur] >= need[cur])
    BY <2>1 DEF StateInv, IndexInv
  <2>3. Runs'
    BY <1>0, <2>1, <2>2 DEF Requested
  <2>4. Right'
    BY <1>0, <2>1 DEF Requested
  <2>. QED
    BY <2>3, <2>4 DEF AnswerInv
<1>5. ASSUME NEW r \in Read, GetNext(r), GetStep(r) PROVE AnswerInv'
  <2>1. serving' = serving /\ blind' = blind /\ torn' = torn /\ resp' = resp
    BY <1>5 DEF GetStep, GetNext, GetStart, PushRead, ReadIndex, GetReturn, GetTimeout
  <2>2. /\ \A q \in Read : done'[q] = done[q] \/ (q = r /\ GetReturn(r))
        /\ \A q \in Read : q # r => phase'[q] = phase[q]
    BY <1>5 DEF GetNext, GetStart, PushRead, ReadIndex, GetReturn, GetTimeout, TypeOK
  <2>3. Runs'
    BY <1>0, <1>1, <1>2, <2>1
  <2>4. ASSUME NEW q \in Read, q \notin torn \cup blind, q # r PROVE Answer(q)'
    <3>1. need'[q] = need[q]
      BY <2>2, <2>4, NeedFrame DEF ReadIndex, TypeOK
    <3>. QED
      BY <1>0, <2>1, <2>2, <2>4, <3>1 DEF Requested, GetReturn
  <2>5. ASSUME r \notin torn \cup blind PROVE Answer(r)'
    <3>1. CASE GetReturn(r)
      BY <1>0, <1>1, <2>1, <2>5, <3>1 DEF GetReturn, Requested, TypeOK
    <3>2. CASE GetTimeout(r)
      BY <1>0, <2>1, <2>5, <3>2 DEF GetTimeout, Requested, TypeOK
    <3>3. CASE ReadIndex(r) \/ PushRead(r) \/ GetStart(r)
      <4>1. ~done[r] /\ ~done'[r] /\ phase'[r] # "done"
        BY <1>0, <2>2, <2>5, <3>3 DEF ReadIndex, PushRead, GetStart, GetReturn, Requested, TypeOK
      <4>. QED
        BY <4>1
    <3>. QED
      BY <1>5, <3>1, <3>2, <3>3 DEF GetNext
  <2>6. Right'
    BY <2>1, <2>4, <2>5
  <2>. QED
    BY <2>3, <2>6 DEF AnswerInv
<1>6. CASE UNCHANGED <<serving, blind, torn, resp, done, phase, need>>
  BY <1>6 DEF AnswerInv, Requested
<1>7. CASE RaftStep \/ TickStep
  BY <1>6, <1>7 DEF RaftStep, TickStep, getVars, ghostVars
<1>8. CASE HandleReadState /\ HandlerStep /\ ~Serve
  BY <1>6, <1>8 DEF HandlerStep, HandleReadState, Wake, PopRead, LookUp, PutBack, ScanEnd,
                    NilRead, getVars
<1>9. CASE UNCHANGED vars
  BY <1>6, <1>9 DEF vars, getVars, ghostVars
<1>. QED
  BY <1>3, <1>4, <1>5, <1>7, <1>8, <1>9, Steps

-----------------------------------------------------------------------------
(* Reads, ReadStates and signals, while no read was dropped *)

\* Only a read that waits to be sent becomes one that was sent.
LEMMA PhaseSent ==
    ASSUME TypeOK, [Next]_vars, NEW r \in Read, phase'[r] \notin {"new", "push"}
    PROVE  phase[r] \notin {"new", "push"} \/ PushRead(r)
<1>1. phase'[r] \in {"index", "wait", "done", "lost"}
  <2>1. CASE phase' = phase
    BY <2>1 DEF TypeOK
  <2>2. ASSUME NEW q \in Read, GetNext(q) PROVE phase'[r] \in {"index", "wait", "done", "lost"}
    <3>1. \E x \in {"push", "index", "wait", "done", "lost"} : phase' = [phase EXCEPT ![q] = x]
      BY <2>2 DEF GetNext, GetStart, PushRead, ReadIndex, GetReturn, GetTimeout
    <3>. QED
      BY <3>1 DEF TypeOK
  <2>. QED
    BY <2>1, <2>2, PhaseFrame
<1>. QED
  BY <1>1, PhaseForward DEF ReadIndex, GetReturn, GetTimeout

\* Once a read has been dropped, that stays so; only handleReadState serves.
LEMMA ServedFrame ==
    ASSUME TypeOK, [Next]_vars
    PROVE  /\ ~expired' => ~expired
           /\ ~Serve => UNCHANGED <<served, blind>>
<1>1. CASE RaftStep \/ TickStep
  BY <1>1 DEF RaftStep, TickStep, ghostVars
<1>2. ASSUME NEW r \in Read, GetStep(r) PROVE UNCHANGED <<expired, served, blind>>
  BY <1>2 DEF GetStep
<1>3. CASE HandleReadState
  BY <1>3 DEF HandleReadState, Wake, PopRead, LookUp, PutBack, ScanEnd, Serve, NilRead
<1>4. ASSUME NEW s \in serving, ReadApplied(s) PROVE UNCHANGED <<expired, served, blind>>
  BY <1>4 DEF ReadApplied
<1>5. CASE UNCHANGED vars
  BY <1>5 DEF vars, ghostVars
<1>. QED
  BY <1>1, <1>2, <1>3, <1>4, <1>5, Steps

\* handleReadState neither ends a scan without a read to serve nor finds no
\* read at all.
LEMMA FindsOne ==
    ASSUME TypeOK, Finds
    PROVE  ~ScanEnd /\ ~NilRead
<1>1. ~ScanEnd
  BY DEF ScanEnd, Finds, Ahead
<1>2. ~NilRead
  BY ReadAssumption DEF NilRead, Finds
<1>. QED
  BY <1>1, <1>2

\* A read that is served has its state, and was not served before.
LEMMA ServesFresh ==
    ASSUME TypeOK, ServedOnce, Finds, Serve
    PROVE  /\ cur \in Read /\ table[cur] # 0 /\ served[cur] = 0
           /\ served' = [served EXCEPT ![cur] = 1]
           /\ blind' = blind
           /\ table' = [table EXCEPT ![cur] = 0]
           /\ hpc = "serve" /\ hpc' = "wait"
           /\ UNCHANGED <<states, rd, asked, phase, readc, coming, pc>>
<1>1. cur \in Read /\ table[cur] # 0 /\ hpc = "serve"
  BY DEF Serve, Finds
<1>2. served[cur] = 0
  BY <1>1 DEF ServedOnce, Held, TypeOK
<1>. QED
  BY <1>1, <1>2 DEF Serve, HandlerStep, raftVars, tickVars, getVars

\* The places of a read, step by step.
LEMMA PlacedNext ==
    ASSUME TypeOK, ScanInv, QueueInv, Placed, ServedOnce, Finds, ~expired', [Next]_vars
    PROVE  Placed'
<1>. SUFFICES ASSUME NEW r \in Read, phase'[r] \notin {"new", "push"}
              PROVE  served'[r] = 1 \/ Queued(r)' \/ Held(r)'
  BY DEF Placed
<1>0. readc \in Seq(Read) /\ Len(readc) \in Nat /\ size \in Nat
  BY DEF TypeOK
<1>1. ASSUME NEW q \in Read, PushRead(q) PROVE served'[r] = 1 \/ Queued(r)' \/ Held(r)'
  <2>1. readc' = Append(readc, q) /\ UNCHANGED <<hpc, cur, served>>
    BY <1>1 DEF PushRead, GetStep, handlerVars
  <2>2. Queued(r)' <=> Queued(r) \/ r = q
    BY <1>0, <2>1, QueuedAppend
  <2>3. r = q \/ phase[r] \notin {"new", "push"}
    BY <1>1 DEF PushRead, TypeOK
  <2>. QED
    BY <2>1, <2>2, <2>3 DEF Placed, Held
<1>2. ASSUME \A q \in Read : ~PushRead(q) PROVE served[r] = 1 \/ Queued(r) \/ Held(r)
  BY <1>2, PhaseSent DEF Placed
<1>3. CASE Wake
  BY <1>2, <1>3 DEF Wake, HandlerStep, getVars, PushRead, Held, Queued, TypeOK
<1>4. CASE PopRead
  <2>1. readc' = Tail(readc) /\ cur' = Head(readc) /\ hpc' = "look" /\ Len(readc) > 0
    BY <1>0, <1>4 DEF PopRead, ScanInv
  <2>2. Queued(r) <=> Queued(r)' \/ r = Head(readc)
    BY <1>0, <2>1, QueuedTail
  <2>3. hpc = "scan" /\ served' = served /\ phase' = phase
    BY <1>4 DEF PopRead, HandlerStep, getVars
  <2>. QED
    BY <2>1, <2>2, <2>3 DEF Held, Placed
<1>5. CASE LookUp
  <2>1. /\ hpc' \in {"serve", "back"} /\ hpc = "look"
        /\ UNCHANGED <<readc, cur, served, phase>>
    BY <1>5 DEF LookUp, HandlerStep, getVars
  <2>. QED
    BY <2>1 DEF Placed, Held, Queued
<1>6. CASE PutBack
  <2>1. /\ cur \in Read /\ readc' = Append(readc, cur) /\ hpc = "back"
        /\ UNCHANGED <<served, phase>>
    BY <1>6 DEF PutBack, HandlerStep, getVars, ScanInv
  <2>2. Queued(r)' <=> Queued(r) \/ r = cur
    BY <1>0, <2>1, QueuedAppend
  <2>. QED
    BY <2>1, <2>2 DEF Placed, Held
<1>7. CASE Serve
  <2>1. /\ cur \in Read /\ served' = [served EXCEPT ![cur] = 1]
        /\ hpc = "serve" /\ UNCHANGED <<phase, readc>>
    BY <1>7, ServesFresh
  <2>. QED
    BY <2>1 DEF Placed, Held, Queued, TypeOK
<1>8. CASE UNCHANGED <<readc, hpc, cur, size>> /\ ~Serve
  <2>1. served' = served
    BY <1>8, ServedFrame
  <2>2. \A q \in Read : ~PushRead(q)
    BY <1>0, <1>8, AppendFacts DEF PushRead
  <2>. QED
    BY <1>2, <1>8, <2>1, <2>2 DEF Held, Queued
<1>. QED
  BY <1>1, <1>3, <1>4, <1>5, <1>6, <1>7, <1>8, QueueFrame, FindsOne DEF HandleReadState

\* What is left of a read that was served, step by step.
LEMMA ServedOnceNext ==
    ASSUME TypeOK, ScanInv, QueueInv, StateInv, Placed, ServedOnce, Finds, ~expired',
           [Next]_vars
    PROVE  ServedOnce'
<1>. DEFINE Left(r) == Queued(r) \/ Held(r)
            State(r) == table[r] # 0 \/ r \in asked \/ HasState(states, r)
                          \/ HasState(rd.states, r)
<1>0. readc \in Seq(Read) /\ size \in Nat /\ states \in Seq(ReadState)
      /\ rd.states \in Seq(ReadState) /\ table \in [Read -> Index]
  BY DEF TypeOK
<1>1. CASE Serve
  <2>1. /\ cur \in Read /\ table[cur] # 0 /\ served[cur] = 0
        /\ served' = [served EXCEPT ![cur] = 1]
        /\ table' = [table EXCEPT ![cur] = 0]
        /\ hpc = "serve" /\ hpc' = "wait"
        /\ UNCHANGED <<states, rd, asked, phase, readc>>
    BY <1>1, ServesFresh
  <2>2. Requested(cur) /\ ~Queued(cur) /\ cur \notin asked
    BY <2>1 DEF StateInv, Finds
  <2>3. ~HasState(states, cur) /\ ~HasState(rd.states, cur)
    BY <2>1 DEF StateInv
  <2>4. ASSUME NEW r \in Read PROVE /\ served'[r] <= 1
                                    /\ served'[r] = 1 => served[r] = 1 \/ r = cur
                                    /\ table[r] = 0 => table'[r] = 0
                                    /\ table'[cur] = 0
    BY <1>0, <2>1 DEF ServedOnce, TypeOK
  <2>5. \A r : ~Held(r)' /\ (Queued(r)' <=> Queued(r)) /\ (Requested(r)' <=> Requested(r))
    BY <2>1 DEF Held, Queued, Requested
  <2>. QED
    BY <2>1, <2>2, <2>3, <2>4, <2>5 DEF ServedOnce
<1>. SUFFICES ASSUME ~Serve, NEW r \in Read, served[r] = 1
              PROVE  ~Left(r)' /\ ~State(r)'
  <2>1. ~Serve => served' = served
    BY ServedFrame
  <2>2. \A r \in Read : Requested(r) => Requested(r)'
    BY PhaseForward
  <2>. QED
    BY <1>1, <2>1, <2>2 DEF ServedOnce
<1>2. Requested(r) /\ ~Left(r) /\ ~State(r)
  BY DEF ServedOnce
<1>3. ~Left(r)'
  <2>1. ASSUME NEW q \in Read, PushRead(q) PROVE ~Left(r)'
    <3>1. readc' = Append(readc, q) /\ UNCHANGED <<hpc, cur>> /\ q # r
      BY <1>2, <2>1 DEF PushRead, GetStep, handlerVars, Requested
    <3>2. Queued(r)' <=> Queued(r) \/ r = q
      BY <1>0, <3>1, QueuedAppend
    <3>. QED
      BY <1>2, <3>1, <3>2 DEF Held
  <2>2. CASE PopRead
    <3>1. readc' = Tail(readc) /\ Len(readc) > 0 /\ cur' = Head(readc)
      BY <1>0, <2>2 DEF PopRead, ScanInv
    <3>2. Queued(r) <=> Queued(r)' \/ r = Head(readc)
      BY <1>0, <3>1, QueuedTail
    <3>. QED
      BY <1>2, <3>1, <3>2 DEF Held
  <2>3. CASE PutBack
    <3>1. readc' = Append(readc, cur) /\ cur \in Read /\ hpc = "back" /\ hpc' = "scan"
      BY <2>3 DEF PutBack, ScanInv
    <3>2. Queued(r)' <=> Queued(r) \/ r = cur
      BY <1>0, <3>1, QueuedAppend
    <3>. QED
      BY <1>2, <3>1, <3>2 DEF Held
  <2>4. CASE Wake
    BY <1>2, <2>4 DEF Wake, Held, Queued
  <2>5. CASE LookUp
    BY <1>2, <2>5 DEF LookUp, Held, Queued
  <2>6. CASE UNCHANGED <<readc, hpc, cur, size>>
    BY <1>2, <2>6 DEF Held, Queued
  <2>. QED
    BY <2>1, <2>2, <2>3, <2>4, <2>5, <2>6, QueueFrame, FindsOne DEF HandleReadState
<1>4. ~State(r)'
  <2>1. ASSUME NEW q \in Read, NEW i \in Index, RecvReadIndex(q, i) PROVE ~State(r)'
    <3>. DEFINE e == [ctx |-> q, index |-> i]
    <3>1. /\ q \in asked /\ asked' = asked \ {q} /\ states' = Append(states, e)
          /\ UNCHANGED <<rd, table>>
      BY <2>1 DEF RecvReadIndex, RaftStep, tickVars, tableVars
    <3>2. e \in ReadState /\ e.ctx = q
      BY DEF ReadState
    <3>. HIDE DEF e
    <3>3. HasState(states', r) <=> HasState(states, r) \/ r = q
      BY <1>0, <3>1, <3>2, StatesAppend
    <3>. QED
      BY <1>2, <3>1, <3>3
  <2>2. ASSUME NEW q \in Read, LoseReadIndex(q) PROVE ~State(r)'
    BY <1>2, <2>2 DEF LoseReadIndex, RaftStep, tickVars, tableVars
  <2>3. ASSUME NEW q \in Read, ReadIndex(q) PROVE ~State(r)'
    BY <1>2, <2>3 DEF ReadIndex, GetStep, tickVars, tableVars, Requested
  <2>4. CASE TakeReady
    <3>1. states' = <<>> /\ rd'.states = states /\ UNCHANGED <<asked, table>>
      BY <2>4 DEF TakeReady, TickStep
    <3>2. ~HasState(<<>>, r)
      BY DEF HasState
    <3>. QED
      BY <1>2, <3>1, <3>2
  <2>5. CASE FillTable
    <3>1. /\ rd.states # <<>> /\ rd' = [rd EXCEPT !.states = Tail(rd.states)]
          /\ table' = [table EXCEPT ![Head(rd.states).ctx] = Head(rd.states).index]
          /\ UNCHANGED <<states, asked>>
      BY <2>5 DEF FillTable, TickStep
    <3>2. Len(rd.states) > 0 /\ rd'.states = Tail(rd.states)
      BY <1>0, <3>1, EmptyFacts DEF TypeOK
    <3>3. /\ HasState(rd.states, Head(rd.states).ctx)
          /\ HasState(rd'.states, r) => HasState(rd.states, r)
      BY <1>0, <3>2, StatesTail DEF StateInv
    <3>4. table'[r] = 0
      BY <1>0, <1>2, <3>1, <3>3
    <3>. QED
      BY <1>2, <3>1, <3>3, <3>4
  <2>6. CASE Advance
    <3>1. rd'.states = <<>> /\ UNCHANGED <<states, asked, table>>
      BY <2>6 DEF Advance, NoReady, TickStep, tableVars
    <3>2. ~HasState(<<>>, r)
      BY DEF HasState
    <3>. QED
      BY <1>2, <3>1, <3>2
  <2>7. CASE UNCHANGED <<states, rd, asked, table>>
    BY <1>2, <2>7
  <2>. QED
    BY <2>1, <2>2, <2>3, <2>4, <2>5, <2>6, <2>7, StateFrame DEF StateStep
<1>. QED
  BY <1>3, <1>4

\* onTick puts states only of reads that have none, and with an index.
LEMMA Fills ==
    ASSUME TypeOK, StateInv, IndexInv, FillTable
    PROVE  \E c \in Read : /\ table[c] = 0 /\ HasState(rd.states, c)
                           /\ \E i \in Index \ {0} : table' = [table EXCEPT ![c] = i]
<1>1. rd.states # <<>> /\ table' = [table EXCEPT ![Head(rd.states).ctx] = Head(rd.states).index]
  BY DEF FillTable
<1>2. rd.states \in Seq(ReadState) /\ Len(rd.states) > 0
  BY <1>1, EmptyFacts DEF TypeOK
<1>3. Head(rd.states) \in ReadState /\ Head(rd.states) = rd.states[1]
  BY <1>2, TailFacts
<1>4. PICK c \in Read, i \in Index : Head(rd.states).ctx = c /\ Head(rd.states).index = i
  BY <1>3 DEF ReadState
<1>5. HasState(rd.states, c)
  BY <1>2, <1>3, <1>4 DEF HasState
<1>6. Requested(c) /\ table[c] = 0
  BY <1>5 DEF StateInv
<1>7. i >= need[c] /\ need[c] >= 1
  BY <1>2, <1>3, <1>4, <1>6 DEF IndexInv
<1>8. i # 0
  BY <1>7, ReadAssumption DEF Index, TypeOK
<1>. QED
  BY <1>1, <1>4, <1>5, <1>6, <1>8

\* Only onTick and the serving of a read change the table.
LEMMA TableFrame ==
    ASSUME [Next]_vars, ~FillTable, ~Serve
    PROVE  table' = table
BY StateFrame
   DEF StateStep, LoseReadIndex, RecvReadIndex, RaftStep, ReadIndex, GetStep, TakeReady,
       Advance, tableVars

\* A state that is there stays, unless it is served.
LEMMA TableGrows ==
    ASSUME TypeOK, StateInv, IndexInv, [Next]_vars, ~Serve, NEW r \in Read, table[r] # 0
    PROVE  table'[r] # 0
<1>1. CASE FillTable
  BY <1>1, Fills DEF TypeOK
<1>2. CASE ~FillTable
  BY <1>2, TableFrame
<1>. QED
  BY <1>1, <1>2

\* The scan finds a read to serve, step by step.
LEMMA FindsNext ==
    ASSUME TypeOK, ScanInv, QueueInv, StateInv, IndexInv, Placed, ServedOnce, Finds, Backed,
           ~expired', [Next]_vars
    PROVE  Finds'
<1>0. /\ readc \in Seq(Read) /\ Len(readc) \in Nat /\ size \in Nat
      /\ \A i \in 1..Len(readc) : readc[i] \in Read
  BY DEF TypeOK
<1>1. CASE Serve
  BY <1>1 DEF Serve, Finds
<1>. SUFFICES ASSUME ~Serve PROVE Finds'
  BY <1>1
<1>2. \A r \in Read : table[r] # 0 => table'[r] # 0
  BY TableGrows
<1>a. ASSUME NEW n \in Nat, Ahead(n), Len(readc') >= Len(readc), Len(readc') \in Nat,
             \A i \in 1..Len(readc) : readc'[i] = readc[i]
      PROVE  \E i \in 1..n : i <= Len(readc') /\ table'[readc'[i]] # 0
  BY <1>0, <1>2, <1>a DEF Ahead
<1>b. ASSUME UNCHANGED <<hpc, cur, size>>, Len(readc') >= Len(readc), Len(readc') \in Nat,
             \A i \in 1..Len(readc) : readc'[i] = readc[i],
             hpc = "serve" => ~Queued(cur)'
      PROVE  Finds'
  <2>1. CASE hpc = "scan"
    BY <1>0, <1>a, <1>b, <2>1 DEF Finds, Ahead
  <2>2. CASE hpc \in {"look", "back"}
    <3>1. size - 1 \in Nat /\ cur \in Read
      BY <1>0, <2>2 DEF ScanInv
    <3>. QED
      BY <1>a, <1>b, <1>2, <2>2, <3>1 DEF Finds, Ahead
  <2>3. CASE hpc \notin {"scan", "look", "back"}
    BY <1>b, <1>2, <2>3 DEF Finds
  <2>. QED
    BY <2>1, <2>2, <2>3
<1>3. ASSUME NEW q \in Read, PushRead(q) PROVE Finds'
  <2>1. readc' = Append(readc, q) /\ phase[q] = "push" /\ UNCHANGED <<hpc, cur, size>>
    BY <1>3 DEF PushRead, GetStep, handlerVars
  <2>2. /\ Len(readc') = Len(readc) + 1
        /\ \A i \in 1..Len(readc) : readc'[i] = readc[i]
    BY <1>0, <2>1, AppendFacts
  <2>3. \A r : Queued(r)' <=> Queued(r) \/ r = q
    BY <1>0, <2>1, QueuedAppend
  <2>4. ASSUME hpc = "serve" PROVE ~Queued(cur)'
    <3>1. cur \in Read /\ table[cur] # 0 /\ ~Queued(cur)
      BY <2>4 DEF Finds
    <3>2. cur # q
      BY <2>1, <3>1 DEF StateInv, Requested
    <3>3. ~\E i \in 1..Len(readc') : readc'[i] = cur
      BY <2>3, <3>1, <3>2 DEF Queued
    <3>. QED
      BY <2>1, <3>3 DEF Queued
  <2>. QED
    BY <1>0, <1>b, <2>1, <2>2, <2>4
<1>4. CASE Wake
  <2>1. coming = 1 /\ hpc = "wait" /\ hpc' = "scan" /\ size' = Len(readc) /\ readc' = readc
    BY <1>4 DEF Wake
  <2>2. Found # {}
    <3>1. Signals >= 1
      BY <2>1 DEF Signals, Sending, Busy
    <3>2. Cardinality(Found) >= 1 /\ Cardinality({}) = 0
      BY <3>1, FS_CardinalityType, FS_EmptySet DEF Backed, Signals, Sending, Busy, TypeOK
    <3>. QED
      BY <3>2
  <2>3. PICK r \in Read : table[r] # 0
    BY <2>2 DEF Found
  <2>4. Queued(r)
    BY <2>1, <2>3 DEF Placed, ServedOnce, Held, StateInv, Requested
  <2>5. PICK i \in 1..Len(readc) : readc[i] = r
    BY <2>4 DEF Queued
  <2>6. Ahead(size)'
    BY <1>0, <1>2, <2>1, <2>3, <2>5 DEF Ahead
  <2>. QED
    BY <2>1, <2>6 DEF Finds
<1>5. CASE PopRead
  <2>1. /\ readc' = Tail(readc) /\ Len(readc) > 0 /\ cur' = Head(readc)
        /\ hpc = "scan" /\ hpc' = "look" /\ size' = size /\ table' = table
    BY <1>0, <1>5 DEF PopRead, ScanInv, tableVars
  <2>2. /\ Len(readc') = Len(readc) - 1
        /\ \A i \in 1..Len(readc) - 1 : readc'[i] = readc[i + 1]
        /\ Head(readc) = readc[1]
    BY <1>0, <2>1, TailFacts
  <2>3. PICK i \in 1..size : i <= Len(readc) /\ table[readc[i]] # 0
    BY <2>1 DEF Finds, Ahead
  <2>4. CASE i = 1
    BY <2>1, <2>2, <2>3, <2>4 DEF Finds
  <2>5. CASE i > 1
    <3>1. i - 1 \in 1..size - 1 /\ i - 1 <= Len(readc') /\ readc'[i - 1] = readc[i]
      BY <1>0, <2>2, <2>3, <2>5
    <3>2. Ahead(size - 1)'
      BY <2>1, <2>3, <3>1 DEF Ahead
    <3>. QED
      BY <2>1, <3>2 DEF Finds
  <2>. QED
    BY <2>3, <2>4, <2>5
<1>6. CASE LookUp
  <2>1. /\ hpc = "look" /\ UNCHANGED <<readc, cur, size, table>>
        /\ \/ table[cur] # 0 /\ hpc' = "serve"
           \/ table[cur] = 0 /\ hpc' = "back"
    BY <1>6 DEF LookUp, tableVars
  <2>2. cur \in Read /\ ~Queued(cur)
    BY <2>1 DEF ScanInv, QueueInv
  <2>3. (Ahead(size - 1)' <=> Ahead(size - 1)) /\ (Queued(cur)' <=> Queued(cur))
    BY <2>1 DEF Ahead, Queued
  <2>. QED
    BY <2>1, <2>2, <2>3 DEF Finds
<1>7. CASE PutBack
  <2>1. /\ readc' = Append(readc, cur) /\ cur \in Read /\ hpc = "back" /\ hpc' = "scan"
        /\ size' = size - 1 /\ size > 0
    BY <1>7 DEF PutBack, ScanInv
  <2>2. /\ Len(readc') = Len(readc) + 1
        /\ \A i \in 1..Len(readc) : readc'[i] = readc[i]
    BY <1>0, <2>1, AppendFacts
  <2>3. Ahead(size - 1) /\ size - 1 \in Nat
    BY <1>0, <2>1 DEF Finds
  <2>4. Ahead(size)'
    BY <1>0, <1>a, <2>1, <2>2, <2>3 DEF Ahead
  <2>. QED
    BY <2>1, <2>4 DEF Finds
<1>8. CASE UNCHANGED <<readc, hpc, cur, size>>
  <2>1. Queued(cur)' <=> Queued(cur)
    BY <1>8 DEF Queued
  <2>. QED
    BY <1>0, <1>b, <1>8, <2>1 DEF Finds
<1>. QED
  BY <1>3, <1>4, <1>5, <1>6, <1>7, <1>8, QueueFrame, FindsOne DEF HandleReadState

\* Signals are sent, taken and answered.
LEMMA SignalFrame ==
    ASSUME TypeOK, [Next]_vars, ~FillTable, ~Serve, ~NilRead
    PROVE  Signals' <= Signals
<1>. USE DEF Signals, Sending, Busy, TypeOK
<1>1. CASE RaftStep
  BY <1>1 DEF RaftStep, tickVars, tableVars, handlerVars
<1>2. ASSUME NEW r \in Read, GetStep(r) PROVE Signals' <= Signals
  BY <1>2 DEF GetStep, tickVars, tableVars, handlerVars
<1>3. CASE HandleReady /\ TickStep
  <2>1. hpc' = hpc
    BY <1>3 DEF TickStep, handlerVars
  <2>2. CASE Signal
    BY <2>1, <2>2 DEF Signal
  <2>3. CASE ~Signal
    <3>1. pc # "signal" /\ pc' # "signal" /\ coming' = coming
      BY <1>3, <2>3 DEF HandleReady, TakeReady, SnapIndex, SnapData, NoSignal, ApplyIndex,
                        ApplyKV, Advance, tableVars
    <3>. QED
      BY <2>1, <3>1
  <2>. QED
    BY <2>2, <2>3
<1>4. CASE HandleReadState /\ HandlerStep
  <2>1. pc' = pc
    BY <1>4 DEF HandlerStep, tickVars
  <2>2. CASE Wake
    BY <2>1, <2>2 DEF Wake
  <2>3. CASE ~Wake
    <3>1. hpc # "wait" /\ hpc' # "wait" /\ coming' = coming
      BY <1>4, <2>3 DEF HandleReadState, PopRead, LookUp, PutBack, ScanEnd, tableVars
    <3>. QED
      BY <2>1, <3>1
  <2>. QED
    BY <2>2, <2>3
<1>5. ASSUME NEW s \in serving, ReadApplied(s) PROVE Signals' <= Signals
  BY <1>5 DEF ReadApplied, tickVars, tableVars, handlerVars
<1>6. CASE UNCHANGED vars
  BY <1>6 DEF vars, tickVars, tableVars, handlerVars
<1>. QED
  BY <1>1, <1>2, <1>3, <1>4, <1>5, <1>6, Steps

\* States and signals, step by step: a Ready with states adds at least one
\* state and one signal, and a signal that is taken uses up one state.
LEMMA BackedNext ==
    ASSUME TypeOK, ScanInv, StateInv, IndexInv, ServedOnce, Finds, Backed, [Next]_vars
    PROVE  Backed'
<1>0. IsFiniteSet(Found) /\ Cardinality(Found) \in Nat /\ Cardinality(Found) >= Signals
  BY FS_CardinalityType DEF Backed
<1>a. Signals \in Nat /\ Signals' \in Nat /\ coming \in Nat
  <2>1. coming \in {0, 1} /\ coming' \in {0, 1}
    BY TypeNext DEF TypeOK
  <2>2. coming \in Nat /\ coming' \in Nat
    BY <2>1
  <2>3. Sending \in Nat /\ Busy \in Nat
    BY DEF Sending, Busy
  <2>4. Sending' \in Nat /\ Busy' \in Nat
    BY DEF Sending, Busy
  <2>5. Signals \in Nat
    BY <2>2, <2>3 DEF Signals
  <2>6. Signals' \in Nat
    <3>1. Signals' = coming' + Sending' + Busy'
      BY DEF Signals
    <3>2. \A a, b, c \in Nat : a + b + c \in Nat
      OBVIOUS
    <3>. QED
      BY <2>2, <2>4, <3>1, <3>2
  <2>. QED
    BY <2>2, <2>5, <2>6
<1>1. CASE FillTable
  <2>1. PICK c \in Read, i \in Index \ {0} : table[c] = 0 /\ table' = [table EXCEPT ![c] = i]
    BY <1>1, Fills
  <2>2. Found' = Found \cup {c} /\ c \notin Found
    BY <2>1 DEF Found, TypeOK
  <2>3. IsFiniteSet(Found') /\ Cardinality(Found') = Cardinality(Found) + 1
    BY <1>0, <2>2, FS_AddElement
  <2>4. coming' = coming /\ hpc' = hpc /\ pc # "signal"
    BY <1>1 DEF FillTable, TickStep, handlerVars
  <2>5. Signals' <= Signals + 1
    BY <1>a, <2>4 DEF Signals, Sending, Busy
  <2>. QED
    BY <1>0, <1>a, <2>3, <2>5 DEF Backed
<1>2. CASE Serve
  <2>1. /\ cur \in Read /\ table[cur] # 0 /\ table' = [table EXCEPT ![cur] = 0]
        /\ hpc = "serve" /\ hpc' = "wait" /\ UNCHANGED <<coming, pc>>
    BY <1>2, ServesFresh
  <2>2. Found' = Found \ {cur} /\ cur \in Found
    BY <2>1 DEF Found, TypeOK
  <2>3. IsFiniteSet(Found') /\ Cardinality(Found') = Cardinality(Found) - 1
    BY <1>0, <2>2, FS_RemoveElement
  <2>4. Signals' = Signals - 1 /\ Signals \in Nat
    BY <2>1 DEF Signals, Sending, Busy, TypeOK
  <2>. QED
    BY <1>0, <2>3, <2>4 DEF Backed
<1>3. CASE ~FillTable /\ ~Serve
  <2>1. Signals' <= Signals
    BY <1>3, SignalFrame, FindsOne
  <2>2. Found' = Found
    BY <1>3, TableFrame DEF Found
  <2>. QED
    BY <1>0, <1>a, <2>1, <2>2 DEF Backed
<1>. QED
  BY <1>1, <1>2, <1>3

-----------------------------------------------------------------------------
(* Theorems *)

\* The invariant holds at the start ...
LEMMA InvInit == Init => ReadInv
<1>. SUFFICES ASSUME Init PROVE ReadInv
  OBVIOUS
<1>1. TypeOK
  <2>1. /\ 0 \in 0..MaxIndex /\ 1 \in 0..MaxIndex
        /\ Len(<<>>) <= ReadCap
        /\ NoReady \in [states : Seq(ReadState), snap : 0..MaxIndex, commit : 0..MaxIndex]
    BY ReadAssumption DEF NoReady
  <2>2. /\ commit \in Index /\ rcommit \in Index /\ rsnap \in Index
        /\ asked \subseteq Read /\ states \in Seq(ReadState)
        /\ pc = "idle" /\ rd \in [states : Seq(ReadState), snap : Index, commit : Index]
        /\ applied \in Index /\ kv \in Index
    BY <2>1 DEF Init, Index
  <2>3. /\ table \in [Read -> Index] /\ coming = 0
        /\ readc \in Seq(Read) /\ Len(readc) <= ReadCap
        /\ hpc = "wait" /\ cur \in Read \cup {Nil} /\ size \in Nat
        /\ serving \subseteq Serving
    BY <2>1 DEF Init, Index
  <2>4. /\ phase \in [Read -> {"new", "push", "index", "wait", "done", "lost"}]
        /\ resp \in [Read -> Index \cup {Nil}]
        /\ done \in [Read -> BOOLEAN]
        /\ need \in [Read -> Index]
        /\ served \in [Read -> Nat]
        /\ torn \subseteq Read /\ blind \subseteq Read /\ expired \in BOOLEAN
    BY <2>1 DEF Init, Index
  <2>. QED
    BY <2>2, <2>3, <2>4 DEF TypeOK
<1>2. ScanInv /\ EngineInv
  BY DEF Init, ScanInv, EngineInv
<1>3. QueueInv
  BY DEF Init, QueueInv, Queued, InHand
<1>4. StateInv
  BY DEF Init, StateInv, OncePerRead, HasState, NoReady
<1>5. IndexInv
  BY DEF Init, IndexInv, Requested, NoReady
<1>6. AnswerInv
  BY DEF Init, AnswerInv
<1>7. AccountInv
  <2>1. Placed /\ ServedOnce /\ Finds /\ blind = {}
    BY DEF Init, Placed, ServedOnce, Finds
  <2>2. Found = {}
    BY DEF Init, Found
  <2>3. Signals = 0
    BY DEF Init, Signals, Sending, Busy
  <2>4. Backed
    BY <2>2, <2>3, FS_EmptySet DEF Backed
  <2>. QED
    BY <2>1, <2>4 DEF AccountInv
<1>. QED
  BY <1>1, <1>2, <1>3, <1>4, <1>5, <1>6, <1>7 DEF ReadInv

\* ... and every step keeps it.
LEMMA InvNext == ReadInv /\ [Next]_vars => ReadInv'
<1>. SUFFICES ASSUME ReadInv, [Next]_vars PROVE ReadInv'
  OBVIOUS
<1>1. AccountInv'
  <2>. SUFFICES ASSUME ~expired' PROVE (blind = {} /\ Placed /\ ServedOnce /\ Finds /\ Backed)'
    BY DEF AccountInv
  <2>1. ~expired
    BY ServedFrame DEF ReadInv
  <2>2. blind = {} /\ Placed /\ ServedOnce /\ Finds /\ Backed
    BY <2>1 DEF ReadInv, AccountInv
  <2>3. blind' = {}
    BY <2>2, ServedFrame, ServesFresh DEF ReadInv
  <2>. QED
    BY <2>2, <2>3, PlacedNext, ServedOnceNext, FindsNext, BackedNext DEF ReadInv
<1>. QED
  BY <1>1, TypeNext, ScanNext, QueueNext, StateNext, IndexNext, EngineNext, AnswerNext
     DEF ReadInv

\* ReadInv holds in every reachable state.
THEOREM ReadInvariant == Spec => []ReadInv
BY InvInit, InvNext, PTL DEF Spec

\* The two channels of the read path never hold more than their capacity, and
\* handleReadState receives only from a channel that has a read.
THEOREM ReadTypes == Spec => []TypeOK
<1>1. ReadInv => TypeOK
  BY DEF ReadInv
<1>. QED
  BY <1>1, ReadInvariant, PTL

\* Until a read is dropped for its age, handleReadState always finds a read that
\* has its ReadState, and never dereferences nil.
THEOREM NeverNil == Spec => []NoNilRead
<1>1. ReadInv => NoNilRead
  BY DEF ReadInv, AccountInv, Finds, NoNilRead
<1>. QED
  BY <1>1, ReadInvariant, PTL

\* Until a read is dropped for its age, no read is handed to readApplied twice.
THEOREM ServedAtMostOnce == Spec => []AnsweredOnce
<1>1. ReadInv => AnsweredOnce
  BY DEF ReadInv, AccountInv, ServedOnce, AnsweredOnce
<1>. QED
  BY <1>1, ReadInvariant, PTL

\* Until a read is dropped for its age, readApplied waits for the index of the
\* read's own ReadState, which covers all that was committed at its request.
THEOREM WaitsForOwnState == Spec => []OwnStateUnlessExpired
<1>1. ReadInv => OwnStateUnlessExpired
  <2>. SUFFICES ASSUME ReadInv, ~expired, NEW s \in serving
                PROVE  s.index > 0 /\ s.index >= need[s.read]
    BY DEF OwnStateUnlessExpired, OwnState
  <2>1. s.read \in Read /\ s.index \in Nat /\ need[s.read] \in Nat
    BY ReadAssumption DEF ReadInv, TypeOK, Serving, Index
  <2>2. Requested(s.read) /\ s.index >= need[s.read]
    BY DEF ReadInv, AnswerInv, AccountInv
  <2>3. need[s.read] >= 1
    BY <2>1, <2>2 DEF ReadInv, IndexInv
  <2>. QED
    BY <2>1, <2>2, <2>3
<1>. QED
  BY <1>1, ReadInvariant, PTL

\* Expiry or not, a Get is answered with a value older than its request only if
\* it read the engine between the two writes of onTick, or without a ReadState.
THEOREM StaleIsExplained == Spec => []StaleExplained
<1>1. ReadInv => StaleExplained
  BY DEF ReadInv, AnswerInv, StaleExplained
<1>. QED
  BY <1>1, ReadInvariant, PTL
=============================================================================
