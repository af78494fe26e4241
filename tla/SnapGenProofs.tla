--------------------------- MODULE SnapGenProofs ----------------------------
(***************************************************************************)
(* Proofs about SnapGen, for a log of any length and terms, any limit of   *)
(* attempts and any bounds: what a snapshot may lack, which term it may    *)
(* carry, when raft may panic, and that a lost snapshot is waited for.     *)
(***************************************************************************)
EXTENDS SnapGen, QueueLemmas

-----------------------------------------------------------------------------
(* The inductive invariant *)

Gens == [pc : {"none", "term", "index", "scan", "done"}, term : Nat, index : 0..LastIndex,
         data : 0..LastIndex]

\* Messages to the follower and to the leader.
FMsg == [type : {"MsgApp"}, index : 0..LastIndex, term : Nat]
          \cup [type : {"MsgSnap"}, index : 0..LastIndex, term : Nat, data : 0..LastIndex]
LMsg == [type : {"MsgAppResp"}, reject : {FALSE}, index : 0..LastIndex]
          \cup [type : {"MsgAppResp"}, reject : {TRUE}, index : 0..LastIndex,
                hint : 0..LastIndex, term : Nat]

Types == /\ applied \in 1..LastIndex /\ kvIdx \in {applied - 1, applied}
         /\ trunc \in Nat /\ trunc <= kvIdx
         /\ gen \in Gens
         /\ stateType \in {"Relaxed", "Generating", "Applying"} /\ tried \in 0..MaxTried
         /\ pr \in Progresses
         /\ toF \in Seq(FMsg) /\ toL \in Seq(LMsg)
         /\ flast \in 0..LastIndex /\ fterm \in Nat /\ elect \in Nat

\* A snapshot lacks one entry at most, and carries no later term than that of its index.
SnapOK(m) == m.data >= m.index - 1 /\ m.term <= TermOf(m.index)

\* What the goroutine knows after its first and after its second call of AppliedIndex.
GenInv == /\ gen.pc = "index" => gen.term <= TermOf(applied)
          /\ gen.pc \in {"scan", "done"} =>
               gen.index \in 1..applied /\ gen.term <= TermOf(gen.index)
          /\ gen.pc = "done" => SnapOK(gen)

NetInv == /\ \A m \in Range(toF) : m.type = "MsgSnap" => SnapOK(m)
          /\ fterm <= TermOf(flast)

\* An attempt that was never collected has been overtaken by an applySnapshot, which needs
\* another leader; this replica was elected after it.
TriedInv == /\ stateType = "Relaxed" => tried = 0
            /\ tried <= elect + 1
            /\ stateType = "Applying" /\ lead => tried <= elect
            /\ down => elect >= MaxTried

SnapInv == Types /\ GenInv /\ NetInv /\ TriedInv


-----------------------------------------------------------------------------
(* The log and the Progress *)

\* The length of the log.
LEMMA LastType == LastIndex \in Nat /\ LastIndex > 0 /\ LastIndex + 1 \in Nat
                  /\ MaxTried \in Nat /\ MaxElect \in Nat
<1>1. LogTerms \in Seq(Nat \ {0}) /\ LastIndex > 0 /\ MaxTried \in Nat /\ MaxElect \in Nat
  BY SnapGenAssumption
<1>2. Len(LogTerms) \in Nat
  BY <1>1
<1>. QED
  BY <1>1, <1>2 DEF LastIndex

\* The terms of the entries never fall.
LEMMA TermFacts ==
    /\ \A i \in 0..LastIndex : TermOf(i) \in Nat
    /\ \A i, j \in 0..LastIndex : i <= j => TermOf(i) <= TermOf(j)
<1>1. \A i \in 1..LastIndex : LogTerms[i] \in Nat
  <2>1. LogTerms \in Seq(Nat \ {0})
    BY SnapGenAssumption
  <2>. QED
    BY <2>1 DEF LastIndex
<1>2. \A i, j \in 1..LastIndex : i <= j => LogTerms[i] <= LogTerms[j]
  BY SnapGenAssumption
<1>3. ASSUME NEW i \in 0..LastIndex PROVE TermOf(i) \in Nat
  BY <1>1, LastType DEF TermOf
<1>4. ASSUME NEW i \in 0..LastIndex, NEW j \in 0..LastIndex, i <= j PROVE TermOf(i) <= TermOf(j)
  <2>1. CASE i = 0
    BY <1>3, <2>1, LastType DEF TermOf
  <2>2. CASE i # 0
    <3>1. i \in 1..LastIndex /\ j \in 1..LastIndex /\ j # 0
      BY <1>4, <2>2, LastType
    <3>. QED
      BY <1>2, <1>4, <2>2, <3>1 DEF TermOf
  <2>. QED
    BY <2>1, <2>2
<1>. QED
  BY <1>3, <1>4

\* raftLog knows the term of an entry or answers 0.
LEMMA LogTermFacts ==
    ASSUME NEW i \in 0..LastIndex
    PROVE  LogTerm(i) \in Nat /\ LogTerm(i) <= TermOf(i)
<1>1. TermOf(i) \in Nat
  BY TermFacts
<1>. QED
  BY <1>1 DEF LogTerm

\* findConflictByTerm finds an entry, if only the one before the first.
LEMMA ConflictFacts ==
    ASSUME NEW i \in 0..LastIndex, NEW t \in Nat
    PROVE  ConflictByTerm(i, t) \in 0..i
<1>. DEFINE S == {j \in 0..i : LogTerm(j) <= t}
<1>1. LogTerm(0) = 0
  BY DEF LogTerm, TermOf
<1>2. 0 \in S /\ i \in Nat
  BY <1>1, LastType
<1>3. S \in SUBSET (0..i) /\ S # {}
  BY <1>2
<1>. HIDE DEF S
<1>4. Max(S) \in S
  BY <1>2, <1>3, MaxUpTo
<1>5. ConflictByTerm(i, t) = Max(S)
  BY DEF ConflictByTerm, S
<1>. QED
  BY <1>3, <1>4, <1>5

\* The Progress of a new leader, and after the changes of state.
LEMMA ProgressFacts ==
    ASSUME NEW p \in Progresses, NEW i \in 0..LastIndex
    PROVE  /\ NewProgress \in Progresses
           /\ BecomeReplicate(p) \in Progresses
           /\ BecomeProbe(p) \in Progresses
           /\ BecomeSnapshot(p, i) \in Progresses
           /\ AppSent(p) \in Progresses
           /\ [p EXCEPT !.probeSent = FALSE] \in Progresses
<1>0. /\ LastIndex \in Nat /\ LastIndex + 1 \in 1..LastIndex + 1 /\ 0 \in 0..LastIndex
      /\ p.match + 1 \in 1..LastIndex + 1 /\ p.match \in 0..LastIndex
  BY LastType DEF Progresses
<1>1. NewProgress \in Progresses
  BY <1>0 DEF NewProgress, Progresses
<1>2. BecomeReplicate(p) \in Progresses
  BY <1>0 DEF BecomeReplicate, Progresses
<1>3. BecomeProbe(p) \in Progresses
  <2>1. \A q \in Progresses : [q EXCEPT !.state = "Probe"] \in Progresses
    BY DEF Progresses
  <2>. QED
    BY <1>2, <2>1 DEF BecomeProbe
<1>4. BecomeSnapshot(p, i) \in Progresses
  BY DEF BecomeSnapshot, Progresses
<1>5. /\ [p EXCEPT !.probeSent = FALSE] \in Progresses
      /\ [p EXCEPT !.probeSent = TRUE] \in Progresses
  BY DEF Progresses
<1>6. [p EXCEPT !.next = LastIndex + 1] \in Progresses
  BY <1>0 DEF Progresses
<1>7. AppSent(p) \in Progresses
  BY <1>5, <1>6 DEF AppSent
<1>. QED
  BY <1>1, <1>2, <1>3, <1>4, <1>5, <1>7

\* The follower has answered that it has the entries up to i.
LEMMA AckedFacts ==
    ASSUME NEW p \in Progresses, NEW i \in 0..LastIndex
    PROVE  Acked(p, i) \in Progresses /\ [p EXCEPT !.next = Max({@, i + 1})] \in Progresses
<1>0. LastIndex \in Nat /\ p.next \in 1..LastIndex + 1 /\ i + 1 \in 1..LastIndex + 1
  BY LastType DEF Progresses
<1>. DEFINE n == Max({p.next, i + 1})
            q == [p EXCEPT !.match = i, !.next = n, !.probeSent = FALSE]
<1>1. n \in 1..LastIndex + 1
  <2>1. n = IF p.next >= i + 1 THEN p.next ELSE i + 1
    BY <1>0, MaxOfTwo
  <2>. QED
    BY <1>0, <2>1
<1>. HIDE DEF n
<1>2. q \in Progresses /\ [p EXCEPT !.next = n] \in Progresses
  BY <1>1 DEF Progresses
<1>. HIDE DEF q
<1>3. BecomeReplicate(q) \in Progresses
  BY <1>2, ProgressFacts
<1>. QED
  BY <1>2, <1>3 DEF Acked, n, q

\* The follower has refused.
LEMMA DecreasedFacts ==
    ASSUME NEW p \in Progresses, NEW rejected \in 0..LastIndex, NEW hint \in 0..LastIndex
    PROVE  Decreased(p, rejected, hint) \in Progresses
<1>. DEFINE m == Min({rejected, hint + 1})
            n == Max({m, 1})
<1>0. LastIndex \in Nat /\ rejected \in Int /\ hint + 1 \in Int
  BY LastType
<1>1. m \in 0..LastIndex + 1
  <2>1. m = IF rejected <= hint + 1 THEN rejected ELSE hint + 1
    BY <1>0, MaxOfTwo
  <2>. QED
    BY <1>0, <2>1
<1>. HIDE DEF m
<1>2. n \in 1..LastIndex + 1
  <2>1. m \in Int /\ 1 \in Int
    BY <1>0, <1>1
  <2>2. n = IF m >= 1 THEN m ELSE 1
    BY <2>1, MaxOfTwo
  <2>. QED
    BY <1>0, <1>1, <2>2
<1>. HIDE DEF n
<1>3. [p EXCEPT !.next = n, !.probeSent = FALSE] \in Progresses
  BY <1>2 DEF Progresses
<1>4. BecomeProbe(p) \in Progresses
  BY <1>0, ProgressFacts
<1>. QED
  BY <1>3, <1>4 DEF Decreased, n, m


-----------------------------------------------------------------------------
(* peerStorage.Snapshot *)

\* The part of the invariant that is about Snapshot and its goroutine.
SnapPart == /\ gen \in Gens /\ stateType \in {"Relaxed", "Generating", "Applying"}
            /\ tried \in 0..MaxTried
            /\ GenInv /\ TriedInv

\* What the goroutine begins with.
LEMMA NoGenFacts ==
    /\ NoGen \in Gens /\ NoGen.pc = "none"
    /\ [NoGen EXCEPT !.pc = "term"] \in Gens /\ [NoGen EXCEPT !.pc = "term"].pc = "term"
BY LastType DEF NoGen, Gens

\* Nothing that concerns Snapshot changes.
LEMMA SnapSame ==
    ASSUME SnapInv, UNCHANGED <<lead, down, storage, snapVars, elect>>
    PROVE  SnapPart'
<1>1. UNCHANGED <<lead, down, applied, stateType, gen, tried, elect>>
  BY DEF storage, snapVars
<1>. QED
  BY <1>1 DEF SnapPart, SnapInv, Types, GenInv, TriedInv, SnapOK

\* A snapshot is never returned with index 0: the first entry has been applied.
LEMMA ReadyFacts ==
    ASSUME SnapInv, SnapReady
    PROVE  gen.index \in 1..LastIndex /\ SnapOK(gen) /\ TriedNow = 0
<1>1. gen.index \in 1..applied /\ SnapOK(gen) /\ applied \in 1..LastIndex
  BY DEF SnapReady, SnapInv, GenInv, Types
<1>2. gen.index \in 1..LastIndex /\ gen.index > 0
  BY <1>1, LastType
<1>. QED
  BY <1>1, <1>2 DEF TriedNow

\* Another attempt is counted: one more than before only if the last was never collected.
LEMMA AgainFacts ==
    ASSUME SnapInv, lead, SnapAgain, UNCHANGED <<lead, down, storage, elect>>
    PROVE  SnapPart'
<1>0. /\ gen' \in Gens /\ gen'.pc = "term" /\ stateType' = "Generating" /\ elect' = elect
      /\ tried' = TriedNow + 1 /\ TriedNow < MaxTried /\ SnapNone /\ down' = down
  BY NoGenFacts DEF SnapAgain
<1>1. elect \in Nat /\ tried \in Nat /\ MaxTried \in Nat /\ tried <= elect + 1
      /\ (down => elect >= MaxTried)
      /\ stateType \in {"Relaxed", "Generating", "Applying"}
  BY LastType DEF SnapInv, Types, TriedInv
<1>2. TriedNow \in Nat /\ TriedNow <= elect
  <2>1. CASE SnapReady
    BY <1>1, <2>1, ReadyFacts
  <2>2. CASE ~SnapReady
    <3>1. TriedNow = tried /\ stateType # "Generating"
      BY <1>0, <2>2 DEF TriedNow, SnapNone
    <3>2. CASE stateType = "Relaxed"
      BY <1>1, <3>1, <3>2 DEF SnapInv, TriedInv
    <3>3. CASE stateType = "Applying"
      BY <1>1, <3>1, <3>3 DEF SnapInv, TriedInv
    <3>. QED
      BY <1>1, <3>1, <3>2, <3>3
  <2>. QED
    BY <2>1, <2>2
<1>3. tried' \in 0..MaxTried /\ tried' <= elect + 1
  BY <1>0, <1>1, <1>2
<1>4. GenInv'
  BY <1>0 DEF GenInv
<1>5. TriedInv'
  BY <1>0, <1>1, <1>3 DEF TriedInv
<1>. QED
  BY <1>0, <1>3, <1>4, <1>5 DEF SnapPart

\* A snapshot is returned.
LEMMA ReturnFacts ==
    ASSUME SnapInv, SnapReturn, UNCHANGED <<lead, down, storage, elect>>
    PROVE  SnapPart' /\ gen.index \in 0..LastIndex /\ SnapOK(gen) /\ MsgSnap \in FMsg
           /\ MsgSnap.type = "MsgSnap" /\ SnapOK(MsgSnap)
<1>0. /\ gen' \in Gens /\ gen'.pc = "none" /\ stateType' = "Relaxed" /\ tried' = 0
      /\ elect' = elect /\ down' = down
  BY NoGenFacts DEF SnapReturn
<1>1. gen.index \in 0..LastIndex /\ SnapOK(gen) /\ gen \in Gens
  BY ReadyFacts, LastType DEF SnapReturn, SnapInv, Types
<1>2. elect \in Nat /\ 0 \in 0..MaxTried /\ (down => elect >= MaxTried)
  BY LastType DEF SnapInv, Types, TriedInv
<1>3. GenInv' /\ TriedInv'
  BY <1>0, <1>2 DEF GenInv, TriedInv
<1>4. MsgSnap \in FMsg /\ MsgSnap.type = "MsgSnap" /\ MsgSnap.index = gen.index
      /\ MsgSnap.term = gen.term /\ MsgSnap.data = gen.data
  BY <1>1 DEF MsgSnap, FMsg, Gens
<1>. QED
  BY <1>0, <1>1, <1>2, <1>3, <1>4 DEF SnapPart, SnapOK

\* The attempts are used up: raft panics.
LEMMA ErrorFacts ==
    ASSUME SnapInv, lead, SnapError, down' = TRUE, UNCHANGED <<lead, storage, elect>>
    PROVE  SnapPart'
<1>0. /\ tried' = 0 /\ elect' = elect /\ applied' = applied /\ SnapNone /\ TriedNow >= MaxTried
      /\ stateType' \in {"Relaxed", stateType}
      /\ gen' = NoGen \/ gen' = gen
  BY DEF SnapError, storage
<1>1. /\ elect \in Nat /\ 0 \in 0..MaxTried /\ tried \in Nat /\ MaxTried \in Nat
      /\ stateType \in {"Relaxed", "Generating", "Applying"} /\ gen \in Gens
  BY LastType DEF SnapInv, Types
<1>2. elect >= MaxTried
  <2>1. CASE SnapReady
    BY <1>0, <1>1, <2>1, ReadyFacts
  <2>2. CASE ~SnapReady
    <3>1. TriedNow = tried /\ stateType # "Generating"
      BY <1>0, <2>2 DEF TriedNow, SnapNone
    <3>2. CASE stateType = "Relaxed"
      BY <1>0, <1>1, <3>1, <3>2 DEF SnapInv, TriedInv
    <3>3. CASE stateType = "Applying"
      BY <1>0, <1>1, <3>1, <3>3 DEF SnapInv, TriedInv
    <3>. QED
      BY <1>1, <3>1, <3>2, <3>3
  <2>. QED
    BY <2>1, <2>2
<1>3. gen' \in Gens /\ GenInv'
  <2>1. CASE gen' = NoGen
    BY <2>1, NoGenFacts DEF GenInv
  <2>2. CASE gen' = gen
    BY <1>0, <1>1, <2>2 DEF SnapInv, GenInv, SnapOK
  <2>. QED
    BY <1>0, <2>1, <2>2
<1>4. TriedInv'
  BY <1>0, <1>1, <1>2 DEF TriedInv
<1>. QED
  BY <1>0, <1>1, <1>3, <1>4 DEF SnapPart

\* The messages to the follower, with one more.
LEMMA ToFAppend ==
    ASSUME SnapInv, NEW m \in FMsg, m.type = "MsgSnap" => SnapOK(m), toF' = Append(toF, m)
    PROVE  toF' \in Seq(FMsg) /\ \A k \in Range(toF') : k.type = "MsgSnap" => SnapOK(k)
<1>1. toF \in Seq(FMsg) /\ \A k \in Range(toF) : k.type = "MsgSnap" => SnapOK(k)
  BY DEF SnapInv, Types, NetInv
<1>2. Append(toF, m) \in Seq(FMsg) /\ Range(Append(toF, m)) = Range(toF) \cup {m}
  BY <1>1, RangeAppend
<1>. QED
  BY <1>1, <1>2

\* A step of the leader ends in maybeSendAppend.
LEMMA SendFacts ==
    ASSUME SnapInv, lead, NEW p \in Progresses, NEW b, maybeSendAppend(p, b),
           UNCHANGED <<lead, storage, elect>>
    PROVE  /\ SnapPart' /\ pr' \in Progresses /\ toF' \in Seq(FMsg)
           /\ \A m \in Range(toF') : m.type = "MsgSnap" => SnapOK(m)
<1>0. toF \in Seq(FMsg) /\ \A m \in Range(toF) : m.type = "MsgSnap" => SnapOK(m)
  BY DEF SnapInv, Types, NetInv
<1>1. CASE pr' = p /\ UNCHANGED <<snapVars, toF, down>>
  BY <1>0, <1>1, SnapSame
<1>2. CASE /\ toF' = Append(toF, MsgApp(p)) /\ pr' = AppSent(p) /\ UNCHANGED <<snapVars, down>>
  <2>1. MsgApp(p) \in FMsg /\ MsgApp(p).type # "MsgSnap"
    <3>1. p.next - 1 \in 0..LastIndex
      BY LastType DEF Progresses
    <3>2. TermOf(p.next - 1) \in Nat
      BY <3>1, TermFacts
    <3>. QED
      BY <3>1, <3>2 DEF MsgApp, FMsg
  <2>2. toF' \in Seq(FMsg) /\ \A m \in Range(toF') : m.type = "MsgSnap" => SnapOK(m)
    BY <1>2, <2>1, ToFAppend
  <2>3. pr' \in Progresses
    <3>1. 0 \in 0..LastIndex
      BY LastType
    <3>. QED
      BY <1>2, <3>1, ProgressFacts
  <2>. QED
    BY <1>2, <2>2, <2>3, SnapSame
<1>3. CASE SnapWait /\ pr' = p /\ UNCHANGED <<toF, down>>
  BY <1>0, <1>3, SnapSame DEF SnapWait
<1>4. CASE SnapAgain /\ pr' = p /\ UNCHANGED <<toF, down>>
  BY <1>0, <1>4, AgainFacts
<1>5. CASE /\ SnapReturn /\ toF' = Append(toF, MsgSnap) /\ pr' = BecomeSnapshot(p, gen.index)
           /\ UNCHANGED down
  <2>1. /\ SnapPart' /\ gen.index \in 0..LastIndex /\ MsgSnap \in FMsg /\ SnapOK(MsgSnap)
    BY <1>5, ReturnFacts
  <2>2. toF' \in Seq(FMsg) /\ \A m \in Range(toF') : m.type = "MsgSnap" => SnapOK(m)
    BY <1>5, <2>1, ToFAppend
  <2>. QED
    BY <1>5, <2>1, <2>2, ProgressFacts
<1>6. CASE SnapError /\ pr' = p /\ down' = TRUE /\ UNCHANGED toF
  BY <1>0, <1>6, ErrorFacts
<1>. QED
  BY <1>1, <1>2, <1>3, <1>4, <1>5, <1>6 DEF maybeSendAppend


-----------------------------------------------------------------------------
(* The invariant is preserved *)

\* The leader steps an answer or a heartbeat.
LEMMA LeaderInv ==
    ASSUME SnapInv, HeartbeatResp \/ RecvAccept \/ RecvReject
    PROVE  SnapInv'
<1>0. /\ lead /\ UNCHANGED <<lead, storage, follower, counters>>
      /\ pr \in Progresses /\ toF \in Seq(FMsg) /\ toL \in Seq(LMsg)
      /\ \A m \in Range(toF) : m.type = "MsgSnap" => SnapOK(m)
  BY DEF HeartbeatResp, RecvAccept, RecvReject, SnapInv, Types, NetInv
<1>1. UNCHANGED <<applied, kvIdx, trunc, flast, fterm, elect>>
  BY <1>0 DEF storage, follower, counters
<1>2. toL' \in Seq(LMsg)
  BY <1>0, RangeTail DEF HeartbeatResp, RecvAccept, RecvReject
<1>3. ASSUME toL # <<>>
      PROVE  /\ Head(toL).index \in 0..LastIndex
             /\ Head(toL).reject => Head(toL).hint \in 0..LastIndex /\ Head(toL).term \in Nat
  <2>1. Head(toL) \in LMsg
    BY <1>0, <1>3, RangeTail
  <2>2. PICK m \in LMsg : m = Head(toL)
    BY <2>1
  <2>3. m.index \in 0..LastIndex /\ (m.reject => m.hint \in 0..LastIndex /\ m.term \in Nat)
    BY DEF LMsg
  <2>. QED
    BY <2>2, <2>3
<1>4. SnapPart' /\ pr' \in Progresses /\ toF' \in Seq(FMsg)
      /\ \A m \in Range(toF') : m.type = "MsgSnap" => SnapOK(m)
  <2>1. CASE HeartbeatResp
    <3>1. 0 \in 0..LastIndex
      BY LastType
    <3>2. [pr EXCEPT !.probeSent = FALSE] \in Progresses
      BY <1>0, <3>1, ProgressFacts
    <3>. QED
      BY <1>0, <1>1, <2>1, <3>2, SendFacts DEF HeartbeatResp
  <2>2. CASE RecvAccept /\ Head(toL).index > pr.match
    <3>1. Acked(pr, Head(toL).index) \in Progresses
      BY <1>0, <1>3, <2>2, AckedFacts DEF RecvAccept
    <3>. QED
      BY <1>0, <1>1, <2>2, <3>1, SendFacts DEF RecvAccept
  <2>3. CASE RecvAccept /\ ~(Head(toL).index > pr.match)
    <3>1. [pr EXCEPT !.next = Max({@, Head(toL).index + 1})] \in Progresses
      BY <1>0, <1>3, <2>3, AckedFacts DEF RecvAccept
    <3>. QED
      BY <1>0, <1>1, <2>3, <3>1, SnapSame DEF RecvAccept
  <2>4. CASE RecvReject /\ StaleReject(pr, Head(toL).index)
    BY <1>0, <1>1, <2>4, SnapSame DEF RecvReject
  <2>5. CASE RecvReject /\ ~StaleReject(pr, Head(toL).index)
    <3>. DEFINE h == ConflictByTerm(Head(toL).hint, Head(toL).term)
                q == Decreased(pr, Head(toL).index, h)
    <3>1. /\ Head(toL).index \in 0..LastIndex
          /\ Head(toL).hint \in 0..LastIndex /\ Head(toL).term \in Nat
      BY <1>3, <2>5 DEF RecvReject
    <3>2. h \in 0..Head(toL).hint
      BY <3>1, ConflictFacts
    <3>3. h \in 0..LastIndex
      BY <3>1, <3>2, LastType
    <3>4. maybeSendAppend(q, TRUE)
      BY <2>5 DEF RecvReject
    <3>. HIDE DEF h
    <3>5. q \in Progresses
      BY <1>0, <3>1, <3>3, DecreasedFacts
    <3>. HIDE DEF q
    <3>. QED
      BY <1>0, <1>1, <3>4, <3>5, SendFacts
  <2>. QED
    BY <2>1, <2>2, <2>3, <2>4, <2>5
<1>5. Types'
  BY <1>1, <1>2, <1>4 DEF SnapInv, Types, SnapPart
<1>6. NetInv'
  BY <1>1, <1>4 DEF SnapInv, NetInv, SnapOK
<1>. QED
  BY <1>4, <1>5, <1>6 DEF SnapInv, SnapPart

\* The goroutine looks up the term, then the index, then scans the engine.
LEMMA GenerateInv ==
    ASSUME SnapInv, Generate
    PROVE  SnapInv'
<1>0. /\ UNCHANGED <<lead, down, applied, kvIdx, trunc, stateType, tried, pr, toF, toL, flast, fterm, elect>>
  BY DEF Generate, GenTerm, GenIndex, GenScan, storage, follower, counters
<1>1. /\ gen \in Gens /\ applied \in 1..LastIndex /\ kvIdx \in 0..LastIndex
      /\ kvIdx \in {applied - 1, applied} /\ LastIndex \in Nat /\ applied \in 0..LastIndex
  <2>1. applied \in 1..LastIndex /\ kvIdx \in {applied - 1, applied} /\ gen \in Gens
    BY DEF SnapInv, Types
  <2>. QED
    BY <2>1, LastType
<1>2. gen' \in Gens /\ GenInv'
  <2>1. CASE GenTerm
    <3>1. LogTerm(applied) \in Nat /\ LogTerm(applied) <= TermOf(applied)
      BY <1>1, LogTermFacts
    <3>2. gen' = [gen EXCEPT !.pc = "index", !.term = LogTerm(applied)]
      BY <2>1 DEF GenTerm
    <3>3. gen' \in Gens /\ gen'.pc = "index" /\ gen'.term = LogTerm(applied)
      BY <1>1, <3>1, <3>2 DEF Gens
    <3>. QED
      BY <1>0, <3>1, <3>3 DEF GenInv
  <2>2. CASE GenIndex
    <3>1. gen' = [gen EXCEPT !.pc = "scan", !.index = applied] /\ gen.pc = "index"
      BY <2>2 DEF GenIndex
    <3>2. gen' \in Gens /\ gen'.pc = "scan" /\ gen'.term = gen.term /\ gen'.index = applied
      BY <1>1, <3>1 DEF Gens
    <3>3. gen.term <= TermOf(applied) /\ applied \in 1..applied
      BY <1>1, <3>1 DEF SnapInv, GenInv
    <3>. QED
      BY <1>0, <3>2, <3>3 DEF GenInv
  <2>3. CASE GenScan
    <3>1. gen' = [gen EXCEPT !.pc = "done", !.data = kvIdx] /\ gen.pc = "scan"
      BY <2>3 DEF GenScan
    <3>2. /\ gen' \in Gens /\ gen'.pc = "done" /\ gen'.term = gen.term /\ gen'.index = gen.index
          /\ gen'.data = kvIdx
      BY <1>1, <3>1 DEF Gens
    <3>3. gen.index \in 1..applied /\ gen.term <= TermOf(gen.index)
      BY <3>1 DEF SnapInv, GenInv
    <3>4. kvIdx >= gen.index - 1
      BY <1>1, <3>3
    <3>. QED
      BY <1>0, <3>2, <3>3, <3>4 DEF GenInv, SnapOK
  <2>. QED
    BY <2>1, <2>2, <2>3 DEF Generate
<1>3. Types'
  BY <1>0, <1>2 DEF SnapInv, Types
<1>4. NetInv' /\ TriedInv'
  BY <1>0 DEF SnapInv, NetInv, TriedInv, SnapOK
<1>. QED
  BY <1>2, <1>3, <1>4 DEF SnapInv

\* onTick applies, compacts, or installs a snapshot of another leader.
LEMMA OnTickInv ==
    ASSUME SnapInv, OnTick
    PROVE  SnapInv'
<1>0. UNCHANGED <<lead, down, gen, tried, pr, toF, toL, flast, fterm, elect>>
      /\ (stateType' = stateType \/ (stateType' = "Applying" /\ ~lead))
  BY DEF OnTick, ApplyIndex, ApplyKV, Compact, applySnapshot, snapVars, follower, counters
<1>1. /\ applied \in 1..LastIndex /\ kvIdx \in {applied - 1, applied} /\ LastIndex \in Nat
      /\ trunc \in Nat /\ trunc <= kvIdx /\ gen \in Gens
  BY LastType DEF SnapInv, Types
<1>2. /\ applied' \in 1..LastIndex /\ kvIdx' \in {applied' - 1, applied'}
      /\ trunc' \in Nat /\ trunc' <= kvIdx' /\ applied <= applied'
  <2>1. CASE ApplyIndex
    BY <1>1, <2>1 DEF ApplyIndex
  <2>2. CASE ApplyKV
    BY <1>1, <2>2 DEF ApplyKV
  <2>3. CASE Compact
    <3>1. trunc' \in trunc + 1..applied - 1 /\ kvIdx = applied /\ kvIdx' = kvIdx /\ applied' = applied
      BY <2>3 DEF Compact
    <3>. QED
      BY <1>1, <3>1
  <2>4. CASE applySnapshot
    <3>1. PICK i \in applied + 1..LastIndex : applied' = i /\ kvIdx' = i /\ trunc' = i
      BY <2>4 DEF applySnapshot
    <3>. QED
      BY <1>1, <3>1
  <2>. QED
    BY <2>1, <2>2, <2>3, <2>4 DEF OnTick
<1>3. GenInv'
  <2>1. TermOf(applied) <= TermOf(applied') /\ TermOf(applied) \in Nat /\ TermOf(applied') \in Nat
    <3>1. applied \in 0..LastIndex /\ applied' \in 0..LastIndex
      BY <1>1, <1>2
    <3>. QED
      BY <1>2, <3>1, TermFacts
  <2>2. gen.term \in Nat
    BY <1>1 DEF Gens
  <2>3. gen.pc = "index" => gen.term <= TermOf(applied')
    BY <2>1, <2>2 DEF SnapInv, GenInv
  <2>4. gen.pc \in {"scan", "done"} => gen.index \in 1..applied' /\ gen.term <= TermOf(gen.index)
    BY <1>1, <1>2 DEF SnapInv, GenInv
  <2>5. gen.pc = "done" => SnapOK(gen)
    BY DEF SnapInv, GenInv
  <2>. QED
    BY <1>0, <2>3, <2>4, <2>5 DEF GenInv, SnapOK
<1>4. TriedInv'
  BY <1>0 DEF SnapInv, TriedInv
<1>5. NetInv'
  BY <1>0 DEF SnapInv, NetInv, SnapOK
<1>6. Types'
  BY <1>0, <1>2 DEF SnapInv, Types
<1>. QED
  BY <1>3, <1>4, <1>5, <1>6 DEF SnapInv

\* A change of leader.
LEMMA ElectionInv ==
    ASSUME SnapInv, StepDown \/ Elected
    PROVE  SnapInv'
<1>0. UNCHANGED <<down, applied, kvIdx, trunc, stateType, gen, tried, flast, fterm>>
  BY DEF StepDown, Elected, storage, snapVars, follower
<1>1. toF' \in Seq(FMsg) /\ toL' \in Seq(LMsg) /\ Range(toF') \subseteq Range(toF)
  BY RangeEmpty DEF StepDown, Elected, SnapInv, Types
<1>2. pr' \in Progresses
  <2>1. 0 \in 0..LastIndex /\ pr \in Progresses
    BY LastType DEF SnapInv, Types
  <2>. QED
    BY <2>1, ProgressFacts DEF StepDown, Elected
<1>3. elect \in Nat /\ tried \in Nat /\ MaxTried \in Nat
  BY LastType DEF SnapInv, Types
<1>4. elect' \in Nat /\ TriedInv'
  <2>1. CASE StepDown
    BY <1>0, <1>3, <2>1 DEF StepDown, counters, SnapInv, TriedInv
  <2>2. CASE Elected
    BY <1>0, <1>3, <2>2 DEF Elected, SnapInv, TriedInv
  <2>. QED
    BY <2>1, <2>2
<1>5. GenInv'
  BY <1>0 DEF SnapInv, GenInv, SnapOK
<1>6. NetInv'
  BY <1>0, <1>1 DEF SnapInv, NetInv, SnapOK
<1>7. Types'
  BY <1>0, <1>1, <1>2, <1>4 DEF SnapInv, Types
<1>. QED
  BY <1>4, <1>5, <1>6, <1>7 DEF SnapInv

\* The follower answers, or a message is lost.
LEMMA FollowerInv ==
    ASSUME SnapInv, Follower \/ Lose
    PROVE  SnapInv'
<1>0. UNCHANGED <<lead, down, storage, snapVars, pr, elect>>
  BY DEF Follower, RecvApp, RecvSnap, Lose, counters
<1>1. /\ toF \in Seq(FMsg) /\ toL \in Seq(LMsg) /\ flast \in 0..LastIndex /\ fterm \in Nat
      /\ \A m \in Range(toF) : m.type = "MsgSnap" => SnapOK(m)
      /\ fterm <= TermOf(flast) /\ LastIndex \in Nat
  BY LastType DEF SnapInv, Types, NetInv
<1>2. SnapPart'
  BY <1>0, SnapSame
<1>3. toF' \in Seq(FMsg) /\ Range(toF') \subseteq Range(toF)
  BY <1>1, RangeTail DEF Follower, RecvApp, RecvSnap, Lose
<1>4. \A i \in 0..LastIndex : Accept(i) \in LMsg /\ Reject(i) \in LMsg
  <2>. SUFFICES ASSUME NEW i \in 0..LastIndex PROVE Accept(i) \in LMsg /\ Reject(i) \in LMsg
    OBVIOUS
  <2>1. Min({i, flast}) \in 0..LastIndex
    <3>1. i \in Int /\ flast \in Int
      BY <1>1
    <3>2. Min({i, flast}) = IF i <= flast THEN i ELSE flast
      BY <3>1, MaxOfTwo
    <3>. QED
      BY <1>1, <3>2
  <2>. QED
    BY <1>1, <2>1 DEF Accept, Reject, LMsg
<1>5. \A m \in LMsg : Append(toL, m) \in Seq(LMsg)
  BY <1>1
<1>6. toL' \in Seq(LMsg) /\ flast' \in 0..LastIndex /\ fterm' \in Nat /\ fterm' <= TermOf(flast')
  <2>1. CASE RecvApp
    <3>1. PICK m \in FMsg : m = Head(toF)
      BY <1>1, <2>1, RangeTail DEF RecvApp
    <3>2. m.index \in 0..LastIndex
      BY DEF FMsg
    <3>3. LastIndex \in 0..LastIndex
      BY <1>1
    <3>4. TermOf(LastIndex) \in Nat
      BY <3>3, TermFacts
    <3>5. \/ flast' = flast /\ fterm' = fterm
          \/ flast' = LastIndex /\ fterm' = TermOf(LastIndex)
      BY <2>1 DEF RecvApp, follower
    <3>6. \E i \in 0..LastIndex : toL' = Append(toL, Accept(i)) \/ toL' = Append(toL, Reject(i))
      BY <1>1, <2>1, <3>1, <3>2, <3>3 DEF RecvApp
    <3>7. toL' \in Seq(LMsg)
      BY <1>4, <1>5, <3>6
    <3>. QED
      BY <1>1, <3>3, <3>4, <3>5, <3>7
  <2>2. CASE RecvSnap
    <3>1. PICK m \in FMsg : m = Head(toF) /\ m \in Range(toF) /\ m.type = "MsgSnap"
      BY <1>1, <2>2, RangeTail DEF RecvSnap
    <3>2. m.index \in 0..LastIndex /\ m.term \in Nat
      BY DEF FMsg
    <3>3. m.term <= TermOf(m.index)
      BY <1>1, <3>1 DEF SnapOK
    <3>4. \/ flast' = flast /\ fterm' = fterm /\ toL' = Append(toL, Accept(flast))
          \/ flast' = m.index /\ fterm' = m.term /\ toL' = Append(toL, Accept(m.index))
      BY <2>2, <3>1 DEF RecvSnap, follower
    <3>5. toL' \in Seq(LMsg)
      BY <1>1, <1>4, <1>5, <3>2, <3>4
    <3>. QED
      BY <1>1, <3>2, <3>3, <3>4, <3>5
  <2>3. CASE Lose
    <3>1. flast' = flast /\ fterm' = fterm
      BY <2>3 DEF Lose, follower
    <3>2. toL' \in Seq(LMsg)
      BY <1>1, <2>3, RangeTail DEF Lose
    <3>. QED
      BY <1>1, <3>1, <3>2
  <2>. QED
    BY <2>1, <2>2, <2>3 DEF Follower
<1>7. Types'
  BY <1>0, <1>2, <1>3, <1>6 DEF SnapInv, Types, SnapPart, storage
<1>8. NetInv'
  BY <1>1, <1>3, <1>6 DEF NetInv, SnapOK
<1>. QED
  BY <1>2, <1>7, <1>8 DEF SnapInv, SnapPart


\* It holds when the model begins.
LEMMA SnapInit == Init => SnapInv
<1>. SUFFICES ASSUME Init PROVE SnapInv
  OBVIOUS
<1>0. LastIndex \in Nat /\ 0 \in 0..LastIndex /\ 0 \in 0..MaxTried
  BY LastType
<1>1. /\ applied \in 1..LastIndex /\ kvIdx = applied /\ trunc \in 0..applied - 1
      /\ stateType = "Relaxed" /\ gen = NoGen /\ tried = 0 /\ elect = 0 /\ down = FALSE
      /\ pr = NewProgress /\ toF = <<>> /\ toL = <<>>
      /\ flast \in 0..LastIndex /\ fterm = TermOf(flast)
  BY DEF Init
<1>2. pr \in Progresses
  BY <1>0, <1>1 DEF NewProgress, Progresses
<1>3. TermOf(flast) \in Nat
  BY <1>1, TermFacts
<1>4. gen \in Gens /\ gen.pc = "none"
  BY <1>1, NoGenFacts
<1>5. toF \in Seq(FMsg) /\ toL \in Seq(LMsg) /\ Range(toF) = {}
  BY <1>1, RangeEmpty
<1>6. Types
  BY <1>0, <1>1, <1>2, <1>3, <1>4, <1>5 DEF Types
<1>7. GenInv /\ NetInv /\ TriedInv
  BY <1>1, <1>3, <1>4, <1>5 DEF GenInv, NetInv, TriedInv
<1>. QED
  BY <1>6, <1>7 DEF SnapInv

\* Every step preserves it.
LEMMA SnapNext == SnapInv /\ [Next]_vars => SnapInv'
<1>. SUFFICES ASSUME SnapInv, [Next]_vars PROVE SnapInv'
  OBVIOUS
<1>1. CASE Next
  BY <1>1, LeaderInv, GenerateInv, OnTickInv, ElectionInv, FollowerInv DEF Next, Raft
<1>2. CASE UNCHANGED vars
  <2>1. UNCHANGED <<lead, down, applied, kvIdx, trunc, stateType, gen, tried, pr, toF, toL,
                    flast, fterm, elect>>
    BY <1>2 DEF vars, storage, snapVars, follower, counters
  <2>2. Types' /\ GenInv'
    BY <2>1 DEF SnapInv, Types, GenInv, SnapOK
  <2>3. NetInv' /\ TriedInv'
    BY <2>1 DEF SnapInv, NetInv, TriedInv, SnapOK
  <2>. QED
    BY <2>2, <2>3 DEF SnapInv
<1>. QED
  BY <1>1, <1>2

-----------------------------------------------------------------------------
(* The theorems *)

\* The inductive invariant holds in every reachable state, for any log and any limits.
THEOREM SnapInvariant == Spec => []SnapInv
BY SnapInit, SnapNext, PTL DEF Spec

\* The variables have their types: the leader's indexes stay in order, the Progress stays in
\* the log, and the attempts stay below their limit (peer_storage.go:108-144).
THEOREM SnapTypes == Spec => []TypeOK
<1>1. SnapInv => TypeOK
  <2>. SUFFICES ASSUME SnapInv PROVE TypeOK
    OBVIOUS
  <2>1. gen.pc \in {"none", "term", "index", "scan", "done"}
    BY DEF SnapInv, Types, Gens
  <2>. QED
    BY <2>1 DEF SnapInv, Types, TypeOK
<1>. QED
  BY <1>1, SnapInvariant, PTL

\* However onTick and the goroutine interleave, a snapshot has every entry before the one at
\* its index: only the last may be missing (peer_storage.go:188-199).
THEOREM LacksOneAtMost == Spec => []AtMostOneBehind
<1>1. SnapInv => AtMostOneBehind
  BY DEF SnapInv, GenInv, NetInv, AtMostOneBehind, Snaps, SnapOK
<1>. QED
  BY <1>1, SnapInvariant, PTL

\* No snapshot, and no follower that took one, has a later term than its last entry: a
\* follower never looks more up to date than it is.
THEOREM NeverAhead == Spec => []TermNotAhead
<1>1. SnapInv => TermNotAhead
  BY DEF SnapInv, GenInv, NetInv, TermNotAhead, Snaps, SnapOK
<1>. QED
  BY <1>1, SnapInvariant, PTL

\* raft panics over Snapshot only when the leader has been elected again as often as it may
\* try, for any limit: each attempt that was never collected needs a change of leader.
THEOREM PanicAfterElections == Spec => []PanicNeedsElections
<1>1. SnapInv => PanicNeedsElections
  BY DEF SnapInv, TriedInv, PanicNeedsElections
<1>. QED
  BY <1>1, SnapInvariant, PTL

\* A leader that waits for a snapshot of which nothing is under way waits until it is
\* deposed, whatever else happens.
THEOREM LimboIsFinal == Spec => LimboForever
<1>1. SnapInv /\ [Next]_vars => [lead /\ lead' /\ Limbo => Limbo']_vars
  <2>. SUFFICES ASSUME SnapInv, Next, lead, lead', Limbo PROVE Limbo'
    BY DEF vars, Limbo
  <2>0. pr.state = "Snapshot" /\ toF = <<>> /\ toL = <<>> /\ pr \in Progresses
    BY DEF Limbo, SnapInv, Types
  <2>1. CASE Generate \/ OnTick
    <3>1. UNCHANGED <<pr, toF, toL>>
      BY <2>1 DEF Generate, GenTerm, GenIndex, GenScan, OnTick, ApplyIndex, ApplyKV, Compact,
                  applySnapshot
    <3>. QED
      BY <2>0, <3>1 DEF Limbo
  <2>2. CASE HeartbeatResp
    <3>. DEFINE p == [pr EXCEPT !.probeSent = FALSE]
    <3>1. p.state = "Snapshot"
      BY <2>0 DEF Progresses
    <3>2. IsPaused(p)
      BY <3>1 DEF IsPaused
    <3>3. maybeSendAppend(p, TRUE) /\ toL' = toL
      BY <2>2 DEF HeartbeatResp
    <3>. HIDE DEF p
    <3>4. pr' = p /\ toF' = toF
      BY <3>2, <3>3 DEF maybeSendAppend
    <3>. QED
      BY <2>0, <3>1, <3>3, <3>4 DEF Limbo
  <2>3. CASE RecvAccept \/ RecvReject \/ StepDown \/ Elected \/ Follower \/ Lose
    BY <2>0, <2>3 DEF RecvAccept, RecvReject, StepDown, Elected, Follower, RecvApp, RecvSnap, Lose
  <2>. QED
    BY <2>1, <2>2, <2>3 DEF Next, Raft
<1>. QED
  BY <1>1, SnapInvariant, PTL DEF Spec, LimboForever
=============================================================================
