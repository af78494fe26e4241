--------------------------- MODULE NodeLoopProofs ---------------------------
(***************************************************************************)
(* Proofs about NodeLoop, for any number of replicas that are up, any      *)
(* capacities of the channels and streams, any terms and crashes: what a   *)
(* replica has said is saved, no term has two leaders, and the two ways    *)
(* for the goroutines to wait for each other are final.                    *)
(***************************************************************************)
EXTENDS NodeLoop, QueueLemmas

-----------------------------------------------------------------------------
(* The inductive invariant *)

\* Who has the term and the vote of r will not vote for another than c in t.
Holds(r, c, t) == r.term > t \/ (r.term = t /\ r.vote = c)

\* So it is for the replica n whatever crashes: its HardState says so.
Saved(n, c, t) == Holds(hard[n], c, t)

\* raft never falls back behind the HardState, and keeps its vote.
AheadInv ==
    \A n \in Node :
      /\ raft[n].term >= hard[n].term
      /\ raft[n].term = hard[n].term /\ hard[n].vote # None => raft[n].vote = hard[n].vote

\* Messages travel to the replica that they are for.
DeliverInv ==
    \A n \in Node :
      /\ \A d \in Node : \A m \in Range(wire[n][d]) : m.to = d
      /\ \A m \in Range(recvc[n]) \cup Range(batch[n]) : m.to = n

\* A message that was sent says what its sender's HardState says, and a vote also
\* what the candidate's says.
SentOK(m) ==
    /\ m.type \notin {"PreVote", "PreVoteResp"} => hard[m.from].term >= m.term
    /\ m.type = "VoteResp" => Saved(m.from, m.to, m.term) /\ Saved(m.to, m.to, m.term)
    /\ m.type = "Vote" => Saved(m.from, m.from, m.term)

SentInv ==
    \A n \in Node :
      /\ \A m \in Range(sending[n]) \cup Range(recvc[n]) \cup Range(batch[n]) : SentOK(m)
      /\ \A d \in Node : \A m \in Range(wire[n][d]) : SentOK(m)

\* A message that waits in raft.msgs says what raft, now r, knows.
Says(n, r, m) ==
    /\ m.from = n
    /\ m.type \notin {"PreVote", "PreVoteResp"} => r.term >= m.term
    /\ m.type = "VoteResp" => Holds(r, m.to, m.term) /\ Saved(m.to, m.to, m.term)
    /\ m.type = "Vote" => Holds(r, n, m.term)

OutInv == \A n \in Node : \A m \in Range(out[n]) : Says(n, raft[n], m)

\* What the roles of raft mean, where the leaders have been those in ls.
RoleOK(n, r, ls) ==
    /\ r.role = "PreCandidate" => r.lead = None /\ r.term < MaxTerm
    /\ r.role = "Candidate" =>
         /\ r.lead = None /\ r.vote = n
         /\ \A d \in r.votes : d = n \/ (Saved(d, n, r.term) /\ Saved(n, n, r.term))
    /\ r.role = "Leader" => r.lead = n /\ [term |-> r.term, node |-> n] \in ls

RoleInv ==
    \A n \in Node :
      /\ RoleOK(n, raft[n], led)
      /\ tick[n] = "propose" => raft[n].role \in {"Leader", "Follower"}

\* All replicas have voted for who has been leader of a term.
LedInv ==
    /\ \A l \in led : \A n \in Node : Saved(n, l.node, l.term)
    /\ \A l, k \in led : l.term = k.term => l.node = k.node

LoopInv == TypeOK /\ AheadInv /\ DeliverInv /\ SentInv /\ OutInv /\ RoleInv /\ LedInv

-----------------------------------------------------------------------------
(* Steps of raft *)

RaftState == [term : 1..MaxTerm, lead : Node \cup {None},
              role : {"Follower", "PreCandidate", "Candidate", "Leader"},
              vote : Node \cup {None}, votes : SUBSET Node]

\* The state r neither goes back behind q nor changes a vote of q.
Forward(q, r) == r.term >= q.term /\ (r.term = q.term /\ q.vote # None => r.vote = q.vote)

\* The replica n may go on with r and send ms; ls are the leaders then.
Good(n, r, ms, ls) ==
    /\ r \in RaftState
    /\ IsFiniteSet(ms) /\ ms \subseteq Message
    /\ Forward(raft[n], r)
    /\ \A m \in ms : Says(n, r, m)
    /\ RoleOK(n, r, ls)

\* A role from which raft has to hear an election timeout to be a candidate.
Settled(r) == r.role \in {"Leader", "Follower"}

\* The replica n has become the leader of the term of r, with all votes.
Elects(n, r) ==
    /\ led' = led \cup {[term |-> r.term, node |-> n]}
    /\ r.term = raft[n].term
    /\ \A k \in Node : Saved(k, n, r.term)

\* What is known of a replica's raft.
LEMMA RaftType ==
    ASSUME TypeOK, NEW n \in Node
    PROVE  /\ raft[n] \in RaftState
           /\ raft[n].term \in 1..MaxTerm
           /\ raft[n].term \in Nat
           /\ raft[n].vote \in Node \cup {None}
           /\ hard[n].term \in Nat
           /\ hard[n].vote \in Node \cup {None}
           /\ MaxTerm \in Nat
<1>1. raft[n] \in RaftState
  BY DEF TypeOK, RaftState
<1>2. hard[n] \in [term : 1..MaxTerm, vote : Node \cup {None}]
  BY DEF TypeOK
<1>3. MaxTerm \in Nat
  BY LoopAssumption
<1>. QED
  BY <1>1, <1>2, <1>3 DEF RaftState

\* A vote stays what it is when raft goes forward.
LEMMA HoldsForward ==
    ASSUME NEW q, NEW r, q.term \in Nat, r.term \in Nat, Forward(q, r),
           NEW c, c # None, NEW t \in Nat, Holds(q, c, t)
    PROVE  Holds(r, c, t)
BY DEF Holds, Forward

\* The messages to all other replicas.
LEMMA ToOthersFacts ==
    ASSUME NEW n \in Node, NEW t \in 0..MaxTerm, NEW type \in {"PreVote", "Vote", "App"}
    PROVE  /\ IsFiniteSet(ToOthers(type, n, t))
           /\ ToOthers(type, n, t) \subseteq Message
           /\ \A m \in ToOthers(type, n, t) : m.type = type /\ m.from = n /\ m.term = t
<1>. DEFINE ms == ToOthers(type, n, t)
            f == [m \in ms |-> m.to]
<1>1. \A d \in Node : Msg(type, n, d, t) \in Message
  BY DEF Msg, Message
<1>2. \A m \in ms : \E d \in Node : m = Msg(type, n, d, t)
  BY DEF ToOthers
<1>3. \A m \in ms : m.type = type /\ m.from = n /\ m.term = t /\ m.to \in Node
  BY <1>2 DEF Msg
<1>4. \A m \in ms : m = Msg(type, n, m.to, t)
  BY <1>2 DEF Msg
<1>. HIDE DEF ms
<1>5. f \in Injection(ms, Node)
  BY <1>3, <1>4 DEF Injection, IsInjective
<1>6. IsFiniteSet(ms)
  BY <1>5, LoopAssumption, FS_Injection
<1>. QED
  BY <1>1, <1>2, <1>3, <1>6 DEF ms

\* No message or one message.
LEMMA OneMessage ==
    ASSUME NEW m
    PROVE  IsFiniteSet({m}) /\ IsFiniteSet({})
BY FS_Singleton, FS_EmptySet

\* raft goes on and raft.msgs grows.
LEMMA BecomeFacts ==
    ASSUME TypeOK, NEW n \in Node, NEW r, NEW ms, IsFiniteSet(ms), ms \subseteq Message,
           Become(n, r, ms)
    PROVE  /\ raft' = [raft EXCEPT ![n] = r]
           /\ raft'[n] = r
           /\ \A k \in Node : k # n => raft'[k] = raft[k] /\ out'[k] = out[k]
           /\ out' \in [Node -> Seq(Message)]
           /\ Range(out'[n]) \subseteq Range(out[n]) \cup ms
<1>. DEFINE new == SetToSeq(ms \ Range(out[n]))
<1>1. raft' = [raft EXCEPT ![n] = r] /\ out' = [out EXCEPT ![n] = out[n] \o new]
  BY DEF Become
<1>2. IsFiniteSet(ms \ Range(out[n]))
  BY FS_Subset
<1>3. new \in Seq(ms \ Range(out[n]))
  BY <1>2, SetToSeqType
<1>. HIDE DEF new
<1>4. new \in Seq(Message)
  BY <1>3
<1>5. Range(new) \subseteq ms
  BY <1>3, RangeType
<1>6. out[n] \in Seq(Message)
  BY DEF TypeOK
<1>7. out[n] \o new \in Seq(Message) /\ Range(out[n] \o new) = Range(out[n]) \cup Range(new)
  BY <1>4, <1>6, RangeConcat
<1>. QED
  BY <1>1, <1>5, <1>7 DEF TypeOK

\* With no more replicas up than a majority, only the votes of all of them win.
LEMMA WonByAll ==
    ASSUME NEW votes \in SUBSET Node, Won(votes)
    PROVE  votes = Node
<1>1. IsFiniteSet(votes) /\ Cardinality(votes) <= Cardinality(Node)
      /\ (Cardinality(votes) = Cardinality(Node) => votes = Node)
  BY LoopAssumption, FS_Subset
<1>2. Cardinality(votes) \in Nat /\ Cardinality(Node) \in Nat
  BY <1>1, LoopAssumption, FS_CardinalityType
<1>. QED
  BY <1>1, <1>2, LoopAssumption DEF Won

\* A later term is followed, and then the replica is a follower without votes.
LEMMA AdjustedGood ==
    ASSUME LoopInv, NEW n \in Node, NEW m \in Message
    PROVE  /\ Adjusted(n, m) \in RaftState
           /\ Forward(raft[n], Adjusted(n, m))
           /\ RoleOK(n, Adjusted(n, m), led)
           /\ Settled(raft[n]) => Settled(Adjusted(n, m))
           /\ Adjusted(n, m) = raft[n] \/
                /\ m.term > raft[n].term
                /\ Adjusted(n, m).term = m.term
                /\ Adjusted(n, m).role = "Follower"
           /\ m.type \notin {"PreVote", "PreVoteResp"} /\ m.term >= raft[n].term =>
                Adjusted(n, m).term = m.term
<1>. DEFINE r == Adjusted(n, m)
<1>0. raft[n] \in RaftState /\ raft[n].term \in Nat /\ RoleOK(n, raft[n], led) /\ MaxTerm \in Nat
  BY RaftType DEF LoopInv, RoleInv
<1>1. m.from \in Node /\ m.term \in 0..MaxTerm
  BY DEF Message
<1>2. CASE m.term > raft[n].term /\ m.type \notin {"PreVote", "PreVoteResp"}
  <2>1. PICK l \in Node \cup {None} : r = becomeFollower(raft[n], m.term, l)
    BY <1>1, <1>2 DEF Adjusted
  <2>2. /\ r = [term |-> m.term, role |-> "Follower", lead |-> l, votes |-> {}, vote |-> None]
    BY <1>0, <1>1, <1>2, <2>1 DEF becomeFollower
  <2>3. m.term \in 1..MaxTerm
    BY <1>0, <1>1, <1>2
  <2>4. r \in RaftState /\ r.term = m.term /\ r.role = "Follower"
    BY <2>2, <2>3 DEF RaftState
  <2>5. Forward(raft[n], r) /\ RoleOK(n, r, led) /\ Settled(r)
    BY <1>0, <1>1, <1>2, <2>4 DEF Forward, RoleOK, Settled
  <2>. QED
    BY <1>2, <2>4, <2>5
<1>3. CASE ~(m.term > raft[n].term /\ m.type \notin {"PreVote", "PreVoteResp"})
  <2>1. r = raft[n]
    BY <1>3 DEF Adjusted
  <2>2. Forward(raft[n], r)
    BY <1>0, <2>1 DEF Forward
  <2>3. m.type \notin {"PreVote", "PreVoteResp"} /\ m.term >= raft[n].term => r.term = m.term
    BY <1>0, <1>1, <1>3, <2>1
  <2>. QED
    BY <1>0, <2>1, <2>2, <2>3
<1>. QED
  BY <1>2, <1>3

\* A proposal is forwarded to the leader, or sent to all by it.
LEMMA PropGood ==
    ASSUME LoopInv, NEW n \in Node, StepProp(n)
    PROVE  /\ raft[n].lead # None /\ led' = led
           /\ \E ms : Become(n, raft[n], ms) /\ Good(n, raft[n], ms, led)
<1>0. /\ raft[n] \in RaftState /\ raft[n].term \in 0..MaxTerm /\ raft[n].term \in Nat
      /\ RoleOK(n, raft[n], led) /\ Forward(raft[n], raft[n]) /\ MaxTerm \in Nat
  BY RaftType DEF LoopInv, RoleInv, Forward
<1>1. raft[n].lead \in Node /\ led' = led
  BY <1>0 DEF StepProp, Same, RaftState
<1>2. CASE raft[n].role = "Leader"
  <2>. DEFINE ms == ToOthers("App", n, raft[n].term)
  <2>1. Become(n, raft[n], ms)
    BY <1>2 DEF StepProp, Same
  <2>2. IsFiniteSet(ms) /\ ms \subseteq Message
        /\ \A m \in ms : m.type = "App" /\ m.from = n /\ m.term = raft[n].term
    BY <1>0, ToOthersFacts
  <2>. HIDE DEF ms
  <2>3. \A m \in ms : Says(n, raft[n], m)
    BY <1>0, <2>2 DEF Says
  <2>. QED
    BY <1>0, <1>1, <2>1, <2>2, <2>3, LoopAssumption DEF Good
<1>3. CASE raft[n].role # "Leader"
  <2>. DEFINE e == Msg("Prop", n, raft[n].lead, 0)
  <2>1. Become(n, raft[n], {e})
    BY <1>3 DEF StepProp, Same
  <2>2. e \in Message /\ Says(n, raft[n], e)
    BY <1>0, <1>1 DEF Msg, Message, Says
  <2>. HIDE DEF e
  <2>3. Good(n, raft[n], {e}, led)
    BY <1>0, <2>2, OneMessage DEF Good
  <2>. QED
    BY <1>1, <2>1, <2>3, LoopAssumption
<1>. QED
  BY <1>2, <1>3

\* The replica n goes on as it may, and leads only with all votes.
GoesOn(n) ==
    \E r, ms : /\ Become(n, r, ms) /\ Good(n, r, ms, led')
               /\ Settled(raft[n]) /\ tick[n] = "propose" => Settled(r)
               /\ led' = led \/ Elects(n, r)

\* A message of an earlier term.
LEMMA LowerGood ==
    ASSUME LoopInv, NEW n \in Node, NEW m \in Message, StepLower(n, m)
    PROVE  GoesOn(n)
<1>0. /\ raft[n] \in RaftState /\ raft[n].term \in 0..MaxTerm /\ raft[n].term \in Nat
      /\ RoleOK(n, raft[n], led) /\ Forward(raft[n], raft[n]) /\ MaxTerm \in Nat
      /\ m.from \in Node
  BY RaftType DEF LoopInv, RoleInv, Forward, Message
<1>1. PICK type \in {"AppResp", "Reject"} :
        /\ led' = led
        /\ \/ Become(n, raft[n], {})
           \/ Become(n, raft[n], {Msg(type, n, m.from, raft[n].term)})
  BY DEF StepLower, Same
<1>. DEFINE e == Msg(type, n, m.from, raft[n].term)
<1>2. e \in Message /\ Says(n, raft[n], e)
  BY <1>0 DEF Msg, Message, Says
<1>. HIDE DEF e
<1>3. Good(n, raft[n], {e}, led) /\ Good(n, raft[n], {}, led)
  BY <1>0, <1>2, OneMessage DEF Good
<1>. QED
  BY <1>1, <1>3 DEF GoesOn, e

\* A request for a vote or a pre-vote.
LEMMA VoteGood ==
    ASSUME LoopInv, NEW n \in Node, NEW m \in Message, SentOK(m), StepVote(n, m)
    PROVE  GoesOn(n)
<1>. DEFINE r == Adjusted(n, m)
<1>0. /\ r \in RaftState /\ Forward(raft[n], r) /\ RoleOK(n, r, led)
      /\ Settled(raft[n]) => Settled(r)
      /\ m.type \notin {"PreVote", "PreVoteResp"} => r.term = m.term
      /\ led' = led
  BY AdjustedGood DEF StepVote
<1>1. /\ m.from \in Node /\ m.term \in 0..MaxTerm /\ m.term \in Nat /\ m.type \in {"PreVote", "Vote"}
      /\ r.term \in 1..MaxTerm /\ r.term \in Nat /\ m.term >= raft[n].term
  BY <1>0, RaftType DEF StepVote, Message, RaftState, LoopInv
<1>. HIDE DEF r
<1>2. CASE Become(n, r, {Msg("PreVoteResp", n, m.from, m.term)})
  <2>. DEFINE e == Msg("PreVoteResp", n, m.from, m.term)
  <2>1. e \in Message /\ Says(n, r, e)
    BY <1>1 DEF Msg, Message, Says
  <2>. HIDE DEF e
  <2>2. Good(n, r, {e}, led)
    BY <1>0, <2>1, OneMessage DEF Good
  <2>. QED
    BY <1>0, <1>2, <2>2 DEF GoesOn, e
<1>3. CASE /\ m.type = "Vote" /\ canVote(r, m)
           /\ Become(n, [r EXCEPT !.vote = m.from], {Msg("VoteResp", n, m.from, m.term)})
  <2>. DEFINE e == Msg("VoteResp", n, m.from, m.term)
              q == [r EXCEPT !.vote = m.from]
  <2>1. /\ q \in RaftState /\ q.term = m.term /\ q.vote = m.from
        /\ q.term = r.term /\ q.role = r.role /\ q.lead = r.lead /\ q.votes = r.votes
    BY <1>0, <1>1, <1>3 DEF RaftState
  <2>2. r.vote \in {m.from, None}
    BY <1>3 DEF canVote
  <2>3. Forward(raft[n], q)
    BY <1>0, <2>1, <2>2 DEF Forward
  <2>4. Saved(m.from, m.from, m.term)
    BY <1>3 DEF SentOK
  <2>5. e \in Message /\ Says(n, q, e)
    BY <1>1, <2>1, <2>4 DEF Msg, Message, Says, Holds
  <2>6. RoleOK(n, q, led)
    BY <1>0, <2>1, <2>2, LoopAssumption DEF RoleOK
  <2>7. Settled(raft[n]) => Settled(q)
    BY <1>0, <2>1 DEF Settled
  <2>. HIDE DEF e, q
  <2>8. Good(n, q, {e}, led)
    BY <2>1, <2>3, <2>5, <2>6, OneMessage DEF Good
  <2>. QED
    BY <1>0, <1>3, <2>7, <2>8 DEF GoesOn, e, q
<1>4. CASE Become(n, r, {Msg("Reject", n, m.from, r.term)})
  <2>. DEFINE e == Msg("Reject", n, m.from, r.term)
  <2>1. e \in Message /\ Says(n, r, e)
    BY <1>1, LoopAssumption DEF Msg, Message, Says
  <2>. HIDE DEF e
  <2>2. Good(n, r, {e}, led)
    BY <1>0, <2>1, OneMessage DEF Good
  <2>. QED
    BY <1>0, <1>4, <2>2 DEF GoesOn, e
<1>5. CASE Become(n, r, {})
  <2>1. Good(n, r, {}, led)
    BY <1>0, OneMessage DEF Good
  <2>. QED
    BY <1>0, <1>5, <2>1 DEF GoesOn
<1>. QED
  BY <1>1, <1>2, <1>3, <1>4, <1>5 DEF StepVote, r

\* The answer to a pre-vote: with all of them the replica asks for votes.
LEMMA PreVoteRespGood ==
    ASSUME LoopInv, NEW n \in Node, NEW m \in Message, StepPreVoteResp(n, m)
    PROVE  GoesOn(n)
<1>. DEFINE r == raft[n]
            votes == r.votes \cup {m.from}
<1>0. /\ r \in RaftState /\ r.term \in Nat /\ r.term \in 1..MaxTerm
      /\ RoleOK(n, r, led) /\ Forward(r, r) /\ MaxTerm \in Nat
      /\ m.from \in Node /\ votes \in SUBSET Node
  BY RaftType DEF LoopInv, RoleInv, Forward, Message, RaftState
<1>1. CASE Same(n, {})
  <2>1. Good(n, r, {}, led)
    BY <1>0, OneMessage DEF Good
  <2>. QED
    BY <1>1, <2>1 DEF GoesOn, Same
<1>2. CASE /\ r.role = "PreCandidate" /\ led' = led
           /\ Become(n, [r EXCEPT !.votes = votes], {})
  <2>. DEFINE q == [r EXCEPT !.votes = votes]
  <2>1. /\ q \in RaftState /\ Forward(r, q) /\ q.role = "PreCandidate" /\ q.term = r.term
        /\ q.lead = r.lead
    BY <1>0, <1>2 DEF RaftState, Forward
  <2>2. RoleOK(n, q, led) /\ ~Settled(r)
    BY <1>0, <1>2, <2>1 DEF RoleOK, Settled
  <2>. HIDE DEF q
  <2>3. Good(n, q, {}, led)
    BY <2>1, <2>2, OneMessage DEF Good
  <2>. QED
    BY <1>2, <2>2, <2>3 DEF GoesOn, q
<1>3. CASE /\ r.role = "PreCandidate" /\ led' = led
           /\ Become(n, becomeCandidate(n, r), ToOthers("Vote", n, r.term + 1))
  <2>. DEFINE q == becomeCandidate(n, r)
              ms == ToOthers("Vote", n, r.term + 1)
  <2>1. r.term + 1 \in 1..MaxTerm /\ r.term + 1 \in 0..MaxTerm
    BY <1>0, <1>3 DEF RoleOK
  <2>2. /\ q \in RaftState /\ q.role = "Candidate" /\ q.term = r.term + 1 /\ q.vote = n
        /\ q.votes = {n} /\ q.lead = None
    BY <2>1 DEF becomeCandidate, RaftState
  <2>3. Forward(r, q)
    BY <1>0, <2>2 DEF Forward
  <2>4. RoleOK(n, q, led) /\ ~Settled(r)
    BY <1>3, <2>2 DEF RoleOK, Settled
  <2>5. IsFiniteSet(ms) /\ ms \subseteq Message
        /\ \A e \in ms : e.type = "Vote" /\ e.from = n /\ e.term = r.term + 1
    BY <2>1, ToOthersFacts
  <2>. HIDE DEF q, ms
  <2>6. \A e \in ms : Says(n, q, e)
    BY <1>0, <2>2, <2>5 DEF Says, Holds
  <2>7. Good(n, q, ms, led)
    BY <2>2, <2>3, <2>4, <2>5, <2>6 DEF Good
  <2>. QED
    BY <1>3, <2>4, <2>7 DEF GoesOn, q, ms
<1>. QED
  BY <1>1, <1>2, <1>3 DEF StepPreVoteResp

\* A vote: with all of them the replica is the leader.
LEMMA VoteRespGood ==
    ASSUME LoopInv, NEW n \in Node, NEW m \in Message, m.to = n, SentOK(m), StepVoteResp(n, m)
    PROVE  GoesOn(n)
<1>. DEFINE r == Adjusted(n, m)
            votes == r.votes \cup {m.from}
<1>0. /\ r \in RaftState /\ Forward(raft[n], r) /\ RoleOK(n, r, led)
      /\ Settled(raft[n]) => Settled(r)
      /\ r = raft[n] \/ r.role = "Follower"
      /\ m.type = "VoteResp" /\ r.term = m.term
  BY AdjustedGood DEF StepVoteResp
<1>1. /\ m.from \in Node /\ votes \in SUBSET Node /\ r.term \in Nat /\ r.term \in 0..MaxTerm
      /\ MaxTerm \in Nat
  BY <1>0, RaftType DEF Message, RaftState, LoopInv
<1>2. Saved(m.from, n, r.term) /\ Saved(n, n, r.term)
  BY <1>0 DEF SentOK
<1>. HIDE DEF r
<1>3. CASE Become(n, r, {}) /\ led' = led
  <2>1. Good(n, r, {}, led)
    BY <1>0, OneMessage DEF Good
  <2>. QED
    BY <1>0, <1>3, <2>1 DEF GoesOn
<1>4. CASE /\ r.role = "Candidate" /\ led' = led
           /\ Become(n, [r EXCEPT !.votes = votes], {})
  <2>. DEFINE q == [r EXCEPT !.votes = votes]
  <2>1. /\ q \in RaftState /\ q.role = r.role /\ q.term = r.term /\ q.vote = r.vote
        /\ q.votes = votes /\ q.lead = r.lead
    BY <1>0, <1>1 DEF RaftState
  <2>2. Forward(raft[n], q) /\ RoleOK(n, q, led) /\ ~Settled(r)
    BY <1>0, <1>2, <1>4, <2>1 DEF Forward, RoleOK, Settled
  <2>. HIDE DEF q
  <2>3. Good(n, q, {}, led)
    BY <2>1, <2>2, OneMessage DEF Good
  <2>. QED
    BY <1>0, <1>4, <2>2, <2>3 DEF GoesOn, q
<1>5. CASE /\ r.role = "Candidate" /\ Won(votes)
           /\ Become(n, becomeLeader(n, r), ToOthers("App", n, r.term))
           /\ led' = led \cup {[term |-> r.term, node |-> n]}
  <2>. DEFINE q == becomeLeader(n, r)
              ms == ToOthers("App", n, r.term)
  <2>1. /\ q \in RaftState /\ q.role = "Leader" /\ q.lead = n /\ q.term = r.term
        /\ q.vote = r.vote
    BY <1>0 DEF RaftState, becomeLeader
  <2>2. Forward(raft[n], q) /\ RoleOK(n, q, led') /\ Settled(q)
    BY <1>0, <1>5, <2>1 DEF Forward, RoleOK, Settled
  <2>3. IsFiniteSet(ms) /\ ms \subseteq Message
        /\ \A e \in ms : e.type = "App" /\ e.from = n /\ e.term = r.term
    BY <1>1, ToOthersFacts
  <2>4. votes = Node
    BY <1>1, <1>5, WonByAll
  <2>5. ASSUME NEW k \in Node PROVE Saved(k, n, r.term)
    BY <1>0, <1>2, <1>5, <2>4 DEF RoleOK
  <2>6. Elects(n, q)
    BY <1>0, <1>5, <2>1, <2>5 DEF Elects
  <2>. HIDE DEF q, ms
  <2>7. \A e \in ms : Says(n, q, e)
    BY <1>1, <2>1, <2>3 DEF Says
  <2>8. Good(n, q, ms, led')
    BY <2>1, <2>2, <2>3, <2>7 DEF Good
  <2>. QED
    BY <1>5, <2>2, <2>6, <2>8 DEF GoesOn, q, ms
<1>. QED
  BY <1>3, <1>4, <1>5 DEF StepVoteResp, r

\* A message that names the leader, or only a term.
LEMMA AppGood ==
    ASSUME LoopInv, NEW n \in Node, NEW m \in Message, StepApp(n, m)
    PROVE  GoesOn(n)
<1>. DEFINE r == Adjusted(n, m)
<1>0. /\ r \in RaftState /\ Forward(raft[n], r) /\ RoleOK(n, r, led)
      /\ Settled(raft[n]) => Settled(r)
      /\ r.term = m.term
      /\ led' = led
  BY AdjustedGood DEF StepApp
<1>1. m.from \in Node /\ r.term \in 1..MaxTerm /\ r.term \in Nat
  BY <1>0, LoopAssumption DEF Message, RaftState
<1>. HIDE DEF r
<1>2. CASE Become(n, r, {})
  <2>1. Good(n, r, {}, led)
    BY <1>0, OneMessage DEF Good
  <2>. QED
    BY <1>0, <1>2, <2>1 DEF GoesOn
<1>3. CASE Become(n, becomeFollower(r, m.term, m.from), {})
  <2>. DEFINE q == becomeFollower(r, m.term, m.from)
  <2>1. /\ q \in RaftState /\ q.role = "Follower" /\ q.term = r.term /\ q.vote = r.vote
    BY <1>0, <1>1 DEF RaftState, becomeFollower
  <2>2. Forward(raft[n], q) /\ RoleOK(n, q, led) /\ Settled(q)
    BY <1>0, <2>1 DEF Forward, RoleOK, Settled
  <2>. HIDE DEF q
  <2>3. Good(n, q, {}, led)
    BY <2>1, <2>2, OneMessage DEF Good
  <2>. QED
    BY <1>0, <1>3, <2>2, <2>3 DEF GoesOn, q
<1>. QED
  BY <1>2, <1>3 DEF StepApp, r

\* Every message that handleRaftMsgs steps.
LEMMA StepGood ==
    ASSUME LoopInv, NEW n \in Node, NEW m \in Message, m.to = n, SentOK(m),
           (m.type = "Prop" /\ StepProp(n)) \/ StepOther(n, m)
    PROVE  GoesOn(n)
<1>1. CASE StepProp(n)
  BY <1>1, PropGood DEF GoesOn
<1>. QED
  BY <1>1, LowerGood, VoteGood, PreVoteRespGood, VoteRespGood, AppGood DEF StepOther


\* An election timeout.
LEMMA HupGood ==
    ASSUME LoopInv, NEW n \in Node, Hup(n)
    PROVE  GoesOn(n)
<1>. DEFINE r == raft[n]
            q == becomePreCandidate(n, r)
            ms == ToOthers("PreVote", n, r.term + 1)
<1>0. r \in RaftState /\ r.term \in Nat /\ r.term \in 1..MaxTerm /\ MaxTerm \in Nat
  BY RaftType DEF LoopInv
<1>1. r.term < MaxTerm /\ tick[n] = "loop" /\ led' = led /\ Become(n, q, ms)
  BY DEF Hup, InLoop
<1>2. /\ q \in RaftState /\ q.role = "PreCandidate" /\ q.term = r.term /\ q.vote = r.vote
      /\ q.lead = None
  BY <1>0 DEF becomePreCandidate, RaftState
<1>3. IsFiniteSet(ms) /\ ms \subseteq Message
      /\ \A e \in ms : e.type = "PreVote" /\ e.from = n /\ e.term = r.term + 1
  BY <1>0, <1>1, ToOthersFacts
<1>. HIDE DEF q, ms
<1>4. Forward(r, q) /\ RoleOK(n, q, led)
  BY <1>0, <1>1, <1>2 DEF Forward, RoleOK
<1>5. \A e \in ms : Says(n, q, e)
  BY <1>3 DEF Says
<1>6. Good(n, q, ms, led)
  BY <1>2, <1>3, <1>4, <1>5 DEF Good
<1>. QED
  BY <1>1, <1>6 DEF GoesOn

\* A heartbeat.
LEMMA BeatGood ==
    ASSUME LoopInv, NEW n \in Node, Beat(n)
    PROVE  GoesOn(n)
<1>. DEFINE r == raft[n]
            ms == ToOthers("App", n, r.term)
<1>0. /\ r \in RaftState /\ r.term \in Nat /\ r.term \in 0..MaxTerm
      /\ RoleOK(n, r, led) /\ Forward(r, r)
  BY RaftType DEF LoopInv, RoleInv, Forward
<1>1. tick[n] = "loop" /\ led' = led /\ Become(n, r, ms)
  BY DEF Beat, InLoop, Same
<1>2. IsFiniteSet(ms) /\ ms \subseteq Message
      /\ \A e \in ms : e.type = "App" /\ e.from = n /\ e.term = r.term
  BY <1>0, ToOthersFacts
<1>. HIDE DEF ms
<1>3. \A e \in ms : Says(n, r, e)
  BY <1>0, <1>2 DEF Says
<1>4. Good(n, r, ms, led)
  BY <1>0, <1>2, <1>3 DEF Good
<1>. QED
  BY <1>1, <1>4 DEF GoesOn

-----------------------------------------------------------------------------
(* What was said stays said *)

\* The HardStates go forward, or stay.
HardForward == \A k \in Node : /\ Forward(hard[k], hard'[k])
                               /\ hard'[k].term \in Nat /\ hard'[k].vote \in Node \cup {None}

\* They stay in most steps.
LEMMA HardStays ==
    ASSUME TypeOK, hard' = hard
    PROVE  HardForward
BY RaftType DEF HardForward, Forward

\* A vote that is saved stays saved.
LEMMA SavedStays ==
    ASSUME TypeOK, HardForward, NEW k \in Node, NEW c \in Node, NEW t \in Nat, Saved(k, c, t)
    PROVE  Saved(k, c, t)'
<1>1. hard[k].term \in Nat /\ hard'[k].term \in Nat /\ Forward(hard[k], hard'[k]) /\ c # None
  BY RaftType, LoopAssumption DEF HardForward
<1>2. Holds(hard[k], c, t)
  BY DEF Saved
<1>3. Holds(hard'[k], c, t)
  BY <1>1, <1>2, HoldsForward
<1>. QED
  BY <1>3 DEF Saved, Holds

\* The parts of a message.
LEMMA MessageType ==
    ASSUME NEW m \in Message
    PROVE  m.from \in Node /\ m.to \in Node /\ m.term \in Nat /\ m.term \in 0..MaxTerm
BY LoopAssumption DEF Message

\* What is on its way stays true.
LEMMA SentStays ==
    ASSUME TypeOK, HardForward, NEW m \in Message, SentOK(m)
    PROVE  SentOK(m)'
<1>0. m.from \in Node /\ m.to \in Node /\ m.term \in Nat
  BY MessageType
<1>1. hard'[m.from].term \in Nat /\ hard[m.from].term \in Nat
      /\ hard'[m.from].term >= hard[m.from].term
  BY <1>0, RaftType DEF HardForward, Forward
<1>2. m.type \notin {"PreVote", "PreVoteResp"} => hard'[m.from].term >= m.term
  BY <1>0, <1>1 DEF SentOK
<1>3. m.type = "VoteResp" => Saved(m.from, m.to, m.term)' /\ Saved(m.to, m.to, m.term)'
  BY <1>0, SavedStays DEF SentOK
<1>4. m.type = "Vote" => Saved(m.from, m.from, m.term)'
  BY <1>0, SavedStays DEF SentOK
<1>. QED
  BY <1>2, <1>3, <1>4 DEF SentOK

\* So does what waits in raft.msgs, when raft goes forward.
LEMMA SaysStays ==
    ASSUME TypeOK, HardForward, NEW n \in Node, NEW q, NEW r, q.term \in Nat, r.term \in Nat,
           Forward(q, r), NEW m \in Message, Says(n, q, m)
    PROVE  Says(n, r, m)'
<1>0. m.from \in Node /\ m.to \in Node /\ m.term \in Nat /\ None \notin Node
  BY MessageType, LoopAssumption
<1>1. m.from = n /\ (m.type \notin {"PreVote", "PreVoteResp"} => r.term >= m.term)
  BY <1>0 DEF Says, Forward
<1>2. m.type = "VoteResp" => Holds(r, m.to, m.term) /\ Saved(m.to, m.to, m.term)'
  BY <1>0, HoldsForward, SavedStays DEF Says
<1>3. m.type = "Vote" => Holds(r, n, m.term)
  BY <1>0, HoldsForward DEF Says
<1>. QED
  BY <1>1, <1>2, <1>3 DEF Says, Holds

\* So does what a role means.
LEMMA RoleStays ==
    ASSUME TypeOK, HardForward, NEW n \in Node, NEW r \in RaftState, NEW ls, NEW new,
           RoleOK(n, r, ls), ls \subseteq new
    PROVE  RoleOK(n, r, new)'
<1>0. r.term \in Nat /\ r.votes \subseteq Node
  BY LoopAssumption DEF RaftState
<1>1. r.role = "Candidate" =>
        \A d \in r.votes : d = n \/ (Saved(d, n, r.term)' /\ Saved(n, n, r.term)')
  BY <1>0, SavedStays DEF RoleOK
<1>2. (r.role = "PreCandidate" => r.lead = None /\ r.term < MaxTerm)
      /\ (r.role = "Candidate" => r.lead = None /\ r.vote = n)
      /\ (r.role = "Leader" => r.lead = n /\ [term |-> r.term, node |-> n] \in new)
  BY DEF RoleOK
<1>. QED
  BY <1>1, <1>2 DEF RoleOK


-----------------------------------------------------------------------------
(* The invariant is preserved *)

\* A replica that has all votes is the only leader of its term.
LEMMA ElectedAlone ==
    ASSUME LoopInv, hard' = hard, NEW n \in Node, NEW r \in RaftState, Elects(n, r)
    PROVE  LedInv' /\ led' \subseteq [term : 1..MaxTerm, node : Node]
<1>. DEFINE new == [term |-> r.term, node |-> n]
<1>0. /\ r.term \in 1..MaxTerm /\ r.term \in Nat /\ hard[n].term \in Nat
      /\ led \subseteq [term : 1..MaxTerm, node : Node]
  <2>1. TypeOK /\ r.term \in 1..MaxTerm
    BY DEF LoopInv, RaftState
  <2>2. hard[n].term \in Nat /\ MaxTerm \in Nat
    BY <2>1, RaftType
  <2>3. led \subseteq [term : 1..MaxTerm, node : Node]
    BY <2>1 DEF TypeOK
  <2>. QED
    BY <2>1, <2>2, <2>3
<1>1. hard[n].term = r.term /\ hard[n].vote = n
  <2>1. hard[n].term <= r.term
    BY <1>0, RaftType DEF Elects, LoopInv, AheadInv
  <2>2. Saved(n, n, r.term)
    BY DEF Elects
  <2>. QED
    BY <1>0, <2>1, <2>2 DEF Saved, Holds
<1>2. ASSUME NEW l \in led, l.term = r.term
      PROVE  l.node = n
  <2>1. Saved(n, l.node, r.term)
    BY <1>2 DEF LoopInv, LedInv
  <2>. QED
    BY <1>0, <1>1, <2>1 DEF Saved, Holds
<1>3. led' = led \cup {new}
  BY DEF Elects
<1>4. \A l \in led' : \A k \in Node : Saved(k, l.node, l.term)
  BY <1>3 DEF LoopInv, LedInv, Elects
<1>5. \A l, k \in led' : l.term = k.term => l.node = k.node
  BY <1>2, <1>3 DEF LoopInv, LedInv
<1>6. new \in [term : 1..MaxTerm, node : Node]
  BY <1>0
<1>. QED
  BY <1>0, <1>3, <1>4, <1>5, <1>6 DEF LedInv, Saved, Holds

\* Who leads stays as it is.
LEMMA LedStays ==
    ASSUME LoopInv, HardForward, led' = led
    PROVE  LedInv' /\ led' \subseteq [term : 1..MaxTerm, node : Node]
<1>1. led \subseteq [term : 1..MaxTerm, node : Node] /\ TypeOK
  BY DEF LoopInv, TypeOK
<1>2. ASSUME NEW l \in led, NEW n \in Node PROVE Saved(n, l.node, l.term)'
  <2>1. l.node \in Node /\ l.term \in Nat
    BY <1>1
  <2>2. Saved(n, l.node, l.term)
    BY DEF LoopInv, LedInv
  <2>. QED
    BY <1>1, <2>1, <2>2, SavedStays
<1>3. \A l \in led' : \A n \in Node : Saved(n, l.node, l.term)'
  BY <1>2
<1>4. \A l, k \in led' : l.term = k.term => l.node = k.node
  BY DEF LoopInv, LedInv
<1>. QED
  BY <1>1, <1>3, <1>4 DEF LedInv

\* What a step of raft at n does to the parts of the invariant that are about raft.
LEMMA GoesOnInv ==
    ASSUME LoopInv, NEW n \in Node, GoesOn(n), hard' = hard,
           \A k \in Node : tick'[k] = "propose" => tick[k] = "propose"
    PROVE  /\ raft' \in [Node -> RaftState]
           /\ out' \in [Node -> Seq(Message)]
           /\ led' \subseteq [term : 1..MaxTerm, node : Node]
           /\ AheadInv' /\ OutInv' /\ RoleInv' /\ LedInv'
<1>0. TypeOK /\ HardForward
  BY HardStays DEF LoopInv
<1>1. PICK r, ms : /\ Become(n, r, ms) /\ Good(n, r, ms, led')
                   /\ Settled(raft[n]) /\ tick[n] = "propose" => Settled(r)
                   /\ led' = led \/ Elects(n, r)
  BY DEF GoesOn
<1>2. /\ r \in RaftState /\ IsFiniteSet(ms) /\ ms \subseteq Message /\ Forward(raft[n], r)
      /\ \A m \in ms : Says(n, r, m)
      /\ RoleOK(n, r, led')
  BY <1>1 DEF Good
<1>3. /\ raft' = [raft EXCEPT ![n] = r]
      /\ raft'[n] = r
      /\ \A k \in Node : k # n => raft'[k] = raft[k] /\ out'[k] = out[k]
      /\ out' \in [Node -> Seq(Message)]
      /\ Range(out'[n]) \subseteq Range(out[n]) \cup ms
  BY <1>0, <1>1, <1>2, BecomeFacts
<1>4. raft \in [Node -> RaftState] /\ r.term \in Nat
  <2>1. raft \in [Node -> RaftState]
    BY <1>0 DEF TypeOK, RaftState
  <2>2. r.term \in 1..MaxTerm
    BY <1>2 DEF RaftState
  <2>. QED
    BY <2>1, <2>2
<1>5. raft' \in [Node -> RaftState]
  BY <1>2, <1>3, <1>4
<1>6. LedInv' /\ led' \subseteq [term : 1..MaxTerm, node : Node]
  BY <1>0, <1>1, <1>2, ElectedAlone, LedStays
<1>7. led \subseteq led'
  BY <1>1 DEF Elects
<1>8. AheadInv'
  <2>. SUFFICES ASSUME NEW k \in Node
                PROVE  /\ raft'[k].term >= hard[k].term
                       /\ raft'[k].term = hard[k].term /\ hard[k].vote # None =>
                            raft'[k].vote = hard[k].vote
    BY DEF AheadInv
  <2>1. /\ raft[k].term >= hard[k].term
        /\ raft[k].term = hard[k].term /\ hard[k].vote # None => raft[k].vote = hard[k].vote
    BY DEF LoopInv, AheadInv
  <2>2. CASE k # n
    BY <1>3, <2>1, <2>2
  <2>3. CASE k = n
    <3>1. raft[n].term \in Nat /\ hard[n].term \in Nat
      BY <1>0, RaftType
    <3>. QED
      BY <1>2, <1>3, <1>4, <2>1, <2>3, <3>1 DEF Forward
  <2>. QED
    BY <2>2, <2>3
<1>9. OutInv'
  <2>. SUFFICES ASSUME NEW k \in Node, NEW m \in Range(out'[k])
                PROVE  Says(k, raft[k], m)'
    BY DEF OutInv
  <2>0. m \in Message
    BY <1>3, RangeType
  <2>1. CASE k # n
    <3>1. Says(k, raft[k], m)
      BY <1>3, <2>1 DEF LoopInv, OutInv
    <3>2. raft[k].term \in Nat /\ Forward(raft[k], raft[k])
      BY <1>0, RaftType DEF Forward
    <3>3. PICK q : q = raft[k]
      OBVIOUS
    <3>4. Says(k, q, m)'
      BY <1>0, <2>0, <3>1, <3>2, <3>3, SaysStays
    <3>. QED
      BY <1>3, <2>1, <3>3, <3>4 DEF Says, Holds
  <2>2. CASE k = n /\ m \in Range(out[n])
    <3>1. Says(n, raft[n], m)
      BY <2>2 DEF LoopInv, OutInv
    <3>2. raft[n].term \in Nat
      BY <1>0, RaftType
    <3>3. Says(n, r, m)'
      BY <1>0, <1>2, <1>4, <2>0, <3>1, <3>2, SaysStays
    <3>. QED
      BY <1>3, <2>2, <3>3 DEF Says, Holds
  <2>3. CASE k = n /\ m \in ms
    <3>1. Says(n, r, m) /\ Forward(r, r)
      BY <1>2, <1>4, <2>3 DEF Forward
    <3>2. Says(n, r, m)'
      BY <1>0, <1>4, <2>0, <3>1, SaysStays
    <3>. QED
      BY <1>3, <2>3, <3>2 DEF Says, Holds
  <2>. QED
    BY <1>3, <2>1, <2>2, <2>3
<1>10. RoleInv'
  <2>. SUFFICES ASSUME NEW k \in Node
                PROVE  /\ RoleOK(k, raft[k], led)'
                       /\ tick'[k] = "propose" => raft'[k].role \in {"Leader", "Follower"}
    BY DEF RoleInv
  <2>1. CASE k # n
    <3>1. RoleOK(k, raft[k], led) /\ raft[k] \in RaftState
      BY <1>4 DEF LoopInv, RoleInv
    <3>2. PICK q : q = raft[k]
      OBVIOUS
    <3>3. PICK new : new = led'
      OBVIOUS
    <3>4. RoleOK(k, q, new)'
      BY <1>0, <1>7, <3>1, <3>2, <3>3, RoleStays
    <3>. QED
      BY <1>3, <2>1, <3>2, <3>3, <3>4 DEF LoopInv, RoleInv, RoleOK, Saved, Holds
  <2>2. CASE k = n
    <3>1. PICK new : new = led'
      OBVIOUS
    <3>2. RoleOK(n, r, new)'
      BY <1>0, <1>2, <3>1, RoleStays
    <3>3. tick'[n] = "propose" => r.role \in {"Leader", "Follower"}
      BY <1>1 DEF Settled, LoopInv, RoleInv
    <3>. QED
      BY <1>3, <2>2, <3>1, <3>2, <3>3 DEF RoleOK, Saved, Holds
  <2>. QED
    BY <2>1, <2>2
<1>. QED
  BY <1>3, <1>5, <1>6, <1>8, <1>9, <1>10


\* What is on its way after a step has been on its way before it.
LEMMA SentInvStays ==
    ASSUME TypeOK, TypeOK', HardForward,
           \A n \in Node :
             /\ \A m \in Range(sending'[n]) \cup Range(recvc'[n]) \cup Range(batch'[n]) : SentOK(m)
             /\ \A d \in Node : \A m \in Range(wire'[n][d]) : SentOK(m)
    PROVE  SentInv'
<1>1. ASSUME NEW n \in Node
      PROVE  /\ Range(sending'[n]) \cup Range(recvc'[n]) \cup Range(batch'[n]) \subseteq Message
             /\ \A d \in Node : Range(wire'[n][d]) \subseteq Message
  <2>1. /\ sending'[n] \in Seq(Message) /\ recvc'[n] \in Seq(Message)
        /\ batch'[n] \in Seq(Message) /\ \A d \in Node : wire'[n][d] \in Seq(Message)
    BY DEF TypeOK
  <2>. QED
    BY <2>1, RangeType
<1>2. ASSUME NEW n \in Node, NEW m \in Range(sending'[n]) \cup Range(recvc'[n]) \cup Range(batch'[n])
      PROVE  SentOK(m)'
  BY <1>1, SentStays
<1>3. ASSUME NEW n \in Node, NEW d \in Node, NEW m \in Range(wire'[n][d])
      PROVE  SentOK(m)'
  BY <1>1, SentStays
<1>. QED
  BY <1>2, <1>3 DEF SentInv

\* The types of the queues and of the counters.
LEMMA QueueType ==
    ASSUME TypeOK, NEW n \in Node
    PROVE  /\ out[n] \in Seq(Message) /\ sending[n] \in Seq(Message)
           /\ recvc[n] \in Seq(Message) /\ batch[n] \in Seq(Message)
           /\ \A d \in Node : wire[n][d] \in Seq(Message)
BY DEF TypeOK

\* A step of raft at n, with all that the goroutine that takes it does.
LEMMA RaftStepInv ==
    ASSUME LoopInv, NEW n \in Node, GoesOn(n), UNCHANGED <<up, hard, sending, server>>,
           \/ tick' = tick
           \/ tick[n] = "propose" /\ tick' = [tick EXCEPT ![n] = "loop"],
           \/ batch' = batch
           \/ batch[n] # <<>> /\ batch' = [batch EXCEPT ![n] = Tail(@)],
           hups' \in 0..MaxHup, props' \in 0..MaxProp, crashes' \in 0..MaxCrash
    PROVE  LoopInv'
<1>0. /\ TypeOK /\ DeliverInv /\ SentInv /\ hard' = hard /\ up' = up /\ sending' = sending
      /\ wire' = wire /\ recvc' = recvc
  BY DEF LoopInv, server
<1>1. HardForward
  BY <1>0, HardStays
<1>2. tick \in [Node -> {"loop", "send", "propose"}]
  BY <1>0 DEF TypeOK
<1>3. /\ tick' \in [Node -> {"loop", "send", "propose"}]
      /\ \A k \in Node : tick'[k] = "propose" => tick[k] = "propose"
      /\ \A k \in Node : tick'[k] = "send" <=> tick[k] = "send"
  BY <1>2
<1>4. /\ raft' \in [Node -> RaftState]
      /\ out' \in [Node -> Seq(Message)]
      /\ led' \subseteq [term : 1..MaxTerm, node : Node]
      /\ AheadInv' /\ OutInv' /\ RoleInv' /\ LedInv'
  BY <1>0, <1>3, GoesOnInv
<1>5. batch' \in [Node -> Seq(Message)] /\ \A k \in Node : Range(batch'[k]) \subseteq Range(batch[k])
  <2>1. batch \in [Node -> Seq(Message)]
    BY <1>0 DEF TypeOK
  <2>2. CASE batch[n] # <<>> /\ batch' = [batch EXCEPT ![n] = Tail(@)]
    <3>1. Tail(batch[n]) \in Seq(Message) /\ Range(Tail(batch[n])) \subseteq Range(batch[n])
      BY <2>1, <2>2, RangeTail
    <3>. QED
      BY <2>1, <2>2, <3>1
  <2>. QED
    BY <2>1, <2>2
<1>6. \A k \in Node : (tick'[k] = "send") = (sending'[k] # <<>>)
  <2>1. \A k \in Node : (tick[k] = "send") = (sending[k] # <<>>)
    BY <1>0, Zenon DEF TypeOK
  <2>. QED
    BY <1>0, <1>3, <2>1, Zenon
<1>7. TypeOK'
  <2>1. /\ up \subseteq Node
        /\ hard \in [Node -> [term : 1..MaxTerm, vote : Node \cup {None}]]
        /\ sending \in [Node -> Seq(Message)]
        /\ wire \in [Node -> [Node -> Seq(Message)]]
        /\ \A k, d \in Node : Len(wire[k][d]) <= WireCap
        /\ recvc \in [Node -> Seq(Message)] /\ \A k \in Node : Len(recvc[k]) <= RecvCap
    BY <1>0 DEF TypeOK
  <2>. QED
    BY <1>0, <1>3, <1>4, <1>5, <1>6, <2>1, Zenon DEF TypeOK, RaftState
<1>8. SentInv'
  <2>1. \A k \in Node :
          /\ \A m \in Range(sending'[k]) \cup Range(recvc'[k]) \cup Range(batch'[k]) : SentOK(m)
          /\ \A d \in Node : \A m \in Range(wire'[k][d]) : SentOK(m)
    BY <1>0, <1>5 DEF SentInv
  <2>. QED
    BY <1>0, <1>1, <1>7, <2>1, SentInvStays
<1>9. DeliverInv'
  BY <1>0, <1>5 DEF DeliverInv
<1>. QED
  BY <1>4, <1>7, <1>8, <1>9 DEF LoopInv


\* An election timeout, a heartbeat, a proposal, a message that is stepped.
LEMMA RaftActionsInv ==
    ASSUME LoopInv, NEW n \in Node,
           Hup(n) \/ Beat(n) \/ GcPropose(n) \/ StepMsg(n) \/ ClientProp(n)
    PROVE  LoopInv'
<1>0. /\ hups \in 0..MaxHup /\ props \in 0..MaxProp /\ crashes \in 0..MaxCrash
      /\ MaxHup \in Nat /\ MaxProp \in Nat
  BY LoopAssumption DEF LoopInv, TypeOK
<1>1. CASE Hup(n)
  <2>1. GoesOn(n)
    BY <1>1, HupGood
  <2>2. /\ UNCHANGED <<up, hard, sending, server, batch, props, crashes>>
        /\ hups' = hups + 1 /\ hups < MaxHup /\ tick' = tick
    BY <1>1 DEF Hup, loop
  <2>3. hups' \in 0..MaxHup
    BY <1>0, <2>2
  <2>. QED
    BY <1>0, <2>1, <2>2, <2>3, RaftStepInv
<1>2. CASE Beat(n)
  <2>1. GoesOn(n)
    BY <1>2, BeatGood
  <2>2. UNCHANGED <<up, hard, sending, server, batch, hups, props, crashes>> /\ tick' = tick
    BY <1>2 DEF Beat, loop, counters
  <2>. QED
    BY <1>0, <2>1, <2>2, RaftStepInv
<1>3. CASE GcPropose(n)
  <2>1. GoesOn(n)
    BY <1>3, PropGood DEF GcPropose, GoesOn
  <2>2. /\ UNCHANGED <<up, hard, sending, server, batch, hups, props, crashes>>
        /\ tick[n] = "propose" /\ tick' = [tick EXCEPT ![n] = "loop"]
    BY <1>3 DEF GcPropose, counters
  <2>. QED
    BY <1>0, <2>1, <2>2, RaftStepInv
<1>4. CASE ClientProp(n)
  <2>1. GoesOn(n)
    BY <1>4, PropGood DEF ClientProp, GoesOn
  <2>2. /\ UNCHANGED <<up, hard, sending, server, batch, hups, crashes>>
        /\ props' = props + 1 /\ props < MaxProp /\ tick' = tick
    BY <1>4 DEF ClientProp, loop
  <2>3. props' \in 0..MaxProp
    BY <1>0, <2>2
  <2>. QED
    BY <1>0, <2>1, <2>2, <2>3, RaftStepInv
<1>5. CASE StepMsg(n)
  <2>. DEFINE m == Head(batch[n])
  <2>1. /\ UNCHANGED <<up, hard, sending, server, hups, props, crashes>> /\ tick' = tick
        /\ batch[n] # <<>> /\ batch' = [batch EXCEPT ![n] = Tail(@)]
        /\ (m.type = "Prop" /\ StepProp(n)) \/ StepOther(n, m)
    BY <1>5 DEF StepMsg, loop, counters
  <2>2. m \in Message /\ m \in Range(batch[n])
    BY <2>1, QueueType, RangeTail DEF LoopInv
  <2>3. m.to = n /\ SentOK(m)
    BY <2>2 DEF LoopInv, DeliverInv, SentInv
  <2>. HIDE DEF m
  <2>4. GoesOn(n)
    BY <2>1, <2>2, <2>3, StepGood
  <2>. QED
    BY <1>0, <2>1, <2>4, RaftStepInv
<1>. QED
  BY <1>1, <1>2, <1>3, <1>4, <1>5

\* Steps that leave raft and the HardState alone.
LEMMA IdleInv ==
    ASSUME LoopInv, UNCHANGED <<hard, raft, out, led>>,
           \A k \in Node : tick'[k] = "propose" => tick[k] = "propose" \/ raft[k].lead = k
    PROVE  AheadInv' /\ OutInv' /\ RoleInv' /\ LedInv' /\ HardForward
<1>0. TypeOK /\ HardForward
  BY HardStays DEF LoopInv
<1>1. AheadInv'
  BY DEF LoopInv, AheadInv
<1>2. OutInv'
  BY DEF LoopInv, OutInv, Says, Saved, Holds
<1>3. LedInv'
  BY DEF LoopInv, LedInv, Saved, Holds
<1>4. RoleInv'
  <2>. SUFFICES ASSUME NEW k \in Node
                PROVE  /\ RoleOK(k, raft[k], led)'
                       /\ tick'[k] = "propose" => raft[k].role \in {"Leader", "Follower"}
    BY DEF RoleInv
  <2>1. RoleOK(k, raft[k], led)'
    BY DEF LoopInv, RoleInv, RoleOK, Saved, Holds
  <2>2. CASE tick[k] = "propose"
    BY <2>1, <2>2 DEF LoopInv, RoleInv
  <2>3. CASE raft[k].lead = k
    <3>1. raft[k].role \in {"Follower", "PreCandidate", "Candidate", "Leader"} /\ k # None
      BY <1>0, RaftType, LoopAssumption DEF RaftState
    <3>2. RoleOK(k, raft[k], led)
      BY DEF LoopInv, RoleInv
    <3>. QED
      BY <2>1, <2>3, <3>1, <3>2 DEF RoleOK
  <2>. QED
    BY <2>1, <2>2, <2>3
<1>. QED
  BY <1>0, <1>1, <1>2, <1>3, <1>4

\* onTick asks whether it leads, and will propose.
LEMMA GcCheckInv ==
    ASSUME LoopInv, NEW n \in Node, GcCheck(n)
    PROVE  LoopInv'
<1>0. TypeOK /\ DeliverInv /\ SentInv
  BY DEF LoopInv
<1>1. /\ tick[n] = "loop" /\ raft[n].lead = n /\ props < MaxProp
      /\ tick' = [tick EXCEPT ![n] = "propose"] /\ props' = props + 1
      /\ UNCHANGED <<up, hard, raft, out, sending, wire, recvc, batch, led, hups, crashes>>
  BY DEF GcCheck, InLoop, server
<1>2. tick \in [Node -> {"loop", "send", "propose"}] /\ props \in 0..MaxProp /\ MaxProp \in Nat
  BY <1>0, LoopAssumption DEF TypeOK
<1>3. /\ tick' \in [Node -> {"loop", "send", "propose"}] /\ props' \in 0..MaxProp
      /\ \A k \in Node : tick'[k] = "propose" => tick[k] = "propose" \/ raft[k].lead = k
      /\ \A k \in Node : tick'[k] = "send" <=> tick[k] = "send"
  BY <1>1, <1>2
<1>4. AheadInv' /\ OutInv' /\ RoleInv' /\ LedInv' /\ HardForward
  BY <1>1, <1>3, IdleInv
<1>5. \A k \in Node : (tick'[k] = "send") = (sending'[k] # <<>>)
  BY <1>0, <1>1, <1>3, Zenon DEF TypeOK
<1>6. TypeOK'
  BY <1>0, <1>1, <1>3, <1>5, Zenon DEF TypeOK
<1>7. SentInv' /\ DeliverInv'
  BY <1>0, <1>1 DEF SentInv, DeliverInv, SentOK, Saved, Holds
<1>. QED
  BY <1>4, <1>6, <1>7 DEF LoopInv

\* One stream is changed.
LEMMA WireUpdate ==
    ASSUME wire \in [Node -> [Node -> Seq(Message)]],
           \A k, d \in Node : Len(wire[k][d]) <= WireCap,
           NEW n \in Node, NEW t \in Node, NEW new \in Seq(Message), Len(new) <= WireCap,
           wire' = [wire EXCEPT ![n][t] = new]
    PROVE  /\ wire' \in [Node -> [Node -> Seq(Message)]]
           /\ wire'[n][t] = new
           /\ \A k, d \in Node : k # n \/ d # t => wire'[k][d] = wire[k][d]
           /\ \A k, d \in Node : Len(wire'[k][d]) <= WireCap
<1>1. wire' \in [Node -> [Node -> Seq(Message)]]
  OBVIOUS
<1>2. wire'[n][t] = new /\ \A k, d \in Node : k # n \/ d # t => wire'[k][d] = wire[k][d]
  OBVIOUS
<1>3. ASSUME NEW k \in Node, NEW d \in Node PROVE Len(wire'[k][d]) <= WireCap
  <2>1. CASE k = n /\ d = t
    BY <1>2, <2>1
  <2>2. CASE k # n \/ d # t
    BY <1>2, <2>2
  <2>. QED
    BY <2>1, <2>2
<1>. QED
  BY <1>1, <1>2, <1>3

\* Send gives a message to the stream, or drops it.
LEMMA SendInv ==
    ASSUME LoopInv, NEW n \in Node, Send(n)
    PROVE  LoopInv'
<1>0. TypeOK /\ DeliverInv /\ SentInv
  BY DEF LoopInv
<1>. DEFINE e == Head(sending[n])
<1>1. /\ tick[n] = "send"
      /\ \/ UNCHANGED wire
         \/ /\ Len(wire[n][e.to]) < WireCap
            /\ wire' = [wire EXCEPT ![n][e.to] = Append(@, e)]
      /\ sending' = [sending EXCEPT ![n] = Tail(@)]
      /\ tick' = [tick EXCEPT ![n] = IF Len(sending[n]) = 1 THEN "loop" ELSE "send"]
      /\ UNCHANGED <<up, hard, raft, out, recvc, batch, led, hups, props, crashes>>
  BY DEF Send, Room, Dest, counters
<1>2. /\ tick \in [Node -> {"loop", "send", "propose"}] /\ sending \in [Node -> Seq(Message)]
      /\ wire \in [Node -> [Node -> Seq(Message)]]
      /\ \A k, d \in Node : Len(wire[k][d]) <= WireCap
      /\ WireCap \in Nat
  BY <1>0, LoopAssumption DEF TypeOK
<1>3. sending[n] # <<>>
  BY <1>0, <1>1, Zenon DEF TypeOK
<1>4. /\ e \in Message /\ e \in Range(sending[n])
      /\ Tail(sending[n]) \in Seq(Message) /\ Range(Tail(sending[n])) \subseteq Range(sending[n])
      /\ Tail(sending[n]) # <<>> <=> Len(sending[n]) # 1
  BY <1>2, <1>3, RangeTail
<1>5. e.to \in Node
  BY <1>4, MessageType
<1>. HIDE DEF e
<1>6. /\ sending' \in [Node -> Seq(Message)]
      /\ \A k \in Node : Range(sending'[k]) \subseteq Range(sending[k])
  BY <1>1, <1>2, <1>4
<1>7. /\ tick' \in [Node -> {"loop", "send", "propose"}]
      /\ \A k \in Node : tick'[k] = "propose" => tick[k] = "propose" \/ raft[k].lead = k
      /\ \A k \in Node : k # n => tick'[k] = tick[k] /\ sending'[k] = sending[k]
      /\ tick'[n] = "send" <=> Len(sending[n]) # 1
      /\ sending'[n] # <<>> <=> Len(sending[n]) # 1
  BY <1>1, <1>2, <1>4
<1>8. \A k \in Node : (tick'[k] = "send") = (sending'[k] # <<>>)
  BY <1>0, <1>7, Zenon DEF TypeOK
<1>9. /\ wire' \in [Node -> [Node -> Seq(Message)]]
      /\ \A k, d \in Node : Len(wire'[k][d]) <= WireCap
      /\ \A k, d \in Node : \A m \in Range(wire'[k][d]) :
           m \in Range(wire[k][d]) \/ (k = n /\ d = e.to /\ m = e)
  <2>1. CASE UNCHANGED wire
    BY <1>2, <2>1
  <2>2. CASE /\ Len(wire[n][e.to]) < WireCap
             /\ wire' = [wire EXCEPT ![n][e.to] = Append(@, e)]
    <3>. DEFINE new == Append(wire[n][e.to], e)
    <3>1. /\ new \in Seq(Message) /\ Len(new) = Len(wire[n][e.to]) + 1
          /\ Range(new) = Range(wire[n][e.to]) \cup {e}
          /\ Len(wire[n][e.to]) \in Nat
      BY <1>2, <1>4, <1>5, RangeAppend
    <3>2. wire' = [wire EXCEPT ![n][e.to] = new]
      BY <2>2
    <3>3. Len(new) <= WireCap
      BY <1>2, <2>2, <3>1
    <3>. HIDE DEF new
    <3>4. /\ wire' \in [Node -> [Node -> Seq(Message)]]
          /\ wire'[n][e.to] = new
          /\ \A k, d \in Node : k # n \/ d # e.to => wire'[k][d] = wire[k][d]
          /\ \A k, d \in Node : Len(wire'[k][d]) <= WireCap
      BY <1>2, <1>5, <3>1, <3>2, <3>3, WireUpdate
    <3>5. ASSUME NEW k \in Node, NEW d \in Node, NEW m \in Range(wire'[k][d])
          PROVE  m \in Range(wire[k][d]) \/ (k = n /\ d = e.to /\ m = e)
      <4>1. CASE k = n /\ d = e.to
        BY <3>1, <3>4, <4>1
      <4>2. CASE k # n \/ d # e.to
        BY <3>4, <4>2
      <4>. QED
        BY <4>1, <4>2
    <3>. QED
      BY <3>4, <3>5
  <2>. QED
    BY <1>1, <2>1, <2>2
<1>10. AheadInv' /\ OutInv' /\ RoleInv' /\ LedInv' /\ HardForward
  BY <1>1, <1>7, IdleInv
<1>11. TypeOK'
  BY <1>0, <1>1, <1>6, <1>7, <1>8, <1>9, Zenon DEF TypeOK
<1>12. DeliverInv'
  <2>1. ASSUME NEW k \in Node, NEW d \in Node, NEW m \in Range(wire'[k][d]) PROVE m.to = d
    <3>1. m \in Range(wire[k][d]) \/ (d = e.to /\ m = e)
      BY <1>9
    <3>2. CASE m \in Range(wire[k][d])
      BY <1>0, <3>2 DEF DeliverInv
    <3>. QED
      BY <3>1, <3>2
  <2>2. \A k \in Node : \A m \in Range(recvc'[k]) \cup Range(batch'[k]) : m.to = k
    BY <1>0, <1>1 DEF DeliverInv
  <2>. QED
    BY <2>1, <2>2 DEF DeliverInv
<1>13. SentInv'
  <2>1. SentOK(e)
    BY <1>0, <1>4 DEF SentInv
  <2>2. ASSUME NEW k \in Node, NEW d \in Node, NEW m \in Range(wire'[k][d]) PROVE SentOK(m)
    BY <1>0, <1>9, <2>1 DEF SentInv
  <2>3. ASSUME NEW k \in Node,
               NEW m \in Range(sending'[k]) \cup Range(recvc'[k]) \cup Range(batch'[k])
        PROVE  SentOK(m)
    BY <1>0, <1>1, <1>6 DEF SentInv
  <2>. QED
    BY <1>0, <1>10, <1>11, <2>2, <2>3, SentInvStays
<1>. QED
  BY <1>10, <1>11, <1>12, <1>13 DEF LoopInv


\* What a step that only moves messages to recvc and batch, or loses them, has to show.
LEMMA MovesInv ==
    ASSUME LoopInv, UNCHANGED <<hard, raft, out, led, tick, sending, hups, props, crashes>>,
           up' \subseteq Node,
           wire' \in [Node -> [Node -> Seq(Message)]],
           \A k, d \in Node : Len(wire'[k][d]) <= WireCap,
           recvc' \in [Node -> Seq(Message)], \A k \in Node : Len(recvc'[k]) <= RecvCap,
           batch' \in [Node -> Seq(Message)],
           \A k, d \in Node : Range(wire'[k][d]) \subseteq Range(wire[k][d]),
           \A k \in Node : \A m \in Range(recvc'[k]) \cup Range(batch'[k]) :
              \/ m \in Range(recvc[k]) \cup Range(batch[k])
              \/ \E j \in Node : m \in Range(wire[j][k])
    PROVE  LoopInv'
<1>0. TypeOK /\ DeliverInv /\ SentInv
  BY DEF LoopInv
<1>1. AheadInv' /\ OutInv' /\ RoleInv' /\ LedInv' /\ HardForward
  BY IdleInv
<1>2. TypeOK'
  BY <1>0, Zenon DEF TypeOK
<1>3. DeliverInv'
  <2>1. ASSUME NEW k \in Node, NEW d \in Node, NEW m \in Range(wire'[k][d]) PROVE m.to = d
    BY <1>0 DEF DeliverInv
  <2>2. ASSUME NEW k \in Node, NEW m \in Range(recvc'[k]) \cup Range(batch'[k]) PROVE m.to = k
    <3>1. CASE m \in Range(recvc[k]) \cup Range(batch[k])
      BY <1>0, <3>1 DEF DeliverInv
    <3>2. CASE \E j \in Node : m \in Range(wire[j][k])
      BY <1>0, <3>2 DEF DeliverInv
    <3>. QED
      BY <3>1, <3>2
  <2>. QED
    BY <2>1, <2>2 DEF DeliverInv
<1>4. SentInv'
  <2>1. ASSUME NEW k \in Node, NEW d \in Node, NEW m \in Range(wire'[k][d]) PROVE SentOK(m)
    BY <1>0 DEF SentInv
  <2>2. ASSUME NEW k \in Node,
               NEW m \in Range(sending'[k]) \cup Range(recvc'[k]) \cup Range(batch'[k])
        PROVE  SentOK(m)
    <3>1. CASE m \in Range(sending[k]) \cup Range(recvc[k]) \cup Range(batch[k])
      BY <1>0, <3>1 DEF SentInv
    <3>2. CASE \E j \in Node : m \in Range(wire[j][k])
      BY <1>0, <3>2 DEF SentInv
    <3>. QED
      BY <3>1, <3>2
  <2>. QED
    BY <1>0, <1>1, <1>2, <2>1, <2>2, SentInvStays
<1>. QED
  BY <1>1, <1>2, <1>3, <1>4 DEF LoopInv

\* RaftMessage moves a message to recvc.
LEMMA RaftMessageInv ==
    ASSUME LoopInv, NEW n \in Node, NEW t \in Node, RaftMessage(n, t)
    PROVE  LoopInv'
<1>. DEFINE e == Head(wire[n][t])
            rest == Tail(wire[n][t])
            new == Append(recvc[t], e)
<1>0. /\ TypeOK /\ up \subseteq Node
      /\ wire \in [Node -> [Node -> Seq(Message)]]
      /\ \A k, d \in Node : Len(wire[k][d]) <= WireCap
      /\ recvc \in [Node -> Seq(Message)] /\ \A k \in Node : Len(recvc[k]) <= RecvCap
      /\ batch \in [Node -> Seq(Message)]
  BY DEF LoopInv, TypeOK
<1>1. /\ wire[n][t] # <<>> /\ Len(recvc[t]) < RecvCap
      /\ recvc' = [recvc EXCEPT ![t] = new]
      /\ wire' = [wire EXCEPT ![n][t] = rest]
      /\ UNCHANGED <<up, hard, raft, out, tick, sending, batch, led, hups, props, crashes>>
  BY DEF RaftMessage, loop, counters
<1>2. /\ e \in Range(wire[n][t]) /\ e \in Message /\ rest \in Seq(Message)
      /\ Len(rest) = Len(wire[n][t]) - 1 /\ Range(rest) \subseteq Range(wire[n][t])
      /\ Len(wire[n][t]) \in Nat \ {0}
  BY <1>0, <1>1, RangeTail
<1>3. WireCap \in Nat /\ RecvCap \in Nat
  BY LoopAssumption
<1>4. Len(rest) <= WireCap
  BY <1>0, <1>2, <1>3
<1>5. /\ new \in Seq(Message) /\ Len(new) = Len(recvc[t]) + 1
      /\ Range(new) = Range(recvc[t]) \cup {e}
      /\ Len(recvc[t]) \in Nat
  BY <1>0, <1>2, RangeAppend
<1>6. Len(new) <= RecvCap
  BY <1>1, <1>3, <1>5
<1>. HIDE DEF e, rest, new
<1>7. /\ wire' \in [Node -> [Node -> Seq(Message)]]
      /\ wire'[n][t] = rest
      /\ \A k, d \in Node : k # n \/ d # t => wire'[k][d] = wire[k][d]
      /\ \A k, d \in Node : Len(wire'[k][d]) <= WireCap
  BY <1>0, <1>1, <1>2, <1>4, WireUpdate
<1>8. ASSUME NEW k \in Node, NEW d \in Node
      PROVE  Range(wire'[k][d]) \subseteq Range(wire[k][d])
  BY <1>2, <1>7
<1>9. recvc' \in [Node -> Seq(Message)] /\ \A k \in Node : Len(recvc'[k]) <= RecvCap
  BY <1>0, <1>1, <1>5, <1>6
<1>10. ASSUME NEW k \in Node, NEW m \in Range(recvc'[k]) \cup Range(batch'[k])
       PROVE  \/ m \in Range(recvc[k]) \cup Range(batch[k])
              \/ \E j \in Node : m \in Range(wire[j][k])
  <2>1. CASE k = t
    BY <1>0, <1>1, <1>2, <1>5, <2>1
  <2>2. CASE k # t
    BY <1>0, <1>1, <2>2
  <2>. QED
    BY <2>1, <2>2
<1>. QED
  BY <1>0, <1>1, <1>7, <1>8, <1>9, <1>10, MovesInv

\* handleRaftMsgs empties recvc into its batch.
LEMMA TakeBatchInv ==
    ASSUME LoopInv, NEW n \in Node, TakeBatch(n)
    PROVE  LoopInv'
<1>0. /\ TypeOK /\ up \subseteq Node
      /\ wire \in [Node -> [Node -> Seq(Message)]]
      /\ \A k, d \in Node : Len(wire[k][d]) <= WireCap
      /\ recvc \in [Node -> Seq(Message)] /\ \A k \in Node : Len(recvc[k]) <= RecvCap
      /\ batch \in [Node -> Seq(Message)]
  BY DEF LoopInv, TypeOK
<1>1. /\ batch' = [batch EXCEPT ![n] = recvc[n]] /\ recvc' = [recvc EXCEPT ![n] = <<>>]
      /\ UNCHANGED <<up, hard, raft, out, tick, sending, wire, led, hups, props, crashes>>
  BY DEF TakeBatch, loop, counters
<1>2. /\ Range(<<>>) = {} /\ Len(<<>>) = 0 /\ <<>> \in Seq(Message) /\ 0 <= RecvCap
  BY RangeEmpty, LoopAssumption
<1>3. PICK empty : empty = <<>>
  OBVIOUS
<1>4. recvc' \in [Node -> Seq(Message)] /\ batch' \in [Node -> Seq(Message)]
  BY <1>0, <1>1, <1>2
<1>5. \A k \in Node : Len(recvc'[k]) <= RecvCap
  BY <1>0, <1>1, <1>2, <1>3
<1>6. ASSUME NEW k \in Node, NEW m \in Range(recvc'[k]) \cup Range(batch'[k])
      PROVE  m \in Range(recvc[k]) \cup Range(batch[k])
  BY <1>0, <1>1, <1>2, <1>3
<1>. QED
  BY <1>0, <1>1, <1>4, <1>5, <1>6, MovesInv

\* A connection breaks.
LEMMA BreakInv ==
    ASSUME LoopInv, NEW n \in Node, NEW t \in Node, Break(n, t)
    PROVE  LoopInv'
<1>0. /\ TypeOK /\ up \subseteq Node
      /\ wire \in [Node -> [Node -> Seq(Message)]]
      /\ \A k, d \in Node : Len(wire[k][d]) <= WireCap
      /\ recvc \in [Node -> Seq(Message)] /\ \A k \in Node : Len(recvc[k]) <= RecvCap
      /\ batch \in [Node -> Seq(Message)]
  BY DEF LoopInv, TypeOK
<1>1. PICK empty : empty = <<>>
  OBVIOUS
<1>2. /\ Range(empty) = {} /\ Len(empty) <= WireCap /\ empty \in Seq(Message)
  BY <1>1, RangeEmpty, LoopAssumption
<1>3. /\ wire' = [wire EXCEPT ![n][t] = empty]
      /\ UNCHANGED <<up, hard, raft, out, tick, sending, recvc, batch, led, hups, props, crashes>>
  BY <1>1 DEF Break, loop, counters
<1>4. /\ wire' \in [Node -> [Node -> Seq(Message)]]
      /\ wire'[n][t] = empty
      /\ \A k, d \in Node : k # n \/ d # t => wire'[k][d] = wire[k][d]
      /\ \A k, d \in Node : Len(wire'[k][d]) <= WireCap
  BY <1>0, <1>2, <1>3, WireUpdate
<1>5. ASSUME NEW k \in Node, NEW d \in Node
      PROVE  Range(wire'[k][d]) \subseteq Range(wire[k][d])
  BY <1>2, <1>4
<1>. QED
  BY <1>0, <1>3, <1>4, <1>5, MovesInv

\* A process starts again.
LEMMA RestartInv ==
    ASSUME LoopInv, NEW n \in Node, Restart(n)
    PROVE  LoopInv'
<1>0. /\ TypeOK /\ up \subseteq Node
      /\ wire \in [Node -> [Node -> Seq(Message)]]
      /\ \A k, d \in Node : Len(wire[k][d]) <= WireCap
      /\ recvc \in [Node -> Seq(Message)] /\ \A k \in Node : Len(recvc[k]) <= RecvCap
      /\ batch \in [Node -> Seq(Message)]
  BY DEF LoopInv, TypeOK
<1>1. /\ up' \subseteq Node
      /\ UNCHANGED <<hard, raft, out, tick, sending, wire, recvc, batch, led, hups, props, crashes>>
  BY <1>0 DEF Restart, loop, server, counters
<1>. QED
  BY <1>0, <1>1, MovesInv


\* handleReady saves the HardState and begins to send what raft.msgs held.
LEMMA TakeReadyInv ==
    ASSUME LoopInv, NEW n \in Node, TakeReady(n)
    PROVE  LoopInv'
<1>0. /\ TypeOK /\ DeliverInv /\ SentInv /\ OutInv /\ AheadInv
      /\ hard \in [Node -> [term : 1..MaxTerm, vote : Node \cup {None}]]
      /\ out \in [Node -> Seq(Message)] /\ sending \in [Node -> Seq(Message)]
      /\ tick \in [Node -> {"loop", "send", "propose"}]
      /\ raft \in [Node -> RaftState]
  BY DEF LoopInv, TypeOK, RaftState
<1>. DEFINE h == HardState(n)
<1>1. /\ tick[n] = "loop"
      /\ hard' = [hard EXCEPT ![n] = h]
      /\ sending' = [sending EXCEPT ![n] = out[n]]
      /\ out' = [out EXCEPT ![n] = <<>>]
      /\ tick' = [tick EXCEPT ![n] = IF out[n] = <<>> THEN "loop" ELSE "send"]
      /\ UNCHANGED <<up, raft, wire, recvc, batch, led, hups, props, crashes>>
  BY DEF TakeReady, InLoop, server, counters
<1>2. /\ raft[n].term \in 1..MaxTerm /\ raft[n].vote \in Node \cup {None}
      /\ raft[n].term \in Nat /\ hard[n].term \in Nat
  BY <1>0, RaftType
<1>3. /\ h.term = raft[n].term /\ h.vote = raft[n].vote
      /\ h \in [term : 1..MaxTerm, vote : Node \cup {None}]
  BY <1>2 DEF HardState
<1>. HIDE DEF h
<1>4. /\ hard' \in [Node -> [term : 1..MaxTerm, vote : Node \cup {None}]]
      /\ hard'[n] = h /\ \A k \in Node : k # n => hard'[k] = hard[k]
  BY <1>0, <1>1, <1>3
<1>5. HardForward
  <2>. SUFFICES ASSUME NEW k \in Node
                PROVE  /\ Forward(hard[k], hard'[k])
                       /\ hard'[k].term \in Nat /\ hard'[k].vote \in Node \cup {None}
    BY DEF HardForward
  <2>1. CASE k = n
    BY <1>0, <1>2, <1>3, <1>4, <2>1 DEF AheadInv, Forward
  <2>2. CASE k # n
    BY <1>0, <1>4, <2>2, RaftType DEF Forward
  <2>. QED
    BY <2>1, <2>2
<1>6. /\ out' \in [Node -> Seq(Message)] /\ sending' \in [Node -> Seq(Message)]
      /\ Range(out'[n]) = {} /\ sending'[n] = out[n]
      /\ \A k \in Node : k # n => out'[k] = out[k] /\ sending'[k] = sending[k]
  BY <1>0, <1>1, RangeEmpty
<1>7. /\ tick' \in [Node -> {"loop", "send", "propose"}]
      /\ \A k \in Node : k # n => tick'[k] = tick[k]
      /\ tick'[n] = "send" <=> out[n] # <<>>
      /\ tick'[n] # "propose"
  BY <1>0, <1>1
<1>8. \A k \in Node : (tick'[k] = "send") = (sending'[k] # <<>>)
  <2>1. \A k \in Node : (tick[k] = "send") = (sending[k] # <<>>)
    BY <1>0, Zenon DEF TypeOK
  <2>. TAKE k \in Node
  <2>2. CASE k = n
    BY <1>6, <1>7, <2>2, Zenon
  <2>3. CASE k # n
    BY <1>6, <1>7, <2>1, <2>3, Zenon
  <2>. QED
    BY <2>2, <2>3, Zenon
<1>9. TypeOK'
  BY <1>0, <1>1, <1>4, <1>6, <1>7, <1>8, Zenon DEF TypeOK
<1>10. AheadInv'
  <2>. SUFFICES ASSUME NEW k \in Node
                PROVE  /\ raft[k].term >= hard'[k].term
                       /\ raft[k].term = hard'[k].term /\ hard'[k].vote # None =>
                            raft[k].vote = hard'[k].vote
    BY <1>1 DEF AheadInv
  <2>1. CASE k = n
    BY <1>2, <1>3, <1>4, <2>1
  <2>2. CASE k # n
    BY <1>0, <1>4, <2>2 DEF AheadInv
  <2>. QED
    BY <2>1, <2>2
<1>11. OutInv'
  <2>. SUFFICES ASSUME NEW k \in Node, NEW m \in Range(out'[k])
                PROVE  Says(k, raft[k], m)'
    BY DEF OutInv
  <2>1. k # n /\ m \in Range(out[k])
    BY <1>6
  <2>2. Says(k, raft[k], m) /\ m \in Message
    BY <1>0, <2>1, RangeType DEF OutInv
  <2>3. PICK q : q = raft[k]
    OBVIOUS
  <2>4. q.term \in Nat /\ Forward(q, q)
    BY <1>0, <2>3, RaftType DEF Forward
  <2>5. Says(k, q, m)'
    BY <1>0, <1>5, <2>2, <2>3, <2>4, SaysStays
  <2>. QED
    BY <1>1, <2>3, <2>5 DEF Says, Holds
<1>12. RoleInv'
  <2>. SUFFICES ASSUME NEW k \in Node
                PROVE  /\ RoleOK(k, raft[k], led)'
                       /\ tick'[k] = "propose" => raft[k].role \in {"Leader", "Follower"}
    BY <1>1 DEF RoleInv
  <2>1. PICK q, ls : q = raft[k] /\ ls = led
    OBVIOUS
  <2>2. RoleOK(k, q, ls) /\ q \in RaftState
    BY <1>0, <2>1 DEF LoopInv, RoleInv
  <2>3. RoleOK(k, q, ls)'
    BY <1>0, <1>5, <2>2, RoleStays
  <2>4. tick'[k] = "propose" => tick[k] = "propose"
    BY <1>7
  <2>. QED
    BY <1>1, <2>1, <2>3, <2>4 DEF LoopInv, RoleInv, RoleOK
<1>13. LedInv'
  BY <1>1, <1>5, LedStays
<1>14. DeliverInv'
  BY <1>0, <1>1 DEF DeliverInv
<1>15. ASSUME NEW m \in Range(out[n]) PROVE SentOK(m)'
  <2>1. Says(n, raft[n], m) /\ m \in Message
    BY <1>0, RangeType DEF OutInv
  <2>2. m.from = n /\ m.to \in Node /\ m.term \in Nat
    BY <2>1, MessageType DEF Says
  <2>3. m.type \notin {"PreVote", "PreVoteResp"} => hard'[m.from].term >= m.term
    BY <1>3, <1>4, <2>1, <2>2 DEF Says
  <2>4. m.type = "VoteResp" => Saved(m.from, m.to, m.term)'
    BY <1>3, <1>4, <2>1, <2>2 DEF Says, Saved, Holds
  <2>5. m.type = "VoteResp" => Saved(m.to, m.to, m.term)'
    BY <1>0, <1>5, <2>1, <2>2, SavedStays DEF Says
  <2>6. m.type = "Vote" => Saved(m.from, m.from, m.term)'
    BY <1>3, <1>4, <2>1, <2>2 DEF Says, Saved, Holds
  <2>. QED
    BY <2>3, <2>4, <2>5, <2>6 DEF SentOK
<1>16. SentInv'
  <2>1. ASSUME NEW k \in Node PROVE /\ sending[k] \in Seq(Message) /\ recvc[k] \in Seq(Message)
                                    /\ batch[k] \in Seq(Message)
                                    /\ \A d \in Node : wire[k][d] \in Seq(Message)
    BY <1>0, QueueType
  <2>2. ASSUME NEW k \in Node, NEW m \in Range(sending[k]) \cup Range(recvc[k]) \cup Range(batch[k])
        PROVE  SentOK(m)'
    <3>1. SentOK(m) /\ m \in Message
      BY <1>0, <2>1, RangeType DEF SentInv
    <3>. QED
      BY <1>0, <1>5, <3>1, SentStays
  <2>3. ASSUME NEW k \in Node, NEW d \in Node, NEW m \in Range(wire[k][d])
        PROVE  SentOK(m)'
    <3>1. SentOK(m) /\ m \in Message
      BY <1>0, <2>1, RangeType DEF SentInv
    <3>. QED
      BY <1>0, <1>5, <3>1, SentStays
  <2>4. ASSUME NEW k \in Node,
               NEW m \in Range(sending'[k]) \cup Range(recvc'[k]) \cup Range(batch'[k])
        PROVE  SentOK(m)'
    BY <1>1, <1>6, <1>15, <2>2
  <2>. QED
    BY <1>1, <2>3, <2>4 DEF SentInv
<1>. QED
  BY <1>9, <1>10, <1>11, <1>12, <1>13, <1>14, <1>16 DEF LoopInv

\* After a crash raft begins with the HardState.
LEMMA CrashInv ==
    ASSUME LoopInv, NEW n \in Node, Crash(n)
    PROVE  LoopInv'
<1>0. /\ TypeOK /\ DeliverInv /\ SentInv /\ OutInv /\ AheadInv
      /\ out \in [Node -> Seq(Message)] /\ sending \in [Node -> Seq(Message)]
      /\ recvc \in [Node -> Seq(Message)] /\ batch \in [Node -> Seq(Message)]
      /\ \A k \in Node : Len(recvc[k]) <= RecvCap
      /\ wire \in [Node -> [Node -> Seq(Message)]]
      /\ \A k, d \in Node : Len(wire[k][d]) <= WireCap
      /\ tick \in [Node -> {"loop", "send", "propose"}]
      /\ raft \in [Node -> RaftState]
      /\ crashes \in 0..MaxCrash
  BY DEF LoopInv, TypeOK, RaftState
<1>. DEFINE b == Booted(hard[n])
<1>1. PICK empty : empty = <<>>
  OBVIOUS
<1>2. /\ crashes < MaxCrash /\ up' = up \ {n}
      /\ raft' = [raft EXCEPT ![n] = b]
      /\ out' = [out EXCEPT ![n] = empty]
      /\ tick' = [tick EXCEPT ![n] = "loop"]
      /\ sending' = [sending EXCEPT ![n] = empty]
      /\ wire' = [m \in Node |-> [wire[m] EXCEPT ![n] = empty]]
      /\ recvc' = [recvc EXCEPT ![n] = empty]
      /\ batch' = [batch EXCEPT ![n] = empty]
      /\ crashes' = crashes + 1
      /\ UNCHANGED <<hard, led, hups, props>>
  BY <1>1 DEF Crash
<1>3. /\ Range(empty) = {} /\ Len(empty) = 0 /\ empty \in Seq(Message)
      /\ 0 <= RecvCap /\ 0 <= WireCap /\ MaxCrash \in Nat
  BY <1>1, RangeEmpty, LoopAssumption
<1>4. /\ b \in RaftState /\ b.term = hard[n].term /\ b.vote = hard[n].vote /\ b.role = "Follower"
  BY <1>0 DEF TypeOK, Booted, RaftState
<1>. HIDE DEF b
<1>5. raft' \in [Node -> RaftState] /\ raft'[n] = b /\ \A k \in Node : k # n => raft'[k] = raft[k]
  BY <1>0, <1>2, <1>4
<1>6. /\ out' \in [Node -> Seq(Message)] /\ sending' \in [Node -> Seq(Message)]
      /\ recvc' \in [Node -> Seq(Message)] /\ batch' \in [Node -> Seq(Message)]
      /\ out'[n] = empty /\ sending'[n] = empty /\ recvc'[n] = empty /\ batch'[n] = empty
      /\ \A k \in Node : k # n => /\ out'[k] = out[k] /\ sending'[k] = sending[k]
                                  /\ recvc'[k] = recvc[k] /\ batch'[k] = batch[k]
  BY <1>0, <1>2, <1>3
<1>7. /\ wire' \in [Node -> [Node -> Seq(Message)]]
      /\ \A k \in Node : wire'[k][n] = empty
      /\ \A k, d \in Node : d # n => wire'[k][d] = wire[k][d]
  BY <1>0, <1>2, <1>3
<1>8. /\ \A k \in Node : Range(out'[k]) \subseteq Range(out[k])
      /\ \A k \in Node : Range(sending'[k]) \subseteq Range(sending[k])
      /\ \A k \in Node : Range(recvc'[k]) \subseteq Range(recvc[k])
      /\ \A k \in Node : Range(batch'[k]) \subseteq Range(batch[k])
      /\ \A k, d \in Node : Range(wire'[k][d]) \subseteq Range(wire[k][d])
      /\ \A k \in Node : Len(recvc'[k]) <= RecvCap
      /\ \A k, d \in Node : Len(wire'[k][d]) <= WireCap
  <2>1. ASSUME NEW k \in Node
        PROVE  /\ Range(out'[k]) \subseteq Range(out[k])
               /\ Range(sending'[k]) \subseteq Range(sending[k])
               /\ Range(recvc'[k]) \subseteq Range(recvc[k])
               /\ Range(batch'[k]) \subseteq Range(batch[k])
               /\ Len(recvc'[k]) <= RecvCap
    BY <1>0, <1>3, <1>6
  <2>2. ASSUME NEW k \in Node, NEW d \in Node
        PROVE  /\ Range(wire'[k][d]) \subseteq Range(wire[k][d])
               /\ Len(wire'[k][d]) <= WireCap
    BY <1>0, <1>3, <1>7
  <2>. QED
    BY <2>1, <2>2
<1>9. /\ tick' \in [Node -> {"loop", "send", "propose"}]
      /\ \A k \in Node : k # n => tick'[k] = tick[k]
      /\ tick'[n] # "send" /\ tick'[n] # "propose" /\ sending'[n] = <<>>
      /\ crashes' \in 0..MaxCrash
  BY <1>0, <1>1, <1>2, <1>3
<1>10. \A k \in Node : (tick'[k] = "send") = (sending'[k] # <<>>)
  BY <1>0, <1>6, <1>9, Zenon DEF TypeOK
<1>11. TypeOK'
  <2>1. /\ hard \in [Node -> [term : 1..MaxTerm, vote : Node \cup {None}]]
        /\ led \subseteq [term : 1..MaxTerm, node : Node]
        /\ hups \in 0..MaxHup /\ props \in 0..MaxProp /\ up' \subseteq Node
    BY <1>0, <1>2 DEF TypeOK
  <2>. QED
    BY <1>2, <1>5, <1>6, <1>7, <1>8, <1>9, <1>10, <2>1, Zenon DEF TypeOK, RaftState
<1>12. HardForward
  BY <1>0, <1>2, HardStays
<1>13. AheadInv'
  <2>. SUFFICES ASSUME NEW k \in Node
                PROVE  /\ raft'[k].term >= hard[k].term
                       /\ raft'[k].term = hard[k].term /\ hard[k].vote # None =>
                            raft'[k].vote = hard[k].vote
    BY <1>2 DEF AheadInv
  <2>1. CASE k = n
    BY <1>0, <1>4, <1>5, <2>1, RaftType
  <2>2. CASE k # n
    BY <1>0, <1>5, <2>2 DEF AheadInv
  <2>. QED
    BY <2>1, <2>2
<1>14. OutInv'
  <2>. SUFFICES ASSUME NEW k \in Node, NEW m \in Range(out'[k])
                PROVE  Says(k, raft[k], m)'
    BY DEF OutInv
  <2>1. k # n /\ m \in Range(out[k])
    BY <1>3, <1>6
  <2>2. Says(k, raft[k], m) /\ raft'[k] = raft[k]
    BY <1>0, <1>5, <2>1 DEF OutInv
  <2>. QED
    BY <1>2, <2>2 DEF Says, Holds, Saved
<1>15. RoleInv'
  <2>. SUFFICES ASSUME NEW k \in Node
                PROVE  /\ RoleOK(k, raft[k], led)'
                       /\ tick'[k] = "propose" => raft'[k].role \in {"Leader", "Follower"}
    BY DEF RoleInv
  <2>1. CASE k = n
    BY <1>4, <1>5, <2>1 DEF RoleOK
  <2>2. CASE k # n
    <3>1. RoleOK(k, raft[k], led) /\ raft'[k] = raft[k] /\ tick'[k] = tick[k]
      BY <1>5, <1>9, <2>2 DEF LoopInv, RoleInv
    <3>. QED
      BY <1>2, <3>1 DEF LoopInv, RoleInv, RoleOK, Saved, Holds
  <2>. QED
    BY <2>1, <2>2
<1>16. LedInv'
  BY <1>2, <1>12, LedStays
<1>17. DeliverInv'
  BY <1>0, <1>8 DEF DeliverInv
<1>18. SentInv'
  <2>1. ASSUME NEW k \in Node, NEW d \in Node, NEW m \in Range(wire'[k][d]) PROVE SentOK(m)
    BY <1>0, <1>8 DEF SentInv
  <2>2. ASSUME NEW k \in Node,
               NEW m \in Range(sending'[k]) \cup Range(recvc'[k]) \cup Range(batch'[k])
        PROVE  SentOK(m)
    BY <1>0, <1>8 DEF SentInv
  <2>. QED
    BY <1>0, <1>11, <1>12, <2>1, <2>2, SentInvStays
<1>. QED
  BY <1>11, <1>13, <1>14, <1>15, <1>16, <1>17, <1>18 DEF LoopInv


\* It holds when the model begins.
LEMMA InvInit == Init => LoopInv
<1>. SUFFICES ASSUME Init PROVE LoopInv
  OBVIOUS
<1>0. /\ First \in Node /\ First # None /\ MaxTerm \in Nat /\ 1 \in 1..MaxTerm
      /\ {MaxHup, MaxProp, MaxCrash} \subseteq Nat /\ WireCap \in Nat /\ RecvCap \in Nat
  BY LoopAssumption
<1>1. PICK empty : empty = <<>>
  OBVIOUS
<1>2. Range(empty) = {} /\ Len(empty) = 0 /\ empty \in Seq(Message)
  BY <1>1, RangeEmpty
<1>3. /\ up = Node
      /\ hard = [n \in Node |-> [term |-> 1, vote |-> First]]
      /\ out = [n \in Node |-> empty] /\ sending = [n \in Node |-> empty]
      /\ tick = [n \in Node |-> "loop"]
      /\ wire = [n \in Node |-> [d \in Node |-> empty]]
      /\ recvc = [n \in Node |-> empty] /\ batch = [n \in Node |-> empty]
      /\ led = {[term |-> 1, node |-> First]}
      /\ hups = 0 /\ props = 0 /\ crashes = 0
  BY <1>1 DEF Init
<1>4. ASSUME NEW n \in Node
      PROVE  /\ raft[n] \in RaftState
             /\ raft[n].term = 1 /\ raft[n].lead = First /\ raft[n].vote = First
             /\ raft[n].role \in {"Leader", "Follower"}
             /\ raft[n].role = "Leader" => n = First
             /\ hard[n].term = 1 /\ hard[n].vote = First
  <2>. DEFINE b == Booted(hard[n])
              role == IF n = First THEN "Leader" ELSE "Follower"
  <2>1. raft[n] = [b EXCEPT !.lead = First, !.role = role]
    BY DEF Init
  <2>2. hard[n].term = 1 /\ hard[n].vote = First
    BY <1>3
  <2>3. b = [term |-> 1, role |-> "Follower", lead |-> None, votes |-> {}, vote |-> First]
    BY <2>2 DEF Booted
  <2>4. role \in {"Leader", "Follower"} /\ (role = "Leader" => n = First)
    OBVIOUS
  <2>. HIDE DEF b, role
  <2>5. raft[n] = [term |-> 1, role |-> role, lead |-> First, votes |-> {}, vote |-> First]
    BY <2>1, <2>3
  <2>. QED
    BY <1>0, <2>2, <2>4, <2>5 DEF RaftState
<1>5. raft \in [Node -> RaftState]
  BY <1>4 DEF Init
<1>6. TypeOK
  <2>1. /\ hard \in [Node -> [term : 1..MaxTerm, vote : Node \cup {None}]]
        /\ out \in [Node -> Seq(Message)] /\ sending \in [Node -> Seq(Message)]
        /\ tick \in [Node -> {"loop", "send", "propose"}]
        /\ recvc \in [Node -> Seq(Message)] /\ batch \in [Node -> Seq(Message)]
        /\ wire \in [Node -> [Node -> Seq(Message)]]
    BY <1>0, <1>2, <1>3
  <2>2. /\ \A n \in Node : tick[n] # "send" /\ sending[n] = <<>>
        /\ \A n, d \in Node : Len(wire[n][d]) <= WireCap
        /\ \A n \in Node : Len(recvc[n]) <= RecvCap
    BY <1>0, <1>1, <1>2, <1>3
  <2>3. \A n \in Node : (tick[n] = "send") = (sending[n] # <<>>)
    BY <2>2, Zenon
  <2>4. /\ led \subseteq [term : 1..MaxTerm, node : Node]
        /\ hups \in 0..MaxHup /\ props \in 0..MaxProp /\ crashes \in 0..MaxCrash
        /\ up \subseteq Node
    BY <1>0, <1>3
  <2>. QED
    BY <1>5, <2>1, <2>2, <2>3, <2>4, Zenon DEF TypeOK, RaftState
<1>7. AheadInv
  BY <1>4 DEF AheadInv
<1>8. DeliverInv /\ SentInv /\ OutInv
  <2>1. ASSUME NEW n \in Node
        PROVE  /\ Range(out[n]) = {} /\ Range(sending[n]) = {} /\ Range(recvc[n]) = {}
               /\ Range(batch[n]) = {} /\ \A d \in Node : Range(wire[n][d]) = {}
    BY <1>2, <1>3
  <2>. QED
    BY <2>1 DEF DeliverInv, SentInv, OutInv
<1>9. RoleInv
  <2>1. ASSUME NEW n \in Node PROVE RoleOK(n, raft[n], led) /\ tick[n] # "propose"
    BY <1>3, <1>4 DEF RoleOK
  <2>. QED
    BY <2>1 DEF RoleInv
<1>10. LedInv
  BY <1>3, <1>4 DEF LedInv, Saved, Holds
<1>. QED
  BY <1>6, <1>7, <1>8, <1>9, <1>10 DEF LoopInv

\* Every step preserves it.
LEMMA InvNext == LoopInv /\ [Next]_vars => LoopInv'
<1>. SUFFICES ASSUME LoopInv, [Next]_vars PROVE LoopInv'
  OBVIOUS
<1>1. CASE Next
  BY <1>1, RaftActionsInv, GcCheckInv, TakeReadyInv, SendInv, TakeBatchInv, CrashInv, RestartInv,
     RaftMessageInv, BreakInv DEF Next, onTick, handleRaftMsgs
<1>2. CASE UNCHANGED vars
  <2>1. UNCHANGED <<up, hard, raft, out, tick, sending, wire, recvc, batch, led, hups, props, crashes>>
    BY <1>2 DEF vars, loop, server, counters
  <2>2. /\ TypeOK /\ up \subseteq Node
        /\ wire \in [Node -> [Node -> Seq(Message)]]
        /\ \A k, d \in Node : Len(wire[k][d]) <= WireCap
        /\ recvc \in [Node -> Seq(Message)] /\ \A k \in Node : Len(recvc[k]) <= RecvCap
        /\ batch \in [Node -> Seq(Message)]
    BY DEF LoopInv, TypeOK
  <2>. QED
    BY <2>1, <2>2, MovesInv
<1>. QED
  BY <1>1, <1>2

-----------------------------------------------------------------------------
(* The theorems *)

\* The inductive invariant holds in every reachable state, for any replicas, capacities of
\* the channels and bounds.
THEOREM LoopInvariant == Spec => []LoopInv
BY InvInit, InvNext, PTL DEF Spec

\* The variables have their types: recvc and the streams never hold more than they can, and
\* onTick is sending just when it has something to send (peer.go:197-233).
THEOREM LoopTypes == Spec => []TypeOK
<1>1. LoopInv => TypeOK
  BY DEF LoopInv
<1>. QED
  BY <1>1, LoopInvariant, PTL

\* Whatever crashes and wherever its messages are, a replica has saved the vote that it gave
\* or asks for: handleReady saves the HardState before it sends (peer.go:217 before 224).
THEOREM SaysWhatIsSaved == Spec => []SentIsSaved
<1>1. LoopInv => SentIsSaved
  <2>. SUFFICES ASSUME LoopInv, NEW m \in Sent
                PROVE  LET h == hard[m.from] IN
                       /\ m.type \notin {"PreVote", "PreVoteResp"} => h.term >= m.term
                       /\ m.type = "VoteResp" /\ h.term = m.term => h.vote = m.to
                       /\ m.type = "Vote" /\ h.term = m.term => h.vote = m.from
    BY DEF SentIsSaved
  <2>1. PICK n \in Node :
          \/ m \in Range(sending[n]) \cup Range(recvc[n]) \cup Range(batch[n])
          \/ \E d \in Node : m \in Range(wire[n][d])
    BY DEF Sent
  <2>2. SentOK(m)
    BY <2>1 DEF LoopInv, SentInv
  <2>3. m \in Message
    <3>1. /\ sending[n] \in Seq(Message) /\ recvc[n] \in Seq(Message)
          /\ batch[n] \in Seq(Message) /\ \A d \in Node : wire[n][d] \in Seq(Message)
      BY QueueType DEF LoopInv
    <3>. QED
      BY <2>1, <3>1, RangeType
  <2>4. m.from \in Node /\ m.term \in Nat /\ hard[m.from].term \in Nat
    BY <2>3, MessageType, RaftType DEF LoopInv
  <2>. QED
    BY <2>2, <2>4 DEF SentOK, Saved, Holds
<1>. QED
  BY <1>1, LoopInvariant, PTL

\* Across any number of crashes and restarts no term has two leaders.
THEOREM OneLeader == Spec => []OneLeaderPerTerm
<1>1. LoopInv => OneLeaderPerTerm
  <2>. SUFFICES ASSUME LoopInv PROVE OneLeaderPerTerm
    OBVIOUS
  <2>. DEFINE now == {[term |-> raft[n].term, node |-> n] : n \in {m \in Node : raft[m].role = "Leader"}}
  <2>1. now \subseteq led
    BY DEF LoopInv, RoleInv, RoleOK
  <2>2. \A l, k \in led : l.term = k.term => l.node = k.node
    BY DEF LoopInv, LedInv
  <2>. QED
    BY <2>1, <2>2 DEF OneLeaderPerTerm
<1>. QED
  BY <1>1, LoopInvariant, PTL


-----------------------------------------------------------------------------
(* The two ways to wait are final *)

\* A step of raft changes no other replica.
LEMMA BecomeOthers ==
    ASSUME TypeOK, NEW n \in Node, NEW k \in Node, NEW r, NEW ms, Become(n, r, ms)
    PROVE  /\ k # n => raft'[k] = raft[k] /\ out'[k] = out[k]
           /\ raft'[n] = r
BY DEF Become, TypeOK

\* What steps of raft do at the replica n and at the others.
LEMMA StepAt ==
    ASSUME LoopInv, NEW n \in Node, NEW k \in Node, k # n,
           Hup(n) \/ Beat(n) \/ GcPropose(n) \/ StepMsg(n) \/ ClientProp(n)
    PROVE  /\ raft'[k] = raft[k] /\ out'[k] = out[k] /\ tick'[k] = tick[k]
           /\ batch'[k] = batch[k]
<1>0. TypeOK /\ batch \in [Node -> Seq(Message)] /\ tick \in [Node -> {"loop", "send", "propose"}]
  BY DEF LoopInv, TypeOK
<1>1. GoesOn(n)
  <2>1. CASE StepMsg(n)
    <3>. DEFINE m == Head(batch[n])
    <3>1. batch[n] # <<>> /\ ((m.type = "Prop" /\ StepProp(n)) \/ StepOther(n, m))
      BY <2>1 DEF StepMsg
    <3>2. m \in Message /\ m \in Range(batch[n])
      BY <1>0, <3>1, RangeTail
    <3>3. m.to = n /\ SentOK(m)
      BY <3>2 DEF LoopInv, DeliverInv, SentInv
    <3>. HIDE DEF m
    <3>. QED
      BY <3>1, <3>2, <3>3, StepGood
  <2>. QED
    BY <2>1, HupGood, BeatGood, PropGood DEF GcPropose, ClientProp, GoesOn
<1>2. raft'[k] = raft[k] /\ out'[k] = out[k]
  BY <1>0, <1>1, BecomeOthers DEF GoesOn
<1>3. tick'[k] = tick[k] /\ batch'[k] = batch[k]
  BY <1>0 DEF Hup, Beat, GcPropose, StepMsg, ClientProp, loop
<1>. QED
  BY <1>2, <1>3

\* A replica that waits in handleRaftMsgs goes on waiting.
LEMMA WedgedStep ==
    ASSUME LoopInv, [Next]_vars, NEW n \in Node, Wedged(n)
    PROVE  Wedged(n)' \/ n \notin up'
<1>0. /\ TypeOK /\ n \in up /\ batch[n] # <<>> /\ Head(batch[n]).type = "Prop"
      /\ raft[n].lead = None /\ n # None
      /\ batch \in [Node -> Seq(Message)]
  BY LoopAssumption DEF LoopInv, Wedged, TypeOK
<1>1. SUFFICES n \in up' => batch'[n] = batch[n] /\ raft'[n].lead = None
  BY <1>0 DEF Wedged
<1>2. ASSUME NEW k \in Node, Hup(k) \/ Beat(k) \/ GcPropose(k) \/ StepMsg(k) \/ ClientProp(k)
      PROVE  batch'[n] = batch[n] /\ raft'[n].lead = None
  <2>1. CASE k # n
    BY <1>0, <1>2, <2>1, StepAt
  <2>2. CASE k = n /\ Hup(n)
    <3>1. raft'[n] = becomePreCandidate(n, raft[n]) /\ batch' = batch
      BY <1>0, <2>2, BecomeOthers DEF Hup
    <3>2. raft[n] \in RaftState
      BY <1>0, RaftType
    <3>. QED
      BY <3>1, <3>2 DEF becomePreCandidate, RaftState
  <2>3. CASE k = n /\ Beat(n)
    <3>1. raft'[n] = raft[n] /\ batch' = batch
      BY <1>0, <2>3, BecomeOthers DEF Beat, Same
    <3>. QED
      BY <1>0, <3>1
  <2>4. CASE k = n /\ (GcPropose(n) \/ ClientProp(n))
    BY <1>0, <2>4 DEF GcPropose, ClientProp, StepProp
  <2>5. CASE k = n /\ StepMsg(n)
    BY <1>0, <2>5 DEF StepMsg, StepProp, StepOther
  <2>. QED
    BY <1>2, <2>1, <2>2, <2>3, <2>4, <2>5
<1>3. ASSUME NEW k \in Node, TakeReady(k) \/ Send(k) \/ GcCheck(k) \/ Restart(k)
      PROVE  batch' = batch /\ raft' = raft
  BY <1>3 DEF TakeReady, Send, GcCheck, Restart
<1>4. ASSUME NEW k \in Node, TakeBatch(k)
      PROVE  batch'[n] = batch[n] /\ raft' = raft
  BY <1>0, <1>4 DEF TakeBatch
<1>5. ASSUME NEW k \in Node, Crash(k), n \in up'
      PROVE  batch'[n] = batch[n] /\ raft'[n] = raft[n]
  <2>1. k # n
    BY <1>5 DEF Crash
  <2>. QED
    BY <1>0, <1>5, <2>1 DEF Crash, TypeOK
<1>6. ASSUME NEW k \in Node, NEW d \in Node, RaftMessage(k, d) \/ Break(k, d)
      PROVE  batch' = batch /\ raft' = raft
  BY <1>6 DEF RaftMessage, Break
<1>7. CASE UNCHANGED vars
  BY <1>0, <1>7 DEF vars
<1>. QED
  BY <1>0, <1>2, <1>3, <1>4, <1>5, <1>6, <1>7 DEF Next, onTick, handleRaftMsgs

\* The goroutine that steps messages, once it waits for a leader to take a forwarded
\* proposal, waits until the process dies (peer.go:210).
THEOREM WedgedIsFinal == Spec => WedgedForever
<1>1. LoopInv /\ [Next]_vars => [\A n \in Node : Wedged(n) => Wedged(n)' \/ n \notin up']_vars
  BY WedgedStep
<1>. QED
  BY <1>1, LoopInvariant, PTL DEF Spec, WedgedForever


\* The message m will make no replica know a leader if those who may vote are in vs.
Quiet(m, vs) ==
    /\ m.type # "App"
    /\ m.type \in {"VoteResp", "PreVoteResp"} /\ m.to \in Able => m.from \in vs

\* What Gridlock says of a set vs, with all messages together.
Locked(vs) ==
    /\ Able \subseteq vs /\ Cardinality(vs) < Quorum
    /\ \A n \in up : raft[n].lead = None
    /\ \A n \in Able : raft[n].votes \subseteq vs
    /\ \A n \in up : \A m \in Range(sending[n]) \cup Range(recvc[n]) \cup Range(batch[n]) : Quiet(m, vs)
    /\ \A n \in up : ~Held(n) => \A m \in Range(out[n]) : Quiet(m, vs)
    /\ \A n, d \in Node : \A m \in Range(wire[n][d]) : Quiet(m, vs)

\* The messages of a sequence, by their places and as a set.
LEMMA NamingQuiet == \A s \in Seq(Message) : \A vs :
                       ~Naming(s, vs) <=> \A m \in Range(s) : Quiet(m, vs)
<1>. SUFFICES ASSUME NEW s \in Seq(Message), NEW vs
              PROVE  ~Naming(s, vs) <=> \A m \in Range(s) : Quiet(m, vs)
  OBVIOUS
<1>1. ASSUME NEW m
      PROVE  Quiet(m, vs) <=> ~(\/ m.type = "App"
                                \/ /\ m.type \in {"VoteResp", "PreVoteResp"}
                                   /\ m.to \in Able /\ m.from \notin vs)
  BY DEF Quiet
<1>2. \A i \in 1..Len(s) : s[i] \in Range(s)
  BY RangeType
<1>3. \A m \in Range(s) : \E i \in 1..Len(s) : m = s[i]
  BY RangeType
<1>. QED
  BY <1>1, <1>2, <1>3 DEF Naming

\* Locked is Gridlock with its witness.
SomeLocked == \E vs \in SUBSET Node : Locked(vs)

\* Replicas that are locked out are a gridlock, and the reverse.
LEMMA LockedGridlock == TypeOK => (Gridlock <=> SomeLocked)
<1>. SUFFICES ASSUME TypeOK, NEW vs \in SUBSET Node
              PROVE  ~UnderWay(vs) <=>
                       /\ \A n \in up : \A m \in Range(sending[n]) \cup Range(recvc[n]) \cup Range(batch[n]) : Quiet(m, vs)
                       /\ \A n \in up : ~Held(n) => \A m \in Range(out[n]) : Quiet(m, vs)
                       /\ \A n, d \in Node : \A m \in Range(wire[n][d]) : Quiet(m, vs)
  BY DEF Locked, SomeLocked, Gridlock
<1>0. up \subseteq Node
  BY DEF TypeOK
<1>1. ASSUME NEW n \in Node
      PROVE  /\ Naming(sending[n], vs) <=> ~(\A m \in Range(sending[n]) : Quiet(m, vs))
             /\ Naming(recvc[n], vs) <=> ~(\A m \in Range(recvc[n]) : Quiet(m, vs))
             /\ Naming(batch[n], vs) <=> ~(\A m \in Range(batch[n]) : Quiet(m, vs))
             /\ Naming(out[n], vs) <=> ~(\A m \in Range(out[n]) : Quiet(m, vs))
  BY QueueType, NamingQuiet
<1>2. ASSUME NEW n \in Node, NEW d \in Node
      PROVE  Naming(wire[n][d], vs) <=> ~(\A m \in Range(wire[n][d]) : Quiet(m, vs))
  BY QueueType, NamingQuiet
<1>. QED
  BY <1>0, <1>1, <1>2 DEF UnderWay

\* n may go on with r and ms without a leader becoming known.
Calm(n, r, ms, vs) ==
    /\ r.lead = None
    /\ n \in Able => r.votes \subseteq vs
    /\ IsFiniteSet(ms) /\ ms \subseteq Message
    /\ \A m \in ms : /\ m.type # "App"
                     /\ m.type \in {"VoteResp", "PreVoteResp"} => m.from = n

\* Fewer votes than a majority.
LEMMA TooFew ==
    ASSUME NEW vs \in SUBSET Node, Cardinality(vs) < Quorum, NEW votes \in SUBSET vs
    PROVE  ~Won(votes)
<1>1. IsFiniteSet(vs) /\ IsFiniteSet(votes) /\ Cardinality(votes) <= Cardinality(vs)
  BY LoopAssumption, FS_Subset
<1>2. Cardinality(votes) \in Nat /\ Cardinality(vs) \in Nat /\ Quorum \in Nat
  BY <1>1, LoopAssumption, FS_CardinalityType
<1>. QED
  BY <1>1, <1>2 DEF Won

\* One message of another type than App, or none.
LEMMA CalmOne ==
    ASSUME NEW n \in Node, NEW r, NEW vs, r.lead = None, n \in Able => r.votes \subseteq vs,
           NEW type \in {"PreVoteResp", "VoteResp", "Reject", "AppResp"}, NEW d \in Node,
           NEW t \in 0..MaxTerm
    PROVE  Calm(n, r, {Msg(type, n, d, t)}, vs) /\ Calm(n, r, {}, vs)
<1>. DEFINE e == Msg(type, n, d, t)
<1>1. e \in Message /\ e.type # "App" /\ e.from = n
  BY DEF Msg, Message
<1>. HIDE DEF e
<1>2. IsFiniteSet({e}) /\ IsFiniteSet({})
  BY OneMessage
<1>3. {e} \subseteq Message /\ \A m \in {e} : m.type # "App" /\ m.from = n
  BY <1>1
<1>4. Calm(n, r, {e}, vs)
  BY <1>2, <1>3 DEF Calm
<1>5. Calm(n, r, {}, vs)
  BY <1>2 DEF Calm
<1>. QED
  BY <1>4, <1>5 DEF e

\* No message that is stepped in a gridlock names a leader or makes one.
LEMMA StepCalm ==
    ASSUME LoopInv, NEW n \in Node, NEW m \in Message, m.to = n, NEW vs \in SUBSET Node,
           n \in Able \/ Held(n), Able \subseteq vs, Cardinality(vs) < Quorum,
           raft[n].lead = None, n \in Able => raft[n].votes \subseteq vs,
           Quiet(m, vs), StepOther(n, m)
    PROVE  \E r, ms : Become(n, r, ms) /\ Calm(n, r, ms, vs)
<1>0. /\ raft[n] \in RaftState /\ raft[n].term \in 0..MaxTerm /\ m.from \in Node
      /\ m.term \in 0..MaxTerm /\ n # None
  BY RaftType, LoopAssumption, MessageType DEF LoopInv
<1>. DEFINE r == Adjusted(n, m)
<1>1. /\ r.lead = None /\ r.votes \subseteq raft[n].votes /\ r.term \in 0..MaxTerm
      /\ r = raft[n] \/ r.role = "Follower"
  <2>1. r \in RaftState
    BY AdjustedGood
  <2>2. r.term \in 0..MaxTerm
    BY <2>1, LoopAssumption DEF RaftState
  <2>3. /\ r.lead = None /\ r.votes \subseteq raft[n].votes
        /\ r = raft[n] \/ r.role = "Follower"
    BY DEF Adjusted, Quiet, becomeFollower
  <2>. QED
    BY <2>2, <2>3
<1>2. n \in Able => r.votes \subseteq vs
  BY <1>1
<1>3. raft[n].role \in {"PreCandidate", "Candidate"} => n \in Able
  <2>1. tick[n] = "propose" => raft[n].role \in {"Leader", "Follower"}
    BY DEF LoopInv, RoleInv
  <2>2. Held(n) => tick[n] = "propose"
    BY DEF Held
  <2>. QED
    BY <2>1, <2>2
<1>. HIDE DEF r
<1>4. CASE StepLower(n, m)
  <2>1. \/ Become(n, raft[n], {})
        \/ Become(n, raft[n], {Msg("AppResp", n, m.from, raft[n].term)})
        \/ Become(n, raft[n], {Msg("Reject", n, m.from, raft[n].term)})
    BY <1>4 DEF StepLower, Same
  <2>. QED
    BY <1>0, <2>1, CalmOne
<1>5. CASE StepVote(n, m)
  <2>. DEFINE q == [r EXCEPT !.vote = m.from]
  <2>1. \/ Become(n, r, {})
        \/ Become(n, r, {Msg("PreVoteResp", n, m.from, m.term)})
        \/ Become(n, r, {Msg("Reject", n, m.from, r.term)})
        \/ Become(n, q, {Msg("VoteResp", n, m.from, m.term)})
    BY <1>5 DEF StepVote, r
  <2>2. r \in RaftState
    BY AdjustedGood DEF r
  <2>3. q.lead = None /\ q.votes = r.votes
    BY <1>1, <2>2 DEF RaftState
  <2>. HIDE DEF q
  <2>. QED
    BY <1>0, <1>1, <1>2, <2>1, <2>3, CalmOne
<1>6. CASE StepPreVoteResp(n, m)
  <2>. DEFINE votes == raft[n].votes \cup {m.from}
              q == [raft[n] EXCEPT !.votes = votes]
  <2>1. CASE Become(n, raft[n], {})
    BY <1>0, <2>1, CalmOne
  <2>2. CASE raft[n].role = "PreCandidate"
    <3>1. n \in Able
      BY <1>3, <2>2
    <3>2. m.from \in vs
      BY <1>6, <3>1 DEF Quiet, StepPreVoteResp
    <3>3. ~Won(votes)
      BY <3>1, <3>2, TooFew
    <3>4. Become(n, q, {})
      BY <1>6, <2>2, <3>3 DEF StepPreVoteResp
    <3>5. q.lead = None /\ q.votes = votes /\ votes \subseteq vs
      BY <1>0, <3>1, <3>2 DEF RaftState
    <3>. HIDE DEF q, votes
    <3>. QED
      BY <1>0, <3>4, <3>5, CalmOne
  <2>. QED
    BY <1>6, <2>1, <2>2 DEF StepPreVoteResp, Same
<1>7. CASE StepVoteResp(n, m)
  <2>. DEFINE votes == r.votes \cup {m.from}
              q == [r EXCEPT !.votes = votes]
  <2>1. CASE Become(n, r, {})
    BY <1>0, <1>1, <1>2, <2>1, CalmOne
  <2>2. CASE r.role = "Candidate"
    <3>1. n \in Able
      BY <1>1, <1>3, <2>2
    <3>2. m.from \in vs
      BY <1>7, <3>1 DEF Quiet, StepVoteResp
    <3>3. ~Won(votes)
      BY <1>2, <3>1, <3>2, TooFew
    <3>4. Become(n, q, {})
      BY <1>7, <2>2, <3>3 DEF StepVoteResp, r
    <3>5. r \in RaftState
      BY AdjustedGood DEF r
    <3>6. q.lead = None /\ q.votes = votes /\ votes \subseteq vs
      BY <1>1, <1>2, <3>1, <3>2, <3>5 DEF RaftState
    <3>. HIDE DEF q, votes
    <3>. QED
      BY <1>0, <3>4, <3>6, CalmOne
  <2>. QED
    BY <1>7, <2>1, <2>2 DEF StepVoteResp, r
<1>8. CASE StepApp(n, m)
  <2>1. Become(n, r, {})
    BY <1>8 DEF StepApp, Quiet, r
  <2>. QED
    BY <1>0, <1>1, <1>2, <2>1, CalmOne
<1>. QED
  BY <1>4, <1>5, <1>6, <1>7, <1>8 DEF StepOther


\* Who waits goes on waiting while no leader is known.
LEMMA AbleShrinks ==
    ASSUME LoopInv, [Next]_vars, up' = up, \A k \in up : raft'[k].lead = None,
           \A k \in up : tick[k] = "propose" => tick'[k] = "propose"
    PROVE  Able' \subseteq Able /\ \A k \in up : Held(k) => Held(k)'
<1>0. up \subseteq Node
  BY DEF LoopInv, TypeOK
<1>1. \A k \in up : Held(k) => Held(k)'
  BY DEF Held
<1>2. \A k \in up : Wedged(k) => Wedged(k)'
  BY <1>0, WedgedStep
<1>. QED
  BY <1>1, <1>2 DEF Able

\* A message that names nobody names nobody later.
LEMMA QuietStays ==
    ASSUME NEW m, NEW vs, Quiet(m, vs), Able' \subseteq Able
    PROVE  Quiet(m, vs)'
BY DEF Quiet

\* A calm step of raft leaves the gridlock as it is.
LEMMA CalmLocked ==
    ASSUME LoopInv, NEW vs \in SUBSET Node, Locked(vs), NEW n \in up, NEW r, NEW ms,
           Become(n, r, ms), Calm(n, r, ms, vs),
           \/ n \in Able \/ Held(n)
           \/ \A m \in ms : m.type \notin {"VoteResp", "PreVoteResp"},
           [Next]_vars, UNCHANGED <<up, sending, server, tick>>,
           \A k \in Node : Range(batch'[k]) \subseteq Range(batch[k])
    PROVE  Locked(vs)'
<1>0. TypeOK /\ up \subseteq Node /\ n \in Node /\ wire' = wire /\ recvc' = recvc
  BY DEF LoopInv, TypeOK, server
<1>1. /\ raft'[n] = r
      /\ \A k \in Node : k # n => raft'[k] = raft[k] /\ out'[k] = out[k]
      /\ Range(out'[n]) \subseteq Range(out[n]) \cup ms
  BY <1>0, BecomeFacts DEF Calm
<1>2. \A k \in up : raft'[k].lead = None
  BY <1>0, <1>1 DEF Locked, Calm
<1>3. Able' \subseteq Able /\ \A k \in up : Held(k) => Held(k)'
  BY <1>2, AbleShrinks
<1>4. Able' \subseteq vs /\ Cardinality(vs) < Quorum
  BY <1>3 DEF Locked
<1>5. ASSUME NEW k \in Able' PROVE raft'[k].votes \subseteq vs
  <2>1. k \in Able /\ k \in Node
    BY <1>0, <1>3 DEF Able
  <2>2. CASE k = n
    BY <1>1, <2>1, <2>2 DEF Calm
  <2>3. CASE k # n
    BY <1>1, <2>1, <2>3 DEF Locked
  <2>. QED
    BY <2>2, <2>3
<1>6. ASSUME NEW k \in up,
             NEW m \in Range(sending'[k]) \cup Range(recvc'[k]) \cup Range(batch'[k])
      PROVE  Quiet(m, vs)'
  <2>1. m \in Range(sending[k]) \cup Range(recvc[k]) \cup Range(batch[k])
    BY <1>0
  <2>2. Quiet(m, vs)
    BY <2>1 DEF Locked
  <2>. QED
    BY <1>3, <2>2, QuietStays
<1>7. ASSUME NEW k \in up, ~Held(k)', NEW m \in Range(out'[k]) PROVE Quiet(m, vs)'
  <2>0. ~Held(k)
    BY <1>3, <1>7
  <2>1. CASE m \in Range(out[k])
    <3>1. Quiet(m, vs)
      BY <2>0, <2>1 DEF Locked
    <3>. QED
      BY <1>3, <3>1, QuietStays
  <2>2. CASE k = n /\ m \in ms
    <3>1. m.type # "App" /\ (m.type \in {"VoteResp", "PreVoteResp"} => m.from = n)
      BY <2>2 DEF Calm
    <3>2. m.type \in {"VoteResp", "PreVoteResp"} => n \in Able
      BY <2>0, <2>2
    <3>3. Quiet(m, vs)
      BY <3>1, <3>2 DEF Quiet, Locked
    <3>. QED
      BY <1>3, <3>3, QuietStays
  <2>. QED
    BY <1>0, <1>1, <2>1, <2>2
<1>8. ASSUME NEW k \in Node, NEW d \in Node, NEW m \in Range(wire'[k][d]) PROVE Quiet(m, vs)'
  <2>1. Quiet(m, vs)
    BY <1>0 DEF Locked
  <2>. QED
    BY <1>3, <2>1, QuietStays
<1>. QED
  BY <1>2, <1>4, <1>5, <1>6, <1>7, <1>8 DEF Locked

\* So does a step that only moves messages.
LEMMA MoveLocked ==
    ASSUME LoopInv, NEW vs \in SUBSET Node, Locked(vs), [Next]_vars, UNCHANGED <<up, raft>>,
           \A k \in up : tick[k] = "propose" => tick'[k] = "propose",
           \A k \in up : \A m \in Range(sending'[k]) \cup Range(recvc'[k]) \cup Range(batch'[k]) : Quiet(m, vs),
           \A k \in up : ~Held(k) => \A m \in Range(out'[k]) : Quiet(m, vs),
           \A k, d \in Node : \A m \in Range(wire'[k][d]) : Quiet(m, vs)
    PROVE  Locked(vs)'
<1>1. \A k \in up : raft'[k].lead = None
  BY DEF Locked
<1>2. Able' \subseteq Able /\ \A k \in up : Held(k) => Held(k)'
  BY <1>1, AbleShrinks
<1>3. Able' \subseteq vs /\ Cardinality(vs) < Quorum
  BY <1>2 DEF Locked
<1>4. \A k \in Able' : raft'[k].votes \subseteq vs
  BY <1>2 DEF Locked
<1>5. ASSUME NEW k \in up,
             NEW m \in Range(sending'[k]) \cup Range(recvc'[k]) \cup Range(batch'[k])
      PROVE  Quiet(m, vs)'
  BY <1>2, QuietStays
<1>6. ASSUME NEW k \in up, ~Held(k)', NEW m \in Range(out'[k]) PROVE Quiet(m, vs)'
  BY <1>2, <1>6, QuietStays
<1>7. ASSUME NEW k \in Node, NEW d \in Node, NEW m \in Range(wire'[k][d]) PROVE Quiet(m, vs)'
  BY <1>2, QuietStays
<1>. QED
  BY <1>1, <1>3, <1>4, <1>5, <1>6, <1>7 DEF Locked

\* In a gridlock every step leaves it as it is.
LEMMA LockedStep ==
    ASSUME LoopInv, NEW vs \in SUBSET Node, Locked(vs), [Next]_vars, up' = up
    PROVE  Locked(vs)'
<1>0. /\ TypeOK /\ up \subseteq Node /\ None \notin Node
      /\ \A k \in up : raft[k].lead = None
      /\ \A k \in up : \A m \in Range(sending[k]) \cup Range(recvc[k]) \cup Range(batch[k]) : Quiet(m, vs)
      /\ \A k \in up : ~Held(k) => \A m \in Range(out[k]) : Quiet(m, vs)
      /\ \A k, d \in Node : \A m \in Range(wire[k][d]) : Quiet(m, vs)
      /\ Able \subseteq vs /\ Cardinality(vs) < Quorum
  BY LoopAssumption DEF LoopInv, TypeOK, Locked
<1>1. ASSUME NEW n \in Node, Beat(n) \/ GcCheck(n) \/ GcPropose(n) \/ ClientProp(n)
      PROVE  FALSE
  <2>1. n \in up /\ raft[n].lead = None
    BY <1>0, <1>1 DEF Beat, GcCheck, GcPropose, ClientProp, InLoop
  <2>2. raft[n].role # "Leader"
    BY <1>0, <2>1 DEF LoopInv, RoleInv, RoleOK
  <2>. QED
    BY <1>0, <1>1, <2>1, <2>2 DEF Beat, GcCheck, GcPropose, ClientProp, StepProp
<1>2. ASSUME NEW n \in Node, Hup(n) PROVE Locked(vs)'
  <2>. DEFINE r == becomePreCandidate(n, raft[n])
              ms == ToOthers("PreVote", n, raft[n].term + 1)
  <2>1. /\ n \in up /\ raft[n].term < MaxTerm /\ Become(n, r, ms)
        /\ UNCHANGED <<up, sending, server, tick, batch>>
    BY <1>2 DEF Hup, InLoop, loop
  <2>2. raft[n] \in RaftState /\ raft[n].term + 1 \in 0..MaxTerm
    BY <1>0, <2>1, RaftType
  <2>3. /\ IsFiniteSet(ms) /\ ms \subseteq Message /\ \A m \in ms : m.type = "PreVote"
    BY <2>2, ToOthersFacts
  <2>4. r.lead = None /\ r.votes = {n}
    BY <2>2 DEF becomePreCandidate, RaftState
  <2>. HIDE DEF r, ms
  <2>5. Calm(n, r, ms, vs) /\ \A m \in ms : m.type \notin {"VoteResp", "PreVoteResp"}
    BY <1>0, <2>3, <2>4 DEF Calm
  <2>. QED
    BY <2>1, <2>5, CalmLocked
<1>3. ASSUME NEW n \in Node, StepMsg(n) PROVE Locked(vs)'
  <2>. DEFINE m == Head(batch[n])
  <2>1. /\ n \in up /\ batch[n] # <<>> /\ batch' = [batch EXCEPT ![n] = Tail(@)]
        /\ UNCHANGED <<up, sending, server, tick>>
        /\ (m.type = "Prop" /\ StepProp(n)) \/ StepOther(n, m)
    BY <1>3 DEF StepMsg, loop
  <2>2. StepOther(n, m) /\ m.type # "Prop"
    BY <1>0, <2>1 DEF StepProp, StepOther
  <2>3. batch \in [Node -> Seq(Message)]
    BY <1>0 DEF TypeOK
  <2>4. m \in Message /\ m \in Range(batch[n]) /\ Range(Tail(batch[n])) \subseteq Range(batch[n])
    BY <2>1, <2>3, RangeTail
  <2>5. \A k \in Node : Range(batch'[k]) \subseteq Range(batch[k])
    BY <2>1, <2>3, <2>4
  <2>6. m.to = n /\ Quiet(m, vs)
    BY <1>0, <2>1, <2>4 DEF LoopInv, DeliverInv
  <2>7. n \in Able \/ Held(n)
    BY <2>1, <2>2 DEF Able, Wedged
  <2>8. n \in Able => raft[n].votes \subseteq vs
    BY DEF Locked
  <2>. HIDE DEF m
  <2>9. PICK r, ms : Become(n, r, ms) /\ Calm(n, r, ms, vs)
    BY <1>0, <2>1, <2>2, <2>4, <2>6, <2>7, <2>8, StepCalm
  <2>. QED
    BY <2>1, <2>5, <2>7, <2>9, CalmLocked
<1>4. ASSUME NEW n \in Node, TakeReady(n) PROVE Locked(vs)'
  <2>1. /\ n \in up /\ tick[n] = "loop" /\ ~Held(n)
        /\ sending' = [sending EXCEPT ![n] = out[n]] /\ out' = [out EXCEPT ![n] = <<>>]
        /\ tick' = [tick EXCEPT ![n] = IF out[n] = <<>> THEN "loop" ELSE "send"]
        /\ UNCHANGED <<up, raft, wire, recvc, batch>>
    BY <1>4 DEF TakeReady, InLoop, server, Held
  <2>2. /\ sending \in [Node -> Seq(Message)] /\ out \in [Node -> Seq(Message)]
        /\ tick \in [Node -> {"loop", "send", "propose"}]
    BY <1>0 DEF TypeOK
  <2>3. \A k \in up : tick[k] = "propose" => tick'[k] = "propose"
    BY <1>0, <2>1, <2>2
  <2>4. /\ sending'[n] = out[n] /\ Range(out'[n]) = {}
        /\ \A k \in Node : k # n => sending'[k] = sending[k] /\ out'[k] = out[k]
    BY <2>1, <2>2, RangeEmpty
  <2>5. \A k \in up : \A m \in Range(sending'[k]) \cup Range(recvc'[k]) \cup Range(batch'[k]) : Quiet(m, vs)
    BY <1>0, <2>1, <2>4
  <2>6. \A k \in up : ~Held(k) => \A m \in Range(out'[k]) : Quiet(m, vs)
    BY <1>0, <2>4
  <2>7. \A k, d \in Node : \A m \in Range(wire'[k][d]) : Quiet(m, vs)
    BY <1>0, <2>1
  <2>. QED
    BY <2>1, <2>3, <2>5, <2>6, <2>7, MoveLocked
<1>5. ASSUME NEW n \in Node, Send(n) PROVE Locked(vs)'
  <2>. DEFINE e == Head(sending[n])
  <2>1. /\ n \in up /\ tick[n] = "send"
        /\ UNCHANGED wire \/ wire' = [wire EXCEPT ![n][e.to] = Append(@, e)]
        /\ sending' = [sending EXCEPT ![n] = Tail(@)]
        /\ tick' = [tick EXCEPT ![n] = IF Len(sending[n]) = 1 THEN "loop" ELSE "send"]
        /\ UNCHANGED <<up, raft, out, recvc, batch>>
    BY <1>5 DEF Send, Dest
  <2>2. /\ sending \in [Node -> Seq(Message)] /\ wire \in [Node -> [Node -> Seq(Message)]]
        /\ tick \in [Node -> {"loop", "send", "propose"}]
    BY <1>0 DEF TypeOK
  <2>3. sending[n] # <<>>
    BY <1>0, <2>1, Zenon DEF TypeOK
  <2>4. e \in Message /\ e \in Range(sending[n]) /\ Range(Tail(sending[n])) \subseteq Range(sending[n])
    BY <2>2, <2>3, RangeTail
  <2>5. e.to \in Node
    BY <2>4, MessageType
  <2>. HIDE DEF e
  <2>6. \A k \in up : tick[k] = "propose" => tick'[k] = "propose"
    BY <1>0, <2>1, <2>2
  <2>7. \A k \in Node : Range(sending'[k]) \subseteq Range(sending[k])
    BY <2>1, <2>2, <2>4
  <2>8. \A k \in up : \A m \in Range(sending'[k]) \cup Range(recvc'[k]) \cup Range(batch'[k]) : Quiet(m, vs)
    BY <1>0, <2>1, <2>7
  <2>9. \A k \in up : ~Held(k) => \A m \in Range(out'[k]) : Quiet(m, vs)
    BY <1>0, <2>1
  <2>10. ASSUME NEW k \in Node, NEW d \in Node, NEW m \in Range(wire'[k][d]) PROVE Quiet(m, vs)
    <3>1. Quiet(e, vs)
      BY <1>0, <2>1, <2>4
    <3>2. CASE wire'[k][d] = wire[k][d]
      BY <1>0, <3>2
    <3>3. CASE k = n /\ d = e.to /\ wire'[k][d] = Append(wire[n][e.to], e)
      <4>1. Range(wire'[k][d]) = Range(wire[n][e.to]) \cup {e}
        BY <2>2, <2>4, <2>5, <3>3, RangeAppend
      <4>. QED
        BY <1>0, <2>5, <3>1, <4>1
    <3>4. \/ wire'[k][d] = wire[k][d]
          \/ k = n /\ d = e.to /\ wire'[k][d] = Append(wire[n][e.to], e)
      <4>. DEFINE new == Append(wire[n][e.to], e)
      <4>1. UNCHANGED wire \/ wire' = [wire EXCEPT ![n][e.to] = new]
        <5>1. CASE wire' = [wire EXCEPT ![n][e.to] = Append(@, e)]
          BY <5>1
        <5>. QED
          BY <2>1, <5>1
      <4>. HIDE DEF new
      <4>2. wire'[k][d] = wire[k][d] \/ (k = n /\ d = e.to /\ wire'[k][d] = new)
        <5>1. CASE UNCHANGED wire
          BY <5>1
        <5>2. CASE wire' = [wire EXCEPT ![n][e.to] = new] /\ k = n /\ d = e.to
          BY <2>2, <2>5, <5>2
        <5>3. CASE wire' = [wire EXCEPT ![n][e.to] = new] /\ ~(k = n /\ d = e.to)
          BY <2>2, <2>5, <5>3
        <5>. QED
          BY <4>1, <5>1, <5>2, <5>3
      <4>. QED
        BY <4>2 DEF new
    <3>. QED
      BY <3>2, <3>3, <3>4
  <2>. QED
    BY <2>1, <2>6, <2>8, <2>9, <2>10, MoveLocked
<1>6. ASSUME NEW n \in Node, NEW t \in Node, RaftMessage(n, t) PROVE Locked(vs)'
  <2>. DEFINE e == Head(wire[n][t])
              rest == Tail(wire[n][t])
  <2>1. /\ wire[n][t] # <<>> /\ recvc' = [recvc EXCEPT ![t] = Append(@, e)]
        /\ wire' = [wire EXCEPT ![n][t] = rest]
        /\ UNCHANGED <<up, raft, out, tick, sending, batch>>
    BY <1>6 DEF RaftMessage, loop
  <2>2. recvc \in [Node -> Seq(Message)] /\ wire \in [Node -> [Node -> Seq(Message)]]
    BY <1>0 DEF TypeOK
  <2>3. e \in Message /\ e \in Range(wire[n][t]) /\ Range(rest) \subseteq Range(wire[n][t])
    BY <2>1, <2>2, RangeTail
  <2>. HIDE DEF e, rest
  <2>4. \A k, d \in Node : \A m \in Range(wire'[k][d]) : Quiet(m, vs)
    <3>1. ASSUME NEW k \in Node, NEW d \in Node PROVE Range(wire'[k][d]) \subseteq Range(wire[k][d])
      BY <2>1, <2>2, <2>3
    <3>. QED
      BY <1>0, <3>1
  <2>5. ASSUME NEW k \in up, NEW m \in Range(recvc'[k]) PROVE Quiet(m, vs)
    <3>1. CASE k = t
      <4>1. Range(recvc'[k]) = Range(recvc[k]) \cup {e}
        BY <1>0, <2>1, <2>2, <2>3, <3>1, RangeAppend
      <4>. QED
        BY <1>0, <2>3, <4>1
    <3>2. CASE k # t
      BY <1>0, <2>1, <2>2, <3>2
    <3>. QED
      BY <3>1, <3>2
  <2>6. \A k \in up : \A m \in Range(sending'[k]) \cup Range(recvc'[k]) \cup Range(batch'[k]) : Quiet(m, vs)
    BY <1>0, <2>1, <2>5
  <2>7. \A k \in up : ~Held(k) => \A m \in Range(out'[k]) : Quiet(m, vs)
    BY <1>0, <2>1
  <2>. QED
    BY <2>1, <2>4, <2>6, <2>7, MoveLocked
<1>7. ASSUME NEW n \in Node, TakeBatch(n) PROVE Locked(vs)'
  <2>1. /\ batch' = [batch EXCEPT ![n] = recvc[n]] /\ recvc' = [recvc EXCEPT ![n] = <<>>]
        /\ UNCHANGED <<up, raft, out, tick, sending, wire>>
    BY <1>7 DEF TakeBatch, loop
  <2>2. recvc \in [Node -> Seq(Message)] /\ batch \in [Node -> Seq(Message)]
    BY <1>0 DEF TypeOK
  <2>3. \A k \in Node : Range(recvc'[k]) \cup Range(batch'[k]) \subseteq Range(recvc[k]) \cup Range(batch[k])
    BY <2>1, <2>2, RangeEmpty
  <2>4. \A k \in up : \A m \in Range(sending'[k]) \cup Range(recvc'[k]) \cup Range(batch'[k]) : Quiet(m, vs)
    BY <1>0, <2>1, <2>3
  <2>5. \A k \in up : ~Held(k) => \A m \in Range(out'[k]) : Quiet(m, vs)
    BY <1>0, <2>1
  <2>6. \A k, d \in Node : \A m \in Range(wire'[k][d]) : Quiet(m, vs)
    BY <1>0, <2>1
  <2>. QED
    BY <2>1, <2>4, <2>5, <2>6, MoveLocked
<1>8. ASSUME NEW n \in Node, NEW t \in Node, Break(n, t) PROVE Locked(vs)'
  <2>1. PICK empty : empty = <<>> /\ Range(empty) = {}
    BY RangeEmpty
  <2>2. /\ wire' = [wire EXCEPT ![n][t] = empty]
        /\ UNCHANGED <<up, raft, out, tick, sending, recvc, batch>>
    BY <1>8, <2>1 DEF Break, loop
  <2>3. wire \in [Node -> [Node -> Seq(Message)]]
    BY <1>0 DEF TypeOK
  <2>4. ASSUME NEW k \in Node, NEW d \in Node PROVE Range(wire'[k][d]) \subseteq Range(wire[k][d])
    BY <2>1, <2>2, <2>3
  <2>5. \A k, d \in Node : \A m \in Range(wire'[k][d]) : Quiet(m, vs)
    BY <1>0, <2>4
  <2>6. /\ \A k \in up : \A m \in Range(sending'[k]) \cup Range(recvc'[k]) \cup Range(batch'[k]) : Quiet(m, vs)
        /\ \A k \in up : ~Held(k) => \A m \in Range(out'[k]) : Quiet(m, vs)
    BY <1>0, <2>2
  <2>. QED
    BY <2>2, <2>5, <2>6, MoveLocked
<1>9. ASSUME NEW n \in Node, Crash(n) \/ Restart(n) PROVE FALSE
  BY <1>9 DEF Crash, Restart
<1>10. CASE UNCHANGED vars
  <2>1. UNCHANGED <<up, raft, out, tick, sending, wire, recvc, batch>>
    BY <1>10 DEF vars, loop, server
  <2>2. /\ \A k \in up : \A m \in Range(sending'[k]) \cup Range(recvc'[k]) \cup Range(batch'[k]) : Quiet(m, vs)
        /\ \A k \in up : ~Held(k) => \A m \in Range(out'[k]) : Quiet(m, vs)
        /\ \A k, d \in Node : \A m \in Range(wire'[k][d]) : Quiet(m, vs)
    BY <1>0, <2>1
  <2>. QED
    BY <2>1, <2>2, MoveLocked
<1>. QED
  BY <1>1, <1>2, <1>3, <1>4, <1>5, <1>6, <1>7, <1>8, <1>9, <1>10
     DEF Next, onTick, handleRaftMsgs

\* Once fewer replicas than a majority can still vote, none knows a leader and nothing that
\* would name one is on its way, no leader is ever known again until a process is restarted:
\* onTick waits for raft to take its log compaction (peer.go:194).
THEOREM GridlockIsFinal == Spec => GridlockForever
<1>1. TypeOK' => (Gridlock' <=> SomeLocked')
  BY LockedGridlock, PTL
<1>2. LoopInv /\ LoopInv' /\ [Next]_vars => [Gridlock /\ up' = up => Gridlock']_vars
  <2>. SUFFICES ASSUME LoopInv, LoopInv', [Next]_vars, Gridlock, up' = up PROVE Gridlock'
    OBVIOUS
  <2>1. TypeOK /\ TypeOK'
    BY DEF LoopInv
  <2>2. PICK vs \in SUBSET Node : Locked(vs)
    BY <2>1, LockedGridlock DEF SomeLocked
  <2>3. Locked(vs)'
    BY <2>2, LockedStep
  <2>. QED
    BY <1>1, <2>1, <2>3 DEF SomeLocked
<1>. QED
  BY <1>2, LoopInvariant, PTL DEF Spec, GridlockForever
=============================================================================
