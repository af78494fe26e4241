------------------------------ MODULE NodeLoop ------------------------------
(***************************************************************************)
(* The goroutines of the replicas and what they wait for: onTick, which    *)
(* ticks raft, saves and sends its Ready and proposes log compactions;     *)
(* RaftServer.RaftMessage, which fills recvc; handleRaftMsgs, which steps  *)
(* what recvc holds; and the handlers that propose for a client.           *)
(*                                                                         *)
(* Raft is reduced to elections and to who is believed to be the leader,   *)
(* on which raft's node lets a proposal in or makes its caller wait.  A    *)
(* MsgHeartbeat and a MsgApp are the message App; answers that change      *)
(* neither a term nor an election are left out.  No more than a majority   *)
(* of the cluster is in Node; the others are down for good.                *)
(***************************************************************************)
EXTENDS Integers, Sequences, SequencesExt, FiniteSets

CONSTANTS Node,      \* the replicas that may be up
          None,      \* raft.None: no replica
          Quorum,    \* a majority of the cluster
          RecvCap,   \* capacity of recvc (1024 in newPeer)
          WireCap,   \* what a stream takes before Send waits (gRPC's flow control)
          MaxTerm,   \* bound: raft terms
          First,     \* who is leader when the model begins
          MaxHup,    \* bound: election timeouts
          MaxProp,   \* bound: proposals of clients and of the log compaction
          MaxCrash   \* bound: crashes

ASSUME LoopAssumption ==
    /\ None \notin Node
    /\ IsFiniteSet(Node)
    /\ Quorum \in Nat /\ Quorum > 1
    /\ Cardinality(Node) <= Quorum  \* so refusals alone never decide an election
    /\ {RecvCap, WireCap} \subseteq Nat \ {0}
    /\ First \in Node
    /\ {MaxTerm, MaxHup, MaxProp, MaxCrash} \subseteq Nat /\ MaxTerm > 0

VARIABLES up,               \* the replicas whose process runs
          hard,             \* the HardState in the meta engine
          raft,             \* raft's term, role, leader, vote and the votes it has
          out,              \* raft.msgs
          tick, sending,    \* onTick: where it is and the messages it still sends
          wire,             \* the streams between the replicas
          recvc, batch,     \* the channel, and what handleRaftMsgs has taken from it
          led,              \* ghost: who has been leader of which term
          hups, props, crashes \* counters for the bounds

server == <<wire, recvc>>
loop == <<tick, sending>>
counters == <<hups, props, crashes>>
vars == <<up, hard, raft, out, loop, server, batch, led, counters>>

Message == [type : {"PreVote", "PreVoteResp", "Vote", "VoteResp", "Reject", "App",
                    "AppResp", "Prop"},
            from : Node, to : Node, term : 0..MaxTerm]

Msg(type, from, to, term) == [type |-> type, from |-> from, to |-> to, term |-> term]

ToOthers(type, n, t) == {Msg(type, n, d, t) : d \in Node \ {n}}
-----------------------------------------------------------------------------
(* raft *)

becomeFollower(r, t, l) == [term |-> t, role |-> "Follower", lead |-> l, votes |-> {},
                            vote |-> IF t = r.term THEN r.vote ELSE None]

becomePreCandidate(n, r) == [r EXCEPT !.role = "PreCandidate", !.lead = None, !.votes = {n}]

becomeCandidate(n, r) == [term |-> r.term + 1, role |-> "Candidate", lead |-> None,
                          votes |-> {n}, vote |-> n]

becomeLeader(n, r) == [r EXCEPT !.role = "Leader", !.lead = n, !.votes = {}]

Won(votes) == Cardinality(votes) >= Quorum

\* The replica n goes on with r and raft.send has put the messages ms into raft.msgs, in
\* some order, where one that already waits there is not repeated.
Become(n, r, ms) ==
    /\ raft' = [raft EXCEPT ![n] = r]
    /\ out' = [out EXCEPT ![n] = @ \o SetToSeq(ms \ Range(@))]

Same(n, ms) == Become(n, raft[n], ms) /\ UNCHANGED led

\* raft.Step of a MsgProp on a replica that knows a leader.
StepProp(n) ==
    /\ raft[n].lead # None
    /\ IF raft[n].role = "Leader" THEN Same(n, ToOthers("App", n, raft[n].term))
                                  ELSE Same(n, {Msg("Prop", n, raft[n].lead, 0)})

\* raft.Step of a message from an earlier term: the sender may have to be told.
StepLower(n, m) ==
    LET t == raft[n].term IN
    /\ m.term < t
    /\ CASE m.type = "App"     -> Same(n, {Msg("AppResp", n, m.from, t)})
         [] m.type = "PreVote" -> Same(n, {Msg("Reject", n, m.from, t)})
         [] OTHER              -> Same(n, {})

\* Mutant: a leader goes on as leader of the later term.
AdjustedTerm(n, m) ==
    IF m.term > raft[n].term /\ m.type \notin {"PreVote", "PreVoteResp"}
    THEN [becomeFollower(raft[n], m.term, IF m.type = "App" THEN m.from ELSE None)
            EXCEPT !.role = raft[n].role]
    ELSE raft[n]

\* raft.Step: a message from a later term, unless it is about a PreVote, is followed.
Adjusted(n, m) ==
    IF m.term > raft[n].term /\ m.type \notin {"PreVote", "PreVoteResp"}
    THEN becomeFollower(raft[n], m.term, IF m.type = "App" THEN m.from ELSE None)
    ELSE raft[n]

canVote(r, m) == \/ r.vote = m.from
                 \/ r.vote = None /\ r.lead = None
                 \/ m.type = "PreVote" /\ m.term > r.term

\* A vote may also be refused for the log of the candidate, which the model leaves open.
StepVote(n, m) ==
    LET r == Adjusted(n, m) IN
    /\ m.type \in {"PreVote", "Vote"} /\ m.term >= raft[n].term
    /\ \/ /\ canVote(r, m)
          /\ IF m.type = "PreVote"
             THEN Become(n, r, {Msg("PreVoteResp", n, m.from, m.term)})
             ELSE Become(n, [r EXCEPT !.vote = m.from], {Msg("VoteResp", n, m.from, m.term)})
       \/ Become(n, r, IF m.type = "PreVote" /\ m.term = r.term
                       THEN {Msg("Reject", n, m.from, r.term)} ELSE {})
    /\ UNCHANGED led

StepPreVoteResp(n, m) ==
    LET r == raft[n]
        votes == r.votes \cup {m.from}
    IN /\ m.type = "PreVoteResp" /\ m.term >= r.term
       /\ CASE r.role # "PreCandidate" -> Same(n, {})
            [] r.role = "PreCandidate" /\ ~Won(votes) ->
                 Become(n, [r EXCEPT !.votes = votes], {}) /\ UNCHANGED led
            [] r.role = "PreCandidate" /\ Won(votes) ->
                 Become(n, becomeCandidate(n, r), ToOthers("Vote", n, r.term + 1)) /\ UNCHANGED led

StepVoteResp(n, m) ==
    LET r == Adjusted(n, m)
        votes == r.votes \cup {m.from}
    IN /\ m.type = "VoteResp" /\ m.term >= raft[n].term
       /\ CASE r.role # "Candidate" -> Become(n, r, {}) /\ UNCHANGED led
            [] r.role = "Candidate" /\ ~Won(votes) ->
                 Become(n, [r EXCEPT !.votes = votes], {}) /\ UNCHANGED led
            [] r.role = "Candidate" /\ Won(votes) ->
                 /\ Become(n, becomeLeader(n, r), ToOthers("App", n, r.term))
                 /\ led' = led \cup {[term |-> r.term, node |-> n]}

\* App names the leader; AppResp and Reject matter for their term only.
StepApp(n, m) ==
    LET r == Adjusted(n, m) IN
    /\ m.type \in {"App", "AppResp", "Reject"} /\ m.term >= raft[n].term
    /\ Become(n, IF m.type = "App" /\ r.role # "Leader"
                 THEN becomeFollower(r, m.term, m.from) ELSE r, {})
    /\ UNCHANGED led

StepOther(n, m) == /\ m.type # "Prop"
                   /\ \/ StepLower(n, m)
                      \/ StepVote(n, m)
                      \/ StepPreVoteResp(n, m)
                      \/ StepVoteResp(n, m)
                      \/ StepApp(n, m)
-----------------------------------------------------------------------------
Booted(h) == [term |-> h.term, role |-> "Follower", lead |-> None, votes |-> {},
              vote |-> h.vote]

\* A first election is over and First is the leader that all know.
Init ==
    /\ up = Node
    /\ hard = [n \in Node |-> [term |-> 1, vote |-> First]]
    /\ raft = [n \in Node |-> [Booted(hard[n]) EXCEPT !.lead = First,
                               !.role = IF n = First THEN "Leader" ELSE "Follower"]]
    /\ out = [n \in Node |-> <<>>]
    /\ tick = [n \in Node |-> "loop"]
    /\ sending = [n \in Node |-> <<>>]
    /\ wire = [n \in Node |-> [d \in Node |-> <<>>]]
    /\ recvc = [n \in Node |-> <<>>]
    /\ batch = [n \in Node |-> <<>>]
    /\ led = {[term |-> 1, node |-> First]}
    /\ hups = 0 /\ props = 0 /\ crashes = 0
-----------------------------------------------------------------------------
(* onTick *)

InLoop(n) == n \in up /\ tick[n] = "loop"

\* peer.tick: an election timeout.
Hup(n) ==
    LET r == raft[n] IN
    /\ InLoop(n) /\ r.role # "Leader" /\ r.term < MaxTerm /\ hups < MaxHup
    /\ Become(n, becomePreCandidate(n, r), ToOthers("PreVote", n, r.term + 1))
    /\ hups' = hups + 1
    /\ UNCHANGED <<up, hard, loop, server, batch, led, props, crashes>>

\* peer.tick: a leader's heartbeat.
Beat(n) ==
    /\ InLoop(n) /\ raft[n].role = "Leader"
    /\ Same(n, ToOthers("App", n, raft[n].term))
    /\ UNCHANGED <<up, hard, loop, server, batch, counters>>

\* tickLogGC and onLogGCTask up to the call of propose, when there is enough to compact.
\* Status answers isLeader; the proposal is made later.
GcCheck(n) ==
    /\ InLoop(n) /\ raft[n].lead = n /\ props < MaxProp
    /\ tick' = [tick EXCEPT ![n] = "propose"]
    /\ props' = props + 1
    /\ UNCHANGED <<up, hard, raft, out, sending, server, batch, led, hups, crashes>>

\* Mutant: a proposal that finds no leader fails.
ProposeOrFail(n) ==
    /\ n \in up /\ tick[n] = "propose"
    /\ IF raft[n].lead = None THEN Same(n, {}) ELSE StepProp(n)
    /\ tick' = [tick EXCEPT ![n] = "loop"]
    /\ UNCHANGED <<up, hard, sending, server, batch, counters>>

\* peer.propose waits with context.TODO() until raft takes the proposal.
GcPropose(n) ==
    /\ n \in up /\ tick[n] = "propose"
    /\ StepProp(n)
    /\ tick' = [tick EXCEPT ![n] = "loop"]
    /\ UNCHANGED <<up, hard, sending, server, batch, counters>>

HardState(n) == [term |-> raft[n].term, vote |-> raft[n].vote]

\* Mutant: the HardState is left to a later Ready when there are messages to send.
SendBeforeSave(n) ==
    /\ InLoop(n)
    /\ out[n] # <<>> \/ hard[n] # HardState(n)
    /\ hard' = IF out[n] = <<>> THEN [hard EXCEPT ![n] = HardState(n)] ELSE hard
    /\ sending' = [sending EXCEPT ![n] = out[n]]
    /\ out' = [out EXCEPT ![n] = <<>>]
    /\ tick' = [tick EXCEPT ![n] = IF out[n] = <<>> THEN "loop" ELSE "send"]
    /\ UNCHANGED <<up, raft, server, batch, led, counters>>

\* handleReady up to sendRaftMsgs: what raft decided is saved before it is sent.
TakeReady(n) ==
    /\ InLoop(n)
    /\ out[n] # <<>> \/ hard[n] # HardState(n)
    /\ hard' = [hard EXCEPT ![n] = HardState(n)]
    /\ sending' = [sending EXCEPT ![n] = out[n]]
    /\ out' = [out EXCEPT ![n] = <<>>]
    /\ tick' = [tick EXCEPT ![n] = IF out[n] = <<>> THEN "loop" ELSE "send"]
    /\ UNCHANGED <<up, raft, server, batch, led, counters>>

\* The stream of the next message: gone with the other replica, or with room for it.
Dest(n) == Head(sending[n]).to
Room(n, d) == Len(wire[n][d]) < WireCap

\* RaftClient.Send returns, with an error when the other replica is down; after the last
\* message handleReady applies and calls Advance.
Send(n) ==
    /\ n \in up /\ tick[n] = "send"
    /\ \/ Dest(n) \notin up /\ UNCHANGED wire
       \/ /\ Dest(n) \in up /\ Room(n, Dest(n))
          /\ wire' = [wire EXCEPT ![n][Dest(n)] = Append(@, Head(sending[n]))]
    /\ sending' = [sending EXCEPT ![n] = Tail(@)]
    /\ tick' = [tick EXCEPT ![n] = IF Len(sending[n]) = 1 THEN "loop" ELSE "send"]
    /\ UNCHANGED <<up, hard, raft, out, recvc, batch, led, counters>>
-----------------------------------------------------------------------------
(* The other goroutines *)

\* Mutant: the channel holds one message more.
RaftMessageMore(n, d) ==
    /\ d \in up /\ wire[n][d] # <<>> /\ Len(recvc[d]) <= RecvCap
    /\ recvc' = [recvc EXCEPT ![d] = Append(@, Head(wire[n][d]))]
    /\ wire' = [wire EXCEPT ![n][d] = Tail(@)]
    /\ UNCHANGED <<up, hard, raft, out, loop, batch, led, counters>>

\* RaftMessage, serving the stream of n at d.
RaftMessage(n, d) ==
    /\ d \in up /\ wire[n][d] # <<>> /\ Len(recvc[d]) < RecvCap
    /\ recvc' = [recvc EXCEPT ![d] = Append(@, Head(wire[n][d]))]
    /\ wire' = [wire EXCEPT ![n][d] = Tail(@)]
    /\ UNCHANGED <<up, hard, raft, out, loop, batch, led, counters>>

\* Mutant: the messages are counted before the first is received, and one too many is
\* waited for.
TakeOneMore(n) ==
    /\ n \in up /\ batch[n] = <<>> /\ Len(recvc[n]) > 1
    /\ batch' = [batch EXCEPT ![n] = recvc[n]]
    /\ recvc' = [recvc EXCEPT ![n] = <<>>]
    /\ UNCHANGED <<up, hard, raft, out, loop, wire, led, counters>>

\* handleRaftMsgs takes all that recvc holds.
TakeBatch(n) ==
    /\ n \in up /\ batch[n] = <<>> /\ recvc[n] # <<>>
    /\ batch' = [batch EXCEPT ![n] = recvc[n]]
    /\ recvc' = [recvc EXCEPT ![n] = <<>>]
    /\ UNCHANGED <<up, hard, raft, out, loop, wire, led, counters>>

\* Mutant: a proposal is dropped when there is no leader.
StepOrDrop(n) ==
    /\ n \in up /\ batch[n] # <<>>
    /\ \/ Head(batch[n]).type = "Prop" /\ StepProp(n)
       \/ Head(batch[n]).type = "Prop" /\ raft[n].lead = None /\ Same(n, {})
       \/ StepOther(n, Head(batch[n]))
    /\ batch' = [batch EXCEPT ![n] = Tail(@)]
    /\ UNCHANGED <<up, hard, loop, server, counters>>

\* handleRaftMsgs steps the next message.  A forwarded MsgProp goes through the channel of
\* proposals, which raft does not read while it knows no leader.
StepMsg(n) ==
    /\ n \in up /\ batch[n] # <<>>
    /\ \/ Head(batch[n]).type = "Prop" /\ StepProp(n)
       \/ StepOther(n, Head(batch[n]))
    /\ batch' = [batch EXCEPT ![n] = Tail(@)]
    /\ UNCHANGED <<up, hard, loop, server, counters>>

\* RaftStore.Set or Delete: the caller waits while there is no leader.
ClientProp(n) ==
    /\ n \in up /\ props < MaxProp
    /\ StepProp(n)
    /\ props' = props + 1
    /\ UNCHANGED <<up, hard, loop, server, batch, hups, crashes>>
-----------------------------------------------------------------------------
\* The connection from n to d breaks with what it carries.
Break(n, d) ==
    /\ wire[n][d] # <<>>
    /\ wire' = [wire EXCEPT ![n][d] = <<>>]
    /\ UNCHANGED <<up, hard, raft, out, loop, recvc, batch, led, counters>>

\* The process dies: all but the HardState is gone.
Crash(n) ==
    /\ n \in up /\ crashes < MaxCrash
    /\ up' = up \ {n}
    /\ raft' = [raft EXCEPT ![n] = Booted(hard[n])]
    /\ out' = [out EXCEPT ![n] = <<>>]
    /\ tick' = [tick EXCEPT ![n] = "loop"]
    /\ sending' = [sending EXCEPT ![n] = <<>>]
    /\ wire' = [m \in Node |-> [wire[m] EXCEPT ![n] = <<>>]]
    /\ recvc' = [recvc EXCEPT ![n] = <<>>]
    /\ batch' = [batch EXCEPT ![n] = <<>>]
    /\ crashes' = crashes + 1
    /\ UNCHANGED <<hard, led, hups, props>>

\* newPeer with RestartNode.
Restart(n) ==
    /\ n \notin up
    /\ up' = up \cup {n}
    /\ UNCHANGED <<hard, raft, out, loop, server, batch, led, counters>>

onTick(n) == TakeReady(n) \/ Send(n) \/ GcPropose(n)

handleRaftMsgs(n) == TakeBatch(n) \/ StepMsg(n)

Next ==
    \/ \E n \in Node : \/ Hup(n) \/ Beat(n) \/ GcCheck(n) \/ onTick(n)
                       \/ handleRaftMsgs(n) \/ ClientProp(n)
                       \/ Crash(n) \/ Restart(n)
    \/ \E n, d \in Node : RaftMessage(n, d) \/ Break(n, d)

Spec == Init /\ [][Next]_vars

\* The goroutines run when they can.  Go serves those that wait for room in a channel in
\* the order in which they began to wait, so each stream is served again and again.
FairSpec ==
    /\ Spec
    /\ \A n \in Node : WF_vars(onTick(n)) /\ WF_vars(handleRaftMsgs(n))
    /\ \A n \in Node : \A d \in Node \ {n} : SF_vars(RaftMessage(n, d))
-----------------------------------------------------------------------------
(* Properties *)

\* The type of the variables.
TypeOK ==
    /\ up \subseteq Node
    /\ hard \in [Node -> [term : 1..MaxTerm, vote : Node \cup {None}]]
    /\ raft \in [Node -> [term : 1..MaxTerm, lead : Node \cup {None},
                          role : {"Follower", "PreCandidate", "Candidate", "Leader"},
                          vote : Node \cup {None}, votes : SUBSET Node]]
    /\ out \in [Node -> Seq(Message)]
    /\ tick \in [Node -> {"loop", "send", "propose"}]
    /\ sending \in [Node -> Seq(Message)]
    /\ \A n \in Node : (tick[n] = "send") = (sending[n] # <<>>)
    /\ wire \in [Node -> [Node -> Seq(Message)]]
    /\ \A n, d \in Node : Len(wire[n][d]) <= WireCap
    /\ recvc \in [Node -> Seq(Message)] /\ \A n \in Node : Len(recvc[n]) <= RecvCap
    /\ batch \in [Node -> Seq(Message)]
    /\ led \subseteq [term : 1..MaxTerm, node : Node]
    /\ hups \in 0..MaxHup /\ props \in 0..MaxProp /\ crashes \in 0..MaxCrash

\* Where the messages are that a replica has begun to send.
Sent == UNION {Range(sending[n]) \cup Range(recvc[n]) \cup Range(batch[n])
                 \cup UNION {Range(wire[n][d]) : d \in Node} : n \in Node}

\* A replica never says what it could forget: a vote that it sends, or asks for, is in the
\* meta engine, so a crash cannot make it vote twice in a term (peer.go:217 before 224).
SentIsSaved ==
    \A m \in Sent :
        LET h == hard[m.from] IN
        /\ m.type \notin {"PreVote", "PreVoteResp"} => h.term >= m.term
        /\ m.type = "VoteResp" /\ h.term = m.term => h.vote = m.to
        /\ m.type = "Vote" /\ h.term = m.term => h.vote = m.from

\* Across crashes no term has two leaders.
OneLeaderPerTerm ==
    LET now == {[term |-> raft[n].term, node |-> n] : n \in {m \in Node : raft[m].role = "Leader"}}
    IN \A l, k \in led \cup now : l.term = k.term => l.node = k.node

\* handleRaftMsgs waits for raft to take a forwarded proposal, and raft knows no leader.
Wedged(n) == /\ n \in up /\ batch[n] # <<>>
             /\ Head(batch[n]).type = "Prop" /\ raft[n].lead = None

\* A replica that waits so never gets out of it: the message that would name the leader, or
\* the vote that would make it one, waits behind the proposal (peer.go:210).
WedgedForever == [][\A n \in Node : Wedged(n) => Wedged(n)' \/ n \notin up']_vars

\* onTick waits for raft to take the log compaction, and raft knows no leader.
Held(n) == n \in up /\ tick[n] = "propose" /\ raft[n].lead = None

Able == {n \in up : ~Wedged(n) /\ ~Held(n)}

\* The messages that can make a replica know a leader, where they can still be delivered:
\* those of a leader, and votes of others than the replicas in voters.
Naming(s, voters) ==
    \E i \in 1..Len(s) :
      \/ s[i].type = "App"
      \/ /\ s[i].type \in {"VoteResp", "PreVoteResp"}
         /\ s[i].to \in Able /\ s[i].from \notin voters
UnderWay(voters) ==
    \/ \E n \in up : Naming(sending[n], voters) \/ Naming(recvc[n], voters)
                       \/ Naming(batch[n], voters)
    \/ \E n \in up : ~Held(n) /\ Naming(out[n], voters)
    \/ \E n, d \in Node : Naming(wire[n][d], voters)

\* Fewer replicas than a majority can still vote or have voted, and none knows a leader.
Gridlock ==
    \E voters \in SUBSET Node :
      /\ Able \subseteq voters /\ Cardinality(voters) < Quorum
      /\ \A n \in up : raft[n].lead = None
      /\ \A n \in Able : raft[n].votes \subseteq voters
      /\ ~UnderWay(voters)

\* Then no leader is ever known again until a process is restarted: a proposal of the log
\* compaction that was overtaken by the loss of the leadership stops the Ready loop, with it
\* the votes of the replica, and waits for a leader that needs them (peer.go:194).
GridlockForever == [][Gridlock /\ up' = up => Gridlock']_vars

\* onTick gets through its messages, unless a stream stays full because the replica at its
\* other end is wedged: a slow replica alone, however small recvc is, stops nobody.
SendWaitsForWedged ==
    \A n \in Node : tick[n] = "send" ~> (tick[n] # "send" \/ Wedged(Dest(n)))
=============================================================================
