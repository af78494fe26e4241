----------------------------- MODULE ClientOps ------------------------------
(***************************************************************************)
(* Set, Get and Delete of one key as the HTTP client sees them: the calls  *)
(* of pkg/client, the handlers of pkg/api and RaftStore behind them, the   *)
(* proposals that propose hands to raft and that followers forward, and    *)
(* the replicated log.                                                     *)
(*                                                                         *)
(* raft is reduced to elections, replication and commitment, each one      *)
(* step.  A replica applies what it knows to be committed; how handleReady *)
(* and readApplied do that is modelled in PeerStorage and ReadPath.        *)
(***************************************************************************)
EXTENDS Naturals, Sequences, FiniteSets

CONSTANTS
    Node,           \* the replicas
    Op,             \* the calls of the client; a Set writes its own name
    Nil,            \* no leader, no operation, no value
    Kinds,          \* what each call may be: Set, Delete or Get
    MaxTerm,        \* bound on elections
    MaxTry,         \* attempts of one HTTP call
    MaxRetried,     \* bound on the calls whose connection breaks
    MaxUncommitted  \* entries a leader accepts beyond its commit index

ASSUME OpsAssumption ==
    /\ IsFiniteSet(Node)
    /\ Nil \notin Node \cup Op
    /\ Nil \notin {"set", "del", "get", "ok", "err", "notfound"}
    /\ Kinds \in [Op -> SUBSET {"set", "del", "get"}]
    /\ MaxTerm \in Nat \ {0}
    /\ MaxTry \in Nat \ {0}
    /\ MaxRetried \in Nat
    /\ MaxUncommitted \in Nat \ {0}

VARIABLES
    tm, lead, log, commit,   \* per replica: Term, r.lead, entries, committed
    match,                   \* per replica, as a leader: Progress.Match
    term,                    \* the latest term
    clog,                    \* ghost: everything that was ever committed
    msgs,                    \* MsgProp between replicas
    handlers, replies,       \* HTTP handlers and their responses
    kind, try, phase,        \* the calls
    out, val,                \* what the client got
    need                     \* ghost: how much was committed when a call began

raftVars == <<tm, lead, log, commit, match, term, clog>>
callVars == <<kind, try, phase, out, val, need>>
vars == <<raftVars, msgs, handlers, replies, callVars>>

Quorum == {Q \in SUBSET Node : 2 * Cardinality(Q) > Cardinality(Node)}

Entry == [term : 1..MaxTerm, op : Op \cup {Nil}]

\* What raft.reset leaves of the Progress of the others.
NoMatch == [m \in Node |-> 0]

\* The first election is over: one replica leads, the others follow it and do
\* not yet know that its empty entry is committed.
Init ==
    /\ term = 1
    /\ tm = [n \in Node |-> 1]
    /\ \E l \in Node :
         /\ lead = [n \in Node |-> l]
         /\ commit = [n \in Node |-> IF n = l THEN 1 ELSE 0]
         /\ match = [n \in Node |-> IF n = l THEN [m \in Node |-> 1] ELSE NoMatch]
    /\ log = [n \in Node |-> <<[term |-> 1, op |-> Nil]>>]
    /\ clog = <<[term |-> 1, op |-> Nil]>>
    /\ msgs = {} /\ handlers = {} /\ replies = {}
    /\ kind = [o \in Op |-> Nil]
    /\ try = [o \in Op |-> 0]
    /\ phase = [o \in Op |-> "new"]
    /\ out = [o \in Op |-> Nil]
    /\ val = [o \in Op |-> Nil]
    /\ need = [o \in Op |-> 0]

-----------------------------------------------------------------------------
(* raft *)

RaftStep == UNCHANGED <<msgs, handlers, replies, callVars>>

LastTerm(l) == IF l = <<>> THEN 0 ELSE l[Len(l)].term

\* Mutant: a vote for any candidate.
VoteAlways(l, m) == TRUE

\* raftLog.isUpToDate: log l against that of the voter m.
UpToDate(l, m) ==
    \/ LastTerm(l) > LastTerm(log[m])
    \/ LastTerm(l) = LastTerm(log[m]) /\ Len(l) >= Len(log[m])

\* n wins an election with the votes of Q and appends its empty entry.
Elect(n, Q) ==
    /\ RaftStep
    /\ term < MaxTerm
    /\ n \in Q
    /\ lead[n] # n
    /\ \A m \in Q : UpToDate(log[n], m)
    /\ term' = term + 1
    /\ tm' = [m \in Node |-> IF m \in Q THEN term + 1 ELSE tm[m]]
    /\ lead' = [m \in Node |-> IF m = n THEN n ELSE IF m \in Q THEN Nil ELSE lead[m]]
    /\ log' = [log EXCEPT ![n] = Append(@, [term |-> term + 1, op |-> Nil])]
    /\ match' = [m \in Node |-> IF m \in Q THEN NoMatch ELSE match[m]]
    /\ UNCHANGED <<commit, clog>>

\* m receives the log and the commit index of n, learns who leads, and n hears of it.
Replicate(n, m) ==
    /\ RaftStep
    /\ lead[n] = n
    /\ m # n
    /\ tm[m] <= tm[n]
    /\ tm' = [tm EXCEPT ![m] = tm[n]]
    /\ lead' = [lead EXCEPT ![m] = n]
    /\ log' = [log EXCEPT ![m] = log[n]]
    /\ commit' = [commit EXCEPT ![m] = IF commit[n] > @ THEN commit[n] ELSE @]
    /\ match' = [match EXCEPT ![n][m] = Len(log[n]), ![m] = NoMatch]
    /\ UNCHANGED <<term, clog>>

\* A leader commits an entry of its own term that a quorum has acknowledged to it.
Commit(n, i, Q) ==
    /\ RaftStep
    /\ lead[n] = n
    /\ i > commit[n]
    /\ i <= Len(log[n])
    /\ log[n][i].term = tm[n]
    /\ \A m \in Q : m = n \/ match[n][m] >= i
    /\ commit' = [commit EXCEPT ![n] = i]
    /\ clog' = IF i > Len(clog) THEN SubSeq(log[n], 1, i) ELSE clog
    /\ UNCHANGED <<tm, lead, log, match, term>>

-----------------------------------------------------------------------------
(* Proposals *)

\* increaseUncommittedSize: what this leader has appended and not committed.
Uncommitted(n) ==
    {i \in 1..Len(log[n]) : /\ i > commit[n]
                            /\ log[n][i].term = tm[n]
                            /\ log[n][i].op # Nil}

Room(n) == Cardinality(Uncommitted(n)) < MaxUncommitted

\* Step(MsgProp) at n, for which raft waits until it knows a leader: the
\* leader appends, a follower forwards.
AppendEntry(n, o) ==
    /\ lead[n] = n
    /\ Room(n)
    /\ log' = [log EXCEPT ![n] = Append(@, [term |-> tm[n], op |-> o])]

Forward(n, o, t) == [to |-> lead[n], op |-> o, try |-> t]

\* Mutant: a proposal that stays in the channel.
Reread(m) == msgs

\* handleRaftMsgs takes the message off recvc.
Taken(m) == msgs \ {m}

\* A forwarded proposal arrives: nobody waits for its result.
RecvProp(m) ==
    /\ m \in msgs
    /\ \/ AppendEntry(m.to, m.op) /\ msgs' = Taken(m)
       \/ /\ lead[m.to] = m.to
          /\ ~Room(m.to)
          /\ msgs' = Taken(m)
          /\ UNCHANGED log
       \/ /\ lead[m.to] \notin {Nil, m.to}
          /\ msgs' = Taken(m) \cup {Forward(m.to, m.op, m.try)}
          /\ UNCHANGED log
    /\ UNCHANGED <<tm, lead, commit, match, term, clog, handlers, replies, callVars>>

\* sendRaftMsgs drops a message whose second attempt fails, and a broken
\* stream loses what was sent.
LoseProp(m) ==
    /\ m \in msgs
    /\ msgs' = msgs \ {m}
    /\ UNCHANGED <<raftVars, handlers, replies, callVars>>

-----------------------------------------------------------------------------
(* The HTTP handlers and RaftStore *)

\* The client still waits for this handler.
Awaited(h) == phase[h.op] = "wait" /\ try[h.op] = h.try

\* A handler is done and answers: returnData or returnError.
Reply(h, res, v) ==
    /\ handlers' = handlers \ {h}
    /\ replies' = IF Awaited(h)
                  THEN replies \cup {[op |-> h.op, res |-> res, val |-> v]}
                  ELSE replies

\* doSet, doDelete: the answer is that of Propose, which does not wait for
\* the entry to be committed.
Propose(h) ==
    /\ h \in handlers
    /\ h.st = "propose"
    /\ \/ /\ AppendEntry(h.node, h.op)
          /\ Reply(h, "ok", Nil)
          /\ UNCHANGED msgs
       \/ /\ lead[h.node] = h.node
          /\ ~Room(h.node)
          /\ Reply(h, "err", Nil)
          /\ UNCHANGED <<log, msgs>>
       \/ /\ lead[h.node] \notin {Nil, h.node}
          /\ msgs' = msgs \cup {Forward(h.node, h.op, h.try)}
          /\ Reply(h, "ok", Nil)
          /\ UNCHANGED log
    /\ UNCHANGED <<tm, lead, commit, match, term, clog, callVars>>

\* Mutant: a new leader answers with the commit index it happens to know.
AnyTerm(l) == TRUE

\* committedEntryInCurrentTerm.
CommittedInTerm(l) == commit[l] > 0 /\ log[l][commit[l]].term = tm[l]

\* ReadIndex: a leader l that a quorum still follows answers.
ReadIndex(h, l) ==
    /\ h \in handlers
    /\ h.st = "get"
    /\ lead[h.node] # Nil
    /\ lead[l] = l
    /\ CommittedInTerm(l)
    /\ \E Q \in Quorum : \A m \in Q : tm[m] <= tm[l]
    /\ handlers' = (handlers \ {h}) \cup
                     {[h EXCEPT !.st = "read", !.index = commit[l]]}
    /\ UNCHANGED <<raftVars, msgs, replies, callVars>>

\* The value of the key after the first i entries.
ValueAt(l, i) ==
    LET writes == {j \in 1..i : l[j].op # Nil}
        last   == CHOOSE j \in writes : \A k \in writes : k <= j
    IN  IF writes = {} THEN Nil
        ELSE IF kind[l[last].op] = "set" THEN l[last].op ELSE Nil

\* The applied indexes at which readApplied may read.
AppliedFrom(n, i) == i..commit[n]

\* doGet: the value, or ErrNotFound.
GetRead(h, i) ==
    /\ h \in handlers
    /\ h.st = "read"
    /\ i \in AppliedFrom(h.node, h.index)
    /\ LET v == ValueAt(log[h.node], i)
       IN  Reply(h, IF v = Nil THEN "notfound" ELSE "ok", v)
    /\ UNCHANGED <<raftVars, msgs, callVars>>

\* ErrLostReadResponse.
GetLost(h) ==
    /\ h \in handlers
    /\ h.st \in {"get", "read"}
    /\ Reply(h, "err", Nil)
    /\ UNCHANGED <<raftVars, msgs, callVars>>

-----------------------------------------------------------------------------
(* The client *)

Handler(o, n, k, t) ==
    [op |-> o, node |-> n, try |-> t, index |-> 0,
     st |-> IF k = "get" THEN "get" ELSE "propose"]

\* A call of Set, Get or Delete; HostClient chooses the address.
Call(o, n, k) ==
    /\ phase[o] = "new"
    /\ phase' = [phase EXCEPT ![o] = "wait"]
    /\ kind' = [kind EXCEPT ![o] = k]
    /\ try' = [try EXCEPT ![o] = 1]
    /\ need' = [need EXCEPT ![o] = Len(clog)]
    /\ handlers' = handlers \cup {Handler(o, n, k, 1)}
    /\ UNCHANGED <<raftVars, msgs, replies, out, val>>

\* What the caller is told: Delete returns nil whatever happened.
Outcome(k, res) == IF k = "del" THEN "ok" ELSE res

\* doHTTP returns the response of the attempt that it waits for.
Receive(r) ==
    /\ r \in replies
    /\ phase' = [phase EXCEPT ![r.op] = "done"]
    /\ out' = [out EXCEPT ![r.op] = Outcome(kind[r.op], r.res)]
    /\ val' = [val EXCEPT ![r.op] = r.val]
    /\ replies' = replies \ {r}
    /\ UNCHANGED <<raftVars, msgs, handlers, kind, try, need>>

\* Mutant: one attempt too many.
OneMore(o) == try[o] <= MaxTry

\* HostClient.Do tries again.
MayRetry(o) == try[o] < MaxTry

\* The client stops waiting.  The handler of a write goes on; that of a Get has
\* no effect any more.
LiveHandlers(o) == {h \in handlers : h.op # o \/ h.st = "propose"}
LiveReplies(o) == {r \in replies : r.op # o}

\* The server closes the connection before it has answered.
Retry(o, n) ==
    /\ phase[o] = "wait"
    /\ MayRetry(o)
    /\ Cardinality({p \in Op : try[p] > 1} \cup {o}) <= MaxRetried
    /\ try' = [try EXCEPT ![o] = @ + 1]
    /\ replies' = LiveReplies(o)
    /\ handlers' = LiveHandlers(o) \cup {Handler(o, n, kind[o], try[o] + 1)}
    /\ UNCHANGED <<raftVars, msgs, kind, phase, out, val, need>>

\* No attempt is left, or the error is one that HostClient.Do does not retry.
Fail(o) ==
    /\ phase[o] = "wait"
    /\ phase' = [phase EXCEPT ![o] = "done"]
    /\ out' = [out EXCEPT ![o] = Outcome(kind[o], "err")]
    /\ replies' = LiveReplies(o)
    /\ handlers' = LiveHandlers(o)
    /\ UNCHANGED <<raftVars, msgs, kind, try, val, need>>

-----------------------------------------------------------------------------
RaftNext ==
    \E n \in Node :
      \/ \E m \in Node : Replicate(n, m)
      \/ \E Q \in Quorum : Elect(n, Q)
      \/ \E Q \in Quorum : \E i \in 1..Len(log[n]) : Commit(n, i, Q)

HandlerNext ==
    \E h \in handlers :
      \/ Propose(h)
      \/ \E l \in Node : ReadIndex(h, l)
      \/ \E i \in 0..commit[h.node] : GetRead(h, i)
      \/ GetLost(h)

ClientNext ==
    \/ \E o \in Op : Fail(o)
    \/ \E o \in Op, n \in Node : Retry(o, n) \/ \E k \in Kinds[o] : Call(o, n, k)
    \/ \E r \in replies : Receive(r)

Next ==
    \/ RaftNext
    \/ \E m \in msgs : RecvProp(m) \/ LoseProp(m)
    \/ HandlerNext
    \/ ClientNext

Spec == Init /\ [][Next]_vars

-----------------------------------------------------------------------------
(* Properties *)

\* Types; in particular a call is tried at most MaxTry times.
TypeOK ==
    /\ tm \in [Node -> 0..MaxTerm]
    /\ lead \in [Node -> Node \cup {Nil}]
    /\ log \in [Node -> Seq(Entry)]
    /\ commit \in [Node -> Nat]
    /\ \A n \in Node : commit[n] <= Len(log[n])
    /\ match \in [Node -> [Node -> Nat]]
    /\ term \in 0..MaxTerm
    /\ clog \in Seq(Entry)
    /\ msgs \subseteq [to : Node, op : Op, try : 1..MaxTry]
    /\ handlers \subseteq [op : Op, node : Node, try : 1..MaxTry, index : Nat,
                           st : {"propose", "get", "read"}]
    /\ replies \subseteq [op : Op, res : {"ok", "err", "notfound"},
                          val : Op \cup {Nil}]
    /\ kind \in [Op -> {"set", "del", "get", Nil}]
    /\ \A o \in Op : kind[o] \in Kinds[o] \cup {Nil}
    /\ try \in [Op -> 0..MaxTry]
    /\ phase \in [Op -> {"new", "wait", "done"}]
    /\ out \in [Op -> {"ok", "err", "notfound", Nil}]
    /\ val \in [Op -> Op \cup {Nil}]
    /\ need \in [Op -> Nat]

\* An entry that was committed keeps its place, through elections and through
\* leaders that have not noticed that they were deposed.
CommittedStable == [][SubSeq(clog', 1, Len(clog)) = clog]_vars

\* A Get that answers has seen every entry that was committed when the client
\* called it, on whichever replica and after whichever election: Gets are
\* linearizable with each other and with committed writes.
SeesCommitted ==
    \A o \in Op : kind[o] = "get" /\ out[o] \in {"ok", "notfound"} =>
      \E i \in need[o]..Len(clog) : val[o] = ValueAt(clog, i)

\* A Set or Delete that the client sent once is committed at most once, however
\* often it is forwarded.
CommittedOnce ==
    \A o \in Op : try[o] = 1 =>
      Cardinality({i \in 1..Len(clog) : clog[i].op = o}) <= 1

\* What was proposed and not given up: in some log, or on its way to one.
Pending(o) ==
    \/ \E n \in Node : \E i \in 1..Len(log[n]) : log[n][i].op = o
    \/ \E m \in msgs : m.op = o
    \/ \E h \in handlers : h.op = o

\* A Set that was answered without an error is not lost.
AckKept ==
    \A o \in Op : kind[o] = "set" /\ out[o] = "ok" => Pending(o)
=============================================================================
