-------------------------- MODULE ClientOpsProofs ---------------------------
(***************************************************************************)
(* The theorems about ClientOps.  The inductive invariant has a part for   *)
(* raft: logs that agree, what acknowledgements and votes tell of a        *)
(* leader's entries, what is committed; and one for the calls: where a     *)
(* write may be, and what a Get has seen.                                  *)
(***************************************************************************)
EXTENDS ClientOps, QueueLemmas

-----------------------------------------------------------------------------
(* The inductive invariant *)

\* The first i entries of two logs are the same.
Agree(a, b, i) == i <= Len(a) /\ i <= Len(b) /\ \A k \in 1..i : a[k] = b[k]

Leads(n) == lead[n] = n

Ordered(l) == \A i, j \in 1..Len(l) : i <= j => l[i].term <= l[j].term

\* Terms grow along a log, and none is later than that of the replica.
TermInv ==
    /\ term \in 1..MaxTerm
    /\ \A n \in Node : /\ tm[n] \in 1..term
                       /\ Len(log[n]) > 0
                       /\ Ordered(log[n])
                       /\ LastTerm(log[n]) <= tm[n]

\* A leader is alone in its term, its last entry is of that term, and every entry of that
\* term lies within its log.
LeadInv ==
    /\ \A n \in Node : Leads(n) => LastTerm(log[n]) = tm[n]
    /\ \A n, b \in Node : Leads(n) /\ Leads(b) /\ tm[n] = tm[b] => n = b
    /\ \A n, b \in Node : Leads(n) =>
         \A i \in 1..Len(log[b]) : log[b][i].term = tm[n] => i <= Len(log[n])

\* An entry of a term tells everything before it: two logs with entries of one term agree
\* up to the first of these.
ChainInv ==
    \A a, b \in Node : \A i \in 1..Len(log[a]), j \in 1..Len(log[b]) :
      i <= j /\ log[a][i].term = log[b][j].term => Agree(log[a], log[b], i)

\* A replica that acknowledged entries to n still has them, or has since followed a later
\* leader.
AckInv ==
    \A n, m \in Node : Leads(n) /\ m # n /\ match[n][m] > 0 =>
      /\ match[n][m] <= Len(log[n])
      /\ log[n][match[n][m]].term = tm[n]
      /\ tm[m] >= tm[n]
      /\ Agree(log[n], log[m], match[n][m]) \/ LastTerm(log[m]) > tm[n]

\* A log of a later term than that of a leader n has what a majority acknowledged to n
\* before it turned away.
VoteInv ==
    \A n, b \in Node : Leads(n) /\ LastTerm(log[b]) > tm[n] =>
      \E V \in Quorum : \A m \in V : tm[m] > tm[n] /\ Agree(log[n], log[b], match[n][m])

\* A majority has everything that was committed, and so has every log of a later term.
CommitInv ==
    /\ Len(clog) > 0
    /\ \E Q \in Quorum : \A m \in Q : Agree(clog, log[m], Len(clog))
    /\ \A b \in Node : LastTerm(log[b]) > LastTerm(clog) => Agree(clog, log[b], Len(clog))

\* What a replica takes for committed is committed, and is known to leaders that are not
\* behind it; the leader that committed last knows all of it.
KnownInv ==
    /\ \A n \in Node : Agree(clog, log[n], commit[n])
    /\ \A n, m \in Node : Leads(n) /\ tm[m] <= tm[n] => Agree(log[n], log[m], commit[m])
    /\ \A n \in Node : Leads(n) /\ tm[n] = LastTerm(clog) => commit[n] = Len(clog)

RaftInv ==
    /\ TermInv
    /\ LeadInv
    /\ ChainInv
    /\ AckInv
    /\ VoteInv
    /\ CommitInv
    /\ KnownInv

\* Where operation o is written in the log of n.
Places(o, n) == {i \in 1..Len(log[n]) : log[n][i].op = o}

\* A call is known to the servers only after the client has begun it.
StartInv ==
    \A o \in Op :
      /\ phase[o] # "new" => try[o] > 0
      /\ phase[o] = "new" =>
           /\ out[o] = Nil
           /\ \A n \in Node : Places(o, n) = {}
           /\ \A x \in msgs \cup handlers \cup replies : x.op # o

\* Call o is at one place: in its handler, on its way or in the logs, and there at one
\* index.
Alone(o) ==
    /\ \A g, h \in handlers : g.op = o /\ h.op = o => g = h
    /\ \A x, y \in msgs : x.op = o /\ y.op = o => x = y
    /\ (\E h \in handlers : h.op = o /\ h.st = "propose") =>
          /\ \A x \in msgs : x.op # o
          /\ \A n \in Node : Places(o, n) = {}
    /\ (\E x \in msgs : x.op = o) => \A n \in Node : Places(o, n) = {}
    /\ \A m, n \in Node : \A i \in Places(o, m), j \in Places(o, n) : i = j

\* A write that the client sent once is at one place.
OnceInv == \A o \in Op : try[o] <= 1 => Alone(o)

\* v is the value of the key at a moment since call o began.
Seen(o, v) == \E i \in need[o]..Len(clog) : v = ValueAt(clog, i)

\* A Get waits for an index that covers what was committed when it was called, and its
\* answer has seen that much.
ReadInv ==
    /\ \A o \in Op : need[o] <= Len(clog)
    /\ \A h \in handlers : /\ h.st = "propose" <=> kind[h.op] # "get"
                           /\ h.st = "read" => need[h.op] <= h.index
    /\ \A r \in replies : kind[r.op] = "get" /\ r.res # "err" => Seen(r.op, r.val)
    /\ \A o \in Op : kind[o] = "get" /\ out[o] \in {"ok", "notfound"} => Seen(o, val[o])

OpsInv ==
    /\ TypeOK
    /\ RaftInv
    /\ StartInv
    /\ OnceInv
    /\ ReadInv


-----------------------------------------------------------------------------
(* Facts about logs and majorities *)

\* Two majorities have a replica in common.
LEMMA QuorumMeet ==
    ASSUME NEW P \in Quorum, NEW Q \in Quorum
    PROVE  \E m \in Node : m \in P /\ m \in Q
<1>1. P \subseteq Node /\ Q \subseteq Node /\ IsFiniteSet(Node)
  BY OpsAssumption DEF Quorum
<1>2. IsFiniteSet(P) /\ IsFiniteSet(Q) /\ IsFiniteSet(P \cup Q)
  BY <1>1, FS_Subset, P \cup Q \subseteq Node
<1>3. Cardinality(P \cup Q) <= Cardinality(Node)
  BY <1>1, P \cup Q \subseteq Node, FS_Subset
<1>4. Cardinality(P \cup Q) = Cardinality(P) + Cardinality(Q) - Cardinality(P \cap Q)
  BY <1>2, FS_Union
<1>5. /\ Cardinality(P) \in Nat /\ Cardinality(Q) \in Nat /\ Cardinality(Node) \in Nat
      /\ Cardinality(P \cup Q) \in Nat
  BY <1>1, <1>2, FS_CardinalityType
<1>6. 2 * Cardinality(P) > Cardinality(Node) /\ 2 * Cardinality(Q) > Cardinality(Node)
  BY DEF Quorum
<1>7. Cardinality(P \cap Q) # 0
  BY <1>3, <1>4, <1>5, <1>6
<1>8. P \cap Q # {}
  BY <1>7, FS_EmptySet
<1>. QED
  BY <1>1, <1>8

\* A quorum is a set of replicas, and not empty.
LEMMA QuorumNodes ==
    ASSUME NEW Q \in Quorum
    PROVE  Q \subseteq Node /\ \E m \in Node : m \in Q
BY QuorumMeet DEF Quorum

\* Agreement is symmetric and holds for shorter prefixes.
LEMMA AgreeSym ==
    ASSUME NEW a, NEW b, NEW i, Agree(a, b, i)
    PROVE  Agree(b, a, i)
BY DEF Agree

\* Logs that agree agree on shorter prefixes.
LEMMA AgreeLess ==
    ASSUME NEW a \in Seq(Entry), NEW b \in Seq(Entry), NEW i \in Nat, NEW j \in Nat,
           j <= i, Agree(a, b, i)
    PROVE  Agree(a, b, j)
BY DEF Agree

\* Logs that agree with a third agree with each other as far.
LEMMA AgreeTrans ==
    ASSUME NEW a \in Seq(Entry), NEW b \in Seq(Entry), NEW c \in Seq(Entry),
           NEW i \in Nat, NEW j \in Nat, j <= i, Agree(a, b, i), Agree(b, c, j)
    PROVE  Agree(a, c, j)
BY DEF Agree

\* A log agrees with itself.
LEMMA AgreeSelf ==
    ASSUME NEW a \in Seq(Entry), NEW i \in Nat, i <= Len(a)
    PROVE  Agree(a, a, i)
BY DEF Agree

\* The terms of entries are numbers.
LEMMA EntryTerm ==
    /\ \A e \in Entry : e.term \in Nat
    /\ \A a \in Seq(Entry) : \A i \in 1..Len(a) : a[i] \in Entry /\ a[i].term \in Nat
<1>1. \A e \in Entry : e.term \in Nat
  BY OpsAssumption DEF Entry
<1>2. \A a \in Seq(Entry) : \A i \in 1..Len(a) : a[i] \in Entry
  OBVIOUS
<1>. QED
  BY <1>1, <1>2

\* What an appended entry changes of a log.
LEMMA AppendFacts ==
    ASSUME NEW a \in Seq(Entry), NEW e \in Entry
    PROVE  /\ Append(a, e) \in Seq(Entry)
           /\ Len(Append(a, e)) = Len(a) + 1
           /\ \A k \in 1..Len(a) : Append(a, e)[k] = a[k]
           /\ Append(a, e)[Len(a) + 1] = e
           /\ LastTerm(Append(a, e)) = e.term
           /\ \A b : \A i \in Nat : Agree(a, b, i) => Agree(Append(a, e), b, i)
           /\ \A b : \A i \in Nat : Agree(b, a, i) => Agree(b, Append(a, e), i)
           /\ Ordered(a) /\ LastTerm(a) <= e.term => Ordered(Append(a, e))
<1>. DEFINE l == Append(a, e)
<1>1. /\ l \in Seq(Entry) /\ Len(l) = Len(a) + 1
      /\ \A k \in 1..Len(a) : l[k] = a[k]
      /\ l[Len(a) + 1] = e
  OBVIOUS
<1>. HIDE DEF l
<1>2. LastTerm(l) = e.term
  <2>1. l # <<>>
    BY <1>1
  <2>. QED
    BY <1>1, <2>1 DEF LastTerm
<1>3. \A b : \A i \in Nat : Agree(a, b, i) => Agree(l, b, i)
  <2>. SUFFICES ASSUME NEW b, NEW i \in Nat, Agree(a, b, i) PROVE Agree(l, b, i)
    OBVIOUS
  <2>. QED
    BY <1>1 DEF Agree
<1>4. \A b : \A i \in Nat : Agree(b, a, i) => Agree(b, l, i)
  BY <1>3, AgreeSym
<1>5. ASSUME Ordered(a), LastTerm(a) <= e.term PROVE Ordered(l)
  <2>1. e.term \in Nat /\ \A i \in 1..Len(a) : a[i].term \in Nat
    BY EntryTerm
  <2>2. \A i \in 1..Len(a) : a[i].term <= e.term
    <3>. SUFFICES ASSUME NEW i \in 1..Len(a) PROVE a[i].term <= e.term
      OBVIOUS
    <3>1. a # <<>> /\ Len(a) \in 1..Len(a)
      OBVIOUS
    <3>2. a[i].term <= a[Len(a)].term /\ a[Len(a)].term <= e.term
      BY <1>5, <3>1 DEF Ordered, LastTerm
    <3>. QED
      BY <2>1, <3>1, <3>2
  <2>. SUFFICES ASSUME NEW i \in 1..Len(l), NEW j \in 1..Len(l), i <= j
                PROVE  l[i].term <= l[j].term
    BY DEF Ordered
  <2>3. CASE j \in 1..Len(a)
    <3>1. i \in 1..Len(a)
      BY <2>3
    <3>. QED
      BY <1>1, <1>5, <2>3, <3>1 DEF Ordered
  <2>4. CASE j = Len(a) + 1 /\ i \in 1..Len(a)
    BY <1>1, <2>2, <2>4
  <2>5. CASE j = Len(a) + 1 /\ i = Len(a) + 1
    BY <1>1, <2>1, <2>5
  <2>. QED
    BY <1>1, <2>3, <2>4, <2>5
<1>. QED
  BY <1>1, <1>2, <1>3, <1>4, <1>5 DEF l


-----------------------------------------------------------------------------
(* Facts about the states of raft *)

\* Terms and lengths are numbers.
LEMMA RaftTypes ==
    ASSUME TypeOK, TermInv, NEW n \in Node
    PROVE  /\ log[n] \in Seq(Entry) /\ Len(log[n]) \in Nat /\ Len(log[n]) \in 1..Len(log[n])
           /\ clog \in Seq(Entry) /\ Len(clog) \in Nat
           /\ tm[n] \in Nat /\ tm[n] > 0 /\ tm[n] <= term /\ term \in Nat /\ MaxTerm \in Nat
           /\ commit[n] \in Nat
           /\ \A m \in Node : match[n][m] \in Nat
           /\ LastTerm(log[n]) = log[n][Len(log[n])].term
           /\ LastTerm(log[n]) \in Nat
           /\ LastTerm(clog) \in Nat
           /\ \A i \in 1..Len(log[n]) : /\ log[n][i].term \in Nat
                                        /\ log[n][i].term <= LastTerm(log[n])
<1>1. log[n] \in Seq(Entry) /\ Len(log[n]) > 0 /\ clog \in Seq(Entry) /\ Ordered(log[n])
  BY DEF TypeOK, TermInv
<1>2. Len(log[n]) \in Nat /\ Len(clog) \in Nat /\ log[n] # <<>>
  BY <1>1
<1>3. Len(log[n]) \in 1..Len(log[n])
  BY <1>1, <1>2
<1>4. LastTerm(log[n]) = log[n][Len(log[n])].term
  BY <1>2 DEF LastTerm
<1>5. /\ tm[n] \in Nat /\ tm[n] > 0 /\ tm[n] <= term /\ term \in Nat /\ MaxTerm \in Nat
      /\ commit[n] \in Nat /\ \A m \in Node : match[n][m] \in Nat
  BY OpsAssumption DEF TypeOK, TermInv
<1>6. \A i \in 1..Len(log[n]) : log[n][i].term \in Nat /\ log[n][i].term <= LastTerm(log[n])
  BY <1>1, <1>3, <1>4, EntryTerm DEF Ordered
<1>7. LastTerm(clog) \in Nat
  <2>1. CASE clog = <<>>
    BY <2>1 DEF LastTerm
  <2>2. CASE clog # <<>>
    <3>1. Len(clog) \in 1..Len(clog)
      BY <1>1, <2>2
    <3>. QED
      BY <1>1, <2>2, <3>1, EntryTerm DEF LastTerm
  <2>. QED
    BY <2>1, <2>2
<1>. QED
  BY <1>1, <1>2, <1>3, <1>4, <1>5, <1>6, <1>7

\* What a log that grew by one entry keeps.
Grow(n, e) == log' = [log EXCEPT ![n] = Append(@, e)]

\* What the logs are after one of them grew.
LEMMA GrowFacts ==
    ASSUME TypeOK, NEW n \in Node, NEW e \in Entry, Grow(n, e)
    PROVE  /\ log' \in [Node -> Seq(Entry)]
           /\ \A b \in Node : b # n => log'[b] = log[b]
           /\ log'[n] = Append(log[n], e)
           /\ \A b \in Node : /\ Len(log[b]) <= Len(log'[b])
                              /\ \A k \in 1..Len(log[b]) : log'[b][k] = log[b][k]
           /\ Len(log'[n]) = Len(log[n]) + 1
           /\ log'[n][Len(log[n]) + 1] = e
           /\ LastTerm(log'[n]) = e.term
           /\ \A b \in Node : b # n => LastTerm(log'[b]) = LastTerm(log[b])
           /\ \A b \in Node, i \in Nat : \A c : Agree(c, log[b], i) => Agree(c, log'[b], i)
           /\ \A a, b \in Node, i \in Nat : Agree(log[a], log[b], i) => Agree(log'[a], log'[b], i)
<1>1. log \in [Node -> Seq(Entry)]
  BY DEF TypeOK
<1>2. log'[n] = Append(log[n], e) /\ \A b \in Node : b # n => log'[b] = log[b]
  BY <1>1 DEF Grow
<1>3. Append(log[n], e) \in Seq(Entry)
  BY <1>1, AppendFacts
<1>4. log' \in [Node -> Seq(Entry)]
  BY <1>1, <1>3 DEF Grow
<1>5. /\ Len(log'[n]) = Len(log[n]) + 1
      /\ \A k \in 1..Len(log[n]) : log'[n][k] = log[n][k]
      /\ log'[n][Len(log[n]) + 1] = e
      /\ LastTerm(log'[n]) = e.term
  BY <1>1, <1>2, AppendFacts
<1>6. \A b \in Node : /\ Len(log[b]) <= Len(log'[b])
                      /\ \A k \in 1..Len(log[b]) : log'[b][k] = log[b][k]
  <2>. TAKE b \in Node
  <2>1. Len(log[b]) \in Nat
    BY <1>1
  <2>2. CASE b = n
    BY <1>5, <2>1, <2>2
  <2>3. CASE b # n
    BY <1>2, <2>1, <2>3
  <2>. QED
    BY <2>2, <2>3
<1>7. \A b \in Node, i \in Nat : \A c : Agree(c, log[b], i) => Agree(c, log'[b], i)
  <2>. TAKE b \in Node, i \in Nat
  <2>1. CASE b = n
    <3>1. \A c : Agree(c, log[n], i) => Agree(c, Append(log[n], e), i)
      BY <1>1, AppendFacts
    <3>. QED
      BY <1>2, <2>1, <3>1
  <2>2. CASE b # n
    BY <1>2, <2>2
  <2>. QED
    BY <2>1, <2>2
<1>8. \A a, b \in Node, i \in Nat : Agree(log[a], log[b], i) => Agree(log'[a], log'[b], i)
  <2>. SUFFICES ASSUME NEW a \in Node, NEW b \in Node, NEW i \in Nat,
                       Agree(log[a], log[b], i)
                PROVE  Agree(log'[a], log'[b], i)
    OBVIOUS
  <2>1. Agree(log[a], log'[b], i)
    BY <1>7
  <2>2. Agree(log'[b], log[a], i)
    BY <2>1, AgreeSym
  <2>3. Agree(log'[b], log'[a], i)
    BY <1>7, <2>2
  <2>. QED
    BY <2>3, AgreeSym
<1>. QED
  BY <1>2, <1>4, <1>5, <1>6, <1>7, <1>8


-----------------------------------------------------------------------------
(* A leader that is not behind has what is committed *)

\* A log with an entry of the last committed term at or above the last committed index, or
\* of a later term, has all that is committed.
LEMMA LateHasCommitted ==
    ASSUME TypeOK, RaftInv, NEW b \in Node, LastTerm(log[b]) >= LastTerm(clog),
           LastTerm(log[b]) = LastTerm(clog) => Len(log[b]) >= Len(clog)
    PROVE  Agree(clog, log[b], Len(clog))
<1>. USE DEF RaftInv
<1>1. PICK Q \in Quorum : \A m \in Q : Agree(clog, log[m], Len(clog))
  BY DEF CommitInv
<1>2. PICK m \in Node : m \in Q
  BY QuorumNodes
<1>3. Agree(clog, log[m], Len(clog)) /\ Len(clog) > 0
  BY <1>1, <1>2 DEF CommitInv
<1>4. /\ clog \in Seq(Entry) /\ log[b] \in Seq(Entry) /\ log[m] \in Seq(Entry)
      /\ Len(clog) \in Nat /\ Len(log[b]) \in 1..Len(log[b]) /\ Len(log[b]) \in Nat
      /\ LastTerm(log[b]) = log[b][Len(log[b])].term
      /\ LastTerm(log[b]) \in Nat /\ LastTerm(clog) \in Nat
  BY RaftTypes
<1>5. CASE LastTerm(log[b]) > LastTerm(clog)
  BY <1>5 DEF CommitInv
<1>6. CASE LastTerm(log[b]) = LastTerm(clog)
  <2>1. LastTerm(clog) = clog[Len(clog)].term
    BY <1>3, <1>4 DEF LastTerm
  <2>2. /\ Len(clog) \in 1..Len(log[m])
        /\ log[m][Len(clog)] = clog[Len(clog)]
    BY <1>3, <1>4 DEF Agree
  <2>3. Agree(log[m], log[b], Len(clog))
    BY <1>4, <1>6, <2>1, <2>2 DEF ChainInv
  <2>. QED
    BY <1>3, <1>4, <2>3, AgreeTrans
<1>. QED
  BY <1>4, <1>5, <1>6

\* A replica that has all that is committed has an entry of the last committed term.
LEMMA HolderTerm ==
    ASSUME TypeOK, RaftInv, NEW m \in Node, Agree(clog, log[m], Len(clog))
    PROVE  /\ Len(clog) \in 1..Len(log[m])
           /\ log[m][Len(clog)].term = LastTerm(clog)
           /\ LastTerm(log[m]) >= LastTerm(clog)
           /\ tm[m] >= LastTerm(clog)
<1>1. Len(clog) > 0 /\ clog \in Seq(Entry) /\ Len(clog) \in Nat
  BY RaftTypes DEF RaftInv, CommitInv
<1>2. Len(clog) \in 1..Len(log[m]) /\ log[m][Len(clog)] = clog[Len(clog)]
  BY <1>1, RaftTypes DEF Agree, RaftInv
<1>3. LastTerm(clog) = clog[Len(clog)].term
  BY <1>1 DEF LastTerm
<1>4. LastTerm(log[m]) >= LastTerm(clog)
  BY <1>2, <1>3, RaftTypes DEF RaftInv
<1>5. LastTerm(log[m]) <= tm[m]
  BY DEF RaftInv, TermInv
<1>. QED
  BY <1>2, <1>3, <1>4, <1>5, RaftTypes DEF RaftInv

\* Leader completeness: a leader whose term is not before the last committed one has all
\* that is committed.
LEMMA LeaderHasCommitted ==
    ASSUME TypeOK, RaftInv, NEW n \in Node, Leads(n), tm[n] >= LastTerm(clog)
    PROVE  Agree(clog, log[n], Len(clog))
<1>1. LastTerm(log[n]) = tm[n]
  BY DEF RaftInv, LeadInv
<1>2. PICK Q \in Quorum : \A m \in Q : Agree(clog, log[m], Len(clog))
  BY DEF RaftInv, CommitInv
<1>3. PICK m \in Node : m \in Q /\ Agree(clog, log[m], Len(clog))
  BY <1>2, QuorumNodes
<1>4. Len(clog) \in 1..Len(log[m]) /\ log[m][Len(clog)].term = LastTerm(clog)
  BY <1>3, HolderTerm
<1>5. tm[n] = LastTerm(clog) => Len(log[n]) >= Len(clog)
  BY <1>4, RaftTypes DEF RaftInv, LeadInv
<1>. QED
  BY <1>1, <1>5, LateHasCommitted

\* Whatever a majority has acknowledged to a leader is in every log of a later term.
LEMMA LaterHasAcked ==
    ASSUME TypeOK, RaftInv, NEW n \in Node, Leads(n), NEW b \in Node,
           LastTerm(log[b]) > tm[n],
           NEW Q \in Quorum, NEW i \in Nat, \A m \in Q : m = n \/ match[n][m] >= i
    PROVE  Agree(log[n], log[b], i)
<1>1. PICK V \in Quorum : \A m \in V : tm[m] > tm[n] /\ Agree(log[n], log[b], match[n][m])
  BY DEF RaftInv, VoteInv
<1>2. PICK m \in Node : m \in V /\ m \in Q
  BY QuorumMeet
<1>3. m # n
  BY <1>1, <1>2, RaftTypes DEF RaftInv
<1>. QED
  BY <1>1, <1>2, <1>3, AgreeLess, RaftTypes DEF RaftInv


-----------------------------------------------------------------------------
(* A leader appends *)

Appends(n, o) == AppendEntry(n, o) /\ UNCHANGED <<tm, lead, commit, match, term, clog>>

\* An entry that a leader appends keeps the invariant of raft.
LEMMA AppendsRaft ==
    ASSUME TypeOK, RaftInv, NEW n \in Node, NEW o \in Op, Appends(n, o)
    PROVE  RaftInv' /\ log' \in [Node -> Seq(Entry)] /\ \A b \in Node : commit'[b] <= Len(log'[b])
<1>. DEFINE e == [term |-> tm[n], op |-> o]
<1>1. /\ tm' = tm /\ lead' = lead /\ commit' = commit /\ match' = match /\ term' = term
      /\ clog' = clog /\ Leads(n) /\ Grow(n, e)
  BY DEF Appends, AppendEntry, Grow, Leads
<1>2. e \in Entry /\ e.term = tm[n]
  <2>1. tm[n] \in 1..MaxTerm
    BY RaftTypes DEF RaftInv, TermInv, TypeOK
  <2>. QED
    BY <2>1 DEF Entry
<1>. HIDE DEF e
<1>3. \A b \in Node : Leads(b)' <=> Leads(b)
  BY <1>1 DEF Leads
<1>4. LastTerm(log[n]) = tm[n]
  BY <1>1 DEF RaftInv, LeadInv
<1>5. \A b \in Node : LastTerm(log'[b]) = LastTerm(log[b])
  BY <1>1, <1>2, <1>4, GrowFacts
<1>6. log' \in [Node -> Seq(Entry)] /\ \A b \in Node : Len(log'[b]) \in Nat
  BY <1>1, <1>2, GrowFacts
<1>7. \A a, b \in Node, i \in Nat : Agree(log[a], log[b], i) => Agree(log'[a], log'[b], i)
  BY <1>1, <1>2, GrowFacts
<1>8. /\ \A b \in Node : b # n => log'[b] = log[b]
      /\ \A b \in Node : /\ Len(log[b]) <= Len(log'[b])
                         /\ \A k \in 1..Len(log[b]) : log'[b][k] = log[b][k]
      /\ Len(log'[n]) = Len(log[n]) + 1
      /\ log'[n][Len(log[n]) + 1] = e
      /\ \A b \in Node, i \in Nat : \A c : Agree(c, log[b], i) => Agree(c, log'[b], i)
  BY <1>1, <1>2, GrowFacts
<1>9. TermInv'
  <2>1. Ordered(log'[n])
    <3>1. log[n] \in Seq(Entry) /\ Ordered(log[n]) /\ LastTerm(log[n]) <= e.term
      BY <1>2, <1>4, RaftTypes DEF RaftInv, TermInv
    <3>2. log'[n] = Append(log[n], e)
      BY <1>1, <1>2, GrowFacts
    <3>. QED
      BY <1>2, <3>1, <3>2, AppendFacts
  <2>2. \A b \in Node : Ordered(log'[b])
    <3>. TAKE b \in Node
    <3>1. CASE b = n
      BY <2>1, <3>1
    <3>2. CASE b # n
      <4>1. log'[b] = log[b]
        BY <1>8, <3>2
      <4>2. Ordered(log[b])
        BY DEF RaftInv, TermInv
      <4>. QED
        BY <4>1, <4>2
    <3>. QED
      BY <3>1, <3>2
  <2>3. \A b \in Node : Len(log'[b]) > 0
    <3>. TAKE b \in Node
    <3>1. Len(log[b]) > 0 /\ Len(log[b]) \in Nat
      BY RaftTypes DEF RaftInv, TermInv
    <3>2. Len(log[b]) <= Len(log'[b]) /\ Len(log'[b]) \in Nat
      BY <1>6, <1>8
    <3>. QED
      BY <3>1, <3>2
  <2>. QED
    BY <1>1, <1>5, <2>2, <2>3 DEF RaftInv, TermInv
\* Every entry of the term of a leader lies within its log, before and after.
<1>10. \A k, b \in Node : Leads(k) =>
         \A i \in 1..Len(log'[b]) : log'[b][i].term = tm[k] => i <= Len(log'[k])
  <2>. SUFFICES ASSUME NEW k \in Node, NEW b \in Node, Leads(k), NEW i \in 1..Len(log'[b]),
                       log'[b][i].term = tm[k]
                PROVE  i <= Len(log'[k])
    OBVIOUS
  <2>0. Len(log[k]) \in Nat /\ Len(log[b]) \in Nat /\ Len(log'[k]) \in Nat /\ Len(log[n]) \in Nat
    BY <1>6, RaftTypes DEF RaftInv
  <2>1. CASE i \in 1..Len(log[b])
    <3>1. i <= Len(log[k])
      BY <1>8, <2>1 DEF RaftInv, LeadInv
    <3>. QED
      BY <1>8, <2>0, <3>1
  <2>2. CASE i \notin 1..Len(log[b])
    <3>1. b = n /\ i = Len(log[n]) + 1
      BY <1>8, <2>0, <2>2
    <3>2. tm[k] = tm[n]
      BY <1>2, <1>8, <3>1
    <3>3. k = n
      BY <1>1, <3>2 DEF RaftInv, LeadInv
    <3>. QED
      BY <1>8, <2>0, <3>1, <3>3
  <2>. QED
    BY <2>1, <2>2
<1>11. LeadInv'
  BY <1>1, <1>3, <1>5, <1>10 DEF RaftInv, LeadInv
<1>12. ChainInv'
  <2>. SUFFICES ASSUME NEW a \in Node, NEW b \in Node,
                       NEW i \in 1..Len(log'[a]), NEW j \in 1..Len(log'[b]),
                       i <= j, log'[a][i].term = log'[b][j].term
                PROVE  Agree(log'[a], log'[b], i)
    BY DEF ChainInv
  <2>0. Len(log[a]) \in Nat /\ Len(log[b]) \in Nat /\ Len(log[n]) \in Nat
        /\ Len(log'[a]) \in Nat /\ Len(log'[b]) \in Nat
    BY <1>6, RaftTypes DEF RaftInv
  <2>1. CASE a = b
    BY <1>6, <2>1, AgreeSelf
  <2>2. CASE a # b /\ i \in 1..Len(log[a]) /\ j \in 1..Len(log[b])
    <3>1. Agree(log[a], log[b], i)
      BY <1>8, <2>2 DEF RaftInv, ChainInv
    <3>. QED
      BY <1>7, <3>1
  <2>3. CASE a # b /\ i \in 1..Len(log[a]) /\ j \notin 1..Len(log[b])
    <3>1. b = n /\ j = Len(log[n]) + 1
      BY <1>8, <2>0, <2>3
    <3>2. log[a][i].term = tm[n]
      BY <1>2, <1>8, <2>3, <3>1
    <3>3. i <= Len(log[n])
      BY <1>1, <2>3, <3>2 DEF RaftInv, LeadInv
    <3>4. Len(log[n]) \in 1..Len(log[n]) /\ log[n][Len(log[n])].term = tm[n]
      BY <1>4, RaftTypes DEF RaftInv
    <3>5. Agree(log[a], log[n], i)
      BY <2>3, <3>2, <3>3, <3>4 DEF RaftInv, ChainInv
    <3>. QED
      BY <1>7, <3>1, <3>5
  <2>4. CASE a # b /\ i \notin 1..Len(log[a])
    <3>1. a = n /\ i = Len(log[n]) + 1 /\ log'[b] = log[b]
      BY <1>8, <2>0, <2>4
    <3>2. log[b][j].term = tm[n]
      BY <1>2, <1>8, <3>1
    <3>3. j <= Len(log[n])
      BY <1>1, <3>1, <3>2 DEF RaftInv, LeadInv
    <3>. QED
      BY <2>0, <3>1, <3>3
  <2>. QED
    BY <2>1, <2>2, <2>3, <2>4
<1>13. AckInv'
  <2>. SUFFICES ASSUME NEW k \in Node, NEW m \in Node, Leads(k), m # k, match[k][m] > 0
                PROVE  /\ match[k][m] <= Len(log'[k])
                       /\ log'[k][match[k][m]].term = tm[k]
                       /\ tm[m] >= tm[k]
                       /\ Agree(log'[k], log'[m], match[k][m]) \/ LastTerm(log'[m]) > tm[k]
    BY <1>1, <1>3 DEF AckInv
  <2>1. /\ match[k][m] <= Len(log[k])
        /\ log[k][match[k][m]].term = tm[k]
        /\ tm[m] >= tm[k]
        /\ Agree(log[k], log[m], match[k][m]) \/ LastTerm(log[m]) > tm[k]
    BY DEF RaftInv, AckInv
  <2>2. match[k][m] \in Nat /\ Len(log[k]) \in Nat /\ Len(log'[k]) \in Nat
    BY <1>6, RaftTypes DEF RaftInv
  <2>. QED
    BY <1>5, <1>7, <1>8, <2>1, <2>2
<1>14. VoteInv'
  <2>. SUFFICES ASSUME NEW k \in Node, NEW b \in Node, Leads(k), LastTerm(log[b]) > tm[k]
                PROVE  \E V \in Quorum : \A m \in V :
                         tm[m] > tm[k] /\ Agree(log'[k], log'[b], match[k][m])
    BY <1>1, <1>3, <1>5 DEF VoteInv
  <2>1. PICK V \in Quorum : \A m \in V : tm[m] > tm[k] /\ Agree(log[k], log[b], match[k][m])
    BY DEF RaftInv, VoteInv
  <2>2. \A m \in V : match[k][m] \in Nat
    BY QuorumNodes, RaftTypes DEF RaftInv
  <2>. QED
    BY <1>7, <2>1, <2>2
<1>15. CommitInv'
  <2>1. PICK Q \in Quorum : \A m \in Q : Agree(clog, log[m], Len(clog))
    BY DEF RaftInv, CommitInv
  <2>2. Len(clog) \in Nat /\ Q \subseteq Node
    BY QuorumNodes, RaftTypes DEF RaftInv
  <2>3. \A m \in Q : Agree(clog, log'[m], Len(clog))
    BY <1>8, <2>1, <2>2
  <2>4. \A b \in Node : LastTerm(log'[b]) > LastTerm(clog) => Agree(clog, log'[b], Len(clog))
    BY <1>5, <1>8, <2>2 DEF RaftInv, CommitInv
  <2>. QED
    BY <1>1, <2>3, <2>4 DEF RaftInv, CommitInv
<1>16. KnownInv'
  <2>1. \A b \in Node : commit[b] \in Nat
    BY DEF TypeOK
  <2>2. \A b \in Node : Agree(clog, log'[b], commit[b])
    BY <1>8, <2>1 DEF RaftInv, KnownInv
  <2>3. \A k, m \in Node : Leads(k) /\ tm[m] <= tm[k] => Agree(log'[k], log'[m], commit[m])
    BY <1>7, <2>1 DEF RaftInv, KnownInv
  <2>. QED
    BY <1>1, <1>3, <2>2, <2>3 DEF RaftInv, KnownInv
<1>17. \A b \in Node : commit'[b] <= Len(log'[b])
  BY <1>1, <1>16 DEF KnownInv, Agree
<1>. QED
  BY <1>6, <1>9, <1>11, <1>12, <1>13, <1>14, <1>15, <1>16, <1>17 DEF RaftInv


-----------------------------------------------------------------------------
(* A leader replicates its log *)

\* The entries acknowledged to a leader, after m has acknowledged its whole log.
LEMMA ReplicateFacts ==
    ASSUME TypeOK, NEW n \in Node, NEW m \in Node, Replicate(n, m)
    PROVE  /\ Leads(n) /\ n # m /\ tm[m] <= tm[n] /\ term' = term /\ clog' = clog
           /\ log' \in [Node -> Seq(Entry)] /\ log'[m] = log[n]
           /\ \A b \in Node : b # m => log'[b] = log[b] /\ tm'[b] = tm[b] /\ commit'[b] = commit[b]
           /\ tm'[m] = tm[n] /\ tm' \in [Node -> 0..MaxTerm] /\ lead' \in [Node -> Node \cup {Nil}]
           /\ commit'[m] = commit[n] \/ commit'[m] = commit[m]
           /\ commit' \in [Node -> Nat] /\ match' \in [Node -> [Node -> Nat]]
           /\ \A k \in Node : Leads(k)' <=> k # m /\ Leads(k)
           /\ match'[n][m] = Len(log[n])
           /\ \A k, x \in Node : k # m /\ ~(k = n /\ x = m) => match'[k][x] = match[k][x]
<1>1. /\ tm \in [Node -> 0..MaxTerm] /\ lead \in [Node -> Node \cup {Nil}]
      /\ log \in [Node -> Seq(Entry)]
      /\ commit \in [Node -> Nat] /\ match \in [Node -> [Node -> Nat]]
  BY DEF TypeOK
<1>2. /\ lead[n] = n /\ n # m /\ tm[m] <= tm[n] /\ term' = term /\ clog' = clog
      /\ tm' = [tm EXCEPT ![m] = tm[n]]
      /\ lead' = [lead EXCEPT ![m] = n]
      /\ log' = [log EXCEPT ![m] = log[n]]
      /\ commit' = [commit EXCEPT ![m] = IF commit[n] > commit[m] THEN commit[n] ELSE commit[m]]
      /\ match' = [match EXCEPT ![n][m] = Len(log[n]), ![m] = NoMatch]
  BY <1>1 DEF Replicate
<1>3. /\ log' \in [Node -> Seq(Entry)] /\ log'[m] = log[n]
      /\ \A b \in Node : b # m => log'[b] = log[b]
  BY <1>1, <1>2
<1>4. /\ tm'[m] = tm[n] /\ tm' \in [Node -> 0..MaxTerm] /\ lead' \in [Node -> Node \cup {Nil}]
      /\ \A b \in Node : b # m => tm'[b] = tm[b]
  BY <1>1, <1>2
<1>5. /\ \A b \in Node : b # m => commit'[b] = commit[b]
      /\ commit'[m] = commit[n] \/ commit'[m] = commit[m]
      /\ commit' \in [Node -> Nat]
  BY <1>1, <1>2
<1>6. \A k \in Node : Leads(k)' <=> k # m /\ Leads(k)
  BY <1>1, <1>2 DEF Leads
<1>. DEFINE row == [match[n] EXCEPT ![m] = Len(log[n])]
<1>7. NoMatch \in [Node -> Nat] /\ row \in [Node -> Nat] /\ row[m] = Len(log[n])
      /\ \A x \in Node : x # m => row[x] = match[n][x]
  <2>1. match[n] \in [Node -> Nat] /\ Len(log[n]) \in Nat
    BY <1>1
  <2>. QED
    BY <2>1 DEF NoMatch
<1>8. match' = [[match EXCEPT ![n] = row] EXCEPT ![m] = NoMatch]
  BY <1>2
<1>. HIDE DEF row
<1>9. /\ match' \in [Node -> [Node -> Nat]] /\ match'[n] = row
      /\ \A k \in Node : k # m /\ k # n => match'[k] = match[k]
  BY <1>1, <1>2, <1>7, <1>8
<1>10. \A k, x \in Node : k # m /\ ~(k = n /\ x = m) => match'[k][x] = match[k][x]
  BY <1>7, <1>9
<1>11. Leads(n) /\ match'[n][m] = Len(log[n])
  BY <1>2, <1>7, <1>9 DEF Leads
<1>. QED
  BY <1>2, <1>3, <1>4, <1>5, <1>6, <1>9, <1>10, <1>11

\* A follower that takes over the log of a leader keeps the invariant of raft.
LEMMA ReplicateRaft ==
    ASSUME TypeOK, RaftInv, NEW n \in Node, NEW m \in Node, Replicate(n, m)
    PROVE  RaftInv' /\ \A b \in Node : commit'[b] <= Len(log'[b])
<1>1. /\ Leads(n) /\ n # m /\ tm[m] <= tm[n] /\ term' = term /\ clog' = clog
      /\ log' \in [Node -> Seq(Entry)] /\ log'[m] = log[n]
      /\ \A b \in Node : b # m => log'[b] = log[b] /\ tm'[b] = tm[b] /\ commit'[b] = commit[b]
      /\ tm'[m] = tm[n]
      /\ commit'[m] = commit[n] \/ commit'[m] = commit[m]
      /\ \A k \in Node : Leads(k)' <=> k # m /\ Leads(k)
      /\ match'[n][m] = Len(log[n])
      /\ \A k, x \in Node : k # m /\ ~(k = n /\ x = m) => match'[k][x] = match[k][x]
  BY ReplicateFacts
<1>2. \A b \in Node : \E a \in Node : log'[b] = log[a] /\ (b = m => a = n) /\ (b # m => a = b)
  BY <1>1
<1>3. LastTerm(log[n]) = tm[n]
  BY <1>1 DEF RaftInv, LeadInv
<1>4. \A b \in Node : tm'[b] >= tm[b]
  BY SMTT(20), <1>1, RaftTypes DEF RaftInv
<1>5. TermInv'
  <2>1. term' \in 1..MaxTerm
    BY <1>1 DEF RaftInv, TermInv
  <2>2. ASSUME NEW b \in Node
        PROVE  tm'[b] \in 1..term /\ Len(log'[b]) > 0 /\ Ordered(log'[b])
               /\ LastTerm(log'[b]) <= tm'[b]
    <3>1. CASE b = m
      <4>1. tm[n] \in 1..term /\ Len(log[n]) > 0 /\ Ordered(log[n]) /\ LastTerm(log[n]) <= tm[n]
        BY DEF RaftInv, TermInv
      <4>. QED
        BY <1>1, <3>1, <4>1
    <3>2. CASE b # m
      <4>1. tm[b] \in 1..term /\ Len(log[b]) > 0 /\ Ordered(log[b]) /\ LastTerm(log[b]) <= tm[b]
        BY DEF RaftInv, TermInv
      <4>. QED
        BY <1>1, <3>2, <4>1
    <3>. QED
      BY <3>1, <3>2
  <2>. QED
    BY <1>1, <2>1, <2>2 DEF TermInv
<1>6. LeadInv'
  <2>1. \A k \in Node : Leads(k)' => LastTerm(log'[k]) = tm'[k]
    BY <1>1 DEF RaftInv, LeadInv
  <2>2. \A k, b \in Node : Leads(k)' /\ Leads(b)' /\ tm'[k] = tm'[b] => k = b
    BY <1>1 DEF RaftInv, LeadInv
  <2>3. \A k, b \in Node : Leads(k)' =>
          \A i \in 1..Len(log'[b]) : log'[b][i].term = tm'[k] => i <= Len(log'[k])
    <3>. SUFFICES ASSUME NEW k \in Node, NEW b \in Node, Leads(k), k # m,
                         NEW i \in 1..Len(log'[b]), log'[b][i].term = tm[k]
                  PROVE  i <= Len(log[k])
      BY <1>1
    <3>1. PICK a \in Node : log'[b] = log[a]
      BY <1>2
    <3>. QED
      BY <3>1 DEF RaftInv, LeadInv
  <2>. QED
    BY <2>1, <2>2, <2>3 DEF LeadInv
<1>7. ChainInv'
  <2>. SUFFICES ASSUME NEW a \in Node, NEW b \in Node,
                       NEW i \in 1..Len(log'[a]), NEW j \in 1..Len(log'[b]),
                       i <= j, log'[a][i].term = log'[b][j].term
                PROVE  Agree(log'[a], log'[b], i)
    BY DEF ChainInv
  <2>1. PICK c \in Node : log'[a] = log[c]
    BY <1>2
  <2>2. PICK d \in Node : log'[b] = log[d]
    BY <1>2
  <2>. QED
    BY <2>1, <2>2 DEF RaftInv, ChainInv
<1>8. AckInv'
  <2>. SUFFICES ASSUME NEW k \in Node, NEW x \in Node, Leads(k), k # m, x # k, match'[k][x] > 0
                PROVE  /\ match'[k][x] <= Len(log[k])
                       /\ log[k][match'[k][x]].term = tm[k]
                       /\ tm'[x] >= tm[k]
                       /\ Agree(log[k], log'[x], match'[k][x]) \/ LastTerm(log'[x]) > tm[k]
    BY SMTT(20), <1>1 DEF AckInv
  <2>1. CASE k = n /\ x = m
    <3>1. /\ Len(log[n]) \in Nat /\ log[n][Len(log[n])].term = tm[n] /\ tm[n] \in Nat
          /\ log[n] \in Seq(Entry)
      BY <1>3, RaftTypes DEF RaftInv
    <3>2. Agree(log[n], log[n], Len(log[n]))
      BY <3>1, AgreeSelf
    <3>. QED
      BY <1>1, <2>1, <3>1, <3>2
  <2>2. CASE ~(k = n /\ x = m)
    <3>1. match'[k][x] = match[k][x]
      BY <1>1, <2>2
    <3>2. /\ match[k][x] <= Len(log[k])
          /\ log[k][match[k][x]].term = tm[k]
          /\ tm[x] >= tm[k]
          /\ Agree(log[k], log[x], match[k][x]) \/ LastTerm(log[x]) > tm[k]
      BY <3>1 DEF RaftInv, AckInv
    <3>3. CASE x = m
      <4>1. tm[n] # tm[k]
        BY <1>1, <2>2, <3>3 DEF RaftInv, LeadInv
      <4>2. tm[n] > tm[k]
        <5>1. tm[n] \in Nat /\ tm[m] \in Nat /\ tm[k] \in Nat
          BY RaftTypes DEF RaftInv
        <5>2. tm[m] <= tm[n] /\ tm[m] >= tm[k]
          BY <1>1, <3>2, <3>3
        <5>. QED
          BY <4>1, <5>1, <5>2
      <4>. QED
        BY <1>1, <1>3, <3>1, <3>2, <3>3, <4>2, RaftTypes DEF RaftInv
    <3>4. CASE x # m
      BY <1>1, <3>1, <3>2, <3>4
    <3>. QED
      BY <3>3, <3>4
  <2>. QED
    BY <2>1, <2>2
<1>9. VoteInv'
  <2>. SUFFICES ASSUME NEW k \in Node, NEW b \in Node, Leads(k), k # m, LastTerm(log'[b]) > tm[k]
                PROVE  \E V \in Quorum : \A x \in V :
                         tm'[x] > tm[k] /\ Agree(log[k], log'[b], match'[k][x])
    BY <1>1 DEF VoteInv
  <2>1. PICK a \in Node : log'[b] = log[a]
    BY <1>2
  <2>2. PICK V \in Quorum : \A x \in V : tm[x] > tm[k] /\ Agree(log[k], log[a], match[k][x])
    BY <2>1 DEF RaftInv, VoteInv
  <2>3. V \subseteq Node
    BY QuorumNodes
  <2>4. ASSUME NEW x \in V PROVE tm'[x] > tm[k] /\ match'[k][x] = match[k][x]
    <3>1. x \in Node /\ tm[x] > tm[k] /\ tm'[x] >= tm[x]
      BY <1>4, <2>2, <2>3
    <3>2. tm[x] \in Nat /\ tm[k] \in Nat /\ tm[n] \in Nat
      BY <3>1, RaftTypes DEF RaftInv
    <3>3. tm'[x] \in Nat
      BY <1>1, <3>1, <3>2
    <3>4. ~(k = n /\ x = m)
      BY <1>1, <3>1, <3>2
    <3>. QED
      BY <1>1, <3>1, <3>2, <3>3, <3>4
  <2>. QED
    BY <2>1, <2>2, <2>4
<1>10. CommitInv'
  <2>1. PICK Q \in Quorum : \A x \in Q : Agree(clog, log[x], Len(clog))
    BY DEF RaftInv, CommitInv
  <2>2. ASSUME NEW x \in Q PROVE Agree(clog, log'[x], Len(clog))
    <3>1. x \in Node
      BY QuorumNodes
    <3>2. CASE x = m
      <4>1. tm[m] >= LastTerm(clog)
        BY <2>1, <3>2, HolderTerm
      <4>2. tm[n] >= LastTerm(clog)
        BY <1>1, <4>1, RaftTypes DEF RaftInv
      <4>. QED
        BY <1>1, <3>2, <4>2, LeaderHasCommitted
    <3>3. CASE x # m
      BY <1>1, <2>1, <3>1, <3>3
    <3>. QED
      BY <3>2, <3>3
  <2>3. \A b \in Node : LastTerm(log'[b]) > LastTerm(clog) => Agree(clog, log'[b], Len(clog))
    <3>. TAKE b \in Node
    <3>1. PICK a \in Node : log'[b] = log[a]
      BY <1>2
    <3>. QED
      BY <3>1 DEF RaftInv, CommitInv
  <2>. QED
    BY <1>1, <2>2, <2>3 DEF RaftInv, CommitInv
<1>11. Agree(log[m], log[n], commit[m]) /\ Agree(log[n], log[m], commit[m])
  BY <1>1, AgreeSym DEF RaftInv, KnownInv
<1>12. KnownInv'
  <2>1. \A b \in Node : Agree(clog, log'[b], commit'[b])
    <3>. TAKE b \in Node
    <3>1. CASE b = m
      <4>1. Agree(clog, log[n], commit[n]) /\ Agree(clog, log[m], commit[m])
        BY DEF RaftInv, KnownInv
      <4>2. Agree(clog, log[n], commit[m])
        BY <1>11, <4>1, AgreeTrans, RaftTypes DEF RaftInv
      <4>. QED
        BY <1>1, <3>1, <4>1, <4>2
    <3>2. CASE b # m
      BY <1>1, <3>2 DEF RaftInv, KnownInv
    <3>. QED
      BY <3>1, <3>2
  <2>2. ASSUME NEW k \in Node, NEW x \in Node, Leads(k), k # m, tm'[x] <= tm[k]
        PROVE  Agree(log[k], log'[x], commit'[x])
    <3>1. CASE x = m
      <4>1. tm[n] <= tm[k] /\ tm[m] <= tm[k]
        BY <1>1, <2>2, <3>1, RaftTypes DEF RaftInv
      <4>2. Agree(log[k], log[n], commit[n]) /\ Agree(log[k], log[m], commit[m])
        BY <2>2, <4>1 DEF RaftInv, KnownInv
      <4>3. Agree(log[k], log[n], commit[m])
        BY SMTT(20), <1>11, <4>2, AgreeTrans, RaftTypes DEF RaftInv
      <4>. QED
        BY <1>1, <3>1, <4>2, <4>3
    <3>2. CASE x # m
      BY <1>1, <2>2, <3>2 DEF RaftInv, KnownInv
    <3>. QED
      BY <3>1, <3>2
  <2>3. \A k \in Node : Leads(k)' /\ tm'[k] = LastTerm(clog') => commit'[k] = Len(clog')
    BY <1>1 DEF RaftInv, KnownInv
  <2>. QED
    BY <1>1, <2>1, <2>2, <2>3 DEF KnownInv
<1>13. \A b \in Node : commit'[b] <= Len(log'[b])
  BY <1>12 DEF KnownInv, Agree
<1>. QED
  BY <1>5, <1>6, <1>7, <1>8, <1>9, <1>10, <1>12, <1>13 DEF RaftInv


-----------------------------------------------------------------------------
(* A leader commits *)

\* An entry of its term that a majority acknowledged to a leader is in the logs of this
\* majority, and fits what is committed: it continues it, or is a part of it.
LEMMA CommitFits ==
    ASSUME TypeOK, RaftInv, NEW n \in Node, NEW Q \in Quorum, NEW i \in 1..Len(log[n]),
           Commit(n, i, Q)
    PROVE  /\ \A m \in Q : Agree(log[n], log[m], i)
           /\ i <= Len(clog) => Agree(clog, log[n], i)
           /\ i > Len(clog) => Agree(clog, log[n], Len(clog))
<1>1. /\ Leads(n) /\ i > commit[n] /\ log[n][i].term = tm[n]
      /\ \A m \in Q : m = n \/ match[n][m] >= i
  BY DEF Commit, Leads
<1>2. i \in Nat /\ i > 0 /\ i <= Len(log[n])
  BY RaftTypes DEF RaftInv
<1>3. ASSUME NEW m \in Q PROVE Agree(log[n], log[m], i)
  <2>1. m \in Node
    BY QuorumNodes
  <2>2. CASE m = n
    BY <1>2, <2>2, AgreeSelf, RaftTypes DEF RaftInv
  <2>3. CASE m # n
    <3>1. match[n][m] >= i /\ match[n][m] > 0 /\ match[n][m] \in Nat
      BY <1>1, <1>2, <2>1, <2>3, RaftTypes DEF RaftInv
    <3>2. Agree(log[n], log[m], match[n][m]) \/ LastTerm(log[m]) > tm[n]
      BY <1>1, <2>1, <2>3, <3>1 DEF RaftInv, AckInv
    <3>3. CASE Agree(log[n], log[m], match[n][m])
      BY <1>2, <2>1, <3>1, <3>3, AgreeLess, RaftTypes DEF RaftInv
    <3>4. CASE LastTerm(log[m]) > tm[n]
      BY <1>1, <1>2, <2>1, <3>4, LaterHasAcked
    <3>. QED
      BY <3>2, <3>3, <3>4
  <2>. QED
    BY <2>2, <2>3
<1>4. Len(clog) \in Nat /\ clog \in Seq(Entry) /\ log[n] \in Seq(Entry) /\ tm[n] \in Nat
      /\ LastTerm(clog) \in Nat
  BY RaftTypes DEF RaftInv
<1>5. CASE tm[n] >= LastTerm(clog)
  <2>1. Agree(clog, log[n], Len(clog))
    BY <1>1, <1>5, LeaderHasCommitted
  <2>. QED
    BY <1>2, <1>3, <1>4, <2>1, AgreeLess
<1>6. CASE tm[n] < LastTerm(clog)
  <2>1. PICK P \in Quorum : \A m \in P : Agree(clog, log[m], Len(clog))
    BY DEF RaftInv, CommitInv
  <2>2. PICK h \in Node : Agree(clog, log[h], Len(clog))
    BY <2>1, QuorumNodes
  <2>3. /\ Len(clog) \in 1..Len(log[h]) /\ log[h][Len(clog)].term = LastTerm(clog)
        /\ LastTerm(log[h]) >= LastTerm(clog)
    BY <2>2, HolderTerm
  <2>4. log[h] \in Seq(Entry) /\ LastTerm(log[h]) \in Nat /\ Len(log[h]) \in Nat
    BY RaftTypes DEF RaftInv
  <2>5. LastTerm(log[h]) > tm[n]
    BY <1>4, <1>6, <2>3, <2>4
  <2>6. Agree(log[n], log[h], i)
    BY <1>1, <1>2, <2>5, LaterHasAcked
  <2>7. i \in 1..Len(log[h]) /\ log[h][i].term = tm[n]
    BY <1>1, <1>2, <2>4, <2>6 DEF Agree
  <2>8. i < Len(clog)
    <3>1. ASSUME Len(clog) <= i PROVE FALSE
      <4>1. log[h][Len(clog)].term <= log[h][i].term
        BY <2>3, <2>7, <3>1 DEF RaftInv, TermInv, Ordered
      <4>. QED
        BY <1>4, <1>6, <2>3, <2>7, <4>1
    <3>. QED
      BY <1>2, <1>4, <3>1
  <2>9. Agree(log[h], log[n], i)
    BY <2>6, AgreeSym
  <2>10. Agree(clog, log[n], i)
    BY <1>2, <1>4, <2>2, <2>4, <2>8, <2>9, AgreeTrans
  <2>. QED
    BY <1>2, <1>3, <1>4, <2>8, <2>10
<1>. QED
  BY <1>4, <1>5, <1>6

\* What is committed after the step, for a leader whose entry i fits.
LEMMA CommitFacts ==
    ASSUME TypeOK, RaftInv, NEW n \in Node, NEW Q \in Quorum, NEW i \in 1..Len(log[n]),
           Commit(n, i, Q)
    PROVE  /\ clog' \in Seq(Entry)
           /\ Agree(clog', clog, Len(clog))
           /\ Agree(clog', log[n], i)
           /\ i > Len(clog) => Len(clog') = i /\ LastTerm(clog') = tm[n]
           /\ i <= Len(clog) => clog' = clog
<1>1. /\ log[n] \in Seq(Entry) /\ clog \in Seq(Entry) /\ Len(clog) \in Nat
      /\ i \in Nat /\ i > 0 /\ i <= Len(log[n]) /\ log[n][i].term = tm[n]
      /\ clog' = IF i > Len(clog) THEN SubSeq(log[n], 1, i) ELSE clog
  BY RaftTypes DEF Commit, RaftInv
<1>2. CASE i > Len(clog)
  <2>1. clog' = SubSeq(log[n], 1, i)
    BY <1>1, <1>2
  <2>2. /\ clog' \in Seq(Entry) /\ Len(clog') = i
        /\ \A k \in 1..i : clog'[k] = log[n][k]
    BY <1>1, <2>1
  <2>3. LastTerm(clog') = tm[n]
    <3>1. clog' # <<>>
      BY <1>1, <2>2
    <3>. QED
      BY <1>1, <2>2, <3>1 DEF LastTerm
  <2>4. Agree(clog', log[n], i)
    BY <1>1, <2>2 DEF Agree
  <2>5. Agree(log[n], clog, Len(clog))
    BY <1>2, CommitFits, AgreeSym
  <2>6. Agree(clog', clog, Len(clog))
    <3>1. /\ log[n] \in Seq(Entry) /\ clog \in Seq(Entry) /\ clog' \in Seq(Entry)
          /\ Len(clog) \in Nat /\ i \in Nat /\ Len(clog) <= i
      BY <1>1, <1>2, <2>2
    <3>. QED
      BY <2>4, <2>5, <3>1, AgreeTrans
  <2>. QED
    BY <1>1, <1>2, <2>2, <2>3, <2>4, <2>6
<1>3. CASE i <= Len(clog)
  <2>1. clog' = clog
    BY <1>1, <1>3
  <2>2. Agree(clog, clog, Len(clog))
    BY <1>1, AgreeSelf
  <2>. QED
    BY <1>1, <1>3, <2>1, <2>2, CommitFits
<1>. QED
  BY <1>1, <1>2, <1>3

\* A leader that commits what a majority acknowledged keeps the invariant of raft.
LEMMA CommitRaft ==
    ASSUME TypeOK, RaftInv, NEW n \in Node, NEW Q \in Quorum, NEW i \in 1..Len(log[n]),
           Commit(n, i, Q)
    PROVE  RaftInv' /\ \A b \in Node : commit'[b] <= Len(log'[b])
<1>1. /\ tm' = tm /\ lead' = lead /\ log' = log /\ match' = match /\ term' = term
      /\ Leads(n) /\ i > commit[n]
      /\ commit'[n] = i /\ \A b \in Node : b # n => commit'[b] = commit[b]
      /\ \A m \in Q : m = n \/ match[n][m] >= i
  BY DEF Commit, Leads, TypeOK
<1>2. \A b \in Node : Leads(b)' <=> Leads(b)
  BY <1>1 DEF Leads
<1>3. /\ log[n] \in Seq(Entry) /\ clog \in Seq(Entry) /\ Len(clog) \in Nat /\ i \in Nat
      /\ i > 0 /\ commit[n] \in Nat /\ i <= Len(log[n]) /\ tm[n] \in Nat
      /\ LastTerm(clog) \in Nat
  BY RaftTypes DEF RaftInv
<1>4. /\ clog' \in Seq(Entry)
      /\ Agree(clog', clog, Len(clog))
      /\ Agree(clog', log[n], i)
      /\ i > Len(clog) => Len(clog') = i /\ LastTerm(clog') = tm[n]
      /\ i <= Len(clog) => clog' = clog
  BY CommitFacts
<1>5. TermInv' /\ LeadInv' /\ ChainInv' /\ AckInv' /\ VoteInv'
  <2>1. TermInv'
    BY <1>1 DEF RaftInv, TermInv
  <2>2. LeadInv'
    BY <1>1, <1>2 DEF RaftInv, LeadInv
  <2>3. ChainInv'
    BY <1>1 DEF RaftInv, ChainInv
  <2>4. AckInv'
    BY <1>1, <1>2 DEF RaftInv, AckInv
  <2>5. VoteInv'
    BY <1>1, <1>2 DEF RaftInv, VoteInv
  <2>. QED
    BY <2>1, <2>2, <2>3, <2>4, <2>5
<1>6. CommitInv'
  <2>1. CASE i > Len(clog)
    <3>1. \A m \in Q : Agree(clog', log[m], i)
      <4>. TAKE m \in Q
      <4>1. m \in Node /\ log[m] \in Seq(Entry)
        BY QuorumNodes, RaftTypes DEF RaftInv
      <4>2. Agree(log[n], log[m], i)
        BY CommitFits
      <4>. QED
        BY <1>3, <1>4, <4>1, <4>2, AgreeTrans
    <3>2. \A b \in Node : LastTerm(log[b]) > tm[n] => Agree(clog', log[b], i)
      <4>. SUFFICES ASSUME NEW b \in Node, LastTerm(log[b]) > tm[n]
                    PROVE  Agree(clog', log[b], i)
        OBVIOUS
      <4>1. Agree(log[n], log[b], i) /\ log[b] \in Seq(Entry)
        BY <1>1, <1>3, LaterHasAcked, RaftTypes DEF RaftInv
      <4>. QED
        BY <1>3, <1>4, <4>1, AgreeTrans
    <3>. QED
      BY <1>1, <1>3, <1>4, <2>1, <3>1, <3>2 DEF CommitInv
  <2>2. CASE i <= Len(clog)
    BY <1>1, <1>4, <2>2 DEF RaftInv, CommitInv
  <2>. QED
    BY <1>3, <2>1, <2>2
<1>7. KnownInv'
  <2>1. \A b \in Node : Agree(clog', log[b], commit'[b])
    <3>. TAKE b \in Node
    <3>1. CASE b = n
      BY <1>1, <1>4, <3>1
    <3>2. CASE b # n
      <4>1. Agree(clog, log[b], commit[b]) /\ commit[b] \in Nat /\ log[b] \in Seq(Entry)
        BY RaftTypes DEF RaftInv, KnownInv
      <4>2. commit[b] <= Len(clog)
        BY <4>1 DEF Agree
      <4>. QED
        BY <1>1, <1>3, <1>4, <3>2, <4>1, <4>2, AgreeTrans
    <3>. QED
      BY <3>1, <3>2
  <2>2. ASSUME NEW k \in Node, NEW m \in Node, Leads(k), tm[m] <= tm[k]
        PROVE  Agree(log[k], log[m], commit'[m])
    <3>1. CASE m # n
      BY <1>1, <2>2, <3>1 DEF RaftInv, KnownInv
    <3>2. CASE m = n /\ k = n
      BY <1>1, <1>3, <3>2, AgreeSelf
    <3>3. CASE m = n /\ k # n
      <4>1. tm[k] # tm[n] /\ LastTerm(log[k]) = tm[k]
        BY <1>1, <2>2, <3>3 DEF RaftInv, LeadInv
      <4>2. LastTerm(log[k]) > tm[n]
        BY <2>2, <3>3, <4>1, RaftTypes DEF RaftInv
      <4>3. Agree(log[n], log[k], i)
        BY <1>1, <1>3, <4>2, LaterHasAcked
      <4>. QED
        BY <1>1, <3>3, <4>3, AgreeSym
    <3>. QED
      BY <3>1, <3>2, <3>3
  <2>3. ASSUME NEW k \in Node, Leads(k), tm[k] = LastTerm(clog') PROVE commit'[k] = Len(clog')
    <3>1. CASE i > Len(clog)
      <4>1. k = n
        BY <1>1, <1>4, <2>3, <3>1 DEF RaftInv, LeadInv
      <4>. QED
        BY <1>1, <1>4, <3>1, <4>1
    <3>2. CASE i <= Len(clog)
      <4>1. commit[k] = Len(clog)
        BY <1>4, <2>3, <3>2 DEF RaftInv, KnownInv
      <4>2. k # n
        BY <1>1, <1>3, <3>2, <4>1
      <4>. QED
        BY <1>1, <1>4, <3>2, <4>1, <4>2
    <3>. QED
      BY <1>3, <3>1, <3>2
  <2>. QED
    BY <1>1, <1>2, <2>1, <2>2, <2>3 DEF KnownInv
<1>8. \A b \in Node : commit'[b] <= Len(log'[b])
  BY <1>1, <1>7 DEF KnownInv, Agree
<1>. QED
  BY <1>5, <1>6, <1>7, <1>8 DEF RaftInv


-----------------------------------------------------------------------------
(* An election *)

\* What an election changes.
LEMMA ElectFacts ==
    ASSUME TypeOK, RaftInv, NEW n \in Node, NEW Q \in Quorum, Elect(n, Q)
    PROVE  /\ Grow(n, [term |-> term + 1, op |-> Nil])
           /\ [term |-> term + 1, op |-> Nil] \in Entry
           /\ term < MaxTerm /\ n \in Q /\ \A m \in Q : UpToDate(log[n], m)
           /\ term' = term + 1 /\ commit' = commit /\ clog' = clog
           /\ tm' \in [Node -> 0..MaxTerm] /\ lead' \in [Node -> Node \cup {Nil}]
           /\ match' \in [Node -> [Node -> Nat]]
           /\ \A m \in Node : IF m \in Q THEN tm'[m] = term + 1 ELSE tm'[m] = tm[m]
           /\ \A m \in Node : Leads(m)' <=> m = n \/ (m \notin Q /\ Leads(m))
           /\ \A m \in Node : m \notin Q => match'[m] = match[m]
           /\ \A m \in Node : match'[n][m] = 0
<1>1. /\ RaftStep /\ term < MaxTerm /\ n \in Q /\ \A m \in Q : UpToDate(log[n], m)
      /\ term' = term + 1 /\ commit' = commit /\ clog' = clog
      /\ tm' = [m \in Node |-> IF m \in Q THEN term + 1 ELSE tm[m]]
      /\ lead' = [m \in Node |-> IF m = n THEN n ELSE IF m \in Q THEN Nil ELSE lead[m]]
      /\ match' = [m \in Node |-> IF m \in Q THEN NoMatch ELSE match[m]]
      /\ Grow(n, [term |-> term + 1, op |-> Nil])
  BY DEF Elect, Grow
<1>2. term + 1 \in 1..MaxTerm /\ term + 1 \in 0..MaxTerm
  BY <1>1, OpsAssumption DEF RaftInv, TermInv
<1>3. [term |-> term + 1, op |-> Nil] \in Entry
  BY <1>2 DEF Entry
<1>4. tm' \in [Node -> 0..MaxTerm]
  BY <1>1, <1>2 DEF TypeOK
<1>5. lead' \in [Node -> Node \cup {Nil}]
  BY <1>1 DEF TypeOK
<1>6. NoMatch \in [Node -> Nat] /\ \A m \in Node : NoMatch[m] = 0
  BY DEF NoMatch
<1>7. match' \in [Node -> [Node -> Nat]]
  BY <1>1, <1>6 DEF TypeOK
<1>8. \A m \in Node : Leads(m)' <=> m = n \/ (m \notin Q /\ Leads(m))
  <2>. TAKE m \in Node
  <2>1. CASE m = n
    <3>1. lead'[m] = m
      BY <1>1, <2>1
    <3>. QED
      BY <2>1, <3>1 DEF Leads
  <2>2. CASE m # n /\ m \in Q
    <3>1. lead'[m] = Nil /\ Nil # m
      BY <1>1, <2>2, OpsAssumption
    <3>. QED
      BY <2>2, <3>1 DEF Leads
  <2>3. CASE m # n /\ m \notin Q
    <3>1. lead'[m] = lead[m]
      BY <1>1, <2>3
    <3>. QED
      BY <2>3, <3>1 DEF Leads
  <2>. QED
    BY <2>1, <2>2, <2>3
<1>9. /\ \A m \in Node : m \notin Q => match'[m] = match[m]
      /\ \A m \in Node : match'[n][m] = 0
  BY <1>1, <1>6
<1>. QED
  BY <1>1, <1>3, <1>4, <1>5, <1>7, <1>8, <1>9

\* The winner of an election has all that is committed.
LEMMA WinnerHasCommitted ==
    ASSUME TypeOK, RaftInv, NEW n \in Node, NEW Q \in Quorum,
           \A m \in Q : UpToDate(log[n], m)
    PROVE  Agree(clog, log[n], Len(clog))
<1>1. PICK P \in Quorum : \A m \in P : Agree(clog, log[m], Len(clog))
  BY DEF RaftInv, CommitInv
<1>2. PICK m \in Node : m \in P /\ m \in Q
  BY QuorumMeet
<1>3. /\ Len(clog) \in 1..Len(log[m])
      /\ LastTerm(log[m]) >= LastTerm(clog)
  BY <1>1, <1>2, HolderTerm
<1>4. /\ LastTerm(log[m]) \in Nat /\ LastTerm(log[n]) \in Nat /\ LastTerm(clog) \in Nat
      /\ Len(log[m]) \in Nat /\ Len(log[n]) \in Nat /\ Len(clog) \in Nat
  BY RaftTypes DEF RaftInv
<1>5. \/ LastTerm(log[n]) > LastTerm(log[m])
      \/ LastTerm(log[n]) = LastTerm(log[m]) /\ Len(log[n]) >= Len(log[m])
  BY <1>2 DEF UpToDate
<1>6. LastTerm(log[n]) >= LastTerm(clog)
  BY <1>3, <1>4, <1>5
<1>7. LastTerm(log[n]) = LastTerm(clog) => Len(log[n]) >= Len(clog)
  BY <1>3, <1>4, <1>5
<1>. QED
  BY <1>6, <1>7, LateHasCommitted

\* The winner has what its voters acknowledged to a leader of an earlier term, unless it
\* has already followed a later one.
LEMMA WinnerHasAcked ==
    ASSUME TypeOK, RaftInv, NEW n \in Node, NEW m \in Node, UpToDate(log[n], m),
           NEW k \in Node, Leads(k), m # k, LastTerm(log[n]) <= tm[k]
    PROVE  Agree(log[k], log[n], match[k][m])
<1>1. /\ match[k][m] \in Nat /\ log[k] \in Seq(Entry) /\ log[m] \in Seq(Entry)
      /\ log[n] \in Seq(Entry)
      /\ LastTerm(log[m]) \in Nat /\ LastTerm(log[n]) \in Nat /\ tm[k] \in Nat
      /\ Len(log[m]) \in Nat /\ Len(log[n]) \in 1..Len(log[n]) /\ Len(log[k]) \in Nat
      /\ LastTerm(log[n]) = log[n][Len(log[n])].term
  BY RaftTypes DEF RaftInv
<1>2. CASE match[k][m] = 0
  BY <1>1, <1>2 DEF Agree
<1>3. CASE match[k][m] > 0
  <2>1. /\ match[k][m] <= Len(log[k])
        /\ log[k][match[k][m]].term = tm[k]
        /\ Agree(log[k], log[m], match[k][m]) \/ LastTerm(log[m]) > tm[k]
    BY <1>3 DEF RaftInv, AckInv
  <2>2. \/ LastTerm(log[n]) > LastTerm(log[m])
        \/ LastTerm(log[n]) = LastTerm(log[m]) /\ Len(log[n]) >= Len(log[m])
    BY DEF UpToDate
  <2>3. Agree(log[k], log[m], match[k][m])
    BY <1>1, <2>1, <2>2
  <2>4. match[k][m] \in 1..Len(log[m]) /\ log[m][match[k][m]].term = tm[k]
    BY <1>1, <1>3, <2>1, <2>3 DEF Agree
  <2>5. LastTerm(log[m]) >= tm[k]
    BY <2>4, RaftTypes DEF RaftInv
  <2>6. LastTerm(log[n]) = tm[k] /\ Len(log[n]) >= match[k][m]
    BY <1>1, <2>2, <2>4, <2>5
  <2>7. Agree(log[m], log[n], match[k][m])
    BY <1>1, <2>4, <2>6 DEF RaftInv, ChainInv
  <2>. QED
    BY <1>1, <2>3, <2>7, AgreeTrans
<1>. QED
  BY <1>1, <1>2, <1>3

\* An election keeps the invariant of raft: the votes of a majority carry what was
\* acknowledged and what was committed to the new leader.
LEMMA ElectRaft ==
    ASSUME TypeOK, RaftInv, NEW n \in Node, NEW Q \in Quorum, Elect(n, Q)
    PROVE  RaftInv' /\ log' \in [Node -> Seq(Entry)] /\ \A b \in Node : commit'[b] <= Len(log'[b])
<1>. DEFINE e == [term |-> term + 1, op |-> Nil]
<1>1. /\ Grow(n, e) /\ e \in Entry /\ e.term = term + 1
      /\ term < MaxTerm /\ n \in Q /\ \A m \in Q : UpToDate(log[n], m)
      /\ term' = term + 1 /\ commit' = commit /\ clog' = clog
      /\ \A m \in Node : IF m \in Q THEN tm'[m] = term + 1 ELSE tm'[m] = tm[m]
      /\ \A m \in Node : Leads(m)' <=> m = n \/ (m \notin Q /\ Leads(m))
      /\ \A m \in Node : m \notin Q => match'[m] = match[m]
      /\ \A m \in Node : match'[n][m] = 0
  BY ElectFacts
<1>. HIDE DEF e
<1>2. /\ log' \in [Node -> Seq(Entry)]
      /\ \A b \in Node : b # n => log'[b] = log[b]
      /\ \A b \in Node : /\ Len(log[b]) <= Len(log'[b])
                         /\ \A k \in 1..Len(log[b]) : log'[b][k] = log[b][k]
      /\ Len(log'[n]) = Len(log[n]) + 1
      /\ log'[n][Len(log[n]) + 1] = e
      /\ LastTerm(log'[n]) = term + 1
      /\ \A b \in Node : b # n => LastTerm(log'[b]) = LastTerm(log[b])
  BY <1>1, GrowFacts
<1>3. \A b \in Node, i \in Nat : \A c : Agree(c, log[b], i) => Agree(c, log'[b], i)
  BY <1>1, GrowFacts
<1>4. \A a, b \in Node, i \in Nat : Agree(log[a], log[b], i) => Agree(log'[a], log'[b], i)
  BY <1>1, GrowFacts
<1>5. \A b \in Node : /\ LastTerm(log[b]) <= term /\ LastTerm(log[b]) \in Nat
                      /\ tm[b] \in Nat /\ tm[b] <= term /\ tm[b] > 0 /\ term \in Nat
                      /\ LastTerm(log[b]) <= tm[b]
                      /\ Len(log[b]) \in Nat /\ Len(log'[b]) \in Nat
  <2>. TAKE b \in Node
  <2>1. LastTerm(log[b]) <= tm[b]
    BY DEF RaftInv, TermInv
  <2>2. Len(log'[b]) \in Nat
    BY <1>2
  <2>. QED
    BY <2>1, <2>2, RaftTypes DEF RaftInv
<1>6. \A b \in Node : tm'[b] >= tm[b]
  BY <1>1, <1>5
\* An entry is new, of the new term, or old, of an earlier one.
<1>7. ASSUME NEW b \in Node, NEW i \in 1..Len(log'[b])
      PROVE  \/ i \in 1..Len(log[b]) /\ log'[b][i] = log[b][i] /\ log'[b][i].term <= term
                /\ log'[b][i].term \in Nat
             \/ b = n /\ i = Len(log[n]) + 1 /\ log'[b][i].term = term + 1
  <2>1. CASE i \in 1..Len(log[b])
    <3>1. log[b][i].term \in Nat /\ log[b][i].term <= LastTerm(log[b])
      BY <2>1, RaftTypes DEF RaftInv
    <3>. QED
      BY <1>2, <1>5, <2>1, <3>1
  <2>2. CASE i \notin 1..Len(log[b])
    <3>1. b = n /\ i = Len(log[n]) + 1
      BY <1>2, <1>5, <2>2
    <3>. QED
      BY <1>1, <1>2, <3>1
  <2>. QED
    BY <2>1, <2>2
<1>8. TermInv'
  <2>1. term' \in 1..MaxTerm
    BY <1>1, <1>5, OpsAssumption DEF RaftInv, TermInv
  <2>2. ASSUME NEW b \in Node
        PROVE  tm'[b] \in 1..term' /\ Len(log'[b]) > 0 /\ Ordered(log'[b])
               /\ LastTerm(log'[b]) <= tm'[b]
    <3>1. tm'[b] \in 1..term'
      BY <1>1, <1>5
    <3>2. Len(log'[b]) > 0
      <4>1. Len(log[b]) > 0
        BY DEF RaftInv, TermInv
      <4>. QED
        BY <1>2, <1>5, <4>1
    <3>3. CASE b = n
      <4>1. Ordered(log[n]) /\ LastTerm(log[n]) <= e.term /\ log[n] \in Seq(Entry)
        BY <1>1, <1>5, RaftTypes DEF RaftInv, TermInv
      <4>2. log'[n] = Append(log[n], e)
        BY <1>1, GrowFacts
      <4>3. Ordered(log'[n])
        BY <1>1, <4>1, <4>2, AppendFacts
      <4>. QED
        BY <1>1, <1>2, <1>5, <3>1, <3>2, <3>3, <4>3
    <3>4. CASE b # n
      <4>1. log'[b] = log[b]
        BY <1>2, <3>4
      <4>2. Ordered(log[b]) /\ LastTerm(log[b]) <= tm[b]
        BY DEF RaftInv, TermInv
      <4>3. LastTerm(log[b]) <= tm'[b]
        BY <1>1, <1>5, <4>2
      <4>. QED
        BY <3>1, <3>2, <4>1, <4>2, <4>3
    <3>. QED
      BY <3>3, <3>4
  <2>. QED
    BY <2>1, <2>2 DEF TermInv
<1>9. ASSUME NEW k \in Node, Leads(k)', k # n
      PROVE  /\ k \notin Q /\ Leads(k) /\ tm'[k] = tm[k] /\ tm[k] <= term /\ log'[k] = log[k]
             /\ match'[k] = match[k]
  BY <1>1, <1>2, <1>5, <1>9
<1>10. LeadInv'
  <2>1. \A k \in Node : Leads(k)' => LastTerm(log'[k]) = tm'[k]
    <3>1. LastTerm(log'[n]) = tm'[n]
      BY <1>1, <1>2
    <3>2. \A k \in Node : Leads(k) => LastTerm(log[k]) = tm[k]
      BY DEF RaftInv, LeadInv
    <3>. QED
      BY <1>9, <3>1, <3>2
  <2>2. \A k, b \in Node : Leads(k)' /\ Leads(b)' /\ tm'[k] = tm'[b] => k = b
    <3>. SUFFICES ASSUME NEW k \in Node, NEW b \in Node, Leads(k)', Leads(b)', tm'[k] = tm'[b],
                         k # b
                  PROVE  FALSE
      OBVIOUS
    <3>0. tm'[n] = term + 1
      BY <1>1
    <3>1. CASE k = n
      BY <1>5, <1>9, <3>0, <3>1
    <3>2. CASE b = n
      BY <1>5, <1>9, <3>0, <3>2
    <3>3. CASE k # n /\ b # n
      BY <1>9, <3>3 DEF RaftInv, LeadInv
    <3>. QED
      BY <3>1, <3>2, <3>3
  <2>3. ASSUME NEW k \in Node, NEW b \in Node, Leads(k)', NEW i \in 1..Len(log'[b]),
               log'[b][i].term = tm'[k]
        PROVE  i <= Len(log'[k])
    <3>1. CASE k = n
      <4>1. tm'[k] = term + 1
        BY <1>1, <3>1
      <4>2. b = n
        BY <1>5, <1>7, <2>3, <4>1
      <4>. QED
        BY <1>5, <3>1, <4>2
    <3>2. CASE k # n
      <4>1. tm'[k] = tm[k] /\ log'[k] = log[k] /\ tm[k] <= term /\ Leads(k)
        BY <1>9, <2>3, <3>2
      <4>2. i \in 1..Len(log[b]) /\ log[b][i].term = tm[k]
        BY <1>5, <1>7, <2>3, <4>1
      <4>. QED
        BY <4>1, <4>2 DEF RaftInv, LeadInv
    <3>. QED
      BY <3>1, <3>2
  <2>. QED
    BY <2>1, <2>2, <2>3 DEF LeadInv
<1>11. ChainInv'
  <2>. SUFFICES ASSUME NEW a \in Node, NEW b \in Node,
                       NEW i \in 1..Len(log'[a]), NEW j \in 1..Len(log'[b]),
                       i <= j, log'[a][i].term = log'[b][j].term
                PROVE  Agree(log'[a], log'[b], i)
    BY DEF ChainInv
  <2>1. CASE a = b
    BY <1>2, <1>5, <2>1, AgreeSelf
  <2>2. CASE a # b
    <3>1. /\ i \in 1..Len(log[a]) /\ j \in 1..Len(log[b])
          /\ log'[a][i] = log[a][i] /\ log'[b][j] = log[b][j]
      <4>1. log'[a][i].term # term + 1 \/ log'[b][j].term # term + 1
        BY <1>5, <1>7, <2>2
      <4>2. log'[a][i].term # term + 1 /\ log'[b][j].term # term + 1
        BY <4>1
      <4>. QED
        BY <1>7, <4>2
    <3>2. Agree(log[a], log[b], i)
      BY <3>1 DEF RaftInv, ChainInv
    <3>. QED
      BY <1>4, <3>2
  <2>. QED
    BY <2>1, <2>2
<1>12. AckInv'
  <2>. SUFFICES ASSUME NEW k \in Node, NEW x \in Node, Leads(k)', x # k, match'[k][x] > 0
                PROVE  /\ match'[k][x] <= Len(log'[k])
                       /\ log'[k][match'[k][x]].term = tm'[k]
                       /\ tm'[x] >= tm'[k]
                       /\ Agree(log'[k], log'[x], match'[k][x]) \/ LastTerm(log'[x]) > tm'[k]
    BY DEF AckInv
  <2>1. k # n
    BY <1>1
  <2>2. /\ Leads(k) /\ tm'[k] = tm[k] /\ tm[k] <= term /\ log'[k] = log[k]
        /\ match'[k][x] = match[k][x]
    BY <1>9, <2>1
  <2>3. /\ match[k][x] <= Len(log[k])
        /\ log[k][match[k][x]].term = tm[k]
        /\ tm[x] >= tm[k]
        /\ Agree(log[k], log[x], match[k][x]) \/ LastTerm(log[x]) > tm[k]
    BY <2>2 DEF RaftInv, AckInv
  <2>4. match[k][x] \in Nat
    BY RaftTypes DEF RaftInv
  <2>5. tm'[x] >= tm[k]
    BY <1>1, <1>5, <2>3
  <2>6. Agree(log'[k], log'[x], match[k][x]) \/ LastTerm(log'[x]) > tm[k]
    <3>1. CASE Agree(log[k], log[x], match[k][x])
      BY <1>4, <2>4, <3>1
    <3>2. CASE LastTerm(log[x]) > tm[k]
      <4>1. CASE x = n
        BY <1>2, <1>5, <2>2, <4>1
      <4>2. CASE x # n
        BY <1>2, <3>2, <4>2
      <4>. QED
        BY <4>1, <4>2
    <3>. QED
      BY <2>3, <3>1, <3>2
  <2>. QED
    BY <2>2, <2>3, <2>5, <2>6
<1>13. VoteInv'
  <2>. SUFFICES ASSUME NEW k \in Node, NEW b \in Node, Leads(k)', LastTerm(log'[b]) > tm'[k]
                PROVE  \E V \in Quorum : \A m \in V :
                         tm'[m] > tm'[k] /\ Agree(log'[k], log'[b], match'[k][m])
    BY DEF VoteInv
  <2>1. k # n
    <3>1. tm'[n] = term + 1 /\ LastTerm(log'[n]) = term + 1
      BY <1>1, <1>2
    <3>2. \A x \in Node : x # n => log'[x] = log[x]
      BY <1>2
    <3>3. LastTerm(log'[b]) <= term + 1 /\ LastTerm(log'[b]) \in Nat /\ term \in Nat
      BY <1>5, <3>1, <3>2
    <3>4. ~(LastTerm(log'[b]) > term + 1)
      BY <3>3
    <3>. QED
      BY <3>1, <3>4
  <2>2. /\ k \notin Q /\ Leads(k) /\ tm'[k] = tm[k] /\ tm[k] <= term /\ log'[k] = log[k]
        /\ match'[k] = match[k]
    BY <1>9, <2>1
  <2>3. CASE LastTerm(log[b]) > tm[k]
    <3>1. PICK V \in Quorum : \A m \in V : tm[m] > tm[k] /\ Agree(log[k], log[b], match[k][m])
      BY <2>2, <2>3 DEF RaftInv, VoteInv
    <3>2. ASSUME NEW m \in V PROVE tm'[m] > tm'[k] /\ Agree(log'[k], log'[b], match'[k][m])
      <4>1. m \in Node /\ match[k][m] \in Nat
        BY QuorumNodes, RaftTypes DEF RaftInv
      <4>2. tm[m] > tm[k] /\ tm'[m] >= tm[m]
        BY <1>6, <3>1, <4>1
      <4>3. tm'[m] > tm[k]
        BY <1>1, <1>5, <4>1, <4>2
      <4>. QED
        BY <1>4, <2>2, <3>1, <4>1, <4>3
    <3>. QED
      BY <3>2
  <2>4. CASE ~(LastTerm(log[b]) > tm[k])
    <3>1. b = n /\ LastTerm(log[n]) <= tm[k]
      BY <1>2, <1>5, <2>2, <2>4
    <3>2. ASSUME NEW m \in Q PROVE tm'[m] > tm'[k] /\ Agree(log'[k], log'[b], match'[k][m])
      <4>1. m \in Node /\ match[k][m] \in Nat /\ m # k
        BY <2>2, QuorumNodes, RaftTypes DEF RaftInv
      <4>2. tm'[m] > tm[k]
        BY <1>1, <1>5, <4>1
      <4>3. Agree(log[k], log[n], match[k][m])
        BY <1>1, <2>2, <3>1, <4>1, WinnerHasAcked
      <4>. QED
        BY <1>4, <2>2, <3>1, <4>1, <4>2, <4>3
    <3>. QED
      BY <3>2
  <2>. QED
    BY <2>3, <2>4
<1>14. Agree(clog, log[n], Len(clog)) /\ Len(clog) \in Nat /\ clog \in Seq(Entry)
  BY <1>1, WinnerHasCommitted, RaftTypes DEF RaftInv
<1>15. CommitInv'
  <2>1. PICK P \in Quorum : \A m \in P : Agree(clog, log[m], Len(clog))
    BY DEF RaftInv, CommitInv
  <2>2. \A m \in P : Agree(clog, log'[m], Len(clog))
    BY <1>3, <1>14, <2>1, QuorumNodes
  <2>3. \A b \in Node : LastTerm(log'[b]) > LastTerm(clog) => Agree(clog, log'[b], Len(clog))
    <3>1. Agree(clog, log'[n], Len(clog))
      BY <1>3, <1>14
    <3>. QED
      BY <1>2, <3>1 DEF RaftInv, CommitInv
  <2>. QED
    BY <1>1, <2>2, <2>3 DEF RaftInv, CommitInv
<1>16. \A b \in Node : Agree(clog, log[b], commit[b]) /\ commit[b] \in Nat /\ commit[b] <= Len(clog)
  <2>1. \A b \in Node : Agree(clog, log[b], commit[b])
    BY DEF RaftInv, KnownInv
  <2>. QED
    BY <2>1, RaftTypes DEF RaftInv, Agree
<1>17. KnownInv'
  <2>1. \A b \in Node : Agree(clog, log'[b], commit[b])
    BY <1>3, <1>16
  <2>2. ASSUME NEW k \in Node, NEW m \in Node, Leads(k)', tm'[m] <= tm'[k]
        PROVE  Agree(log'[k], log'[m], commit[m])
    <3>1. CASE k = n
      <4>1. Agree(log[n], clog, Len(clog))
        BY <1>14, AgreeSym
      <4>2. Agree(log[n], log[m], commit[m])
        BY <1>14, <1>16, <4>1, AgreeTrans, RaftTypes DEF RaftInv
      <4>. QED
        BY <1>4, <1>16, <3>1, <4>2
    <3>2. CASE k # n
      <4>1. Leads(k) /\ tm'[k] = tm[k] /\ tm[k] <= term
        BY <1>9, <2>2, <3>2
      <4>2. tm'[m] = tm[m]
        BY <1>1, <1>5, <2>2, <4>1
      <4>3. Agree(log[k], log[m], commit[m])
        BY <2>2, <4>1, <4>2 DEF RaftInv, KnownInv
      <4>. QED
        BY <1>4, <1>16, <4>3
    <3>. QED
      BY <3>1, <3>2
  <2>3. LastTerm(clog) <= term
    <3>1. PICK P \in Quorum : \A m \in P : Agree(clog, log[m], Len(clog))
      BY DEF RaftInv, CommitInv
    <3>2. PICK m \in Node : m \in P
      BY QuorumNodes
    <3>3. tm[m] >= LastTerm(clog)
      BY <3>1, <3>2, HolderTerm
    <3>. QED
      BY <1>5, <3>3, RaftTypes DEF RaftInv
  <2>4. ASSUME NEW k \in Node, Leads(k)', tm'[k] = LastTerm(clog) PROVE commit[k] = Len(clog)
    <3>1. k # n
      BY <1>1, <1>5, <2>3, <2>4
    <3>2. Leads(k) /\ tm'[k] = tm[k]
      BY <1>9, <2>4, <3>1
    <3>. QED
      BY <2>4, <3>2 DEF RaftInv, KnownInv
  <2>. QED
    BY <1>1, <2>1, <2>2, <2>4 DEF KnownInv
<1>18. \A b \in Node : commit'[b] <= Len(log'[b])
  BY <1>1, <1>17 DEF KnownInv, Agree
<1>. QED
  BY <1>2, <1>8, <1>10, <1>11, <1>12, <1>13, <1>15, <1>17, <1>18 DEF RaftInv


-----------------------------------------------------------------------------
(* Values and reads *)

\* ValueAt for given kinds of the calls.
Val(kd, l, i) ==
    LET writes == {j \in 1..i : l[j].op # Nil}
        last   == CHOOSE j \in writes : \A k \in writes : k <= j
    IN  IF writes = {} THEN Nil
        ELSE IF kd[l[last].op] = "set" THEN l[last].op ELSE Nil

\* ValueAt reads the kinds of the calls of this state.
LEMMA ValIs == \A l, i : ValueAt(l, i) = Val(kind, l, i)
BY DEF ValueAt, Val

\* The last of the first i entries that is a call.
LastCall(l, i, j) ==
    j \in 1..i /\ l[j].op # Nil /\ \A k \in 1..i : l[k].op # Nil => k <= j

\* The value is that of the last call.
LEMMA ValChar ==
    ASSUME NEW kd, NEW l, NEW i \in Nat
    PROVE  \/ (\A j \in 1..i : l[j].op = Nil) /\ Val(kd, l, i) = Nil
           \/ \E j : /\ LastCall(l, i, j)
                     /\ Val(kd, l, i) = IF kd[l[j].op] = "set" THEN l[j].op ELSE Nil
<1>. DEFINE writes == {j \in 1..i : l[j].op # Nil}
            last == CHOOSE j \in writes : \A k \in writes : k <= j
<1>1. Val(kd, l, i) = IF writes = {} THEN Nil
                      ELSE IF kd[l[last].op] = "set" THEN l[last].op ELSE Nil
  BY DEF Val
<1>2. CASE writes = {}
  BY <1>1, <1>2
<1>3. CASE writes # {}
  <2>1. writes \in SUBSET (0..i)
    OBVIOUS
  <2>2. Max(writes) \in writes /\ \A k \in writes : k <= Max(writes)
    BY <1>3, <2>1, MaxUpTo
  <2>3. last \in writes /\ \A k \in writes : k <= last
    BY <2>2
  <2>4. LastCall(l, i, last)
    BY <2>3 DEF LastCall
  <2>. HIDE DEF last
  <2>5. Val(kd, l, i) = IF kd[l[last].op] = "set" THEN l[last].op ELSE Nil
    BY <1>1, <1>3
  <2>. QED
    BY <2>4, <2>5
<1>. QED
  BY <1>2, <1>3

\* The value depends on the first i entries and the kinds of their calls.
LEMMA ValSame ==
    ASSUME NEW kd, NEW kc, NEW a, NEW b, NEW i \in Nat, Agree(a, b, i),
           \A j \in 1..i : a[j].op # Nil => kc[a[j].op] = kd[a[j].op]
    PROVE  Val(kc, b, i) = Val(kd, a, i)
<1>1. \A j \in 1..i : a[j] = b[j]
  BY DEF Agree
<1>2. CASE \A j \in 1..i : a[j].op = Nil
  <2>1. \A j \in 1..i : b[j].op = Nil
    BY <1>1, <1>2
  <2>2. ~\E j : LastCall(a, i, j)
    BY <1>2 DEF LastCall
  <2>3. ~\E j : LastCall(b, i, j)
    BY <2>1 DEF LastCall
  <2>. QED
    BY <2>2, <2>3, ValChar
<1>3. CASE ~\A j \in 1..i : a[j].op = Nil
  <2>1. ~\A j \in 1..i : b[j].op = Nil
    BY <1>1, <1>3
  <2>2. PICK j : LastCall(a, i, j) /\ Val(kd, a, i) = IF kd[a[j].op] = "set" THEN a[j].op ELSE Nil
    BY <1>3, ValChar
  <2>3. PICK k : LastCall(b, i, k) /\ Val(kc, b, i) = IF kc[b[k].op] = "set" THEN b[k].op ELSE Nil
    BY <2>1, ValChar
  <2>4. j \in 1..i /\ k \in 1..i /\ j <= k /\ k <= j
    BY <1>1, <2>2, <2>3 DEF LastCall
  <2>5. j = k
    BY <2>4
  <2>. QED
    BY <1>1, <2>2, <2>3, <2>5 DEF LastCall
<1>. QED
  BY <1>2, <1>3

\* The value is a call or none.
LEMMA ValType ==
    ASSUME NEW kd, NEW l \in Seq(Entry), NEW i \in Nat, i <= Len(l)
    PROVE  Val(kd, l, i) \in Op \cup {Nil}
<1>1. \A j \in 1..i : l[j].op \in Op \cup {Nil}
  <2>. TAKE j \in 1..i
  <2>1. j \in 1..Len(l)
    OBVIOUS
  <2>2. l[j] \in Entry
    BY <2>1, EntryTerm
  <2>. QED
    BY <2>2 DEF Entry
<1>. QED
  BY <1>1, ValChar DEF LastCall

\* A leader that has committed an entry of its term, and that a majority still follows,
\* knows all that is committed.
LEMMA ReadCovers ==
    ASSUME TypeOK, RaftInv, NEW l \in Node, Leads(l), CommittedInTerm(l),
           NEW Q \in Quorum, \A m \in Q : tm[m] <= tm[l]
    PROVE  commit[l] = Len(clog)
<1>1. PICK P \in Quorum : \A m \in P : Agree(clog, log[m], Len(clog))
  BY DEF RaftInv, CommitInv
<1>2. PICK m \in Node : m \in P /\ m \in Q
  BY QuorumMeet
<1>3. tm[m] >= LastTerm(clog)
  BY <1>1, <1>2, HolderTerm
<1>4. tm[l] >= LastTerm(clog)
  BY <1>2, <1>3, RaftTypes DEF RaftInv
<1>5. Agree(clog, log[l], Len(clog))
  BY <1>4, LeaderHasCommitted
<1>6. Len(clog) \in 1..Len(log[l]) /\ log[l][Len(clog)].term = LastTerm(clog)
  BY <1>5, HolderTerm
<1>7. /\ commit[l] \in Nat /\ Len(clog) \in Nat /\ tm[l] \in Nat /\ LastTerm(clog) \in Nat
      /\ Len(log[l]) \in Nat
  BY RaftTypes DEF RaftInv
<1>8. commit[l] > 0 /\ log[l][commit[l]].term = tm[l]
  BY DEF CommittedInTerm
<1>9. commit[l] <= Len(clog) /\ commit[l] <= Len(log[l])
  BY DEF RaftInv, KnownInv, Agree
<1>10. log[l][commit[l]].term <= log[l][Len(clog)].term
  <2>1. commit[l] \in 1..Len(log[l])
    BY <1>7, <1>8, <1>9
  <2>. QED
    BY <1>6, <1>9, <2>1 DEF RaftInv, TermInv, Ordered
<1>11. tm[l] = LastTerm(clog)
  BY <1>4, <1>6, <1>7, <1>8, <1>10
<1>. QED
  BY <1>11 DEF RaftInv, KnownInv


-----------------------------------------------------------------------------
(* Steps of raft *)

RaftTyped ==
    /\ tm \in [Node -> 0..MaxTerm]
    /\ lead \in [Node -> Node \cup {Nil}]
    /\ log \in [Node -> Seq(Entry)]
    /\ commit \in [Node -> Nat]
    /\ \A n \in Node : commit[n] <= Len(log[n])
    /\ match \in [Node -> [Node -> Nat]]
    /\ term \in 0..MaxTerm
    /\ clog \in Seq(Entry)

Prop == [to : Node, op : Op, try : 1..MaxTry]
Task == [op : Op, node : Node, try : 1..MaxTry, index : Nat, st : {"propose", "get", "read"}]
Answer == [op : Op, res : {"ok", "err", "notfound"}, val : Op \cup {Nil}]

CallTyped ==
    /\ msgs \subseteq Prop
    /\ handlers \subseteq Task
    /\ replies \subseteq Answer
    /\ kind \in [Op -> {"set", "del", "get", Nil}]
    /\ \A o \in Op : kind[o] \in Kinds[o] \cup {Nil}
    /\ try \in [Op -> 0..MaxTry]
    /\ phase \in [Op -> {"new", "wait", "done"}]
    /\ out \in [Op -> {"ok", "err", "notfound", Nil}]
    /\ val \in [Op -> Op \cup {Nil}]
    /\ need \in [Op -> Nat]

\* The types of raft and those of the calls.
LEMMA TypeSplit == TypeOK <=> RaftTyped /\ CallTyped
BY Zenon DEF TypeOK, RaftTyped, CallTyped, Prop, Task, Answer

\* The same in the next state.
LEMMA TypeSplitNext == TypeOK' <=> RaftTyped' /\ CallTyped'
BY TypeSplit, PTL

\* No call is written where none was.
NoNew == \A o \in Op, b \in Node : \E a \in Node : Places(o, b)' = Places(o, a)

\* Nothing that is committed changes.
ClogKept == Agree(clog', clog, Len(clog))

\* An unchanged committed log is kept.
LEMMA ClogSame ==
    ASSUME TypeOK, clog' = clog
    PROVE  ClogKept
BY AgreeSelf DEF TypeOK, ClogKept

\* A step that leaves raft alone keeps its invariant.
LEMMA RaftSame ==
    ASSUME TypeOK, RaftInv, UNCHANGED raftVars
    PROVE  RaftTyped' /\ RaftInv' /\ ClogKept /\ NoNew
<1>1. /\ tm' = tm /\ lead' = lead /\ log' = log /\ commit' = commit /\ match' = match
      /\ term' = term /\ clog' = clog
  BY DEF raftVars
<1>2. RaftTyped'
  BY <1>1, TypeSplit DEF RaftTyped
<1>3. \A n \in Node : Leads(n)' <=> Leads(n)
  BY <1>1 DEF Leads
<1>4. TermInv' /\ ChainInv' /\ CommitInv'
  BY <1>1 DEF RaftInv, TermInv, ChainInv, CommitInv
<1>5. LeadInv'
  BY <1>1, <1>3 DEF RaftInv, LeadInv
<1>6. AckInv'
  BY <1>1, <1>3 DEF RaftInv, AckInv
<1>7. VoteInv'
  BY <1>1, <1>3 DEF RaftInv, VoteInv
<1>8. KnownInv'
  BY <1>1, <1>3 DEF RaftInv, KnownInv
<1>9. NoNew
  BY <1>1 DEF NoNew, Places
<1>. QED
  BY <1>1, <1>2, <1>4, <1>5, <1>6, <1>7, <1>8, <1>9, ClogSame DEF RaftInv

\* Every step of raft keeps its invariant, keeps what was committed and writes no call.
LEMMA RaftSteps ==
    ASSUME TypeOK, RaftInv, RaftNext
    PROVE  RaftTyped' /\ RaftInv' /\ ClogKept /\ NoNew /\ RaftStep
<1>0. RaftTyped
  BY TypeSplit
<1>1. ASSUME NEW n \in Node, NEW m \in Node, Replicate(n, m)
      PROVE  RaftTyped' /\ RaftInv' /\ ClogKept /\ NoNew /\ RaftStep
  <2>1. RaftInv' /\ \A b \in Node : commit'[b] <= Len(log'[b])
    BY <1>1, ReplicateRaft
  <2>2. /\ log' \in [Node -> Seq(Entry)] /\ log'[m] = log[n]
        /\ \A b \in Node : b # m => log'[b] = log[b]
        /\ tm' \in [Node -> 0..MaxTerm] /\ lead' \in [Node -> Node \cup {Nil}]
        /\ commit' \in [Node -> Nat] /\ match' \in [Node -> [Node -> Nat]]
        /\ term' = term /\ clog' = clog
    BY <1>1, ReplicateFacts
  <2>3. RaftTyped'
    BY <1>0, <2>1, <2>2 DEF RaftTyped
  <2>4. NoNew
    <3>. SUFFICES ASSUME NEW o \in Op, NEW b \in Node
                  PROVE  \E a \in Node : Places(o, b)' = Places(o, a)
      BY DEF NoNew
    <3>1. PICK a \in Node : log'[b] = log[a]
      BY <2>2
    <3>. QED
      BY <3>1 DEF Places
  <2>5. RaftStep
    BY <1>1 DEF Replicate
  <2>. QED
    BY <2>1, <2>2, <2>3, <2>4, <2>5, ClogSame
<1>2. ASSUME NEW n \in Node, NEW Q \in Quorum, Elect(n, Q)
      PROVE  RaftTyped' /\ RaftInv' /\ ClogKept /\ NoNew /\ RaftStep
  <2>1. RaftInv' /\ log' \in [Node -> Seq(Entry)] /\ \A b \in Node : commit'[b] <= Len(log'[b])
    BY <1>2, ElectRaft
  <2>. DEFINE e == [term |-> term + 1, op |-> Nil]
  <2>2. /\ Grow(n, e) /\ e \in Entry /\ e.op = Nil
        /\ tm' \in [Node -> 0..MaxTerm] /\ lead' \in [Node -> Node \cup {Nil}]
        /\ commit' = commit /\ match' \in [Node -> [Node -> Nat]]
        /\ clog' = clog
    BY <1>2, ElectFacts
  <2>. HIDE DEF e
  <2>3. term' \in 0..MaxTerm
    <3>1. term' \in 1..MaxTerm
      BY <2>1 DEF RaftInv, TermInv
    <3>. QED
      BY <3>1, OpsAssumption
  <2>4. RaftTyped'
    BY <1>0, <2>1, <2>2, <2>3 DEF RaftTyped
  <2>5. ASSUME NEW o \in Op, NEW b \in Node PROVE Places(o, b)' = Places(o, b)
    <3>0. Nil # o
      BY OpsAssumption
    <3>1. CASE b # n
      <4>1. log'[b] = log[b]
        BY <2>2, <3>1, GrowFacts
      <4>. QED
        BY <4>1 DEF Places
    <3>2. CASE b = n
      <4>1. /\ Len(log'[n]) = Len(log[n]) + 1 /\ log'[n][Len(log[n]) + 1].op = Nil
            /\ \A k \in 1..Len(log[n]) : log'[n][k] = log[n][k]
            /\ Len(log[n]) \in Nat
        BY <2>2, GrowFacts, RaftTypes DEF RaftInv
      <4>2. \A k \in 1..(Len(log[n]) + 1) : k \in 1..Len(log[n]) \/ k = Len(log[n]) + 1
        BY <4>1
      <4>3. \A k : k \in Places(o, n)' <=> k \in Places(o, n)
        BY <3>0, <4>1, <4>2 DEF Places
      <4>. QED
        BY <3>2, <4>3 DEF Places
    <3>. QED
      BY <3>1, <3>2
  <2>6. NoNew
    BY <2>5 DEF NoNew
  <2>7. RaftStep
    BY <1>2 DEF Elect
  <2>. QED
    BY <2>1, <2>2, <2>4, <2>6, <2>7, ClogSame
<1>3. ASSUME NEW n \in Node, NEW Q \in Quorum, NEW i \in 1..Len(log[n]), Commit(n, i, Q)
      PROVE  RaftTyped' /\ RaftInv' /\ ClogKept /\ NoNew /\ RaftStep
  <2>1. RaftInv' /\ \A b \in Node : commit'[b] <= Len(log'[b])
    BY <1>3, CommitRaft
  <2>2. clog' \in Seq(Entry) /\ Agree(clog', clog, Len(clog))
    BY <1>3, CommitFacts
  <2>3. /\ RaftStep /\ tm' = tm /\ lead' = lead /\ log' = log /\ match' = match /\ term' = term
        /\ commit' = [commit EXCEPT ![n] = i]
    BY <1>3 DEF Commit
  <2>4. commit' \in [Node -> Nat]
    <3>1. i \in Nat
      BY RaftTypes DEF RaftInv
    <3>. QED
      BY <1>0, <2>3, <3>1 DEF RaftTyped
  <2>5. RaftTyped'
    BY <1>0, <2>1, <2>2, <2>3, <2>4 DEF RaftTyped
  <2>6. NoNew
    BY <2>3 DEF NoNew, Places
  <2>. QED
    BY <2>1, <2>2, <2>3, <2>5, <2>6 DEF ClogKept
<1>. QED
  BY <1>1, <1>2, <1>3 DEF RaftNext

\* A leader appends the entry of a call.
LEMMA AppendSteps ==
    ASSUME TypeOK, RaftInv, NEW n \in Node, NEW o \in Op, Appends(n, o)
    PROVE  /\ RaftTyped' /\ RaftInv' /\ ClogKept
           /\ \A p \in Op, b \in Node : p # o \/ b # n => Places(p, b)' = Places(p, b)
           /\ Places(o, n)' = Places(o, n) \cup {Len(log[n]) + 1}
<1>0. RaftTyped
  BY TypeSplit
<1>1. RaftInv' /\ log' \in [Node -> Seq(Entry)] /\ \A b \in Node : commit'[b] <= Len(log'[b])
  BY AppendsRaft
<1>2. /\ tm' = tm /\ lead' = lead /\ commit' = commit /\ match' = match /\ term' = term
      /\ clog' = clog
  BY DEF Appends
<1>3. RaftTyped'
  BY <1>0, <1>1, <1>2 DEF RaftTyped
<1>. DEFINE e == [term |-> tm[n], op |-> o]
<1>4. Grow(n, e) /\ e \in Entry /\ e.op = o
  <2>1. tm[n] \in 1..MaxTerm
    BY RaftTypes DEF RaftInv, TermInv, TypeOK
  <2>. QED
    BY <2>1 DEF Entry, Grow, Appends, AppendEntry
<1>. HIDE DEF e
<1>5. /\ Len(log'[n]) = Len(log[n]) + 1 /\ log'[n][Len(log[n]) + 1].op = o
      /\ \A k \in 1..Len(log[n]) : log'[n][k] = log[n][k]
      /\ \A b \in Node : b # n => log'[b] = log[b]
      /\ Len(log[n]) \in Nat
  BY <1>4, GrowFacts, RaftTypes DEF RaftInv
<1>6. \A k \in 1..(Len(log[n]) + 1) : k \in 1..Len(log[n]) \/ k = Len(log[n]) + 1
  BY <1>5
<1>7. ASSUME NEW p \in Op, p # o PROVE Places(p, n)' = Places(p, n)
  <2>1. \A k : k \in Places(p, n)' <=> k \in Places(p, n)
    BY <1>5, <1>6, <1>7 DEF Places
  <2>. QED
    BY <2>1 DEF Places
<1>8. ASSUME NEW p \in Op, NEW b \in Node, b # n PROVE Places(p, b)' = Places(p, b)
  BY <1>5, <1>8 DEF Places
<1>9. Places(o, n)' = Places(o, n) \cup {Len(log[n]) + 1}
  <2>1. \A k : k \in Places(o, n)' <=> k \in Places(o, n) \cup {Len(log[n]) + 1}
    BY <1>5, <1>6 DEF Places
  <2>. QED
    BY <2>1 DEF Places
<1>. QED
  BY <1>1, <1>2, <1>3, <1>7, <1>8, <1>9, ClogSame


-----------------------------------------------------------------------------
(* What every step keeps of the calls *)

\* Messages, handlers and replies are of calls that have begun.
LEMMA AllStarted ==
    ASSUME CallTyped, StartInv
    PROVE  /\ \A x \in msgs \cup handlers \cup replies : x.op \in Op /\ phase[x.op] # "new"
           /\ msgs \subseteq Prop /\ handlers \subseteq Task /\ replies \subseteq Answer
<1>1. msgs \subseteq Prop /\ handlers \subseteq Task /\ replies \subseteq Answer
  BY DEF CallTyped
<1>2. \A x \in Prop \cup Task \cup Answer : x.op \in Op
  BY DEF Prop, Task, Answer
<1>3. ASSUME NEW x \in msgs \cup handlers \cup replies PROVE x.op \in Op /\ phase[x.op] # "new"
  <2>1. x.op \in Op
    BY <1>1, <1>2
  <2>. QED
    BY <2>1 DEF StartInv
<1>. QED
  BY <1>1, <1>3

\* What is committed is of calls that have begun.
LEMMA ClogStarted ==
    ASSUME TypeOK, RaftInv, StartInv, NEW j \in 1..Len(clog), clog[j].op # Nil
    PROVE  clog[j].op \in Op /\ phase[clog[j].op] # "new"
<1>1. PICK P \in Quorum : \A m \in P : Agree(clog, log[m], Len(clog))
  BY DEF RaftInv, CommitInv
<1>2. PICK m \in Node : Agree(clog, log[m], Len(clog))
  BY <1>1, QuorumNodes
<1>3. Len(clog) \in Nat /\ Len(log[m]) \in Nat /\ clog \in Seq(Entry)
  BY RaftTypes DEF RaftInv
<1>4. j \in 1..Len(log[m]) /\ log[m][j] = clog[j]
  BY <1>2, <1>3 DEF Agree
<1>5. clog[j] \in Entry
  BY <1>3, EntryTerm
<1>6. clog[j].op \in Op
  BY <1>5 DEF Entry
<1>7. j \in Places(clog[j].op, m)
  BY <1>4 DEF Places
<1>. QED
  BY <1>6, <1>7 DEF StartInv

\* What was seen of the committed entries remains seen.
LEMMA SeenKept ==
    ASSUME TypeOK, RaftInv, StartInv, ClogKept, NEW o \in Op, NEW v,
           need'[o] = need[o], need[o] \in Nat,
           \A p \in Op : phase[p] # "new" => kind'[p] = kind[p],
           Seen(o, v)
    PROVE  Seen(o, v)'
<1>1. PICK i \in need[o]..Len(clog) : v = ValueAt(clog, i)
  BY DEF Seen
<1>2. Len(clog) \in Nat /\ clog \in Seq(Entry)
  BY DEF TypeOK
<1>3. i \in Nat /\ i >= need[o] /\ i <= Len(clog)
  BY <1>1, <1>2
<1>4. Agree(clog, clog', i) /\ Len(clog) <= Len(clog')
  <2>1. Agree(clog', clog, Len(clog))
    BY DEF ClogKept
  <2>. QED
    BY <1>2, <1>3, <2>1 DEF Agree
<1>5. \A j \in 1..i : clog[j].op # Nil => kind'[clog[j].op] = kind[clog[j].op]
  <2>. SUFFICES ASSUME NEW j \in 1..i, clog[j].op # Nil
                PROVE  kind'[clog[j].op] = kind[clog[j].op]
    OBVIOUS
  <2>1. j \in 1..Len(clog)
    BY <1>2, <1>3
  <2>. QED
    BY <2>1, ClogStarted
<1>6. Val(kind', clog', i) = Val(kind, clog, i)
  BY <1>3, <1>4, <1>5, ValSame
<1>7. ValueAt(clog, i)' = Val(kind', clog', i) /\ ValueAt(clog, i) = Val(kind, clog, i)
  BY DEF ValueAt, Val
<1>8. v = ValueAt(clog, i)' /\ i \in need'[o]..Len(clog')
  <2>1. v = ValueAt(clog, i)'
    BY <1>1, <1>6, <1>7
  <2>2. Len(clog') >= i
    BY <1>4 DEF Agree
  <2>3. Len(clog') \in Int
    BY <1>4, <2>2, <1>2, <1>3 DEF Agree
  <2>. QED
    BY <1>3, <2>1, <2>2, <2>3
<1>. QED
  BY <1>8 DEF Seen


CallInv == CallTyped /\ StartInv /\ OnceInv /\ ReadInv

\* Steps that leave the calls of the client alone keep what was seen.
LEMMA ReadFrame ==
    ASSUME TypeOK, RaftInv, CallInv, ClogKept, kind' = kind, need' = need, out' = out, val' = val
    PROVE  /\ \A o \in Op : need'[o] <= Len(clog')
           /\ \A r \in replies : kind[r.op] = "get" /\ r.res # "err" => Seen(r.op, r.val)'
           /\ \A o \in Op : kind'[o] = "get" /\ out'[o] \in {"ok", "notfound"} => Seen(o, val[o])'
<1>0. \A o \in Op : need[o] \in Nat
  BY DEF CallInv, CallTyped
<1>1. \A o \in Op : need'[o] <= Len(clog')
  <2>1. \A o \in Op : need[o] <= Len(clog)
    BY DEF CallInv, ReadInv
  <2>2. Len(clog) <= Len(clog') /\ Len(clog) \in Nat
    BY DEF ClogKept, Agree, TypeOK
  <2>3. Len(clog') \in Int
    BY <2>2
  <2>. QED
    BY <1>0, <2>1, <2>2, <2>3
<1>2. ASSUME NEW r \in replies, kind[r.op] = "get", r.res # "err" PROVE Seen(r.op, r.val)'
  <2>1. r.op \in Op
    BY AllStarted DEF CallInv
  <2>2. Seen(r.op, r.val)
    BY <1>2 DEF CallInv, ReadInv
  <2>. QED
    BY <1>0, <2>1, <2>2, SeenKept DEF CallInv
<1>3. ASSUME NEW o \in Op, kind'[o] = "get", out'[o] \in {"ok", "notfound"}
      PROVE  Seen(o, val[o])'
  <2>1. PICK v : v = val[o]
    OBVIOUS
  <2>2. Seen(o, v)
    BY <1>3, <2>1 DEF CallInv, ReadInv
  <2>3. Seen(o, v)'
    BY <1>0, <2>2, SeenKept DEF CallInv
  <2>4. v = val'[o]
    BY <2>1
  <2>. QED
    BY <2>3, <2>4 DEF Seen
<1>. QED
  BY <1>1, <1>2, <1>3

\* A step of raft leaves the calls as they are.
LEMMA RaftCalls ==
    ASSUME TypeOK, RaftInv, CallInv, ClogKept, NoNew, RaftStep
    PROVE  CallInv'
<1>1. /\ msgs' = msgs /\ handlers' = handlers /\ replies' = replies /\ kind' = kind
      /\ try' = try /\ phase' = phase /\ out' = out /\ val' = val /\ need' = need
  BY DEF RaftStep, callVars
<1>2. CallTyped'
  BY <1>1 DEF CallInv, CallTyped
<1>3. \A o \in Op : (\A n \in Node : Places(o, n) = {}) => \A n \in Node : Places(o, n)' = {}
  BY DEF NoNew
<1>4. StartInv'
  BY <1>1, <1>3 DEF CallInv, StartInv
<1>5. ASSUME NEW o \in Op,
             \A m, n \in Node : \A i \in Places(o, m), j \in Places(o, n) : i = j
      PROVE  \A m, n \in Node : \A i \in Places(o, m)', j \in Places(o, n)' : i = j
  <2>. TAKE m, n \in Node
  <2>1. PICK a \in Node : Places(o, m)' = Places(o, a)
    BY DEF NoNew
  <2>2. PICK b \in Node : Places(o, n)' = Places(o, b)
    BY DEF NoNew
  <2>. QED
    BY <1>5, <2>1, <2>2
<1>6. OnceInv'
  BY <1>1, <1>3, <1>5 DEF CallInv, OnceInv, Alone
<1>7. ReadInv'
  <2>1. \A r \in replies' : kind'[r.op] = "get" /\ r.res # "err" => Seen(r.op, r.val)'
    BY <1>1, ReadFrame
  <2>2. \A o \in Op : kind'[o] = "get" /\ out'[o] \in {"ok", "notfound"} => Seen(o, val[o])'
    BY <1>1, ReadFrame
  <2>3. \A h \in handlers' : /\ h.st = "propose" <=> kind'[h.op] # "get"
                             /\ h.st = "read" => need'[h.op] <= h.index
    BY <1>1 DEF CallInv, ReadInv
  <2>4. \A o \in Op : need'[o] <= Len(clog')
    BY <1>1, ReadFrame
  <2>. QED
    BY <2>1, <2>2, <2>3, <2>4 DEF ReadInv
<1>. QED
  BY <1>2, <1>4, <1>6, <1>7 DEF CallInv


-----------------------------------------------------------------------------
(* Proposals *)

\* The client notices nothing, and no reply is new.
LEMMA ReadQuiet ==
    ASSUME TypeOK, RaftInv, CallInv, ClogKept, UNCHANGED callVars,
           handlers' \subseteq handlers, replies' = replies
    PROVE  ReadInv'
<1>1. kind' = kind /\ need' = need /\ out' = out /\ val' = val
  BY DEF callVars
<1>2. \A h \in handlers' : /\ h.st = "propose" <=> kind'[h.op] # "get"
                           /\ h.st = "read" => need'[h.op] <= h.index
  BY <1>1 DEF CallInv, ReadInv
<1>3. \A r \in replies' : kind'[r.op] = "get" /\ r.res # "err" => Seen(r.op, r.val)'
  BY <1>1, ReadFrame
<1>. QED
  BY <1>1, <1>2, <1>3, ReadFrame DEF ReadInv

\* A forwarded proposal that arrives is appended, dropped or forwarded again, and so stays
\* at one place.
LEMMA RecvPropCalls ==
    ASSUME TypeOK, RaftInv, CallInv, NEW m \in msgs, RecvProp(m)
    PROVE  RaftTyped' /\ RaftInv' /\ ClogKept /\ CallInv'
<1>0. /\ m \in Prop /\ m.to \in Node /\ m.op \in Op /\ phase[m.op] # "new"
      /\ \A x \in msgs \cup handlers \cup replies : x.op \in Op /\ phase[x.op] # "new"
  BY AllStarted DEF CallInv, Prop
<1>1. /\ handlers' = handlers /\ replies' = replies /\ kind' = kind
      /\ try' = try /\ phase' = phase /\ out' = out /\ val' = val /\ need' = need
      /\ UNCHANGED callVars
  BY DEF RecvProp, callVars
<1>2. CASE Appends(m.to, m.op) /\ msgs' = msgs \ {m}
  <2>. DEFINE n == m.to
              o == m.op
  <2>1. /\ RaftTyped' /\ RaftInv' /\ ClogKept
        /\ \A p \in Op, b \in Node : p # o \/ b # n => Places(p, b)' = Places(p, b)
        /\ Places(o, n)' = Places(o, n) \cup {Len(log[n]) + 1}
    BY <1>0, <1>2, AppendSteps
  <2>2. CallTyped'
    BY <1>1, <1>2 DEF CallInv, CallTyped
  <2>3. StartInv'
    BY <1>0, <1>1, <1>2, <2>1 DEF CallInv, StartInv
  <2>4. ASSUME NEW p \in Op, try[p] <= 1 PROVE Alone(p)'
    <3>1. Alone(p)
      BY <2>4 DEF CallInv, OnceInv
    <3>2. CASE p # o
      <4>1. \A b \in Node : Places(p, b)' = Places(p, b)
        BY <2>1, <3>2
      <4>. QED
        BY <1>1, <1>2, <3>1, <4>1 DEF Alone
    <3>3. CASE p = o
      <4>1. \A b \in Node : Places(o, b) = {}
        BY <3>1, <3>3 DEF Alone
      <4>2. /\ \A b \in Node : b # n => Places(o, b)' = {}
            /\ Places(o, n)' = {Len(log[n]) + 1}
        BY <1>0, <2>1, <4>1
      <4>3. \A x \in msgs' : x.op # o
        BY <1>2, <3>1, <3>3 DEF Alone
      <4>4. ~\E h \in handlers' : h.op = o /\ h.st = "propose"
        BY <1>1, <3>1, <3>3 DEF Alone
      <4>5. \A a, b \in Node : \A i \in Places(o, a)', j \in Places(o, b)' : i = j
        BY <4>2
      <4>6. \A g, h \in handlers' : g.op = o /\ h.op = o => g = h
        BY <1>1, <3>1, <3>3 DEF Alone
      <4>. QED
        BY <3>3, <4>3, <4>4, <4>5, <4>6 DEF Alone
    <3>. QED
      BY <3>2, <3>3
  <2>5. OnceInv'
    BY <1>1, <2>4 DEF OnceInv
  <2>6. ReadInv'
    BY <1>1, <2>1, ReadQuiet
  <2>. QED
    BY <2>1, <2>2, <2>3, <2>5, <2>6 DEF CallInv
<1>3. ASSUME UNCHANGED raftVars, msgs' \subseteq Prop,
             msgs' \subseteq (msgs \ {m}) \cup {Forward(m.to, m.op, m.try)}
      PROVE  RaftTyped' /\ RaftInv' /\ ClogKept /\ CallInv'
  <2>1. RaftTyped' /\ RaftInv' /\ ClogKept
    BY <1>3, RaftSame
  <2>2. \A p \in Op, b \in Node : Places(p, b)' = Places(p, b)
    BY <1>3 DEF raftVars, Places
  <2>3. CallTyped'
    BY <1>1, <1>3 DEF CallInv, CallTyped
  <2>4. Forward(m.to, m.op, m.try).op = m.op
    BY DEF Forward
  <2>5. StartInv'
    <3>1. \A x \in msgs' \cup handlers' \cup replies' : phase[x.op] # "new"
      BY <1>0, <1>1, <1>3, <2>4
    <3>. QED
      BY <1>1, <2>2, <3>1 DEF CallInv, StartInv
  <2>6. ASSUME NEW p \in Op, try[p] <= 1 PROVE Alone(p)'
    <3>1. Alone(p)
      BY <2>6 DEF CallInv, OnceInv
    <3>2. \A x \in msgs' : x.op = p => \E y \in msgs : y.op = p
      BY <1>3, <2>4
    <3>3. \A x, y \in msgs' : x.op = p /\ y.op = p => x = y
      <4>1. CASE p = m.op
        <5>1. \A x \in msgs \ {m} : x.op # p
          BY <3>1, <4>1 DEF Alone
        <5>. QED
          BY <1>3, <5>1
      <4>2. CASE p # m.op
        <5>1. \A x \in msgs' : x.op = p => x \in msgs
          BY <1>3, <2>4, <4>2
        <5>. QED
          BY <3>1, <5>1 DEF Alone
      <4>. QED
        BY <4>1, <4>2
    <3>. QED
      BY <1>1, <2>2, <3>1, <3>2, <3>3 DEF Alone
  <2>7. OnceInv'
    BY <1>1, <2>6 DEF OnceInv
  <2>8. ReadInv'
    BY <1>1, <2>1, ReadQuiet
  <2>. QED
    BY <2>1, <2>3, <2>5, <2>7, <2>8 DEF CallInv
<1>4. CASE AppendEntry(m.to, m.op) /\ msgs' = Taken(m)
  BY <1>2, <1>4 DEF Appends, RecvProp, Taken
<1>5. CASE msgs' = Taken(m) /\ UNCHANGED log
  <2>1. UNCHANGED raftVars
    BY <1>5 DEF RecvProp, raftVars
  <2>. QED
    BY <1>3, <1>5, <2>1 DEF Taken, CallInv, CallTyped
<1>6. CASE lead[m.to] \notin {Nil, m.to} /\ msgs' = Taken(m) \cup {Forward(m.to, m.op, m.try)}
           /\ UNCHANGED log
  <2>1. UNCHANGED raftVars
    BY <1>6 DEF RecvProp, raftVars
  <2>2. lead[m.to] \in Node /\ m.try \in 1..MaxTry
    BY <1>0, <1>6 DEF TypeOK, Prop
  <2>3. Forward(m.to, m.op, m.try) \in Prop
    BY <1>0, <2>2 DEF Forward, Prop
  <2>4. msgs' \subseteq Prop
    BY <1>6, <2>3, AllStarted DEF Taken, CallInv
  <2>. QED
    BY <1>3, <1>6, <2>1, <2>4 DEF Taken
<1>. QED
  BY <1>4, <1>5, <1>6 DEF RecvProp


-----------------------------------------------------------------------------
(* Handlers *)

\* What Reply adds.
LEMMA ReplyFacts ==
    ASSUME CallInv, NEW h \in handlers, NEW res \in {"ok", "err", "notfound"},
           NEW v \in Op \cup {Nil}, Reply(h, res, v)
    PROVE  /\ handlers' = handlers \ {h}
           /\ replies' \subseteq replies \cup {[op |-> h.op, res |-> res, val |-> v]}
           /\ replies' \subseteq Answer
<1>1. h.op \in Op /\ replies \subseteq Answer
  BY AllStarted DEF CallInv
<1>2. [op |-> h.op, res |-> res, val |-> v] \in Answer
  BY <1>1 DEF Answer
<1>3. /\ handlers' = handlers \ {h}
      /\ replies' \subseteq replies \cup {[op |-> h.op, res |-> res, val |-> v]}
  BY DEF Reply
<1>. QED
  BY <1>1, <1>2, <1>3

\* An answer that has seen enough may be added.
LEMMA ReadAnswer ==
    ASSUME TypeOK, RaftInv, CallInv, ClogKept, UNCHANGED callVars, handlers' \subseteq handlers,
           NEW r, replies' \subseteq replies \cup {r}, r.op \in Op,
           kind[r.op] = "get" /\ r.res # "err" => Seen(r.op, r.val)
    PROVE  ReadInv'
<1>1. kind' = kind /\ need' = need /\ out' = out /\ val' = val /\ phase' = phase
  BY DEF callVars
<1>2. \A h \in handlers' : /\ h.st = "propose" <=> kind'[h.op] # "get"
                           /\ h.st = "read" => need'[h.op] <= h.index
  BY <1>1 DEF CallInv, ReadInv
<1>3. kind[r.op] = "get" /\ r.res # "err" => Seen(r.op, r.val)'
  <2>1. need[r.op] \in Nat
    BY DEF CallInv, CallTyped
  <2>. QED
    BY <1>1, <2>1, SeenKept DEF CallInv
<1>4. \A x \in replies' : kind'[x.op] = "get" /\ x.res # "err" => Seen(x.op, x.val)'
  <2>. SUFFICES ASSUME NEW x \in replies', kind'[x.op] = "get", x.res # "err"
                PROVE  Seen(x.op, x.val)'
    OBVIOUS
  <2>1. CASE x \in replies
    BY <1>1, <2>1, ReadFrame
  <2>2. CASE x = r
    BY <1>1, <1>3, <2>2
  <2>. QED
    BY <2>1, <2>2
<1>. QED
  BY <1>1, <1>2, <1>4, ReadFrame DEF ReadInv

\* Messages and handlers may go, and an answer of one of the handlers come.
LEMMA LessCalls ==
    ASSUME TypeOK, RaftInv, CallInv, UNCHANGED raftVars, UNCHANGED callVars,
           msgs' \subseteq msgs, handlers' \subseteq handlers,
           NEW r, replies' \subseteq replies \cup {r}, replies' \subseteq Answer,
           r.op \in Op, phase[r.op] # "new",
           kind[r.op] = "get" /\ r.res # "err" => Seen(r.op, r.val)
    PROVE  RaftTyped' /\ RaftInv' /\ ClogKept /\ CallInv'
<1>1. /\ kind' = kind /\ try' = try /\ phase' = phase /\ out' = out /\ val' = val
      /\ need' = need
  BY DEF callVars
<1>2. RaftTyped' /\ RaftInv' /\ ClogKept
  BY RaftSame
<1>3. \A p \in Op, b \in Node : Places(p, b)' = Places(p, b)
  BY DEF raftVars, Places
<1>4. CallTyped'
  BY <1>1 DEF CallInv, CallTyped
<1>5. StartInv'
  <2>1. \A x \in msgs' \cup handlers' \cup replies' : phase[x.op] # "new"
    BY AllStarted DEF CallInv
  <2>. QED
    BY <1>1, <1>3, <2>1 DEF CallInv, StartInv
<1>6. ASSUME NEW p \in Op, try[p] <= 1 PROVE Alone(p)'
  <2>1. Alone(p)
    BY <1>6 DEF CallInv, OnceInv
  <2>. QED
    BY <1>3, <2>1 DEF Alone
<1>7. OnceInv'
  BY <1>1, <1>6 DEF OnceInv
<1>8. ReadInv'
  BY <1>2, ReadAnswer
<1>. QED
  BY <1>2, <1>4, <1>5, <1>7, <1>8 DEF CallInv

\* A proposal that is lost is nowhere.
LEMMA LosePropCalls ==
    ASSUME TypeOK, RaftInv, CallInv, NEW m \in msgs, LoseProp(m)
    PROVE  RaftTyped' /\ RaftInv' /\ ClogKept /\ CallInv'
<1>. DEFINE r == [op |-> m.op, res |-> "err", val |-> Nil]
<1>1. m.op \in Op /\ phase[m.op] # "new" /\ r.op = m.op /\ r.res = "err"
  BY AllStarted DEF CallInv
<1>2. /\ UNCHANGED raftVars /\ UNCHANGED callVars /\ msgs' = msgs \ {m} /\ handlers' = handlers
      /\ replies' = replies /\ replies \subseteq Answer
  BY AllStarted DEF LoseProp, CallInv
<1>. HIDE DEF r
<1>. QED
  BY <1>1, <1>2, LessCalls

\* A handler that proposes hands the call to the log or to a message and is gone.
LEMMA ProposeCalls ==
    ASSUME TypeOK, RaftInv, CallInv, NEW h \in handlers, Propose(h)
    PROVE  RaftTyped' /\ RaftInv' /\ ClogKept /\ CallInv'
<1>0. /\ h \in Task /\ h.op \in Op /\ h.node \in Node /\ h.try \in 1..MaxTry
      /\ phase[h.op] # "new" /\ h.st = "propose" /\ kind[h.op] # "get"
      /\ msgs \subseteq Prop
      /\ \A x \in msgs \cup handlers \cup replies : x.op \in Op /\ phase[x.op] # "new"
  <2>1. h \in Task /\ h.op \in Op /\ phase[h.op] # "new"
    BY AllStarted DEF CallInv
  <2>2. h.st = "propose"
    BY DEF Propose
  <2>. QED
    BY <2>1, <2>2, AllStarted DEF Task, CallInv, ReadInv
<1>1. /\ kind' = kind /\ try' = try /\ phase' = phase /\ out' = out /\ val' = val
      /\ need' = need /\ UNCHANGED callVars
  BY DEF Propose, callVars
<1>2. PICK res \in {"ok", "err", "notfound"} : Reply(h, res, Nil)
  BY DEF Propose
<1>. DEFINE r == [op |-> h.op, res |-> res, val |-> Nil]
<1>3. /\ handlers' = handlers \ {h} /\ replies' \subseteq replies \cup {r}
      /\ replies' \subseteq Answer /\ r.op = h.op
  BY <1>2, ReplyFacts
<1>. HIDE DEF r
<1>4. ASSUME ClogKept PROVE ReadInv'
  BY <1>0, <1>1, <1>3, <1>4, ReadAnswer
\* The call was at its handler alone.
<1>5. ASSUME try[h.op] <= 1
      PROVE  /\ \A g \in handlers' : g.op # h.op
             /\ \A x \in msgs : x.op # h.op
             /\ \A b \in Node : Places(h.op, b) = {}
  <2>1. Alone(h.op)
    BY <1>0, <1>5 DEF CallInv, OnceInv
  <2>. QED
    BY <1>0, <1>3, <2>1 DEF Alone
<1>6. CASE Appends(h.node, h.op) /\ msgs' = msgs
  <2>. DEFINE n == h.node
              o == h.op
  <2>1. /\ RaftTyped' /\ RaftInv' /\ ClogKept
        /\ \A p \in Op, b \in Node : p # o \/ b # n => Places(p, b)' = Places(p, b)
        /\ Places(o, n)' = Places(o, n) \cup {Len(log[n]) + 1}
    BY <1>0, <1>6, AppendSteps
  <2>2. CallTyped'
    BY <1>1, <1>3, <1>6 DEF CallInv, CallTyped
  <2>3. StartInv'
    <3>1. \A x \in msgs' \cup handlers' \cup replies' : phase[x.op] # "new"
      BY <1>0, <1>3, <1>6
    <3>2. \A p \in Op, b \in Node : phase[p] = "new" => Places(p, b)' = {}
      BY <1>0, <2>1 DEF CallInv, StartInv
    <3>. QED
      BY <1>1, <3>1, <3>2 DEF CallInv, StartInv
  <2>4. ASSUME NEW p \in Op, try[p] <= 1 PROVE Alone(p)'
    <3>1. Alone(p)
      BY <2>4 DEF CallInv, OnceInv
    <3>2. CASE p # o
      <4>1. \A b \in Node : Places(p, b)' = Places(p, b)
        BY <2>1, <3>2
      <4>. QED
        BY <1>3, <1>6, <3>1, <4>1 DEF Alone
    <3>3. CASE p = o
      <4>1. /\ \A g \in handlers' : g.op # o
            /\ \A x \in msgs' : x.op # o
            /\ \A b \in Node : Places(o, b) = {}
        BY <1>5, <1>6, <2>4, <3>3
      <4>2. /\ \A b \in Node : b # n => Places(o, b)' = {}
            /\ Places(o, n)' = {Len(log[n]) + 1}
        BY <1>0, <2>1, <4>1
      <4>3. \A a, b \in Node : \A i \in Places(o, a)', j \in Places(o, b)' : i = j
        BY <4>2
      <4>. QED
        BY <3>3, <4>1, <4>3 DEF Alone
    <3>. QED
      BY <3>2, <3>3
  <2>5. OnceInv'
    BY <1>1, <2>4 DEF OnceInv
  <2>. QED
    BY <1>4, <2>1, <2>2, <2>3, <2>5 DEF CallInv
<1>7. CASE UNCHANGED raftVars /\ msgs' = msgs
  BY <1>0, <1>1, <1>3, <1>7, LessCalls
<1>8. CASE UNCHANGED raftVars /\ lead[h.node] \notin {Nil, h.node}
           /\ msgs' = msgs \cup {Forward(h.node, h.op, h.try)}
  <2>1. RaftTyped' /\ RaftInv' /\ ClogKept
    BY <1>8, RaftSame
  <2>2. \A p \in Op, b \in Node : Places(p, b)' = Places(p, b)
    BY <1>8 DEF raftVars, Places
  <2>3. Forward(h.node, h.op, h.try).op = h.op
    BY DEF Forward
  <2>4. Forward(h.node, h.op, h.try) \in Prop
    <3>1. lead[h.node] \in Node
      BY <1>0, <1>8 DEF TypeOK
    <3>. QED
      BY <1>0, <3>1 DEF Forward, Prop
  <2>5. CallTyped'
    BY <1>0, <1>1, <1>3, <1>8, <2>4 DEF CallInv, CallTyped
  <2>6. StartInv'
    <3>1. \A x \in msgs' \cup handlers' \cup replies' : phase[x.op] # "new"
      BY <1>0, <1>3, <1>8, <2>3
    <3>. QED
      BY <1>1, <2>2, <3>1 DEF CallInv, StartInv
  <2>7. ASSUME NEW p \in Op, try[p] <= 1 PROVE Alone(p)'
    <3>1. Alone(p)
      BY <2>7 DEF CallInv, OnceInv
    <3>2. CASE p # h.op
      <4>1. \A x \in msgs' : x.op = p => x \in msgs
        BY <1>8, <2>3, <3>2
      <4>. QED
        BY <1>3, <1>8, <2>2, <3>1, <4>1 DEF Alone
    <3>3. CASE p = h.op
      <4>1. /\ \A g \in handlers' : g.op # p
            /\ \A b \in Node : Places(p, b)' = {}
            /\ \A x \in msgs' : x.op = p => x = Forward(h.node, h.op, h.try)
        BY <1>5, <1>8, <2>2, <2>7, <3>3
      <4>. QED
        BY <4>1 DEF Alone
    <3>. QED
      BY <3>2, <3>3
  <2>8. OnceInv'
    BY <1>1, <2>7 DEF OnceInv
  <2>. QED
    BY <1>4, <2>1, <2>5, <2>6, <2>8 DEF CallInv
<1>9. UNCHANGED <<tm, lead, commit, match, term, clog>>
  BY DEF Propose
<1>10. CASE AppendEntry(h.node, h.op) /\ msgs' = msgs
  BY <1>6, <1>9, <1>10 DEF Appends
<1>11. CASE log' = log /\ msgs' = msgs
  BY <1>7, <1>9, <1>11 DEF raftVars
<1>12. CASE /\ lead[h.node] \notin {Nil, h.node} /\ log' = log
            /\ msgs' = msgs \cup {Forward(h.node, h.op, h.try)}
  BY <1>8, <1>9, <1>12 DEF raftVars
<1>. QED
  BY <1>10, <1>11, <1>12 DEF Propose


\* The index that ReadIndex returns covers what was committed when the Get was called.
LEMMA ReadIndexCalls ==
    ASSUME TypeOK, RaftInv, CallInv, NEW h \in handlers, NEW l \in Node, ReadIndex(h, l)
    PROVE  RaftTyped' /\ RaftInv' /\ ClogKept /\ CallInv'
<1>. DEFINE g == [h EXCEPT !.st = "read", !.index = commit[l]]
<1>0. /\ h \in Task /\ h.op \in Op /\ phase[h.op] # "new"
      /\ \A x \in msgs \cup handlers \cup replies : x.op \in Op /\ phase[x.op] # "new"
      /\ handlers \subseteq Task
  BY AllStarted DEF CallInv
<1>1. /\ UNCHANGED raftVars /\ UNCHANGED callVars /\ msgs' = msgs /\ replies' = replies
      /\ h.st = "get" /\ Leads(l) /\ CommittedInTerm(l)
      /\ \E Q \in Quorum : \A m \in Q : tm[m] <= tm[l]
      /\ handlers' = (handlers \ {h}) \cup {g}
  BY DEF ReadIndex, Leads
<1>2. /\ kind' = kind /\ try' = try /\ phase' = phase /\ out' = out /\ val' = val
      /\ need' = need
  BY <1>1 DEF callVars
<1>3. RaftTyped' /\ RaftInv' /\ ClogKept
  BY <1>1, RaftSame
<1>4. commit[l] = Len(clog) /\ commit[l] \in Nat
  BY <1>1, ReadCovers DEF TypeOK
<1>5. g \in Task /\ g.op = h.op /\ g.st = "read" /\ g.index = commit[l]
  BY <1>0, <1>4 DEF Task
<1>. HIDE DEF g
<1>6. \A p \in Op, b \in Node : Places(p, b)' = Places(p, b)
  BY <1>1 DEF raftVars, Places
<1>7. CallTyped'
  BY <1>0, <1>1, <1>2, <1>5 DEF CallInv, CallTyped
<1>8. StartInv'
  <2>1. \A x \in msgs' \cup handlers' \cup replies' : phase[x.op] # "new"
    BY <1>0, <1>1, <1>5
  <2>. QED
    BY <1>2, <1>6, <2>1 DEF CallInv, StartInv
<1>9. ASSUME NEW p \in Op, try[p] <= 1 PROVE Alone(p)'
  <2>1. Alone(p)
    BY <1>9 DEF CallInv, OnceInv
  <2>2. \A x, y \in handlers' : x.op = p /\ y.op = p => x = y
    BY <1>0, <1>1, <1>5, <2>1 DEF Alone
  <2>3. \A x \in handlers' : x.st = "propose" => x \in handlers
    BY <1>1, <1>5
  <2>. QED
    BY <1>1, <1>6, <2>1, <2>2, <2>3 DEF Alone
<1>10. OnceInv'
  BY <1>2, <1>9 DEF OnceInv
<1>11. ReadInv'
  <2>1. kind[h.op] = "get" /\ need[h.op] <= Len(clog)
    BY <1>0, <1>1 DEF CallInv, ReadInv
  <2>2. \A x \in handlers' : /\ x.st = "propose" <=> kind'[x.op] # "get"
                             /\ x.st = "read" => need'[x.op] <= x.index
    <3>1. \A x \in handlers : /\ x.st = "propose" <=> kind[x.op] # "get"
                              /\ x.st = "read" => need[x.op] <= x.index
      BY DEF CallInv, ReadInv
    <3>2. g.st # "propose" /\ kind[g.op] = "get" /\ need[g.op] <= g.index
      BY <1>4, <1>5, <2>1
    <3>. QED
      BY <1>1, <1>2, <3>1, <3>2
  <2>3. \A r \in replies' : kind'[r.op] = "get" /\ r.res # "err" => Seen(r.op, r.val)'
    BY <1>1, <1>2, <1>3, ReadFrame
  <2>. QED
    BY <1>2, <1>3, <2>2, <2>3, ReadFrame DEF ReadInv
<1>. QED
  BY <1>3, <1>7, <1>8, <1>10, <1>11 DEF CallInv

\* What a Get reads is the value at a moment since it was called.
LEMMA GetReadCalls ==
    ASSUME TypeOK, RaftInv, CallInv, NEW h \in handlers, NEW i \in 0..commit[h.node],
           GetRead(h, i)
    PROVE  RaftTyped' /\ RaftInv' /\ ClogKept /\ CallInv'
<1>0. h \in Task /\ h.op \in Op /\ phase[h.op] # "new" /\ h.node \in Node /\ h.index \in Nat
  <2>1. h \in Task /\ phase[h.op] # "new"
    BY AllStarted DEF CallInv
  <2>. QED
    BY <2>1 DEF Task
<1>. DEFINE v == ValueAt(log[h.node], i)
            res == IF v = Nil THEN "notfound" ELSE "ok"
            r == [op |-> h.op, res |-> res, val |-> v]
<1>1. /\ UNCHANGED raftVars /\ UNCHANGED callVars /\ msgs' = msgs
      /\ h.st = "read" /\ i \in h.index..commit[h.node] /\ Reply(h, res, v)
  BY DEF GetRead, AppliedFrom
<1>2. /\ i \in Nat /\ commit[h.node] \in Nat /\ i <= commit[h.node] /\ h.index <= i
      /\ log[h.node] \in Seq(Entry) /\ clog \in Seq(Entry) /\ Len(clog) \in Nat
  BY <1>0, <1>1, RaftTypes DEF RaftInv
<1>3. Agree(clog, log[h.node], commit[h.node])
  BY <1>0 DEF RaftInv, KnownInv
<1>4. Agree(clog, log[h.node], i) /\ i <= Len(clog) /\ i <= Len(log[h.node])
  <2>1. Agree(clog, log[h.node], i)
    BY <1>2, <1>3, AgreeLess
  <2>. QED
    BY <2>1 DEF Agree
<1>5. v = Val(kind, log[h.node], i) /\ ValueAt(clog, i) = Val(kind, clog, i)
  BY ValIs
<1>6. Val(kind, log[h.node], i) = Val(kind, clog, i)
  BY <1>2, <1>4, ValSame
<1>7. v \in Op \cup {Nil}
  BY <1>2, <1>4, <1>5, ValType
<1>8. need[h.op] <= h.index /\ need[h.op] \in Nat
  BY <1>0, <1>1 DEF CallInv, ReadInv, CallTyped
<1>9. Seen(h.op, v)
  <2>1. i \in need[h.op]..Len(clog)
    BY <1>0, <1>2, <1>4, <1>8
  <2>. QED
    BY <1>5, <1>6, <2>1 DEF Seen
<1>. HIDE DEF v
<1>10. res \in {"ok", "err", "notfound"}
  OBVIOUS
<1>. HIDE DEF res
<1>11. /\ handlers' = handlers \ {h} /\ replies' \subseteq replies \cup {r}
       /\ replies' \subseteq Answer /\ r.op = h.op /\ r.val = v
  BY <1>1, <1>7, <1>10, ReplyFacts
<1>. HIDE DEF r
<1>. QED
  BY <1>0, <1>1, <1>9, <1>11, LessCalls

\* A Get that is given up answers with an error.
LEMMA GetLostCalls ==
    ASSUME TypeOK, RaftInv, CallInv, NEW h \in handlers, GetLost(h)
    PROVE  RaftTyped' /\ RaftInv' /\ ClogKept /\ CallInv'
<1>0. h.op \in Op /\ phase[h.op] # "new"
  BY AllStarted DEF CallInv
<1>. DEFINE r == [op |-> h.op, res |-> "err", val |-> Nil]
<1>1. UNCHANGED raftVars /\ UNCHANGED callVars /\ msgs' = msgs /\ Reply(h, "err", Nil)
  BY DEF GetLost
<1>2. /\ handlers' = handlers \ {h} /\ replies' \subseteq replies \cup {r}
      /\ replies' \subseteq Answer /\ r.op = h.op /\ r.res = "err"
  BY <1>1, ReplyFacts
<1>. HIDE DEF r
<1>. QED
  BY <1>0, <1>1, <1>2, LessCalls

-----------------------------------------------------------------------------
(* The client *)

\* A handler for a call has the type and the state of its kind.
LEMMA HandlerFacts ==
    ASSUME NEW o \in Op, NEW n \in Node, NEW k, NEW t \in 1..MaxTry
    PROVE  /\ Handler(o, n, k, t) \in Task
           /\ Handler(o, n, k, t).op = o
           /\ Handler(o, n, k, t).st = IF k = "get" THEN "get" ELSE "propose"
BY DEF Handler, Task

\* A call begins with one handler.
LEMMA CallCalls ==
    ASSUME TypeOK, RaftInv, CallInv, NEW o \in Op, NEW n \in Node, NEW k \in Kinds[o],
           Call(o, n, k)
    PROVE  RaftTyped' /\ RaftInv' /\ ClogKept /\ CallInv'
<1>. DEFINE g == Handler(o, n, k, 1)
<1>1. /\ phase[o] = "new"
      /\ phase' = [phase EXCEPT ![o] = "wait"]
      /\ kind' = [kind EXCEPT ![o] = k]
      /\ try' = [try EXCEPT ![o] = 1]
      /\ need' = [need EXCEPT ![o] = Len(clog)]
      /\ handlers' = handlers \cup {g}
      /\ UNCHANGED raftVars /\ msgs' = msgs /\ replies' = replies /\ out' = out /\ val' = val
  BY DEF Call
<1>2. 1 \in 1..MaxTry /\ 1 \in 0..MaxTry
  BY OpsAssumption
<1>3. g \in Task /\ g.op = o /\ g.st = IF k = "get" THEN "get" ELSE "propose"
  BY <1>2, HandlerFacts
<1>. HIDE DEF g
<1>4. RaftTyped' /\ RaftInv' /\ ClogKept /\ clog' = clog
  BY <1>1, RaftSame DEF raftVars
<1>5. \A p \in Op, b \in Node : Places(p, b)' = Places(p, b)
  BY <1>1 DEF raftVars, Places
<1>6. /\ kind \in [Op -> {"set", "del", "get", Nil}] /\ try \in [Op -> 0..MaxTry]
      /\ phase \in [Op -> {"new", "wait", "done"}] /\ need \in [Op -> Nat]
      /\ handlers \subseteq Task /\ Len(clog) \in Nat
      /\ \A p \in Op : kind[p] \in Kinds[p] \cup {Nil}
  BY DEF CallInv, CallTyped, TypeOK
<1>7. /\ \A p \in Op : p # o => /\ phase'[p] = phase[p] /\ kind'[p] = kind[p]
                                /\ try'[p] = try[p] /\ need'[p] = need[p]
      /\ phase'[o] = "wait" /\ kind'[o] = k /\ try'[o] = 1 /\ need'[o] = Len(clog)
  BY <1>1, <1>6
<1>8. CallTyped'
  <2>1. k \in {"set", "del", "get", Nil}
    BY OpsAssumption
  <2>2. kind' \in [Op -> {"set", "del", "get", Nil}]
    BY <1>1, <1>6, <2>1
  <2>3. \A p \in Op : kind'[p] \in Kinds[p] \cup {Nil}
    BY <1>6, <1>7
  <2>4. try' \in [Op -> 0..MaxTry]
    BY <1>1, <1>2, <1>6
  <2>5. phase' \in [Op -> {"new", "wait", "done"}]
    BY <1>1, <1>6
  <2>6. need' \in [Op -> Nat]
    BY <1>1, <1>6
  <2>7. handlers' \subseteq Task
    BY <1>1, <1>3, <1>6
  <2>. QED
    BY <1>1, <2>2, <2>3, <2>4, <2>5, <2>6, <2>7 DEF CallInv, CallTyped
\* Nobody knew of the call.
<1>9. /\ \A b \in Node : Places(o, b) = {}
      /\ \A x \in msgs \cup handlers \cup replies : x.op # o
      /\ out[o] = Nil
  BY <1>1 DEF CallInv, StartInv
<1>10. StartInv'
  <2>. SUFFICES ASSUME NEW p \in Op
                PROVE  /\ phase'[p] # "new" => try'[p] > 0
                       /\ phase'[p] = "new" =>
                            /\ out'[p] = Nil
                            /\ \A b \in Node : Places(p, b)' = {}
                            /\ \A x \in msgs' \cup handlers' \cup replies' : x.op # p
    BY DEF StartInv
  <2>1. CASE p = o
    BY <1>7, <2>1
  <2>2. CASE p # o
    <3>1. /\ phase[p] # "new" => try[p] > 0
          /\ phase[p] = "new" =>
               /\ out[p] = Nil
               /\ \A b \in Node : Places(p, b) = {}
               /\ \A x \in msgs \cup handlers \cup replies : x.op # p
      BY DEF CallInv, StartInv
    <3>. QED
      BY <1>1, <1>3, <1>5, <1>7, <2>2, <3>1
  <2>. QED
    BY <2>1, <2>2
<1>11. ASSUME NEW p \in Op, try'[p] <= 1 PROVE Alone(p)'
  <2>1. CASE p = o
    BY <1>1, <1>3, <1>5, <1>9, <2>1 DEF Alone
  <2>2. CASE p # o
    <3>1. Alone(p)
      BY <1>7, <1>11, <2>2 DEF CallInv, OnceInv
    <3>2. \A x \in handlers' : x.op = p => x \in handlers
      BY <1>1, <1>3, <2>2
    <3>. QED
      BY <1>1, <1>5, <3>1, <3>2 DEF Alone
  <2>. QED
    BY <2>1, <2>2
<1>12. OnceInv'
  BY <1>11 DEF OnceInv
<1>13. ReadInv'
  <2>0. \A p \in Op : phase[p] # "new" => kind'[p] = kind[p]
    BY <1>1, <1>7
  <2>1. \A p \in Op : need'[p] <= Len(clog')
    <3>1. \A p \in Op : need[p] <= Len(clog)
      BY DEF CallInv, ReadInv
    <3>2. \A p \in Op : need'[p] = need[p] \/ need'[p] = Len(clog)
      BY <1>7
    <3>3. \A p \in Op : need'[p] <= Len(clog)
      BY <1>6, <3>1, <3>2
    <3>. QED
      BY <1>4, <3>3
  <2>2. \A x \in handlers' : /\ x.st = "propose" <=> kind'[x.op] # "get"
                             /\ x.st = "read" => need'[x.op] <= x.index
    <3>. SUFFICES ASSUME NEW x \in handlers'
                  PROVE  /\ x.st = "propose" <=> kind'[x.op] # "get"
                         /\ x.st = "read" => need'[x.op] <= x.index
      OBVIOUS
    <3>1. CASE x = g
      BY <1>3, <1>7, <3>1
    <3>2. CASE x \in handlers
      <4>1. /\ x.st = "propose" <=> kind[x.op] # "get"
            /\ x.st = "read" => need[x.op] <= x.index
            /\ x.op \in Op /\ x.op # o
        BY <1>9, <3>2, AllStarted DEF CallInv, ReadInv
      <4>. QED
        BY <1>7, <4>1
    <3>. QED
      BY <1>1, <3>1, <3>2
  <2>3. \A r \in replies' : kind'[r.op] = "get" /\ r.res # "err" => Seen(r.op, r.val)'
    <3>. SUFFICES ASSUME NEW r \in replies, kind'[r.op] = "get", r.res # "err"
                  PROVE  Seen(r.op, r.val)'
      BY <1>1
    <3>1. r.op \in Op /\ r.op # o
      BY <1>9, AllStarted DEF CallInv
    <3>2. kind[r.op] = "get" /\ need'[r.op] = need[r.op] /\ need[r.op] \in Nat
      BY <1>6, <1>7, <3>1
    <3>3. Seen(r.op, r.val)
      BY <3>2 DEF CallInv, ReadInv
    <3>. QED
      BY <1>4, <2>0, <3>1, <3>2, <3>3, SeenKept DEF CallInv
  <2>4. \A p \in Op : kind'[p] = "get" /\ out'[p] \in {"ok", "notfound"} => Seen(p, val[p])'
    <3>. SUFFICES ASSUME NEW p \in Op, kind'[p] = "get", out[p] \in {"ok", "notfound"}
                  PROVE  Seen(p, val[p])'
      BY <1>1
    <3>1. p # o
      BY <1>9, OpsAssumption
    <3>2. kind[p] = "get" /\ need'[p] = need[p] /\ need[p] \in Nat
      BY <1>6, <1>7, <3>1
    <3>3. PICK v : v = val[p]
      OBVIOUS
    <3>4. Seen(p, v)
      BY <3>2, <3>3 DEF CallInv, ReadInv
    <3>5. Seen(p, v)'
      BY <1>4, <2>0, <3>2, <3>4, SeenKept DEF CallInv
    <3>6. v = val'[p]
      BY <1>1, <3>3
    <3>. QED
      BY <3>5, <3>6 DEF Seen
  <2>. QED
    BY <2>1, <2>2, <2>3, <2>4 DEF ReadInv
<1>. QED
  BY <1>4, <1>8, <1>10, <1>12, <1>13 DEF CallInv


\* The client takes a reply.
LEMMA ReceiveCalls ==
    ASSUME TypeOK, RaftInv, CallInv, NEW r \in replies, Receive(r)
    PROVE  RaftTyped' /\ RaftInv' /\ ClogKept /\ CallInv'
<1>1. /\ phase' = [phase EXCEPT ![r.op] = "done"]
      /\ out' = [out EXCEPT ![r.op] = Outcome(kind[r.op], r.res)]
      /\ val' = [val EXCEPT ![r.op] = r.val]
      /\ replies' = replies \ {r}
      /\ UNCHANGED raftVars /\ msgs' = msgs /\ handlers' = handlers /\ kind' = kind
      /\ try' = try /\ need' = need
  BY DEF Receive
<1>2. /\ r \in Answer /\ r.op \in Op /\ phase[r.op] # "new"
      /\ r.res \in {"ok", "err", "notfound"} /\ r.val \in Op \cup {Nil}
  <2>1. r \in Answer /\ r.op \in Op /\ phase[r.op] # "new"
    BY AllStarted DEF CallInv
  <2>. QED
    BY <2>1 DEF Answer
<1>3. RaftTyped' /\ RaftInv' /\ ClogKept /\ clog' = clog
  BY <1>1, RaftSame DEF raftVars
<1>4. \A p \in Op, b \in Node : Places(p, b)' = Places(p, b)
  BY <1>1 DEF raftVars, Places
<1>5. /\ phase \in [Op -> {"new", "wait", "done"}] /\ need \in [Op -> Nat]
      /\ out \in [Op -> {"ok", "err", "notfound", Nil}] /\ val \in [Op -> Op \cup {Nil}]
      /\ replies \subseteq Answer
  BY DEF CallInv, CallTyped
<1>6. /\ \A p \in Op : p # r.op => phase'[p] = phase[p] /\ out'[p] = out[p] /\ val'[p] = val[p]
      /\ phase'[r.op] = "done" /\ out'[r.op] = Outcome(kind[r.op], r.res) /\ val'[r.op] = r.val
  BY <1>1, <1>2, <1>5
<1>7. CallTyped'
  <2>1. Outcome(kind[r.op], r.res) \in {"ok", "err", "notfound", Nil}
    BY <1>2 DEF Outcome
  <2>2. out' \in [Op -> {"ok", "err", "notfound", Nil}]
    BY <1>1, <1>5, <2>1
  <2>3. phase' \in [Op -> {"new", "wait", "done"}]
    BY <1>1, <1>5
  <2>4. val' \in [Op -> Op \cup {Nil}]
    BY <1>1, <1>2, <1>5
  <2>. QED
    BY <1>1, <1>5, <2>2, <2>3, <2>4 DEF CallInv, CallTyped
<1>8. StartInv'
  <2>. SUFFICES ASSUME NEW p \in Op
                PROVE  /\ phase'[p] # "new" => try'[p] > 0
                       /\ phase'[p] = "new" =>
                            /\ out'[p] = Nil
                            /\ \A b \in Node : Places(p, b)' = {}
                            /\ \A x \in msgs' \cup handlers' \cup replies' : x.op # p
    BY DEF StartInv
  <2>1. /\ phase[p] # "new" => try[p] > 0
        /\ phase[p] = "new" =>
             /\ out[p] = Nil
             /\ \A b \in Node : Places(p, b) = {}
             /\ \A x \in msgs \cup handlers \cup replies : x.op # p
    BY DEF CallInv, StartInv
  <2>. QED
    BY <1>1, <1>2, <1>4, <1>6, <2>1
<1>9. OnceInv'
  BY <1>1, <1>4 DEF CallInv, OnceInv, Alone
<1>10. ReadInv'
  <2>1. \A p \in Op : need'[p] <= Len(clog')
    BY <1>1, <1>3 DEF CallInv, ReadInv
  <2>2. \A x \in handlers' : /\ x.st = "propose" <=> kind'[x.op] # "get"
                             /\ x.st = "read" => need'[x.op] <= x.index
    BY <1>1 DEF CallInv, ReadInv
  <2>3. \A x \in replies : kind[x.op] = "get" /\ x.res # "err" => Seen(x.op, x.val)'
    <3>. SUFFICES ASSUME NEW x \in replies, kind[x.op] = "get", x.res # "err"
                  PROVE  Seen(x.op, x.val)'
      OBVIOUS
    <3>1. x.op \in Op /\ Seen(x.op, x.val)
      BY AllStarted DEF CallInv, ReadInv
    <3>. QED
      BY <1>1, <1>3, <1>5, <3>1, SeenKept DEF CallInv
  <2>4. ASSUME NEW p \in Op, kind[p] = "get", out'[p] \in {"ok", "notfound"}
        PROVE  Seen(p, val[p])'
    <3>1. PICK v : v = val'[p]
      OBVIOUS
    <3>2. CASE p = r.op
      <4>1. r.res # "err" /\ v = r.val
        BY <1>6, <2>4, <3>1, <3>2 DEF Outcome
      <4>2. Seen(p, v)'
        BY <2>3, <2>4, <3>2, <4>1
      <4>. QED
        BY <3>1, <4>2 DEF Seen
    <3>3. CASE p # r.op
      <4>1. v = val[p] /\ out[p] \in {"ok", "notfound"}
        BY <1>6, <2>4, <3>1, <3>3
      <4>2. Seen(p, v)
        BY <2>4, <4>1 DEF CallInv, ReadInv
      <4>3. Seen(p, v)'
        BY <1>1, <1>3, <1>5, <4>2, SeenKept DEF CallInv
      <4>. QED
        BY <3>1, <4>3 DEF Seen
    <3>. QED
      BY <3>2, <3>3
  <2>. QED
    BY <1>1, <2>1, <2>2, <2>3, <2>4 DEF ReadInv
<1>. QED
  BY <1>3, <1>7, <1>8, <1>9, <1>10 DEF CallInv

\* A call that is tried again need not be at one place any more.
LEMMA RetryCalls ==
    ASSUME TypeOK, RaftInv, CallInv, NEW o \in Op, NEW n \in Node, Retry(o, n)
    PROVE  RaftTyped' /\ RaftInv' /\ ClogKept /\ CallInv'
<1>. DEFINE g == Handler(o, n, kind[o], try[o] + 1)
<1>1. /\ phase[o] = "wait" /\ try[o] < MaxTry
      /\ try' = [try EXCEPT ![o] = try[o] + 1]
      /\ replies' \subseteq replies
      /\ handlers' \subseteq handlers \cup {g}
      /\ UNCHANGED raftVars /\ msgs' = msgs /\ kind' = kind /\ phase' = phase /\ out' = out
      /\ val' = val /\ need' = need
  BY DEF Retry, MayRetry, LiveReplies, LiveHandlers, CallInv, CallTyped
<1>2. /\ try \in [Op -> 0..MaxTry] /\ handlers \subseteq Task /\ replies \subseteq Answer
      /\ MaxTry \in Nat
  BY OpsAssumption DEF CallInv, CallTyped
<1>3. try[o] > 0
  BY <1>1 DEF CallInv, StartInv
<1>4. try[o] + 1 \in 1..MaxTry /\ try[o] + 1 \in 0..MaxTry /\ ~(try[o] + 1 <= 1)
  BY <1>1, <1>2, <1>3
<1>5. g \in Task /\ g.op = o /\ g.st = IF kind[o] = "get" THEN "get" ELSE "propose"
  BY <1>4, HandlerFacts
<1>. HIDE DEF g
<1>6. RaftTyped' /\ RaftInv' /\ ClogKept
  BY <1>1, RaftSame
<1>7. \A p \in Op, b \in Node : Places(p, b)' = Places(p, b)
  BY <1>1 DEF raftVars, Places
<1>8. try' \in [Op -> 0..MaxTry] /\ try'[o] = try[o] + 1 /\ \A p \in Op : p # o => try'[p] = try[p]
  BY <1>1, <1>2, <1>4
<1>9. CallTyped'
  BY <1>1, <1>2, <1>5, <1>8 DEF CallInv, CallTyped
<1>10. StartInv'
  <2>1. \A x \in msgs' \cup handlers' \cup replies' : phase[x.op] # "new"
    BY <1>1, <1>5, AllStarted DEF CallInv
  <2>2. \A p \in Op : phase'[p] # "new" => try'[p] > 0
    <3>1. \A p \in Op : phase[p] # "new" => try[p] > 0
      BY DEF CallInv, StartInv
    <3>2. try'[o] > 0
      BY <1>4, <1>8
    <3>. QED
      BY <1>1, <1>8, <3>1, <3>2
  <2>. QED
    BY <1>1, <1>7, <2>1, <2>2 DEF CallInv, StartInv
<1>11. ASSUME NEW p \in Op, try'[p] <= 1 PROVE Alone(p)'
  <2>1. p # o
    BY <1>4, <1>8, <1>11
  <2>2. Alone(p)
    BY <1>8, <1>11, <2>1 DEF CallInv, OnceInv
  <2>3. \A x \in handlers' : x.op = p => x \in handlers
    BY <1>1, <1>5, <2>1
  <2>. QED
    BY <1>1, <1>7, <2>2, <2>3 DEF Alone
<1>12. OnceInv'
  BY <1>11 DEF OnceInv
<1>13. ReadInv'
  <2>1. \A x \in handlers' : /\ x.st = "propose" <=> kind'[x.op] # "get"
                             /\ x.st = "read" => need'[x.op] <= x.index
    <3>1. g.st = "propose" <=> kind[g.op] # "get"
      BY <1>5
    <3>2. g.st # "read"
      BY <1>5
    <3>3. \A x \in handlers : /\ x.st = "propose" <=> kind[x.op] # "get"
                              /\ x.st = "read" => need[x.op] <= x.index
      BY DEF CallInv, ReadInv
    <3>. QED
      BY <1>1, <3>1, <3>2, <3>3
  <2>2. \A r \in replies' : kind'[r.op] = "get" /\ r.res # "err" => Seen(r.op, r.val)'
    BY <1>1, <1>6, ReadFrame
  <2>. QED
    BY <1>1, <1>6, <2>1, <2>2, ReadFrame DEF ReadInv
<1>. QED
  BY <1>6, <1>9, <1>10, <1>12, <1>13 DEF CallInv

\* A call that fails leaves the handlers of writes behind.
LEMMA FailCalls ==
    ASSUME TypeOK, RaftInv, CallInv, NEW o \in Op, Fail(o)
    PROVE  RaftTyped' /\ RaftInv' /\ ClogKept /\ CallInv'
<1>1. /\ phase[o] = "wait"
      /\ phase' = [phase EXCEPT ![o] = "done"]
      /\ out' = [out EXCEPT ![o] = Outcome(kind[o], "err")]
      /\ replies' \subseteq replies /\ handlers' \subseteq handlers
      /\ UNCHANGED raftVars /\ msgs' = msgs /\ kind' = kind
      /\ try' = try /\ need' = need /\ val' = val
  BY DEF Fail, LiveReplies, LiveHandlers
<1>2. RaftTyped' /\ RaftInv' /\ ClogKept /\ clog' = clog
  BY <1>1, RaftSame DEF raftVars
<1>3. \A p \in Op, b \in Node : Places(p, b)' = Places(p, b)
  BY <1>1 DEF raftVars, Places
<1>4. /\ phase \in [Op -> {"new", "wait", "done"}] /\ need \in [Op -> Nat]
      /\ out \in [Op -> {"ok", "err", "notfound", Nil}]
      /\ replies \subseteq Answer /\ handlers \subseteq Task
  BY DEF CallInv, CallTyped
<1>5. /\ \A p \in Op : p # o => phase'[p] = phase[p] /\ out'[p] = out[p]
      /\ phase'[o] = "done" /\ out'[o] = Outcome(kind[o], "err")
  BY <1>1, <1>4
<1>6. CallTyped'
  <2>1. Outcome(kind[o], "err") \in {"ok", "err", "notfound", Nil}
    BY DEF Outcome
  <2>2. out' \in [Op -> {"ok", "err", "notfound", Nil}]
    BY <1>1, <1>4, <2>1
  <2>3. phase' \in [Op -> {"new", "wait", "done"}]
    BY <1>1, <1>4
  <2>. QED
    BY <1>1, <1>4, <2>2, <2>3 DEF CallInv, CallTyped
<1>7. StartInv'
  <2>. SUFFICES ASSUME NEW p \in Op
                PROVE  /\ phase'[p] # "new" => try'[p] > 0
                       /\ phase'[p] = "new" =>
                            /\ out'[p] = Nil
                            /\ \A b \in Node : Places(p, b)' = {}
                            /\ \A x \in msgs' \cup handlers' \cup replies' : x.op # p
    BY DEF StartInv
  <2>1. /\ phase[p] # "new" => try[p] > 0
        /\ phase[p] = "new" =>
             /\ out[p] = Nil
             /\ \A b \in Node : Places(p, b) = {}
             /\ \A x \in msgs \cup handlers \cup replies : x.op # p
    BY DEF CallInv, StartInv
  <2>. QED
    BY <1>1, <1>3, <1>5, <2>1
<1>8. OnceInv'
  BY <1>1, <1>3 DEF CallInv, OnceInv, Alone
<1>9. ReadInv'
  <2>1. \A p \in Op : need'[p] <= Len(clog')
    BY <1>1, <1>2 DEF CallInv, ReadInv
  <2>2. \A x \in handlers' : /\ x.st = "propose" <=> kind'[x.op] # "get"
                             /\ x.st = "read" => need'[x.op] <= x.index
    BY <1>1 DEF CallInv, ReadInv
  <2>3. \A x \in replies' : kind'[x.op] = "get" /\ x.res # "err" => Seen(x.op, x.val)'
    <3>. SUFFICES ASSUME NEW x \in replies, kind[x.op] = "get", x.res # "err"
                  PROVE  Seen(x.op, x.val)'
      BY <1>1
    <3>1. x.op \in Op /\ Seen(x.op, x.val)
      BY AllStarted DEF CallInv, ReadInv
    <3>. QED
      BY <1>1, <1>2, <1>4, <3>1, SeenKept DEF CallInv
  <2>4. ASSUME NEW p \in Op, kind[p] = "get", out'[p] \in {"ok", "notfound"}
        PROVE  Seen(p, val[p])'
    <3>1. PICK v : v = val[p]
      OBVIOUS
    <3>2. p # o
      BY <1>5, <2>4 DEF Outcome
    <3>3. out[p] \in {"ok", "notfound"}
      BY <1>5, <2>4, <3>2
    <3>4. Seen(p, v)
      BY <2>4, <3>1, <3>3 DEF CallInv, ReadInv
    <3>5. Seen(p, v)'
      BY <1>1, <1>2, <1>4, <3>4, SeenKept DEF CallInv
    <3>6. v = val'[p]
      BY <1>1, <3>1
    <3>. QED
      BY <3>5, <3>6 DEF Seen
  <2>. QED
    BY <1>1, <2>1, <2>2, <2>3, <2>4 DEF ReadInv
<1>. QED
  BY <1>2, <1>6, <1>7, <1>8, <1>9 DEF CallInv


-----------------------------------------------------------------------------
(* Every step *)

\* The invariant is that of raft and that of the calls.
LEMMA OpsSplit == OpsInv <=> TypeOK /\ RaftInv /\ CallInv
BY TypeSplit, Zenon DEF OpsInv, CallInv

\* The same in the next state.
LEMMA OpsSplitNext == OpsInv' <=> RaftTyped' /\ RaftInv' /\ CallInv'
<1>1. OpsInv' <=> TypeOK' /\ RaftInv' /\ CallInv'
  BY OpsSplit, PTL
<1>2. CallInv' => CallTyped'
  BY DEF CallInv
<1>. QED
  BY <1>1, <1>2, TypeSplitNext, Zenon

\* Every step keeps the invariant, and what was committed.
LEMMA OpsStep ==
    ASSUME OpsInv, [Next]_vars
    PROVE  OpsInv' /\ ClogKept
<1>0. TypeOK /\ RaftInv /\ CallInv
  BY OpsSplit
<1>. SUFFICES RaftTyped' /\ RaftInv' /\ ClogKept /\ CallInv'
  BY OpsSplitNext
<1>1. CASE RaftNext
  BY <1>0, <1>1, RaftSteps, RaftCalls
<1>2. CASE \E m \in msgs : RecvProp(m) \/ LoseProp(m)
  BY <1>0, <1>2, RecvPropCalls, LosePropCalls
<1>3. CASE HandlerNext
  <2>1. PICK h \in handlers : \/ Propose(h)
                              \/ \E l \in Node : ReadIndex(h, l)
                              \/ \E i \in 0..commit[h.node] : GetRead(h, i)
                              \/ GetLost(h)
    BY <1>3 DEF HandlerNext
  <2>2. CASE Propose(h)
    BY <1>0, <2>2, ProposeCalls
  <2>3. CASE \E l \in Node : ReadIndex(h, l)
    BY <1>0, <2>3, ReadIndexCalls
  <2>4. CASE \E i \in 0..commit[h.node] : GetRead(h, i)
    BY <1>0, <2>4, GetReadCalls
  <2>5. CASE GetLost(h)
    BY <1>0, <2>5, GetLostCalls
  <2>. QED
    BY <2>1, <2>2, <2>3, <2>4, <2>5
<1>4. CASE ClientNext
  <2>1. CASE \E o \in Op : Fail(o)
    BY <1>0, <2>1, FailCalls
  <2>2. ASSUME NEW o \in Op, NEW n \in Node, Retry(o, n)
        PROVE  RaftTyped' /\ RaftInv' /\ ClogKept /\ CallInv'
    BY <1>0, <2>2, RetryCalls
  <2>3. ASSUME NEW o \in Op, NEW n \in Node, NEW k \in Kinds[o], Call(o, n, k)
        PROVE  RaftTyped' /\ RaftInv' /\ ClogKept /\ CallInv'
    BY <1>0, <2>3, CallCalls
  <2>4. CASE \E r \in replies : Receive(r)
    BY <1>0, <2>4, ReceiveCalls
  <2>. QED
    BY <1>4, <2>1, <2>2, <2>3, <2>4 DEF ClientNext
<1>5. CASE UNCHANGED vars
  <2>1. UNCHANGED raftVars /\ RaftStep
    BY <1>5 DEF vars, RaftStep
  <2>. QED
    BY <1>0, <2>1, RaftSame, RaftCalls
<1>. QED
  BY <1>1, <1>2, <1>3, <1>4, <1>5 DEF Next

-----------------------------------------------------------------------------
(* The first state *)

\* All replicas together are a majority when there is one.
LEMMA AllQuorum ==
    ASSUME NEW l \in Node
    PROVE  Node \in Quorum
<1>1. IsFiniteSet(Node) /\ Node # {}
  BY OpsAssumption
<1>2. Cardinality(Node) \in Nat /\ Cardinality(Node) # 0
  BY <1>1, FS_CardinalityType, FS_EmptySet
<1>3. 2 * Cardinality(Node) > Cardinality(Node)
  BY <1>2
<1>. QED
  BY <1>3 DEF Quorum

\* The invariant holds when the first election is over.
LEMMA OpsInit == Init => OpsInv
<1>. SUFFICES ASSUME Init PROVE OpsInv
  OBVIOUS
<1>. DEFINE e == [term |-> 1, op |-> Nil]
<1>1. PICK l \in Node :
         /\ lead = [n \in Node |-> l]
         /\ commit = [n \in Node |-> IF n = l THEN 1 ELSE 0]
         /\ match = [n \in Node |-> IF n = l THEN [m \in Node |-> 1] ELSE NoMatch]
  BY DEF Init
<1>2. /\ term = 1 /\ tm = [n \in Node |-> 1]
      /\ log = [n \in Node |-> <<e>>] /\ clog = <<e>>
      /\ msgs = {} /\ handlers = {} /\ replies = {}
      /\ kind = [o \in Op |-> Nil] /\ try = [o \in Op |-> 0] /\ phase = [o \in Op |-> "new"]
      /\ out = [o \in Op |-> Nil] /\ val = [o \in Op |-> Nil] /\ need = [o \in Op |-> 0]
  BY DEF Init
<1>3. MaxTerm \in Nat /\ 1 \in 1..MaxTerm /\ MaxTry \in Nat
  BY OpsAssumption
<1>4. e \in Entry /\ e.term = 1 /\ e.op = Nil
  BY <1>3 DEF Entry
<1>. HIDE DEF e
<1>5. /\ clog \in Seq(Entry) /\ Len(clog) = 1 /\ clog[1] = e /\ LastTerm(clog) = 1
      /\ \A n \in Node : log[n] = clog
  <2>1. <<e>> \in Seq(Entry) /\ Len(<<e>>) = 1 /\ <<e>>[1] = e /\ <<e>> # <<>>
    BY <1>4
  <2>. QED
    BY <1>2, <1>4, <2>1 DEF LastTerm
<1>6. \A n, m \in Node : commit[n] \in 0..1 /\ match[n][m] \in 0..1
  BY <1>1 DEF NoMatch
<1>7. RaftTyped
  <2>1. log \in [Node -> Seq(Entry)]
    BY <1>2, <1>4
  <2>2. match \in [Node -> [Node -> Nat]]
    BY <1>1 DEF NoMatch
  <2>3. lead \in [Node -> Node \cup {Nil}] /\ commit \in [Node -> Nat]
    BY <1>1
  <2>4. \A n \in Node : commit[n] <= Len(log[n])
    BY <1>5, <1>6
  <2>. QED
    BY <1>2, <1>3, <1>5, <2>1, <2>2, <2>3, <2>4 DEF RaftTyped
<1>8. CallTyped
  <2>1. msgs \subseteq Prop /\ handlers \subseteq Task /\ replies \subseteq Answer
    BY <1>2
  <2>. QED
    BY <1>2, <1>3, <2>1 DEF CallTyped
<1>9. Agree(clog, clog, 1) /\ Agree(clog, clog, 0)
  BY <1>5, AgreeSelf
<1>10. TermInv
  BY <1>2, <1>3, <1>4, <1>5 DEF TermInv, Ordered
<1>11. LeadInv
  BY <1>1, <1>2, <1>5 DEF LeadInv, Leads
<1>12. ChainInv
  BY <1>5, <1>9 DEF ChainInv
<1>13. AckInv
  <2>. SUFFICES ASSUME NEW n \in Node, NEW m \in Node, match[n][m] > 0
                PROVE  /\ match[n][m] <= Len(log[n])
                       /\ log[n][match[n][m]].term = tm[n]
                       /\ tm[m] >= tm[n]
                       /\ Agree(log[n], log[m], match[n][m])
    BY DEF AckInv
  <2>1. match[n][m] = 1
    BY <1>6
  <2>. QED
    BY <1>2, <1>4, <1>5, <1>9, <2>1
<1>14. VoteInv
  BY <1>2, <1>5 DEF VoteInv
<1>15. CommitInv
  <2>1. Node \in Quorum /\ \A m \in Node : Agree(clog, log[m], Len(clog))
    BY <1>1, <1>5, <1>9, AllQuorum
  <2>. QED
    BY <1>5, <2>1 DEF CommitInv
<1>16. KnownInv
  <2>1. \A n \in Node : Agree(clog, log[n], commit[n])
    BY <1>5, <1>6, <1>9
  <2>2. \A n, m \in Node : Agree(log[n], log[m], commit[m])
    BY <1>5, <1>6, <1>9
  <2>3. \A n \in Node : Leads(n) => commit[n] = Len(clog)
    BY <1>1, <1>5 DEF Leads
  <2>. QED
    BY <2>1, <2>2, <2>3 DEF KnownInv
<1>17. \A o \in Op, n \in Node : Places(o, n) = {}
  BY <1>4, <1>5, OpsAssumption DEF Places
<1>18. StartInv
  BY <1>2, <1>17 DEF StartInv
<1>19. OnceInv
  BY <1>2, <1>17 DEF OnceInv, Alone
<1>20. ReadInv
  <2>1. \A o \in Op : need[o] <= Len(clog)
    BY <1>2, <1>5
  <2>2. \A o \in Op : kind[o] # "get"
    BY <1>2, OpsAssumption
  <2>. QED
    BY <1>2, <2>1, <2>2 DEF ReadInv
<1>. QED
  BY <1>7, <1>8, <1>10, <1>11, <1>12, <1>13, <1>14, <1>15, <1>16, <1>18, <1>19, <1>20,
     TypeSplit DEF OpsInv, RaftInv

-----------------------------------------------------------------------------
(* The theorems *)

\* What was committed is a prefix of what is committed later.
LEMMA PrefixKept ==
    ASSUME TypeOK, TypeOK', ClogKept
    PROVE  SubSeq(clog', 1, Len(clog)) = clog
<1>1. clog \in Seq(Entry) /\ clog' \in Seq(Entry) /\ Len(clog) \in Nat /\ Len(clog') \in Nat
  BY DEF TypeOK
<1>2. Len(clog) <= Len(clog') /\ \A k \in 1..Len(clog) : clog'[k] = clog[k]
  BY DEF ClogKept, Agree
<1>3. /\ SubSeq(clog', 1, Len(clog)) \in Seq(Entry)
      /\ Len(SubSeq(clog', 1, Len(clog))) = Len(clog)
      /\ \A k \in 1..Len(clog) : SubSeq(clog', 1, Len(clog))[k] = clog'[k]
  BY <1>1, <1>2
<1>. QED
  BY <1>1, <1>2, <1>3

\* A call that the client sent once is written at one index of what is committed.
LEMMA OnceCommitted ==
    ASSUME OpsInv
    PROVE  CommittedOnce
<1>. SUFFICES ASSUME NEW o \in Op, try[o] = 1
              PROVE  Cardinality({i \in 1..Len(clog) : clog[i].op = o}) <= 1
  BY DEF CommittedOnce
<1>. DEFINE S == {i \in 1..Len(clog) : clog[i].op = o}
<1>1. Alone(o)
  BY DEF OpsInv, OnceInv
<1>2. PICK Q \in Quorum : \A m \in Q : Agree(clog, log[m], Len(clog))
  BY DEF OpsInv, RaftInv, CommitInv
<1>3. PICK m \in Node : m \in Q
  BY QuorumNodes
<1>4. Agree(clog, log[m], Len(clog))
  BY <1>2, <1>3
<1>5. Len(clog) \in Nat /\ Len(log[m]) \in Nat
  BY RaftTypes DEF OpsInv, RaftInv
<1>6. \A i \in S : i \in Places(o, m)
  BY <1>4, <1>5 DEF Agree, Places
<1>7. \A i, j \in S : i = j
  BY <1>1, <1>6 DEF Alone
<1>. HIDE DEF S
<1>8. Cardinality(S) <= 1
  <2>1. CASE S = {}
    <3>1. Cardinality(S) = 0
      BY <2>1, FS_EmptySet
    <3>. QED
      BY <3>1
  <2>2. CASE S # {}
    <3>1. PICK i : i \in S
      BY <2>2
    <3>2. S = {i}
      BY <1>7, <3>1
    <3>3. Cardinality(S) = 1
      BY <3>2, FS_Singleton, Zenon
    <3>. QED
      BY <3>3
  <2>. QED
    BY <2>1, <2>2
<1>. QED
  BY <1>8 DEF S

\* The inductive invariant of ClientOps holds in every reachable state: logs agree up to
\* an entry of a common term (raft's maybeAppend), every later log has what was committed
\* (the vote of Step with isUpToDate), a write sent once is at one place, and a read waits
\* for an index that covers its call.
THEOREM OpsInvariant == Spec => []OpsInv
<1>1. Init => OpsInv
  BY OpsInit
<1>2. OpsInv /\ [Next]_vars => OpsInv'
  BY OpsStep
<1>. QED
  BY <1>1, <1>2, PTL DEF Spec

\* The variables keep their types: no replica takes more for committed than its log has,
\* and HostClient.Do tries a call at most MaxTry times.
THEOREM OpsTypes == Spec => []TypeOK
<1>1. OpsInv => TypeOK
  BY DEF OpsInv
<1>. QED
  BY <1>1, OpsInvariant, PTL

\* A Get that answers has seen every entry that was committed when the client called it,
\* on whichever replica doGet ran and after whichever election.
THEOREM GetsSeeCommitted == Spec => []SeesCommitted
<1>1. OpsInv => SeesCommitted
  BY DEF OpsInv, ReadInv, Seen, SeesCommitted
<1>. QED
  BY <1>1, OpsInvariant, PTL

\* A Set or Delete that the client sent once is committed at most once, however often
\* followers forward it.
THEOREM CommittedAtMostOnce == Spec => []CommittedOnce
<1>1. OpsInv => CommittedOnce
  BY OnceCommitted
<1>. QED
  BY <1>1, OpsInvariant, PTL

\* No election and no deposed leader changes an entry that was committed.
THEOREM CommittedNeverChanges == Spec => CommittedStable
<1>1. OpsInv /\ OpsInv' /\ [Next]_vars => [SubSeq(clog', 1, Len(clog)) = clog]_vars
  <2>. SUFFICES ASSUME OpsInv, OpsInv', [Next]_vars
                PROVE  SubSeq(clog', 1, Len(clog)) = clog
    OBVIOUS
  <2>. QED
    BY OpsStep, PrefixKept DEF OpsInv
<1>. QED
  BY <1>1, OpsInvariant, PTL DEF Spec, CommittedStable
=============================================================================
