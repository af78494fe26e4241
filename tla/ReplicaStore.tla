---------------------------- MODULE ReplicaStore ----------------------------
(***************************************************************************)
(* What one replica's raft code needs of its disk: a log that maps an      *)
(* index to an entry or to nothing, three records, and the users' keys.    *)
(* A write changes one of them, and a crash changes none: what a write     *)
(* has returned for stays.  PeerStorage rests on this specification;       *)
(* Engines implements it with two key-value databases.                     *)
(***************************************************************************)
CONSTANTS Index,      \* the indexes that entries are stored under
          Message,    \* the messages stored, Zero among them
          Zero,       \* the message with every field at its default
          Key, Value, \* the users' keys, and the values other than the empty one
          Missing     \* nothing is stored

VARIABLES inUse, log, local, apply, conf, kv

vars == <<inUse, log, local, apply, conf, kv>>

NoKeys == kv = [k \in Key |-> Missing]

NoRaftState == /\ log = [i \in Index |-> Missing]
               /\ local = Zero /\ apply = Zero /\ conf = Zero

\* A replica that has never stored anything reads defaults.
Init == inUse = TRUE /\ NoKeys /\ NoRaftState

PutEntry(i, m) == /\ log' = [log EXCEPT ![i] = m]
                  /\ UNCHANGED <<local, apply, conf, kv>>

PutLocal(m) == local' = m /\ UNCHANGED <<log, apply, conf, kv>>

PutApply(m) == apply' = m /\ UNCHANGED <<log, local, conf, kv>>

PutConf(m) == conf' = m /\ UNCHANGED <<log, local, apply, kv>>

PutKey(k, v) == kv' = [kv EXCEPT ![k] = v] /\ UNCHANGED <<log, local, apply, conf>>

Write == /\ inUse
         /\ \/ \E i \in Index, m \in Message \cup {Missing} : PutEntry(i, m)
            \/ \E m \in Message : PutLocal(m) \/ PutApply(m) \/ PutConf(m)
            \/ \E k \in Key, v \in Value \cup {Missing} : PutKey(k, v)
         /\ UNCHANGED inUse

\* Opened, closed or crashed: everything stored is still there.
OpenOrClose == inUse' = ~inUse /\ UNCHANGED <<log, local, apply, conf, kv>>

\* Only a store that is not in use is deleted, the keys first.
Forget == /\ ~inUse
          /\ \/ NoKeys' /\ UNCHANGED <<inUse, log, local, apply, conf>>
             \/ NoKeys /\ NoRaftState' /\ UNCHANGED <<inUse, kv>>

Next == Write \/ OpenOrClose \/ Forget

Spec == Init /\ [][Next]_vars
=============================================================================
