---------------------------- MODULE NameService ----------------------------
(***************************************************************************)
(* What the name service of the IPC library promises the processes that    *)
(* call it: the calls of a process are served one at a time and in order,  *)
(* each as if the service had nothing else to do, and each once: it is     *)
(* answered, or it is refused and the process hears nothing.  A key has    *)
(* the queue of its last registration, under an id no queue had before; a  *)
(* registration that is refused leaves a key that had a queue with no      *)
(* queue, or a new one.  A process takes its answers in the order they     *)
(* were given.  Ipc implements this with one bounded queue and a table.    *)
(***************************************************************************)
EXTENDS Integers, FiniteSets

CONSTANTS
  Processes,
  Keys,
  Capacity,  \* the keys that can have a queue
  NoQueue    \* the id of no queue

VARIABLES
  names,     \* the id of the queue of every key that is registered
  given,     \* ids given so far
  asked,     \* the calls not served yet
  answers,   \* the answers not taken yet
  refused,   \* the calls refused: <<who, call>>
  last,      \* the number of the last call of each process
  taken      \* the last answer each process has taken, if any

vars == <<names, given, asked, answers, refused, last, taken>>

Known(k) == k \in DOMAIN names

Init ==
  /\ names = [k \in {} |-> NoQueue]
  /\ given = 0
  /\ asked = {}
  /\ answers = {}
  /\ refused = {}
  /\ last = [p \in Processes |-> 0]
  /\ taken = [p \in {} |-> NoQueue]

CallOf(p, n, t, k) == [who |-> p, call |-> n, type |-> t, key |-> k]
AnswerTo(r, id) == [who |-> r.who, call |-> r.call, key |-> r.key, qid |-> id]

IsFirst(m, S) == m \in S /\ \A n \in S : n.who = m.who => m.call <= n.call

Ask(p, t, k) ==
  /\ last' = [last EXCEPT ![p] = @ + 1]
  /\ asked' = asked \cup {CallOf(p, last[p] + 1, t, k)}
  /\ UNCHANGED <<names, given, answers, refused, taken>>

Answer(r, id) ==
  /\ answers' = answers \cup {AnswerTo(r, id)}
  /\ UNCHANGED refused

Refuse(r) ==
  /\ refused' = refused \cup {<<r.who, r.call>>}
  /\ UNCHANGED answers

Name(k, id) ==
  names' = [j \in DOMAIN names \cup {k} |-> IF j = k THEN id ELSE names[j]]

Register(r) ==
  /\ Known(r.key) \/ Cardinality(DOMAIN names) < Capacity
  /\ Name(r.key, given)
  /\ given' = given + 1
  /\ Answer(r, given)

NotRegistered(r) ==
  /\ \E id \in {NoQueue, given} :
       /\ IF Known(r.key) THEN Name(r.key, id) ELSE UNCHANGED names
       /\ given' = IF id = given THEN given + 1 ELSE given
  /\ Refuse(r)

Map(r) ==
  /\ IF Known(r.key) THEN Answer(r, names[r.key]) ELSE Refuse(r)
  /\ UNCHANGED <<names, given>>

Serve(r) ==
  /\ IsFirst(r, asked)
  /\ asked' = asked \ {r}
  /\ \/ r.type = "REG" /\ (Register(r) \/ NotRegistered(r))
     \/ r.type = "MAP" /\ Map(r)
  /\ UNCHANGED <<last, taken>>

Take(a) ==
  /\ IsFirst(a, answers)
  /\ answers' = answers \ {a}
  /\ taken' = [p \in DOMAIN taken \cup {a.who} |-> IF p = a.who THEN a ELSE taken[p]]
  /\ UNCHANGED <<names, given, asked, refused, last>>

Next ==
  \/ \E p \in Processes, t \in {"REG", "MAP"}, k \in Keys : Ask(p, t, k)
  \/ \E r \in asked : Serve(r)
  \/ \E a \in answers : Take(a)

Spec == Init /\ [][Next]_vars
=============================================================================
