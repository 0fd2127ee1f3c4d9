----------------------------- MODULE IpcProofs -----------------------------
(***************************************************************************)
(* What the name service keeps, proved for any number of clients, keys,    *)
(* entries and calls and any capacity of the queue.                        *)
(***************************************************************************)
EXTENDS Ipc, SequenceTheorems, FiniteSetTheorems, NatFacts, TLAPS

-----------------------------------------------------------------------------
(***************************************************************************)
(* The queue: the first message of a type, and the queue without it        *)
(***************************************************************************)
First(i, t) ==
  /\ i \in 1..Len(q)
  /\ q[i].mtype = t
  /\ \A j \in 1..i - 1 : q[j].mtype # t

\* Where the j-th message was before the i-th was removed.
Old(i, j) == IF j < i THEN j ELSE j + 1

Removed(r, s, i) ==
  /\ r \in Seq(Mails)
  /\ Len(r) = Len(s) - 1
  /\ \A j \in 1..Len(r) : r[j] = s[Old(i, j)]

LEMMA FirstIs ==
  ASSUME NEW t, Len(q) \in Nat, FirstOf(t) # 0
  PROVE  First(FirstOf(t), t)
<1> DEFINE I == {i \in 1..Len(q) : q[i].mtype = t}
<1>1. FirstOf(t) = IF I # {} THEN Min(I) ELSE 0
  BY DEF FirstOf, SelectInSeq
<1>2. \A i : i \in I <=> i \in 1..Len(q) /\ q[i].mtype = t
  OBVIOUS
<1>3. I \subseteq Nat
  OBVIOUS
<1> HIDE DEF I
<1>4. I # {} /\ FirstOf(t) = Min(I)
  BY <1>1
<1>5. PICK m \in I : \A n \in I : m <= n
  BY <1>3, <1>4, NatLeast
<1>6. Min(I) \in I /\ \A n \in I : Min(I) <= n
  BY <1>5 DEF Min
<1>7. ASSUME NEW f \in Nat, \A n \in I : f <= n PROVE \A j \in 1..f - 1 : j \notin I
  BY <1>3, <1>7
<1>8. \A j \in 1..FirstOf(t) - 1 : j \notin I
  BY <1>3, <1>4, <1>6, <1>7
<1>9. \A j \in 1..FirstOf(t) - 1 : j \in 1..Len(q)
  <2>1. FirstOf(t) \in 1..Len(q)
    BY <1>2, <1>4, <1>6
  <2> HIDE DEF I
  <2>2. ASSUME NEW f \in 1..Len(q) PROVE \A j \in 1..f - 1 : j \in 1..Len(q)
    OBVIOUS
  <2> QED BY <2>1, <2>2
<1> QED BY <1>2, <1>4, <1>6, <1>8, <1>9 DEF First

LEMMA RemoveAtIs ==
  ASSUME NEW s \in Seq(Mails), NEW i \in 1..Len(s)
  PROVE  Removed(RemoveAt(s, i), s, i)
<1> DEFINE a == SubSeq(s, 1, i - 1)
           b == SubSeq(s, i + 1, Len(s))
<1>1. Len(s) \in Nat /\ \A j \in 1..Len(s) : s[j] \in Mails
  BY ElementOfSeq
<1>2. /\ a \in Seq(Mails)
      /\ Len(a) = i - 1
      /\ \A j \in 1..i - 1 : a[j] = s[j]
  <2>1. \A j \in 1..i - 1 : s[j] \in Mails
    BY <1>1
  <2> QED BY <1>1, <2>1, SubSeqProperties, Z3
<1>3. /\ b \in Seq(Mails)
      /\ Len(b) = Len(s) - i
      /\ \A j \in 1..Len(s) - i : b[j] = s[j + i]
  <2>1. \A j \in i + 1..Len(s) : s[j] \in Mails
    BY <1>1
  <2>2. i + 1 \in Int /\ Len(s) \in Int
    BY <1>1
  <2>3. /\ b \in Seq(Mails)
        /\ Len(b) = IF i + 1 <= Len(s) THEN Len(s) - (i + 1) + 1 ELSE 0
        /\ \A j \in 1..Len(s) - (i + 1) + 1 : b[j] = s[(i + 1) + j - 1]
    BY <2>1, <2>2, SubSeqProperties
  <2> HIDE DEF b
  <2> QED BY <1>1, <2>3
<1>4. RemoveAt(s, i) = a \o b
  BY DEF RemoveAt
<1> HIDE DEF a, b
<1>5. /\ a \o b \in Seq(Mails)
      /\ Len(a \o b) = Len(s) - 1
      /\ \A j \in 1..Len(s) - 1 : (a \o b)[j] = IF j <= i - 1 THEN a[j] ELSE b[j - (i - 1)]
  <2>1. /\ a \o b \in Seq(Mails)
        /\ Len(a \o b) = Len(a) + Len(b)
        /\ \A j \in 1..Len(a) + Len(b) : (a \o b)[j] = IF j <= Len(a) THEN a[j] ELSE b[j - Len(a)]
    BY <1>2, <1>3, ConcatProperties
  <2>2. Len(a) + Len(b) = Len(s) - 1 /\ Len(a) = i - 1
    BY <1>1, <1>2, <1>3
  <2> QED BY <2>1, <2>2
<1>6. ASSUME NEW j \in 1..Len(s) - 1 PROVE (a \o b)[j] = s[Old(i, j)]
  <2>1. CASE j < i
    BY <1>2, <1>5, <2>1 DEF Old
  <2>2. CASE ~ (j < i)
    <3>1. j - (i - 1) \in 1..Len(s) - i /\ (j - (i - 1)) + i = j + 1
      BY <1>1, <2>2
    <3> QED BY <1>1, <1>3, <1>5, <2>2, <3>1 DEF Old
  <2> QED BY <2>1, <2>2
<1> QED BY <1>4, <1>5, <1>6 DEF Removed

\* What is left keeps its order.
LEMMA StillThere ==
  ASSUME NEW s \in Seq(Mails), NEW r, NEW i \in 1..Len(s), Removed(r, s, i)
  PROVE  /\ \A j \in DOMAIN r : Old(i, j) \in DOMAIN s /\ Old(i, j) # i /\ r[j] = s[Old(i, j)]
         /\ \A j, k \in DOMAIN r : j < k => Old(i, j) < Old(i, k)
         /\ Range(r) \subseteq Range(s)
         /\ Range(s) \subseteq Range(r) \cup {s[i]}
<1>1. Len(s) \in Nat /\ DOMAIN s = 1..Len(s) /\ DOMAIN r = 1..Len(r) /\ Len(r) = Len(s) - 1
  BY LenProperties DEF Removed
<1>2. \A j \in DOMAIN r : Old(i, j) \in DOMAIN s /\ Old(i, j) # i /\ r[j] = s[Old(i, j)]
  BY <1>1 DEF Removed, Old
<1>3. \A j, k \in DOMAIN r : j < k => Old(i, j) < Old(i, k)
  BY <1>1 DEF Old
<1>4. ASSUME NEW k \in DOMAIN s, k # i PROVE \E j \in DOMAIN r : r[j] = s[k]
  <2> DEFINE j == IF k < i THEN k ELSE k - 1
  <2>1. j \in DOMAIN r /\ Old(i, j) = k
    BY <1>1, <1>4 DEF Old
  <2> QED BY <1>2, <2>1
<1> QED BY <1>2, <1>3, <1>4 DEF Range

-----------------------------------------------------------------------------
(***************************************************************************)
(* Types                                                                   *)
(***************************************************************************)
LEMMA MailFields ==
  ASSUME NEW m \in Mails
  PROVE  /\ m.mtype \in Clients \cup {IPC_DEF_USR} /\ m.who \in Clients
         /\ m.type \in {"REG", "MAP"} /\ m.key \in IpcKeys
         /\ m.qid \in {NoQueue} \cup Nat /\ m.call \in Nat
BY DEF Mails

LEMMA MailOf ==
  ASSUME NEW m \in Clients \cup {IPC_DEF_USR}, NEW c \in Clients, NEW t \in {"REG", "MAP"},
         NEW k \in IpcKeys, NEW id \in {NoQueue} \cup Nat, NEW n \in Nat
  PROVE  /\ Mail(m, c, t, k, id, n) \in Mails
         /\ Mail(m, c, t, k, id, n).mtype = m
         /\ Mail(m, c, t, k, id, n).who = c
         /\ Mail(m, c, t, k, id, n).key = k
         /\ Mail(m, c, t, k, id, n).call = n
BY DEF Mail, Mails

LEMMA QueueTyped ==
  ASSUME TypeOK
  PROVE  /\ Len(q) \in Nat /\ DOMAIN q = 1..Len(q)
         /\ \A i \in DOMAIN q : q[i] \in Mails
         /\ \A m \in Range(q) : m \in Mails
         /\ \A a \in Range(out) : a \in Mails
<1>1. q \in Seq(Mails) /\ out \in Seq(Mails)
  BY DEF TypeOK
<1>2. /\ Len(q) \in Nat /\ DOMAIN q = 1..Len(q) /\ \A i \in 1..Len(q) : q[i] \in Mails
      /\ Len(out) \in Nat /\ DOMAIN out = 1..Len(out) /\ \A i \in 1..Len(out) : out[i] \in Mails
  BY <1>1, ElementOfSeq, LenProperties
<1> QED BY <1>2 DEF Range

\* An answer is to the call, and about the key, of the mail it answers.
Answers(a, m) ==
  /\ a \in Mails
  /\ a.mtype = m.who /\ a.who = m.who /\ a.key = m.key /\ a.call = m.call

LEMMA RegisterAnswers ==
  ASSUME TypeOK, NEW m \in Mails, Register(m)
  PROVE  \/ Drop(m)
         \/ \E a : Answers(a, m) /\ out' = <<a>> /\ errors' = errors
<1>1. CASE ~ Drop(m)
  <2>1. PICK i \in RegEntries(m.key) :
          NewMsgq(m.key, i) /\ out' = <<Answer(m, tbl'[i])>> /\ errors' = errors
    BY <1>1 DEF Register
  <2>2. i \in 1..MAX_IPC_NUM
    BY DEF RegEntries, TypeOK
  <2>3. tbl'[i].key = m.key /\ tbl'[i].qid \in Nat
    BY <2>1, <2>2 DEF NewMsgq, TypeOK
  <2>4. Answers(Answer(m, tbl'[i]), m)
    BY <2>3, MailFields, MailOf DEF Answer, Answers
  <2> QED BY <2>1, <2>4
<1> QED BY <1>1

LEMMA MapAnswers ==
  ASSUME TypeOK, NEW m \in Mails, Map(m)
  PROVE  \/ Drop(m)
         \/ \E a : Answers(a, m) /\ out' = <<a>> /\ errors' = errors
<1>1. CASE ~ Drop(m)
  <2>1. PICK i \in MapEntries(m.key) : out' = <<Answer(m, tbl[i])>> /\ errors' = errors
    BY <1>1 DEF Map
  <2>2. i \in 1..MAX_IPC_NUM /\ tbl[i].key = m.key /\ tbl[i].qid \in {NoQueue} \cup Nat
    BY DEF MapEntries, TypeOK
  <2>3. /\ m.who \in Clients /\ m.who \in Clients \cup {IPC_DEF_USR}
        /\ m.type \in {"REG", "MAP"} /\ m.key \in IpcKeys /\ m.call \in Nat
    BY MailFields
  <2>4. Answers(Answer(m, tbl[i]), m)
    <3>1. tbl[i].key \in IpcKeys
      BY <2>2, <2>3
    <3>2. LET a == Mail(m.who, m.who, m.type, tbl[i].key, tbl[i].qid, m.call) IN
            /\ a \in Mails
            /\ a.mtype = m.who /\ a.who = m.who /\ a.key = tbl[i].key /\ a.call = m.call
      BY <2>2, <2>3, <3>1 DEF Mail, Mails
    <3> QED BY <2>2, <3>2 DEF Answer, Answers
  <2> QED BY <2>1, <2>4
<1> QED BY <1>1

\* What house_keep does with a request, by its type.
Handled(m) ==
  \/ m.type = "REG" /\ Register(m)
  \/ m.type = "MAP" /\ Map(m)

\* The daemon takes the first request and sends one answer to it, or none.
LEMMA Served ==
  ASSUME TypeOK, HouseKeep
  PROVE  \E i : /\ First(i, IPC_DEF_USR) /\ Removed(q', q, i)
                /\ q[i] \in Mails
                /\ Handled(q[i])
                /\ \/ Drop(q[i])
                   \/ \E a : Answers(a, q[i]) /\ out' = <<a>> /\ errors' = errors
<1> DEFINE i == FirstOf(IPC_DEF_USR)
<1>1. First(i, IPC_DEF_USR)
  BY FirstIs, QueueTyped DEF HouseKeep
<1>2. q \in Seq(Mails) /\ i \in 1..Len(q) /\ q[i] \in Mails
  BY <1>1, QueueTyped DEF First, TypeOK
<1>3. Removed(q', q, i)
  BY <1>2, RemoveAtIs DEF HouseKeep
<1>4. Handled(q[i])
  BY DEF HouseKeep, Handled
<1> QED BY <1>1, <1>2, <1>3, <1>4, RegisterAnswers, MapAnswers DEF Handled

\* A client takes the first message that is for it.
LEMMA Taken ==
  ASSUME TypeOK, NEW c \in Clients, TakeAnswer(c)
  PROVE  \E i : /\ First(i, c) /\ Removed(q', q, i)
                /\ q[i] \in Mails
                /\ ret' = [ret EXCEPT ![c] = q[i]]
<1> DEFINE i == FirstOf(c)
<1>1. First(i, c)
  BY FirstIs, QueueTyped DEF TakeAnswer
<1>2. q \in Seq(Mails) /\ i \in 1..Len(q) /\ q[i] \in Mails
  BY <1>1, QueueTyped DEF First, TypeOK
<1>3. Removed(q', q, i)
  BY <1>2, RemoveAtIs DEF TakeAnswer
<1> QED BY <1>1, <1>2, <1>3 DEF TakeAnswer

\* The two variables the daemon's table is kept in, and the ids it has given.
TableTyped ==
  /\ tbl \in [1..MAX_IPC_NUM -> [valid : BOOLEAN, key : IpcKeys, qid : {NoQueue} \cup Nat]]
  /\ queue \in [IpcKeys -> {NoQueue} \cup Nat]
  /\ made \in Nat
  /\ errors \subseteq Clients \X Nat

LEMMA EntryTyped ==
  ASSUME TypeOK, NEW m \in Mails, NEW i \in RegEntries(m.key),
         NoMsgq(m.key, i) \/ SmallMsgq(m.key, i) \/ NewMsgq(m.key, i)
  PROVE  /\ tbl' \in [1..MAX_IPC_NUM -> [valid : BOOLEAN, key : IpcKeys, qid : {NoQueue} \cup Nat]]
         /\ queue' \in [IpcKeys -> {NoQueue} \cup Nat]
         /\ made' \in Nat
<1>1. i \in 1..MAX_IPC_NUM /\ m.key \in IpcKeys
  BY MailFields DEF RegEntries, TypeOK
<1>2. NoQueue \in {NoQueue} \cup Nat /\ made \in {NoQueue} \cup Nat /\ made + 1 \in Nat
  BY DEF TypeOK
<1>3. CASE NoMsgq(m.key, i)
  BY <1>1, <1>2, <1>3 DEF TypeOK, NoMsgq
<1>4. CASE SmallMsgq(m.key, i)
  BY <1>1, <1>2, <1>4 DEF TypeOK, SmallMsgq
<1>5. CASE NewMsgq(m.key, i)
  BY <1>1, <1>2, <1>5 DEF TypeOK, NewMsgq
<1> QED BY <1>3, <1>4, <1>5

LEMMA DropTyped ==
  ASSUME TypeOK, NEW m \in Mails, Drop(m)
  PROVE  errors' \subseteq Clients \X Nat
BY MailFields DEF Drop, TypeOK

LEMMA RequestTyped ==
  ASSUME TypeOK, NEW m \in Mails, Register(m) \/ Map(m)
  PROVE  TableTyped'
<1>1. CASE Map(m)
  BY <1>1, DropTyped DEF Map, TypeOK, TableTyped
<1>2. CASE Register(m)
  <2>1. CASE RegEntries(m.key) = {} /\ Drop(m) /\ UNCHANGED <<tbl, queue, made>>
    BY <2>1, DropTyped DEF TypeOK, TableTyped
  <2>2. ASSUME NEW i \in RegEntries(m.key), (NoMsgq(m.key, i) \/ SmallMsgq(m.key, i)) /\ Drop(m)
        PROVE  TableTyped'
    BY <2>2, EntryTyped, DropTyped DEF TableTyped
  <2>3. ASSUME NEW i \in RegEntries(m.key), NewMsgq(m.key, i), UNCHANGED errors
        PROVE  TableTyped'
    BY <2>3, EntryTyped DEF TableTyped, TypeOK
  <2> QED BY <1>2, <2>1, <2>2, <2>3 DEF Register
<1> QED BY <1>1, <1>2

\* What a client's steps leave of its state.
ClientTyped ==
  /\ pc \in [Clients -> {"idle", "SND_MSGQT", "RCV_MSGQT", "msgrcv", "received"}]
  /\ ask \in [Clients -> Mails]
  /\ to \in [Clients -> {"forever", "short", "none"}]
  /\ alarm \in [Clients -> {"off", "set", "rung"}]
  /\ ret \in [Clients -> Mails]
  /\ res \in [Clients -> {"answer", "ERROR", "0"}]

LEMMA AskTyped ==
  ASSUME TypeOK, NEW c \in Clients, NEW t \in {"REG", "MAP"}, NEW k \in IpcKeys
  PROVE  LET m == Request(c, t, k, ask[c].call + 1) IN
           /\ m \in Mails
           /\ IsRequest(m) /\ m.who = c /\ m.key = k /\ m.call = ask[c].call + 1
<1>1. ask[c].call + 1 \in Nat
  BY MailFields DEF TypeOK
<1>2. IPC_DEF_USR \in Clients \cup {IPC_DEF_USR} /\ NoQueue \in {NoQueue} \cup Nat
  OBVIOUS
<1>3. LET m == Mail(IPC_DEF_USR, c, t, k, NoQueue, ask[c].call + 1) IN
        /\ m \in Mails
        /\ m.mtype = IPC_DEF_USR /\ m.who = c /\ m.key = k /\ m.call = ask[c].call + 1
  BY <1>1, <1>2, MailFields DEF Mail, Mails
<1> QED BY <1>3 DEF Request, IsRequest

LEMMA ClientStepTyped ==
  ASSUME TypeOK, NEW c \in Clients, Client(c)
  PROVE  ClientTyped'
<1> USE DEF ClientTyped, Goto
<1>1. CASE Call(c)
  <2>1. PICK t \in {"REG", "MAP"}, k \in IpcKeys :
          ask' = [ask EXCEPT ![c] = Request(c, t, k, ask[c].call + 1)]
    BY <1>1 DEF Call
  <2>2. ask' \in [Clients -> Mails]
    BY <2>1, AskTyped DEF TypeOK
  <2>3. to' \in [Clients -> {"forever", "short", "none"}]
    BY <1>1 DEF Call, TypeOK
  <2> QED BY <1>1, <2>2, <2>3 DEF Call, TypeOK
<1>2. CASE CallRecv(c)
  BY <1>2 DEF CallRecv, TypeOK
<1>3. CASE SendRequest(c)
  BY <1>3 DEF SendRequest, TypeOK
<1>4. CASE EnterReceive(c)
  BY <1>4 DEF EnterReceive, TypeOK
<1>5. CASE Alarm(c)
  BY <1>5 DEF Alarm, TypeOK
<1>6. CASE TakeAnswer(c)
  BY <1>6, Taken DEF TakeAnswer, TypeOK
<1>7. CASE FinishCall(c)
  BY <1>7 DEF FinishCall, TypeOK
<1> QED BY <1>1, <1>2, <1>3, <1>4, <1>5, <1>6, <1>7 DEF Client

QueueOK ==
  /\ q \in Seq(Mails) /\ Len(q) <= QCap
  /\ out \in Seq(Mails) /\ Len(out) <= 1

LEMMA QueueStepTyped ==
  ASSUME TypeOK, Next
  PROVE  QueueOK'
<1> USE DEF QueueOK
<1>1. CASE HouseKeep
  <2>1. PICK i : /\ Removed(q', q, i)
                 /\ \/ out' = <<>>
                    \/ \E a : Answers(a, q[i]) /\ out' = <<a>>
    BY <1>1, Served DEF Drop
  <2>2. q' \in Seq(Mails) /\ Len(q') <= QCap
    BY <2>1, QueueTyped, CapAssumption DEF Removed, TypeOK
  <2>3. ASSUME NEW a \in Mails PROVE <<a>> \in Seq(Mails) /\ Len(<<a>>) <= 1
    OBVIOUS
  <2>4. out' \in Seq(Mails) /\ Len(out') <= 1
    <3>1. CASE out' = <<>>
      BY <3>1
    <3>2. CASE \E a : Answers(a, q[i]) /\ out' = <<a>>
      BY <2>3, <3>2 DEF Answers
    <3> QED BY <2>1, <3>1, <3>2
  <2> QED BY <2>2, <2>4
<1>2. CASE SendAnswer
  <2>1. Len(q) \in Nat /\ Len(out) \in Nat /\ Len(q) < QCap /\ Len(out) <= 1
    BY <1>2 DEF SendAnswer, TypeOK
  <2>2. q' \in Seq(Mails) /\ Len(q') = Len(q) + Len(out)
    BY <1>2, ConcatProperties DEF SendAnswer, TypeOK
  <2> QED BY <1>2, <2>1, <2>2, CapAssumption DEF SendAnswer
<1>3. ASSUME NEW c \in Clients, SendRequest(c) PROVE QueueOK'
  <2>1. ask[c] \in Mails /\ q \in Seq(Mails) /\ Len(q) \in Nat
    BY DEF TypeOK
  <2>2. q' = Append(q, ask[c]) /\ Len(q) < QCap /\ out' = out
    BY <1>3 DEF SendRequest, daemonVars
  <2> QED BY <2>1, <2>2, CapAssumption DEF TypeOK
<1>4. ASSUME NEW c \in Clients, TakeAnswer(c) PROVE QueueOK'
  <2>1. PICK i : Removed(q', q, i)
    BY <1>4, Taken
  <2>2. q' \in Seq(Mails) /\ Len(q') <= QCap
    BY <2>1, QueueTyped, CapAssumption DEF Removed, TypeOK
  <2> QED BY <1>4, <2>2 DEF TakeAnswer, daemonVars, TypeOK
<1>5. ASSUME NEW c \in Clients, Call(c) \/ CallRecv(c) \/ EnterReceive(c) \/ Alarm(c) \/ FinishCall(c)
      PROVE  QueueOK'
  BY <1>5 DEF Call, CallRecv, EnterReceive, Alarm, FinishCall, daemonVars, TypeOK
<1> QED BY <1>1, <1>2, <1>3, <1>4, <1>5 DEF Next, Daemon, Client

LEMMA TypeStep ==
  ASSUME TypeOK, [Next]_vars
  PROVE  TypeOK'
<1>1. CASE UNCHANGED vars
  BY <1>1 DEF vars, TypeOK
<1>2. CASE Next
  <2>1. QueueOK'
    BY <1>2, QueueStepTyped
  <2>2. TableTyped' /\ ClientTyped'
    <3>1. CASE HouseKeep
      <4>1. PICK m \in Mails : Register(m) \/ Map(m)
        <5>1. q[FirstOf(IPC_DEF_USR)] \in Mails
          BY <3>1, FirstIs, QueueTyped DEF HouseKeep, First
        <5> QED BY <3>1, <5>1 DEF HouseKeep
      <4>2. ClientTyped'
        BY <3>1 DEF HouseKeep, clientVars, TypeOK, ClientTyped
      <4> QED BY <4>1, <4>2, RequestTyped
    <3>2. CASE SendAnswer
      BY <3>2 DEF SendAnswer, clientVars, TypeOK, ClientTyped, TableTyped
    <3>3. ASSUME NEW c \in Clients, Client(c) PROVE TableTyped' /\ ClientTyped'
      <4>1. UNCHANGED daemonVars
        BY <3>3 DEF Client, Call, CallRecv, SendRequest, EnterReceive, Alarm, TakeAnswer, FinishCall
      <4>2. TableTyped'
        BY <4>1 DEF daemonVars, TypeOK, TableTyped
      <4> QED BY <3>3, <4>2, ClientStepTyped
    <3> QED BY <1>2, <3>1, <3>2, <3>3 DEF Next, Daemon
  <2> QED BY <2>1, <2>2 DEF TypeOK, QueueOK, TableTyped, ClientTyped
<1> QED BY <1>1, <1>2

LEMMA InitTyped == Init => TypeOK
<1> SUFFICES ASSUME Init PROVE TypeOK
  OBVIOUS
<1>1. AnyKey \in IpcKeys
  BY KeysAssumption DEF AnyKey
<1>2. \A c \in Clients : NoMail(c) \in Mails
  BY <1>1, MailOf DEF NoMail
<1> QED BY <1>1, <1>2, CapAssumption DEF Init, TypeOK

-----------------------------------------------------------------------------
(***************************************************************************)
(* The table                                                               *)
(***************************************************************************)

\* The entry a registration uses is the only one the key has, or will have.
LEMMA EntryOfKey ==
  ASSUME TypeOK, TableInv, NEW k, NEW i \in RegEntries(k), NEW j \in DOMAIN tbl,
         tbl[j].valid, tbl[j].key = k
  PROVE  j = i
<1>1. DOMAIN tbl = 1..MAX_IPC_NUM /\ i \in DOMAIN tbl
  BY DEF TypeOK, RegEntries
<1>2. ~ (j < i)
  BY <1>1, TableAssumption DEF RegEntries
<1>3. CASE i < j
  <2>1. tbl[i].valid
    BY <1>1, <1>3 DEF TableInv, NoHoles
  <2>2. tbl[i].key = k
    BY <2>1 DEF RegEntries
  <2> QED BY <1>1, <2>1, <2>2 DEF TableInv, OneEntryPerKey
<1> QED BY <1>1, <1>2, <1>3, TableAssumption

\* GET_MSGQ stores the id of the key's queue in the key's entry.
LEMMA RegisterKeeps ==
  ASSUME TypeOK, TableInv, NEW m \in Mails, Register(m)
  PROVE  TableInv'
<1>1. CASE UNCHANGED <<tbl, queue, made>>
  BY <1>1 DEF TableInv, NoHoles, OneEntryPerKey, EntriesCurrent
<1>2. CASE ~ UNCHANGED <<tbl, queue, made>>
  <2> DEFINE k == m.key
  <2>1. PICK i \in RegEntries(k) : NoMsgq(k, i) \/ SmallMsgq(k, i) \/ NewMsgq(k, i)
    BY <1>2 DEF Register
  <2>2. i \in DOMAIN tbl /\ DOMAIN tbl = 1..MAX_IPC_NUM /\ k \in IpcKeys
    BY MailFields DEF TypeOK, RegEntries
  <2>3. PICK x \in {NoQueue} \cup Nat :
          /\ queue' = [queue EXCEPT ![k] = x]
          /\ \/ tbl' = [tbl EXCEPT ![i].qid = x]
             \/ tbl' = [tbl EXCEPT ![i] = [valid |-> TRUE, key |-> k, qid |-> x]]
    BY <2>1 DEF NoMsgq, SmallMsgq, NewMsgq, TypeOK
  <2>4. /\ DOMAIN tbl' = DOMAIN tbl
        /\ \A j \in DOMAIN tbl : j # i => tbl'[j] = tbl[j]
        /\ tbl'[i].qid = x
        /\ \/ (tbl'[i].valid <=> tbl[i].valid) /\ tbl'[i].key = tbl[i].key
           \/ tbl'[i].valid /\ tbl'[i].key = k
    <3>1. /\ tbl \in [1..MAX_IPC_NUM -> [valid : BOOLEAN, key : IpcKeys, qid : {NoQueue} \cup Nat]]
          /\ tbl[i] \in [valid : BOOLEAN, key : IpcKeys, qid : {NoQueue} \cup Nat]
      BY <2>2 DEF TypeOK
    <3> HIDE DEF k
    <3>2. CASE tbl' = [tbl EXCEPT ![i].qid = x]
      <4>1. tbl'[i] = [tbl[i] EXCEPT !.qid = x]
        BY <2>2, <3>1, <3>2
      <4>2. tbl'[i].qid = x /\ tbl'[i].valid = tbl[i].valid /\ tbl'[i].key = tbl[i].key
        BY <3>1, <4>1
      <4>3. DOMAIN tbl' = DOMAIN tbl /\ \A j \in DOMAIN tbl : j # i => tbl'[j] = tbl[j]
        BY <2>2, <3>1, <3>2
      <4> QED BY <4>2, <4>3
    <3>3. CASE tbl' = [tbl EXCEPT ![i] = [valid |-> TRUE, key |-> k, qid |-> x]]
      BY <2>2, <3>1, <3>3
    <3> QED BY <2>3, <3>2, <3>3
  <2>5. tbl'[i].valid => tbl'[i].key = k
    BY <2>4 DEF RegEntries
  <2>6. \A j \in DOMAIN tbl : tbl[j].valid /\ tbl[j].key = k => j = i
    BY EntryOfKey
  <2>7. NoHoles'
    <3> SUFFICES ASSUME NEW a \in DOMAIN tbl, NEW b \in DOMAIN tbl, a < b, tbl'[b].valid
                 PROVE  tbl'[a].valid
      BY <2>4 DEF NoHoles
    <3>1. CASE b = i
      <4>1. a \in 1..i - 1
        BY <2>2, <3>1
      <4> QED BY <2>4, <4>1 DEF RegEntries
    <3>2. CASE b # i
      <4>1. tbl[b].valid
        BY <2>4, <3>2
      <4>2. tbl[a].valid
        BY <4>1 DEF TableInv, NoHoles
      <4> QED BY <2>4, <4>2
    <3> QED BY <3>1, <3>2
  <2>8. OneEntryPerKey'
    <3> SUFFICES ASSUME NEW a \in DOMAIN tbl, NEW b \in DOMAIN tbl,
                        tbl'[a].valid, tbl'[b].valid, tbl'[a].key = tbl'[b].key
                 PROVE  a = b
      BY <2>4 DEF OneEntryPerKey
    <3>1. CASE a = i /\ b # i
      BY <2>4, <2>5, <2>6, <3>1
    <3>2. CASE a # i /\ b = i
      BY <2>4, <2>5, <2>6, <3>2
    <3>3. CASE a # i /\ b # i
      BY <2>4, <3>3 DEF TableInv, OneEntryPerKey
    <3> QED BY <3>1, <3>2, <3>3
  <2>9. EntriesCurrent'
    <3> SUFFICES ASSUME NEW a \in DOMAIN tbl, tbl'[a].valid
                 PROVE  tbl'[a].qid = queue'[tbl'[a].key]
      BY <2>4 DEF EntriesCurrent
    <3>1. queue'[k] = x /\ \A l \in IpcKeys : l # k => queue'[l] = queue[l]
      BY <2>2, <2>3 DEF TypeOK
    <3>2. CASE a = i
      BY <2>4, <2>5, <3>1, <3>2
    <3>3. CASE a # i
      <4>1. tbl[a].valid /\ tbl[a].key # k /\ tbl[a].key \in IpcKeys /\ tbl'[a] = tbl[a]
        BY <2>2, <2>4, <2>6, <3>3 DEF TypeOK
      <4> QED BY <3>1, <4>1 DEF TableInv, EntriesCurrent
    <3> QED BY <3>2, <3>3
  <2> QED BY <2>7, <2>8, <2>9 DEF TableInv
<1> QED BY <1>1, <1>2

LEMMA TableStep ==
  ASSUME TypeOK, TableInv, [Next]_vars
  PROVE  TableInv'
<1>1. CASE UNCHANGED <<tbl, queue>>
  BY <1>1 DEF TableInv, NoHoles, OneEntryPerKey, EntriesCurrent
<1>2. CASE HouseKeep
  <2>1. q[FirstOf(IPC_DEF_USR)] \in Mails
    BY <1>2, FirstIs, QueueTyped DEF HouseKeep, First
  <2> QED BY <1>1, <1>2, <2>1, RegisterKeeps DEF HouseKeep, Map
<1>3. CASE SendAnswer
  BY <1>1, <1>3 DEF SendAnswer
<1>4. ASSUME NEW c \in Clients, Client(c) PROVE TableInv'
  BY <1>1, <1>4 DEF Client, Call, CallRecv, SendRequest, EnterReceive, Alarm, TakeAnswer,
                    FinishCall, daemonVars
<1>5. CASE UNCHANGED vars
  BY <1>1, <1>5 DEF vars
<1> QED BY <1>2, <1>3, <1>4, <1>5 DEF Next, Daemon

-----------------------------------------------------------------------------
(***************************************************************************)
(* The order of messages                                                   *)
(***************************************************************************)

\* QueueInOrder is about the queue, Lane, and the answer being sent, Between.
Lane(s) ==
  /\ \A m \in Range(s) : IsRequest(m) \/ m.mtype = m.who
  /\ \A i, j \in DOMAIN s :
       i < j /\ (IsRequest(s[i]) <=> IsRequest(s[j])) => Older(s[i], s[j])
  /\ \A m, n \in Range(s) : ~ IsRequest(m) /\ IsRequest(n) => Older(m, n)

Between(s, a) ==
  /\ a.mtype = a.who
  /\ \A m \in Range(s) : IF IsRequest(m) THEN Older(a, m) ELSE Older(m, a)

LEMMA InOrderIs == QueueInOrder <=> Lane(q) /\ \A a \in Range(out) : Between(q, a)
BY DEF QueueInOrder, Lane, Between

LEMMA Appended ==
  ASSUME NEW s \in Seq(Mails), NEW e \in Mails
  PROVE  /\ DOMAIN Append(s, e) = 1..Len(s) + 1
         /\ \A j \in DOMAIN s : Append(s, e)[j] = s[j]
         /\ Append(s, e)[Len(s) + 1] = e
         /\ Range(Append(s, e)) = Range(s) \cup {e}
         /\ s \o <<e>> = Append(s, e)
<1>1. Len(s) \in Nat /\ DOMAIN s = 1..Len(s)
  BY LenProperties
<1>2. /\ DOMAIN Append(s, e) = 1..Len(s) + 1
      /\ \A j \in 1..Len(s) : Append(s, e)[j] = s[j]
      /\ Append(s, e)[Len(s) + 1] = e
  BY AppendProperties, LenProperties
<1>3. Range(Append(s, e)) = Range(s) \cup {e}
  <2>1. \A j : j \in 1..Len(s) + 1 <=> j \in 1..Len(s) \/ j = Len(s) + 1
    BY <1>1
  <2> QED BY <1>1, <1>2, <2>1 DEF Range
<1>4. s \o <<e>> = Append(s, e)
  BY AppendIsConcat
<1> QED BY <1>1, <1>2, <1>3, <1>4

LEMMA AppendInOrder ==
  ASSUME NEW s \in Seq(Mails), NEW e \in Mails, Lane(s),
         \/ IsRequest(e) /\ \A m \in Range(s) : Older(m, e)
         \/ ~ IsRequest(e) /\ Between(s, e)
  PROVE  Lane(Append(s, e))
<1> DEFINE r == Append(s, e)
<1>1. /\ Len(s) \in Nat /\ DOMAIN s = 1..Len(s) /\ DOMAIN r = 1..Len(s) + 1
      /\ \A j \in DOMAIN s : r[j] = s[j] /\ s[j] \in Range(s)
      /\ r[Len(s) + 1] = e
      /\ Range(r) = Range(s) \cup {e}
  BY Appended, LenProperties DEF Range
<1> HIDE DEF r
<1>2. \A m \in Range(r) : IsRequest(m) \/ m.mtype = m.who
  BY <1>1 DEF Lane, Between
<1>3. ASSUME NEW i \in DOMAIN r, NEW j \in DOMAIN r, i < j, IsRequest(r[i]) <=> IsRequest(r[j])
      PROVE  Older(r[i], r[j])
  <2>1. i \in DOMAIN s
    BY <1>1, <1>3
  <2>2. CASE j \in DOMAIN s
    BY <1>1, <1>3, <2>1, <2>2 DEF Lane
  <2>3. CASE j \notin DOMAIN s
    <3>1. j = Len(s) + 1
      BY <1>1, <2>3
    <3> QED BY <1>1, <1>3, <2>1, <3>1 DEF Between
  <2> QED BY <2>2, <2>3
<1>4. ASSUME NEW m \in Range(r), NEW n \in Range(r), ~ IsRequest(m), IsRequest(n)
      PROVE  Older(m, n)
  BY <1>1, <1>4 DEF Lane, Between
<1>5. Lane(r)
  BY <1>2, <1>3, <1>4 DEF Lane
<1> QED BY <1>5 DEF r

LEMMA RemovedInOrder ==
  ASSUME NEW s \in Seq(Mails), NEW r, NEW i \in 1..Len(s), Removed(r, s, i), Lane(s)
  PROVE  Lane(r)
<1>1. /\ \A j \in DOMAIN r : Old(i, j) \in DOMAIN s /\ r[j] = s[Old(i, j)]
      /\ \A j, k \in DOMAIN r : j < k => Old(i, j) < Old(i, k)
      /\ Range(r) \subseteq Range(s)
  BY StillThere
<1> QED BY <1>1 DEF Lane

\* The first of a type, among the others.
LEMMA FirstInOrder ==
  ASSUME TypeOK, QueueInOrder, NEW t, NEW i, First(i, t), NEW r, Removed(r, q, i)
  PROVE  /\ q[i] \in Range(q)
         /\ \A m \in Range(r) : m.mtype = t => Older(q[i], m)
<1>1. i \in DOMAIN q /\ q[i] \in Range(q)
  BY QueueTyped DEF First, Range
<1>2. ASSUME NEW j \in DOMAIN r, r[j].mtype = t PROVE Older(q[i], r[j])
  <2>1. q \in Seq(Mails) /\ i \in 1..Len(q)
    BY DEF TypeOK, First
  <2>2. Old(i, j) \in DOMAIN q /\ Old(i, j) # i /\ r[j] = q[Old(i, j)]
    BY <2>1, StillThere
  <2>3. i < Old(i, j)
    <3>1. ~ (Old(i, j) \in 1..i - 1)
      BY <1>2, <2>2 DEF First
    <3> HIDE DEF First
    <3>2. ASSUME NEW k \in 1..Len(q), k # i, ~ (k \in 1..i - 1) PROVE i < k
      BY <2>1, <3>2, QueueTyped
    <3> QED BY <2>2, <3>1, <3>2, QueueTyped
  <2>4. IsRequest(q[i]) <=> IsRequest(r[j])
    BY <1>2 DEF IsRequest, First
  <2> QED BY <1>1, <2>2, <2>3, <2>4 DEF QueueInOrder
<1> QED BY <1>1, <1>2 DEF Range

\* What the mails of a client keep, said of one client and of one message.
MailOK(c) ==
  /\ ask[c].who = c /\ ret[c].who = c
  /\ ret[c].call <= ask[c].call
  /\ pc[c] = "SND_MSGQT" => IsRequest(ask[c]) /\ ret[c].call < ask[c].call

FlightOK(m) ==
  /\ ret[m.who].call < m.call
  /\ m.call <= ask[m.who].call
  /\ pc[m.who] = "SND_MSGQT" => m.call < ask[m.who].call

LEMMA MailsAre ==
  MailsInOrder <=> (\A c \in Clients : MailOK(c)) /\ (\A m \in InFlight : FlightOK(m))
BY DEF MailsInOrder, MailOK, FlightOK

LEMMA FlightTyped ==
  ASSUME TypeOK
  PROVE  \A m \in InFlight : m \in Mails /\ m.who \in Clients /\ m.call \in Nat
BY QueueTyped, MailFields DEF InFlight

LEMMA CallsTyped ==
  ASSUME TypeOK, NEW c \in Clients
  PROVE  ask[c] \in Mails /\ ask[c].call \in Nat /\ ret[c] \in Mails /\ ret[c].call \in Nat
<1>1. ask[c] \in Mails /\ ret[c] \in Mails
  BY DEF TypeOK
<1> QED BY <1>1, MailFields

LEMMA CallOrder ==
  ASSUME TypeOK, OrderInv, NEW c \in Clients, Call(c)
  PROVE  OrderInv'
<1>1. PICK t \in {"REG", "MAP"}, k \in IpcKeys :
        ask' = [ask EXCEPT ![c] = Request(c, t, k, ask[c].call + 1)]
  BY DEF Call
<1>2. /\ IsRequest(ask'[c]) /\ ask'[c].who = c /\ ask'[c].call = ask[c].call + 1
      /\ \A d \in Clients : d # c => ask'[d] = ask[d]
  BY <1>1, AskTyped DEF TypeOK
<1>3. /\ \A d \in Clients : d # c => pc'[d] = pc[d]
      /\ ret' = ret /\ q' = q /\ out' = out
  BY DEF Call, Goto, TypeOK, daemonVars
<1>4. QueueInOrder'
  BY <1>3 DEF OrderInv, QueueInOrder
<1>5. ASSUME NEW d \in Clients PROVE MailOK(d)'
  <2>1. MailOK(d)
    BY MailsAre DEF OrderInv
  <2>2. CASE d # c
    BY <1>2, <1>3, <2>1, <2>2 DEF MailOK
  <2>3. CASE d = c
    BY <1>2, <1>3, <2>1, <2>3, CallsTyped DEF MailOK
  <2> QED BY <2>2, <2>3
<1>6. ASSUME NEW m \in InFlight PROVE FlightOK(m)'
  <2>1. FlightOK(m) /\ m.who \in Clients /\ m.call \in Nat
    BY MailsAre, FlightTyped DEF OrderInv
  <2>2. CASE m.who # c
    BY <1>2, <1>3, <2>1, <2>2 DEF FlightOK
  <2>3. CASE m.who = c
    BY <1>2, <1>3, <2>1, <2>3, CallsTyped DEF FlightOK
  <2> QED BY <2>2, <2>3
<1>7. InFlight' = InFlight
  BY <1>3 DEF InFlight
<1> QED BY <1>4, <1>5, <1>6, <1>7 DEF OrderInv, MailsInOrder, MailOK, FlightOK

\* The steps that touch no message and send none.
LEMMA QuietOrder ==
  ASSUME TypeOK, OrderInv, UNCHANGED <<q, out, ask, ret>>,
         \A c \in Clients : pc'[c] = "SND_MSGQT" => pc[c] = "SND_MSGQT"
  PROVE  OrderInv'
<1>1. QueueInOrder' /\ InFlight' = InFlight
  BY DEF OrderInv, QueueInOrder, InFlight
<1>2. \A c \in Clients : MailOK(c)'
  BY MailsAre DEF OrderInv, MailOK
<1>3. \A m \in InFlight : FlightOK(m)'
  BY MailsAre, FlightTyped DEF OrderInv, FlightOK
<1> QED BY <1>1, <1>2, <1>3 DEF OrderInv, MailsInOrder, MailOK, FlightOK

LEMMA SendRequestOrder ==
  ASSUME TypeOK, OrderInv, NEW c \in Clients, SendRequest(c)
  PROVE  OrderInv'
<1>1. /\ pc[c] = "SND_MSGQT" /\ q' = Append(q, ask[c]) /\ out' = out /\ ask' = ask /\ ret' = ret
      /\ pc'[c] # "SND_MSGQT" /\ \A d \in Clients : d # c => pc'[d] = pc[d]
  BY DEF SendRequest, Goto, TypeOK, daemonVars
<1>2. q \in Seq(Mails) /\ ask[c] \in Mails
  BY CallsTyped DEF TypeOK
<1>3. MailOK(c) /\ IsRequest(ask[c])
  BY <1>1, MailsAre DEF OrderInv, MailOK
<1>4. Range(q') = Range(q) \cup {ask[c]}
  BY <1>1, <1>2, Appended
<1>5. \A m \in InFlight : Older(m, ask[c])
  BY <1>1, <1>3, MailsAre, FlightTyped DEF OrderInv, MailOK, FlightOK, Older
<1>6. Lane(q')
  BY <1>1, <1>2, <1>3, <1>5, AppendInOrder, InOrderIs DEF OrderInv, InFlight
<1>7. \A a \in Range(out) : Between(q', a)
  BY <1>3, <1>4, <1>5, InOrderIs DEF OrderInv, InFlight, Between
<1>8. QueueInOrder'
  BY <1>1, <1>6, <1>7 DEF QueueInOrder, Lane, Between
<1>9. \A d \in Clients : MailOK(d)'
  BY <1>1, MailsAre DEF OrderInv, MailOK
<1>10. ASSUME NEW m \in InFlight' PROVE FlightOK(m)'
  <2>1. CASE m \in InFlight
    BY <1>1, <2>1, MailsAre, FlightTyped DEF OrderInv, FlightOK
  <2>2. CASE m = ask[c]
    BY <1>1, <1>3, <2>2, CallsTyped DEF MailOK, FlightOK
  <2> QED BY <1>1, <1>4, <2>1, <2>2 DEF InFlight
<1> QED BY <1>8, <1>9, <1>10 DEF OrderInv, MailsInOrder, MailOK, FlightOK

LEMMA TakeOrder ==
  ASSUME TypeOK, OrderInv, NEW c \in Clients, TakeAnswer(c)
  PROVE  /\ OrderInv'
         /\ ret'[c].who = c /\ ret[c].call < ret'[c].call
         /\ \A d \in Clients : d # c => ret'[d] = ret[d]
<1>1. PICK i : First(i, c) /\ Removed(q', q, i) /\ q[i] \in Mails /\ ret' = [ret EXCEPT ![c] = q[i]]
  BY Taken
<1>2. /\ out' = out /\ ask' = ask /\ ret'[c] = q[i]
      /\ pc'[c] # "SND_MSGQT"
      /\ \A d \in Clients : d # c => ret'[d] = ret[d] /\ pc'[d] = pc[d]
  BY <1>1 DEF TakeAnswer, Goto, TypeOK, daemonVars
<1>3. /\ q[i] \in Range(q) /\ q[i] \in InFlight /\ q[i].mtype = c
      /\ \A m \in Range(q') : m.mtype = c => Older(q[i], m)
  BY <1>1, FirstInOrder DEF OrderInv, InFlight, First
<1>4. ~ IsRequest(q[i]) /\ q[i].who = c
  BY <1>3, UserAssumption DEF OrderInv, QueueInOrder, IsRequest
<1>5. Range(q') \subseteq Range(q) /\ Lane(q')
  <2>1. q \in Seq(Mails) /\ i \in 1..Len(q)
    BY <1>1 DEF TypeOK, First
  <2> QED BY <1>1, <2>1, StillThere, RemovedInOrder, InOrderIs DEF OrderInv
<1>6. InFlight' \subseteq InFlight
  BY <1>2, <1>5 DEF InFlight
<1>7. ASSUME NEW m \in InFlight' PROVE Older(q[i], m)
  <2>1. CASE m \in Range(q')
    <3>1. CASE IsRequest(m)
      BY <1>3, <1>4, <1>5, <2>1, <3>1 DEF OrderInv, QueueInOrder
    <3>2. CASE ~ IsRequest(m)
      <4>1. m.mtype = m.who
        BY <2>1, <3>2, <1>5 DEF OrderInv, QueueInOrder
      <4> QED BY <1>3, <1>4, <2>1, <4>1 DEF Older
    <3> QED BY <3>1, <3>2
  <2>2. CASE m \in Range(out)
    BY <1>3, <1>4, <2>2 DEF OrderInv, QueueInOrder
  <2> QED BY <1>2, <2>1, <2>2 DEF InFlight
<1>8. QueueInOrder'
  BY <1>2, <1>5, InOrderIs DEF OrderInv, QueueInOrder, Lane, Between
<1>9. FlightOK(q[i])
  BY <1>3, MailsAre DEF OrderInv
<1>10. ASSUME NEW d \in Clients PROVE MailOK(d)'
  BY <1>2, <1>4, <1>9, MailsAre DEF OrderInv, MailOK, FlightOK
<1>11. ASSUME NEW m \in InFlight' PROVE FlightOK(m)'
  <2>1. FlightOK(m) /\ m.who \in Clients
    BY <1>6, MailsAre, FlightTyped DEF OrderInv
  <2>2. CASE m.who # c
    BY <1>2, <2>1, <2>2 DEF FlightOK
  <2>3. CASE m.who = c
    BY <1>2, <1>4, <1>7, <2>1, <2>3 DEF FlightOK, Older
  <2> QED BY <2>2, <2>3
<1>12. OrderInv'
  BY <1>8, <1>10, <1>11 DEF OrderInv, MailsInOrder, MailOK, FlightOK
<1> QED BY <1>2, <1>4, <1>9, <1>12 DEF FlightOK

LEMMA ServeOrder ==
  ASSUME TypeOK, OrderInv, HouseKeep
  PROVE  OrderInv'
<1>1. PICK i : /\ First(i, IPC_DEF_USR) /\ Removed(q', q, i)
               /\ q[i] \in Mails
               /\ \/ out' = <<>>
                  \/ \E a : Answers(a, q[i]) /\ out' = <<a>>
  BY Served DEF Drop
<1>2. out = <<>> /\ ask' = ask /\ ret' = ret /\ pc' = pc
  BY DEF HouseKeep, clientVars
<1>3. /\ q[i] \in Range(q) /\ q[i] \in InFlight /\ IsRequest(q[i])
      /\ \A m \in Range(q') : IsRequest(m) => Older(q[i], m)
  BY <1>1, FirstInOrder DEF OrderInv, InFlight, First, IsRequest
<1>4. Range(q') \subseteq Range(q) /\ Lane(q')
  <2>1. q \in Seq(Mails) /\ i \in 1..Len(q)
    BY <1>1 DEF TypeOK, First
  <2> QED BY <1>1, <2>1, StillThere, RemovedInOrder, InOrderIs DEF OrderInv
<1>5. \A a \in Range(out') : Answers(a, q[i])
  <2>1. Range(<<>>) = {} /\ \A a : Range(<<a>>) = {a}
    BY DEF Range
  <2> QED BY <1>1, <2>1
<1>6. ASSUME NEW a \in Range(out') PROVE Between(q', a)
  <2>1. Answers(a, q[i])
    BY <1>5
  <2>2. \A m \in Range(q') : IF IsRequest(m) THEN Older(q[i], m) ELSE Older(m, q[i])
    BY <1>3, <1>4 DEF OrderInv, QueueInOrder
  <2> QED BY <2>1, <2>2 DEF Between, Answers, Older
<1>7. QueueInOrder'
  BY <1>4, <1>6 DEF QueueInOrder, Lane, Between
<1>8. ASSUME NEW m \in InFlight' PROVE FlightOK(m)'
  <2>1. CASE m \in Range(q')
    BY <1>2, <1>4, <2>1, MailsAre DEF OrderInv, FlightOK, InFlight
  <2>2. CASE m \in Range(out')
    BY <1>2, <1>3, <1>5, <2>2, MailsAre DEF OrderInv, FlightOK, Answers
  <2> QED BY <2>1, <2>2 DEF InFlight
<1>9. \A c \in Clients : MailOK(c)'
  BY <1>2, MailsAre DEF OrderInv, MailOK
<1> QED BY <1>7, <1>8, <1>9 DEF OrderInv, MailsInOrder, MailOK, FlightOK

LEMMA OneAnswer ==
  ASSUME TypeOK, SendAnswer
  PROVE  \E a \in Mails : out = <<a>> /\ Range(out) = {a} /\ q' = Append(q, a)
<1>1. out \in Seq(Mails) /\ Len(out) = 1
  <2>1. out \in Seq(Mails) /\ out # <<>> /\ Len(out) <= 1
    BY DEF TypeOK, SendAnswer
  <2>2. Len(out) \in Nat \ {0}
    BY <2>1, EmptySeq
  <2>3. \A n \in Nat \ {0} : n <= 1 => n = 1
    OBVIOUS
  <2>4. Len(out) = 1
    BY <2>1, <2>2, <2>3, Zenon
  <2> QED BY <2>1, <2>4
<1>2. out[1] \in Mails /\ out = <<out[1]>>
  BY <1>1
<1>3. Range(<<out[1]>>) = {out[1]}
  BY DEF Range
<1>4. q' = Append(q, out[1])
  BY <1>2, Appended DEF SendAnswer, TypeOK
<1> QED BY <1>2, <1>3, <1>4

LEMMA SendAnswerOrder ==
  ASSUME TypeOK, OrderInv, SendAnswer
  PROVE  OrderInv' /\ InFlight' = InFlight
<1>1. PICK a \in Mails : out = <<a>> /\ Range(out) = {a} /\ q' = Append(q, a)
  BY OneAnswer
<1>2. out' = <<>> /\ ask' = ask /\ ret' = ret /\ pc' = pc
  BY DEF SendAnswer, clientVars
<1>3. Range(q') = Range(q) \cup {a} /\ Range(out') = {}
  <2>1. q \in Seq(Mails) /\ Range(<<>>) = {}
    BY DEF TypeOK, Range
  <2> QED BY <1>1, <1>2, <2>1, Appended
<1>4. Between(q, a) /\ ~ IsRequest(a)
  <2>1. a.who \in Clients
    BY MailFields
  <2> QED BY <1>1, <2>1, InOrderIs, UserAssumption DEF OrderInv, Between, IsRequest
<1>5. Lane(q')
  BY <1>1, <1>4, AppendInOrder, InOrderIs DEF OrderInv, TypeOK
<1>6. QueueInOrder'
  BY <1>3, <1>5 DEF QueueInOrder, Lane, Between
<1>7. InFlight' = InFlight
  BY <1>1, <1>3 DEF InFlight
<1> QED BY <1>2, <1>6, <1>7 DEF OrderInv, MailsInOrder

LEMMA OrderStep ==
  ASSUME TypeOK, OrderInv, [Next]_vars
  PROVE  OrderInv'
<1>1. ASSUME NEW c \in Clients, CallRecv(c) \/ EnterReceive(c) \/ Alarm(c) \/ FinishCall(c)
      PROVE  OrderInv'
  <2>1. UNCHANGED <<q, out, ask, ret>>
    BY <1>1 DEF CallRecv, EnterReceive, Alarm, FinishCall, daemonVars
  <2>2. \A d \in Clients : pc'[d] = "SND_MSGQT" => pc[d] = "SND_MSGQT"
    BY <1>1 DEF CallRecv, EnterReceive, Alarm, FinishCall, Goto, TypeOK
  <2> QED BY <2>1, <2>2, QuietOrder
<1>2. CASE UNCHANGED vars
  BY <1>2, QuietOrder DEF vars
<1> QED BY <1>1, <1>2, CallOrder, SendRequestOrder, TakeOrder, ServeOrder, SendAnswerOrder
        DEF Next, Daemon, Client

-----------------------------------------------------------------------------
(***************************************************************************)
(* What becomes of every call                                              *)
(***************************************************************************)
\* The calls that are on the way are among those sent and not answered yet.
LEMMA WayBounds ==
  ASSUME TypeOK, OrderInv, NEW m \in InFlight
  PROVE  /\ m.who \in Clients /\ m.call \in Nat
         /\ m.call \in ret[m.who].call + 1..Sent(m.who)
<1>1. m.who \in Clients /\ m.call \in Nat /\ FlightOK(m)
  BY FlightTyped, MailsAre DEF OrderInv
<1>2. ask[m.who].call \in Nat /\ ret[m.who].call \in Nat
  BY <1>1, CallsTyped
<1> QED BY <1>1, <1>2 DEF FlightOK, Sent

\* A client's step, seen by the messages in flight.
LEMMA ClientFlight ==
  ASSUME TypeOK, NEW d \in Clients, Client(d)
  PROVE  \/ SendRequest(d) /\ InFlight' = InFlight \cup {ask[d]}
         \/ ~ SendRequest(d) /\ InFlight' \subseteq InFlight
<1>1. CASE SendRequest(d)
  <2>1. q' = Append(q, ask[d]) /\ out' = out /\ q \in Seq(Mails) /\ ask[d] \in Mails
    BY <1>1, CallsTyped DEF SendRequest, daemonVars, TypeOK
  <2> QED BY <1>1, <2>1, Appended DEF InFlight
<1>2. CASE TakeAnswer(d)
  <2>1. PICK i : First(i, d) /\ Removed(q', q, i)
    BY <1>2, Taken
  <2>2. q \in Seq(Mails) /\ i \in 1..Len(q) /\ out' = out
    BY <1>2, <2>1 DEF TypeOK, First, TakeAnswer, daemonVars
  <2>3. Range(q') \subseteq Range(q)
    BY <2>1, <2>2, StillThere
  <2>4. ~ SendRequest(d)
    BY <1>2 DEF TakeAnswer, SendRequest
  <2> QED BY <2>2, <2>3, <2>4 DEF InFlight
<1>3. CASE q' = q /\ out' = out
  BY <1>1, <1>3 DEF InFlight
<1> QED BY <1>1, <1>2, <1>3 DEF Client, Call, CallRecv, EnterReceive, Alarm, FinishCall, daemonVars

\* Nothing that counts has changed.
LEMMA QuietCount ==
  ASSUME TypeOK, CountInv, errors' = errors, ret' = ret, InFlight' = InFlight,
         \A c \in Clients : Sent(c)' = Sent(c)
  PROVE  CountInv'
<1>1. ErrorsSent'
  BY DEF CountInv, ErrorsSent, TypeOK
<1>2. CallsAccounted'
  BY DEF CountInv, CallsAccounted
<1> QED BY <1>1, <1>2 DEF CountInv

LEMMA SendRequestCount ==
  ASSUME TypeOK, OrderInv, CountInv, NEW c \in Clients, SendRequest(c)
  PROVE  CountInv'
<1>1. /\ pc[c] = "SND_MSGQT" /\ pc'[c] # "SND_MSGQT" /\ ask' = ask /\ ret' = ret
      /\ errors' = errors /\ \A d \in Clients : d # c => pc'[d] = pc[d]
  BY DEF SendRequest, Goto, TypeOK, daemonVars
<1>2. InFlight' = InFlight \cup {ask[c]}
  BY ClientFlight DEF Client
<1>3. ask[c].who = c /\ ask[c].call \in Nat
  BY MailsAre, CallsTyped DEF OrderInv, MailOK
<1>4. /\ Sent(c)' = ask[c].call /\ Sent(c) = ask[c].call - 1
      /\ \A d \in Clients : d # c => Sent(d)' = Sent(d)
  BY <1>1 DEF Sent
<1>5. ErrorsSent'
  <2>1. ASSUME NEW e \in errors PROVE e[2] <= Sent(e[1])'
    <3>1. e[1] \in Clients /\ e[2] \in Nat /\ e[2] <= Sent(e[1])
      BY DEF TypeOK, CountInv, ErrorsSent
    <3> QED BY <1>3, <1>4, <3>1
  <2> QED BY <1>1, <2>1 DEF ErrorsSent
<1>6. ASSUME NEW d \in Clients, NEW n \in ret[d].call + 1..Sent(d)'
      PROVE  <<d, n>> \in errors <=> ~ (\E m \in InFlight' : m.who = d /\ m.call = n)
  <2>1. CASE d # c
    BY <1>2, <1>3, <1>4, <1>6, <2>1 DEF CountInv, CallsAccounted
  <2>2. CASE d = c /\ n # ask[c].call
    <3>1. n \in ret[d].call + 1..Sent(d)
      BY <1>3, <1>4, <1>6, <2>2, CallsTyped
    <3> QED BY <1>2, <2>2, <3>1 DEF CountInv, CallsAccounted
  <2>3. CASE d = c /\ n = ask[c].call
    <3>1. <<c, n>> \notin errors
      <4>1. \A e \in errors : e[2] <= Sent(e[1])
        BY DEF CountInv, ErrorsSent
      <4>2. ~ (n <= Sent(c))
        BY <1>3, <1>4, <2>3
      <4> QED BY <4>1, <4>2
    <3> QED BY <1>2, <1>3, <2>3, <3>1
  <2> QED BY <2>1, <2>2, <2>3
<1>7. CallsAccounted'
  BY <1>1, <1>6 DEF CallsAccounted
<1> QED BY <1>5, <1>7 DEF CountInv

\* A client takes the oldest of what is on the way to it, and leaves the rest.
LEMMA TakenFlight ==
  ASSUME TypeOK, OrderInv, NEW c \in Clients, TakeAnswer(c)
  PROVE  /\ ret'[c] \in InFlight /\ ~ IsRequest(ret'[c]) /\ ret'[c].who = c
         /\ InFlight' \subseteq InFlight /\ InFlight \subseteq InFlight' \cup {ret'[c]}
         /\ \A m \in InFlight' : m.who = c => ret'[c].call < m.call
<1>1. PICK i : First(i, c) /\ Removed(q', q, i) /\ ret' = [ret EXCEPT ![c] = q[i]]
  BY Taken
<1>2. q \in Seq(Mails) /\ i \in 1..Len(q) /\ q[i].mtype = c /\ out' = out /\ ret'[c] = q[i]
  BY <1>1 DEF TypeOK, First, TakeAnswer, daemonVars
<1>3. Range(q') \subseteq Range(q) /\ Range(q) \subseteq Range(q') \cup {q[i]} /\ q[i] \in Range(q)
  BY <1>1, <1>2, StillThere, FirstInOrder DEF OrderInv
<1>4. ~ IsRequest(q[i]) /\ ret'[c].who = c
  BY <1>2, UserAssumption, TakeOrder DEF IsRequest
<1>5. \A m \in InFlight' : m.who = c => ret'[c].call < m.call
  BY TakeOrder DEF OrderInv, MailsInOrder
<1> QED BY <1>2, <1>3, <1>4, <1>5 DEF InFlight

LEMMA TakeCount ==
  ASSUME TypeOK, OrderInv, CountInv, NEW c \in Clients, TakeAnswer(c)
  PROVE  CountInv'
<1>1. /\ ask' = ask /\ errors' = errors /\ pc[c] = "msgrcv" /\ pc'[c] = "received"
      /\ \A d \in Clients : d # c => pc'[d] = pc[d]
  BY DEF TakeAnswer, Goto, TypeOK, daemonVars
<1>2. \A d \in Clients : Sent(d)' = Sent(d)
  BY <1>1 DEF Sent
<1>3. ErrorsSent'
  BY <1>1, <1>2 DEF CountInv, ErrorsSent, TypeOK
<1>4. ASSUME NEW d \in Clients, NEW n \in ret'[d].call + 1..Sent(d)
      PROVE  <<d, n>> \in errors <=> ~ (\E m \in InFlight' : m.who = d /\ m.call = n)
  <2>1. ret[d].call \in Nat /\ Sent(d) \in Int
    BY CallsTyped DEF Sent
  <2>2. CASE d # c
    <3>1. ret'[d] = ret[d] /\ ret'[c].who = c
      BY <2>2, TakeOrder
    <3>2. <<d, n>> \in errors <=> ~ (\E m \in InFlight : m.who = d /\ m.call = n)
      BY <1>4, <3>1 DEF CountInv, CallsAccounted
    <3> QED BY <2>2, <3>1, <3>2, TakenFlight
  <2>3. CASE d = c
    <3>1. ret'[c].call \in Nat /\ ret[c].call < ret'[c].call
      BY TakenFlight, FlightTyped, TakeOrder
    <3>2. n \in ret[d].call + 1..Sent(d) /\ n # ret'[c].call
      BY <1>4, <2>1, <2>3, <3>1
    <3>3. <<d, n>> \in errors <=> ~ (\E m \in InFlight : m.who = d /\ m.call = n)
      BY <3>2 DEF CountInv, CallsAccounted
    <3> QED BY <3>2, <3>3, TakenFlight
  <2> QED BY <2>2, <2>3
<1>5. CallsAccounted'
  BY <1>1, <1>2, <1>4 DEF CallsAccounted
<1> QED BY <1>3, <1>5 DEF CountInv

\* The daemon turns the oldest request of its client into an answer, or into an error.
LEMMA ServedFlight ==
  ASSUME TypeOK, OrderInv, HouseKeep
  PROVE  \E r \in InFlight :
           /\ IsRequest(r) /\ r \in Mails /\ Handled(r)
           /\ \A m \in InFlight : m.who = r.who /\ m.call = r.call => m = r
           /\ \A m \in InFlight : m.who = r.who /\ IsRequest(m) => r.call <= m.call
           /\ \/ Drop(r) /\ InFlight' = InFlight \ {r}
              \/ \E a : /\ Answers(a, r) /\ ~ IsRequest(a)
                       /\ out' = <<a>> /\ errors' = errors
                       /\ InFlight' = (InFlight \ {r}) \cup {a}
<1>1. PICK i : /\ First(i, IPC_DEF_USR) /\ Removed(q', q, i)
               /\ q[i] \in Mails
               /\ Handled(q[i])
               /\ \/ Drop(q[i])
                  \/ \E a : Answers(a, q[i]) /\ out' = <<a>> /\ errors' = errors
  BY Served
<1> DEFINE r == q[i]
<1>2. /\ r \in Range(q) /\ IsRequest(r)
      /\ \A m \in Range(q') : IsRequest(m) => Older(r, m)
  BY <1>1, FirstInOrder DEF OrderInv, First, IsRequest
<1>3. Range(q') \subseteq Range(q) /\ Range(q) \subseteq Range(q') \cup {r}
  <2>1. q \in Seq(Mails) /\ i \in 1..Len(q)
    BY <1>1 DEF TypeOK, First
  <2> QED BY <1>1, <2>1, StillThere
<1> HIDE DEF r
<1>4. out = <<>> /\ Range(<<>>) = {} /\ \A a : Range(<<a>>) = {a}
  BY DEF HouseKeep, Range
<1>5. InFlight = Range(q)
  BY <1>4 DEF InFlight
<1>6. r.call \in Nat /\ r.who \in Clients /\ r \in Mails
  BY <1>2, <1>5, FlightTyped
<1>7. ASSUME NEW m \in Range(q'), m.who = r.who
      PROVE  m.call # r.call /\ (IsRequest(m) => r.call <= m.call)
  <2>1. m.call \in Nat
    BY <1>3, <1>5, FlightTyped
  <2>2. IF IsRequest(m) THEN Older(r, m) ELSE Older(m, r)
    BY <1>2, <1>3 DEF OrderInv, QueueInOrder
  <2> QED BY <1>6, <1>7, <2>1, <2>2 DEF Older
<1>8. Range(q') = InFlight \ {r}
  BY <1>3, <1>5, <1>7
<1>9. /\ \A m \in InFlight : m.who = r.who /\ m.call = r.call => m = r
      /\ \A m \in InFlight : m.who = r.who /\ IsRequest(m) => r.call <= m.call
  BY <1>6, <1>7, <1>8
<1>10. Drop(r) => InFlight' = InFlight \ {r}
  BY <1>4, <1>8 DEF Drop, InFlight
<1>11. ASSUME NEW a, Answers(a, r), out' = <<a>>
       PROVE  ~ IsRequest(a) /\ InFlight' = (InFlight \ {r}) \cup {a}
  BY <1>4, <1>6, <1>8, <1>11, UserAssumption DEF InFlight, Answers, IsRequest
<1>12. /\ Handled(r)
       /\ \/ Drop(r)
          \/ \E a : Answers(a, r) /\ out' = <<a>> /\ errors' = errors
  BY <1>1 DEF r
<1>13. r \in InFlight
  BY <1>2, <1>5
<1> QED BY <1>2, <1>6, <1>9, <1>10, <1>11, <1>12, <1>13

LEMMA ServeCount ==
  ASSUME TypeOK, OrderInv, CountInv, HouseKeep
  PROVE  CountInv'
<1>1. PICK r \in InFlight :
        /\ \A m \in InFlight : m.who = r.who /\ m.call = r.call => m = r
        /\ \/ Drop(r) /\ InFlight' = InFlight \ {r}
           \/ \E a : /\ Answers(a, r) /\ errors' = errors
                    /\ InFlight' = (InFlight \ {r}) \cup {a}
  BY ServedFlight
<1>2. UNCHANGED clientVars
  BY DEF HouseKeep
<1>3. ret' = ret /\ \A d \in Clients : Sent(d)' = Sent(d)
  BY <1>2 DEF Sent, clientVars
<1>4. r.who \in Clients /\ r.call \in Nat /\ r.call \in ret[r.who].call + 1..Sent(r.who)
  BY WayBounds
<1>5. r.call <= Sent(r.who)
  BY <1>4, CallsTyped DEF Sent
<1>6. <<r.who, r.call>> \notin errors
  BY <1>4 DEF CountInv, CallsAccounted
<1>7. CASE Drop(r) /\ InFlight' = InFlight \ {r}
  <2>1. errors' = errors \cup {<<r.who, r.call>>}
    BY <1>7 DEF Drop
  <2>2. ErrorsSent'
    BY <1>3, <1>4, <1>5, <2>1 DEF CountInv, ErrorsSent, TypeOK
  <2>3. ASSUME NEW d \in Clients, NEW n \in ret[d].call + 1..Sent(d)
        PROVE  <<d, n>> \in errors' <=> ~ (\E m \in InFlight' : m.who = d /\ m.call = n)
    <3>1. <<d, n>> \in errors <=> ~ (\E m \in InFlight : m.who = d /\ m.call = n)
      BY <2>3 DEF CountInv, CallsAccounted
    <3>2. CASE d = r.who /\ n = r.call
      BY <1>1, <1>7, <2>1, <3>2
    <3>3. CASE ~ (d = r.who /\ n = r.call)
      <4>1. <<d, n>> \in errors' <=> <<d, n>> \in errors
        BY <2>1, <3>3
      <4>2. ASSUME NEW m \in InFlight, m.who = d, m.call = n PROVE m \in InFlight'
        BY <1>7, <3>3, <4>2
      <4>3. (\E m \in InFlight' : m.who = d /\ m.call = n) <=> (\E m \in InFlight : m.who = d /\ m.call = n)
        BY <1>7, <4>2
      <4> QED BY <3>1, <4>1, <4>3
    <3> QED BY <3>2, <3>3
  <2>4. CallsAccounted'
    BY <1>3, <2>3 DEF CallsAccounted
  <2> QED BY <2>2, <2>4 DEF CountInv
<1>8. ASSUME NEW a, Answers(a, r), errors' = errors, InFlight' = (InFlight \ {r}) \cup {a}
      PROVE  CountInv'
  <2>1. \A d, n : (\E m \in InFlight' : m.who = d /\ m.call = n)
                 <=> (\E m \in InFlight : m.who = d /\ m.call = n)
    BY <1>8 DEF Answers
  <2>2. ErrorsSent'
    BY <1>3, <1>8 DEF CountInv, ErrorsSent, TypeOK
  <2>3. ASSUME NEW d \in Clients, NEW n \in ret[d].call + 1..Sent(d)
        PROVE  <<d, n>> \in errors <=> ~ (\E m \in InFlight' : m.who = d /\ m.call = n)
    <3>1. <<d, n>> \in errors <=> ~ (\E m \in InFlight : m.who = d /\ m.call = n)
      BY <2>3 DEF CountInv, CallsAccounted
    <3>2. (\E m \in InFlight' : m.who = d /\ m.call = n) <=> (\E m \in InFlight : m.who = d /\ m.call = n)
      BY <2>1
    <3> HIDE <2>1
    <3> QED BY <3>1, <3>2
  <2>4. CallsAccounted'
    BY <1>3, <1>8, <2>3 DEF CallsAccounted
  <2> QED BY <2>2, <2>4 DEF CountInv
<1> QED BY <1>1, <1>7, <1>8

\* The mail a call makes is not sent yet.
LEMMA CallSent ==
  ASSUME TypeOK, NEW c \in Clients, Call(c)
  PROVE  \A d \in Clients : Sent(d)' = Sent(d)
<1>1. PICK t \in {"REG", "MAP"}, k \in IpcKeys :
        ask' = [ask EXCEPT ![c] = Request(c, t, k, ask[c].call + 1)]
  BY DEF Call
<1>2. /\ ask'[c].call = ask[c].call + 1 /\ ask[c].call \in Nat
      /\ \A d \in Clients : d # c => ask'[d] = ask[d]
  BY <1>1, AskTyped, CallsTyped DEF TypeOK
<1>3. pc[c] = "idle" /\ pc'[c] = "SND_MSGQT" /\ \A d \in Clients : d # c => pc'[d] = pc[d]
  BY DEF Call, Goto, TypeOK
<1> QED BY <1>2, <1>3 DEF Sent

LEMMA CountStep ==
  ASSUME TypeOK, OrderInv, CountInv, [Next]_vars
  PROVE  CountInv'
<1>1. CASE SendAnswer
  BY <1>1, SendAnswerOrder, QuietCount DEF SendAnswer, clientVars, Sent
<1>2. ASSUME NEW c \in Clients, Call(c) PROVE CountInv'
  BY <1>2, CallSent, QuietCount DEF Call, daemonVars, InFlight
<1>3. ASSUME NEW c \in Clients, CallRecv(c) \/ EnterReceive(c) \/ Alarm(c) \/ FinishCall(c)
      PROVE  CountInv'
  <2>1. UNCHANGED <<q, out, errors, ask, ret>>
    BY <1>3 DEF CallRecv, EnterReceive, Alarm, FinishCall, daemonVars
  <2>2. \A d \in Clients : pc'[d] = "SND_MSGQT" <=> pc[d] = "SND_MSGQT"
    BY <1>3 DEF CallRecv, EnterReceive, Alarm, FinishCall, Goto, TypeOK
  <2> QED BY <2>1, <2>2, QuietCount DEF Sent, InFlight
<1>4. CASE UNCHANGED vars
  BY <1>4, QuietCount DEF vars, Sent, InFlight
<1> QED BY <1>1, <1>2, <1>3, <1>4, SendRequestCount, TakeCount, ServeCount
        DEF Next, Daemon, Client

-----------------------------------------------------------------------------
(***************************************************************************)
(* A process that waits for ever                                           *)
(***************************************************************************)
PatientOK(c) ==
  /\ alarm[c] = "off" /\ to[c] = "forever" /\ pc[c] # "RCV_MSGQT"
  /\ \A m \in InFlight :
       m.who = c => pc[c] = "msgrcv" /\ IsAnswerTo(m, ask[c])
  /\ pc[c] = "received" => IsAnswerTo(ret[c], ask[c])
  /\ pc[c] = "idle" /\ ask[c].call > 0 => res[c] = "answer" /\ IsAnswerTo(ret[c], ask[c])

LEMMA PatientAre == PatientWaits <=> \A c \in Patient : PatientOK(c)
BY DEF PatientWaits, PatientOK

\* Nothing happens to it while what is in flight for it stays about the same call.
LEMMA LeftAlone ==
  ASSUME NEW c \in Clients, PatientOK(c),
         pc'[c] = pc[c], ask'[c] = ask[c], to'[c] = to[c], alarm'[c] = alarm[c],
         ret'[c] = ret[c], res'[c] = res[c],
         \A m \in InFlight' : m.who = c =>
           \E n \in InFlight : n.who = c /\ m.call = n.call /\ m.key = n.key
  PROVE  PatientOK(c)'
BY DEF PatientOK, IsAnswerTo

LEMMA DaemonPatient ==
  ASSUME TypeOK, OrderInv, NEW c \in Clients, PatientOK(c), Daemon
  PROVE  PatientOK(c)'
<1>1. UNCHANGED clientVars
  BY DEF Daemon, HouseKeep, SendAnswer
<1>2. CASE SendAnswer
  BY <1>1, <1>2, SendAnswerOrder, LeftAlone DEF clientVars
<1>3. CASE HouseKeep
  <2>1. PICK i : /\ First(i, IPC_DEF_USR) /\ Removed(q', q, i)
                 /\ \/ out' = <<>>
                    \/ \E a : Answers(a, q[i]) /\ out' = <<a>>
    BY <1>3, Served DEF Drop
  <2>2. Range(q') \subseteq Range(q) /\ q[i] \in Range(q)
    <3>1. q \in Seq(Mails) /\ i \in 1..Len(q)
      BY <2>1 DEF TypeOK, First
    <3> QED BY <2>1, <3>1, StillThere, FirstInOrder DEF OrderInv
  <2>3. \A a \in Range(out') : Answers(a, q[i])
    <3>1. Range(<<>>) = {} /\ \A a : Range(<<a>>) = {a}
      BY DEF Range
    <3> QED BY <2>1, <3>1
  <2>4. \A m \in InFlight' : \E n \in InFlight : n.who = m.who /\ m.call = n.call /\ m.key = n.key
    BY <2>2, <2>3 DEF InFlight, Answers
  <2> QED BY <1>1, <2>4, LeftAlone DEF clientVars
<1> QED BY <1>2, <1>3 DEF Daemon

LEMMA OtherPatient ==
  ASSUME TypeOK, OrderInv, NEW c \in Clients, PatientOK(c), NEW d \in Clients, d # c, Client(d)
  PROVE  PatientOK(c)'
<1>1. /\ pc'[c] = pc[c] /\ ask'[c] = ask[c] /\ to'[c] = to[c] /\ alarm'[c] = alarm[c]
      /\ ret'[c] = ret[c] /\ res'[c] = res[c]
  <2>1. CASE TakeAnswer(d)
    BY <2>1, TakeOrder DEF TakeAnswer, Goto, TypeOK
  <2>2. CASE Call(d)
    BY <2>2 DEF Call, Goto, TypeOK
  <2>3. CASE SendRequest(d)
    BY <2>3 DEF SendRequest, Goto, TypeOK
  <2>4. CASE CallRecv(d) \/ EnterReceive(d) \/ Alarm(d) \/ FinishCall(d)
    BY <2>4 DEF CallRecv, EnterReceive, Alarm, FinishCall, Goto, TypeOK
  <2> QED BY <2>1, <2>2, <2>3, <2>4 DEF Client
<1>2. ask[d].who = d
  BY DEF OrderInv, MailsInOrder
<1>3. \A m \in InFlight' : m.who = c => m \in InFlight
  BY <1>2, ClientFlight
<1> QED BY <1>1, <1>3, LeftAlone

LEMMA OwnPatient ==
  ASSUME TypeOK, OrderInv, NEW c \in Patient, PatientOK(c), Client(c)
  PROVE  PatientOK(c)'
<1>1. c \in Clients
  BY PatientAssumption
<1>2. /\ alarm[c] = "off" /\ to[c] = "forever" /\ pc[c] # "RCV_MSGQT"
      /\ \A m \in InFlight : m.who = c => pc[c] = "msgrcv" /\ IsAnswerTo(m, ask[c])
      /\ pc[c] = "received" => IsAnswerTo(ret[c], ask[c])
  BY DEF PatientOK
<1>3. CASE Call(c)
  <2>1. pc[c] = "idle" /\ pc'[c] = "SND_MSGQT" /\ to'[c] = "forever" /\ alarm' = alarm
    BY <1>1, <1>3 DEF Call, Goto, TypeOK
  <2>2. InFlight' \subseteq InFlight
    BY <1>3 DEF Call, daemonVars, InFlight
  <2> QED BY <1>2, <2>1, <2>2 DEF PatientOK
<1>4. CASE SendRequest(c)
  <2>1. /\ pc[c] = "SND_MSGQT" /\ pc'[c] = "msgrcv" /\ to' = to /\ alarm' = alarm /\ ask' = ask
    BY <1>1, <1>2, <1>4 DEF SendRequest, Goto, TypeOK
  <2>2. \A m \in InFlight' : m.who = c => m = ask[c]
    BY <1>1, <1>2, <1>4, <2>1, ClientFlight
  <2> QED BY <1>2, <2>1, <2>2 DEF PatientOK, IsAnswerTo
<1>5. CASE TakeAnswer(c)
  <2>1. PICK i : First(i, c) /\ Removed(q', q, i) /\ ret' = [ret EXCEPT ![c] = q[i]]
    BY <1>1, <1>5, Taken
  <2>2. /\ pc[c] = "msgrcv" /\ pc'[c] = "received" /\ to' = to /\ alarm' = alarm /\ ask' = ask
        /\ ret'[c] = q[i]
    BY <1>1, <1>5, <2>1 DEF TakeAnswer, Goto, TypeOK
  <2>3. q[i] \in InFlight /\ q[i].who = c
    BY <1>1, <1>5, <2>1, <2>2, TakeOrder, FirstInOrder DEF InFlight, OrderInv
  <2>4. IsAnswerTo(ret'[c], ask'[c])
    BY <1>2, <2>2, <2>3
  <2>5. ASSUME NEW m \in InFlight', m.who = c PROVE FALSE
    <3>1. m \in InFlight /\ m.call \in Nat
      BY <1>1, <1>5, ClientFlight, FlightTyped DEF TakeAnswer, SendRequest
    <3>2. m.call = ask[c].call /\ ret'[c].call = ask[c].call
      BY <1>2, <2>2, <2>4, <2>5, <3>1 DEF IsAnswerTo
    <3>3. ret'[c].call < m.call
      BY <1>1, <1>5, <2>5, TakeOrder DEF OrderInv, MailsInOrder
    <3> QED BY <3>1, <3>2, <3>3
  <2> QED BY <1>2, <2>2, <2>4, <2>5 DEF PatientOK
<1>6. CASE FinishCall(c)
  <2>1. /\ pc[c] = "received" /\ pc'[c] = "idle" /\ to' = to /\ alarm'[c] = "off" /\ ask' = ask
        /\ ret' = ret /\ res'[c] = "answer"
    BY <1>1, <1>2, <1>6 DEF FinishCall, Goto, TypeOK
  <2>2. InFlight' = InFlight
    BY <1>6 DEF FinishCall, daemonVars, InFlight
  <2> QED BY <1>2, <2>1, <2>2 DEF PatientOK
<1>7. ~ CallRecv(c) /\ ~ EnterReceive(c) /\ ~ Alarm(c)
  BY <1>2 DEF CallRecv, EnterReceive, Alarm
<1> QED BY <1>3, <1>4, <1>5, <1>6, <1>7 DEF Client

LEMMA PatientStep ==
  ASSUME TypeOK, OrderInv, PatientWaits, [Next]_vars
  PROVE  PatientWaits'
<1>1. ASSUME NEW c \in Patient PROVE PatientOK(c)'
  <2>1. PatientOK(c) /\ c \in Clients
    BY PatientAre, PatientAssumption
  <2>2. CASE UNCHANGED vars
    BY <2>1, <2>2 DEF vars, PatientOK, InFlight
  <2> QED BY <2>1, <2>2, DaemonPatient, OtherPatient, OwnPatient DEF Next
<1> QED BY <1>1 DEF PatientWaits, PatientOK

-----------------------------------------------------------------------------
(***************************************************************************)
(* The service its clients see                                             *)
(***************************************************************************)
Numbers == [c \in Clients |-> Sent(c)]

\* Nothing that the service is made of has changed.
LEMMA SameService ==
  ASSUME tbl' = tbl, queue' = queue, made' = made, errors' = errors, ret' = ret,
         InFlight' = InFlight, \A c \in Clients : Sent(c)' = Sent(c)
  PROVE  UNCHANGED Names!vars
<1>1. QueueNames' = QueueNames
  BY DEF QueueNames, Registered
<1>2. Asked' = Asked /\ Answered' = Answered
  BY DEF Asked, Answered
<1>3. LastTaken' = LastTaken
  BY DEF LastTaken
<1>4. [c \in Clients |-> Sent(c)]' = [c \in Clients |-> Sent(c)]
  OBVIOUS
<1> QED BY <1>1, <1>2, <1>3, <1>4 DEF Names!vars

LEMMA AskRefined ==
  ASSUME TypeOK, OrderInv, NEW c \in Clients, SendRequest(c)
  PROVE  Names!Ask(c, ask[c].type, ask[c].key)
<1>1. /\ pc[c] = "SND_MSGQT" /\ pc'[c] # "SND_MSGQT" /\ ask' = ask
      /\ UNCHANGED <<tbl, queue, made, errors, ret>>
      /\ \A d \in Clients : d # c => pc'[d] = pc[d]
  BY DEF SendRequest, Goto, TypeOK, daemonVars
<1>2. InFlight' = InFlight \cup {ask[c]}
  BY ClientFlight DEF Client
<1>3. ask[c].who = c /\ ask[c].call \in Nat /\ IsRequest(ask[c])
  BY <1>1, MailsAre, CallsTyped DEF OrderInv, MailOK
<1>4. /\ Sent(c)' = ask[c].call /\ Sent(c) = ask[c].call - 1 /\ Sent(c) + 1 = ask[c].call
      /\ \A d \in Clients : d # c => Sent(d)' = Sent(d)
  BY <1>1, <1>3 DEF Sent
<1>5. Asked' = Asked \cup {ServiceCall(ask[c])} /\ Answered' = Answered
  BY <1>2, <1>3 DEF Asked, Answered
<1>6. ServiceCall(ask[c]) = Names!CallOf(c, Sent(c) + 1, ask[c].type, ask[c].key)
  BY <1>3, <1>4 DEF ServiceCall, Names!CallOf
<1>7. QueueNames' = QueueNames /\ LastTaken' = LastTaken
  BY <1>1 DEF QueueNames, Registered, LastTaken
<1>8. Numbers[c] = Sent(c) /\ Numbers' = [Numbers EXCEPT ![c] = Numbers[c] + 1]
  BY <1>3, <1>4 DEF Numbers
<1> QED BY <1>1, <1>5, <1>6, <1>7, <1>8 DEF Names!Ask, Numbers

LEMMA TakeRefined ==
  ASSUME TypeOK, TypeOK', OrderInv, NEW c \in Clients, TakeAnswer(c)
  PROVE  \E a \in Answered : Names!Take(a)
<1> DEFINE r == ret'[c]
           a == ServiceAnswer(r)
<1>1. /\ UNCHANGED <<tbl, queue, made, errors, ask>>
      /\ pc[c] = "msgrcv" /\ pc'[c] = "received" /\ \A d \in Clients : d # c => pc'[d] = pc[d]
  BY DEF TakeAnswer, Goto, TypeOK, daemonVars
<1>2. /\ r \in InFlight /\ ~ IsRequest(r) /\ r.who = c
      /\ InFlight' \subseteq InFlight /\ InFlight \subseteq InFlight' \cup {r}
      /\ \A m \in InFlight' : m.who = c => r.call < m.call
  BY TakenFlight
<1>3. r.call \in Nat /\ ret[c].call < r.call /\ ret[c].call \in Nat
  BY <1>2, FlightTyped, TakeOrder, CallsTyped
<1>4. ret' = [ret EXCEPT ![c] = r]
  BY TakeOrder DEF TypeOK
<1> HIDE DEF r
<1>5. a \in Answered /\ a.who = c /\ a.call = r.call
  BY <1>2 DEF Answered, ServiceAnswer
<1>6. ASSUME NEW m \in InFlight, m # r, m.who = c PROVE r.call < m.call /\ m.call \in Nat
  BY <1>2, <1>6, FlightTyped
<1>7. Names!IsFirst(a, Answered)
  <2>1. ASSUME NEW b \in Answered, b.who = a.who PROVE a.call <= b.call
    <3>1. PICK m \in InFlight : ~ IsRequest(m) /\ b = ServiceAnswer(m)
      BY DEF Answered
    <3>2. m.who = c /\ b.call = m.call
      BY <1>5, <2>1, <3>1 DEF ServiceAnswer
    <3>3. CASE m = r
      BY <1>3, <1>5, <3>2, <3>3
    <3>4. CASE m # r
      BY <1>3, <1>5, <1>6, <3>2, <3>4
    <3> QED BY <3>3, <3>4
  <2> QED BY <1>5, <2>1 DEF Names!IsFirst
<1>8. Asked' = Asked
  BY <1>2 DEF Asked
<1>9. Answered' = Answered \ {a}
  <2>1. ASSUME NEW m \in InFlight' PROVE ServiceAnswer(m) # a
    <3>1. m.who = c => r.call < m.call /\ m.call \in Nat
      BY <1>2, FlightTyped
    <3> QED BY <1>2, <1>3, <1>5, <3>1 DEF ServiceAnswer
  <2> HIDE DEF a
  <2>2. \A m \in InFlight : m \in InFlight' \/ m = r
    BY <1>2
  <2>3. ServiceAnswer(r) = a
    BY DEF a
  <2> QED BY <1>2, <2>1, <2>2, <2>3 DEF Answered
<1>10. LastTaken' = [p \in DOMAIN LastTaken \cup {a.who} |-> IF p = a.who THEN a ELSE LastTaken[p]]
  <2>1. ret'[c].call > 0 /\ ServiceAnswer(ret'[c]) = a
    BY <1>3 DEF r
  <2>2. \A d \in Clients : d # c => ret'[d] = ret[d]
    BY TakeOrder
  <2> HIDE DEF a
  <2>3. {d \in Clients : ret'[d].call > 0} = {d \in Clients : ret[d].call > 0} \cup {c}
    BY <2>1, <2>2
  <2> QED BY <1>5, <2>1, <2>2, <2>3 DEF LastTaken
<1>11. \A d \in Clients : Sent(d)' = Sent(d)
  BY <1>1 DEF Sent
<1>12. QueueNames' = QueueNames /\ [d \in Clients |-> Sent(d)]' = [d \in Clients |-> Sent(d)]
  BY <1>1, <1>11 DEF QueueNames, Registered
<1> HIDE DEF a
<1> QED BY <1>1, <1>5, <1>7, <1>8, <1>9, <1>10, <1>12 DEF Names!Take

\* The table as a mapping.
LEMMA RegisteredIs ==
  \A k : k \in Registered <=> \E j \in DOMAIN tbl : tbl[j].valid /\ tbl[j].key = k
BY DEF Registered

\* No entry is left for a registration only if the key has none.
LEMMA FullTable ==
  ASSUME TypeOK, TableInv, NEW k, RegEntries(k) = {}
  PROVE  k \notin Registered
<1> SUFFICES ASSUME NEW j \in DOMAIN tbl, tbl[j].valid, tbl[j].key = k PROVE FALSE
  BY RegisteredIs
<1>1. DOMAIN tbl = 1..MAX_IPC_NUM
  BY DEF TypeOK
<1>2. ASSUME NEW a \in 1..j - 1 PROVE tbl[a].valid /\ tbl[a].key # k
  <2>1. a \in DOMAIN tbl /\ a < j /\ a # j
    BY <1>1, TableAssumption
  <2> QED BY <2>1 DEF TableInv, NoHoles, OneEntryPerKey
<1> QED BY <1>2 DEF RegEntries

\* A free entry is room for one more key.
LEMMA RoomLeft ==
  ASSUME TypeOK, TableInv, NEW i \in DOMAIN tbl, ~ tbl[i].valid
  PROVE  Cardinality(Registered) < MAX_IPC_NUM
<1> DEFINE T == (1..MAX_IPC_NUM) \ {i}
           f == [k \in Registered |-> CHOOSE j \in DOMAIN tbl : tbl[j].valid /\ tbl[j].key = k]
<1>1. DOMAIN tbl = 1..MAX_IPC_NUM
  BY DEF TypeOK
<1>2. ASSUME NEW k \in Registered PROVE f[k] \in T /\ tbl[f[k]].key = k
  <2>1. f[k] \in DOMAIN tbl /\ tbl[f[k]].valid /\ tbl[f[k]].key = k
    BY RegisteredIs
  <2> QED BY <1>1, <2>1
<1>3. f \in [Registered -> T]
  BY <1>2
<1>4. \A a, b \in Registered : f[a] = f[b] => a = b
  BY <1>2
<1> HIDE DEF f
<1>5. f \in Injection(Registered, T)
  BY <1>3, <1>4 DEF Injection, IsInjective
<1>6. IsFiniteSet(1..MAX_IPC_NUM) /\ Cardinality(1..MAX_IPC_NUM) = MAX_IPC_NUM
  <2>1. 1 \in Int /\ MAX_IPC_NUM \in Int /\ ~ (1 > MAX_IPC_NUM) /\ MAX_IPC_NUM - 1 + 1 = MAX_IPC_NUM
    BY TableAssumption
  <2> QED BY <2>1, FS_Interval
<1>7. IsFiniteSet(T) /\ Cardinality(T) = MAX_IPC_NUM - 1
  BY <1>1, <1>6, FS_RemoveElement
<1> HIDE DEF T
<1>8. IsFiniteSet(Registered) /\ Cardinality(Registered) <= Cardinality(T)
  BY <1>5, <1>7, FS_Injection
<1>9. Cardinality(Registered) \in Nat
  BY <1>8, FS_CardinalityType
<1> QED BY <1>7, <1>8, <1>9, TableAssumption

\* A new queue for a key is its name from now on.
LEMMA NewName ==
  ASSUME TypeOK, NEW m \in Mails, NEW i \in RegEntries(m.key), NewMsgq(m.key, i)
  PROVE  /\ Names!Name(m.key, made)
         /\ tbl'[i].key = m.key /\ tbl'[i].qid = made
<1>1. i \in 1..MAX_IPC_NUM /\ m.key \in IpcKeys /\ (tbl[i].valid => tbl[i].key = m.key)
  BY MailFields DEF RegEntries, TypeOK
<1>2. /\ DOMAIN tbl = 1..MAX_IPC_NUM /\ DOMAIN tbl' = 1..MAX_IPC_NUM
      /\ tbl'[i] = [valid |-> TRUE, key |-> m.key, qid |-> made]
      /\ \A j \in DOMAIN tbl : j # i => tbl'[j] = tbl[j]
      /\ queue'[m.key] = made /\ \A k \in IpcKeys : k # m.key => queue'[k] = queue[k]
  BY <1>1 DEF NewMsgq, TypeOK
<1>3. Registered \subseteq IpcKeys
  BY DEF Registered, TypeOK
<1>4. Registered' = Registered \cup {m.key}
  <2>1. \A k : k \in Registered' <=> \E j \in DOMAIN tbl' : tbl'[j].valid /\ tbl'[j].key = k
    BY DEF Registered
  <2>2. tbl'[i].valid /\ tbl'[i].key = m.key
    BY <1>2
  <2>3. \A k : k \in Registered' <=> k \in Registered \/ k = m.key
    BY <1>1, <1>2, <2>1, <2>2, RegisteredIs
  <2> QED BY <2>3
<1>5. QueueNames' = [j \in Registered \cup {m.key} |-> IF j = m.key THEN made ELSE QueueNames[j]]
  BY <1>2, <1>3, <1>4 DEF QueueNames
<1>6. DOMAIN QueueNames = Registered
  BY DEF QueueNames
<1> QED BY <1>2, <1>5, <1>6 DEF Names!Name

\* A registration that fails once its entry is found.
LEMMA FailedName ==
  ASSUME TypeOK, TableInv, NEW m \in Mails, NEW i \in RegEntries(m.key),
         NEW x, queue' = [queue EXCEPT ![m.key] = x], tbl' = [tbl EXCEPT ![i].qid = x]
  PROVE  IF m.key \in Registered THEN Names!Name(m.key, x) ELSE QueueNames' = QueueNames
<1>1. i \in 1..MAX_IPC_NUM /\ m.key \in IpcKeys
  BY MailFields DEF RegEntries, TypeOK
<1>2. DOMAIN tbl' = DOMAIN tbl /\ \A j \in DOMAIN tbl : tbl'[j].valid = tbl[j].valid /\ tbl'[j].key = tbl[j].key
  <2>1. tbl \in [1..MAX_IPC_NUM -> [valid : BOOLEAN, key : IpcKeys, qid : {NoQueue} \cup Nat]]
    BY DEF TypeOK
  <2>2. tbl'[i] = [tbl[i] EXCEPT !.qid = x]
    BY <1>1, <2>1
  <2>3. tbl'[i].valid = tbl[i].valid /\ tbl'[i].key = tbl[i].key
    BY <1>1, <2>1, <2>2
  <2>4. DOMAIN tbl' = DOMAIN tbl /\ \A j \in DOMAIN tbl : j # i => tbl'[j] = tbl[j]
    BY <2>1
  <2> QED BY <2>3, <2>4
<1>3. Registered' = Registered
  <2>1. \A k : k \in Registered' <=> \E j \in DOMAIN tbl' : tbl'[j].valid /\ tbl'[j].key = k
    BY DEF Registered
  <2>2. \A k : k \in Registered' <=> k \in Registered
    BY <1>2, <2>1, RegisteredIs
  <2> QED BY <2>2
<1>4. Registered \subseteq IpcKeys
  BY DEF Registered, TypeOK
<1>5. queue'[m.key] = x /\ \A k \in IpcKeys : k # m.key => queue'[k] = queue[k]
  BY <1>1 DEF TypeOK
<1>6. DOMAIN QueueNames = Registered
  BY DEF QueueNames
<1>7. CASE m.key \in Registered
  <2>1. QueueNames' = [j \in Registered \cup {m.key} |-> IF j = m.key THEN x ELSE QueueNames[j]]
    BY <1>3, <1>4, <1>5, <1>7 DEF QueueNames
  <2> QED BY <1>6, <1>7, <2>1 DEF Names!Name
<1>8. CASE m.key \notin Registered
  BY <1>3, <1>4, <1>5, <1>8 DEF QueueNames
<1> QED BY <1>7, <1>8

LEMMA KnownIs == \A k : Names!Known(k) <=> k \in Registered
BY DEF Names!Known, QueueNames

LEMMA NotDropped == ASSUME NEW a, out' = <<a>>, NEW m PROVE ~ Drop(m)
BY DEF Drop

LEMMA RegisterRefused ==
  ASSUME TypeOK, TableInv, NEW m \in Mails, Register(m), Drop(m)
  PROVE  \E id \in {NoQueue, made} :
           /\ IF m.key \in Registered THEN Names!Name(m.key, id) ELSE QueueNames' = QueueNames
           /\ made' = IF id = made THEN made + 1 ELSE made
<1>1. NoQueue # made
  BY DEF TypeOK, NoQueue
<1>2. CASE RegEntries(m.key) = {} /\ UNCHANGED <<tbl, queue, made>>
  <2>1. QueueNames' = QueueNames
    BY <1>2 DEF QueueNames, Registered
  <2> QED BY <1>1, <1>2, <2>1, FullTable
<1>3. ASSUME NEW i \in RegEntries(m.key), NoMsgq(m.key, i)
      PROVE  /\ IF m.key \in Registered THEN Names!Name(m.key, NoQueue) ELSE QueueNames' = QueueNames
             /\ made' = made
  BY <1>3, FailedName DEF NoMsgq
<1>4. ASSUME NEW i \in RegEntries(m.key), SmallMsgq(m.key, i)
      PROVE  /\ IF m.key \in Registered THEN Names!Name(m.key, made) ELSE QueueNames' = QueueNames
             /\ made' = made + 1
  BY <1>4, FailedName DEF SmallMsgq
<1>5. \A a : out' # <<a>>
  BY NotDropped
<1> QED BY <1>1, <1>2, <1>3, <1>4, <1>5 DEF Register

LEMMA RegisterAnswered ==
  ASSUME TypeOK, TableInv, NEW m \in Mails, Register(m), NEW a, out' = <<a>>
  PROVE  /\ m.key \in Registered \/ Cardinality(Registered) < MAX_IPC_NUM
         /\ Names!Name(m.key, made) /\ made' = made + 1
         /\ a.qid = made
<1>1. ~ Drop(m)
  BY NotDropped
<1>2. PICK i \in RegEntries(m.key) : NewMsgq(m.key, i) /\ out' = <<Answer(m, tbl'[i])>>
  BY <1>1 DEF Register
<1>3. a = Answer(m, tbl'[i])
  BY <1>2
<1>4. a.qid = made
  BY <1>2, <1>3, NewName DEF Answer, Mail
<1>5. m.key \in Registered \/ Cardinality(Registered) < MAX_IPC_NUM
  <2>1. i \in DOMAIN tbl /\ (tbl[i].valid => tbl[i].key = m.key)
    BY DEF RegEntries
  <2> QED BY <2>1, RegisteredIs, RoomLeft
<1> QED BY <1>2, <1>4, <1>5, NewName DEF NewMsgq

LEMMA MapRefused ==
  ASSUME NEW m, Map(m), Drop(m)
  PROVE  m.key \notin Registered /\ QueueNames' = QueueNames
<1>1. MapEntries(m.key) = {}
  BY NotDropped DEF Map
<1>2. QueueNames' = QueueNames
  BY DEF Map, QueueNames, Registered
<1> QED BY <1>1, <1>2, RegisteredIs DEF MapEntries

LEMMA MapAnswered ==
  ASSUME TableInv, NEW m, Map(m), NEW a, out' = <<a>>
  PROVE  m.key \in Registered /\ QueueNames' = QueueNames /\ a.qid = QueueNames[m.key]
<1>1. PICK i \in MapEntries(m.key) : out' = <<Answer(m, tbl[i])>>
  BY NotDropped DEF Map
<1>2. i \in DOMAIN tbl /\ tbl[i].valid /\ tbl[i].key = m.key
  BY DEF MapEntries
<1>3. m.key \in Registered
  BY <1>2, RegisteredIs
<1>4. tbl[i].qid = QueueNames[m.key]
  BY <1>2, <1>3 DEF TableInv, EntriesCurrent, QueueNames
<1>5. a = Answer(m, tbl[i])
  BY <1>1
<1>6. a.qid = tbl[i].qid
  BY <1>5 DEF Answer, Mail
<1>7. QueueNames' = QueueNames
  BY DEF Map, QueueNames, Registered
<1> QED BY <1>3, <1>4, <1>6, <1>7

\* A turn of the daemon is the service of the oldest call of its client.
LEMMA ServeRefined ==
  ASSUME TypeOK, TableInv, OrderInv, HouseKeep
  PROVE  \E c \in Asked : Names!Serve(c)
<1>1. PICK r \in InFlight :
           /\ IsRequest(r) /\ r \in Mails /\ Handled(r)
           /\ \A m \in InFlight : m.who = r.who /\ m.call = r.call => m = r
           /\ \A m \in InFlight : m.who = r.who /\ IsRequest(m) => r.call <= m.call
           /\ \/ Drop(r) /\ InFlight' = InFlight \ {r}
              \/ \E a : /\ Answers(a, r) /\ ~ IsRequest(a)
                       /\ out' = <<a>> /\ errors' = errors
                       /\ InFlight' = (InFlight \ {r}) \cup {a}
  BY ServedFlight
<1> DEFINE c == ServiceCall(r)
<1>2. /\ c \in Asked
      /\ c.who = r.who /\ c.call = r.call /\ c.type = r.type /\ c.key = r.key
  BY <1>1 DEF Asked, ServiceCall
<1>3. \A m : /\ ServiceCall(m).who = m.who /\ ServiceCall(m).call = m.call
  BY DEF ServiceCall
<1> HIDE DEF c
<1>4. Names!IsFirst(c, Asked)
  <2>1. \A b \in Asked : \E m \in InFlight : IsRequest(m) /\ b = ServiceCall(m)
    BY DEF Asked
  <2> QED BY <1>1, <1>2, <1>3, <2>1 DEF Names!IsFirst
<1>5. ASSUME NEW m \in InFlight, m # r PROVE ServiceCall(m) # c
  BY <1>1, <1>2, <1>3, <1>5
<1>6. c = ServiceCall(r)
  BY DEF c
<1>7. Asked' = Asked \ {c}
  <2>1. \A m : m \in InFlight' /\ IsRequest(m) <=> m \in InFlight \ {r} /\ IsRequest(m)
    BY <1>1
  <2> QED BY <1>1, <1>5, <1>6, <2>1 DEF Asked
<1>8. LastTaken' = LastTaken /\ [d \in Clients |-> Sent(d)]' = [d \in Clients |-> Sent(d)]
  BY DEF HouseKeep, clientVars, LastTaken, Sent
<1>9. CASE Drop(r) /\ InFlight' = InFlight \ {r}
  <2>1. Answered' = Answered
    BY <1>1, <1>9 DEF Answered
  <2>2. Names!Refuse(c)
    BY <1>2, <1>9, <2>1 DEF Drop, Names!Refuse
  <2>3. CASE r.type = "REG" /\ Register(r)
    <3>1. Names!NotRegistered(c)
      BY <1>1, <1>2, <1>9, <2>2, <2>3, RegisterRefused, KnownIs DEF Names!NotRegistered
    <3> QED BY <1>2, <1>4, <1>7, <1>8, <2>3, <3>1 DEF Names!Serve
  <2>4. CASE r.type = "MAP" /\ Map(r)
    <3>1. made' = made
      BY <2>4 DEF Map
    <3>2. Names!Map(c)
      BY <1>2, <1>9, <2>2, <2>4, <3>1, MapRefused, KnownIs DEF Names!Map
    <3> QED BY <1>2, <1>4, <1>7, <1>8, <2>4, <3>2 DEF Names!Serve
  <2> QED BY <1>1, <2>3, <2>4 DEF Handled
<1>10. ASSUME NEW a, Answers(a, r), ~ IsRequest(a), out' = <<a>>, errors' = errors,
              InFlight' = (InFlight \ {r}) \cup {a}
       PROVE  Names!Serve(c)
  <2>1. Answered' = Answered \cup {ServiceAnswer(a)}
    BY <1>1, <1>10 DEF Answered
  <2>2. ServiceAnswer(a) = Names!AnswerTo(c, a.qid)
    BY <1>2, <1>10 DEF ServiceAnswer, Answers, Names!AnswerTo
  <2>3. Names!Answer(c, a.qid)
    BY <1>10, <2>1, <2>2 DEF Names!Answer
  <2>4. CASE r.type = "REG" /\ Register(r)
    <3>1. Names!Register(c)
      <4>1. /\ r.key \in Registered \/ Cardinality(Registered) < MAX_IPC_NUM
            /\ Names!Name(r.key, made) /\ made' = made + 1
            /\ a.qid = made
        BY <1>1, <1>10, <2>4, RegisterAnswered
      <4>2. DOMAIN QueueNames = Registered
        BY DEF QueueNames
      <4>3. Names!Cardinality(Registered) = Cardinality(Registered)
        BY DEF Names!Cardinality, Cardinality
      <4> QED BY <1>2, <2>3, <4>1, <4>2, <4>3, KnownIs DEF Names!Register
    <3> QED BY <1>2, <1>4, <1>7, <1>8, <2>4, <3>1 DEF Names!Serve
  <2>5. CASE r.type = "MAP" /\ Map(r)
    <3>1. made' = made
      BY <2>5 DEF Map
    <3>2. Names!Map(c)
      BY <1>2, <1>10, <2>3, <2>5, <3>1, MapAnswered, KnownIs DEF Names!Map
    <3> QED BY <1>2, <1>4, <1>7, <1>8, <2>5, <3>2 DEF Names!Serve
  <2> QED BY <1>1, <2>4, <2>5 DEF Handled
<1> QED BY <1>1, <1>2, <1>9, <1>10

LEMMA ServiceStep ==
  ASSUME IInv, TypeOK', [Next]_vars
  PROVE  [Names!Next]_(Names!vars)
<1>1. TypeOK /\ TableInv /\ OrderInv
  BY DEF IInv
<1>2. CASE HouseKeep
  BY <1>1, <1>2, ServeRefined DEF Names!Next
<1>3. CASE SendAnswer
  BY <1>1, <1>3, SendAnswerOrder, SameService DEF SendAnswer, clientVars, Sent
<1>4. ASSUME NEW c \in Clients, SendRequest(c) PROVE Names!Next
  <2>1. ask[c].type \in {"REG", "MAP"} /\ ask[c].key \in IpcKeys
    BY <1>1, CallsTyped, MailFields
  <2> QED BY <1>1, <1>4, <2>1, AskRefined DEF Names!Next
<1>5. ASSUME NEW c \in Clients, TakeAnswer(c) PROVE Names!Next
  BY <1>1, <1>5, TakeRefined DEF Names!Next
<1>6. ASSUME NEW c \in Clients, Call(c) PROVE UNCHANGED Names!vars
  <2>1. \A d \in Clients : Sent(d)' = Sent(d)
    BY <1>1, <1>6, CallSent
  <2> QED BY <1>6, <2>1, SameService DEF Call, daemonVars, InFlight
<1>7. ASSUME NEW c \in Clients, CallRecv(c) \/ EnterReceive(c) \/ Alarm(c) \/ FinishCall(c)
      PROVE  UNCHANGED Names!vars
  <2>1. UNCHANGED <<q, daemonVars, ask, ret>>
    BY <1>7 DEF CallRecv, EnterReceive, Alarm, FinishCall, daemonVars
  <2>2. \A d \in Clients : Sent(d)' = Sent(d)
    BY <1>1, <1>7, <2>1 DEF CallRecv, EnterReceive, Alarm, FinishCall, Goto, TypeOK, Sent
  <2> QED BY <2>1, <2>2, SameService DEF daemonVars, InFlight
<1>8. CASE UNCHANGED vars
  BY <1>8, SameService DEF vars, Sent, InFlight
<1> QED BY <1>2, <1>3, <1>4, <1>5, <1>6, <1>7, <1>8 DEF Next, Daemon, Client

LEMMA ServiceInit == Init => Names!Init
<1> SUFFICES ASSUME Init PROVE Names!Init
  OBVIOUS
<1>1. InFlight = {} /\ Registered = {}
  BY DEF Init, InFlight, Range, Registered
<1>2. \A c \in Clients : Sent(c) = 0 /\ ~ (ret[c].call > 0)
  BY DEF Init, NoMail, Mail, Sent
<1>3. Asked = {} /\ Answered = {} /\ QueueNames = [k \in {} |-> NoQueue]
  BY <1>1 DEF Asked, Answered, QueueNames
<1>4. LastTaken = [c \in {} |-> NoQueue]
  <2>1. {d \in Clients : ret[d].call > 0} = {}
    BY <1>2
  <2> QED BY <2>1 DEF LastTaken
<1>5. [c \in Clients |-> Sent(c)] = [c \in Clients |-> 0]
  BY <1>2
<1> QED BY <1>3, <1>4, <1>5 DEF Init, Names!Init

-----------------------------------------------------------------------------
(***************************************************************************)
(* The results                                                             *)
(***************************************************************************)
LEMMA InitInv == Init => IInv
<1> SUFFICES ASSUME Init PROVE IInv
  OBVIOUS
<1>1. TypeOK
  BY InitTyped
<1>2. Range(q) = {} /\ Range(out) = {} /\ DOMAIN q = {} /\ InFlight = {}
  BY DEF Init, Range, InFlight
<1>3. \A i \in DOMAIN tbl : ~ tbl[i].valid
  BY DEF Init
<1>4. \A c \in Clients : ask[c].who = c /\ ret[c].who = c /\ ret[c].call = 0 /\ ask[c].call = 0
  BY DEF Init, NoMail, Mail
<1>5. TableInv
  BY <1>3 DEF TableInv, NoHoles, OneEntryPerKey, EntriesCurrent
<1>6. OrderInv
  BY <1>2, <1>4 DEF OrderInv, QueueInOrder, MailsInOrder, Init
<1>7. CountInv
  <2>1. \A c \in Clients : Sent(c) = 0
    BY <1>4 DEF Sent, Init
  <2>2. CallsAccounted
    BY <1>4, <2>1 DEF CallsAccounted
  <2> QED BY <2>2 DEF CountInv, ErrorsSent, Init
<1>8. PatientWaits
  BY <1>2, <1>4, PatientAssumption DEF PatientWaits, Init
<1> QED BY <1>1, <1>5, <1>6, <1>7, <1>8 DEF IInv

\* The invariant is inductive: whatever the daemon and its clients do, the table
\* has one current entry per key and no holes, the messages of a client stay in
\* the order of its calls, and a process that waits for ever has at most its
\* present call in flight.
THEOREM Invariant == Spec => []IInv
<1>1. IInv /\ [Next]_vars => IInv'
  BY TypeStep, TableStep, OrderStep, CountStep, PatientStep DEF IInv
<1> QED BY <1>1, InitInv, PTL DEF Spec

\* Type correctness, for every capacity of the queue: msgsnd() blocks before the
\* bound is passed, and the daemon sends one answer at a time.
THEOREM TypeCorrect == Spec => []TypeOK
<1>1. IInv => TypeOK
  BY DEF IInv
<1> QED BY <1>1, Invariant, PTL

\* house_keep never has two entries for a key, whatever registrations fail.
THEOREM KeysUnique == Spec => []OneEntryPerKey
<1>1. IInv => OneEntryPerKey
  BY DEF IInv, TableInv
<1> QED BY <1>1, Invariant, PTL

\* The daemon's entry of a key names the queue this key has now, or none.
THEOREM IdsCurrent == Spec => []EntriesCurrent
<1>1. IInv => EntriesCurrent
  BY DEF IInv, TableInv
<1> QED BY <1>1, Invariant, PTL

\* ipc_sendw with no timeout comes back with the answer to its own request, and
\* about the key it asked for, however many processes share the queue.
THEOREM OwnCall == Spec => []AnswersOwnCall
<1>1. IInv => AnswersOwnCall
  BY PatientAssumption DEF IInv, PatientWaits, OrderInv, MailsInOrder, AnswersOwnCall, IsAnswerTo
<1> QED BY <1>1, Invariant, PTL

\* After the last answer a client has taken every call it sent is on its way, or
\* was dropped with an error, and never both: none gets lost and none is served
\* twice, however full the queue is and whoever gives up.
THEOREM NothingLost == Spec => []CallsAccounted
<1>1. IInv => CallsAccounted
  BY DEF IInv, CountInv
<1> QED BY <1>1, Invariant, PTL

\* A client takes answers in the order of its calls and none of them twice, be
\* they late, or to calls it has given up.
THEOREM InOrder == Spec => AnswersInOrder
<1>1. IInv /\ [Next]_vars =>
        [\A c \in Clients :
           ret'[c] # ret[c] => ret'[c].who = c /\ ret'[c].call > ret[c].call]_vars
  <2> SUFFICES ASSUME IInv, Next, NEW c \in Clients, ret'[c] # ret[c]
               PROVE  ret'[c].who = c /\ ret'[c].call > ret[c].call
    OBVIOUS
  <2>1. PICK d \in Clients : TakeAnswer(d)
    BY DEF Next, Daemon, HouseKeep, SendAnswer, Client, Call, CallRecv, SendRequest,
           EnterReceive, Alarm, FinishCall, clientVars
  <2>2. /\ ret'[d].who = d /\ ret[d].call < ret'[d].call
        /\ \A e \in Clients : e # d => ret'[e] = ret[e]
    BY <2>1, TakeOrder DEF IInv
  <2>3. c = d
    BY <2>2
  <2>4. TypeOK /\ TypeOK'
    BY TypeStep DEF IInv
  <2>5. ret[c].call \in Nat /\ ret'[c].call \in Nat
    <3>1. ret[c] \in Mails /\ ret'[c] \in Mails
      BY <2>4 DEF TypeOK
    <3> QED BY <3>1, MailFields
  <2> QED BY <2>2, <2>3, <2>5
<1> QED BY <1>1, Invariant, PTL DEF Spec, AnswersInOrder

\* The daemon, its table and the one queue implement the service: every turn of the
\* daemon serves the oldest call of a client as if it were alone, and nothing the
\* clients do, giving up and late answers included, shows in it.
THEOREM ServiceRefined == Spec => NameSpec
<1>1. Init => Names!Init
  BY ServiceInit
<1>2. IInv /\ IInv' /\ [Next]_vars => [Names!Next]_(Names!vars)
  BY ServiceStep DEF IInv
<1> QED BY <1>1, <1>2, Invariant, PTL DEF Spec, NameSpec, Names!Spec
=============================================================================
