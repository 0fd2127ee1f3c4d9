-------------------------------- MODULE Ipc --------------------------------
(***************************************************************************)
(* The name service of the IPC library (lib/com_util/ipc.c): a daemon,     *)
(* house_keep, which creates a message queue for every key registered with *)
(* it and tells its id to who asks, and the calls its clients make.        *)
(*                                                                         *)
(* Requests and answers go through one bounded queue and are told apart    *)
(* by their mtype: IPC_DEF_USR for the daemon, a process id for a client.  *)
(* A request has no number; "call" stands for its place among the calls of *)
(* its sender, which the program does not know.                            *)
(***************************************************************************)
EXTENDS Integers, Sequences, FiniteSets, SequencesExt

CONSTANTS
  Clients,      \* processes calling ipc_reg, ipc_map, ipc_sendw, ipc_recvw, by their pid
  Patient,      \* those which only call ipc_sendw, and wait for ever (to = 0)
  IpcKeys,      \* the keys of queues
  MAX_IPC_NUM,  \* entries of the daemon's table
  QCap,         \* messages the daemon's queue holds before msgsnd() blocks
  MaxCalls      \* calls made in all (bound)

ASSUME PatientAssumption == Patient \subseteq Clients
ASSUME TableAssumption == MAX_IPC_NUM \in Nat \ {0}
ASSUME CapAssumption == QCap \in Nat \ {0}
ASSUME KeysAssumption == IpcKeys # {}
ASSUME CallsAssumption == MaxCalls \in Nat

VARIABLES
  q,        \* the queue ipc_tbl_msgid
  tbl,      \* the daemon's ipc_tbl
  queue,    \* the id of the queue the kernel has for a key, or NoQueue
  made,     \* queues made so far: ids are not used twice
  out,      \* the answers the daemon is sending: one, or none
  errors,   \* the calls it dropped with an "ipc> error!": <<who, call>>
  pc,       \* where a client is
  ask,      \* its mail
  to,       \* its timeout: "forever", "short" or "none"
  alarm,    \* "off", "set", or "rung": alarm_flag
  ret,      \* the last answer it has taken from the queue
  res       \* the result of its last call: "answer", "ERROR" or 0

daemonVars == <<tbl, queue, made, out, errors>>
clientVars == <<pc, ask, to, alarm, ret, res>>
vars == <<q, tbl, queue, made, out, errors, pc, ask, to, alarm, ret, res>>

IPC_DEF_USR == "IPC_DEF_USR"
\* The number 10 is no process that calls the library: the daemon's type is its own.
ASSUME UserAssumption == IPC_DEF_USR \notin Clients

NoQueue == -1
AnyKey == CHOOSE k \in IpcKeys : TRUE

Mail(m, c, t, k, id, n) ==
  [mtype |-> m, who |-> c, type |-> t, key |-> k, qid |-> id, call |-> n]

Request(c, t, k, n) == Mail(IPC_DEF_USR, c, t, k, NoQueue, n)
NoMail(c) == Mail(c, c, "REG", AnyKey, NoQueue, 0)

\* An answer goes to the process the mail says it is from.
Answer(m, e) == Mail(m.who, m.who, m.type, e.key, e.qid, m.call)

Init ==
  /\ q = <<>>
  /\ tbl = [i \in 1..MAX_IPC_NUM |-> [valid |-> FALSE, key |-> AnyKey, qid |-> NoQueue]]
  /\ queue = [k \in IpcKeys |-> NoQueue]
  /\ made = 0
  /\ out = <<>>
  /\ errors = {}
  /\ pc = [c \in Clients |-> "idle"]
  /\ ask = [c \in Clients |-> NoMail(c)]
  /\ to = [c \in Clients |-> "forever"]
  /\ alarm = [c \in Clients |-> "off"]
  /\ ret = [c \in Clients |-> NoMail(c)]
  /\ res = [c \in Clients |-> "0"]
-----------------------------------------------------------------------------
(***************************************************************************)
(* A client: ipc_sendw and ipc_recvw                                       *)
(***************************************************************************)
Goto(c, s) == pc' = [pc EXCEPT ![c] = s]

CallsMade == FoldFunction(LAMBDA m, sum : m.call + sum, 0, ask)

\* ipc_reg and ipc_map wait for ever; ipc_sendw takes any timeout.
Call(c) ==
  /\ pc[c] = "idle"
  /\ CallsMade < MaxCalls
  /\ \E t \in {"REG", "MAP"}, k \in IpcKeys :
       ask' = [ask EXCEPT ![c] = Request(c, t, k, @.call + 1)]
  /\ \E w \in IF c \in Patient THEN {"forever"} ELSE {"short", "none"} :
       to' = [to EXCEPT ![c] = w]
  /\ Goto(c, "SND_MSGQT")
  /\ UNCHANGED <<q, daemonVars, alarm, ret, res>>

\* ipc_recvw: a wait for an answer that sends nothing.  It may be the answer to a
\* call that did not wait, to one that gave up, or none at all.
CallRecv(c) ==
  /\ pc[c] = "idle"
  /\ c \notin Patient
  /\ \/ /\ to' = [to EXCEPT ![c] = "forever"]
        /\ Goto(c, "msgrcv")
        /\ UNCHANGED alarm
     \/ /\ to' = [to EXCEPT ![c] = "short"]
        /\ alarm' = [alarm EXCEPT ![c] = "set"]
        /\ Goto(c, "RCV_MSGQT")
  /\ UNCHANGED <<q, daemonVars, ask, ret, res>>

\* After the request is sent, and before msgrcv(), the alarm is already set.
SendRequest(c) ==
  /\ pc[c] = "SND_MSGQT"
  /\ Len(q) < QCap
  /\ q' = Append(q, ask[c])
  /\ \/ /\ to[c] = "forever"
        /\ Goto(c, "msgrcv")
        /\ UNCHANGED <<alarm, res>>
     \/ /\ to[c] = "short"
        /\ alarm' = [alarm EXCEPT ![c] = "set"]
        /\ Goto(c, "RCV_MSGQT")
        /\ UNCHANGED res
     \/ /\ to[c] = "none"
        /\ res' = [res EXCEPT ![c] = "0"]
        /\ Goto(c, "idle")
        /\ UNCHANGED alarm
  /\ UNCHANGED <<daemonVars, ask, to, ret>>

EnterReceive(c) ==
  /\ pc[c] = "RCV_MSGQT"
  /\ Goto(c, "msgrcv")
  /\ UNCHANGED <<q, daemonVars, ask, to, alarm, ret, res>>

\* SIGALRM ends a msgrcv() the client is in; elsewhere it only sets the flag.
Alarm(c) ==
  /\ alarm[c] = "set"
  /\ alarm' = [alarm EXCEPT ![c] = "rung"]
  /\ pc' = IF pc[c] = "msgrcv" THEN [pc EXCEPT ![c] = "received"] ELSE pc
  /\ UNCHANGED <<q, daemonVars, ask, to, ret, res>>

\* The first message of type t on the queue, or 0.
FirstOf(t) == SelectInSeq(q, LAMBDA m : m.mtype = t)

TakeAnswer_Any(c) ==
  /\ pc[c] = "msgrcv"
  /\ q # <<>> /\ q[1].mtype # IPC_DEF_USR
  /\ ret' = [ret EXCEPT ![c] = q[1]]
  /\ q' = Tail(q)
  /\ Goto(c, "received")
  /\ UNCHANGED <<daemonVars, ask, to, alarm, res>>

TakeAnswer_Last(c) ==
  /\ pc[c] = "msgrcv"
  /\ \E i \in DOMAIN q :
       /\ q[i].mtype = c /\ \A j \in i + 1..Len(q) : q[j].mtype # c
       /\ ret' = [ret EXCEPT ![c] = q[i]]
       /\ q' = RemoveAt(q, i)
  /\ Goto(c, "received")
  /\ UNCHANGED <<daemonVars, ask, to, alarm, res>>

TakeAnswer(c) ==
  /\ pc[c] = "msgrcv"
  /\ FirstOf(c) # 0
  /\ ret' = [ret EXCEPT ![c] = q[FirstOf(c)]]
  /\ q' = RemoveAt(q, FirstOf(c))
  /\ Goto(c, "received")
  /\ UNCHANGED <<daemonVars, ask, to, alarm, res>>

\* alarm(0); an answer that came as the alarm rang is dropped.
FinishCall(c) ==
  /\ pc[c] = "received"
  /\ res' = [res EXCEPT ![c] = IF alarm[c] = "rung" THEN "ERROR" ELSE "answer"]
  /\ alarm' = [alarm EXCEPT ![c] = "off"]
  /\ Goto(c, "idle")
  /\ UNCHANGED <<q, daemonVars, ask, to, ret>>
-----------------------------------------------------------------------------
(***************************************************************************)
(* The daemon: house_keep                                                  *)
(***************************************************************************)

\* The entry a registration of k uses: the one of k, or the first free one.
RegEntries(k) ==
  {i \in DOMAIN tbl :
     /\ tbl[i].valid => tbl[i].key = k
     /\ \A j \in 1..i - 1 : tbl[j].valid /\ tbl[j].key # k}

MapEntries_Unchecked(k) == {i \in DOMAIN tbl : tbl[i].key = k}

MapEntries(k) == {i \in DOMAIN tbl : tbl[i].valid /\ tbl[i].key = k}

Drop(m) ==
  /\ out' = <<>>
  /\ errors' = errors \cup {<<m.who, m.call>>}

\* GET_MSGQ for entry i: whatever queue the key had is gone.  It may be that no
\* new one can be had; the id is stored in the entry even then.
NoMsgq(k, i) ==
  /\ queue' = [queue EXCEPT ![k] = NoQueue]
  /\ tbl' = [tbl EXCEPT ![i].qid = NoQueue]
  /\ UNCHANGED made

\* A new queue, whose size cannot be changed: an error as well.
SmallMsgq(k, i) ==
  /\ queue' = [queue EXCEPT ![k] = made]
  /\ tbl' = [tbl EXCEPT ![i].qid = made]
  /\ made' = made + 1

NewMsgq(k, i) ==
  /\ queue' = [queue EXCEPT ![k] = made]
  /\ tbl' = [tbl EXCEPT ![i] = [valid |-> TRUE, key |-> k, qid |-> made]]
  /\ made' = made + 1

Register_NoOverwrite(m) ==
  \/ /\ {i \in DOMAIN tbl : ~ tbl[i].valid} = {}
     /\ Drop(m)
     /\ UNCHANGED <<tbl, queue, made>>
  \/ \E i \in DOMAIN tbl :
       /\ ~ tbl[i].valid
       /\ \A j \in 1..i - 1 : tbl[j].valid
       /\ NewMsgq(m.key, i)
       /\ out' = <<Answer(m, tbl'[i])>>
       /\ UNCHANGED errors

Register_KeepsId(m) ==
  \/ /\ RegEntries(m.key) = {}
     /\ Drop(m)
     /\ UNCHANGED <<tbl, queue, made>>
  \/ \E i \in RegEntries(m.key) :
       /\ queue' = [queue EXCEPT ![m.key] = made]
       /\ tbl' = [tbl EXCEPT ![i].valid = TRUE, ![i].key = m.key]
       /\ made' = made + 1
       /\ out' = <<Answer(m, tbl'[i])>>
       /\ UNCHANGED errors

Register_NoAnswer(m) ==
  \/ /\ RegEntries(m.key) = {}
     /\ Drop(m)
     /\ UNCHANGED <<tbl, queue, made>>
  \/ \E i \in RegEntries(m.key) :
       /\ NewMsgq(m.key, i)
       /\ out' = <<>>
       /\ UNCHANGED errors

Register(m) ==
  \/ /\ RegEntries(m.key) = {}
     /\ Drop(m)
     /\ UNCHANGED <<tbl, queue, made>>
  \/ \E i \in RegEntries(m.key) :
       \/ (NoMsgq(m.key, i) \/ SmallMsgq(m.key, i)) /\ Drop(m)
       \/ /\ NewMsgq(m.key, i)
          /\ out' = <<Answer(m, tbl'[i])>>
          /\ UNCHANGED errors

\* A key nobody has registered is not answered.
Map(m) ==
  /\ IF MapEntries(m.key) = {}
     THEN Drop(m)
     ELSE /\ \E i \in MapEntries(m.key) : out' = <<Answer(m, tbl[i])>>
          /\ UNCHANGED errors
  /\ UNCHANGED <<tbl, queue, made>>

HouseKeep ==
  /\ out = <<>>
  /\ FirstOf(IPC_DEF_USR) # 0
  /\ LET m == q[FirstOf(IPC_DEF_USR)] IN
       \/ m.type = "REG" /\ Register(m)
       \/ m.type = "MAP" /\ Map(m)
  /\ q' = RemoveAt(q, FirstOf(IPC_DEF_USR))
  /\ UNCHANGED clientVars

SendAnswer_NoRoom ==
  /\ out # <<>>
  /\ q' = q \o out
  /\ out' = <<>>
  /\ UNCHANGED <<tbl, queue, made, errors, clientVars>>

\* The daemon waits for room like everybody else.
SendAnswer ==
  /\ out # <<>>
  /\ Len(q) < QCap
  /\ q' = q \o out
  /\ out' = <<>>
  /\ UNCHANGED <<tbl, queue, made, errors, clientVars>>
-----------------------------------------------------------------------------
Daemon == HouseKeep \/ SendAnswer

Client(c) ==
  Call(c) \/ CallRecv(c) \/ SendRequest(c) \/ EnterReceive(c) \/ Alarm(c)
  \/ TakeAnswer(c) \/ FinishCall(c)

Next == Daemon \/ \E c \in Clients : Client(c)

Spec == Init /\ [][Next]_vars

\* The daemon and a client in a call keep running, and a process waiting for
\* room in the queue is not passed over for ever; an alarm rings in time.  No
\* client owes a call.
Fairness ==
  /\ WF_vars(HouseKeep)
  /\ SF_vars(SendAnswer)
  /\ \A c \in Clients :
       /\ SF_vars(SendRequest(c))
       /\ WF_vars(EnterReceive(c))
       /\ WF_vars(Alarm(c))
       /\ WF_vars(TakeAnswer(c))
       /\ WF_vars(FinishCall(c))

FairSpec == Spec /\ Fairness
-----------------------------------------------------------------------------
(***************************************************************************)
(* Properties                                                              *)
(***************************************************************************)
Mails ==
  [mtype : Clients \cup {IPC_DEF_USR}, who : Clients, type : {"REG", "MAP"},
   key : IpcKeys, qid : {NoQueue} \cup Nat, call : Nat]

\* Every variable stays in its type, the queue within its bound.
TypeOK ==
  /\ q \in Seq(Mails) /\ Len(q) <= QCap
  /\ tbl \in [1..MAX_IPC_NUM -> [valid : BOOLEAN, key : IpcKeys, qid : {NoQueue} \cup Nat]]
  /\ queue \in [IpcKeys -> {NoQueue} \cup Nat]
  /\ made \in Nat
  /\ out \in Seq(Mails) /\ Len(out) <= 1
  /\ errors \subseteq Clients \X Nat
  /\ pc \in [Clients -> {"idle", "SND_MSGQT", "RCV_MSGQT", "msgrcv", "received"}]
  /\ ask \in [Clients -> Mails]
  /\ to \in [Clients -> {"forever", "short", "none"}]
  /\ alarm \in [Clients -> {"off", "set", "rung"}]
  /\ ret \in [Clients -> Mails]
  /\ res \in [Clients -> {"answer", "ERROR", "0"}]

\* house_keep never has two entries for a key, however registrations, failed
\* ones among them, follow each other: a mapping is never ambiguous.
OneEntryPerKey ==
  \A i, j \in DOMAIN tbl :
    tbl[i].valid /\ tbl[j].valid /\ tbl[i].key = tbl[j].key => i = j

\* An entry names the queue its key has now: the daemon never hands out the id
\* of a queue it has removed, only NoQueue when the last GET_MSGQ got none.
EntriesCurrent ==
  \A i \in DOMAIN tbl : tbl[i].valid => tbl[i].qid = queue[tbl[i].key]

\* A process that waits for ever in each of its calls comes out of a call with
\* the answer to this call, about the key it asked for, and never with one
\* meant for another process or another call.
AnswersOwnCall ==
  \A c \in Patient :
    pc[c] = "idle" /\ ask[c].call > 0 =>
      /\ res[c] = "answer"
      /\ ret[c].who = c
      /\ ret[c].call = ask[c].call
      /\ ret[c].key = ask[c].key

InFlight == Range(q) \cup Range(out)

IsRequest(m) == m.mtype = IPC_DEF_USR

\* The calls of a client whose request has been sent.
Sent(c) == IF pc[c] = "SND_MSGQT" THEN ask[c].call - 1 ELSE ask[c].call

\* No request gets lost between its client, the queue they share, the daemon and
\* back, and none is served twice: after the last answer a client has taken, each
\* of its calls is on its way once, or has been dropped with an error, not both.
CallsAccounted ==
  \A c \in Clients :
    \A n \in ret[c].call + 1..Sent(c) :
      <<c, n>> \in errors <=> ~ (\E m \in InFlight : m.who = c /\ m.call = n)

\* A process that gives up on answers may take an old one for the answer to a
\* later call, but it never takes one twice nor one before an older one.
AnswersInOrder ==
  [][\A c \in Clients :
       ret'[c] # ret[c] => ret'[c].who = c /\ ret'[c].call > ret[c].call]_vars

(***************************************************************************)
(* The inductive invariant these rest on                                   *)
(***************************************************************************)
Older(m, n) == m.who = n.who => m.call < n.call

\* The entries in use are the first ones: no key is behind a free entry.
NoHoles == \A i, j \in DOMAIN tbl : i < j /\ tbl[j].valid => tbl[i].valid

\* The answers of a client on the queue are in the order of its calls, then comes
\* the one being sent, then its requests, in order.
QueueInOrder ==
  /\ \A m \in Range(q) : IsRequest(m) \/ m.mtype = m.who
  /\ \A i, j \in DOMAIN q :
       i < j /\ (IsRequest(q[i]) <=> IsRequest(q[j])) => Older(q[i], q[j])
  /\ \A m, n \in Range(q) : ~ IsRequest(m) /\ IsRequest(n) => Older(m, n)
  /\ \A a \in Range(out) :
       /\ a.mtype = a.who
       /\ \A m \in Range(q) : IF IsRequest(m) THEN Older(a, m) ELSE Older(m, a)

\* A client has taken answers only to calls older than those in flight, and the
\* mail it is about to send is newer than all of these.
MailsInOrder ==
  /\ \A c \in Clients :
       /\ ask[c].who = c /\ ret[c].who = c
       /\ ret[c].call <= ask[c].call
       /\ pc[c] = "SND_MSGQT" => IsRequest(ask[c]) /\ ret[c].call < ask[c].call
  /\ \A m \in InFlight :
       /\ ret[m.who].call < m.call
       /\ m.call <= ask[m.who].call
       /\ pc[m.who] = "SND_MSGQT" => m.call < ask[m.who].call

IsAnswerTo(m, n) == m.call = n.call /\ m.key = n.key

\* A process that waits for ever has a message in flight only while it waits,
\* and this one is about its present call.
PatientWaits ==
  \A c \in Patient :
    /\ alarm[c] = "off" /\ to[c] = "forever" /\ pc[c] # "RCV_MSGQT"
    /\ \A m \in InFlight :
         m.who = c => pc[c] = "msgrcv" /\ IsAnswerTo(m, ask[c])
    /\ pc[c] = "received" => IsAnswerTo(ret[c], ask[c])
    /\ pc[c] = "idle" /\ ask[c].call > 0 => res[c] = "answer" /\ IsAnswerTo(ret[c], ask[c])

\* Only calls that were sent are dropped.
ErrorsSent == \A e \in errors : e[2] <= Sent(e[1])

TableInv == NoHoles /\ OneEntryPerKey /\ EntriesCurrent
OrderInv == QueueInOrder /\ MailsInOrder
CountInv == ErrorsSent /\ CallsAccounted
IInv == TypeOK /\ TableInv /\ OrderInv /\ CountInv /\ PatientWaits

\* However requests and answers of all clients mix on the one queue, the daemon
\* and its clients are a service that serves one call after the other: the queue
\* keeps each client's calls and answers apart and in order, and the table is a
\* mapping of keys that is full when it has MAX_IPC_NUM of them.
Registered == {tbl[i].key : i \in {j \in DOMAIN tbl : tbl[j].valid}}
QueueNames == [k \in Registered |-> queue[k]]

ServiceCall(m) == [who |-> m.who, call |-> m.call, type |-> m.type, key |-> m.key]
ServiceAnswer(m) == [who |-> m.who, call |-> m.call, key |-> m.key, qid |-> m.qid]
Asked == {ServiceCall(m) : m \in {n \in InFlight : IsRequest(n)}}
Answered == {ServiceAnswer(m) : m \in {n \in InFlight : ~ IsRequest(n)}}
LastTaken == [c \in {d \in Clients : ret[d].call > 0} |-> ServiceAnswer(ret[c])]

Names == INSTANCE NameService WITH
  Processes <- Clients,
  Keys <- IpcKeys,
  Capacity <- MAX_IPC_NUM,
  names <- QueueNames,
  given <- made,
  asked <- Asked,
  answers <- Answered,
  refused <- errors,
  last <- [c \in Clients |-> Sent(c)],
  taken <- LastTaken

NameSpec == Names!Spec

\* The queue is full of messages nobody is going to take.
Jammed ==
  /\ Len(q) = QCap
  /\ \A i \in DOMAIN q :
       \/ q[i].mtype = IPC_DEF_USR /\ out # <<>>
       \/ q[i].mtype \in Clients /\ pc[q[i].mtype] \in {"idle", "SND_MSGQT"}

\* ipc_recvw waits for an answer that has been taken already, or none was asked.
NothingToWaitFor(c) == pc[c] = "msgrcv" /\ ret[c].call = ask[c].call

\* A call returns, unless the daemon drops it with an error and no answer, there
\* is nothing left to wait for, or the queue is jammed: these are the only ways to
\* wait for ever.  In the first of them ipc_map never gives the error it has a
\* message for (ipc.c:284), nor is a short wait short if its alarm rang before
\* msgrcv() was entered.
CallsReturn ==
  \A c \in Clients :
    pc[c] # "idle" ~>
      \/ pc[c] = "idle"
      \/ <<c, ask[c].call>> \in errors
      \/ NothingToWaitFor(c)
      \/ Jammed
=============================================================================
