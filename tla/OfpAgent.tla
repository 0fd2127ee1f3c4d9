------------------------------ MODULE OfpAgent ------------------------------
(***************************************************************************)
(* The agent: four processes around one System V message queue.            *)
(*   main    (src/ofpd.c)             takes mails, runs the state machine, *)
(*                                    reconnects when the controller is lost*)
(*   CP child (ofp_sockd_cp)          reads the controller connection      *)
(*   DP child (ofp_sockd_dp)          reads the raw socket                 *)
(*   timer    (os_tmr, see OsTimer)   turns an expiry into a mail          *)
(* and the controller at the other end of the connection, which may send   *)
(* anything in CtrlMsgs, close or reset at any time.                       *)
(*                                                                         *)
(* One mail is one step of main: between msgrcv() and the next msgrcv() it *)
(* meets the other processes only through the queue, the connection and    *)
(* the timer list, and each of those interactions is one step of theirs.   *)
(***************************************************************************)
EXTENDS OfpPort

CONSTANTS
  QCap,       \* mails the queue holds before msgsnd() blocks
  NetCap,     \* messages in flight from the controller
  CtrlMsgs,   \* what the controller may send
  Fragments   \* what the decoder may take part of a message for

ASSUME QCapAssumption == QCap \in Nat \ {0}
ASSUME NetCapAssumption == NetCap \in Nat \ {0}

VARIABLES
  queue,      \* ofpQid, first in first out (every mail has type IPC_DEF_USR)
  net,        \* messages received on the connection, not yet read to their end
  cp,         \* the CP child of the session: "none", "recv" or "closed"
  dp,         \* the DP child, forked once: "none" or "recv"
  procs       \* the live children that die with the session: <<name, session>>

vars == <<mainPc, state, event, sockfd, query_cnt, cpfd, conn, timer, out, tx,
          queue, net, cp, dp, procs>>

envVars == <<queue, net, cp, dp, procs>>

\* OpenFlow messages, as far as OFP_decode_frame tells them apart.  FLOW_MOD:
\* its first action is SET_FIELD and it names a buffered packet.  UNDECODED:
\* any type the decoder has no case for (ERROR, ECHO_REQUEST, SET_CONFIG, ...).
Messages == {"HELLO", "FEATURES_REQUEST", "MULTIPART_REQUEST", "ECHO_REPLY",
             "FLOW_MOD", "FLOW_MOD_OTHER", "PACKET_OUT", "UNDECODED"}

ASSUME CtrlMsgsAssumption == CtrlMsgs \subseteq Messages /\ Fragments \subseteq Messages

\* Messages whose length the peer chooses: one read may exceed a mail.
VarLength == {"FLOW_MOD_OTHER", "PACKET_OUT", "UNDECODED"}

\* A message in the stream; cut when its front has been read.
Unread(m, cut) == [msg |-> m, cut |-> cut]
Stream == [msg : Messages, cut : BOOLEAN]

\* A mail.  sess is msg->sockfd for "CP"; for "TMR" and "FAIL" it records the
\* session the mail belongs to, which the code does not carry.
Mail(type, msg, sess) == [type |-> type, msg |-> msg, sess |-> sess]
CpMail(m) == Mail("CP", m, cpfd)
FailMail == Mail("FAIL", "NONE", cpfd)
DpMail == Mail("DP", "NONE", NoFd)
TmrMail(s) == Mail("TMR", "NONE", s)

Mails == [type : {"CP"}, msg : Messages, sess : Sessions]
         \cup [type : {"FAIL", "TMR"}, msg : {"NONE"}, sess : Sessions]
         \cup {DpMail}
-----------------------------------------------------------------------------
(***************************************************************************)
(* Start-up and reconnection                                               *)
(***************************************************************************)
Init ==
  /\ mainPc = "boot"
  /\ state = "CLOSED"
  /\ event = "E_START"
  /\ sockfd = NoFd
  /\ query_cnt = 0
  /\ cpfd = NoFd
  /\ conn = "none"
  /\ timer = "none"
  /\ out = NoFd
  /\ tx = <<>>
  /\ queue = <<>>
  /\ net = <<>>
  /\ cp = "none"
  /\ dp = "none"
  /\ procs = {}

resetPort_KeepsCount == state' = "CLOSED" /\ UNCHANGED query_cnt
resetPort_KeepsState == query_cnt' = 1 /\ UNCHANGED state

\* event and sockfd are what ofpdInit leaves in the port of its old session.
resetPort ==
  /\ state' = "CLOSED"
  /\ query_cnt' = 1

\* OFP_SOCK_INIT returned 0: a new connection, a new timer task with an empty
\* list, a fresh control block, sleep(1).
ofpdInit ==
  /\ cpfd < MaxFd
  /\ cpfd' = cpfd + 1
  /\ conn' = "up"
  /\ net' = <<>>
  /\ timer' = "idle"
  /\ procs' = procs \cup {<<"tmr", cpfd + 1>>}
  /\ resetPort
  /\ mainPc' = "start"
  /\ tx' = <<>>
  /\ UNCHANGED <<event, sockfd, out, queue, cp, dp>>

BootOk == mainPc = "boot" /\ ofpdInit

BootFail ==
  /\ mainPc = "boot"
  /\ mainPc' = "exited"
  /\ UNCHANGED <<state, event, sockfd, query_cnt, cpfd, conn, timer, out, tx, envVars>>

ReconnectOk == mainPc = "reinit" /\ ofpdInit

\* connect() failed: the socket stays open and is lost.  (An attempt that
\* fails before connect() closes its socket and changes nothing.)
ReconnectFail ==
  /\ mainPc = "reinit"
  /\ cpfd < MaxFd
  /\ cpfd' = cpfd + 1
  /\ UNCHANGED <<mainPc, state, event, sockfd, query_cnt, conn, timer, out, tx, envVars>>

\* fork the CP child (at boot the DP child too) and start the state machine.
Start ==
  /\ mainPc = "start"
  /\ procs' = procs \cup {<<"cp", cpfd>>}
  /\ cp' = "recv"
  /\ dp' = "recv"
  /\ OFP_FSM(cpfd, "E_START")
  /\ UNCHANGED <<event, cpfd, queue, net>>
-----------------------------------------------------------------------------
(***************************************************************************)
(* One turn of the loop of main: ipc_rcv2, then by the type of the mail.   *)
(***************************************************************************)
ipc_rcv2(type) ==
  /\ mainPc = "loop"
  /\ queue # <<>>
  /\ Head(queue).type = type
  /\ queue' = Tail(queue)

RcvTmr ==
  /\ ipc_rcv2("TMR")
  /\ OFP_FSM(sockfd, "E_OFP_TIMEOUT")
  /\ UNCHANGED <<event, cpfd, net, cp, dp, procs>>

\* OFP_decode_frame on a frame of the controller: the event it leaves in the
\* control block.  The default of its switch leaves the one that was there.
DecodedEvent(m, old) ==
  CASE m = "HELLO"             -> "E_RECV_HELLO"
    [] m = "FEATURES_REQUEST"  -> "E_FEATURE_REQUEST"
    [] m = "MULTIPART_REQUEST" -> "E_MULTIPART_REQUEST"
    [] m = "ECHO_REPLY"        -> "E_ECHO_REPLY"
    [] m = "FLOW_MOD"          -> "E_FLOW_MOD"
    [] m = "FLOW_MOD_OTHER"    -> "E_OTHERS"
    [] m = "PACKET_OUT"        -> "E_PACKET_OUT"
    [] m = "UNDECODED"         -> old

RcvCp ==
  /\ ipc_rcv2("CP")
  /\ event' = DecodedEvent(Head(queue).msg, event)
  /\ OFP_FSM(Head(queue).sess, event')
  /\ UNCHANGED <<cpfd, net, cp, dp, procs>>

RcvDp_KeepsEvent ==
  /\ ipc_rcv2("DP")
  /\ OFP_FSM(DpFd, event)
  /\ UNCHANGED <<event, cpfd, net, cp, dp, procs>>

\* OFP_encode_packet_in runs whatever the state; see HostLearn for its list.
RcvDp ==
  /\ ipc_rcv2("DP")
  /\ event' = "E_PACKET_IN"
  /\ OFP_FSM(DpFd, "E_PACKET_IN")
  /\ UNCHANGED <<cpfd, net, cp, dp, procs>>

killSession_OnlyChild ==
  /\ procs' = procs \ {<<"cp", cpfd>>}
  /\ cp' = "none"
  /\ KeepTimer

killSession_OnlyTimer ==
  /\ procs' = procs \ {<<"tmr", cpfd>>}
  /\ timer' = "none"
  /\ out' = NoFd
  /\ UNCHANGED cp

\* kill(tmr_pid), kill(ofp_cp_pid): both are gone before main, which sleeps a
\* second at least, forks their successors.  An expiry being sent dies too.
killSession ==
  /\ procs' = procs \ {<<"tmr", cpfd>>, <<"cp", cpfd>>}
  /\ timer' = "none"
  /\ out' = NoFd
  /\ cp' = "none"

RcvCpFail ==
  /\ ipc_rcv2("FAIL")
  /\ killSession
  /\ sockfd' = NoFd
  /\ conn' = "none"
  /\ net' = <<>>
  /\ mainPc' = "reinit"
  /\ tx' = <<>>
  /\ UNCHANGED <<state, event, query_cnt, cpfd, dp>>

Main == BootOk \/ BootFail \/ ReconnectOk \/ ReconnectFail \/ Start
        \/ RcvTmr \/ RcvCp \/ RcvDp \/ RcvCpFail
-----------------------------------------------------------------------------
(***************************************************************************)
(* The children.  ofp_send2mailbox blocks in msgsnd() when the queue is    *)
(* full; what a child has read and not sent yet is still in net here.      *)
(***************************************************************************)
msgsnd(mail) ==
  /\ Len(queue) < QCap
  /\ queue' = Append(queue, mail)

\* What the decoder finds at the start of a frame that begins with p and ends
\* inside it, or not.  It takes any frame for a message: of a part it reads a type
\* out of the body, or what an earlier mail left behind the frame's end.
Found(p, part) == IF p.cut \/ part THEN Fragments ELSE {p.msg}

\* One recv() returns the first n messages received as one frame, or all but the
\* end of the n-th: the decoder looks at the first header only.  A frame above
\* 1495 bytes is not mailed.  Here a message is cut once at most.
CpRecv ==
  /\ cp = "recv"
  /\ \E n \in 1..Len(net), cut \in BOOLEAN :
       /\ cut => ~ net[n].cut
       /\ net' = (IF cut THEN <<Unread(net[n].msg, TRUE)>> ELSE <<>>)
                 \o SubSeq(net, n + 1, Len(net))
       /\ \/ \E m \in Found(net[1], cut /\ n = 1) : msgsnd(CpMail(m))
          \/ /\ \E i \in 1..n : net[i].msg \in VarLength
             /\ UNCHANGED queue
  /\ UNCHANGED <<portVars, cp, dp, procs>>

CpEof_StaysOpen ==
  /\ cp = "recv"
  /\ net = <<>>
  /\ conn \in {"fin", "probed", "reset", "sigpipe"}
  /\ msgsnd(FailMail)
  /\ UNCHANGED <<portVars, net, cp, dp, procs>>

CpEof_NotMailed ==
  /\ cp = "recv"
  /\ net = <<>>
  /\ conn \in {"fin", "probed", "reset", "sigpipe"}
  /\ cp' = "closed"
  /\ UNCHANGED <<portVars, queue, net, dp, procs>>

\* recv() <= 0, after everything received has been read: close, mail once.
\* The next select() fails (EBADF) and the child does nothing any more.
CpEof ==
  /\ cp = "recv"
  /\ net = <<>>
  /\ conn \in {"fin", "probed", "reset", "sigpipe"}
  /\ msgsnd(FailMail)
  /\ cp' = "closed"
  /\ UNCHANGED <<portVars, net, dp, procs>>

DpRecv ==
  /\ dp = "recv"
  /\ msgsnd(DpMail)
  /\ UNCHANGED <<portVars, net, cp, dp, procs>>

\* os_tmr takes the expired entry off its list, and then sends the mail.
TmrExpire ==
  /\ timer = "armed"
  /\ out = NoFd
  /\ timer' = "idle"
  /\ out' = cpfd
  /\ UNCHANGED <<mainPc, state, event, sockfd, query_cnt, cpfd, conn, tx, envVars>>

TmrSend ==
  /\ out # NoFd
  /\ msgsnd(TmrMail(out))
  /\ out' = NoFd
  /\ UNCHANGED <<mainPc, state, event, sockfd, query_cnt, cpfd, conn, timer, tx,
                 net, cp, dp, procs>>

Children == CpRecv \/ CpEof \/ DpRecv \/ TmrExpire \/ TmrSend
-----------------------------------------------------------------------------
(***************************************************************************)
(* The controller and the network                                          *)
(***************************************************************************)
CtrlSend ==
  /\ conn = "up"
  /\ Len(net) < NetCap
  /\ \E m \in CtrlMsgs : net' = Append(net, Unread(m, FALSE))
  /\ UNCHANGED <<portVars, queue, cp, dp, procs>>

setConn(c) ==
  /\ conn' = c
  /\ UNCHANGED <<mainPc, state, event, sockfd, query_cnt, cpfd, timer, out, tx, envVars>>

CtrlClose == conn = "up" /\ setConn("fin")

\* The controller aborts, or its stack answers what the agent sent after FIN.
CtrlReset == conn \in {"up", "fin", "probed"} /\ setConn("reset")

Controller == CtrlSend \/ CtrlClose \/ CtrlReset
-----------------------------------------------------------------------------
Next == Main \/ Children \/ Controller

Spec == Init /\ [][Next]_vars

\* The processes keep running, and the kernel wakes a blocked msgsnd() in its
\* turn: a child whose msgsnd() keeps becoming possible gets it done.  Neither
\* the hosts nor the controller owe the agent anything.
Fairness ==
  /\ WF_vars(Main)
  /\ SF_vars(CpRecv)
  /\ SF_vars(CpEof)
  /\ WF_vars(TmrExpire)
  /\ SF_vars(TmrSend)

FairSpec == Spec /\ Fairness
-----------------------------------------------------------------------------
(***************************************************************************)
(* Properties                                                              *)
(***************************************************************************)
InLoop == mainPc = "loop"
Negotiated == InLoop /\ state \in {"FEATURE_WAIT", "ESTABLISHED"}
Serving == InLoop /\ state = "ESTABLISHED"

\* The mails of the queue that belong to a session.
OfSession(i) == i \in DOMAIN queue /\ queue[i].type # "DP"

\* The main process takes a mail of this type off the queue.
Takes(type) ==
  /\ InLoop
  /\ queue # <<>>
  /\ Head(queue).type = type
  /\ queue' = Tail(queue)

\* Every variable stays in its type; in particular query_cnt, a U8, wraps.
TypeOK ==
  /\ mainPc \in {"boot", "start", "loop", "reinit", "exited", "killed"}
  /\ state \in States
  /\ event \in Events
  /\ sockfd \in 0..MaxFd + 1
  /\ query_cnt \in 0..QueryMod - 1
  /\ cpfd \in 0..MaxFd
  /\ conn \in ConnStates
  /\ timer \in TimerStates
  /\ out \in 0..MaxFd
  /\ tx \in Seq([what : FrameTypes, sock : 0..MaxFd + 1])
  /\ queue \in Seq(Mails)
  /\ net \in Seq(Stream)
  /\ cp \in {"none", "recv", "closed"}
  /\ dp \in {"none", "recv"}
  /\ procs \subseteq {"cp", "tmr"} \X Sessions

\* The queue outlives a session (only its senders are killed), so timeouts of
\* the lost session stay in it; they are always ahead of anything the new
\* session brings.
MailsInSessionOrder ==
  \A i, j \in DOMAIN queue :
    i < j /\ OfSession(i) /\ OfSession(j) => queue[i].sess <= queue[j].sess

\* Once the new controller has been heard, nothing of the old session is left
\* in the queue or on its way there: a stale timeout cannot probe the new
\* controller, restart its timer or count against it, and a stale failure
\* cannot tear its connection down.
NoStaleMail ==
  Negotiated =>
    /\ \A i \in DOMAIN queue : OfSession(i) => queue[i].sess = cpfd
    /\ out \in {NoFd, cpfd}

\* A lost connection is reported once: main never reconnects twice for one
\* loss, and finds no report of a session it has already torn down.
OneFailPerLoss ==
  /\ Cardinality({i \in DOMAIN queue : queue[i].type = "FAIL"}) <= 1
  /\ mainPc = "reinit" => \A i \in DOMAIN queue : queue[i].type \in {"TMR", "DP"}

\* Reconnecting never leaves two timer tasks running over the one shared list,
\* or two children reading for the one queue.
SingleChildren ==
  \A p, q \in procs : p[1] = q[1] => p = q

\* The count of unanswered echo requests starts clean with every session: no
\* timeout of the lost session is charged to the next controller.
CleanCount ==
  InLoop /\ state \in {"HELLO_WAIT", "FEATURE_WAIT"} => query_cnt = 1

\* An established session always has its next echo request ahead: the timer is
\* running, or its expiry is on the way to the queue, or in the queue.
KeepaliveAhead ==
  Serving =>
    \/ timer \in {"armed", "lost"}
    \/ out # NoFd
    \/ \E i \in DOMAIN queue : queue[i].type = "TMR"

\* A lost controller cannot go unnoticed: as long as main serves a session, the
\* child that reads its connection is at it, or the report it sends only once is in
\* the queue and not yet acted on.
LossAhead ==
  InLoop =>
    \/ cp = "recv"
    \/ \E i \in DOMAIN queue : queue[i].type = "FAIL"

\* What is meant for the controller goes to the connection in use, whichever
\* socket the last mail left in the control block, and what is meant for the
\* host to the raw socket.
FramesOnTheirSocket ==
  \A i \in DOMAIN tx :
    tx[i].sock = IF tx[i].what \in ToController THEN cpfd ELSE DpFd

\* The handshake advances only on a frame the controller of this session has
\* sent, and only on what the decoder takes for the message it waits for or has
\* no event for: never on a timeout, a packet of a host or anything left of a
\* lost session, however the stream was cut into frames.
AdvancedBy(m) ==
  /\ Takes("CP")
  /\ Head(queue).sess = cpfd
  /\ Head(queue).msg \in {m, "UNDECODED"}

HandshakeByFrame ==
  [][/\ state = "HELLO_WAIT" /\ state' = "FEATURE_WAIT" => AdvancedBy("HELLO")
     /\ state = "FEATURE_WAIT" /\ state' = "ESTABLISHED" => AdvancedBy("FEATURES_REQUEST")]_vars

\* The inductive invariant.  Between sessions nothing of the old one is left
\* but its timeouts in the queue ...
Up == mainPc \in {"loop", "killed"}
Down == mainPc \in {"boot", "exited", "reinit"}

SessionInv ==
  /\ ~ Down => cpfd \in Sessions
  /\ ~ Up => cp = "none" /\ tx = <<>> /\ out = NoFd
  /\ Down => timer = "none" /\ procs = {}
  /\ mainPc = "start" => state = "CLOSED" /\ query_cnt = 1 /\ timer = "idle"
  /\ Up => state # "CLOSED" /\ timer # "none"
  /\ procs \subseteq {<<"cp", cpfd>>, <<"tmr", cpfd>>}

\* ... and what the children of this session mail comes behind those, the
\* report of its end behind everything they read.
QueueInv ==
  /\ \A i \in DOMAIN queue :
       /\ OfSession(i) => queue[i].sess <= cpfd
       /\ queue[i].type \in {"CP", "FAIL"} => Up /\ queue[i].sess = cpfd
       /\ queue[i].type = "FAIL" => cp = "closed"
  /\ \A i, j \in DOMAIN queue :
       queue[i].type = "FAIL" /\ queue[j].type \in {"CP", "FAIL"} => j <= i
  /\ out \in {NoFd, cpfd}
  /\ MailsInSessionOrder
  /\ NoStaleMail

IInv == TypeOK /\ SessionInv /\ QueueInv

\* The agent implements the session its peers see (OfpSession): until main has
\* reconnected the handshake is closed, whatever the control block still says.
Session == INSTANCE OfpSession WITH
  RawSock <- DpFd,
  sess <- cpfd,
  phase <- IF mainPc \in {"loop", "killed"} THEN state ELSE "CLOSED",
  sent <- tx

SessionSpec == Session!Spec

\* The agent's one timer is one of TimerTask's, which OsTimer implements: across
\* losses and reconnections too, it is started, stopped and expires only in ways
\* the library has.
TimerUse == INSTANCE TimerTask WITH
  Keys <- {"query"},
  calling <- mainPc = "loop" /\ queue # <<>>,
  running <- IF timer \in {"armed", "lost"} THEN {"query"} ELSE {},
  asleep <- timer = "lost",
  sending <- out # NoFd

TimerSpec == TimerUse!Spec

\* A controller that closes, or resets, is replaced by a new connection, unless
\* main has run out of descriptors or was terminated by a send().
LossIsRepaired ==
  conn \in {"fin", "probed", "reset"} ~>
    \/ mainPc = "start"
    \/ mainPc = "killed"
    \/ mainPc = "reinit" /\ cpfd = MaxFd

\* A controller that answers nothing is probed for ever, unless the timer was
\* lost: it is never given up (the state machine only prints a message).
SilentControllerProbed ==
  <>[](Serving /\ timer # "lost") => []<><<Takes("TMR")>>_vars

\* src/ofp_codec.c:38: the event is an output of the decoder.  A frame it has no
\* event for should therefore make the state machine do nothing.
EventIsOfTheFrame ==
  [][Takes("CP") /\ Head(queue).msg = "UNDECODED"
       => state' = state /\ tx' = <<>>]_vars

\* src/ofp_common.h:24: the header carries the length of its message, which
\* delimits it in the stream: every message read should reach main.
EveryMessageMailed ==
  [][cp = "recv" /\ cp' = "recv" /\ Len(net') < Len(net)
       => Len(queue') - Len(queue) = Len(net) - Len(net')]_vars
=============================================================================
