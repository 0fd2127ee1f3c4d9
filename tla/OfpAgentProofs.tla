--------------------------- MODULE OfpAgentProofs ---------------------------
(***************************************************************************)
(* Theorems about OfpAgent, for every number of descriptors, capacity of   *)
(* the queue and set of controller messages: the inductive invariant, what *)
(* it says of the agent's states and steps, and the refinement of          *)
(* OfpSession.                                                             *)
(***************************************************************************)
EXTENDS OfpAgent, SequenceTheorems, FiniteSetTheorems, TLAPS

USE MaxFdAssumption, QueryModAssumption, QCapAssumption, NetCapAssumption,
    CtrlMsgsAssumption

TypeFrame == [what : FrameTypes, sock : 0..MaxFd + 1]

\* The conjuncts of TypeOK that the state machine can disturb.
TypePort ==
  /\ mainPc \in {"boot", "start", "loop", "reinit", "exited", "killed"}
  /\ state \in States
  /\ sockfd \in 0..MaxFd + 1
  /\ query_cnt \in 0..QueryMod - 1
  /\ conn \in ConnStates
  /\ timer \in TimerStates
  /\ out \in 0..MaxFd
  /\ tx \in Seq(TypeFrame)

\* Two frames sent by the handlers of one row.
LEMMA AppendPair ==
  ASSUME NEW a, NEW b
  PROVE  Append(<<a>>, b) = <<a, b>>
<1> DEFINE S == {a, b}
<1>1. <<a>> \in Seq(S) /\ b \in S /\ <<a, b>> \in Seq(S)
  OBVIOUS
<1>2. /\ Append(<<a>>, b) \in Seq(S)
      /\ Len(Append(<<a>>, b)) = 2
      /\ Append(<<a>>, b)[1] = a
      /\ Append(<<a>>, b)[2] = b
  BY <1>1
<1>3. Len(<<a, b>>) = 2 /\ <<a, b>>[1] = a /\ <<a, b>>[2] = b
  OBVIOUS
<1>4. \A i \in 1..Len(Append(<<a>>, b)) : Append(<<a>>, b)[i] = <<a, b>>[i]
  BY <1>2, <1>3
<1> HIDE DEF S
<1>5. ASSUME NEW s \in Seq(S), NEW t \in Seq(S), Len(s) = Len(t),
             \A i \in 1..Len(s) : s[i] = t[i]
      PROVE  s = t
  BY <1>5, SeqEqual
<1> QED BY <1>1, <1>2, <1>3, <1>4, <1>5

\* However many frames a step sends, the connection stays in its type and main
\* goes back to its loop unless SIGPIPE ended it.
LEMMA XmitType ==
  ASSUME conn \in ConnStates, NEW frames \in Seq(TypeFrame), drv_xmit(frames)
  PROVE  /\ tx' \in Seq(TypeFrame)
         /\ conn' \in ConnStates
         /\ mainPc' \in {"loop", "killed"}
<1>1. \A n : AfterSends(conn, n) \subseteq ConnStates
  BY DEF AfterSends, ConnStates
<1> QED BY <1>1 DEF drv_xmit

\* A step of the state machine keeps the control block in its type.
LEMMA FsmType ==
  ASSUME TypePort, cpfd \in 0..MaxFd, NEW sk \in 0..MaxFd + 1, NEW ev, OFP_FSM(sk, ev)
  PROVE  TypePort'
<1> USE DEF TypePort
<1>1. state' \in States
  BY DEF OFP_FSM, ofp_fsm_tbl, States, onNothing
<1>2. ASSUME NEW t \in TimerStates, A_start_timer(t)
      PROVE  timer' \in TimerStates /\ out' \in 0..MaxFd
  BY <1>2 DEF A_start_timer, OSTMR_StartTmr, OSTMR_StopXtmr, TimerStates, AfterSignal, NoFd
<1>3. \A w \in FrameTypes, s \in 0..MaxFd + 1 :
        /\ Frame(w, s) \in TypeFrame
        /\ <<Frame(w, s)>> \in Seq(TypeFrame)
  BY DEF Frame, TypeFrame
<1>4. <<>> \in Seq(TypeFrame)
  OBVIOUS
<1>5. cpfd \in 0..MaxFd + 1 /\ DpFd \in 0..MaxFd + 1
  BY DEF DpFd
<1>6. CASE onStart(sk)
  BY <1>1, <1>3, <1>6, XmitType DEF onStart, KeepTimer, FrameTypes, ToController
<1>7. CASE onFeatureRequest(sk)
  <2>1. <<Frame("FEATURES_REPLY", sk), Frame("ECHO_REQUEST", cpfd)>> \in Seq(TypeFrame)
    BY <1>3, <1>5 DEF FrameTypes, ToController
  <2>2. drv_xmit(<<Frame("FEATURES_REPLY", sk), Frame("ECHO_REQUEST", cpfd)>>)
    BY <1>7, AppendPair DEF onFeatureRequest, A_send_echo_request
  <2>3. tx' \in Seq(TypeFrame) /\ conn' \in ConnStates /\ mainPc' \in {"loop", "killed"}
    BY <2>1, <2>2, XmitType
  <2> QED BY <1>1, <1>2, <1>5, <1>7, <2>3 DEF onFeatureRequest, A_send_echo_request
<1>8. CASE onMultipartRequest(sk)
  <2>1. <<Frame("MULTIPART_REPLY", sk)>> \in Seq(TypeFrame)
    BY <1>3 DEF FrameTypes, ToController
  <2>2. tx' \in Seq(TypeFrame) /\ conn' \in ConnStates /\ mainPc' \in {"loop", "killed"}
    <3>1. CASE drv_xmit(<<Frame("MULTIPART_REPLY", sk)>>)
      BY <2>1, <3>1, XmitType
    <3>2. CASE drv_xmit(<<>>)
      BY <1>4, <3>2, XmitType
    <3> QED BY <1>8, <3>1, <3>2 DEF onMultipartRequest
  <2> QED BY <1>1, <1>8, <2>2 DEF onMultipartRequest, KeepTimer
<1>9. CASE onEchoReply(sk)
  <2>1. OSTMR_StopXtmr(timer) \in TimerStates
    BY DEF OSTMR_StopXtmr, TimerStates
  <2>2. query_cnt' = 1
    BY <1>9 DEF onEchoReply, A_clear_query_cnt
  <2>3. query_cnt' \in 0..QueryMod - 1
    BY <2>2
  <2>4. tx' \in Seq(TypeFrame) /\ conn' \in ConnStates /\ mainPc' \in {"loop", "killed"}
    BY <1>4, <1>9, XmitType DEF onEchoReply
  <2> QED BY <1>1, <1>2, <1>9, <2>1, <2>3, <2>4 DEF onEchoReply
<1>10. CASE onTimeout(sk)
  <2>1. drv_xmit(<<Frame("ECHO_REQUEST", cpfd)>>)
    <3>1. Append(<<>>, Frame("ECHO_REQUEST", cpfd)) = <<Frame("ECHO_REQUEST", cpfd)>>
      OBVIOUS
    <3> QED BY <1>10, <3>1 DEF onTimeout, A_send_echo_request
  <2>2. tx' \in Seq(TypeFrame) /\ conn' \in ConnStates /\ mainPc' \in {"loop", "killed"}
    BY <1>3, <1>5, <2>1, XmitType DEF FrameTypes, ToController
  <2>3. query_cnt' \in 0..QueryMod - 1
    BY <1>10 DEF onTimeout, A_query_tmr_expire
  <2> QED BY <1>1, <1>2, <1>5, <1>10, <2>2, <2>3 DEF onTimeout, A_send_echo_request
<1>11. CASE onPacketIn(sk)
  BY <1>1, <1>3, <1>5, <1>11, XmitType DEF onPacketIn, KeepTimer, FrameTypes, ToController
<1>12. CASE onFlowMod(sk)
  BY <1>1, <1>3, <1>5, <1>12, XmitType DEF onFlowMod, KeepTimer, FrameTypes, ToController
<1>13. CASE onNothing(sk)
  BY <1>1, <1>4, <1>13, XmitType DEF onNothing, KeepTimer
<1> QED
  BY <1>6, <1>7, <1>8, <1>9, <1>10, <1>11, <1>12, <1>13 DEF OFP_FSM, Handlers

\* What a step of the state machine can make of the session: how far the
\* handshake goes, and on which event; whether the query timer runs; the count.
LEMMA FsmSession ==
  ASSUME state \in States, NEW sk, NEW ev, OFP_FSM(sk, ev)
  PROVE  /\ mainPc' \in {"loop", "killed"}
         /\ out' \in {out, NoFd}
         /\ timer # "none" => timer' # "none"
         /\ state # "CLOSED" => state' # "CLOSED"
         /\ state = "CLOSED" =>
              state' = (IF ev = "E_START" THEN "HELLO_WAIT" ELSE "CLOSED")
         /\ state = "HELLO_WAIT" =>
              state' = (IF ev = "E_RECV_HELLO" THEN "FEATURE_WAIT" ELSE "HELLO_WAIT")
         /\ state' = "FEATURE_WAIT" /\ state # "FEATURE_WAIT" => state = "HELLO_WAIT"
         /\ state' = "ESTABLISHED" /\ state # "ESTABLISHED" =>
              state = "FEATURE_WAIT" /\ ev = "E_FEATURE_REQUEST"
         /\ state = "ESTABLISHED" => state' = "ESTABLISHED"
         /\ state' # "ESTABLISHED" => query_cnt' = query_cnt
         /\ state' = "ESTABLISHED" /\ timer # "none" =>
              \/ timer' \in {"armed", "lost"}
              \/ /\ state = "ESTABLISHED"
                 /\ ev # "E_OFP_TIMEOUT"
                 /\ UNCHANGED <<timer, out>>
<1>1. ASSUME NEW frames, drv_xmit(frames)
      PROVE  mainPc' \in {"loop", "killed"}
  BY <1>1 DEF drv_xmit
<1>2. ASSUME Handlers(ev, sk) \/ onNothing(sk)
      PROVE  mainPc' \in {"loop", "killed"}
  BY <1>1, <1>2 DEF Handlers, onStart, onFeatureRequest, onMultipartRequest, onEchoReply,
     onTimeout, onPacketIn, onFlowMod, onNothing, A_send_echo_request
<1>3. ASSUME NEW t, A_start_timer(t), t # "none"
      PROVE  timer' \in {"armed", "lost"} /\ out' \in {out, NoFd}
  BY <1>3 DEF A_start_timer, OSTMR_StartTmr, OSTMR_StopXtmr, AfterSignal
<1>4. ASSUME NEW t, A_start_timer(t)
      PROVE  out' \in {out, NoFd}
  BY <1>4 DEF A_start_timer, AfterSignal
<1>5. OSTMR_StopXtmr(timer) # "none" <=> timer # "none"
  BY DEF OSTMR_StopXtmr
<1>6. CASE onNothing(sk) /\ state' = state /\ ~ (state = "CLOSED" /\ ev = "E_START")
           /\ ~ (state = "HELLO_WAIT" /\ ev = "E_RECV_HELLO")
           /\ ~ (state = "ESTABLISHED" /\ ev = "E_OFP_TIMEOUT")
  BY <1>2, <1>6 DEF onNothing, KeepTimer
<1>7. CASE onStart(sk) /\ state = "CLOSED" /\ ev = "E_START" /\ state' = "HELLO_WAIT"
  BY <1>1, <1>7 DEF onStart, KeepTimer
<1>8. CASE onNothing(sk) /\ state = "HELLO_WAIT" /\ ev = "E_RECV_HELLO"
           /\ state' = "FEATURE_WAIT"
  BY <1>1, <1>8 DEF onNothing, KeepTimer
<1>9. CASE onFeatureRequest(sk) /\ state = "FEATURE_WAIT" /\ ev = "E_FEATURE_REQUEST"
           /\ state' = "ESTABLISHED"
  BY <1>1, <1>3, <1>4, <1>9 DEF onFeatureRequest, A_send_echo_request
<1>10. CASE onEchoReply(sk) /\ state = "ESTABLISHED" /\ state' = "ESTABLISHED"
  BY <1>1, <1>3, <1>4, <1>5, <1>10 DEF onEchoReply
<1>11. CASE onTimeout(sk) /\ state = "ESTABLISHED" /\ state' = "ESTABLISHED"
  BY <1>1, <1>3, <1>4, <1>11 DEF onTimeout, A_send_echo_request
<1>12. CASE (onMultipartRequest(sk) \/ onPacketIn(sk) \/ onFlowMod(sk) \/ onNothing(sk))
            /\ ev # "E_OFP_TIMEOUT" /\ state = "ESTABLISHED" /\ state' = "ESTABLISHED"
  BY <1>1, <1>12 DEF onMultipartRequest, onPacketIn, onFlowMod, onNothing, KeepTimer
<1> QED
  BY <1>6, <1>7, <1>8, <1>9, <1>10, <1>11, <1>12 DEF OFP_FSM, ofp_fsm_tbl, Handlers

LEMMA TailFacts ==
  ASSUME NEW q \in Seq(Mails), q # <<>>
  PROVE  /\ Tail(q) \in Seq(Mails)
         /\ 1 \in DOMAIN q /\ Head(q) = q[1] /\ q[1] \in Mails
         /\ \A i \in DOMAIN q : i >= 1
         /\ \A i \in DOMAIN Tail(q) : i + 1 \in DOMAIN q /\ Tail(q)[i] = q[i + 1]
         /\ \A i \in DOMAIN q : i > 1 => i - 1 \in DOMAIN Tail(q) /\ Tail(q)[i - 1] = q[i]
OBVIOUS

LEMMA AppendFacts ==
  ASSUME NEW q \in Seq(Mails), NEW m \in Mails
  PROVE  /\ Append(q, m) \in Seq(Mails)
         /\ \A i \in DOMAIN q : i \in DOMAIN Append(q, m) /\ Append(q, m)[i] = q[i]
         /\ \A i \in DOMAIN q : i >= 1 /\ i <= Len(q)
         /\ Len(q) + 1 \in DOMAIN Append(q, m) /\ Append(q, m)[Len(q) + 1] = m
         /\ \A i \in DOMAIN Append(q, m) :
              \/ i \in DOMAIN q /\ Append(q, m)[i] = q[i] /\ i <= Len(q)
              \/ i = Len(q) + 1 /\ Append(q, m)[i] = m
OBVIOUS

LEMMA InitInv == Init => IInv
<1> SUFFICES ASSUME Init PROVE IInv
  OBVIOUS
<1>1. TypeOK
  BY DEF Init, TypeOK, States, Events, ConnStates, TimerStates, NoFd
<1>2. SessionInv
  BY DEF Init, SessionInv, Up, Down, NoFd
<1>3. QueueInv
  BY DEF Init, QueueInv, MailsInSessionOrder, NoStaleMail, Negotiated, InLoop, NoFd
<1> QED BY <1>1, <1>2, <1>3 DEF IInv

\* A mail is taken and handed to the state machine.
LEMMA ConsumeInv ==
  ASSUME IInv, mainPc = "loop", queue # <<>>, queue' = Tail(queue),
         NEW sk \in 0..MaxFd + 1, NEW ev, OFP_FSM(sk, ev),
         ev = "E_RECV_HELLO" => Head(queue).type = "CP",
         event' \in Events, UNCHANGED <<cpfd, net, cp, dp, procs>>
  PROVE  IInv'
<1> USE DEF IInv
<1>1. TypeOK'
  <2>1. TypePort
    BY DEF TypeOK, TypePort, TypeFrame
  <2>2. TypePort'
    BY <2>1, FsmType DEF TypeOK
  <2>3. queue' \in Seq(Mails)
    BY TailFacts DEF TypeOK
  <2> QED BY <2>2, <2>3 DEF TypeOK, TypePort, TypeFrame
<1>2. /\ mainPc' \in {"loop", "killed"}
      /\ out' \in {out, NoFd}
      /\ timer # "none" => timer' # "none"
      /\ state # "CLOSED" => state' # "CLOSED"
      /\ state = "HELLO_WAIT" =>
           state' = (IF ev = "E_RECV_HELLO" THEN "FEATURE_WAIT" ELSE "HELLO_WAIT")
  BY FsmSession DEF TypeOK
<1>3. SessionInv'
  BY <1>2 DEF SessionInv, Up, Down
<1>4. QueueInv'
  <2>1. /\ 1 \in DOMAIN queue /\ Head(queue) = queue[1]
        /\ \A i \in DOMAIN queue : i >= 1
        /\ \A i \in DOMAIN queue' : /\ i + 1 \in DOMAIN queue
                                    /\ queue'[i] = queue[i + 1]
                                    /\ i \in Int
    BY TailFacts DEF TypeOK
  <2>2. Up' /\ Up /\ cpfd' = cpfd /\ cp' = cp
    BY <1>2 DEF Up
  <2>3. \A i \in DOMAIN queue' :
          /\ (queue[i].type # "DP")' => queue[i + 1].type # "DP"
          /\ (queue[i].type # "DP")' => (queue[i].sess)' <= cpfd'
          /\ (queue[i].type \in {"CP", "FAIL"})' => (queue[i].sess)' = cpfd'
          /\ (queue[i].type = "FAIL")' => cp' = "closed"
    BY <2>1, <2>2 DEF QueueInv, OfSession
  <2>4. \A i, j \in DOMAIN queue' :
          (queue[i].type = "FAIL" /\ queue[j].type \in {"CP", "FAIL"})' => j <= i
    BY <2>1 DEF QueueInv
  <2>5. out' \in {NoFd, cpfd'}
    BY <1>2, <2>2 DEF QueueInv
  <2>6. MailsInSessionOrder'
    <3> SUFFICES ASSUME NEW i \in DOMAIN queue', NEW j \in DOMAIN queue', i < j,
                        queue'[i].type # "DP", queue'[j].type # "DP"
                 PROVE  queue'[i].sess <= queue'[j].sess
      BY DEF MailsInSessionOrder, OfSession
    <3>1. i + 1 < j + 1
      BY <2>1
    <3> QED BY <2>1, <3>1 DEF QueueInv, MailsInSessionOrder, OfSession
  <2>7. NoStaleMail'
    <3> SUFFICES ASSUME Negotiated',
                        NEW i \in DOMAIN queue', queue'[i].type # "DP"
                 PROVE  queue'[i].sess = cpfd
      BY <2>2, <2>5 DEF NoStaleMail, OfSession
    <3>1. CASE Negotiated
      BY <2>1, <3>1 DEF QueueInv, NoStaleMail, OfSession
    <3>2. CASE ~ Negotiated
      <4>1. state = "HELLO_WAIT" /\ Head(queue).type = "CP"
        BY <1>2, <2>2, <3>2 DEF Negotiated, InLoop, SessionInv, TypeOK, States
      <4>2. queue[1].sess = cpfd
        BY <2>1, <4>1 DEF QueueInv
      <4>3. 1 < i + 1 /\ queue[i + 1].type # "DP" /\ i + 1 \in DOMAIN queue
        BY <2>1, TailFacts DEF TypeOK
      <4>4. cpfd <= queue[i + 1].sess /\ queue[i + 1].sess <= cpfd
        BY <2>1, <4>1, <4>2, <4>3 DEF QueueInv, MailsInSessionOrder, OfSession
      <4>5. queue[i + 1] \in Mails /\ cpfd \in Int
        BY <4>3 DEF TypeOK
      <4>6. queue[i + 1].sess \in Int
        BY <4>5 DEF Mails, Mail, DpMail, Sessions, NoFd
      <4> QED BY <2>1, <4>4, <4>5, <4>6
    <3> QED BY <3>1, <3>2
  <2> QED BY <2>2, <2>3, <2>4, <2>5, <2>6, <2>7 DEF QueueInv, OfSession
<1> QED BY <1>1, <1>3, <1>4

\* A child mails: behind what it has mailed before, for its session.
LEMMA MailInv ==
  ASSUME IInv, NEW mail \in Mails, msgsnd(mail),
         mail.type # "DP" => mail.sess = cpfd,
         mail.type \in {"CP", "FAIL"} => cp = "recv",
         mail.type = "FAIL" => cp' = "closed",
         mail.type # "FAIL" => cp' = cp,
         out' \in {out, NoFd},
         net' \in Seq(Stream),
         UNCHANGED <<mainPc, state, event, sockfd, query_cnt, cpfd, conn, timer, tx, dp, procs>>
  PROVE  IInv'
<1> USE DEF IInv
<1> DEFINE n == Len(queue)
<1>1. /\ queue' \in Seq(Mails)
      /\ n \in Nat
      /\ \A i \in DOMAIN queue : i <= n /\ i \in Int
      /\ \A i \in DOMAIN queue' :
           \/ i \in DOMAIN queue /\ queue'[i] = queue[i]
           \/ i = n + 1 /\ queue'[i] = mail
  BY AppendFacts DEF msgsnd, TypeOK
<1>2. cp' \in {"none", "recv", "closed"} /\ (cp' = "none" <=> cp = "none")
  <2>1. mail.type # "FAIL" \/ mail.type = "FAIL"
    OBVIOUS
  <2> QED BY <2>1 DEF TypeOK
<1>3. TypeOK'
  BY <1>1, <1>2 DEF TypeOK, NoFd
<1>4. SessionInv'
  BY <1>2 DEF SessionInv, Up, Down, NoFd
<1> HIDE DEF n
<1>5. QueueInv'
  <2>1. (cp = "recv" => Up) /\ Up' = Up /\ cpfd' = cpfd /\ cpfd \in Int
    BY DEF SessionInv, TypeOK, Up
  <2>2. cp = "recv" => \A i \in DOMAIN queue : queue[i].type # "FAIL"
    BY DEF QueueInv
  <2>3. \A i \in DOMAIN queue' :
          /\ OfSession(i)' => queue'[i].sess <= cpfd'
          /\ (queue[i].type \in {"CP", "FAIL"})' => Up' /\ queue'[i].sess = cpfd'
    BY <1>1, <2>1 DEF QueueInv, OfSession
  <2>4. \A i \in DOMAIN queue' : queue'[i].type = "FAIL" => cp' = "closed"
    BY <1>1, <2>2 DEF QueueInv
  <2>5. \A i, j \in DOMAIN queue' :
          queue'[i].type = "FAIL" /\ queue'[j].type \in {"CP", "FAIL"} => j <= i
    <3> SUFFICES ASSUME NEW i \in DOMAIN queue', NEW j \in DOMAIN queue',
                        queue'[i].type = "FAIL", queue'[j].type \in {"CP", "FAIL"}
                 PROVE  j <= i
      OBVIOUS
    <3>1. CASE i = n + 1
      BY <1>1, <3>1
    <3>2. CASE i # n + 1
      <4>1. i \in DOMAIN queue /\ queue[i].type = "FAIL"
        BY <1>1, <3>2
      <4>2. j \in DOMAIN queue /\ queue[j].type \in {"CP", "FAIL"}
        BY <1>1, <2>2, <4>1
      <4> QED BY <4>1, <4>2 DEF QueueInv
    <3> QED BY <3>1, <3>2
  <2>6. out' \in {NoFd, cpfd'}
    BY <2>1 DEF QueueInv
  <2>7. MailsInSessionOrder'
    <3> SUFFICES ASSUME NEW i \in DOMAIN queue', NEW j \in DOMAIN queue', i < j,
                        queue'[i].type # "DP", queue'[j].type # "DP"
                 PROVE  queue'[i].sess <= queue'[j].sess
      BY DEF MailsInSessionOrder, OfSession
    <3>1. CASE j = n + 1 /\ queue'[j] = mail
      <4>1. i \in DOMAIN queue /\ queue'[i] = queue[i]
        BY <1>1, <3>1
      <4>2. queue[i].sess <= cpfd
        BY <4>1 DEF QueueInv, OfSession
      <4> QED BY <3>1, <4>1, <4>2
    <3>2. CASE j \in DOMAIN queue /\ queue'[j] = queue[j]
      <4>1. i \in DOMAIN queue /\ queue'[i] = queue[i]
        BY <1>1, <3>2
      <4> QED BY <3>2, <4>1 DEF QueueInv, MailsInSessionOrder, OfSession
    <3> QED BY <1>1, <3>1, <3>2
  <2>8. NoStaleMail'
    BY <1>1, <2>1, <2>6 DEF QueueInv, NoStaleMail, OfSession, Negotiated, InLoop
  <2> QED BY <2>3, <2>4, <2>5, <2>6, <2>7, <2>8 DEF QueueInv
<1> QED BY <1>3, <1>4, <1>5

\* A connection, or an attempt at one: nothing of the old session is left but
\* timeouts in the queue, and they belong to lower sessions.
LEMMA ConnectInv ==
  ASSUME IInv, mainPc \in {"boot", "reinit"}, cpfd < MaxFd, cpfd' = cpfd + 1,
         mainPc' \in {"start", mainPc},
         mainPc' = "start" => ofpdInit,
         mainPc' # "start" =>
           UNCHANGED <<state, event, sockfd, query_cnt, conn, timer, out, tx, envVars>>
  PROVE  IInv'
<1> USE DEF IInv
<1>0. /\ UNCHANGED <<queue, out, tx, cp>>
      /\ procs = {} /\ tx = <<>> /\ out = NoFd /\ cp = "none"
      /\ cpfd \in Nat /\ cpfd' \in Sessions
  BY DEF ofpdInit, envVars, SessionInv, TypeOK, Up, Down, Sessions
<1>1. TypeOK'
  <2>1. CASE mainPc' = "start"
    BY <1>0, <2>1 DEF ofpdInit, resetPort, TypeOK, States, ConnStates, TimerStates, Sessions
  <2>2. CASE mainPc' # "start"
    BY <1>0, <2>2 DEF envVars, TypeOK, Sessions
  <2> QED BY <2>1, <2>2
<1>2. SessionInv'
  <2>1. CASE mainPc' = "start"
    BY <1>0, <2>1 DEF ofpdInit, resetPort, SessionInv, Up, Down
  <2>2. CASE mainPc' # "start"
    BY <1>0, <2>2 DEF envVars, SessionInv, Up, Down
  <2> QED BY <2>1, <2>2
<1>3. QueueInv'
  <2>1. \A i \in DOMAIN queue : OfSession(i) => queue[i].type \notin {"CP", "FAIL"}
    BY DEF QueueInv, Up
  <2>2. \A i \in DOMAIN queue : queue[i] \in Mails
    BY DEF TypeOK
  <2>3. \A i \in DOMAIN queue : OfSession(i) => queue[i].sess <= cpfd + 1
    BY <1>0, <2>2 DEF QueueInv, OfSession, Mails, Mail, DpMail, Sessions
  <2>4. ~ Negotiated'
    BY DEF Negotiated, InLoop
  <2> QED
    BY <1>0, <2>1, <2>3, <2>4 DEF QueueInv, OfSession, MailsInSessionOrder, NoStaleMail
<1> QED BY <1>1, <1>2, <1>3

\* The first frame on a connection.
LEMMA StartInv == IInv /\ Start => IInv'
<1> SUFFICES ASSUME IInv, Start PROVE IInv'
  OBVIOUS
<1> USE DEF IInv
<1>0. /\ mainPc = "start" /\ state = "CLOSED" /\ timer = "idle" /\ out = NoFd
      /\ cpfd \in Sessions /\ cpfd \in 0..MaxFd + 1
      /\ OFP_FSM(cpfd, "E_START")
      /\ cp' = "recv" /\ dp' = "recv" /\ procs' = procs \cup {<<"cp", cpfd>>}
      /\ UNCHANGED <<event, cpfd, queue, net>>
  BY DEF Start, SessionInv, Up, Down, TypeOK
<1>1. /\ mainPc' \in {"loop", "killed"} /\ out' = NoFd
      /\ timer' # "none" /\ state' = "HELLO_WAIT"
  BY <1>0, FsmSession DEF TypeOK
<1>2. TypeOK'
  <2>1. TypePort
    BY DEF TypeOK, TypePort, TypeFrame
  <2>2. TypePort'
    BY <1>0, <2>1, FsmType DEF TypeOK
  <2> QED BY <1>0, <2>2 DEF TypeOK, TypePort, TypeFrame
<1>3. SessionInv'
  BY <1>0, <1>1 DEF SessionInv, Up, Down
<1>4. QueueInv'
  <2>1. \A i \in DOMAIN queue : queue[i].type \notin {"CP", "FAIL"}
    BY <1>0 DEF QueueInv, Up
  <2>2. ~ Negotiated'
    BY <1>1 DEF Negotiated
  <2> QED
    BY <1>0, <1>1, <2>1, <2>2 DEF QueueInv, OfSession, MailsInSessionOrder, NoStaleMail
<1> QED BY <1>2, <1>3, <1>4

\* The report of a lost connection is the last mail of its session that is not
\* a timeout: killing the children leaves nothing else behind.
LEMMA CpFailInv == IInv /\ RcvCpFail => IInv'
<1> SUFFICES ASSUME IInv, RcvCpFail PROVE IInv'
  OBVIOUS
<1> USE DEF IInv
<1>0. /\ mainPc = "loop" /\ queue # <<>> /\ Head(queue).type = "FAIL"
      /\ queue' = Tail(queue) /\ mainPc' = "reinit" /\ out' = NoFd /\ cpfd' = cpfd
  BY DEF RcvCpFail, ipc_rcv2, killSession
<1>1. /\ 1 \in DOMAIN queue /\ Head(queue) = queue[1]
      /\ queue' \in Seq(Mails)
      /\ \A i \in DOMAIN queue : i >= 1
      /\ \A i \in DOMAIN queue' : /\ i + 1 \in DOMAIN queue
                                  /\ queue'[i] = queue[i + 1]
                                  /\ i \in Int
  BY <1>0, TailFacts DEF TypeOK
<1>2. TypeOK'
  BY <1>1 DEF RcvCpFail, killSession, TypeOK, NoFd, ConnStates, TimerStates
<1>3. SessionInv'
  BY <1>0 DEF RcvCpFail, killSession, SessionInv, Up, Down
<1>4. QueueInv'
  <2>1. \A i \in DOMAIN queue' : queue'[i].type \notin {"CP", "FAIL"}
    <3> SUFFICES ASSUME NEW i \in DOMAIN queue', queue[i + 1].type \in {"CP", "FAIL"}
                 PROVE  FALSE
      BY <1>1
    <3>1. i + 1 <= 1 /\ i >= 1
      BY <1>0, <1>1, TailFacts DEF QueueInv, TypeOK
    <3> QED BY <1>1, <3>1
  <2>2. \A i \in DOMAIN queue' : queue'[i].type # "DP" => queue'[i].sess <= cpfd'
    BY <1>0, <1>1 DEF QueueInv, OfSession
  <2>3. MailsInSessionOrder'
    <3> SUFFICES ASSUME NEW i \in DOMAIN queue', NEW j \in DOMAIN queue', i < j,
                        queue'[i].type # "DP", queue'[j].type # "DP"
                 PROVE  queue'[i].sess <= queue'[j].sess
      BY DEF MailsInSessionOrder, OfSession
    <3>1. i + 1 < j + 1
      BY <1>1
    <3> QED BY <1>1, <3>1 DEF QueueInv, MailsInSessionOrder, OfSession
  <2>4. ~ Negotiated'
    BY <1>0 DEF Negotiated, InLoop
  <2> QED BY <1>0, <2>1, <2>2, <2>3, <2>4 DEF QueueInv, OfSession, NoStaleMail
<1> QED BY <1>2, <1>3, <1>4

\* Steps that leave the queue, the child and main where they are.
LEMMA QuietInv ==
  ASSUME IInv, conn' \in ConnStates, net' \in Seq(Stream),
         timer' \in TimerStates, timer' = "none" <=> timer = "none",
         out' \in {out, NoFd, cpfd}, out' # out => Up,
         mainPc = "start" => timer' = timer,
         UNCHANGED <<mainPc, state, event, sockfd, query_cnt, cpfd, tx, queue, cp, dp, procs>>
  PROVE  IInv'
<1> USE DEF IInv
<1>1. TypeOK'
  BY DEF TypeOK, NoFd
<1>2. SessionInv'
  BY DEF SessionInv, Up, Down
<1>3. QueueInv'
  <2>1. MailsInSessionOrder' /\ NoStaleMail'
    BY DEF QueueInv, MailsInSessionOrder, NoStaleMail, OfSession, Negotiated, InLoop
  <2> QED BY <2>1 DEF QueueInv, OfSession, Up
<1> QED BY <1>1, <1>2, <1>3

LEMMA NextInv == IInv /\ [Next]_vars => IInv'
<1> SUFFICES ASSUME IInv, [Next]_vars PROVE IInv'
  OBVIOUS
<1>1. CASE BootOk \/ ReconnectOk
  <2>1. cpfd \in 0..MaxFd
    BY DEF IInv, TypeOK
  <2> QED BY <1>1, <2>1, ConnectInv DEF BootOk, ReconnectOk, ofpdInit
<1>2. CASE ReconnectFail
  BY <1>2, ConnectInv DEF ReconnectFail
<1>3. CASE BootFail
  BY <1>3 DEF BootFail, envVars, IInv, TypeOK, SessionInv, QueueInv, Up, Down,
     OfSession, MailsInSessionOrder, NoStaleMail, Negotiated, InLoop
<1>4. CASE Start
  BY <1>4, StartInv
<1>5. CASE RcvTmr
  BY <1>5, ConsumeInv DEF RcvTmr, ipc_rcv2, IInv, TypeOK
<1>6. CASE RcvCp
  <2>1. /\ mainPc = "loop" /\ queue # <<>> /\ queue' = Tail(queue)
        /\ Head(queue).type = "CP"
        /\ OFP_FSM(Head(queue).sess, event')
        /\ UNCHANGED <<cpfd, net, cp, dp, procs>>
    BY <1>6 DEF RcvCp, ipc_rcv2
  <2>2. Head(queue) \in Mails /\ queue[1] = Head(queue) /\ 1 \in DOMAIN queue
    BY <2>1, TailFacts DEF IInv, TypeOK
  <2>3. Head(queue).sess \in 0..MaxFd + 1
    BY <2>1, <2>2 DEF IInv, QueueInv, TypeOK
  <2>4. event' \in Events
    <3>1. Head(queue).msg \in Messages
      BY <2>1, <2>2 DEF Mails, Mail, DpMail
    <3> QED
      BY <1>6, <3>1 DEF RcvCp, DecodedEvent, Messages, Events, IInv, TypeOK
  <2> QED BY <2>1, <2>3, <2>4, ConsumeInv
<1>7. CASE RcvDp
  BY <1>7, ConsumeInv DEF RcvDp, ipc_rcv2, Events, DpFd
<1>8. CASE RcvCpFail
  BY <1>8, CpFailInv
<1>9. CASE CpRecv
  <2>1. net \in Seq(Stream) /\ cp = "recv" /\ UNCHANGED <<portVars, cp, dp, procs>>
    BY <1>9 DEF CpRecv, IInv, TypeOK
  <2> PICK n \in 1..Len(net), cut \in BOOLEAN :
             /\ net' = (IF cut THEN <<Unread(net[n].msg, TRUE)>> ELSE <<>>)
                       \o SubSeq(net, n + 1, Len(net))
             /\ \/ \E m \in Found(net[1], cut /\ n = 1) : msgsnd(CpMail(m))
                \/ UNCHANGED queue
    BY <1>9 DEF CpRecv
  <2>2. net[1] \in Stream /\ net[n] \in Stream
    BY <2>1
  <2>3. net' \in Seq(Stream)
    <3> DEFINE rest == SubSeq(net, n + 1, Len(net))
               front == <<Unread(net[n].msg, TRUE)>>
    <3>1. rest \in Seq(Stream)
      BY <2>1
    <3>2. Unread(net[n].msg, TRUE) \in Stream
      BY <2>2 DEF Unread, Stream
    <3>3. front \in Seq(Stream) /\ <<>> \in Seq(Stream)
      <4>1. ASSUME NEW S, NEW x \in S
            PROVE  <<x>> \in Seq(S)
        OBVIOUS
      <4>2. front \in Seq(Stream)
        BY <3>2, <4>1, Zenon
      <4>3. <<>> \in Seq(Stream)
        OBVIOUS
      <4> QED BY <4>2, <4>3
    <3>4. net' = (IF cut THEN front ELSE <<>>) \o rest
      OBVIOUS
    <3> HIDE DEF rest, front
    <3>5. front \o rest \in Seq(Stream) /\ <<>> \o rest \in Seq(Stream)
      BY <3>1, <3>3
    <3> QED BY <3>4, <3>5
  <2>4. ASSUME NEW m \in Found(net[1], cut /\ n = 1)
        PROVE  /\ CpMail(m) \in Mails
               /\ CpMail(m).type = "CP"
               /\ CpMail(m).sess = cpfd
    <3>1. m \in Messages
      <4>1. net[1].msg \in Messages
        BY <2>2 DEF Stream
      <4> QED BY <4>1 DEF Found
    <3> QED
      BY <2>1, <3>1 DEF CpMail, Mail, Mails, IInv, SessionInv, Up, Down
  <2>5. ASSUME NEW m \in Found(net[1], cut /\ n = 1), msgsnd(CpMail(m))
        PROVE  IInv'
    BY <2>1, <2>3, <2>4, <2>5, MailInv DEF portVars
  <2>6. CASE UNCHANGED queue
    BY <2>1, <2>3, <2>6, QuietInv DEF portVars, IInv, TypeOK
  <2> QED BY <2>5, <2>6
<1>10. CASE CpEof
  <2>1. FailMail \in Mails /\ FailMail.type = "FAIL" /\ FailMail.sess = cpfd
    BY <1>10 DEF FailMail, Mail, Mails, CpEof, IInv, SessionInv, Up, Down
  <2> QED BY <1>10, <2>1, MailInv DEF CpEof, portVars, IInv, TypeOK
<1>11. CASE DpRecv
  BY <1>11, MailInv DEF DpRecv, DpMail, Mail, Mails, portVars, IInv, TypeOK
<1>12. CASE TmrExpire
  BY <1>12, QuietInv DEF TmrExpire, envVars, TimerStates, IInv, TypeOK, SessionInv, Up, Down
<1>13. CASE TmrSend
  <2>1. TmrMail(out) \in Mails /\ TmrMail(out).type = "TMR" /\ TmrMail(out).sess = cpfd
    BY <1>13 DEF TmrSend, TmrMail, Mail, Mails, IInv, QueueInv, SessionInv, Up, Down
  <2> QED BY <1>13, <2>1, MailInv DEF TmrSend, IInv, TypeOK
<1>14. CASE Controller
  <2>1. ASSUME NEW c \in ConnStates, setConn(c)
        PROVE  IInv'
    BY <2>1, QuietInv DEF setConn, envVars, IInv, TypeOK
  <2>2. CASE CtrlSend
    <3>1. PICK m \in CtrlMsgs : net' = Append(net, Unread(m, FALSE))
      BY <2>2 DEF CtrlSend
    <3>2. net' \in Seq(Stream)
      BY <3>1, CtrlMsgsAssumption DEF Unread, Stream, IInv, TypeOK
    <3> QED
      BY <2>2, <3>2, QuietInv DEF CtrlSend, portVars, IInv, TypeOK
  <2> QED
    BY <1>14, <2>1, <2>2 DEF Controller, CtrlClose, CtrlReset, ConnStates
<1>15. CASE UNCHANGED vars
  BY <1>15, QuietInv DEF vars, IInv, TypeOK
<1> QED
  BY <1>1, <1>2, <1>3, <1>4, <1>5, <1>6, <1>7, <1>8, <1>9, <1>10, <1>11, <1>12, <1>13,
     <1>14, <1>15 DEF Next, Main, Children

\* What the theorems below rest on: the inductive invariant holds at every state.
THEOREM Invariant == Spec => []IInv
BY InitInv, NextInv, PTL DEF Spec

-----------------------------------------------------------------------------
(***************************************************************************)
(* The safety properties                                                   *)
(***************************************************************************)

\* The type invariant; query_cnt never leaves the U8.
THEOREM TypeCorrect == Spec => []TypeOK
<1>1. IInv => TypeOK
  BY DEF IInv
<1> QED BY <1>1, Invariant, PTL

\* The mails of the queue come in the order of their sessions (ofp_send2mailbox
\* appends, RcvCpFail kills the senders before a new session begins).
THEOREM SessionOrder == Spec => []MailsInSessionOrder
<1>1. IInv => MailsInSessionOrder
  BY DEF IInv, QueueInv
<1> QED BY <1>1, Invariant, PTL

\* After the HELLO of the new controller no timeout or failure of an earlier
\* session is left, although the queue outlives sessions.
THEOREM StaleMailGone == Spec => []NoStaleMail
<1>1. IInv => NoStaleMail
  BY DEF IInv, QueueInv
<1> QED BY <1>1, Invariant, PTL

\* The receiver of DRIV_CP_FAIL never finds a second one for the same loss.
THEOREM OneReport == Spec => []OneFailPerLoss
<1>1. IInv => OneFailPerLoss
  <2> SUFFICES ASSUME IInv PROVE OneFailPerLoss
    OBVIOUS
  <2> DEFINE F == {i \in DOMAIN queue : queue[i].type = "FAIL"}
  <2>1. \A i, j \in F : i = j
    <3>1. \A i, j \in DOMAIN queue : queue[i].type = "FAIL" /\ queue[j].type = "FAIL" => j <= i
      BY DEF IInv, QueueInv
    <3>2. DOMAIN queue \subseteq Int
      BY DEF IInv, TypeOK
    <3> QED BY <3>1, <3>2
  <2>2. Cardinality(F) <= 1
    <3>1. CASE F = {}
      BY <3>1, FS_EmptySet
    <3>2. CASE F # {}
      <4> PICK i \in F : TRUE
        BY <3>2
      <4>1. F = {i}
        BY <2>1
      <4> QED BY <4>1, FS_Singleton
    <3> QED BY <3>1, <3>2
  <2>3. mainPc = "reinit" => \A i \in DOMAIN queue : queue[i].type \in {"TMR", "DP"}
    <3>1. \A i \in DOMAIN queue : queue[i].type \in {"CP", "FAIL"} => Up
      BY DEF IInv, QueueInv
    <3>2. \A i \in DOMAIN queue : queue[i].type \in {"CP", "FAIL", "TMR", "DP"}
      <4>1. \A i \in DOMAIN queue : queue[i] \in Mails
        BY DEF IInv, TypeOK
      <4> QED BY <4>1 DEF Mails, DpMail, Mail
    <3> QED BY <3>1, <3>2 DEF Up
  <2> QED BY <2>2, <2>3 DEF OneFailPerLoss
<1> QED BY <1>1, Invariant, PTL

\* One timer task over the shared list, one child reading the connection.
THEOREM ChildrenUnique == Spec => []SingleChildren
<1>1. IInv => SingleChildren
  BY DEF IInv, SessionInv, SingleChildren
<1> QED BY <1>1, Invariant, PTL
-----------------------------------------------------------------------------
(*****************************************************************************)
(* OfpAgent implements OfpSession, and what follows from the inductive     *)
(* invariant about single steps: the frames, the count, the keep-alive and *)
(* the handshake.                                                          *)
(*****************************************************************************)

\* What a step of the state machine sends, as the peers see it.  Only the three
\* handlers that answer a frame use the socket the decoder has left.
LEMMA FsmFrames ==
  ASSUME NEW sk, NEW ev, OFP_FSM(sk, ev),
         ev \in {"E_START", "E_FEATURE_REQUEST", "E_MULTIPART_REQUEST"} => sk = cpfd
  PROVE  \/ state' = state /\ tx' = <<>>
         \/ /\ state = "HELLO_WAIT" /\ state' = "FEATURE_WAIT"
            /\ tx' = <<>>
         \/ /\ state = "CLOSED" /\ state' = "HELLO_WAIT"
            /\ tx' = <<Frame("HELLO", cpfd)>>
         \/ /\ state = "FEATURE_WAIT" /\ state' = "ESTABLISHED"
            /\ tx' = <<Frame("FEATURES_REPLY", cpfd), Frame("ECHO_REQUEST", cpfd)>>
         \/ /\ state = "ESTABLISHED" /\ state' = "ESTABLISHED"
            /\ \/ \E w \in {"ECHO_REQUEST", "MULTIPART_REPLY", "PACKET_IN"} :
                    tx' = <<Frame(w, cpfd)>>
               \/ tx' = <<Frame("HOST_REPLY", DpFd)>>
<1>1. onNothing(sk) \/ onEchoReply(sk) => tx' = <<>>
  BY DEF onNothing, onEchoReply, drv_xmit
<1>2. onStart(sk) => tx' = <<Frame("HELLO", sk)>>
  BY DEF onStart, drv_xmit
<1>3. onFeatureRequest(sk) =>
        tx' = <<Frame("FEATURES_REPLY", sk), Frame("ECHO_REQUEST", cpfd)>>
  BY AppendPair DEF onFeatureRequest, A_send_echo_request, drv_xmit
<1>4. onTimeout(sk) => tx' = <<Frame("ECHO_REQUEST", cpfd)>>
  <2>1. Append(<<>>, Frame("ECHO_REQUEST", cpfd)) = <<Frame("ECHO_REQUEST", cpfd)>>
    OBVIOUS
  <2> QED BY <2>1 DEF onTimeout, A_send_echo_request, drv_xmit
<1>5. onMultipartRequest(sk) => tx' = <<Frame("MULTIPART_REPLY", sk)>> \/ tx' = <<>>
  BY DEF onMultipartRequest, drv_xmit
<1>6. onPacketIn(sk) => tx' = <<Frame("PACKET_IN", cpfd)>>
  BY DEF onPacketIn, drv_xmit
<1>7. onFlowMod(sk) => tx' = <<Frame("HOST_REPLY", DpFd)>>
  BY DEF onFlowMod, drv_xmit
<1> QED
  BY <1>1, <1>2, <1>3, <1>4, <1>5, <1>6, <1>7 DEF OFP_FSM, ofp_fsm_tbl, Handlers

\* The three uses of the state machine for a mail.
LEMMA MailStep ==
  ASSUME IInv, RcvTmr \/ RcvCp \/ RcvDp
  PROVE  /\ mainPc = "loop"
         /\ queue # <<>>
         /\ queue' = Tail(queue)
         /\ cpfd' = cpfd
         /\ \E sk, ev :
              /\ OFP_FSM(sk, ev)
              /\ ev \in {"E_START", "E_FEATURE_REQUEST", "E_MULTIPART_REQUEST"} => sk = cpfd
              /\ ev \in {"E_RECV_HELLO", "E_FEATURE_REQUEST"} => RcvCp /\ ev = event'
              /\ ev # "E_OFP_TIMEOUT" => Head(queue).type # "TMR"
<1>1. CASE RcvTmr
  BY <1>1 DEF RcvTmr, ipc_rcv2
<1>2. CASE RcvDp
  BY <1>2 DEF RcvDp, ipc_rcv2
<1>3. CASE RcvCp
  <2>1. 1 \in DOMAIN queue /\ Head(queue) = queue[1] /\ Head(queue).type = "CP"
    BY <1>3, TailFacts DEF RcvCp, ipc_rcv2, IInv, TypeOK
  <2>2. Head(queue).sess = cpfd
    BY <2>1 DEF IInv, QueueInv
  <2> QED BY <1>3, <2>1, <2>2 DEF RcvCp, ipc_rcv2
<1> QED BY <1>1, <1>2, <1>3

\* Steps of the other processes: the session is what it was.
LEMMA OtherSteps ==
  ASSUME BootFail \/ Children \/ Controller \/ UNCHANGED vars
  PROVE  /\ UNCHANGED <<state, query_cnt, cpfd, tx>>
         /\ mainPc' = mainPc \/ (mainPc = "boot" /\ mainPc' = "exited")
BY DEF BootFail, Children, CpRecv, CpEof, DpRecv, TmrExpire, TmrSend, Controller, CtrlSend,
   CtrlClose, CtrlReset, setConn, portVars, vars

-----------------------------------------------------------------------------
(***************************************************************************)
(* The refinement                                                          *)
(***************************************************************************)
LEMMA SessionInit == Init => Session!Init
BY DEF Init, Session!Init, NoFd

LEMMA SessionStep == IInv /\ [Next]_vars => [Session!Next]_(Session!vars)
<1> SUFFICES ASSUME IInv, [Next]_vars
             PROVE  [Session!Next]_(Session!vars)
  OBVIOUS
<1> DEFINE ph == IF mainPc \in {"loop", "killed"} THEN state ELSE "CLOSED"
<1> USE DEF Session!Next, Session!vars
<1>1. CASE BootOk \/ ReconnectOk
  <2>1. ph = "CLOSED" /\ ph' = "CLOSED" /\ cpfd' = cpfd + 1 /\ tx' = <<>>
    BY <1>1 DEF BootOk, ReconnectOk, ofpdInit
  <2> QED BY <2>1 DEF Session!Connect
<1>2. CASE ReconnectFail
  <2>1. ph = "CLOSED" /\ ph' = "CLOSED" /\ cpfd' = cpfd + 1 /\ tx' = <<>>
    BY <1>2 DEF ReconnectFail, IInv, SessionInv, Up
  <2> QED BY <2>1 DEF Session!Connect
<1>3. CASE BootFail \/ Children \/ Controller \/ UNCHANGED vars
  <2>1. ph' = ph /\ cpfd' = cpfd /\ tx' = tx
    BY <1>3, OtherSteps
  <2> QED BY <2>1
<1>4. CASE Start
  <2>1. /\ mainPc = "start" /\ state = "CLOSED" /\ cpfd' = cpfd
        /\ OFP_FSM(cpfd, "E_START")
    BY <1>4 DEF Start, IInv, SessionInv
  <2>2. mainPc' \in {"loop", "killed"} /\ state' = "HELLO_WAIT"
    BY <2>1, FsmSession DEF IInv, TypeOK
  <2>3. tx' = <<Frame("HELLO", cpfd)>>
    BY <2>1, <2>2, FsmFrames
  <2> QED BY <2>1, <2>2, <2>3 DEF Session!Greet, Session!On, Frame
<1>5. CASE RcvTmr \/ RcvCp \/ RcvDp
  <2> PICK sk, ev :
        /\ OFP_FSM(sk, ev)
        /\ ev \in {"E_START", "E_FEATURE_REQUEST", "E_MULTIPART_REQUEST"} => sk = cpfd
    BY <1>5, MailStep
  <2>1. mainPc = "loop" /\ mainPc' \in {"loop", "killed"} /\ cpfd' = cpfd
    BY <1>5, MailStep, FsmSession DEF IInv, TypeOK
  <2>2. state # "CLOSED"
    BY <2>1 DEF IInv, SessionInv, Up
  <2>3. CASE state' = state /\ tx' = <<>>
    BY <2>1, <2>2, <2>3 DEF Session!Quiet
  <2>4. CASE state = "HELLO_WAIT" /\ state' = "FEATURE_WAIT" /\ tx' = <<>>
    BY <2>1, <2>4 DEF Session!Greeted
  <2>5. CASE /\ state = "FEATURE_WAIT" /\ state' = "ESTABLISHED"
             /\ tx' = <<Frame("FEATURES_REPLY", cpfd), Frame("ECHO_REQUEST", cpfd)>>
    BY <2>1, <2>5 DEF Session!Serve, Session!On, Frame
  <2>6. CASE /\ state = "ESTABLISHED" /\ state' = "ESTABLISHED"
             /\ \/ \E w \in {"ECHO_REQUEST", "MULTIPART_REPLY", "PACKET_IN"} :
                     tx' = <<Frame(w, cpfd)>>
                \/ tx' = <<Frame("HOST_REPLY", DpFd)>>
    BY <2>1, <2>6 DEF Session!Talk, Session!On, Frame
  <2> QED BY <2>2, <2>3, <2>4, <2>5, <2>6, FsmFrames
<1>6. CASE RcvCpFail
  <2>1. mainPc = "loop" /\ mainPc' = "reinit" /\ cpfd' = cpfd /\ tx' = <<>>
    BY <1>6 DEF RcvCpFail, ipc_rcv2
  <2>2. state # "CLOSED"
    BY <2>1 DEF IInv, SessionInv, Up
  <2> QED BY <2>1, <2>2 DEF Session!Lose
<1> QED BY <1>1, <1>2, <1>3, <1>4, <1>5, <1>6 DEF Next, Main

\* Whatever the four processes interleave, the peers of a connection see one
\* HELLO, one FEATURES_REPLY with the first echo request once they have asked,
\* and nothing else before that (main, OFP_FSM, drv_xmit).
THEOREM SessionRefined == Spec => SessionSpec
BY SessionInit, SessionStep, Invariant, PTL DEF Spec, SessionSpec, Session!Spec

-----------------------------------------------------------------------------
(***************************************************************************)
(* The agent's use of the timer library                                    *)
(***************************************************************************)

\* A step of the state machine leaves the timer alone, or (re)starts it.
LEMMA FsmTimer ==
  ASSUME NEW sk, NEW ev, OFP_FSM(sk, ev), timer # "none"
  PROVE  \/ UNCHANGED <<timer, out>>
         \/ timer' \in {"armed", "lost"} /\ out' \in {out, NoFd}
<1>1. ASSUME NEW t, A_start_timer(t), t # "none"
      PROVE  timer' \in {"armed", "lost"} /\ out' \in {out, NoFd}
  BY <1>1 DEF A_start_timer, OSTMR_StartTmr, OSTMR_StopXtmr, AfterSignal
<1>2. OSTMR_StopXtmr(timer) # "none"
  BY DEF OSTMR_StopXtmr
<1>3. CASE onFeatureRequest(sk) \/ onEchoReply(sk) \/ onTimeout(sk)
  BY <1>1, <1>2, <1>3 DEF onFeatureRequest, onEchoReply, onTimeout
<1>4. CASE \/ onStart(sk) \/ onMultipartRequest(sk) \/ onPacketIn(sk)
           \/ onFlowMod(sk) \/ onNothing(sk)
  BY <1>4 DEF onStart, onMultipartRequest, onPacketIn, onFlowMod, onNothing, KeepTimer
<1> QED BY <1>3, <1>4 DEF OFP_FSM, Handlers

LEMMA TimerInit == Init => TimerUse!Init
BY DEF Init, TimerUse!Init

LEMMA TimerStep == IInv /\ [Next]_vars => [TimerUse!Next]_(TimerUse!vars)
<1> SUFFICES ASSUME IInv, [Next]_vars
             PROVE  [TimerUse!Next]_(TimerUse!vars)
  OBVIOUS
<1> USE DEF TimerUse!Next, TimerUse!vars
<1>1. CASE BootOk \/ ReconnectOk
  <2>1. timer = "none" /\ timer' = "idle" /\ out' = out
    BY <1>1 DEF BootOk, ReconnectOk, ofpdInit, IInv, SessionInv, Down
  <2> QED BY <2>1
<1>2. CASE ReconnectFail \/ BootFail \/ CpRecv \/ CpEof \/ DpRecv \/ Controller
           \/ UNCHANGED vars
  BY <1>2 DEF ReconnectFail, BootFail, CpRecv, CpEof, DpRecv, Controller, CtrlSend,
     CtrlClose, CtrlReset, setConn, portVars, vars
<1>3. CASE Start
  <2>1. OFP_FSM(cpfd, "E_START") /\ state = "CLOSED"
    BY <1>3 DEF Start, IInv, SessionInv
  <2>2. onStart(cpfd)
    BY <2>1 DEF OFP_FSM, ofp_fsm_tbl, Handlers
  <2> QED BY <2>2 DEF onStart, KeepTimer
<1>4. CASE RcvTmr \/ RcvCp \/ RcvDp
  <2> PICK sk, ev : OFP_FSM(sk, ev)
    BY <1>4, MailStep
  <2>1. mainPc = "loop" /\ queue # <<>> /\ timer # "none"
    BY <1>4, MailStep DEF IInv, SessionInv, Up
  <2>2. CASE UNCHANGED <<timer, out>>
    BY <2>2
  <2>3. CASE timer' \in {"armed", "lost"} /\ out' \in {out, NoFd}
    BY <2>1, <2>3 DEF TimerUse!Start
  <2> QED BY <2>1, <2>2, <2>3, FsmTimer
<1>5. CASE RcvCpFail
  BY <1>5 DEF RcvCpFail, killSession, TimerUse!Renew
<1>6. CASE TmrExpire
  <2>1. cpfd # NoFd
    BY <1>6 DEF TmrExpire, IInv, SessionInv, Down, Sessions, NoFd
  <2> QED BY <1>6, <2>1 DEF TmrExpire, TimerUse!Expire
<1>7. CASE TmrSend
  BY <1>7 DEF TmrSend, TimerUse!Sent
<1> QED
  BY <1>1, <1>2, <1>3, <1>4, <1>5, <1>6, <1>7 DEF Next, Main, Children

\* Through every loss and reconnection, the state machine starts its one timer,
\* and the timer expires and is taken over by a new task, only in ways the timer
\* library has: no expiry of a timer that is not running, never two on the way
\* (A_start_timer, A_stop_query_tmr, kill(tmr_pid), os_tmr).
THEOREM TimerRefined == Spec => TimerSpec
BY TimerInit, TimerStep, Invariant, PTL DEF Spec, TimerSpec, TimerUse!Spec

-----------------------------------------------------------------------------
(***************************************************************************)
(* Properties of single steps that need more than the inductive invariant  *)
(***************************************************************************)

\* No timeout of a lost session is charged to the next controller: query_cnt is
\* set by ofpdInit and moves in ESTABLISHED only (A_query_tmr_expire,
\* A_clear_query_cnt).
THEOREM CountClean == Spec => []CleanCount
<1> USE DEF CleanCount, InLoop
<1>1. Init => CleanCount
  BY DEF Init
<1>2. IInv /\ CleanCount /\ [Next]_vars => CleanCount'
  <2> SUFFICES ASSUME IInv, CleanCount, [Next]_vars,
                      mainPc' = "loop", state' \in {"HELLO_WAIT", "FEATURE_WAIT"}
               PROVE  query_cnt' = 1
    OBVIOUS
  <2>1. CASE Start
    <3>1. query_cnt = 1 /\ OFP_FSM(cpfd, "E_START")
      BY <2>1 DEF Start, IInv, SessionInv
    <3> QED BY <3>1, FsmSession DEF IInv, TypeOK
  <2>2. CASE RcvTmr \/ RcvCp \/ RcvDp
    <3> PICK sk, ev : OFP_FSM(sk, ev)
      BY <2>2, MailStep
    <3>1. mainPc = "loop" /\ state \in {"HELLO_WAIT", "FEATURE_WAIT"} /\ query_cnt' = query_cnt
      BY <2>2, MailStep, FsmSession DEF IInv, SessionInv, Up, TypeOK, States
    <3> QED BY <3>1
  <2>3. CASE BootFail \/ Children \/ Controller \/ UNCHANGED vars
    BY <2>3, OtherSteps
  <2>4. CASE BootOk \/ ReconnectOk \/ ReconnectFail \/ RcvCpFail
    BY <2>4 DEF BootOk, ReconnectOk, ofpdInit, ReconnectFail, RcvCpFail
  <2> QED BY <2>1, <2>2, <2>3, <2>4 DEF Next, Main
<1> QED BY <1>1, <1>2, Invariant, PTL DEF Spec

\* The keep-alive of an established session never dies out: whoever takes its
\* timer off the list, the mail it becomes restarts it (onTimeout, onEchoReply).
THEOREM KeepaliveKept == Spec => []KeepaliveAhead
<1> USE DEF KeepaliveAhead, Serving, InLoop
<1>1. Init => KeepaliveAhead
  BY DEF Init
<1>2. IInv /\ KeepaliveAhead /\ [Next]_vars => KeepaliveAhead'
  <2> SUFFICES ASSUME IInv, KeepaliveAhead, [Next]_vars, Serving'
               PROVE  KeepaliveAhead'
    OBVIOUS
  <2>0. queue \in Seq(Mails) /\ cpfd \in 0..MaxFd
    BY DEF IInv, TypeOK
  <2>1. CASE Start
    <3>1. state' = "HELLO_WAIT"
      BY <2>1, FsmSession DEF Start, IInv, SessionInv, TypeOK
    <3> QED BY <3>1
  <2>2. CASE RcvTmr \/ RcvCp \/ RcvDp
    <3> PICK sk, ev : /\ OFP_FSM(sk, ev)
                      /\ ev # "E_OFP_TIMEOUT" => Head(queue).type # "TMR"
      BY <2>2, MailStep
    <3>1. mainPc = "loop" /\ queue # <<>> /\ queue' = Tail(queue) /\ timer # "none"
      BY <2>2, MailStep DEF IInv, SessionInv, Up
    <3>2. \/ timer' \in {"armed", "lost"}
          \/ /\ state = "ESTABLISHED" /\ Head(queue).type # "TMR"
             /\ UNCHANGED <<timer, out>>
      BY <3>1, FsmSession DEF IInv, TypeOK
    <3>3. ASSUME NEW i \in DOMAIN queue, queue[i].type = "TMR", Head(queue).type # "TMR"
          PROVE  \E j \in DOMAIN queue' : queue'[j].type = "TMR"
      <4>1. i > 1
        BY <2>0, <3>1, <3>3, TailFacts
      <4> QED BY <2>0, <3>1, <3>3, <4>1, TailFacts
    <3> QED BY <3>1, <3>2, <3>3
  <2>3. CASE CpRecv \/ CpEof \/ DpRecv
    <3>1. UNCHANGED portVars
          /\ \/ UNCHANGED queue
             \/ \E m : queue' = Append(queue, m)
      BY <2>3 DEF CpRecv, CpEof, DpRecv, msgsnd
    <3>2. \A i \in DOMAIN queue : i \in DOMAIN queue' /\ queue'[i] = queue[i]
      BY <2>0, <3>1
    <3> QED BY <3>1, <3>2 DEF portVars
  <2>4. CASE TmrExpire
    BY <2>0, <2>4 DEF TmrExpire, IInv, SessionInv, Down, Sessions, NoFd
  <2>5. CASE TmrSend
    <3>1. queue' = Append(queue, TmrMail(out)) /\ TmrMail(out).type = "TMR"
      BY <2>5 DEF TmrSend, msgsnd, TmrMail, Mail
    <3>2. Len(queue) + 1 \in DOMAIN queue' /\ queue'[Len(queue) + 1] = TmrMail(out)
      BY <2>0, <3>1
    <3> QED BY <3>1, <3>2
  <2>6. CASE Controller \/ UNCHANGED vars
    BY <2>6 DEF Controller, CtrlSend, CtrlClose, CtrlReset, setConn, portVars, envVars, vars
  <2>7. CASE BootOk \/ BootFail \/ ReconnectOk \/ ReconnectFail \/ RcvCpFail
    BY <2>7 DEF BootOk, BootFail, ReconnectOk, ofpdInit, ReconnectFail, RcvCpFail
  <2> QED
    BY <2>1, <2>2, <2>3, <2>4, <2>5, <2>6, <2>7 DEF Next, Main, Children
<1> QED BY <1>1, <1>2, Invariant, PTL DEF Spec

\* The report of a lost connection is not lost itself: CpEof puts it into the queue
\* in the step that ends the reading, and no other mail main takes removes it.
THEOREM LossKept == Spec => []LossAhead
<1> USE DEF LossAhead, InLoop
<1>1. Init => LossAhead
  BY DEF Init
<1>2. IInv /\ LossAhead /\ [Next]_vars => LossAhead'
  <2> SUFFICES ASSUME IInv, LossAhead, [Next]_vars, InLoop'
               PROVE  LossAhead'
    OBVIOUS
  <2>0. queue \in Seq(Mails)
    BY DEF IInv, TypeOK
  <2>1. CASE Start
    BY <2>1 DEF Start
  <2>2. CASE RcvTmr \/ RcvCp \/ RcvDp
    <3>1. /\ mainPc = "loop" /\ queue # <<>> /\ queue' = Tail(queue) /\ cp' = cp
          /\ Head(queue).type # "FAIL"
      BY <2>2 DEF RcvTmr, RcvCp, RcvDp, ipc_rcv2
    <3>2. ASSUME NEW i \in DOMAIN queue, queue[i].type = "FAIL"
          PROVE  \E j \in DOMAIN queue' : queue'[j].type = "FAIL"
      <4>1. i > 1
        BY <2>0, <3>1, <3>2, TailFacts
      <4> QED BY <2>0, <3>1, <3>2, <4>1, TailFacts
    <3> QED BY <3>1, <3>2
  <2>3. CASE CpEof
    <3>1. queue' = Append(queue, FailMail) /\ FailMail.type = "FAIL"
      BY <2>3 DEF CpEof, msgsnd, FailMail, Mail
    <3>2. Len(queue) + 1 \in DOMAIN queue' /\ queue'[Len(queue) + 1] = FailMail
      BY <2>0, <3>1
    <3> QED BY <3>1, <3>2
  <2>4. CASE CpRecv \/ DpRecv \/ TmrExpire \/ TmrSend
    <3>1. /\ mainPc' = mainPc /\ cp' = cp
          /\ \/ UNCHANGED queue
             \/ \E m : queue' = Append(queue, m)
      BY <2>4 DEF CpRecv, DpRecv, TmrExpire, TmrSend, msgsnd, portVars, envVars
    <3>2. \A i \in DOMAIN queue : i \in DOMAIN queue' /\ queue'[i] = queue[i]
      BY <2>0, <3>1
    <3> QED BY <3>1, <3>2
  <2>5. CASE Controller \/ UNCHANGED vars
    BY <2>5 DEF Controller, CtrlSend, CtrlClose, CtrlReset, setConn, portVars, envVars, vars
  <2>6. CASE BootOk \/ BootFail \/ ReconnectOk \/ ReconnectFail \/ RcvCpFail
    BY <2>6 DEF BootOk, BootFail, ReconnectOk, ofpdInit, ReconnectFail, RcvCpFail
  <2> QED BY <2>1, <2>2, <2>3, <2>4, <2>5, <2>6 DEF Next, Main, Children
<1> QED BY <1>1, <1>2, Invariant, PTL DEF Spec

\* Every frame goes to the socket it is meant for, although the control block
\* keeps the socket of the last mail (A_send_echo_request and A_send_packet_in
\* do not use it, the decoder sets it before the three that do).
THEOREM FramesRouted == Spec => []FramesOnTheirSocket
<1> USE DEF FramesOnTheirSocket
<1>1. Init => FramesOnTheirSocket
  BY DEF Init
<1>2. IInv /\ FramesOnTheirSocket /\ [Next]_vars => FramesOnTheirSocket'
  <2> SUFFICES ASSUME IInv, FramesOnTheirSocket, [Next]_vars
               PROVE  FramesOnTheirSocket'
    OBVIOUS
  <2>0. \A w, s : /\ DOMAIN <<Frame(w, s)>> = {1}
                  /\ <<Frame(w, s)>>[1] = Frame(w, s)
                  /\ Frame(w, s).what = w /\ Frame(w, s).sock = s
    BY DEF Frame
  <2>1. ASSUME NEW sk, NEW ev, OFP_FSM(sk, ev), cpfd' = cpfd,
               ev \in {"E_START", "E_FEATURE_REQUEST", "E_MULTIPART_REQUEST"} => sk = cpfd
        PROVE  FramesOnTheirSocket'
    <3>1. CASE tx' = <<>>
      BY <3>1
    <3>2. ASSUME NEW w \in ToController, tx' = <<Frame(w, cpfd)>>
          PROVE  FramesOnTheirSocket'
      BY <2>0, <2>1, <3>2
    <3>3. CASE tx' = <<Frame("HOST_REPLY", DpFd)>>
      BY <2>0, <3>3 DEF ToController, DpFd
    <3>4. CASE tx' = <<Frame("FEATURES_REPLY", cpfd), Frame("ECHO_REQUEST", cpfd)>>
      <4>1. DOMAIN tx' = {1, 2}
            /\ tx'[1] = Frame("FEATURES_REPLY", cpfd) /\ tx'[2] = Frame("ECHO_REQUEST", cpfd)
        BY <3>4
      <4> QED BY <2>0, <2>1, <4>1 DEF ToController
    <3>5. {"HELLO", "ECHO_REQUEST", "MULTIPART_REPLY", "PACKET_IN"} \subseteq ToController
      BY DEF ToController
    <3> QED BY <2>1, <3>1, <3>2, <3>3, <3>4, <3>5, FsmFrames
  <2>2. CASE Start
    BY <2>1, <2>2 DEF Start
  <2>3. CASE RcvTmr \/ RcvCp \/ RcvDp
    BY <2>1, <2>3, MailStep
  <2>4. CASE BootFail \/ Children \/ Controller \/ UNCHANGED vars
    BY <2>4, OtherSteps DEF DpFd
  <2>5. CASE BootOk \/ ReconnectOk \/ ReconnectFail \/ RcvCpFail
    <3>1. tx' = <<>>
      BY <2>5 DEF BootOk, ReconnectOk, ofpdInit, ReconnectFail, RcvCpFail, IInv, SessionInv, Up
    <3> QED BY <3>1
  <2> QED BY <2>2, <2>3, <2>4, <2>5 DEF Next, Main
<1> QED BY <1>1, <1>2, Invariant, PTL DEF Spec

\* The handshake advances only on a frame of this session's controller (RcvCp),
\* the one it waits for or one the decoder has no event for.
THEOREM HandshakeFromController == Spec => HandshakeByFrame
<1> DEFINE Advance ==
      /\ state = "HELLO_WAIT" /\ state' = "FEATURE_WAIT" => AdvancedBy("HELLO")
      /\ state = "FEATURE_WAIT" /\ state' = "ESTABLISHED" => AdvancedBy("FEATURES_REQUEST")
<1>1. IInv /\ [Next]_vars => [Advance]_vars
  <2> SUFFICES ASSUME IInv, [Next]_vars PROVE Advance
    OBVIOUS
  <2>1. CASE RcvTmr \/ RcvCp \/ RcvDp
    <3> PICK sk, ev :
          /\ OFP_FSM(sk, ev)
          /\ ev \in {"E_RECV_HELLO", "E_FEATURE_REQUEST"} => RcvCp /\ ev = event'
      BY <2>1, MailStep
    <3>1. /\ state = "HELLO_WAIT" /\ state' = "FEATURE_WAIT" => ev = "E_RECV_HELLO"
          /\ state = "FEATURE_WAIT" /\ state' = "ESTABLISHED" => ev = "E_FEATURE_REQUEST"
      BY FsmSession DEF IInv, TypeOK
    <3>2. ASSUME RcvCp
          PROVE  /\ Takes("CP") /\ Head(queue).sess = cpfd
                 /\ Head(queue).msg \in Messages
                 /\ event' = DecodedEvent(Head(queue).msg, event)
      <4>1. Head(queue) \in Mails /\ Head(queue) = queue[1] /\ 1 \in DOMAIN queue
            /\ Head(queue).type = "CP" /\ Takes("CP")
        BY <3>2, TailFacts DEF RcvCp, ipc_rcv2, Takes, InLoop, IInv, TypeOK
      <4>2. Head(queue).sess = cpfd
        BY <4>1 DEF IInv, QueueInv
      <4>3. Head(queue).msg \in Messages
        BY <4>1 DEF Mails, Mail, DpMail
      <4> QED BY <3>2, <4>1, <4>2, <4>3 DEF RcvCp
    <3>3. \A m \in Messages :
            /\ DecodedEvent(m, event) = "E_RECV_HELLO" => m \in {"HELLO", "UNDECODED"}
            /\ DecodedEvent(m, event) = "E_FEATURE_REQUEST"
                 => m \in {"FEATURES_REQUEST", "UNDECODED"}
      BY DEF DecodedEvent, Messages
    <3> QED BY <3>1, <3>2, <3>3 DEF AdvancedBy
  <2>2. CASE Start
    BY <2>2 DEF Start, IInv, SessionInv
  <2>3. CASE BootFail \/ Children \/ Controller \/ UNCHANGED vars
    BY <2>3, OtherSteps
  <2>4. CASE BootOk \/ ReconnectOk \/ ReconnectFail \/ RcvCpFail
    BY <2>4 DEF BootOk, ReconnectOk, ofpdInit, resetPort, ReconnectFail, RcvCpFail
  <2> QED BY <2>1, <2>2, <2>3, <2>4 DEF Next, Main
<1> QED BY <1>1, Invariant, PTL DEF Spec, HandshakeByFrame
=============================================================================
