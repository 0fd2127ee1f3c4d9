------------------------------ MODULE OfpPort ------------------------------
(***************************************************************************)
(* The control block of the OpenFlow port (ofp_ports[0], src/ofpd.h) and   *)
(* the finite state machine that drives it (src/ofp_fsm.c).                *)
(*                                                                         *)
(* The state machine runs in the main process only, and always to          *)
(* completion, so one call of OFP_FSM is one step.  What it touches beyond *)
(* the control block is written here as the part of that step:             *)
(*   - frames handed to drv_xmit (tx) and what sending does to the TCP     *)
(*     connection (conn): nothing in the program handles SIGPIPE, so a     *)
(*     send() on a connection already reset terminates the main process;   *)
(*   - the query timer (timer, out), which OsTimer models in detail.       *)
(***************************************************************************)
EXTENDS Integers, Sequences, FiniteSets

CONSTANTS
  MaxFd,      \* descriptors the main process may spend on controller sockets
  QueryMod    \* query_cnt is a U8: it counts modulo 256

ASSUME MaxFdAssumption == MaxFd \in Nat \ {0}
ASSUME QueryModAssumption == QueryMod \in Nat /\ QueryMod > 1

VARIABLES
  mainPc,     \* "boot", "start", "loop", "reinit", "exited" or "killed"
  state,      \* port_ccb->state
  event,      \* port_ccb->event, the event of the last decoded frame
  sockfd,     \* port_ccb->sockfd
  query_cnt,  \* port_ccb->query_cnt
  cpfd,       \* ofp_io_fds[0]; main never closes one, so they count up
  conn,       \* the connection on cpfd, as the TCP stack of the agent sees it
  timer,      \* the query timer, see TimerStates
  out,        \* session of an expiry the timer task is still sending, or NoFd
  tx          \* the frames transmitted by the last step of the main process

portVars == <<mainPc, state, event, sockfd, query_cnt, cpfd, conn, timer, out, tx>>

NoFd == 0                     \* also the sockfd a DRIV_CP_FAIL mail carries
DpFd == MaxFd + 1             \* ofp_io_fds[1], the raw socket
Sessions == 1..MaxFd          \* a session is named by its descriptor

States == {"CLOSED", "HELLO_WAIT", "FEATURE_WAIT", "ESTABLISHED"}

Events == {"E_START", "E_RECV_HELLO", "E_FEATURE_REQUEST", "E_MULTIPART_REQUEST",
           "E_OTHERS", "E_ECHO_REPLY", "E_OFP_TIMEOUT", "E_PACKET_OUT",
           "E_PACKET_IN", "E_FLOW_MOD"}

\* "up": both ends open.  "fin": the controller has closed.  "probed": the
\* agent has sent on it since.  "reset": a RST has arrived.  "sigpipe": a
\* send() found it reset and the signal took its default action.
ConnStates == {"none", "up", "fin", "probed", "reset", "sigpipe"}

\* "none": no timer task.  "idle": nothing to expire.  "armed": the task will
\* see the entry.  "lost": the entry was inserted, and SIGUSR1 sent, after the
\* task had found the list empty and before it called pause().
TimerStates == {"none", "idle", "armed", "lost"}

\* Frames are told apart by their type and by the socket drv_xmit is given.
ToController == {"HELLO", "FEATURES_REPLY", "ECHO_REQUEST", "MULTIPART_REPLY", "PACKET_IN"}
FrameTypes == ToController \cup {"HOST_REPLY"}
Frame(what, sock) == [what |-> what, sock |-> sock]
-----------------------------------------------------------------------------
(***************************************************************************)
(* drv_xmit                                                                *)
(***************************************************************************)

\* What n calls of send() make of the connection.  The first one after the
\* controller closed only provokes a RST, which may be back before the second.  The
\* first one after a RST may just return ECONNRESET.
AfterSends(c, n) ==
  IF n = 0 THEN {c}
  ELSE CASE c \in {"none", "up"} -> {c}
         [] c \in {"fin", "probed"} -> IF n = 1 THEN {"probed"} ELSE {"probed", "sigpipe"}
         [] c = "reset" -> IF n = 1 THEN {"reset", "sigpipe"} ELSE {"sigpipe"}
         [] c = "sigpipe" -> {"sigpipe"}

\* Frames on ofp_io_fds[0] go through send(); any other socket, through
\* sendto() with the link-layer address, which leaves the connection alone.
Sends(frames) == Cardinality({i \in DOMAIN frames : frames[i].sock = cpfd})

drv_xmit(frames) ==
  /\ tx' = frames
  /\ conn' \in AfterSends(conn, Sends(frames))
  /\ mainPc' = IF conn' = "sigpipe" THEN "killed" ELSE "loop"
-----------------------------------------------------------------------------
(***************************************************************************)
(* The query timer, as its two users in the state machine see it.          *)
(***************************************************************************)

OSTMR_StopXtmr(t) == IF t \in {"armed", "lost"} THEN "idle" ELSE t

\* StartTmr stops the timer first, so the list is always empty when it
\* inserts: it always sends SIGUSR1, which may come too early (lost).
OSTMR_StartTmr(t) == IF OSTMR_StopXtmr(t) = "none" THEN {"none"} ELSE {"armed", "lost"}

\* The same SIGUSR1 may interrupt a msgsnd() the timer task is blocked in:
\* it returns EINTR and that expiry is never delivered.
AfterSignal(o) == {o, NoFd}

KeepTimer == UNCHANGED <<timer, out>>
-----------------------------------------------------------------------------
(***************************************************************************)
(* The handlers A_*.  sk is port_ccb->sockfd as the decoder has left it.   *)
(*                                                                         *)
(* Here and in the other modules, a definition D_What in front of D is D   *)
(* with the bug What.  Nothing uses it: a run is repeated with D_What for  *)
(* D, to see that the property meant to catch the bug does catch it.       *)
(***************************************************************************)

A_send_echo_request_KeepsSockfd(sk, before) ==
  /\ sockfd' = sk
  /\ drv_xmit(Append(before, Frame("ECHO_REQUEST", sk)))

\* A_send_echo_request is the one handler that sets port_ccb->sockfd: the last
\* mail may have left the raw socket there.  before: what the row has sent.
A_send_echo_request(sk, before) ==
  /\ sockfd' = cpfd
  /\ drv_xmit(Append(before, Frame("ECHO_REQUEST", cpfd)))

A_query_tmr_expire_NoWrap == query_cnt' = query_cnt + 1

A_start_timer(t) ==
  /\ timer' \in OSTMR_StartTmr(t)
  /\ out' \in AfterSignal(out)

A_query_tmr_expire == query_cnt' = (query_cnt + 1) % QueryMod

A_clear_query_cnt == query_cnt' = 1

onStart(sk) ==                        \* A_send_hello
  /\ drv_xmit(<<Frame("HELLO", sk)>>)
  /\ sockfd' = sk
  /\ KeepTimer
  /\ UNCHANGED query_cnt

onFeatureRequest(sk) ==    \* A_send_feature_reply, A_send_echo_request, A_start_timer
  /\ A_send_echo_request(sk, <<Frame("FEATURES_REPLY", sk)>>)
  /\ A_start_timer(timer)
  /\ UNCHANGED query_cnt

\* A_send_multipart_reply, or nothing when getifaddrs() fails.
onMultipartRequest(sk) ==
  /\ drv_xmit(<<Frame("MULTIPART_REPLY", sk)>>) \/ drv_xmit(<<>>)
  /\ sockfd' = sk
  /\ KeepTimer
  /\ UNCHANGED query_cnt

onEchoReply_OnlyStops(sk) ==
  /\ drv_xmit(<<>>)
  /\ sockfd' = sk
  /\ timer' = OSTMR_StopXtmr(timer)
  /\ A_clear_query_cnt
  /\ UNCHANGED out

onEchoReply(sk) ==         \* A_stop_query_tmr, A_clear_query_cnt, A_start_timer
  /\ drv_xmit(<<>>)
  /\ sockfd' = sk
  /\ A_start_timer(OSTMR_StopXtmr(timer))
  /\ A_clear_query_cnt

onTimeout_NoRestart(sk) ==
  /\ A_send_echo_request(sk, <<>>)
  /\ KeepTimer
  /\ A_query_tmr_expire

onTimeout(sk) ==           \* A_query_tmr_expire, A_send_echo_request, A_start_timer
  /\ A_send_echo_request(sk, <<>>)
  /\ A_start_timer(timer)
  /\ A_query_tmr_expire

onPacketIn(sk) ==                     \* A_send_packet_in
  /\ drv_xmit(<<Frame("PACKET_IN", cpfd)>>)
  /\ sockfd' = sk
  /\ KeepTimer
  /\ UNCHANGED query_cnt

onFlowMod(sk) ==                      \* A_send_to_host
  /\ drv_xmit(<<Frame("HOST_REPLY", DpFd)>>)
  /\ sockfd' = sk
  /\ KeepTimer
  /\ UNCHANGED query_cnt

\* A row without handlers, and an event the state has no row for.
onNothing(sk) ==
  /\ drv_xmit(<<>>)
  /\ sockfd' = sk
  /\ KeepTimer
  /\ UNCHANGED query_cnt
-----------------------------------------------------------------------------
(***************************************************************************)
(* ofp_fsm_tbl and OFP_FSM.  The rows of a state are contiguous and no     *)
(* pair of a state and an event has two, so the scan of the code finds     *)
(* the one row there is.                                                   *)
(***************************************************************************)
ofp_fsm_tbl ==
  { <<"CLOSED",       "E_START",             "HELLO_WAIT">>,
    <<"HELLO_WAIT",   "E_RECV_HELLO",        "FEATURE_WAIT">>,
    <<"FEATURE_WAIT", "E_FEATURE_REQUEST",   "ESTABLISHED">>,
    <<"ESTABLISHED",  "E_MULTIPART_REQUEST", "ESTABLISHED">>,
    <<"ESTABLISHED",  "E_OTHERS",            "ESTABLISHED">>,
    <<"ESTABLISHED",  "E_ECHO_REPLY",        "ESTABLISHED">>,
    <<"ESTABLISHED",  "E_OFP_TIMEOUT",       "ESTABLISHED">>,
    <<"ESTABLISHED",  "E_PACKET_IN",         "ESTABLISHED">>,
    <<"ESTABLISHED",  "E_FLOW_MOD",          "ESTABLISHED">> }

\* The handlers of the row the event selects: every event has one row.
Handlers(ev, sk) ==
  \/ ev = "E_START"             /\ onStart(sk)
  \/ ev = "E_FEATURE_REQUEST"   /\ onFeatureRequest(sk)
  \/ ev = "E_MULTIPART_REQUEST" /\ onMultipartRequest(sk)
  \/ ev = "E_ECHO_REPLY"        /\ onEchoReply(sk)
  \/ ev = "E_OFP_TIMEOUT"       /\ onTimeout(sk)
  \/ ev = "E_PACKET_IN"         /\ onPacketIn(sk)
  \/ ev = "E_FLOW_MOD"          /\ onFlowMod(sk)
  \/ ev \in {"E_RECV_HELLO", "E_OTHERS"} /\ onNothing(sk)

\* OFP_FSM(&ofp_ports[0], ev), with sk already in port_ccb->sockfd.
OFP_FSM(sk, ev) ==
  \/ \E row \in ofp_fsm_tbl :
       /\ row[1] = state
       /\ row[2] = ev
       /\ state' = row[3]
       /\ Handlers(ev, sk)
  \/ /\ \A row \in ofp_fsm_tbl : ~ (row[1] = state /\ row[2] = ev)
     /\ UNCHANGED state
     /\ onNothing(sk)
=============================================================================
