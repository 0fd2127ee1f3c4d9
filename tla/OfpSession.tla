----------------------------- MODULE OfpSession -----------------------------
(***************************************************************************)
(* What the agent promises to the peers of a session, whatever the         *)
(* interleaving of its processes: on every connection the first frame is   *)
(* one HELLO; nothing else is sent before the controller has said HELLO    *)
(* and asked for the features; the answer is FEATURES_REPLY followed by    *)
(* the first ECHO_REQUEST, once; only then come replies, packet-ins and    *)
(* further echo requests, each on the connection in use.  OfpAgent         *)
(* implements this specification.                                          *)
(***************************************************************************)
EXTENDS Integers, Sequences

CONSTANT RawSock      \* the socket towards the hosts

VARIABLES
  sess,    \* the connection in use
  phase,   \* how far the handshake on it has gone
  sent     \* the frames sent by the last step

vars == <<sess, phase, sent>>

On(what, sock) == [what |-> what, sock |-> sock]

Init ==
  /\ sess = 0
  /\ phase = "CLOSED"
  /\ sent = <<>>

\* A new connection, or an attempt at one.
Connect ==
  /\ phase = "CLOSED"
  /\ sess' = sess + 1
  /\ sent' = <<>>
  /\ UNCHANGED phase

Greet ==
  /\ phase = "CLOSED"
  /\ phase' = "HELLO_WAIT"
  /\ sent' = <<On("HELLO", sess)>>
  /\ UNCHANGED sess

Greeted ==
  /\ phase = "HELLO_WAIT"
  /\ phase' = "FEATURE_WAIT"
  /\ sent' = <<>>
  /\ UNCHANGED sess

Serve ==
  /\ phase = "FEATURE_WAIT"
  /\ phase' = "ESTABLISHED"
  /\ sent' = <<On("FEATURES_REPLY", sess), On("ECHO_REQUEST", sess)>>
  /\ UNCHANGED sess

Talk ==
  /\ phase = "ESTABLISHED"
  /\ \/ \E what \in {"ECHO_REQUEST", "MULTIPART_REPLY", "PACKET_IN"} :
          sent' = <<On(what, sess)>>
     \/ sent' = <<On("HOST_REPLY", RawSock)>>
  /\ UNCHANGED <<sess, phase>>

\* Something arrived that calls for no frame.
Quiet ==
  /\ phase # "CLOSED"
  /\ sent' = <<>>
  /\ UNCHANGED <<sess, phase>>

Lose ==
  /\ phase # "CLOSED"
  /\ phase' = "CLOSED"
  /\ sent' = <<>>
  /\ UNCHANGED sess

Next == Connect \/ Greet \/ Greeted \/ Serve \/ Talk \/ Quiet \/ Lose

Spec == Init /\ [][Next]_vars
=============================================================================
