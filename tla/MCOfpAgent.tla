----------------------------- MODULE MCOfpAgent -----------------------------
(***************************************************************************)
(* Instances of OfpAgent for TLC: which messages the controller sends.     *)
(***************************************************************************)
EXTENDS OfpAgent

\* A controller that completes the handshake, asks for the ports and answers no
\* echo request: the timer is then never restarted before it expires.
NoEchoReply == {"HELLO", "FEATURES_REQUEST", "MULTIPART_REQUEST", "PACKET_OUT"}

\* The handshake alone.
HandshakeMsgs == {"HELLO", "FEATURES_REQUEST"}
=============================================================================
