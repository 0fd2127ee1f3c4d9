----------------------------- MODULE TimerTask -----------------------------
(***************************************************************************)
(* What the users of the timer library may count on of its task: which     *)
(* timers are running, whether the task sleeps through them, and whether   *)
(* it has an expiry on the way to the queue.  The timer library (OsTimer)  *)
(* implements this for any timers; the agent (OfpAgent), which knows no    *)
(* more of the library than this, for its one timer.                       *)
(***************************************************************************)

CONSTANT Keys     \* the timers

VARIABLES
  calling,   \* a user may be in a call of the library
  running,   \* the timers started, and not stopped nor expired
  asleep,    \* the task waits for a signal nobody is going to send
  sending    \* it has taken an expired timer, and not sent its mail

vars == <<running, asleep, sending>>

Init ==
  /\ running = {}
  /\ asleep = FALSE
  /\ sending = FALSE

\* Users come and go as they like: calling is free.  The first timer wakes the
\* task, or the wake-up comes too early; it may come in the middle of sending the
\* last expiry, which is then lost.  A further timer leaves the task alone.
Start(k) ==
  /\ calling
  /\ running' = running \cup {k}
  /\ IF running \subseteq {k}
     THEN asleep' \in BOOLEAN /\ sending' \in {sending, FALSE}
     ELSE UNCHANGED <<asleep, sending>>

Stop(k) ==
  /\ calling
  /\ running' = running \ {k}
  /\ asleep' = (asleep /\ running' # {})
  /\ UNCHANGED sending

\* One expiry at a time.
Expire(k) ==
  /\ k \in running
  /\ ~ asleep
  /\ ~ sending
  /\ running' = running \ {k}
  /\ sending' = TRUE
  /\ UNCHANGED asleep

Sent ==
  /\ sending' = FALSE
  /\ UNCHANGED <<running, asleep>>

\* The task is killed, and replaced with an empty list.
Renew ==
  /\ running' = {}
  /\ asleep' = FALSE
  /\ sending' = FALSE

Next ==
  \/ \E k \in Keys : Start(k) \/ Stop(k) \/ Expire(k)
  \/ Sent
  \/ Renew

Spec == Init /\ [][Next]_vars
=============================================================================
