---------------------------- MODULE TimerService ----------------------------
(***************************************************************************)
(* What a timer service promises: a timer started with a delay keeps that  *)
(* delay, less the time counted since, until it is stopped, it expires or  *)
(* the service is started over; a timer expires only when it is the first  *)
(* due, and starting, stopping and expiring leave every other timer's time *)
(* alone.  OsTimer implements this with a delta list.                      *)
(***************************************************************************)
EXTENDS Integers

CONSTANTS
  Keys,      \* the timers
  Delays,    \* the delays they are started with
  MaxDelta   \* the most that is counted at once

VARIABLE remaining    \* what each running timer has left

Running == DOMAIN remaining

Init == remaining = [k \in {} |-> 0]

Start(k, d) ==
  /\ k \notin Running
  /\ remaining' = [j \in Running \cup {k} |-> IF j = k THEN d ELSE remaining[j]]

Stop(k) ==
  /\ k \in Running
  /\ remaining' = [j \in Running \ {k} |-> remaining[j]]

\* k is due: the time it had left is counted for every other timer too.
Expire(k) ==
  /\ k \in Running
  /\ remaining[k] <= MaxDelta
  /\ \A j \in Running : remaining[j] >= remaining[k]
  /\ remaining' = [j \in Running \ {k} |-> remaining[j] - remaining[k]]

Count(e) ==
  /\ \A j \in Running : remaining[j] >= e
  /\ remaining' = [j \in Running |-> remaining[j] - e]

\* The service is started over.
Reset == remaining' = [k \in {} |-> 0]

Next ==
  \/ Reset
  \/ \E k \in Keys : Stop(k) \/ Expire(k)
  \/ \E k \in Keys, d \in Delays : Start(k, d)
  \/ \E e \in 0..MaxDelta : Count(e)

Spec == Init /\ [][Next]_remaining
=============================================================================
