------------------------------ MODULE OsTimer ------------------------------
(***************************************************************************)
(* The timer library (lib/com_util/os_timer.c): a delta list of timer      *)
(* control blocks in shared memory, guarded by a semaphore, used by two    *)
(* processes.  The caller (main) starts and stops timers; the timer task   *)
(* (os_tmr) sleeps in slices, takes the expired entries off the list and   *)
(* sends a mail for each to the queue the caller reads.                    *)
(*                                                                         *)
(* Every p() is a step, and so is the body it guards up to its v(); the    *)
(* walk of StartTmr along the list takes a step per entry.  A key stands   *)
(* for the pair of ccb and event that names a timer.                       *)
(***************************************************************************)
EXTENDS Integers, Sequences, FiniteSets

CONSTANTS
  Ccbs, Evts,   \* a timer is named by its owner and its event
  Delays,       \* the delays callers ask for
  MaxDelta,     \* the largest slice os_tmr measures (SEC)
  Deltas,       \* the slices it measures
  Wrap,         \* timeleft is a U32: it counts modulo 2^32
  NumTcb,       \* MAX_TMR_CB_NUM
  QCap          \* mails the queue holds before msgsnd() blocks

Keys == Ccbs \X Evts
Tcbs == 1..NumTcb

ASSUME NumTcbAssumption == NumTcb \in Nat \ {0}
ASSUME QCapAssumption == QCap \in Nat \ {0}
ASSUME KeysAssumption == Keys # {}
ASSUME DeltaAssumption == MaxDelta \in Nat /\ Deltas \subseteq 0..MaxDelta
ASSUME WrapAssumption == Wrap \in Nat /\ Wrap > MaxDelta
ASSUME DelayAssumption == Delays \subseteq 0..Wrap - 1

\* The one timer of the program runs for 10 s, a slice measures 1 s at most.
ASSUME SliceAssumption == \A d \in Delays : d >= MaxDelta

VARIABLES
  lock,     \* tmr_semid: "free", or who is between p() and v()
  list,     \* from tmrObj.shm->tmrHdr on: [tcb, key, timeleft]
  idle,     \* the control blocks whose idle flag is set
  qlen,     \* mails in the caller's queue
  mpc,      \* where the caller is
  arg,      \* the timer it is starting or stopping: [key, timeleft]
  then,     \* what follows StopXtmr: "return" or "malloc"
  tcb,      \* the block it has allocated and not yet linked, or 0
  at,       \* its position in the walk
  tpc,      \* where the timer task is
  delta     \* its local delta

callerVars == <<mpc, arg, then, tcb, at>>
vars == <<lock, list, idle, qlen, mpc, arg, then, tcb, at, tpc, delta>>

\* The caller at one of these, and the task at one of those, calls p() next.
CallerLocks == {"StopXtmr", "StopTmrs", "MallocTmrCb", "insert"}
TaskLocks == {"top", "woken", "scan", "settle"}

Entry(b, k, t) == [tcb |-> b, key |-> k, timeleft |-> t]
KeyAt(i) == list[i].key

\* No call is being made: the locals of the last one are gone.
AnyKey == CHOOSE k \in Keys : TRUE
NoArg == [key |-> AnyKey, timeleft |-> 0]
Return ==
  /\ mpc' = "idle"
  /\ arg' = NoArg
  /\ then' = "return"
  /\ at' = 1

Init ==
  /\ lock = "free"
  /\ list = <<>>
  /\ idle = Tcbs
  /\ qlen = 0
  /\ mpc = "idle"
  /\ arg = NoArg
  /\ then = "return"
  /\ tcb = 0
  /\ at = 1
  /\ tpc = "top"
  /\ delta = 0
-----------------------------------------------------------------------------
(***************************************************************************)
(* Operations on the delta list                                            *)
(***************************************************************************)

\* Here and below, a definition D_What in front of D is D with the bug What, used
\* to see that a property catches it.
Unlink_LosesTime(l, i) == [j \in 1..Len(l) - 1 |-> IF j < i THEN l[j] ELSE l[j + 1]]

\* The list without its i-th entry, whose time goes to the entry behind it.
Unlink(l, i) ==
  [j \in 1..Len(l) - 1 |->
     IF j < i THEN l[j]
     ELSE IF j = i THEN [l[j + 1] EXCEPT !.timeleft = (@ + l[i].timeleft) % Wrap]
     ELSE l[j + 1]]

Link_KeepsTime(l, i, e) ==
  [j \in 1..Len(l) + 1 |-> IF j < i THEN l[j] ELSE IF j = i THEN e ELSE l[j - 1]]

\* The list with e linked in front of its i-th entry, which gives up e's time.
Link(l, i, e) ==
  [j \in 1..Len(l) + 1 |->
     IF j < i THEN l[j]
     ELSE IF j = i THEN e
     ELSE IF j = i + 1 THEN [l[i] EXCEPT !.timeleft = @ - e.timeleft]
     ELSE l[j - 1]]

Elapsed_Nothing(l, d) == l

\* The list when d more has elapsed: U32 arithmetic on its first entry.
Elapsed(l, d) ==
  IF l = <<>> THEN l ELSE [l EXCEPT ![1].timeleft = (@ - d) % Wrap]
-----------------------------------------------------------------------------
(***************************************************************************)
(* The caller: StartTmr, StopXtmr, StopTmrs, and taking a mail             *)
(***************************************************************************)
CallStartTmr_NotStopped ==
  /\ mpc = "idle"
  /\ \E k \in Keys, d \in Delays : arg' = [key |-> k, timeleft |-> d]
  /\ mpc' = "MallocTmrCb"
  /\ UNCHANGED <<lock, list, idle, qlen, then, tcb, at, tpc, delta>>

CallStartTmr ==
  /\ mpc = "idle"
  /\ \E k \in Keys, d \in Delays : arg' = [key |-> k, timeleft |-> d]
  /\ mpc' = "StopXtmr"
  /\ then' = "malloc"
  /\ UNCHANGED <<lock, list, idle, qlen, tcb, at, tpc, delta>>

CallStopXtmr ==
  /\ mpc = "idle"
  /\ \E k \in Keys : arg' = [key |-> k, timeleft |-> 0]
  /\ mpc' = "StopXtmr"
  /\ then' = "return"
  /\ UNCHANGED <<lock, list, idle, qlen, tcb, at, tpc, delta>>

CallStopTmrs ==
  /\ mpc = "idle"
  /\ \E k \in Keys : arg' = [key |-> k, timeleft |-> 0]
  /\ mpc' = "StopTmrs"
  /\ at' = 1
  /\ then' = "return"
  /\ UNCHANGED <<lock, list, idle, qlen, tcb, tpc, delta>>

ReceiveMail ==
  /\ mpc = "idle"
  /\ qlen > 0
  /\ qlen' = qlen - 1
  /\ UNCHANGED <<lock, list, idle, callerVars, tpc, delta>>

\* The other senders to the queue: in the agent, its receiving children.
OthersSend ==
  /\ qlen < QCap
  /\ qlen' = qlen + 1
  /\ UNCHANGED <<lock, list, idle, callerVars, tpc, delta>>

CallerP ==
  /\ mpc \in CallerLocks
  /\ lock = "free"
  /\ lock' = "caller"
  /\ UNCHANGED <<list, idle, qlen, callerVars, tpc, delta>>

\* StopXtmr removes the first entry of the key, if there is one.
First(k) == CHOOSE i \in DOMAIN list :
              KeyAt(i) = k /\ \A j \in 1..i - 1 : KeyAt(j) # k

StopXtmr_Leaks ==
  /\ mpc = "StopXtmr"
  /\ lock = "caller"
  /\ list' = IF \E i \in DOMAIN list : KeyAt(i) = arg.key
             THEN Unlink(list, First(arg.key)) ELSE list
  /\ lock' = "free"
  /\ \/ then = "malloc" /\ mpc' = "MallocTmrCb" /\ UNCHANGED <<arg, then, at>>
     \/ then = "return" /\ Return
  /\ UNCHANGED <<idle, qlen, tcb, tpc, delta>>

StopXtmr ==
  /\ mpc = "StopXtmr"
  /\ lock = "caller"
  /\ \/ /\ \A i \in DOMAIN list : KeyAt(i) # arg.key
        /\ UNCHANGED <<list, idle>>
     \/ /\ \E i \in DOMAIN list : KeyAt(i) = arg.key
        /\ list' = Unlink(list, First(arg.key))
        /\ idle' = idle \cup {list[First(arg.key)].tcb}
  /\ lock' = "free"
  /\ \/ then = "malloc" /\ mpc' = "MallocTmrCb" /\ UNCHANGED <<arg, then, at>>
     \/ then = "return" /\ Return
  /\ UNCHANGED <<qlen, tcb, tpc, delta>>

\* One entry of the walk of StopTmrs: every timer of the owner goes.
StopTmrsSkip ==
  /\ mpc = "StopTmrs"
  /\ lock = "caller"
  /\ at \in DOMAIN list
  /\ KeyAt(at)[1] # arg.key[1]
  /\ at' = at + 1
  /\ UNCHANGED <<lock, list, idle, qlen, mpc, arg, then, tcb, tpc, delta>>

StopTmrsDelete ==
  /\ mpc = "StopTmrs"
  /\ lock = "caller"
  /\ at \in DOMAIN list
  /\ KeyAt(at)[1] = arg.key[1]
  /\ list' = Unlink(list, at)
  /\ idle' = idle \cup {list[at].tcb}
  /\ UNCHANGED <<lock, qlen, callerVars, tpc, delta>>

StopTmrsReturn ==
  /\ mpc = "StopTmrs"
  /\ lock = "caller"
  /\ at \notin DOMAIN list
  /\ lock' = "free"
  /\ Return
  /\ UNCHANGED <<list, idle, qlen, tcb, tpc, delta>>

\* The first idle block; when there is none StartTmr returns, the timer
\* stopped and not started.
MallocTmrCb ==
  /\ mpc = "MallocTmrCb"
  /\ lock = "caller"
  /\ \/ /\ idle = {}
        /\ Return
        /\ UNCHANGED <<idle, tcb>>
     \/ /\ idle # {}
        /\ tcb' = CHOOSE b \in idle : \A c \in idle : b <= c
        /\ idle' = idle \ {tcb'}
        /\ mpc' = "insert"
        /\ UNCHANGED <<arg, then, at>>
  /\ lock' = "free"
  /\ UNCHANGED <<list, qlen, tpc, delta>>

InsertEmpty ==
  /\ mpc = "insert"
  /\ lock = "caller"
  /\ list = <<>>
  /\ list' = <<Entry(tcb, arg.key, arg.timeleft)>>
  /\ tcb' = 0
  /\ lock' = "free"
  /\ mpc' = "signal"
  /\ UNCHANGED <<idle, qlen, arg, then, at, tpc, delta>>

InsertBegin ==
  /\ mpc = "insert"
  /\ lock = "caller"
  /\ list # <<>>
  /\ at' = 1
  /\ mpc' = "walk"
  /\ UNCHANGED <<lock, list, idle, qlen, arg, then, tcb, tpc, delta>>

\* The walk goes on while the new timer is not due before the entry at.
GoesOn == at \in DOMAIN list /\ arg.timeleft >= list[at].timeleft

InsertWalk ==
  /\ mpc = "walk"
  /\ GoesOn
  /\ arg' = [arg EXCEPT !.timeleft = @ - list[at].timeleft]
  /\ at' = at + 1
  /\ UNCHANGED <<lock, list, idle, qlen, mpc, then, tcb, tpc, delta>>

InsertLink ==
  /\ mpc = "walk"
  /\ ~ GoesOn
  /\ list' = Link(list, at, Entry(tcb, arg.key, arg.timeleft))
  /\ tcb' = 0
  /\ lock' = "free"
  /\ Return
  /\ UNCHANGED <<idle, qlen, tpc, delta>>

\* kill(tmrTid, SIGUSR1): ends a pause() the task is in, or a msgsnd() it is
\* blocked in (EINTR: the mail is lost); elsewhere its handler does nothing.
Signal ==
  /\ mpc = "signal"
  /\ Return
  /\ tpc' = CASE tpc = "paused" -> "woken"
              [] tpc = "send" /\ qlen = QCap -> "scan"
              [] OTHER -> tpc
  /\ UNCHANGED <<lock, list, idle, qlen, tcb, delta>>

\* The controller is lost: main kills the task, wherever it is, and starts over.
\* The semaphore is created anew, so it does not matter who held the old one.
tmrInit ==
  /\ mpc = "idle"
  /\ lock' = "free"
  /\ list' = <<>>
  /\ idle' = Tcbs
  /\ tpc' = "top"
  /\ delta' = 0
  /\ UNCHANGED <<qlen, callerVars>>

Call == CallStartTmr \/ CallStopXtmr \/ CallStopTmrs

Caller == StopXtmr \/ StopTmrsSkip \/ StopTmrsDelete \/ StopTmrsReturn \/ MallocTmrCb
          \/ InsertEmpty \/ InsertBegin \/ InsertWalk \/ InsertLink \/ Signal
-----------------------------------------------------------------------------
(***************************************************************************)
(* The timer task: os_tmr                                                  *)
(***************************************************************************)
TaskP ==
  /\ tpc \in TaskLocks
  /\ lock = "free"
  /\ lock' = "task"
  /\ UNCHANGED <<list, idle, qlen, callerVars, tpc, delta>>

\* Holding the lock at pc, leave it for next.
TaskV(pc, next) ==
  /\ tpc = pc
  /\ lock = "task"
  /\ lock' = "free"
  /\ tpc' = next

Top_LastEntry ==
  /\ TaskV("top", IF Len(list) <= 1 THEN "pausing" ELSE "sleep")
  /\ UNCHANGED <<list, idle, qlen, callerVars, delta>>

Top ==
  /\ TaskV("top", IF list = <<>> THEN "pausing" ELSE "sleep")
  /\ UNCHANGED <<list, idle, qlen, callerVars, delta>>

\* Between the v() of an empty list and pause(), a signal is not waited for.
Pause ==
  /\ tpc = "pausing"
  /\ tpc' = "paused"
  /\ UNCHANGED <<lock, list, idle, qlen, callerVars, delta>>

Woken ==
  /\ TaskV("woken", "sleep")
  /\ UNCHANGED <<list, idle, qlen, callerVars, delta>>

\* usleep(SEC/2), then the time measured since the last slice.
Sleep ==
  /\ tpc = "sleep"
  /\ delta' \in Deltas
  /\ tpc' = "scan"
  /\ UNCHANGED <<lock, list, idle, qlen, callerVars>>

Due_Later == list # <<>> /\ list[1].timeleft >= delta

Due == list # <<>> /\ list[1].timeleft <= delta

\* The mail is sent inside the critical section.
ScanPop_SendsLocked ==
  /\ Due
  /\ tpc = "scan"
  /\ lock = "task"
  /\ tpc' = "send"
  /\ list' = Tail(list)
  /\ delta' = delta - list[1].timeleft
  /\ idle' = idle \cup {list[1].tcb}
  /\ UNCHANGED <<lock, qlen, callerVars>>

\* The head has expired: off the list, its block free, its time accounted for.
ScanPop ==
  /\ Due
  /\ TaskV("scan", "send")
  /\ list' = Tail(list)
  /\ delta' = delta - list[1].timeleft
  /\ idle' = idle \cup {list[1].tcb}
  /\ UNCHANGED <<qlen, callerVars>>

ScanExit ==
  /\ ~ Due
  /\ TaskV("scan", "settle")
  /\ UNCHANGED <<list, idle, qlen, callerVars, delta>>

Send ==
  /\ tpc = "send"
  /\ qlen < QCap
  /\ qlen' = qlen + 1
  /\ tpc' = "scan"
  /\ UNCHANGED <<lock, list, idle, callerVars, delta>>

\* What is left of delta is taken from the head, whichever entry that is now.
Settle ==
  /\ TaskV("settle", "top")
  /\ list' = Elapsed(list, delta)
  /\ delta' = 0
  /\ UNCHANGED <<idle, qlen, callerVars>>

Task == Top \/ Pause \/ Woken \/ Sleep \/ ScanPop \/ ScanExit \/ Send \/ Settle
-----------------------------------------------------------------------------
Next == Call \/ tmrInit \/ ReceiveMail \/ OthersSend \/ CallerP \/ Caller \/ TaskP \/ Task

Spec == Init /\ [][Next]_vars

\* Both processes keep running and semop() does not overtake a waiter for
\* ever; the caller goes back to its queue between calls, but owes no call.
Fairness ==
  /\ WF_vars(Caller)
  /\ SF_vars(CallerP)
  /\ SF_vars(ReceiveMail)
  /\ SF_vars(TaskP)
  /\ WF_vars(Task)
  /\ SF_vars(Send)

FairSpec == Spec /\ Fairness
-----------------------------------------------------------------------------
(***************************************************************************)
(* Properties                                                              *)
(***************************************************************************)

\* Every variable stays in its type: the U32 arithmetic of the list, and the local
\* delta, which is signed, never go below 0.
TypeOK ==
  /\ lock \in {"free", "caller", "task"}
  /\ list \in Seq([tcb : Tcbs, key : Keys, timeleft : 0..Wrap - 1])
  /\ idle \subseteq Tcbs
  /\ qlen \in 0..QCap
  /\ mpc \in CallerLocks \cup {"idle", "walk", "signal"}
  /\ arg \in [key : Keys, timeleft : 0..Wrap - 1]
  /\ then \in {"return", "malloc"}
  /\ tcb \in Tcbs \cup {0}
  /\ at \in Nat \ {0}
  /\ tpc \in TaskLocks \cup {"pausing", "paused", "sleep", "send"}
  /\ delta \in 0..MaxDelta

\* The control blocks are the ones on the list, the one being linked, and the
\* idle ones: none is leaked, and none is handed out while it is in use, which
\* would tie the list into a knot.
BlocksAccounted ==
  /\ \A i, j \in DOMAIN list : list[i].tcb = list[j].tcb => i = j
  /\ {list[i].tcb : i \in DOMAIN list} = Tcbs \ (idle \cup {tcb})
  /\ tcb \notin idle

\* A timer is never running twice: a restart replaces it.
OneEntryPerKey ==
  \A i, j \in DOMAIN list : KeyAt(i) = KeyAt(j) => i = j

\* The time left over from a slice never exceeds what the head has left, so the
\* U32 subtraction does not wrap round, which would keep every timer behind the
\* head from expiring for over an hour.  The list may have changed since the
\* scan let go of it.
NoUnderflow ==
  tpc = "settle" /\ list # <<>> => list[1].timeleft >= delta

\* The inductive invariant.  Who holds the lock is where it is held, a block is
\* being linked just between malloc and insert, a walk stays on its list, a signal
\* is for one entry at most, and the timer about to be linked is not on the list.
LockInv ==
  /\ lock = "caller" => mpc \in CallerLocks \cup {"walk"}
  /\ mpc = "walk" => lock = "caller"
  /\ lock = "task" => tpc \in TaskLocks

LinkInv ==
  /\ tcb # 0 <=> mpc \in {"insert", "walk"}
  /\ mpc = "walk" => at \in 1..Len(list) + 1 /\ list # <<>>
  /\ mpc = "signal" => Len(list) <= 1
  /\ mpc \in {"MallocTmrCb", "insert", "walk"} => \A i \in DOMAIN list : KeyAt(i) # arg.key

IInv == TypeOK /\ LockInv /\ LinkInv /\ BlocksAccounted /\ OneEntryPerKey

\* What each entry of a delta list has left: the sum of the list up to it.
TimeLeft(l) ==
  LET left[i \in 0..Len(l)] == IF i = 0 THEN 0 ELSE left[i - 1] + l[i].timeleft
  IN  left

\* The inductive invariant of its times.  No sum wraps; what a walk still carries
\* and what it has passed make up the delay it was called with.
TimeInv ==
  /\ \A i \in DOMAIN list : TimeLeft(list)[i] < Wrap
  /\ (mpc = "StopXtmr" /\ then = "malloc") \/ mpc \in {"MallocTmrCb", "insert"}
       => arg.timeleft \in Delays
  /\ mpc = "walk" => arg.timeleft + TimeLeft(list)[at - 1] \in Delays
  /\ NoUnderflow

\* The delta list implements the timer service: whatever is linked, unlinked,
\* popped or settled in between, every timer keeps exactly the time it was
\* started with, less what has been counted, and expires in its turn.
Remaining == [k \in {KeyAt(i) : i \in DOMAIN list} |-> TimeLeft(list)[First(k)]]

Service == INSTANCE TimerService WITH remaining <- Remaining

ServiceSpec == Service!Spec

\* What the library's users count on holds in every order of its steps and theirs:
\* the task expires one timer at a time and mails it before the next, drops none by
\* itself, and goes to sleep over a timer only if StartTmr's signal came between
\* its look at the empty list and its pause().
Sleeper == INSTANCE TimerTask WITH
  calling <- mpc # "idle",
  running <- {KeyAt(i) : i \in DOMAIN list},
  asleep <- list # <<>> /\ tpc \in {"pausing", "paused"} /\ mpc # "signal",
  sending <- tpc = "send"

TaskSpec == Sleeper!Spec

\* A call of the library returns, whatever the task is doing and however full
\* the queue is: the task does not hold the lock while it sends.
CallsReturn == mpc # "idle" ~> mpc = "idle"

\* Asleep with work to do, and no signal on its way.
Stuck == tpc = "paused" /\ list # <<>> /\ mpc # "signal"

\* A timer that is started expires or is stopped, unless the wake-up was lost.
TimersExpire ==
  \A k \in Keys :
    (\E i \in DOMAIN list : KeyAt(i) = k)
      ~> (Stuck \/ \A i \in DOMAIN list : KeyAt(i) # k)

\* os_timer.c:228-231: the task is suspended only while the list is empty.
SuspendedMeansEmpty == ~ Stuck
=============================================================================
