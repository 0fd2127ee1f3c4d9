-------------------------- MODULE OsTimerRefinement --------------------------
(***************************************************************************)
(* The timer library does for its users, with any timers, what they are    *)
(* told: its task behaves as TimerTask says, and its list as TimerService. *)
(***************************************************************************)
EXTENDS OsTimerProofs

-----------------------------------------------------------------------------
(***************************************************************************)
(* The task                                                                *)
(***************************************************************************)

\* What the users see of the task.
Sleeping == list # <<>> /\ tpc \in {"pausing", "paused"} /\ mpc # "signal"
Sending == tpc = "send"

\* The timers running are the keys on the list.
LEMMA NoneRunning ==
  ASSUME NEW l \in Seq(EntryType)
  PROVE  KeysOn(l) = {} <=> l = <<>>
<1>1. l # <<>> => 1 \in DOMAIN l
  OBVIOUS
<1>2. l = <<>> => DOMAIN l = {}
  OBVIOUS
<1> QED BY <1>1, <1>2 DEF KeysOn

LEMMA OnTheList ==
  ASSUME NEW l \in Seq(EntryType), NEW i \in DOMAIN l
  PROVE  l # <<>> /\ l[i] \in EntryType /\ l[i].key \in Keys /\ l[i].key \in KeysOn(l)
<1>1. l # <<>> /\ l[i] \in EntryType
  OBVIOUS
<1> QED BY <1>1 DEF EntryType, KeysOn

\* The actions of TimerTask, as the library's steps show them.
LEMMA SleeperQuiet ==
  ASSUME KeysOn(list') = KeysOn(list), Sleeping' <=> Sleeping, Sending' <=> Sending
  PROVE  UNCHANGED Sleeper!vars
BY DEF Sleeper!vars, KeysOn, KeyAt, Sleeping, Sending

LEMMA SleeperStart ==
  ASSUME NEW k \in Keys, mpc # "idle", KeysOn(list') = KeysOn(list) \cup {k},
         Sending' => Sending,
         ~ (KeysOn(list) \subseteq {k}) => (Sleeping' <=> Sleeping) /\ (Sending' <=> Sending)
  PROVE  Sleeper!Next
<1>1. Sleeper!Start(k)
  <2>1. CASE KeysOn(list) \subseteq {k}
    <3>1. (Sending') \in {Sending, FALSE} /\ (Sleeping') \in BOOLEAN
      BY DEF Sending, Sleeping
    <3> QED BY <2>1, <3>1 DEF Sleeper!Start, KeysOn, KeyAt, Sleeping, Sending
  <2>2. CASE ~ (KeysOn(list) \subseteq {k})
    BY <2>2 DEF Sleeper!Start, KeysOn, KeyAt, Sleeping, Sending
  <2> QED BY <2>1, <2>2
<1> QED BY <1>1 DEF Sleeper!Next

LEMMA SleeperStop ==
  ASSUME NEW k \in Keys, mpc # "idle", KeysOn(list') = KeysOn(list) \ {k},
         Sleeping' <=> (Sleeping /\ KeysOn(list') # {}), Sending' <=> Sending
  PROVE  Sleeper!Next
<1>1. Sleeper!Stop(k)
  BY DEF Sleeper!Stop, KeysOn, KeyAt, Sleeping, Sending
<1> QED BY <1>1 DEF Sleeper!Next

LEMMA SleeperExpire ==
  ASSUME NEW k \in Keys, k \in KeysOn(list), KeysOn(list') = KeysOn(list) \ {k},
         ~ Sleeping, ~ Sleeping', ~ Sending, Sending'
  PROVE  Sleeper!Next
<1>1. Sleeper!Expire(k)
  BY DEF Sleeper!Expire, KeysOn, KeyAt, Sleeping, Sending
<1> QED BY <1>1 DEF Sleeper!Next

LEMMA SleeperSent ==
  ASSUME KeysOn(list') = KeysOn(list), Sleeping' <=> Sleeping, ~ Sending'
  PROVE  Sleeper!Next
<1>1. Sleeper!Sent
  BY DEF Sleeper!Sent, KeysOn, KeyAt, Sleeping, Sending
<1> QED BY <1>1 DEF Sleeper!Next

LEMMA SleeperRenew ==
  ASSUME KeysOn(list') = {}, ~ Sleeping', ~ Sending'
  PROVE  Sleeper!Next
<1>1. Sleeper!Renew
  BY DEF Sleeper!Renew, KeysOn, KeyAt, Sleeping, Sending
<1> QED BY <1>1 DEF Sleeper!Next

LEMMA SleeperInit == Init => Sleeper!Init
BY DEF Init, Sleeper!Init

LEMMA SleeperCaller ==
  IInv /\ (Call \/ Caller) => [Sleeper!Next]_(Sleeper!vars)
<1> SUFFICES ASSUME IInv, Call \/ Caller PROVE Sleeper!Next \/ UNCHANGED Sleeper!vars
  OBVIOUS
<1>0. list \in Seq(EntryType) /\ (KeysOn(list) = {} <=> list = <<>>)
  BY ListInv, NoneRunning
<1>1. CASE Call \/ MallocTmrCb \/ InsertBegin \/ InsertWalk \/ StopTmrsSkip \/ StopTmrsReturn
  <2>1. UNCHANGED <<list, tpc>> /\ mpc # "signal" /\ mpc' # "signal"
    BY <1>1 DEF Call, CallStartTmr, CallStopXtmr, CallStopTmrs, MallocTmrCb, InsertBegin,
       InsertWalk, StopTmrsSkip, StopTmrsReturn, Return
  <2> QED BY <2>1, SleeperQuiet DEF Sleeping, Sending
<1>2. CASE StopXtmr \/ StopTmrsDelete
  <2>1. mpc \notin {"idle", "signal"} /\ mpc' # "signal" /\ tpc' = tpc
    BY <1>2 DEF StopXtmr, StopTmrsDelete, Return, callerVars
  <2>2. CASE list' = list
    BY <2>1, <2>2, SleeperQuiet DEF Sleeping, Sending
  <2>3. CASE list' # list
    <3>1. PICK i \in DOMAIN list : list' = Unlink(list, i)
      <4>1. CASE StopXtmr
        <5>1. /\ \E i \in DOMAIN list : KeyAt(i) = arg.key
              /\ list' = Unlink(list, First(arg.key))
          BY <2>3, <4>1 DEF StopXtmr
        <5> QED BY <5>1, FirstFacts
      <4>2. CASE StopTmrsDelete
        BY <4>2 DEF StopTmrsDelete
      <4> QED BY <1>2, <4>1, <4>2
    <3>2. list' \in Seq(EntryType) /\ KeysOn(list') = KeysOn(list) \ {list[i].key}
      BY <1>0, <3>1, UnlinkWithout, UnlinkFacts, WithoutFacts, ListInv
    <3>3. KeysOn(list') = {} <=> list' = <<>>
      BY <3>2, NoneRunning
    <3>4. list # <<>> /\ list[i].key \in Keys
      BY <1>0, OnTheList
    <3>5. (Sleeping' <=> (Sleeping /\ KeysOn(list') # {})) /\ (Sending' <=> Sending)
      BY <2>1, <3>3, <3>4 DEF Sleeping, Sending
    <3> QED BY <2>1, <3>2, <3>4, <3>5, SleeperStop
  <2> QED BY <2>2, <2>3
<1>3. CASE InsertEmpty \/ InsertLink
  <2>1. mpc \in {"insert", "walk"} /\ tpc' = tpc
    BY <1>3 DEF InsertEmpty, InsertLink
  <2>2. KeysOn(list') = KeysOn(list) \cup {arg.key} /\ list' # <<>>
        /\ arg.key \notin KeysOn(list) /\ arg.key \in Keys
    BY <1>3, InsertKeys, NoneRunning
  <2>3. (Sending' <=> Sending) /\ (list # <<>> => (Sleeping' <=> Sleeping))
    <3>1. list # <<>> => mpc # "signal" /\ mpc' # "signal"
      BY <1>3 DEF InsertEmpty, InsertLink, Return
    <3> QED BY <2>1, <2>2, <3>1 DEF Sending, Sleeping
  <2>4. ~ (KeysOn(list) \subseteq {arg.key}) => list # <<>>
    BY <1>0
  <2> QED BY <2>1, <2>2, <2>3, <2>4, SleeperStart
<1>4. CASE Signal
  <2>1. /\ mpc = "signal" /\ mpc' = "idle" /\ list' = list /\ Len(list) <= 1
        /\ tpc' = tpc \/ (tpc \in {"paused", "send"} /\ tpc' \in TaskLocks)
    BY <1>4 DEF Signal, Return, TaskLocks, IInv, LinkInv
  <2>2. ~ Sleeping /\ (Sending' => Sending)
    BY <2>1 DEF Sleeping, Sending, TaskLocks
  <2>3. CASE Sleeping'
    <3>1. list # <<>>
      BY <2>1, <2>3 DEF Sleeping
    <3>2. Len(list) = 1
      <4>1. Len(list) \in Nat /\ Len(list) # 0
        BY <1>0, <3>1
      <4>2. Len(list) <= 1
        BY <2>1
      <4>3. \A n \in Nat : n # 0 /\ n <= 1 => n = 1
        OBVIOUS
      <4> QED BY <4>1, <4>2, <4>3
    <3>3. list[1].key \in Keys /\ KeysOn(list) = {list[1].key}
      BY <1>0, <3>2, OnTheList DEF KeysOn
    <3> QED BY <2>1, <2>2, <3>3, SleeperStart
  <2>4. CASE ~ Sleeping'
    <3>1. CASE tpc' = tpc
      BY <2>1, <2>2, <2>4, <3>1, SleeperQuiet DEF Sending
    <3>2. CASE tpc' # tpc
      <4>1. ~ Sending'
        BY <2>1, <3>2 DEF Sending, TaskLocks
      <4> QED BY <2>1, <2>2, <2>4, <4>1, SleeperSent
    <3> QED BY <3>1, <3>2
  <2> QED BY <2>3, <2>4
<1> QED BY <1>1, <1>2, <1>3, <1>4 DEF Caller

LEMMA SleeperTask ==
  IInv /\ Task => [Sleeper!Next]_(Sleeper!vars)
<1> SUFFICES ASSUME IInv, Task PROVE Sleeper!Next \/ UNCHANGED Sleeper!vars
  OBVIOUS
<1>0. list \in Seq(EntryType) /\ mpc' = mpc
  BY ListInv DEF Task, Top, Pause, Woken, Sleep, ScanPop, ScanExit, Send, Settle, callerVars
<1>1. CASE Top \/ Pause \/ Woken \/ Sleep \/ ScanExit
  <2>1. list' = list
    BY <1>1 DEF Top, Pause, Woken, Sleep, ScanExit
  <2>2. ~ Sending /\ ~ Sending'
    BY <1>1 DEF Top, Pause, Woken, Sleep, ScanExit, TaskV, Sending
  <2>3. list # <<>> => (tpc \in {"pausing", "paused"} <=> tpc' \in {"pausing", "paused"})
    BY <1>1 DEF Top, Pause, Woken, Sleep, ScanExit, TaskV
  <2> QED BY <1>0, <2>1, <2>2, <2>3, SleeperQuiet DEF Sleeping
<1>2. CASE ScanPop
  <2>1. list # <<>> /\ list' = Tail(list) /\ tpc = "scan" /\ tpc' = "send"
    BY <1>2 DEF ScanPop, Due, TaskV
  <2>2. KeysOn(list') = KeysOn(list) \ {list[1].key} /\ 1 \in DOMAIN list
    BY <2>1, TailWithout, WithoutFacts, ListInv
  <2>3. list[1].key \in Keys /\ list[1].key \in KeysOn(list)
    BY <1>0, <2>2, OnTheList
  <2> QED BY <2>1, <2>2, <2>3, SleeperExpire DEF Sleeping, Sending
<1>3. CASE Send
  <2>1. list' = list /\ tpc = "send" /\ tpc' = "scan"
    BY <1>3 DEF Send
  <2> QED BY <2>1, SleeperSent DEF Sleeping, Sending
<1>4. CASE Settle
  <2>1. list' = Elapsed(list, delta) /\ tpc = "settle" /\ tpc' = "top" /\ delta \in Int
    BY <1>4, DeltaAssumption DEF Settle, TaskV, IInv, TypeOK
  <2>2. KeysOn(list') = KeysOn(list)
    BY <1>0, <2>1, ElapsedFacts DEF KeysOn
  <2> QED BY <2>1, <2>2, SleeperQuiet DEF Sleeping, Sending
<1> QED BY <1>1, <1>2, <1>3, <1>4 DEF Task

LEMMA SleeperStep == IInv /\ [Next]_vars => [Sleeper!Next]_(Sleeper!vars)
<1> SUFFICES ASSUME IInv, [Next]_vars PROVE Sleeper!Next \/ UNCHANGED Sleeper!vars
  OBVIOUS
<1>1. CASE Call \/ Caller
  BY <1>1, SleeperCaller
<1>2. CASE Task
  BY <1>2, SleeperTask
<1>3. CASE tmrInit
  <2>1. KeysOn(list') = {} /\ ~ Sleeping' /\ ~ Sending'
    BY <1>3 DEF tmrInit, KeysOn, Sleeping, Sending
  <2> QED BY <2>1, SleeperRenew
<1>4. CASE ReceiveMail \/ OthersSend \/ CallerP \/ TaskP \/ UNCHANGED vars
  <2>1. list' = list /\ tpc' = tpc /\ mpc' = mpc
    BY <1>4 DEF ReceiveMail, OthersSend, CallerP, TaskP, vars, callerVars
  <2> QED BY <2>1, SleeperQuiet DEF Sleeping, Sending
<1> QED BY <1>1, <1>2, <1>3, <1>4 DEF Next

\* Every step of the library, in every order of the caller's and the task's, is
\* one the users expect: one expiry at a time, none of a timer that is not running,
\* and sleep over a timer only through a wake-up that came too early (os_tmr,
\* StartTmr, tmrInit).
THEOREM TaskRefined == Spec => TaskSpec
BY SleeperInit, SleeperStep, Invariant, PTL DEF Spec, TaskSpec, Sleeper!Spec
-----------------------------------------------------------------------------
(***************************************************************************)
(* The sums along the list, and what its operations do to them             *)
(***************************************************************************)
\* The sum is a function defined by recursion, and there is such a function.
LEMMA TimeLeftDef ==
  ASSUME NEW l \in Seq(EntryType)
  PROVE  TimeLeft(l) =
           [i \in 0..Len(l) |-> IF i = 0 THEN 0 ELSE TimeLeft(l)[i - 1] + l[i].timeleft]
<1> DEFINE Rec(f, n) == f = [i \in 0..n |-> IF i = 0 THEN 0 ELSE f[i - 1] + l[i].timeleft]
           S == {n \in Nat : \E f : Rec(f, n)}
<1>1. 0 \in S
  <2>1. Rec([i \in 0..0 |-> 0], 0)
    OBVIOUS
  <2> QED BY <2>1
<1>2. ASSUME NEW n \in Nat, n \in S PROVE n + 1 \in S
  <2>1. PICK f : Rec(f, n)
    BY <1>2
  <2> DEFINE g == [i \in 0..n + 1 |-> IF i = n + 1 THEN f[n] + l[n + 1].timeleft ELSE f[i]]
  <2>2. \A i \in 0..n : g[i] = f[i]
    OBVIOUS
  <2>3. \A i \in 0..n + 1 : g[i] = IF i = 0 THEN 0 ELSE g[i - 1] + l[i].timeleft
    BY <2>1, <2>2
  <2>4. Rec(g, n + 1)
    BY <2>3
  <2> HIDE DEF Rec, g
  <2> QED BY <2>4
<1>3. PICK f : Rec(f, Len(l))
  <2> HIDE DEF Rec
  <2>1. Len(l) \in S
    <3> HIDE DEF S
    <3> QED BY <1>1, <1>2, NatInduct
  <2> QED BY <2>1
<1> QED BY <1>3 DEF TimeLeft

LEMMA TimeLeftFacts ==
  ASSUME NEW l \in Seq(EntryType)
  PROVE  /\ TimeLeft(l)[0] = 0
         /\ \A i \in 0..Len(l) : TimeLeft(l)[i] \in Nat
         /\ \A i \in DOMAIN l : /\ TimeLeft(l)[i] = TimeLeft(l)[i - 1] + l[i].timeleft
                                /\ l[i].timeleft \in 0..Wrap - 1
                                /\ TimeLeft(l)[i - 1] <= TimeLeft(l)[i]
<1> DEFINE T == TimeLeft(l)
<1>1. Len(l) \in Nat /\ DOMAIN l = 1..Len(l)
  OBVIOUS
<1>2. T[0] = 0 /\ \A i \in 1..Len(l) : T[i] = T[i - 1] + l[i].timeleft
  <2>1. T = [i \in 0..Len(l) |-> IF i = 0 THEN 0 ELSE T[i - 1] + l[i].timeleft]
    BY TimeLeftDef
  <2> HIDE DEF T
  <2>2. \A i \in 0..Len(l) : T[i] = IF i = 0 THEN 0 ELSE T[i - 1] + l[i].timeleft
    BY <2>1
  <2> QED BY <1>1, <2>2
<1> HIDE DEF T
<1>3. \A i \in 1..Len(l) : l[i].timeleft \in 0..Wrap - 1
  <2>1. \A i \in 1..Len(l) : l[i] \in EntryType
    OBVIOUS
  <2> QED BY <2>1 DEF EntryType
<1>4. \A i \in 0..Len(l) : T[i] \in Nat
  <2> DEFINE S == {i \in 0..Len(l) : T[i] \in Nat}
  <2>1. 0 \in S
    BY <1>1, <1>2
  <2>2. \A i \in 0..Len(l) : i < Len(l) /\ i \in S => i + 1 \in S
    <3> TAKE i \in 0..Len(l)
    <3> HAVE i < Len(l) /\ i \in S
    <3>1. i + 1 \in 1..Len(l) /\ (i + 1) - 1 = i /\ T[i] \in Nat
      BY <1>1
    <3>2. T[i + 1] = T[i] + l[i + 1].timeleft
      BY <1>2, <3>1
    <3> QED BY <1>3, <3>1, <3>2, WrapAssumption
  <2>3. \A i \in 0..Len(l) : i \in S
    <3> HIDE DEF S
    <3> QED BY <1>1, <2>1, <2>2, UpTo
  <2> QED BY <2>3
<1>5. \A i \in 1..Len(l) : T[i - 1] <= T[i]
  <2> TAKE i \in 1..Len(l)
  <2>1. T[i - 1] \in Nat /\ l[i].timeleft \in Nat
    BY <1>1, <1>3, <1>4, WrapAssumption
  <2> QED BY <1>2, <2>1
<1> QED BY <1>1, <1>2, <1>3, <1>4, <1>5 DEF T

\* Behind a, the entries of m up to b are those of l, s further on; the sums are
\* c apart at a.  So they are up to b.
Aligned(l, m, a, b, s, c) ==
  /\ l \in Seq(EntryType) /\ m \in Seq(EntryType)
  /\ a \in Nat /\ b \in Nat /\ s \in Int /\ c \in Int
  /\ a <= b /\ b <= Len(m) /\ 0 <= a + s /\ b + s <= Len(l)
  /\ TimeLeft(m)[a] = TimeLeft(l)[a + s] + c
  /\ \A j \in a + 1..b : m[j].timeleft = l[j + s].timeleft

LEMMA Shift ==
  ASSUME NEW l, NEW m, NEW a, NEW b, NEW s, NEW c, Aligned(l, m, a, b, s, c)
  PROVE  \A j \in a..b : TimeLeft(m)[j] = TimeLeft(l)[j + s] + c
<1>0. /\ l \in Seq(EntryType) /\ m \in Seq(EntryType)
      /\ a \in Nat /\ b \in Nat /\ s \in Int /\ c \in Int
      /\ a <= b /\ b <= Len(m) /\ 0 <= a + s /\ b + s <= Len(l)
      /\ TimeLeft(m)[a] = TimeLeft(l)[a + s] + c
      /\ \A j \in a + 1..b : m[j].timeleft = l[j + s].timeleft
  BY DEF Aligned
<1> DEFINE T == TimeLeft(l)
           U == TimeLeft(m)
           S == {i \in 0..b - a : U[a + i] = T[a + i + s] + c}
<1>1. /\ \A i \in 0..Len(l) : T[i] \in Nat
      /\ \A i \in 1..Len(l) : T[i] = T[i - 1] + l[i].timeleft /\ l[i].timeleft \in 0..Wrap - 1
      /\ \A i \in 1..Len(m) : U[i] = U[i - 1] + m[i].timeleft
      /\ U[a] = T[a + s] + c
      /\ Len(l) \in Nat /\ Len(m) \in Nat
  BY <1>0, TimeLeftFacts
<1> HIDE DEF T, U
<1>2. 0 \in S
  BY <1>0, <1>1
<1>3. \A i \in 0..b - a : i < b - a /\ i \in S => i + 1 \in S
  <2> TAKE i \in 0..b - a
  <2> HAVE i < b - a /\ i \in S
  <2>1. /\ a + i + 1 \in a + 1..b /\ a + i + 1 \in 1..Len(m) /\ a + i + 1 + s \in 1..Len(l)
        /\ a + i + s \in 0..Len(l)
        /\ (a + i + 1) - 1 = a + i /\ (a + i + 1 + s) - 1 = a + i + s /\ a + (i + 1) = a + i + 1
        /\ i + 1 \in 0..b - a
    BY <1>0, <1>1
  <2>2. U[a + i + 1] = U[a + i] + m[a + i + 1].timeleft
    BY <1>1, <2>1
  <2>3. T[a + i + 1 + s] = T[a + i + s] + l[a + i + 1 + s].timeleft
        /\ l[a + i + 1 + s].timeleft \in 0..Wrap - 1 /\ T[a + i + s] \in Nat
    BY <1>1, <2>1
  <2>4. m[a + i + 1].timeleft = l[a + i + 1 + s].timeleft /\ U[a + i] = T[a + i + s] + c
    BY <1>0, <2>1
  <2>5. U[a + i + 1] = T[a + i + 1 + s] + c
    BY <1>0, <2>2, <2>3, <2>4, WrapAssumption
  <2> QED BY <2>1, <2>5
<1>4. \A i \in 0..b - a : i \in S
  <2> HIDE DEF S
  <2>1. b - a \in Nat
    BY <1>0
  <2> QED BY <1>2, <1>3, <2>1, UpTo
<1>5. ASSUME NEW j \in a..b PROVE U[j] = T[j + s] + c
  <2>1. j - a \in 0..b - a /\ a + (j - a) = j /\ a + (j - a) + s = j + s
    BY <1>0
  <2> QED BY <1>4, <2>1
<1> QED BY <1>5 DEF T, U

\* The sums only grow along the list.
LEMMA FirstLeast ==
  ASSUME NEW l \in Seq(EntryType), NEW i \in DOMAIN l
  PROVE  TimeLeft(l)[1] <= TimeLeft(l)[i] /\ TimeLeft(l)[1] = l[1].timeleft
<1> DEFINE T == TimeLeft(l)
           S == {j \in 0..Len(l) - 1 : T[1] <= T[j + 1]}
<1>1. Len(l) - 1 \in Nat /\ i \in 1..Len(l) /\ 1 \in DOMAIN l /\ DOMAIN l = 1..Len(l)
  OBVIOUS
<1>2. /\ T[0] = 0
      /\ \A j \in 0..Len(l) : T[j] \in Nat
      /\ \A j \in DOMAIN l : /\ T[j] = T[j - 1] + l[j].timeleft
                             /\ l[j].timeleft \in 0..Wrap - 1
                             /\ T[j - 1] <= T[j]
  BY TimeLeftFacts
<1> HIDE DEF T
<1>3. 0 \in S
  BY <1>1, <1>2
<1>4. \A j \in 0..Len(l) - 1 : j < Len(l) - 1 /\ j \in S => j + 1 \in S
  <2> TAKE j \in 0..Len(l) - 1
  <2> HAVE j < Len(l) - 1 /\ j \in S
  <2>1. j + 2 \in DOMAIN l /\ j + 1 \in 0..Len(l) /\ j + 2 \in 0..Len(l) /\ (j + 2) - 1 = j + 1
        /\ j + 1 \in 0..Len(l) - 1 /\ (j + 1) + 1 = j + 2
    BY <1>1
  <2>2. T[j + 1] <= T[j + 2] /\ T[j + 1] \in Nat /\ T[j + 2] \in Nat /\ T[1] \in Nat
    BY <1>1, <1>2, <2>1
  <2> QED BY <2>1, <2>2
<1>5. \A j \in 0..Len(l) - 1 : j \in S
  <2> HIDE DEF S
  <2> QED BY <1>1, <1>3, <1>4, UpTo
<1>6. T[1] <= T[i]
  <2>1. i - 1 \in 0..Len(l) - 1 /\ (i - 1) + 1 = i
    BY <1>1
  <2> QED BY <1>5, <2>1
<1>7. T[1] = l[1].timeleft
  BY <1>1, <1>2, WrapAssumption
<1> QED BY <1>6, <1>7 DEF T

\* Below, what the operations of the list do to the sums.
LEMMA UnlinkTimes ==
  ASSUME NEW l \in Seq(EntryType), NEW i \in DOMAIN l,
         \A j \in DOMAIN l : TimeLeft(l)[j] < Wrap
  PROVE  \A j \in 1..Len(l) - 1 : TimeLeft(Unlink(l, i))[j] = TimeLeft(l)[Above(i, j)]
<1> DEFINE m == Unlink(l, i)
           T == TimeLeft(l)
           U == TimeLeft(m)
<1>1. /\ m \in Seq(EntryType) /\ Len(m) = Len(l) - 1
      /\ \A j \in 1..Len(l) - 1 :
           m[j].timeleft = IF j = i THEN (l[j + 1].timeleft + l[i].timeleft) % Wrap
                           ELSE l[Above(i, j)].timeleft
  BY UnlinkFacts
<1>2. Len(l) \in Nat /\ i \in 1..Len(l) /\ DOMAIN l = 1..Len(l)
  OBVIOUS
<1> HIDE DEF m
<1>3. /\ T[0] = 0 /\ U[0] = 0
      /\ \A j \in 0..Len(l) : T[j] \in Nat
      /\ \A j \in 1..Len(l) : T[j] = T[j - 1] + l[j].timeleft /\ l[j].timeleft \in 0..Wrap - 1
      /\ \A j \in 1..Len(l) - 1 : U[j] = U[j - 1] + m[j].timeleft
  BY <1>1, <1>2, TimeLeftFacts
<1>4. \A j \in 0..i - 1 : U[j] = T[j]
  <2>1. \A j \in 0 + 1..i - 1 : m[j].timeleft = l[j + 0].timeleft
    BY <1>1, <1>2 DEF Above
  <2>2. \A j \in 0..i - 1 : U[j] = T[j + 0] + 0
    <3> DEFINE a == 0
               b == i - 1
               s == 0
               c == 0
    <3>1. Aligned(l, m, a, b, s, c)
      BY <1>1, <1>2, <1>3, <2>1 DEF Aligned
    <3> HIDE DEF a, b, s, c
    <3>2. \A j \in a..b : U[j] = T[j + s] + c
      BY <3>1, Shift
    <3> QED BY <3>2 DEF a, b, s, c
  <2>3. \A j \in 0..i - 1 : T[j] \in Nat
    BY <1>2, <1>3
  <2> QED BY <2>2, <2>3
<1>5. ASSUME i <= Len(l) - 1 PROVE \A j \in i..Len(l) - 1 : U[j] = T[j + 1]
  <2>1. U[i] = T[i + 1]
    <3>1. T[i + 1] = T[i - 1] + l[i].timeleft + l[i + 1].timeleft /\ T[i - 1] \in Nat
          /\ l[i].timeleft \in Nat /\ l[i + 1].timeleft \in Nat /\ T[i + 1] < Wrap
      <4>1. i \in 1..Len(l) /\ i + 1 \in 1..Len(l) /\ i - 1 \in 0..Len(l) /\ (i + 1) - 1 = i
        BY <1>2, <1>5
      <4>2. T[i + 1] = T[i] + l[i + 1].timeleft /\ T[i] = T[i - 1] + l[i].timeleft
        BY <1>3, <4>1
      <4>3. l[i].timeleft \in 0..Wrap - 1 /\ l[i + 1].timeleft \in 0..Wrap - 1 /\ T[i - 1] \in Nat
        BY <1>3, <4>1
      <4>4. T[i + 1] < Wrap
        BY <1>2, <4>1
      <4> QED BY <4>2, <4>3, <4>4, WrapAssumption
    <3>2. (l[i + 1].timeleft + l[i].timeleft) % Wrap = l[i + 1].timeleft + l[i].timeleft
      <4>1. l[i + 1].timeleft + l[i].timeleft \in 0..Wrap - 1
        BY <3>1, WrapAssumption
      <4> QED BY <4>1, WrapAssumption
    <3>3. U[i] = U[i - 1] + m[i].timeleft
          /\ m[i].timeleft = (l[i + 1].timeleft + l[i].timeleft) % Wrap /\ U[i - 1] = T[i - 1]
      BY <1>1, <1>2, <1>3, <1>4, <1>5
    <3> QED BY <3>1, <3>2, <3>3
  <2>2. \A j \in i + 1..Len(l) - 1 : m[j].timeleft = l[j + 1].timeleft
    BY <1>1, <1>2, <1>5 DEF Above
  <2>3. \A j \in i..Len(l) - 1 : U[j] = T[j + 1] + 0
    <3> DEFINE a == i
               b == Len(l) - 1
               s == 1
               c == 0
    <3>1. Aligned(l, m, a, b, s, c)
      BY <1>1, <1>2, <1>3, <1>5, <2>1, <2>2 DEF Aligned
    <3> HIDE DEF a, b, s, c
    <3>2. \A j \in a..b : U[j] = T[j + s] + c
      BY <3>1, Shift
    <3> QED BY <3>2 DEF a, b, s, c
  <2>4. \A j \in i..Len(l) - 1 : T[j + 1] \in Nat
    BY <1>2, <1>3
  <2> QED BY <2>3, <2>4
<1>6. ASSUME NEW j \in 1..Len(l) - 1 PROVE U[j] = T[Above(i, j)]
  <2>1. CASE j < i
    BY <1>2, <1>4, <2>1 DEF Above
  <2>2. CASE ~ (j < i)
    BY <1>2, <1>5, <2>2 DEF Above
  <2> QED BY <2>1, <2>2
<1> QED BY <1>6 DEF m

LEMMA LinkTimes ==
  ASSUME NEW l \in Seq(EntryType), NEW i \in 1..Len(l) + 1, NEW e \in EntryType,
         i <= Len(l) => e.timeleft <= l[i].timeleft
  PROVE  /\ TimeLeft(Link(l, i, e))[i] = TimeLeft(l)[i - 1] + e.timeleft
         /\ \A j \in 1..Len(l) + 1 :
              j # i => TimeLeft(Link(l, i, e))[j] = TimeLeft(l)[Below(i, j)]
<1> DEFINE m == Link(l, i, e)
           T == TimeLeft(l)
           U == TimeLeft(m)
<1>1. /\ m \in Seq(EntryType) /\ Len(m) = Len(l) + 1 /\ m[i] = e
      /\ \A j \in 1..Len(l) + 1 : j # i =>
           m[j].timeleft = IF j = i + 1 THEN l[i].timeleft - e.timeleft
                           ELSE l[Below(i, j)].timeleft
  BY LinkFacts
<1>2. Len(l) \in Nat /\ DOMAIN l = 1..Len(l) /\ e.timeleft \in 0..Wrap - 1
  BY DEF EntryType
<1> HIDE DEF m
<1>3. /\ T[0] = 0 /\ U[0] = 0
      /\ \A j \in 0..Len(l) : T[j] \in Nat
      /\ \A j \in 1..Len(l) : T[j] = T[j - 1] + l[j].timeleft /\ l[j].timeleft \in 0..Wrap - 1
      /\ \A j \in 1..Len(l) + 1 : U[j] = U[j - 1] + m[j].timeleft
  <2>1. DOMAIN m = 1..Len(l) + 1
    BY <1>1, <1>2
  <2>2. T[0] = 0 /\ U[0] = 0 /\ \A j \in 0..Len(l) : T[j] \in Nat
    BY <1>1, TimeLeftFacts
  <2>3. \A j \in 1..Len(l) : T[j] = T[j - 1] + l[j].timeleft /\ l[j].timeleft \in 0..Wrap - 1
    BY <1>2, TimeLeftFacts
  <2>4. \A j \in 1..Len(l) + 1 : U[j] = U[j - 1] + m[j].timeleft
    BY <1>1, <2>1, TimeLeftFacts
  <2> QED BY <2>2, <2>3, <2>4
<1>4. \A j \in 0..i - 1 : U[j] = T[j]
  <2>1. \A j \in 0 + 1..i - 1 : m[j].timeleft = l[j + 0].timeleft
    BY <1>1, <1>2 DEF Below
  <2>2. \A j \in 0..i - 1 : U[j] = T[j + 0] + 0
    <3> DEFINE a == 0
               b == i - 1
               s == 0
               c == 0
    <3>1. Aligned(l, m, a, b, s, c)
      BY <1>1, <1>2, <1>3, <2>1 DEF Aligned
    <3> HIDE DEF a, b, s, c
    <3>2. \A j \in a..b : U[j] = T[j + s] + c
      BY <3>1, Shift
    <3> QED BY <3>2 DEF a, b, s, c
  <2>3. \A j \in 0..i - 1 : T[j] \in Nat
    BY <1>2, <1>3
  <2> QED BY <2>2, <2>3
<1>5. U[i] = T[i - 1] + e.timeleft
  <2>1. i \in 1..Len(l) + 1 /\ i - 1 \in 0..i - 1
    BY <1>2
  <2> QED BY <1>1, <1>3, <1>4, <2>1
<1>6. ASSUME i <= Len(l) PROVE \A j \in i + 1..Len(l) + 1 : U[j] = T[j - 1]
  <2>1. U[i + 1] = T[i]
    <3>1. i + 1 \in 1..Len(l) + 1 /\ i + 1 # i /\ (i + 1) - 1 = i /\ i \in 1..Len(l)
          /\ i - 1 \in 0..Len(l)
      BY <1>2, <1>6
    <3>2. U[i + 1] = U[i] + m[i + 1].timeleft
      BY <1>3, <3>1
    <3>3. m[i + 1].timeleft = l[i].timeleft - e.timeleft
      BY <1>1, <3>1
    <3>4. T[i] = T[i - 1] + l[i].timeleft /\ l[i].timeleft \in 0..Wrap - 1 /\ T[i - 1] \in Nat
      BY <1>3, <3>1
    <3> QED BY <1>2, <1>5, <3>2, <3>3, <3>4, WrapAssumption
  <2>2. \A j \in i + 1 + 1..Len(l) + 1 : m[j].timeleft = l[j + -1].timeleft
    BY <1>1, <1>2, <1>6 DEF Below
  <2>3. \A j \in i + 1..Len(l) + 1 : U[j] = T[j + -1] + 0
    <3> DEFINE a == i + 1
               b == Len(l) + 1
               s == -1
               c == 0
    <3>1. Aligned(l, m, a, b, s, c)
      BY <1>1, <1>2, <1>3, <1>6, <2>1, <2>2 DEF Aligned
    <3> HIDE DEF a, b, s, c
    <3>2. \A j \in a..b : U[j] = T[j + s] + c
      BY <3>1, Shift
    <3> QED BY <3>2 DEF a, b, s, c
  <2>4. \A j \in i + 1..Len(l) + 1 : T[j - 1] \in Nat /\ j + -1 = j - 1
    BY <1>2, <1>3
  <2> QED BY <2>3, <2>4
<1>7. ASSUME NEW j \in 1..Len(l) + 1, j # i PROVE U[j] = T[Below(i, j)]
  <2>1. CASE j < i
    BY <1>2, <1>4, <2>1 DEF Below
  <2>2. CASE ~ (j < i)
    BY <1>2, <1>6, <1>7, <2>2 DEF Below
  <2> QED BY <2>1, <2>2
<1> QED BY <1>5, <1>7 DEF m

LEMMA TailTimes ==
  ASSUME NEW l \in Seq(EntryType), l # <<>>
  PROVE  \A j \in 1..Len(l) - 1 :
           TimeLeft(Tail(l))[j] = TimeLeft(l)[j + 1] - l[1].timeleft
<1> DEFINE m == Tail(l)
           T == TimeLeft(l)
           U == TimeLeft(m)
<1>1. /\ m \in Seq(EntryType) /\ Len(m) = Len(l) - 1 /\ Len(l) \in Nat /\ 1 \in DOMAIN l
      /\ DOMAIN l = 1..Len(l) /\ \A j \in 1..Len(l) - 1 : m[j] = l[j + 1]
  OBVIOUS
<1> HIDE DEF m
<1>2. /\ U[0] = 0 /\ l[1].timeleft \in 0..Wrap - 1 /\ T[1] = l[1].timeleft
      /\ \A j \in 0..Len(l) : T[j] \in Nat
  BY <1>1, TimeLeftFacts, FirstLeast
<1>3. \A j \in 0..Len(l) - 1 : U[j] = T[j + 1] + -(l[1].timeleft)
  <2> DEFINE a == 0
               b == Len(l) - 1
               s == 1
               c == -(l[1].timeleft)
  <2>1. Aligned(l, m, a, b, s, c)
    BY <1>1, <1>2, WrapAssumption DEF Aligned
  <2> HIDE DEF a, b, s, c
  <2>2. \A j \in a..b : U[j] = T[j + s] + c
    BY <2>1, Shift
  <2> QED BY <2>2 DEF a, b, s, c
<1>4. ASSUME NEW j \in 1..Len(l) - 1 PROVE U[j] = T[j + 1] - l[1].timeleft
  <2>1. j \in 0..Len(l) - 1 /\ j + 1 \in 0..Len(l)
    BY <1>1
  <2>2. T[j + 1] \in Nat /\ l[1].timeleft \in Nat
    BY <1>2, <2>1, WrapAssumption
  <2>3. U[j] = T[j + 1] + -(l[1].timeleft)
    BY <1>3, <2>1
  <2> QED BY <2>2, <2>3
<1> QED BY <1>4 DEF m

LEMMA ElapsedTimes ==
  ASSUME NEW l \in Seq(EntryType), NEW d \in Nat, l # <<>> => d <= l[1].timeleft
  PROVE  \A j \in DOMAIN l : TimeLeft(Elapsed(l, d))[j] = TimeLeft(l)[j] - d
<1> SUFFICES ASSUME NEW i \in DOMAIN l PROVE TimeLeft(Elapsed(l, d))[i] = TimeLeft(l)[i] - d
  OBVIOUS
<1> DEFINE m == Elapsed(l, d)
           T == TimeLeft(l)
           U == TimeLeft(m)
<1>1. /\ m \in Seq(EntryType) /\ Len(m) = Len(l)
      /\ \A j \in DOMAIN l :
           m[j].timeleft = IF j = 1 THEN (l[1].timeleft - d) % Wrap ELSE l[j].timeleft
  BY ElapsedFacts
<1>2. Len(l) \in Nat /\ i \in 1..Len(l) /\ DOMAIN l = 1..Len(l) /\ 1 \in DOMAIN l /\ l # <<>>
  OBVIOUS
<1> HIDE DEF m
<1>3. /\ U[1] = m[1].timeleft /\ l[1].timeleft \in 0..Wrap - 1 /\ T[1] = l[1].timeleft
      /\ \A j \in 0..Len(l) : T[j] \in Nat
  <2>1. DOMAIN m = 1..Len(l)
    BY <1>1
  <2> QED BY <1>1, <1>2, <2>1, TimeLeftFacts, FirstLeast
<1>4. m[1].timeleft = l[1].timeleft - d
  <2>1. l[1].timeleft - d \in 0..Wrap - 1
    BY <1>2, <1>3, WrapAssumption
  <2>2. (l[1].timeleft - d) % Wrap = l[1].timeleft - d
    BY <2>1, WrapAssumption
  <2> QED BY <1>1, <1>2, <2>2
<1>5. \A j \in 1..Len(l) : U[j] = T[j + 0] + -d
  <2> DEFINE a == 1
               b == Len(l)
               s == 0
               c == -d
  <2>1. U[a] = T[a + s] + c /\ c \in Int
    <3>1. U[1] = T[1] + -d /\ -d \in Int
      BY <1>3, <1>4, WrapAssumption
    <3> QED BY <3>1
  <2>2. \A j \in a + 1..b : m[j].timeleft = l[j + s].timeleft
    BY <1>1, <1>2
  <2>3. Aligned(l, m, a, b, s, c)
    BY <1>1, <1>2, <2>1, <2>2 DEF Aligned
  <2> HIDE DEF a, b, s, c
  <2>4. \A j \in a..b : U[j] = T[j + s] + c
    BY <2>3, Shift
  <2> QED BY <2>4 DEF a, b, s, c
<1>6. T[i] \in Nat /\ U[i] = T[i + 0] + -d
  BY <1>2, <1>3, <1>5
<1> QED BY <1>2, <1>6 DEF m
-----------------------------------------------------------------------------
(***************************************************************************)
(* The times the inductive invariant bounds                                *)
(***************************************************************************)
\* What the caller carries is a delay somebody asked for, less what it has passed.
ArgInv ==
  /\ (mpc = "StopXtmr" /\ then = "malloc") \/ mpc \in {"MallocTmrCb", "insert"}
       => arg.timeleft \in Delays
  /\ mpc = "walk" => arg.timeleft + TimeLeft(list)[at - 1] \in Delays

Bounded(l) == \A i \in DOMAIN l : TimeLeft(l)[i] < Wrap

LEMMA TimeParts == TimeInv <=> Bounded(list) /\ ArgInv /\ NoUnderflow
BY DEF TimeInv, Bounded, ArgInv

\* The new timer is due after the delay it was asked for, the others when they were.
LEMMA InsertTimes ==
  ASSUME IInv, TimeInv, InsertEmpty \/ InsertLink
  PROVE  \E i \in 1..Len(list) + 1, d \in Delays :
           /\ With(list', list, i, Entry(tcb, arg.key, arg.timeleft))
           /\ TimeLeft(list')[i] = d
           /\ \A j \in 1..Len(list) + 1 : j # i => TimeLeft(list')[j] = TimeLeft(list)[Below(i, j)]
<1> DEFINE e == Entry(tcb, arg.key, arg.timeleft)
<1>1. e \in EntryType /\ e.timeleft = arg.timeleft /\ list \in Seq(EntryType)
  BY InsertAt, ListInv DEF InsertEmpty, InsertLink, Entry
<1>2. CASE InsertEmpty
  <2>1. list = <<>> /\ list' = <<e>> /\ arg.timeleft \in Delays
    BY <1>2 DEF InsertEmpty, TimeInv
  <2> HIDE DEF e
  <2>2. With(list', list, 1, e)
    BY <1>1, <2>1 DEF With
  <2>3. list' \in Seq(EntryType) /\ Len(list') = 1 /\ list'[1] = e
    BY <1>1, <2>1
  <2>4. TimeLeft(list')[1] = e.timeleft
    BY <2>3, FirstLeast
  <2>5. Len(list) + 1 = 1
    BY <2>1
  <2> QED BY <1>1, <2>1, <2>2, <2>4, <2>5 DEF e
<1>3. CASE InsertLink
  <2>1. /\ at \in 1..Len(list) + 1 /\ list' = Link(list, at, e)
        /\ at <= Len(list) => e.timeleft <= list[at].timeleft
    BY <1>1, <1>3, InsertAt DEF InsertLink
  <2>2. arg.timeleft + TimeLeft(list)[at - 1] \in Delays
    BY <1>3 DEF InsertLink, TimeInv
  <2> HIDE DEF e
  <2>3. With(list', list, at, e)
    BY <1>1, <2>1, LinkFacts DEF With
  <2>4. /\ TimeLeft(list')[at] = TimeLeft(list)[at - 1] + e.timeleft
        /\ \A j \in 1..Len(list) + 1 : j # at => TimeLeft(list')[j] = TimeLeft(list)[Below(at, j)]
    BY <1>1, <2>1, LinkTimes
  <2>5. TimeLeft(list)[at - 1] \in Nat /\ e.timeleft \in Nat
    <3>1. at - 1 \in 0..Len(list)
      BY <1>1, <2>1
    <3>2. TimeLeft(list)[at - 1] \in Nat
      BY <1>1, <3>1, TimeLeftFacts
    <3>3. e.timeleft \in Nat
      BY <1>1, WrapAssumption DEF EntryType
    <3> QED BY <3>2, <3>3
  <2>6. TimeLeft(list')[at] = arg.timeleft + TimeLeft(list)[at - 1]
    BY <1>1, <2>4, <2>5
  <2> QED BY <2>1, <2>2, <2>3, <2>4, <2>6 DEF e
<1> QED BY <1>2, <1>3

LEMMA InsertBound ==
  ASSUME IInv, TimeInv, InsertEmpty \/ InsertLink
  PROVE  Bounded(list') /\ NoUnderflow'
<1> DEFINE e == Entry(tcb, arg.key, arg.timeleft)
<1>1. PICK i \in 1..Len(list) + 1, d \in Delays :
        /\ With(list', list, i, e)
        /\ TimeLeft(list')[i] = d
        /\ \A j \in 1..Len(list) + 1 : j # i => TimeLeft(list')[j] = TimeLeft(list)[Below(i, j)]
  BY InsertTimes
<1> HIDE DEF e
<1>2. /\ list' \in Seq(EntryType) /\ Len(list') = Len(list) + 1 /\ DOMAIN list' = 1..Len(list) + 1
      /\ list \in Seq(EntryType) /\ Len(list) \in Nat /\ DOMAIN list = 1..Len(list)
  BY <1>1, ListInv DEF With
<1>3. \A j \in 1..Len(list) + 1 : j # i => Below(i, j) \in DOMAIN list
  BY <1>2 DEF Below
<1>4. Bounded(list')
  <2> SUFFICES ASSUME NEW j \in 1..Len(list) + 1 PROVE TimeLeft(list')[j] < Wrap
    BY <1>2 DEF Bounded
  <2>1. CASE j = i
    BY <1>1, <2>1, DelayAssumption, WrapAssumption
  <2>2. CASE j # i
    BY <1>1, <1>3, <2>2, TimeParts DEF Bounded
  <2> QED BY <2>1, <2>2
<1>5. NoUnderflow'
  <2>1. tpc' = tpc /\ delta' = delta /\ delta \in 0..MaxDelta /\ d >= MaxDelta /\ d \in Nat
    BY SliceAssumption, DelayAssumption, WrapAssumption
    DEF InsertEmpty, InsertLink, IInv, TypeOK
  <2>2. 1 \in DOMAIN list' /\ 1 \in 1..Len(list) + 1
    BY <1>2
  <2>3. list'[1].timeleft = TimeLeft(list')[1]
    BY <1>2, <2>2, FirstLeast
  <2>4. CASE i = 1
    <3>1. list'[1].timeleft = d
      BY <1>1, <2>3, <2>4
    <3>2. d >= delta
      BY <2>1, DeltaAssumption
    <3> QED BY <2>1, <3>1, <3>2 DEF NoUnderflow
  <2>5. CASE i # 1
    <3>1. Below(i, 1) = 1 /\ 1 \in DOMAIN list /\ list # <<>>
      BY <1>2, <2>5 DEF Below
    <3>2. list'[1].timeleft = list[1].timeleft
      BY <1>1, <1>2, <2>2, <2>3, <2>5, <3>1, FirstLeast
    <3> QED BY <2>1, <3>1, <3>2, TimeParts DEF NoUnderflow
  <2> QED BY <2>4, <2>5
<1> QED BY <1>4, <1>5

LEMMA UnlinkBound ==
  ASSUME IInv, TimeInv, NEW i \in DOMAIN list, list' = Unlink(list, i), UNCHANGED <<tpc, delta>>
  PROVE  Bounded(list') /\ NoUnderflow'
<1>1. /\ list' \in Seq(EntryType) /\ DOMAIN list' = 1..Len(list) - 1
      /\ \A j \in 1..Len(list) - 1 : Above(i, j) \in DOMAIN list
      /\ \A j \in 1..Len(list) - 1 : TimeLeft(list')[j] = TimeLeft(list)[Above(i, j)]
      /\ list \in Seq(EntryType)
  BY ListInv, UnlinkFacts, UnlinkTimes, TimeParts DEF Bounded
<1>2. Bounded(list')
  BY <1>1, TimeParts DEF Bounded
<1>3. ASSUME list' # <<>> PROVE list[1].timeleft <= list'[1].timeleft /\ list # <<>>
  <2>1. 1 \in DOMAIN list' /\ 1 \in 1..Len(list) - 1
    BY <1>1, <1>3
  <2>2. list'[1].timeleft = TimeLeft(list)[Above(i, 1)] /\ Above(i, 1) \in DOMAIN list
    BY <1>1, <2>1, FirstLeast
  <2> QED BY <1>1, <2>2, FirstLeast
<1>4. NoUnderflow'
  <2> SUFFICES ASSUME tpc = "settle", list' # <<>> PROVE list'[1].timeleft >= delta
    BY DEF NoUnderflow
  <2>1. list[1].timeleft >= delta /\ list[1].timeleft <= list'[1].timeleft
    BY <1>3, TimeParts DEF NoUnderflow
  <2>2. delta \in Nat
    BY DeltaAssumption DEF IInv, TypeOK
  <2>3. 1 \in DOMAIN list /\ 1 \in DOMAIN list'
    BY <1>1, <1>3
  <2>4. list[1].timeleft \in Nat /\ list'[1].timeleft \in Nat
    BY <1>1, <2>3, TimeLeftFacts, WrapAssumption
  <2> QED BY <2>1, <2>2, <2>4
<1> QED BY <1>2, <1>4

\* The steps that leave the list alone.
LEMMA SameListTimes ==
  ASSUME TimeInv, list' = list, tpc' = "settle" => tpc = "settle" /\ delta' = delta
  PROVE  Bounded(list') /\ NoUnderflow'
BY TimeParts DEF NoUnderflow

LEMMA TimesInit == Init => TimeInv
<1> SUFFICES ASSUME Init PROVE TimeInv
  OBVIOUS
<1>1. list = <<>> /\ mpc = "idle" /\ tpc = "top"
  BY DEF Init
<1> QED BY <1>1 DEF TimeInv, NoUnderflow

\* The list and the sums on it, by what a step does to them.
LEMMA TimesStep == IInv /\ TimeInv /\ [Next]_vars => Bounded(list') /\ NoUnderflow'
<1> SUFFICES ASSUME IInv, TimeInv, [Next]_vars PROVE Bounded(list') /\ NoUnderflow'
  OBVIOUS
<1>0. list \in Seq(EntryType) /\ Bounded(list) /\ NoUnderflow /\ delta \in Nat
      /\ delta \in 0..MaxDelta
  BY ListInv, TimeParts, DeltaAssumption DEF IInv, TypeOK
<1>1. CASE InsertEmpty \/ InsertLink
  BY <1>1, InsertBound
<1>2. CASE StopTmrsDelete
  <2>1. at \in DOMAIN list /\ list' = Unlink(list, at) /\ UNCHANGED <<tpc, delta>>
    BY <1>2 DEF StopTmrsDelete
  <2> QED BY <2>1, UnlinkBound
<1>3. CASE StopXtmr
  <2>1. UNCHANGED <<tpc, delta>>
    BY <1>3 DEF StopXtmr
  <2>2. CASE list' = list
    BY <2>1, <2>2, SameListTimes
  <2>3. CASE list' # list
    <3>1. (\E i \in DOMAIN list : KeyAt(i) = arg.key) /\ list' = Unlink(list, First(arg.key))
      BY <1>3, <2>3 DEF StopXtmr
    <3>2. First(arg.key) \in DOMAIN list
      BY <3>1, FirstFacts
    <3> QED BY <2>1, <3>1, <3>2, UnlinkBound
  <2> QED BY <2>2, <2>3
<1>4. CASE Call \/ StopTmrsSkip \/ StopTmrsReturn \/ MallocTmrCb \/ InsertBegin \/ InsertWalk
           \/ Signal \/ ReceiveMail \/ OthersSend \/ CallerP \/ TaskP \/ UNCHANGED vars
  <2>1. list' = list /\ delta' = delta
    BY <1>4 DEF Call, CallStartTmr, CallStopXtmr, CallStopTmrs, StopTmrsSkip, StopTmrsReturn,
       MallocTmrCb, InsertBegin, InsertWalk, Signal, ReceiveMail, OthersSend, CallerP, TaskP, vars
  <2>2. tpc' = tpc \/ tpc' \in {"woken", "scan"}
    BY <1>4 DEF Call, CallStartTmr, CallStopXtmr, CallStopTmrs, StopTmrsSkip, StopTmrsReturn,
       MallocTmrCb, InsertBegin, InsertWalk, Signal, ReceiveMail, OthersSend, CallerP, TaskP, vars
  <2> QED BY <2>1, <2>2, SameListTimes
<1>5. CASE Top \/ Pause \/ Woken \/ Sleep \/ Send
  <2>1. list' = list /\ tpc' # "settle"
    BY <1>5 DEF Top, Pause, Woken, Sleep, Send, TaskV
  <2> QED BY <2>1, SameListTimes
<1>6. CASE ScanExit
  <2>1. list' = list /\ delta' = delta /\ (list # <<>> => ~ (list[1].timeleft <= delta))
    BY <1>6 DEF ScanExit, TaskV, Due
  <2>2. list # <<>> => list[1].timeleft \in Nat
    <3> HAVE list # <<>>
    <3>1. 1 \in DOMAIN list
      BY <1>0
    <3> QED BY <1>0, <3>1, TimeLeftFacts, WrapAssumption
  <2>3. list # <<>> => list[1].timeleft >= delta
    BY <1>0, <2>1, <2>2
  <2> QED BY <1>0, <2>1, <2>3 DEF NoUnderflow
<1>7. CASE ScanPop
  <2>1. list # <<>> /\ list' = Tail(list) /\ tpc' = "send"
    BY <1>7 DEF ScanPop, Due, TaskV
  <2>2. /\ 1 \in DOMAIN list /\ Len(list) \in Nat /\ DOMAIN list = 1..Len(list)
        /\ DOMAIN list' = 1..Len(list) - 1
    BY <1>0, <2>1
  <2>3. ASSUME NEW j \in DOMAIN list' PROVE TimeLeft(list')[j] < Wrap
    <3>1. TimeLeft(list')[j] = TimeLeft(list)[j + 1] - list[1].timeleft
      BY <1>0, <2>1, <2>2, TailTimes
    <3>2. TimeLeft(list)[j + 1] < Wrap /\ TimeLeft(list)[j + 1] \in Nat
          /\ list[1].timeleft \in Nat
      <4>1. j + 1 \in DOMAIN list /\ j + 1 \in 0..Len(list)
        BY <2>2
      <4> QED BY <1>0, <2>2, <4>1, TimeLeftFacts, WrapAssumption DEF Bounded
    <3> QED BY <3>1, <3>2, WrapAssumption
  <2> QED BY <2>1, <2>3 DEF Bounded, NoUnderflow
<1>8. CASE Settle
  <2>1. list' = Elapsed(list, delta) /\ tpc' = "top" /\ tpc = "settle"
    BY <1>8 DEF Settle, TaskV
  <2>2. list # <<>> => delta <= list[1].timeleft
    <3> HAVE list # <<>>
    <3>1. 1 \in DOMAIN list
      BY <1>0
    <3>2. list[1].timeleft \in Nat
      BY <1>0, <3>1, TimeLeftFacts, WrapAssumption
    <3> QED BY <1>0, <2>1, <3>2 DEF NoUnderflow
  <2>3. DOMAIN list' = DOMAIN list /\ DOMAIN list = 1..Len(list)
    BY <1>0, <2>1, ElapsedFacts
  <2>4. ASSUME NEW j \in DOMAIN list' PROVE TimeLeft(list')[j] < Wrap
    <3>1. TimeLeft(list')[j] = TimeLeft(list)[j] - delta
      BY <1>0, <2>1, <2>2, <2>3, ElapsedTimes
    <3>2. TimeLeft(list)[j] < Wrap /\ TimeLeft(list)[j] \in Nat
      BY <1>0, <2>3, TimeLeftFacts DEF Bounded
    <3> QED BY <1>0, <3>1, <3>2, WrapAssumption
  <2> QED BY <2>1, <2>4 DEF Bounded, NoUnderflow
<1>9. CASE tmrInit
  <2>1. list' = <<>> /\ tpc' = "top"
    BY <1>9 DEF tmrInit
  <2> QED BY <2>1 DEF Bounded, NoUnderflow
<1> QED BY <1>1, <1>2, <1>3, <1>4, <1>5, <1>6, <1>7, <1>8, <1>9 DEF Next, Caller, Task

LEMMA ArgStep == IInv /\ TimeInv /\ [Next]_vars => ArgInv'
<1> SUFFICES ASSUME IInv, TimeInv, [Next]_vars PROVE ArgInv'
  OBVIOUS
<1>1. CASE Call
  BY <1>1 DEF Call, CallStartTmr, CallStopXtmr, CallStopTmrs, ArgInv
<1>2. CASE InsertBegin
  <2>1. at' - 1 = 0 /\ list' = list /\ list \in Seq(EntryType) /\ mpc' = "walk"
        /\ arg' = arg /\ arg.timeleft \in Delays
    BY <1>2, ListInv DEF InsertBegin, TimeInv
  <2>2. TimeLeft(list)[0] = 0
    BY <2>1, TimeLeftFacts
  <2>3. arg.timeleft \in Int
    <3>1. \A d \in Delays : d \in Int
      BY DelayAssumption, WrapAssumption
    <3> QED BY <2>1, <3>1
  <2>4. arg'.timeleft + TimeLeft(list')[at' - 1] = arg.timeleft
    BY <2>1, <2>2, <2>3
  <2> QED BY <2>1, <2>4 DEF ArgInv
<1>3. CASE InsertWalk
  <2>1. /\ at' = at + 1 /\ list' = list /\ list \in Seq(EntryType) /\ mpc' = mpc /\ mpc = "walk"
        /\ at \in DOMAIN list /\ arg' = [arg EXCEPT !.timeleft = @ - list[at].timeleft]
        /\ arg \in [key : Keys, timeleft : 0..Wrap - 1]
        /\ arg.timeleft + TimeLeft(list)[at - 1] \in Delays
    BY <1>3, ListInv DEF InsertWalk, GoesOn, TimeInv, IInv, TypeOK
  <2>2. at' - 1 = at /\ at - 1 \in 0..Len(list) /\ arg'.timeleft = arg.timeleft - list[at].timeleft
    BY <2>1
  <2>3. /\ TimeLeft(list)[at] = TimeLeft(list)[at - 1] + list[at].timeleft
        /\ TimeLeft(list)[at - 1] \in Nat /\ list[at].timeleft \in 0..Wrap - 1
    BY <2>1, <2>2, TimeLeftFacts
  <2>4. arg.timeleft \in 0..Wrap - 1
    BY <2>1
  <2>5. arg'.timeleft + TimeLeft(list')[at' - 1] = arg.timeleft + TimeLeft(list)[at - 1]
    BY <2>1, <2>2, <2>3, <2>4, WrapAssumption
  <2> QED BY <2>1, <2>5 DEF ArgInv
<1>4. CASE StopXtmr \/ MallocTmrCb
  BY <1>4 DEF StopXtmr, MallocTmrCb, Return, TimeInv, ArgInv
<1>5. CASE StopTmrsReturn \/ InsertEmpty \/ InsertLink \/ Signal
  BY <1>5 DEF StopTmrsReturn, InsertEmpty, InsertLink, Signal, Return, ArgInv
<1>6. CASE StopTmrsSkip \/ StopTmrsDelete
  BY <1>6 DEF StopTmrsSkip, StopTmrsDelete, callerVars, ArgInv
<1>7. CASE tmrInit
  BY <1>7 DEF tmrInit, callerVars, ArgInv
<1>8. CASE ReceiveMail \/ OthersSend \/ CallerP \/ TaskP \/ Task \/ UNCHANGED vars
  <2>1. UNCHANGED callerVars
    BY <1>8 DEF ReceiveMail, OthersSend, CallerP, TaskP, Task, Top, Pause, Woken, Sleep, ScanPop,
       ScanExit, Send, Settle, vars, callerVars
  <2>2. mpc = "walk" => list' = list
    BY <1>8 DEF ReceiveMail, OthersSend, CallerP, TaskP, Task, Top, Pause, Woken, Sleep, ScanPop,
       ScanExit, Send, Settle, TaskV, vars, IInv, LockInv
  <2> QED BY <2>1, <2>2 DEF callerVars, TimeInv, ArgInv
<1> QED BY <1>1, <1>2, <1>3, <1>4, <1>5, <1>6, <1>7, <1>8 DEF Next, Caller

LEMMA TimesNext == IInv /\ TimeInv /\ [Next]_vars => TimeInv'
<1> SUFFICES ASSUME IInv, TimeInv, [Next]_vars PROVE TimeInv'
  OBVIOUS
<1>1. Bounded(list') /\ NoUnderflow' /\ ArgInv'
  BY TimesStep, ArgStep
<1> QED BY <1>1 DEF TimeInv, Bounded, ArgInv

\* The sums along the list never wrap, through every walk that is under way and
\* every slice (insert_tmr, delete_tmr, os_tmr).
THEOREM TimesBounded == Spec => []TimeInv
BY TimesInit, TimesNext, Invariant, PTL DEF Spec

\* What is left of a slice never exceeds what the head has left, whatever the
\* caller did to the list since the scan let go of it, so the U32 of the head does
\* not wrap round (os_tmr).
THEOREM NoWrapAround == Spec => []NoUnderflow
BY TimesBounded, TimeParts, PTL
-----------------------------------------------------------------------------
(***************************************************************************)
(* The delta list as a timer service                                       *)
(***************************************************************************)
\* Remaining, of any list.
RemainingOf(l) ==
  [k \in KeysOn(l) |->
     TimeLeft(l)[CHOOSE i \in DOMAIN l : l[i].key = k /\ \A j \in 1..i - 1 : l[j].key # k]]

LEMMA RemainingIs == Remaining = RemainingOf(list) /\ Remaining' = RemainingOf(list')
BY DEF Remaining, RemainingOf, First, KeyAt, KeysOn

\* With one entry per key, it is what each entry has left.
LEMMA RemainingFacts ==
  ASSUME NEW l \in Seq(EntryType), Distinct(l)
  PROVE  /\ DOMAIN RemainingOf(l) = KeysOn(l)
         /\ \A i \in DOMAIN l : /\ l[i].key \in KeysOn(l)
                                /\ RemainingOf(l)[l[i].key] = TimeLeft(l)[i]
<1>1. ASSUME NEW i \in DOMAIN l PROVE RemainingOf(l)[l[i].key] = TimeLeft(l)[i]
  <2> DEFINE P(h) == h \in DOMAIN l /\ l[h].key = l[i].key /\ \A j \in 1..h - 1 : l[j].key # l[i].key
  <2>1. P(i)
    <3>1. \A j \in 1..i - 1 : j \in DOMAIN l /\ j # i
      OBVIOUS
    <3> QED BY <3>1 DEF Distinct
  <2>2. \A h : P(h) => h = i
    BY DEF Distinct
  <2>3. (CHOOSE h \in DOMAIN l : l[h].key = l[i].key /\ \A j \in 1..h - 1 : l[j].key # l[i].key) = i
    BY <2>1, <2>2
  <2> QED BY <2>3 DEF RemainingOf, KeysOn
<1>2. \A i \in DOMAIN l : l[i].key \in KeysOn(l)
  BY DEF KeysOn
<1> QED BY <1>1, <1>2 DEF RemainingOf

LEMMA RemainingEquals ==
  ASSUME NEW l \in Seq(EntryType), Distinct(l), NEW f, f = [k \in KeysOn(l) |-> f[k]],
         \A i \in DOMAIN l : f[l[i].key] = TimeLeft(l)[i]
  PROVE  RemainingOf(l) = f
<1>1. RemainingOf(l) = [k \in KeysOn(l) |-> RemainingOf(l)[k]]
  BY DEF RemainingOf
<1>2. ASSUME NEW k \in KeysOn(l) PROVE RemainingOf(l)[k] = f[k]
  <2>1. PICK i \in DOMAIN l : l[i].key = k
    BY DEF KeysOn
  <2> QED BY <2>1, RemainingFacts
<1> HIDE DEF RemainingOf
<1> QED BY <1>1, <1>2

\* The actions of TimerService, as the library's lists show them.
LEMMA ServiceIs ==
  /\ Service!Init <=> Remaining = [k \in {} |-> 0]
  /\ UNCHANGED Remaining => [Service!Next]_Remaining
BY DEF Service!Init

LEMMA ServiceStart ==
  ASSUME NEW k \in Keys, NEW d \in Delays, list \in Seq(EntryType), Distinct(list),
         k \notin KeysOn(list),
         RemainingOf(list') =
           [j \in KeysOn(list) \cup {k} |-> IF j = k THEN d ELSE RemainingOf(list)[j]]
  PROVE  Service!Next
<1>1. DOMAIN Remaining = KeysOn(list)
  BY RemainingIs, RemainingFacts
<1>2. Service!Start(k, d)
  BY <1>1, RemainingIs DEF Service!Start, Service!Running
<1> QED BY <1>2 DEF Service!Next

LEMMA ServiceStop ==
  ASSUME NEW k \in Keys, list \in Seq(EntryType), Distinct(list),
         k \in KeysOn(list),
         RemainingOf(list') = [j \in KeysOn(list) \ {k} |-> RemainingOf(list)[j]]
  PROVE  Service!Next
<1>1. DOMAIN Remaining = KeysOn(list)
  BY RemainingIs, RemainingFacts
<1>2. Service!Stop(k)
  BY <1>1, RemainingIs DEF Service!Stop, Service!Running
<1> QED BY <1>2 DEF Service!Next

LEMMA ServiceExpire ==
  ASSUME NEW k \in Keys, list \in Seq(EntryType), Distinct(list),
         k \in KeysOn(list), RemainingOf(list)[k] <= MaxDelta,
         \A j \in KeysOn(list) : RemainingOf(list)[j] >= RemainingOf(list)[k],
         RemainingOf(list') =
           [j \in KeysOn(list) \ {k} |-> RemainingOf(list)[j] - RemainingOf(list)[k]]
  PROVE  Service!Next
<1>1. DOMAIN Remaining = KeysOn(list)
  BY RemainingIs, RemainingFacts
<1>2. Service!Expire(k)
  BY <1>1, RemainingIs DEF Service!Expire, Service!Running
<1> QED BY <1>2 DEF Service!Next

LEMMA ServiceCount ==
  ASSUME NEW d \in 0..MaxDelta, list \in Seq(EntryType), Distinct(list),
         \A j \in KeysOn(list) : RemainingOf(list)[j] >= d,
         RemainingOf(list') = [j \in KeysOn(list) |-> RemainingOf(list)[j] - d]
  PROVE  Service!Next
<1>1. DOMAIN Remaining = KeysOn(list)
  BY RemainingIs, RemainingFacts
<1>2. Service!Count(d)
  BY <1>1, RemainingIs DEF Service!Count, Service!Running
<1> QED BY <1>2 DEF Service!Next

LEMMA ServiceReset ==
  ASSUME list' = <<>>
  PROVE  Service!Next
<1>1. KeysOn(<<>>) = {}
  BY DEF KeysOn
<1>2. Remaining' = [k \in {} |-> 0]
  BY <1>1, RemainingIs DEF RemainingOf
<1> QED BY <1>2 DEF Service!Next, Service!Reset

LEMMA ServiceInit == Init => Service!Init
<1> SUFFICES ASSUME Init PROVE Service!Init
  OBVIOUS
<1>1. KeysOn(list) = {}
  BY DEF Init, KeysOn
<1>2. Remaining = [k \in {} |-> 0]
  BY <1>1, RemainingIs DEF RemainingOf
<1> QED BY <1>2, ServiceIs

\* An entry taken off the list is a timer stopped.
LEMMA UnlinkStops ==
  ASSUME IInv, TimeInv, NEW i \in DOMAIN list
  PROVE  list' = Unlink(list, i) => Service!Next
<1>0. SUFFICES ASSUME list' = Unlink(list, i) PROVE Service!Next
  OBVIOUS
<1> DEFINE k == list[i].key
           f == [j \in KeysOn(list) \ {k} |-> RemainingOf(list)[j]]
<1>1. /\ list \in Seq(EntryType) /\ Distinct(list) /\ k \in Keys /\ k \in KeysOn(list)
      /\ \A j \in DOMAIN list : RemainingOf(list)[list[j].key] = TimeLeft(list)[j]
  BY ListInv, OnTheList, RemainingFacts
<1>2. /\ list' \in Seq(EntryType) /\ DOMAIN list' = 1..Len(list) - 1
      /\ \A j \in 1..Len(list) - 1 : /\ Above(i, j) \in DOMAIN list
                                     /\ list'[j].key = list[Above(i, j)].key
                                     /\ TimeLeft(list')[j] = TimeLeft(list)[Above(i, j)]
  BY <1>0, <1>1, UnlinkFacts, UnlinkTimes, TimeParts DEF Bounded
<1>3. Distinct(list') /\ KeysOn(list') = KeysOn(list) \ {k}
  BY <1>0, <1>1, UnlinkWithout, WithoutFacts
<1>4. \A j \in DOMAIN list' : f[list'[j].key] = TimeLeft(list')[j]
  <2> TAKE j \in DOMAIN list'
  <2>1. list'[j].key \in KeysOn(list) \ {k}
    BY <1>2, <1>3, RemainingFacts
  <2> QED BY <1>1, <1>2, <2>1
<1>5. f = [j \in KeysOn(list') |-> f[j]]
  BY <1>3
<1>6. RemainingOf(list') = f
  <2> HIDE DEF f
  <2>1. list' \in Seq(EntryType) /\ Distinct(list')
    BY <1>2, <1>3
  <2> QED BY <1>4, <1>5, <2>1, RemainingEquals
<1> QED BY <1>1, <1>6, ServiceStop

LEMMA InsertStarts ==
  ASSUME IInv, TimeInv, InsertEmpty \/ InsertLink
  PROVE  Service!Next
<1> DEFINE e == Entry(tcb, arg.key, arg.timeleft)
           k == arg.key
<1>1. PICK i \in 1..Len(list) + 1, d \in Delays :
        /\ With(list', list, i, e)
        /\ TimeLeft(list')[i] = d
        /\ \A j \in 1..Len(list) + 1 : j # i => TimeLeft(list')[j] = TimeLeft(list)[Below(i, j)]
  BY InsertTimes
<1>2. e.key = k /\ e.tcb = tcb
  BY DEF Entry
<1> HIDE DEF e
<1> DEFINE f == [j \in KeysOn(list) \cup {k} |-> IF j = k THEN d ELSE RemainingOf(list)[j]]
<1>3. /\ list \in Seq(EntryType) /\ Distinct(list) /\ Len(list) \in Nat
      /\ DOMAIN list = 1..Len(list)
      /\ \A j \in DOMAIN list : /\ RemainingOf(list)[list[j].key] = TimeLeft(list)[j]
                                /\ list[j].key \in KeysOn(list)
  BY ListInv, RemainingFacts
<1>4. k \in Keys /\ k \notin KeysOn(list) /\ tcb \notin Blocks(list)
  BY InsertKeys, ListInv
<1>5. Distinct(list') /\ KeysOn(list') = KeysOn(list) \cup {k}
  BY <1>1, <1>2, <1>3, <1>4, WithFacts
<1>6. /\ list' \in Seq(EntryType) /\ DOMAIN list' = 1..Len(list) + 1 /\ list'[i].key = k
      /\ \A j \in 1..Len(list) + 1 : j # i => /\ Below(i, j) \in DOMAIN list
                                              /\ list'[j].key = list[Below(i, j)].key
  BY <1>1, <1>2, <1>3 DEF With, Below
<1>7. \A j \in DOMAIN list' : f[list'[j].key] = TimeLeft(list')[j]
  <2> TAKE j \in DOMAIN list'
  <2>1. CASE j = i
    BY <1>1, <1>6, <2>1
  <2>2. CASE j # i
    <3>1. /\ list'[j].key \in KeysOn(list)
          /\ RemainingOf(list)[list'[j].key] = TimeLeft(list)[Below(i, j)]
      BY <1>3, <1>6, <2>2
    <3>2. list'[j].key # k
      BY <1>4, <3>1
    <3> QED BY <1>1, <1>6, <2>2, <3>1, <3>2
  <2> QED BY <2>1, <2>2
<1>8. f = [j \in KeysOn(list') |-> f[j]]
  BY <1>5
<1>9. RemainingOf(list') = f
  <2> HIDE DEF f
  <2> QED BY <1>5, <1>6, <1>7, <1>8, RemainingEquals
<1> QED BY <1>3, <1>4, <1>9, ServiceStart

\* The head taken off by the task is the first due, and its time is counted for the
\* others.
LEMMA PopExpires ==
  ASSUME IInv, TimeInv, ScanPop
  PROVE  Service!Next
<1> DEFINE k == list[1].key
           f == [j \in KeysOn(list) \ {k} |-> RemainingOf(list)[j] - RemainingOf(list)[k]]
<1>1. list # <<>> /\ list[1].timeleft <= delta /\ list' = Tail(list)
  BY DEF ScanPop, Due
<1>2. /\ list \in Seq(EntryType) /\ Distinct(list) /\ 1 \in DOMAIN list
      /\ Len(list) \in Nat /\ DOMAIN list = 1..Len(list)
  BY <1>1, ListInv
<1>3. \A j \in DOMAIN list : RemainingOf(list)[list[j].key] = TimeLeft(list)[j]
  BY <1>2, RemainingFacts
<1>4. /\ k \in Keys /\ k \in KeysOn(list) /\ RemainingOf(list)[k] = list[1].timeleft
      /\ list[1].timeleft \in 0..Wrap - 1
  BY <1>2, <1>3, OnTheList, FirstLeast, TimeLeftFacts
<1>5. RemainingOf(list)[k] <= MaxDelta
  <2>1. delta \in 0..MaxDelta
    BY DEF IInv, TypeOK
  <2> QED BY <1>1, <1>4, <2>1, DeltaAssumption, WrapAssumption
<1>6. \A j \in KeysOn(list) : RemainingOf(list)[j] >= RemainingOf(list)[k]
  <2> TAKE j \in KeysOn(list)
  <2>1. PICK i \in DOMAIN list : list[i].key = j
    BY DEF KeysOn
  <2>2. RemainingOf(list)[j] = TimeLeft(list)[i] /\ TimeLeft(list)[i] \in Nat
    BY <1>2, <1>3, <2>1, TimeLeftFacts
  <2>3. RemainingOf(list)[k] <= TimeLeft(list)[i] /\ RemainingOf(list)[k] \in Nat
    BY <1>2, <1>4, <2>1, FirstLeast, WrapAssumption
  <2> QED BY <2>2, <2>3
<1>7. Distinct(list') /\ KeysOn(list') = KeysOn(list) \ {k} /\ list' \in Seq(EntryType)
  BY <1>1, <1>2, TailWithout, WithoutFacts
<1>8. \A j \in DOMAIN list' : f[list'[j].key] = TimeLeft(list')[j]
  <2> TAKE j \in DOMAIN list'
  <2>1. j \in 1..Len(list) - 1 /\ j + 1 \in DOMAIN list /\ list'[j] = list[j + 1]
    BY <1>1, <1>2
  <2>2. list'[j].key \in KeysOn(list) \ {k}
    BY <1>7, RemainingFacts
  <2>3. TimeLeft(list')[j] = TimeLeft(list)[j + 1] - list[1].timeleft
    BY <1>1, <1>2, <2>1, TailTimes
  <2>4. RemainingOf(list)[list'[j].key] = TimeLeft(list)[j + 1]
    BY <1>3, <2>1
  <2> QED BY <1>4, <2>2, <2>3, <2>4
<1>9. f = [j \in KeysOn(list') |-> f[j]]
  BY <1>7
<1>10. RemainingOf(list') = f
  <2> HIDE DEF f
  <2> QED BY <1>7, <1>8, <1>9, RemainingEquals
<1> QED BY <1>2, <1>4, <1>5, <1>6, <1>10, ServiceExpire

LEMMA SettleCounts ==
  ASSUME IInv, TimeInv, Settle
  PROVE  Service!Next
<1> DEFINE f == [j \in KeysOn(list) |-> RemainingOf(list)[j] - delta]
<1>1. list' = Elapsed(list, delta) /\ tpc = "settle"
  BY DEF Settle, TaskV
<1>2. /\ list \in Seq(EntryType) /\ Distinct(list) /\ delta \in 0..MaxDelta /\ delta \in Nat
      /\ DOMAIN list = 1..Len(list) /\ Len(list) \in Nat
  BY ListInv, DeltaAssumption DEF IInv, TypeOK
<1>3. \A j \in DOMAIN list : RemainingOf(list)[list[j].key] = TimeLeft(list)[j]
  BY <1>2, RemainingFacts
<1>4. ASSUME NEW i \in DOMAIN list
      PROVE  delta <= list[1].timeleft /\ delta <= TimeLeft(list)[i]
  <2>1. 1 \in DOMAIN list /\ list # <<>>
    BY <1>2
  <2>2. list[1].timeleft >= delta
    BY <1>1, <2>1, TimeParts DEF NoUnderflow
  <2>3. list[1].timeleft \in 0..Wrap - 1 /\ list[1].timeleft <= TimeLeft(list)[i]
        /\ TimeLeft(list)[i] \in Nat
    BY <1>2, <2>1, TimeLeftFacts, FirstLeast
  <2> QED BY <1>2, <2>2, <2>3, WrapAssumption
<1>5. \A j \in KeysOn(list) : RemainingOf(list)[j] >= delta
  <2> TAKE j \in KeysOn(list)
  <2>1. PICK i \in DOMAIN list : list[i].key = j
    BY DEF KeysOn
  <2>2. RemainingOf(list)[j] = TimeLeft(list)[i] /\ TimeLeft(list)[i] \in Nat
    BY <1>2, <1>3, <2>1, TimeLeftFacts
  <2> QED BY <1>2, <1>4, <2>2
<1>6. list # <<>> => delta <= list[1].timeleft
  <2> HAVE list # <<>>
  <2>1. 1 \in DOMAIN list
    BY <1>2
  <2> QED BY <1>4, <2>1
<1>7. /\ list' \in Seq(EntryType) /\ DOMAIN list' = DOMAIN list
      /\ \A j \in DOMAIN list : /\ list'[j].key = list[j].key /\ list'[j].tcb = list[j].tcb
                                /\ TimeLeft(list')[j] = TimeLeft(list)[j] - delta
  BY <1>1, <1>2, <1>6, ElapsedFacts, ElapsedTimes
<1>8. Distinct(list') /\ KeysOn(list') = KeysOn(list)
  BY <1>2, <1>7 DEF Distinct, KeysOn
<1>9. \A j \in DOMAIN list' : f[list'[j].key] = TimeLeft(list')[j]
  BY <1>2, <1>3, <1>7, <1>8, RemainingFacts
<1>10. f = [j \in KeysOn(list') |-> f[j]]
  BY <1>8
<1>11. RemainingOf(list') = f
  <2> HIDE DEF f
  <2> QED BY <1>7, <1>8, <1>9, <1>10, RemainingEquals
<1> QED BY <1>2, <1>5, <1>11, ServiceCount

LEMMA ServiceStep == IInv /\ TimeInv /\ [Next]_vars => [Service!Next]_Remaining
<1> SUFFICES ASSUME IInv, TimeInv, [Next]_vars PROVE Service!Next \/ UNCHANGED Remaining
  OBVIOUS
<1>1. CASE list' = list
  BY <1>1, RemainingIs
<1>2. CASE InsertEmpty \/ InsertLink
  BY <1>2, InsertStarts
<1>3. CASE StopTmrsDelete
  BY <1>3, UnlinkStops DEF StopTmrsDelete
<1>4. CASE StopXtmr /\ list' # list
  <2>1. (\E i \in DOMAIN list : KeyAt(i) = arg.key) /\ list' = Unlink(list, First(arg.key))
    BY <1>4 DEF StopXtmr
  <2> QED BY <2>1, FirstFacts, UnlinkStops
<1>5. CASE ScanPop
  BY <1>5, PopExpires
<1>6. CASE Settle
  BY <1>6, SettleCounts
<1>7. CASE tmrInit
  BY <1>7, ServiceReset DEF tmrInit
<1>8. CASE Call \/ StopTmrsSkip \/ StopTmrsReturn \/ MallocTmrCb \/ InsertBegin \/ InsertWalk
           \/ Signal \/ ReceiveMail \/ OthersSend \/ CallerP \/ TaskP \/ Top \/ Pause \/ Woken
           \/ Sleep \/ ScanExit \/ Send \/ UNCHANGED vars
  <2>1. list' = list
    BY <1>8 DEF Call, CallStartTmr, CallStopXtmr, CallStopTmrs, StopTmrsSkip, StopTmrsReturn,
       MallocTmrCb, InsertBegin, InsertWalk, Signal, ReceiveMail, OthersSend, CallerP, TaskP,
       Top, Pause, Woken, Sleep, ScanExit, Send, vars
  <2> QED BY <2>1, RemainingIs
<1> QED BY <1>1, <1>2, <1>3, <1>4, <1>5, <1>6, <1>7, <1>8 DEF Next, Caller, Task

\* The delta list is a timer service: a timer keeps the delay it was started with,
\* less what has been counted, and expires only when it is the first due, for any
\* number of timers, in every order of the two processes' steps (os_timer.c).
THEOREM ServiceRefined == Spec => ServiceSpec
BY ServiceInit, ServiceStep, Invariant, TimesBounded, PTL DEF Spec, ServiceSpec, Service!Spec
=============================================================================
