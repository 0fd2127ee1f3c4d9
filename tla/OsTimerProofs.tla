---------------------------- MODULE OsTimerProofs ----------------------------
(***************************************************************************)
(* The timer library for any timers, delays, slices, blocks and queue: its *)
(* control blocks are accounted for and no timer runs twice, however the   *)
(* caller and the task take turns; and the task does no more than its      *)
(* users are told (TimerTask).                                             *)
(***************************************************************************)
EXTENDS OsTimer, NatFacts

EntryType == [tcb : Tcbs, key : Keys, timeleft : 0..Wrap - 1]

\* Where the j-th entry of a list without its i-th comes from, and the j-th entry
\* of a list with one linked in front of its i-th.
Above(i, j) == IF j < i THEN j ELSE j + 1
Below(i, j) == IF j < i THEN j ELSE j - 1

\* m is l without its i-th entry, or with a block and a key more as the i-th; the
\* times are another matter.
Without(m, l, i) ==
  /\ m \in Seq(EntryType)
  /\ Len(m) = Len(l) - 1
  /\ \A j \in 1..Len(l) - 1 : /\ m[j].tcb = l[Above(i, j)].tcb
                               /\ m[j].key = l[Above(i, j)].key

With(m, l, i, e) ==
  /\ m \in Seq(EntryType)
  /\ Len(m) = Len(l) + 1
  /\ m[i].tcb = e.tcb /\ m[i].key = e.key
  /\ \A j \in 1..Len(l) + 1 : j # i => /\ m[j].tcb = l[Below(i, j)].tcb
                                        /\ m[j].key = l[Below(i, j)].key

Blocks(l) == {l[i].tcb : i \in DOMAIN l}
KeysOn(l) == {l[i].key : i \in DOMAIN l}
Distinct(l) == \A i, j \in DOMAIN l : l[i].tcb = l[j].tcb \/ l[i].key = l[j].key => i = j

LEMMA ModType == \A a \in Int : a % Wrap \in 0..Wrap - 1
BY DeltaAssumption, WrapAssumption

LEMMA UnlinkFacts ==
  ASSUME NEW l \in Seq(EntryType), NEW i \in DOMAIN l
  PROVE  /\ Unlink(l, i) \in Seq(EntryType)
         /\ Len(Unlink(l, i)) = Len(l) - 1
         /\ DOMAIN Unlink(l, i) = 1..Len(l) - 1
         /\ \A j \in 1..Len(l) - 1 :
              /\ Above(i, j) \in DOMAIN l
              /\ Unlink(l, i)[j].tcb = l[Above(i, j)].tcb
              /\ Unlink(l, i)[j].key = l[Above(i, j)].key
              /\ Unlink(l, i)[j].timeleft =
                   IF j = i THEN (l[j + 1].timeleft + l[i].timeleft) % Wrap
                   ELSE l[Above(i, j)].timeleft
<1>1. \A j \in 1..Len(l) - 1 : Above(i, j) \in DOMAIN l
  BY DEF Above
<1>2. \A j \in DOMAIN l : l[j] \in EntryType
  OBVIOUS
<1>3. ASSUME NEW j \in 1..Len(l) - 1
      PROVE  /\ Unlink(l, i)[j] \in EntryType
             /\ Unlink(l, i)[j].tcb = l[Above(i, j)].tcb
             /\ Unlink(l, i)[j].key = l[Above(i, j)].key
             /\ Unlink(l, i)[j].timeleft =
                  IF j = i THEN (l[j + 1].timeleft + l[i].timeleft) % Wrap
                  ELSE l[Above(i, j)].timeleft
  <2>1. CASE j = i
    <3> DEFINE t == (l[j + 1].timeleft + l[i].timeleft) % Wrap
    <3>1. Unlink(l, i)[j] = [l[j + 1] EXCEPT !.timeleft = t] /\ Above(i, j) = j + 1
      BY <2>1 DEF Unlink, Above
    <3>2. l[j + 1] \in EntryType /\ l[i] \in EntryType
      BY <1>1, <1>2, <2>1 DEF Above
    <3>3. l[j + 1].timeleft + l[i].timeleft \in Int
      BY <3>2, WrapAssumption DEF EntryType
    <3>4. t \in 0..Wrap - 1
      BY <3>3, ModType
    <3> HIDE DEF t
    <3>5. /\ [l[j + 1] EXCEPT !.timeleft = t] \in EntryType
          /\ [l[j + 1] EXCEPT !.timeleft = t].tcb = l[j + 1].tcb
          /\ [l[j + 1] EXCEPT !.timeleft = t].key = l[j + 1].key
          /\ [l[j + 1] EXCEPT !.timeleft = t].timeleft = t
      BY <3>2, <3>4 DEF EntryType
    <3> QED BY <2>1, <3>1, <3>5 DEF t
  <2>2. CASE j # i
    BY <1>1, <1>2, <2>2 DEF Unlink, Above
  <2> QED BY <2>1, <2>2
<1>4. Unlink(l, i) = [j \in 1..Len(l) - 1 |-> Unlink(l, i)[j]] /\ Len(l) - 1 \in Nat
  BY DEF Unlink
<1>5. Unlink(l, i) \in Seq(EntryType) /\ Len(Unlink(l, i)) = Len(l) - 1
      /\ DOMAIN Unlink(l, i) = 1..Len(l) - 1
  BY <1>3, <1>4
<1> QED BY <1>1, <1>3, <1>5

LEMMA LinkFacts ==
  ASSUME NEW l \in Seq(EntryType), NEW i \in 1..Len(l) + 1, NEW e \in EntryType,
         i <= Len(l) => e.timeleft <= l[i].timeleft
  PROVE  /\ Link(l, i, e) \in Seq(EntryType)
         /\ Len(Link(l, i, e)) = Len(l) + 1
         /\ DOMAIN Link(l, i, e) = 1..Len(l) + 1
         /\ Link(l, i, e)[i] = e
         /\ \A j \in 1..Len(l) + 1 : j # i =>
              /\ Below(i, j) \in DOMAIN l
              /\ Link(l, i, e)[j].tcb = l[Below(i, j)].tcb
              /\ Link(l, i, e)[j].key = l[Below(i, j)].key
              /\ Link(l, i, e)[j].timeleft =
                   IF j = i + 1 THEN l[i].timeleft - e.timeleft
                   ELSE l[Below(i, j)].timeleft
<1>1. \A j \in 1..Len(l) + 1 : j # i => Below(i, j) \in DOMAIN l
  BY DEF Below
<1>2. \A j \in DOMAIN l : l[j] \in EntryType
  OBVIOUS
<1>3. Link(l, i, e)[i] = e
  BY DEF Link
<1>4. ASSUME NEW j \in 1..Len(l) + 1, j # i
      PROVE  /\ Link(l, i, e)[j] \in EntryType
             /\ Link(l, i, e)[j].tcb = l[Below(i, j)].tcb
             /\ Link(l, i, e)[j].key = l[Below(i, j)].key
             /\ Link(l, i, e)[j].timeleft =
                  IF j = i + 1 THEN l[i].timeleft - e.timeleft
                  ELSE l[Below(i, j)].timeleft
  <2>1. CASE j = i + 1
    <3> DEFINE t == l[i].timeleft - e.timeleft
    <3>1. Link(l, i, e)[j] = [l[i] EXCEPT !.timeleft = t] /\ Below(i, j) = i
      BY <2>1 DEF Link, Below
    <3>2. l[i] \in EntryType /\ i <= Len(l)
      BY <1>1, <1>2, <2>1
    <3>3. t \in 0..Wrap - 1
      BY <3>2, WrapAssumption DEF EntryType
    <3> HIDE DEF t
    <3>4. /\ [l[i] EXCEPT !.timeleft = t] \in EntryType
          /\ [l[i] EXCEPT !.timeleft = t].tcb = l[i].tcb
          /\ [l[i] EXCEPT !.timeleft = t].key = l[i].key
          /\ [l[i] EXCEPT !.timeleft = t].timeleft = t
      BY <3>2, <3>3 DEF EntryType
    <3> QED BY <2>1, <3>1, <3>4 DEF t
  <2>2. CASE j # i + 1
    BY <1>1, <1>2, <1>4, <2>2 DEF Link, Below
  <2> QED BY <2>1, <2>2
<1>5. Link(l, i, e) = [j \in 1..Len(l) + 1 |-> Link(l, i, e)[j]] /\ Len(l) + 1 \in Nat
  BY DEF Link
<1>6. Link(l, i, e) \in Seq(EntryType) /\ Len(Link(l, i, e)) = Len(l) + 1
      /\ DOMAIN Link(l, i, e) = 1..Len(l) + 1
  BY <1>3, <1>4, <1>5
<1> QED BY <1>1, <1>3, <1>4, <1>6

LEMMA ElapsedFacts ==
  ASSUME NEW l \in Seq(EntryType), NEW d \in Int
  PROVE  /\ Elapsed(l, d) \in Seq(EntryType)
         /\ Len(Elapsed(l, d)) = Len(l)
         /\ \A i \in DOMAIN l :
              /\ Elapsed(l, d)[i].tcb = l[i].tcb
              /\ Elapsed(l, d)[i].key = l[i].key
              /\ Elapsed(l, d)[i].timeleft =
                   IF i = 1 THEN (l[1].timeleft - d) % Wrap ELSE l[i].timeleft
<1>1. CASE l = <<>>
  BY <1>1 DEF Elapsed
<1>2. CASE l # <<>>
  <2> DEFINE t == (l[1].timeleft - d) % Wrap
             e == [l[1] EXCEPT !.timeleft = t]
  <2>1. l[1] \in EntryType /\ 1 \in DOMAIN l
    BY <1>2
  <2>2. l[1].timeleft - d \in Int
    BY <2>1, WrapAssumption DEF EntryType
  <2>3. t \in 0..Wrap - 1
    BY <2>2, ModType
  <2>4. Elapsed(l, d) = [l EXCEPT ![1] = e]
    BY <1>2 DEF Elapsed
  <2> HIDE DEF t
  <2>5. e \in EntryType /\ e.tcb = l[1].tcb /\ e.key = l[1].key /\ e.timeleft = t
    BY <2>1, <2>3 DEF EntryType
  <2> HIDE DEF e
  <2> QED BY <2>1, <2>4, <2>5 DEF t
<1> QED BY <1>1, <1>2

LEMMA UnlinkWithout ==
  ASSUME NEW l \in Seq(EntryType), NEW i \in DOMAIN l
  PROVE  Without(Unlink(l, i), l, i)
BY UnlinkFacts DEF Without

LEMMA TailWithout ==
  ASSUME NEW l \in Seq(EntryType), l # <<>>
  PROVE  Without(Tail(l), l, 1) /\ 1 \in DOMAIN l
BY DEF Without, Above

LEMMA WithoutFacts ==
  ASSUME NEW l \in Seq(EntryType), NEW i \in DOMAIN l, NEW m, Without(m, l, i), Distinct(l)
  PROVE  /\ Distinct(m)
         /\ Blocks(m) = Blocks(l) \ {l[i].tcb}
         /\ KeysOn(m) = KeysOn(l) \ {l[i].key}
<1>1. DOMAIN m = 1..Len(l) - 1 /\ DOMAIN l = 1..Len(l) /\ Len(l) \in Nat
  BY DEF Without
<1>2. \A j \in DOMAIN m : /\ Above(i, j) \in DOMAIN l \ {i}
                          /\ m[j].tcb = l[Above(i, j)].tcb
                          /\ m[j].key = l[Above(i, j)].key
  BY <1>1 DEF Without, Above
<1>3. \A j, k \in DOMAIN m : Above(i, j) = Above(i, k) => j = k
  BY <1>1 DEF Above
<1>4. \A k \in DOMAIN l \ {i} : \E j \in DOMAIN m : Above(i, j) = k
  <2> TAKE k \in DOMAIN l \ {i}
  <2>1. Below(i, k) \in DOMAIN m /\ Above(i, Below(i, k)) = k
    BY <1>1 DEF Above, Below
  <2> QED BY <2>1
<1>5. Distinct(m)
  BY <1>2, <1>3 DEF Distinct
<1>6. Blocks(m) = Blocks(l) \ {l[i].tcb}
  BY <1>2, <1>4 DEF Distinct, Blocks
<1>7. KeysOn(m) = KeysOn(l) \ {l[i].key}
  BY <1>2, <1>4 DEF Distinct, KeysOn
<1> QED BY <1>5, <1>6, <1>7

LEMMA WithFacts ==
  ASSUME NEW l \in Seq(EntryType), NEW i \in 1..Len(l) + 1, NEW e, NEW m, With(m, l, i, e),
         Distinct(l), e.tcb \notin Blocks(l), e.key \notin KeysOn(l)
  PROVE  /\ Distinct(m)
         /\ Blocks(m) = Blocks(l) \cup {e.tcb}
         /\ KeysOn(m) = KeysOn(l) \cup {e.key}
<1>1. DOMAIN m = 1..Len(l) + 1 /\ DOMAIN l = 1..Len(l) /\ Len(l) \in Nat
  BY DEF With
<1>2. \A j \in DOMAIN m \ {i} : /\ Below(i, j) \in DOMAIN l
                                /\ m[j].tcb = l[Below(i, j)].tcb
                                /\ m[j].key = l[Below(i, j)].key
  BY <1>1 DEF With, Below
<1>3. \A j, k \in DOMAIN m \ {i} : Below(i, j) = Below(i, k) => j = k
  BY <1>1 DEF Below
<1>4. \A k \in DOMAIN l : \E j \in DOMAIN m \ {i} : Below(i, j) = k
  <2> TAKE k \in DOMAIN l
  <2>1. Above(i, k) \in DOMAIN m \ {i} /\ Below(i, Above(i, k)) = k
    BY <1>1 DEF Above, Below
  <2> QED BY <2>1
<1>5. i \in DOMAIN m /\ m[i].tcb = e.tcb /\ m[i].key = e.key
  BY <1>1 DEF With
<1>6. Blocks(m) = Blocks(l) \cup {e.tcb}
  BY <1>2, <1>4, <1>5 DEF Blocks
<1>7. KeysOn(m) = KeysOn(l) \cup {e.key}
  BY <1>2, <1>4, <1>5 DEF KeysOn
<1>8. Distinct(m)
  <2> SUFFICES ASSUME NEW j \in DOMAIN m, NEW k \in DOMAIN m,
                      m[j].tcb = m[k].tcb \/ m[j].key = m[k].key
               PROVE  j = k
    BY DEF Distinct
  <2>1. CASE j # i /\ k # i
    BY <1>2, <1>3, <2>1 DEF Distinct
  <2>2. CASE j = i \/ k = i
    BY <1>2, <1>5, <2>2 DEF Blocks, KeysOn
  <2> QED BY <2>1, <2>2
<1> QED BY <1>6, <1>7, <1>8
-----------------------------------------------------------------------------
(***************************************************************************)
(* The inductive invariant                                                 *)
(***************************************************************************)
LEMMA NoArgType == NoArg \in [key : Keys, timeleft : 0..Wrap - 1]
<1>1. AnyKey \in Keys
  BY KeysAssumption DEF AnyKey
<1> QED BY <1>1, DeltaAssumption, WrapAssumption DEF NoArg

LEMMA InitInv == Init => IInv
<1> SUFFICES ASSUME Init PROVE IInv
  OBVIOUS
<1>1. TypeOK
  BY NoArgType, DeltaAssumption, QCapAssumption
  DEF Init, TypeOK, CallerLocks, TaskLocks, Tcbs
<1>2. 0 \notin Tcbs
  BY DEF Tcbs
<1> QED BY <1>1, <1>2 DEF Init, IInv, LockInv, LinkInv, BlocksAccounted, OneEntryPerKey

\* The list as the blocks and keys on it.
LEMMA ListInv ==
  ASSUME IInv
  PROVE  /\ list \in Seq(EntryType)
         /\ Distinct(list)
         /\ Blocks(list) = Tcbs \ (idle \cup {tcb})
         /\ tcb \notin idle
BY DEF IInv, TypeOK, EntryType, BlocksAccounted, OneEntryPerKey, Distinct, Blocks, KeyAt

LEMMA ListInvNext ==
  ASSUME Distinct(list'), Blocks(list') = Tcbs \ (idle' \cup {tcb'}), tcb' \notin idle'
  PROVE  BlocksAccounted' /\ OneEntryPerKey'
BY DEF BlocksAccounted, OneEntryPerKey, Distinct, Blocks, KeyAt

\* An entry is taken off the list and its block set idle.
LEMMA RemoveInv ==
  ASSUME IInv, NEW i \in DOMAIN list, Without(list', list, i),
         idle' = idle \cup {list[i].tcb}, tcb' = tcb
  PROVE  /\ list' \in Seq([tcb : Tcbs, key : Keys, timeleft : 0..Wrap - 1])
         /\ idle' \subseteq Tcbs
         /\ BlocksAccounted'
         /\ OneEntryPerKey'
         /\ KeysOn(list') = KeysOn(list) \ {list[i].key}
         /\ Len(list') = Len(list) - 1
<1>1. /\ Distinct(list')
      /\ Blocks(list') = Blocks(list) \ {list[i].tcb}
      /\ KeysOn(list') = KeysOn(list) \ {list[i].key}
  BY ListInv, WithoutFacts
<1>2. list[i].tcb \in Blocks(list)
  BY DEF Blocks
<1>3. idle' \subseteq Tcbs /\ tcb' \notin idle'
      /\ Blocks(list') = Tcbs \ (idle' \cup {tcb'})
  BY <1>1, <1>2, ListInv DEF IInv, TypeOK
<1> QED BY <1>1, <1>3, ListInvNext DEF Without, EntryType

\* The block that has been allocated is linked.
LEMMA AddInv ==
  ASSUME IInv, mpc \in {"insert", "walk"}, NEW i \in 1..Len(list) + 1,
         With(list', list, i, Entry(tcb, arg.key, arg.timeleft)), idle' = idle, tcb' = 0
  PROVE  /\ list' \in Seq([tcb : Tcbs, key : Keys, timeleft : 0..Wrap - 1])
         /\ BlocksAccounted'
         /\ OneEntryPerKey'
<1> DEFINE e == Entry(tcb, arg.key, arg.timeleft)
<1>1. e.tcb = tcb /\ e.key = arg.key
  BY DEF Entry
<1>2. tcb \in Tcbs /\ 0 \notin Tcbs
  BY DEF IInv, LinkInv, TypeOK, Tcbs
<1>3. e.tcb \notin Blocks(list) /\ e.key \notin KeysOn(list)
  BY <1>1, ListInv DEF IInv, LinkInv, KeysOn, KeyAt
<1> HIDE DEF e
<1>4. Distinct(list') /\ Blocks(list') = Blocks(list) \cup {e.tcb}
  BY <1>3, ListInv, WithFacts DEF e
<1>5. tcb' \notin idle' /\ Blocks(list') = Tcbs \ (idle' \cup {tcb'})
  BY <1>1, <1>2, <1>4, ListInv DEF IInv, TypeOK
<1> QED BY <1>4, <1>5, ListInvNext DEF With, EntryType

\* StopXtmr finds the one entry of the key.
LEMMA FirstFacts ==
  ASSUME IInv, NEW k, \E i \in DOMAIN list : KeyAt(i) = k
  PROVE  First(k) \in DOMAIN list /\ KeyAt(First(k)) = k
<1>1. PICK i \in DOMAIN list : KeyAt(i) = k
  OBVIOUS
<1>2. \A j \in 1..i - 1 : KeyAt(j) # k
  BY <1>1 DEF IInv, TypeOK, OneEntryPerKey
<1> QED BY <1>1, <1>2 DEF First

\* Steps that leave the list and the blocks alone.
LEMMA SameListInv ==
  ASSUME IInv, UNCHANGED <<list, idle, tcb>>
  PROVE  /\ list' \in Seq([tcb : Tcbs, key : Keys, timeleft : 0..Wrap - 1])
         /\ idle' \subseteq Tcbs
         /\ BlocksAccounted'
         /\ OneEntryPerKey'
BY DEF IInv, TypeOK, BlocksAccounted, OneEntryPerKey, KeyAt

LEMMA CallInv == IInv /\ Call => IInv'
<1> SUFFICES ASSUME IInv, Call PROVE IInv'
  OBVIOUS
<1>1. arg' \in [key : Keys, timeleft : 0..Wrap - 1]
  BY DelayAssumption, DeltaAssumption, WrapAssumption
  DEF Call, CallStartTmr, CallStopXtmr, CallStopTmrs
<1>2. UNCHANGED <<lock, list, idle, qlen, tcb, tpc, delta>> /\ mpc = "idle"
      /\ mpc' \in {"StopXtmr", "StopTmrs"} /\ then' \in {"return", "malloc"} /\ at' \in {at, 1}
  BY DEF Call, CallStartTmr, CallStopXtmr, CallStopTmrs
<1>3. TypeOK'
  BY <1>1, <1>2 DEF IInv, TypeOK, CallerLocks
<1>4. LockInv' /\ LinkInv'
  BY <1>2 DEF IInv, LockInv, LinkInv, CallerLocks
<1> QED BY <1>2, <1>3, <1>4, SameListInv DEF IInv

LEMMA QueueInv ==
  ASSUME IInv, ReceiveMail \/ OthersSend \/ CallerP \/ TaskP \/ UNCHANGED vars
  PROVE  IInv'
<1>1. UNCHANGED <<list, idle, callerVars, tpc, delta>>
  BY DEF ReceiveMail, OthersSend, CallerP, TaskP, vars, callerVars
<1>2. qlen' \in 0..QCap
  BY QCapAssumption DEF ReceiveMail, OthersSend, CallerP, TaskP, vars, IInv, TypeOK
<1>3. \/ UNCHANGED lock
      \/ mpc \in CallerLocks /\ lock = "free" /\ lock' = "caller"
      \/ tpc \in TaskLocks /\ lock = "free" /\ lock' = "task"
  BY DEF ReceiveMail, OthersSend, CallerP, TaskP, vars
<1>4. TypeOK'
  BY <1>1, <1>2, <1>3 DEF IInv, TypeOK, callerVars
<1>5. LockInv'
  BY <1>1, <1>3 DEF IInv, LockInv, callerVars
<1>6. LinkInv'
  BY <1>1 DEF IInv, LinkInv, callerVars, KeyAt
<1> QED BY <1>1, <1>4, <1>5, <1>6, SameListInv DEF IInv, callerVars

LEMMA StopXtmrInv == IInv /\ StopXtmr => IInv'
<1> SUFFICES ASSUME IInv, StopXtmr PROVE IInv'
  OBVIOUS
<1>1. /\ list' \in Seq([tcb : Tcbs, key : Keys, timeleft : 0..Wrap - 1])
      /\ idle' \subseteq Tcbs
      /\ BlocksAccounted' /\ OneEntryPerKey'
      /\ arg.key \notin KeysOn(list')
  <2>1. CASE UNCHANGED <<list, idle>> /\ \A i \in DOMAIN list : KeyAt(i) # arg.key
    BY <2>1, SameListInv DEF StopXtmr, KeysOn, KeyAt
  <2>2. CASE /\ \E i \in DOMAIN list : KeyAt(i) = arg.key
             /\ list' = Unlink(list, First(arg.key))
             /\ idle' = idle \cup {list[First(arg.key)].tcb}
    <3>1. First(arg.key) \in DOMAIN list /\ list[First(arg.key)].key = arg.key
      BY <2>2, FirstFacts DEF KeyAt
    <3>2. Without(list', list, First(arg.key)) /\ tcb' = tcb
      BY <2>2, <3>1, UnlinkWithout, ListInv DEF StopXtmr
    <3> QED BY <2>2, <3>1, <3>2, RemoveInv
  <2> QED BY <2>1, <2>2 DEF StopXtmr
<1>2. arg' \in [key : Keys, timeleft : 0..Wrap - 1]
  BY NoArgType DEF StopXtmr, Return, IInv, TypeOK
<1>3. /\ mpc = "StopXtmr" /\ UNCHANGED <<qlen, tcb, tpc, delta>> /\ lock' = "free"
      /\ \/ mpc' = "MallocTmrCb" /\ UNCHANGED <<arg, then, at>>
         \/ mpc' = "idle" /\ then' = "return" /\ at' = 1
  BY DEF StopXtmr, Return
<1>4. TypeOK'
  BY <1>1, <1>2, <1>3 DEF IInv, TypeOK, CallerLocks
<1>5. LockInv'
  BY <1>3 DEF LockInv, CallerLocks
<1>6. LinkInv'
  BY <1>1, <1>3 DEF IInv, LinkInv, KeysOn, KeyAt
<1> QED BY <1>1, <1>4, <1>5, <1>6 DEF IInv

LEMMA StopTmrsInv == IInv /\ (StopTmrsSkip \/ StopTmrsDelete \/ StopTmrsReturn) => IInv'
<1> SUFFICES ASSUME IInv, StopTmrsSkip \/ StopTmrsDelete \/ StopTmrsReturn PROVE IInv'
  OBVIOUS
<1>1. /\ list' \in Seq([tcb : Tcbs, key : Keys, timeleft : 0..Wrap - 1])
      /\ idle' \subseteq Tcbs
      /\ BlocksAccounted' /\ OneEntryPerKey'
  <2>1. CASE StopTmrsDelete
    <3>1. Without(list', list, at) /\ tcb' = tcb
      BY <2>1, UnlinkWithout, ListInv DEF StopTmrsDelete, callerVars
    <3> QED BY <2>1, <3>1, RemoveInv DEF StopTmrsDelete
  <2>2. CASE StopTmrsSkip \/ StopTmrsReturn
    BY <2>2, SameListInv DEF StopTmrsSkip, StopTmrsReturn
  <2> QED BY <2>1, <2>2
<1>2. arg' \in [key : Keys, timeleft : 0..Wrap - 1] /\ at' \in Nat \ {0}
  BY NoArgType DEF StopTmrsSkip, StopTmrsDelete, StopTmrsReturn, Return, IInv, TypeOK, callerVars
<1>3. /\ mpc = "StopTmrs" /\ UNCHANGED <<qlen, tcb, tpc, delta>>
      /\ \/ mpc' = "StopTmrs" /\ UNCHANGED <<lock, then>>
         \/ mpc' = "idle" /\ then' = "return" /\ lock' = "free"
  BY DEF StopTmrsSkip, StopTmrsDelete, StopTmrsReturn, Return, callerVars
<1>4. TypeOK'
  BY <1>1, <1>2, <1>3 DEF IInv, TypeOK, CallerLocks
<1>5. LockInv' /\ LinkInv'
  BY <1>3 DEF IInv, LockInv, LinkInv, CallerLocks
<1> QED BY <1>1, <1>4, <1>5 DEF IInv

LEMMA MallocInv == IInv /\ MallocTmrCb => IInv'
<1> SUFFICES ASSUME IInv, MallocTmrCb PROVE IInv'
  OBVIOUS
<1>1. tcb = 0 /\ idle \subseteq Tcbs
  BY DEF MallocTmrCb, IInv, LinkInv, TypeOK
<1>2. \/ UNCHANGED <<idle, tcb>> /\ Return
      \/ /\ tcb' \in idle /\ idle' = idle \ {tcb'}
         /\ mpc' = "insert" /\ UNCHANGED <<arg, then, at>>
  <2>1. ASSUME idle # {}
        PROVE  (CHOOSE b \in idle : \A c \in idle : b <= c) \in idle
    <3>1. idle \subseteq Nat
      BY <1>1, NumTcbAssumption DEF Tcbs
    <3>2. \E b \in idle : \A c \in idle : b <= c
      BY <2>1, <3>1, NatLeast
    <3> QED BY <3>2
  <2> QED BY <2>1 DEF MallocTmrCb
<1>3. BlocksAccounted' /\ OneEntryPerKey' /\ idle' \subseteq Tcbs
  <2>1. Distinct(list') /\ list' = list
    BY ListInv DEF MallocTmrCb
  <2>2. tcb' \notin idle' /\ Blocks(list') = Tcbs \ (idle' \cup {tcb'}) /\ idle' \subseteq Tcbs
    <3>1. 0 \notin Tcbs
      BY DEF Tcbs
    <3> QED BY <1>1, <1>2, <2>1, <3>1, ListInv
  <2> QED BY <2>1, <2>2, ListInvNext
<1>4. /\ mpc = "MallocTmrCb" /\ UNCHANGED <<list, qlen, tpc, delta>> /\ lock' = "free"
      /\ tcb' \in Tcbs \cup {0}
  BY <1>1, <1>2 DEF MallocTmrCb
<1>5. TypeOK'
  BY <1>2, <1>3, <1>4, NoArgType DEF IInv, TypeOK, CallerLocks, Return
<1>6. LockInv'
  BY <1>2, <1>4 DEF LockInv, Return
<1>7. LinkInv'
  <2>1. 0 \notin Tcbs
    BY DEF Tcbs
  <2> QED BY <1>1, <1>2, <1>4, <2>1 DEF IInv, LinkInv, KeyAt, Return
<1> QED BY <1>3, <1>5, <1>6, <1>7 DEF IInv

\* Where the walk ends, the new timer is not due after the entry it goes before.
LEMMA InsertAt ==
  ASSUME IInv, mpc \in {"insert", "walk"}
  PROVE  /\ Entry(tcb, arg.key, arg.timeleft) \in EntryType
         /\ arg.key \in Keys /\ arg.key \notin KeysOn(list)
         /\ InsertLink => /\ at \in 1..Len(list) + 1
                          /\ at <= Len(list) => arg.timeleft <= list[at].timeleft
<1>1. 0 \notin Tcbs /\ arg \in [key : Keys, timeleft : 0..Wrap - 1]
  BY DEF Tcbs, IInv, TypeOK
<1>2. Entry(tcb, arg.key, arg.timeleft) \in EntryType /\ arg.key \notin KeysOn(list)
  BY <1>1 DEF IInv, LinkInv, TypeOK, Entry, EntryType, KeysOn, KeyAt
<1>3. ASSUME InsertLink PROVE at \in 1..Len(list) + 1
  BY <1>3 DEF InsertLink, IInv, LinkInv
<1>4. ASSUME InsertLink, at <= Len(list) PROVE arg.timeleft <= list[at].timeleft
  <2>1. at \in DOMAIN list /\ list \in Seq(EntryType)
    BY <1>3, <1>4, ListInv
  <2>2. list[at] \in EntryType
    BY <2>1
  <2>3. list[at].timeleft \in Int /\ arg.timeleft \in Int
    BY <1>1, <2>2, WrapAssumption DEF EntryType
  <2>4. ~ (arg.timeleft >= list[at].timeleft)
    BY <1>4, <2>1 DEF InsertLink, GoesOn
  <2> QED BY <2>3, <2>4
<1> QED BY <1>1, <1>2, <1>3, <1>4

\* The new timer is an entry more.
LEMMA InsertWith ==
  ASSUME IInv, InsertEmpty \/ InsertLink
  PROVE  \E i \in 1..Len(list) + 1 : With(list', list, i, Entry(tcb, arg.key, arg.timeleft))
<1> DEFINE e == Entry(tcb, arg.key, arg.timeleft)
<1>1. e \in EntryType
  BY InsertAt DEF InsertEmpty, InsertLink
<1>2. CASE InsertEmpty
  <2>1. list = <<>> /\ list' = <<e>>
    BY <1>2 DEF InsertEmpty
  <2> HIDE DEF e
  <2>2. With(list', list, 1, e)
    BY <1>1, <2>1 DEF With
  <2> QED BY <2>1, <2>2 DEF e
<1>3. CASE InsertLink
  <2>1. at \in 1..Len(list) + 1 /\ list' = Link(list, at, e) /\ e.timeleft = arg.timeleft
    BY <1>3, InsertAt DEF InsertLink, Entry
  <2>2. at <= Len(list) => e.timeleft <= list[at].timeleft
    BY <1>3, <2>1, InsertAt DEF InsertLink
  <2> HIDE DEF e
  <2>3. With(list', list, at, e)
    BY <1>1, <2>1, <2>2, LinkFacts, ListInv DEF With
  <2> QED BY <2>1, <2>3 DEF e
<1> QED BY <1>2, <1>3

LEMMA InsertKeys ==
  ASSUME IInv, InsertEmpty \/ InsertLink
  PROVE  /\ list' \in Seq(EntryType)
         /\ KeysOn(list') = KeysOn(list) \cup {arg.key}
         /\ arg.key \in Keys
         /\ arg.key \notin KeysOn(list)
<1>1. mpc \in {"insert", "walk"}
  BY DEF InsertEmpty, InsertLink
<1> DEFINE e == Entry(tcb, arg.key, arg.timeleft)
<1>2. arg.key \notin KeysOn(list) /\ tcb \notin Blocks(list) /\ arg.key \in Keys
  BY <1>1, InsertAt, ListInv
<1>3. PICK i \in 1..Len(list) + 1 : With(list', list, i, e)
  BY InsertWith
<1>4. e.tcb = tcb /\ e.key = arg.key
  BY DEF Entry
<1> HIDE DEF e
<1>5. KeysOn(list') = KeysOn(list) \cup {e.key}
  BY <1>2, <1>3, <1>4, ListInv, WithFacts
<1> QED BY <1>2, <1>3, <1>4, <1>5 DEF With

LEMMA InsertInv ==
  IInv /\ (InsertEmpty \/ InsertBegin \/ InsertWalk \/ InsertLink \/ Signal) => IInv'
<1> SUFFICES ASSUME IInv, InsertEmpty \/ InsertBegin \/ InsertWalk \/ InsertLink \/ Signal
             PROVE IInv'
  OBVIOUS
<1>1. CASE InsertEmpty \/ InsertLink
  <2>1. mpc \in {"insert", "walk"} /\ idle' = idle /\ tcb' = 0
    BY <1>1 DEF InsertEmpty, InsertLink
  <2>2. \E i \in 1..Len(list) + 1 : With(list', list, i, Entry(tcb, arg.key, arg.timeleft))
    BY <1>1, InsertWith
  <2>3. /\ list' \in Seq([tcb : Tcbs, key : Keys, timeleft : 0..Wrap - 1])
        /\ BlocksAccounted' /\ OneEntryPerKey'
    BY <2>1, <2>2, AddInv
  <2>4. /\ UNCHANGED <<idle, qlen, tpc, delta>> /\ lock' = "free" /\ tcb' = 0
        /\ \/ mpc' = "signal" /\ UNCHANGED <<arg, then, at>>
           \/ Return
    BY <1>1 DEF InsertEmpty, InsertLink
  <2>5. TypeOK'
    BY <2>3, <2>4, NoArgType DEF IInv, TypeOK, Return
  <2>6. mpc' = "signal" => Len(list') <= 1
    <3>1. CASE InsertEmpty
      <4>1. list' = <<Entry(tcb, arg.key, arg.timeleft)>>
        BY <3>1 DEF InsertEmpty
      <4> QED BY <4>1
    <3>2. CASE InsertLink
      BY <3>2 DEF InsertLink, Return
    <3> QED BY <1>1, <3>1, <3>2
  <2>7. LockInv' /\ LinkInv'
    BY <2>4, <2>6 DEF LockInv, LinkInv, Return
  <2> QED BY <2>3, <2>5, <2>7 DEF IInv
<1>2. CASE InsertBegin \/ InsertWalk
  <2>1. /\ UNCHANGED <<list, idle, tcb, lock, qlen, then, tpc, delta>> /\ lock = "caller"
        /\ mpc \in {"insert", "walk"} /\ mpc' = "walk" /\ arg'.key = arg.key /\ list # <<>>
    BY <1>2 DEF InsertBegin, InsertWalk, IInv, LockInv, LinkInv, TypeOK
  <2>2. arg' \in [key : Keys, timeleft : 0..Wrap - 1] /\ at' \in 1..Len(list) + 1
    <3>1. CASE InsertBegin
      BY <3>1, ListInv DEF InsertBegin, IInv, TypeOK
    <3>2. CASE InsertWalk
      <4>1. list[at] \in EntryType /\ arg.timeleft >= list[at].timeleft /\ at \in 1..Len(list)
        BY <3>2, ListInv DEF InsertWalk, GoesOn
      <4> DEFINE t == arg.timeleft - list[at].timeleft
      <4>2. t \in 0..Wrap - 1
        BY <4>1, WrapAssumption DEF IInv, TypeOK, EntryType
      <4>3. arg' = [arg EXCEPT !.timeleft = t] /\ at' = at + 1
        BY <3>2 DEF InsertWalk
      <4>4. at' \in 1..Len(list) + 1
        BY <4>1, <4>3, ListInv
      <4> HIDE DEF t
      <4>5. [arg EXCEPT !.timeleft = t] \in [key : Keys, timeleft : 0..Wrap - 1]
        BY <4>2 DEF IInv, TypeOK
      <4> QED BY <4>3, <4>4, <4>5
    <3> QED BY <1>2, <3>1, <3>2
  <2>3. TypeOK'
    BY <2>1, <2>2 DEF IInv, TypeOK
  <2>4. LockInv' /\ LinkInv'
    BY <2>1, <2>2 DEF IInv, LockInv, LinkInv, KeyAt
  <2> QED BY <2>1, <2>3, <2>4, SameListInv DEF IInv
<1>3. CASE Signal
  <2>1. /\ UNCHANGED <<list, idle, tcb, lock, qlen, delta>> /\ mpc = "signal" /\ Return
        /\ tpc' = tpc \/ (tpc \in {"paused", "send"} /\ tpc' \in TaskLocks)
    BY <1>3 DEF Signal, TaskLocks
  <2>2. TypeOK'
    BY <2>1, NoArgType DEF IInv, TypeOK, Return
  <2>3. LockInv' /\ LinkInv'
    BY <2>1 DEF IInv, LockInv, LinkInv, Return, TaskLocks, CallerLocks
  <2> QED BY <2>1, <2>2, <2>3, SameListInv DEF IInv
<1> QED BY <1>1, <1>2, <1>3

LEMMA RenewInv == IInv /\ tmrInit => IInv'
<1> SUFFICES ASSUME IInv, tmrInit PROVE IInv'
  OBVIOUS
<1>1. /\ lock' = "free" /\ list' = <<>> /\ idle' = Tcbs /\ tpc' = "top" /\ delta' = 0
      /\ mpc = "idle" /\ tcb = 0 /\ UNCHANGED <<qlen, mpc, arg, then, tcb, at>>
  BY DEF tmrInit, callerVars, IInv, LinkInv
<1>2. 0 \notin Tcbs
  BY DEF Tcbs
<1>3. TypeOK'
  BY <1>1, DeltaAssumption DEF IInv, TypeOK, TaskLocks
<1> QED BY <1>1, <1>2, <1>3 DEF IInv, LockInv, LinkInv, BlocksAccounted, OneEntryPerKey

LEMMA TaskInv == IInv /\ Task => IInv'
<1> SUFFICES ASSUME IInv, Task PROVE IInv'
  OBVIOUS
<1>1. /\ UNCHANGED callerVars
      /\ \/ UNCHANGED lock /\ tpc \notin TaskLocks
         \/ lock' = "free"
      /\ tpc' \in TaskLocks \cup {"pausing", "paused", "sleep", "send"}
      /\ lock = "task" \/ UNCHANGED lock
  BY DEF Task, Top, Pause, Woken, Sleep, ScanPop, ScanExit, Send, Settle, TaskV, TaskLocks
<1>2. qlen' \in 0..QCap
  BY QCapAssumption DEF Task, Top, Pause, Woken, Sleep, ScanPop, ScanExit, Send, Settle,
     TaskV, IInv, TypeOK
<1>3. /\ list' \in Seq([tcb : Tcbs, key : Keys, timeleft : 0..Wrap - 1])
      /\ idle' \subseteq Tcbs
      /\ BlocksAccounted' /\ OneEntryPerKey'
      /\ KeysOn(list') \subseteq KeysOn(list)
      /\ delta' \in 0..MaxDelta
      /\ list' = list \/ lock = "task"
      /\ Len(list) <= 1 => Len(list') <= 1
  <2>1. CASE ScanPop
    <3>1. list # <<>> /\ list' = Tail(list) /\ tcb' = tcb /\ lock = "task"
      BY <2>1 DEF ScanPop, Due, callerVars, TaskV
    <3>2. Without(list', list, 1) /\ 1 \in DOMAIN list
      BY <3>1, TailWithout, ListInv
    <3>3. list[1] \in EntryType
      BY <3>2, ListInv
    <3>4. delta' \in 0..MaxDelta
      BY <2>1, <3>3, DeltaAssumption, WrapAssumption DEF ScanPop, Due, IInv, TypeOK, EntryType
    <3>5. Len(list) \in Nat
      BY ListInv
    <3>6. idle' = idle \cup {list[1].tcb}
      BY <2>1 DEF ScanPop
    <3>7. /\ list' \in Seq([tcb : Tcbs, key : Keys, timeleft : 0..Wrap - 1])
          /\ idle' \subseteq Tcbs
          /\ BlocksAccounted' /\ OneEntryPerKey'
          /\ KeysOn(list') = KeysOn(list) \ {list[1].key}
          /\ Len(list') = Len(list) - 1
      <4>1. Without(list', list, 1) /\ 1 \in DOMAIN list /\ tcb' = tcb
        BY <3>1, <3>2
      <4> QED BY <3>6, <4>1, RemoveInv
    <3>8. KeysOn(list') \subseteq KeysOn(list)
      BY <3>7
    <3> QED BY <3>1, <3>4, <3>5, <3>7, <3>8
  <2>2. CASE Settle
    <3>1. list' = Elapsed(list, delta) /\ UNCHANGED <<idle, tcb>> /\ delta' = 0 /\ delta \in Int
          /\ lock = "task"
      BY <2>2, DeltaAssumption DEF Settle, callerVars, TaskV, IInv, TypeOK
    <3>2. /\ list' \in Seq(EntryType) /\ DOMAIN list' = DOMAIN list
          /\ \A i \in DOMAIN list : list'[i].tcb = list[i].tcb /\ list'[i].key = list[i].key
      BY <3>1, ElapsedFacts, ListInv
    <3>3. Distinct(list') /\ Blocks(list') = Blocks(list) /\ KeysOn(list') = KeysOn(list)
          /\ Len(list') = Len(list)
      BY <3>2, ListInv DEF Distinct, Blocks, KeysOn
    <3>4. BlocksAccounted' /\ OneEntryPerKey'
      BY <3>1, <3>3, ListInv, ListInvNext
    <3> QED BY <3>1, <3>2, <3>3, <3>4, DeltaAssumption DEF IInv, TypeOK, EntryType
  <2>3. CASE Top \/ Pause \/ Woken \/ Sleep \/ ScanExit \/ Send
    <3>1. UNCHANGED <<list, idle, tcb>>
      BY <2>3 DEF Top, Pause, Woken, Sleep, ScanExit, Send, callerVars
    <3>2. delta' \in 0..MaxDelta
      BY <2>3, DeltaAssumption DEF Top, Pause, Woken, Sleep, ScanExit, Send, IInv, TypeOK
    <3> QED BY <3>1, <3>2, SameListInv
  <2> QED BY <2>1, <2>2, <2>3 DEF Task
<1>4. TypeOK'
  BY <1>1, <1>2, <1>3 DEF IInv, TypeOK, callerVars
<1>5. LockInv'
  BY <1>1 DEF IInv, LockInv, callerVars
<1>6. LinkInv'
  <2>1. mpc = "walk" => list' = list
    BY <1>3 DEF IInv, LockInv
  <2>2. \A k : (\A i \in DOMAIN list : KeyAt(i) # k) => \A i \in DOMAIN list' : KeyAt(i)' # k
    BY <1>3 DEF KeysOn, KeyAt
  <2>3. mpc = "signal" => Len(list') <= 1
    BY <1>3 DEF IInv, LinkInv
  <2> QED BY <1>1, <2>1, <2>2, <2>3 DEF IInv, LinkInv, callerVars
<1> QED BY <1>3, <1>4, <1>5, <1>6 DEF IInv

LEMMA NextInv == IInv /\ [Next]_vars => IInv'
BY CallInv, QueueInv, StopXtmrInv, StopTmrsInv, MallocInv, InsertInv, RenewInv, TaskInv
DEF Next, Caller

THEOREM Invariant == Spec => []IInv
BY InitInv, NextInv, PTL DEF Spec

\* Every variable of the library stays in its type, in particular the U32s and
\* delta, for any delays and slices (os_tmr, insert_tmr, delete_tmr).
THEOREM TypeCorrect == Spec => []TypeOK
BY Invariant, PTL DEF IInv

\* No control block is leaked or handed out twice, through restarts of the task
\* too (OSTMR_MallocTmrCb, OSTMR_FreeTmrCb, tmrInit).
THEOREM BlocksKept == Spec => []BlocksAccounted
BY Invariant, PTL DEF IInv

\* StartTmr replaces a running timer, never doubles it, though it lets go of the
\* lock between stopping the old one and linking the new one.
THEOREM KeysUnique == Spec => []OneEntryPerKey
BY Invariant, PTL DEF IInv
=============================================================================
