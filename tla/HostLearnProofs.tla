-------------------------- MODULE HostLearnProofs --------------------------
(***************************************************************************)
(* What the list of buffered packets keeps, proved for any number of       *)
(* cells, packets and sessions.                                            *)
(***************************************************************************)
EXTENDS HostLearn, FiniteSetTheorems, NatFacts, TLAPS

-----------------------------------------------------------------------------
(***************************************************************************)
(* Walks                                                                   *)
(***************************************************************************)
N == Cardinality(Cells)
Places == Cells \cup {Null}

HeapOK(h) == \A c \in Cells : h[c].next \in Places

\* Where step k leads on the heap h.
Onward(w, h, k) == IF w[k] = Null THEN Null ELSE h[w[k]].next

IsWalk(w, h, a) ==
  /\ w \in [Steps -> Places]
  /\ w[0] = a
  /\ \A k \in Steps : k < N => w[k + 1] = Onward(w, h, k)

LEMMA StepsAre == N \in Nat /\ Steps = 0..N
BY CellsAssumption, FS_CardinalityType DEF N, Steps

\* The recursive definition of From defines a function.
LEMMA FromDef ==
  ASSUME NEW h, NEW a
  PROVE  From(h, a) =
           [k \in Steps |-> IF k = 0 THEN a
                            ELSE IF From(h, a)[k - 1] = Null THEN Null
                                 ELSE h[From(h, a)[k - 1]].next]
<1> DEFINE Rec(f, n) == f = [k \in 0..n |-> IF k = 0 THEN a
                                            ELSE IF f[k - 1] = Null THEN Null
                                                 ELSE h[f[k - 1]].next]
           S == {n \in Nat : \E f : Rec(f, n)}
<1>1. 0 \in S
  <2>1. Rec([k \in 0..0 |-> a], 0)
    OBVIOUS
  <2> QED BY <2>1
<1>2. ASSUME NEW n \in Nat, n \in S PROVE n + 1 \in S
  <2>1. PICK f : Rec(f, n)
    BY <1>2
  <2> DEFINE e == IF f[n] = Null THEN Null ELSE h[f[n]].next
             g == [k \in 0..n + 1 |-> IF k = n + 1 THEN e ELSE f[k]]
  <2>2. \A k \in 0..n : g[k] = f[k]
    OBVIOUS
  <2>3. \A k \in 0..n + 1 : g[k] = IF k = 0 THEN a
                                   ELSE IF g[k - 1] = Null THEN Null ELSE h[g[k - 1]].next
    <3> SUFFICES ASSUME NEW k \in 0..n + 1
                 PROVE  g[k] = IF k = 0 THEN a
                               ELSE IF g[k - 1] = Null THEN Null ELSE h[g[k - 1]].next
      OBVIOUS
    <3>1. g[n + 1] = e /\ g[n] = f[n]
      BY <2>2
    <3>2. \A i \in 0..n : f[i] = IF i = 0 THEN a
                                 ELSE IF f[i - 1] = Null THEN Null ELSE h[f[i - 1]].next
      BY <2>1
    <3> HIDE DEF g
    <3>3. CASE k = n + 1
      <4>1. k # 0 /\ k - 1 = n
        BY <3>3
      <4> QED BY <3>1, <3>3, <4>1
    <3>4. CASE k \in 1..n
      <4>1. k - 1 \in 0..n /\ k \in 0..n /\ k # 0
        BY <3>4
      <4> QED BY <2>2, <3>2, <4>1
    <3>5. CASE k = 0
      BY <2>2, <3>2, <3>5
    <3> QED BY <3>3, <3>4, <3>5
  <2>4. Rec(g, n + 1)
    BY <2>3
  <2> HIDE DEF Rec, g
  <2> QED BY <2>4
<1>3. PICK f : Rec(f, N)
  <2> HIDE DEF Rec
  <2>1. N \in S
    <3> HIDE DEF S
    <3> QED BY <1>1, <1>2, NatInduct, StepsAre
  <2> QED BY <2>1
<1> QED BY <1>3, StepsAre DEF From

LEMMA WalkIs ==
  ASSUME NEW h, HeapOK(h), NEW a \in Places
  PROVE  IsWalk(From(h, a), h, a)
<1> DEFINE w == From(h, a)
<1>1. /\ w = [k \in Steps |-> w[k]]
      /\ \A k \in Steps : w[k] = IF k = 0 THEN a
                                 ELSE IF w[k - 1] = Null THEN Null ELSE h[w[k - 1]].next
  <2>1. w = [k \in Steps |-> IF k = 0 THEN a
                             ELSE IF w[k - 1] = Null THEN Null ELSE h[w[k - 1]].next]
    BY FromDef
  <2> HIDE DEF w
  <2> QED BY <2>1
<1> HIDE DEF w
<1>2. w[0] = a /\ \A k \in Steps : k < N => k + 1 \in Steps /\ w[k + 1] = Onward(w, h, k)
  <2>1. w[0] = a
    BY <1>1, StepsAre
  <2>2. ASSUME NEW k \in Steps, k < N PROVE k + 1 \in Steps /\ w[k + 1] = Onward(w, h, k)
    <3>1. k + 1 \in Steps /\ k + 1 # 0 /\ (k + 1) - 1 = k
      BY <2>2, StepsAre
    <3> QED BY <1>1, <3>1 DEF Onward
  <2> QED BY <2>1, <2>2
<1>3. \A k \in Steps : w[k] \in Places
  <2> DEFINE S == {k \in Steps : w[k] \in Places}
  <2>1. 0 \in S
    BY <1>2, StepsAre
  <2>2. \A k \in 0..N : k < N /\ k \in S => k + 1 \in S
    BY <1>2, StepsAre DEF HeapOK, Onward, Places
  <2> HIDE DEF S
  <2>3. \A k \in 0..N : k \in S
    BY <2>1, <2>2, UpTo, StepsAre
  <2> QED BY <2>3, StepsAre DEF S
<1>4. w \in [Steps -> Places]
  BY <1>1, <1>3
<1> QED BY <1>2, <1>4 DEF IsWalk, w

LEMMA WalkUnique ==
  ASSUME NEW h, NEW a, NEW w, NEW v, IsWalk(w, h, a), IsWalk(v, h, a)
  PROVE  w = v
<1> DEFINE S == {k \in Steps : w[k] = v[k]}
<1>1. 0 \in S
  BY StepsAre DEF IsWalk
<1>2. \A k \in 0..N : k < N /\ k \in S => k + 1 \in S
  BY StepsAre DEF IsWalk, Onward
<1> HIDE DEF S
<1>3. \A k \in 0..N : k \in S
  BY <1>1, <1>2, UpTo, StepsAre
<1>4. \A k \in Steps : w[k] = v[k]
  BY <1>3, StepsAre DEF S
<1> QED BY <1>4 DEF IsWalk

\* Behind the end there is nothing.
LEMMA EndStays ==
  ASSUME NEW h, NEW a, NEW w, IsWalk(w, h, a), NEW k \in Steps, w[k] = Null
  PROVE  \A j \in Steps : k <= j => w[j] = Null
<1> DEFINE S == {j \in Steps : k <= j => w[j] = Null}
<1>1. 0 \in S
  BY StepsAre
<1>2. \A j \in 0..N : j < N /\ j \in S => j + 1 \in S
  BY StepsAre DEF IsWalk, Onward
<1> HIDE DEF S
<1>3. \A j \in 0..N : j \in S
  BY <1>1, <1>2, UpTo, StepsAre
<1> QED BY <1>3, StepsAre DEF S

On(w) == {k \in Steps : w[k] # Null}

\* A walk that meets no cell twice ends: there are not cells enough.
LEMMA DistinctEnds ==
  ASSUME NEW h, NEW a, NEW w, IsWalk(w, h, a), \A j, k \in On(w) : w[j] = w[k] => j = k
  PROVE  w[N] = Null
<1> SUFFICES ASSUME w[N] # Null PROVE FALSE
  OBVIOUS
<1>1. \A k \in Steps : k \in On(w)
  BY StepsAre, EndStays DEF On
<1>2. w \in [Steps -> Cells]
  BY <1>1 DEF On, Places, IsWalk
<1>3. IsFiniteSet(Steps) /\ Cardinality(Steps) = N + 1
  BY StepsAre, FS_Interval
<1>4. \E j, k \in Steps : j # k /\ w[j] = w[k]
  <2>1. Cardinality(Cells) < Cardinality(Steps)
    BY <1>3, StepsAre DEF N
  <2> QED BY <1>2, <1>3, <2>1, CellsAssumption, FS_PigeonHole
<1> QED BY <1>1, <1>4

-----------------------------------------------------------------------------
(***************************************************************************)
(* Types and sessions                                                      *)
(***************************************************************************)
NodeType == [id : 0..MaxId, next : Places, sess : 0..MaxSess]
Statuses == {"running", "hung", "killed", "undefined"}

\* PointersInSession, of any heap and head.
InSession(h, a, s) ==
  /\ a # Null => h[a].sess = s
  /\ \A c \in Cells : h[c].sess = s /\ h[c].next # Null => h[h[c].next].sess = s

LEMMA NodesOK ==
  ASSUME NEW h \in [Cells -> NodeType]
  PROVE  HeapOK(h)
BY DEF HeapOK, NodeType

LEMMA Here ==
  ASSUME TypeOK
  PROVE  /\ heap \in [Cells -> NodeType] /\ HeapOK(heap)
         /\ head \in Places
         /\ IsWalk(Walk(heap), heap, head)
<1>1. heap \in [Cells -> NodeType] /\ head \in Places
  BY DEF TypeOK, NodeType, Places
<1> QED BY <1>1, NodesOK, WalkIs DEF Walk

LEMMA WalkInSession ==
  ASSUME NEW h, NEW a, NEW s, NEW w, InSession(h, a, s), IsWalk(w, h, a)
  PROVE  \A k \in Steps : w[k] # Null => w[k] \in Cells /\ h[w[k]].sess = s
<1> DEFINE S == {k \in Steps : w[k] # Null => w[k] \in Cells /\ h[w[k]].sess = s}
<1>1. \A k \in Steps : w[k] # Null => w[k] \in Cells
  BY DEF IsWalk, Places
<1>2. 0 \in S
  BY <1>1, StepsAre DEF IsWalk, InSession
<1>3. \A k \in 0..N : k < N /\ k \in S => k + 1 \in S
  <2> SUFFICES ASSUME NEW k \in 0..N, k < N, k \in S, w[k + 1] # Null
               PROVE  w[k + 1] \in Cells /\ h[w[k + 1]].sess = s
    BY StepsAre
  <2>1. k + 1 \in Steps /\ k \in Steps /\ w[k + 1] = Onward(w, h, k)
    BY StepsAre DEF IsWalk
  <2>2. w[k] # Null /\ w[k + 1] = h[w[k]].next
    BY <2>1 DEF Onward
  <2> QED BY <1>1, <2>1, <2>2 DEF InSession
<1> HIDE DEF S
<1>4. \A k \in 0..N : k \in S
  BY <1>2, <1>3, UpTo, StepsAre
<1> QED BY <1>4, StepsAre DEF S

\* A cell made to point to another: nothing else of the heap changes.
Linked(h, g, x, y) ==
  /\ g \in [Cells -> NodeType]
  /\ g[x].next = y
  /\ \A c \in Cells : /\ g[c].id = h[c].id /\ g[c].sess = h[c].sess
                      /\ c # x => g[c] = h[c]

LEMMA LinkIs ==
  ASSUME NEW h \in [Cells -> NodeType], NEW x \in Cells, NEW y \in Places
  PROVE  Linked(h, [h EXCEPT ![x].next = y], x, y)
<1> DEFINE g == [h EXCEPT ![x].next = y]
<1>1. h[x] \in NodeType /\ \A c \in Cells : c # x => g[c] = h[c]
  OBVIOUS
<1>2. g[x] = [h[x] EXCEPT !.next = y]
  OBVIOUS
<1>3. g[x] \in NodeType /\ g[x].next = y /\ g[x].id = h[x].id /\ g[x].sess = h[x].sess
  BY <1>1, <1>2 DEF NodeType
<1>4. g \in [Cells -> NodeType]
  BY <1>1, <1>3
<1> QED BY <1>1, <1>3, <1>4 DEF Linked

LEMMA LinkInSession ==
  ASSUME NEW h \in [Cells -> NodeType], NEW x \in Cells, NEW y \in Places, NEW g, Linked(h, g, x, y),
         NEW a \in Places, NEW s, InSession(h, a, s), y # Null => h[y].sess = s
  PROVE  InSession(g, a, s)
<1>1. a # Null => g[a].sess = s
  BY DEF InSession, Linked, Places
<1>2. ASSUME NEW c \in Cells, g[c].sess = s, g[c].next # Null
      PROVE  g[g[c].next].sess = s
  <2>1. CASE c = x
    BY <1>2, <2>1 DEF Linked, Places
  <2>2. CASE c # x
    <3>1. g[c] = h[c] /\ h[c].next \in Cells /\ h[h[c].next].sess = s
      BY <1>2, <2>2 DEF Linked, InSession, NodeType, Places
    <3> QED BY <3>1 DEF Linked
  <2> QED BY <2>1, <2>2
<1> QED BY <1>1, <1>2 DEF InSession

\* insert_node goes to the last cell: the walk is there just before its end.
LEMMA LastIs ==
  ASSUME NEW h \in [Cells -> NodeType], head \in Cells, ~ Endless(h)
  PROVE  /\ LastCell(h) \in Cells /\ h[LastCell(h)].next = Null
         /\ \E l \in Steps : /\ l < N /\ Walk(h)[l] = LastCell(h) /\ Walk(h)[l + 1] = Null
                             /\ \A k \in Steps : k <= l => Walk(h)[k] # Null
<1> DEFINE w == Walk(h)
           E == {k \in Steps : w[k] = Null}
<1>1. IsWalk(w, h, head) /\ head # Null
  BY NodesOK, WalkIs, CellsAssumption DEF Walk, Places
<1> HIDE DEF w
<1>2. N \in E /\ E \subseteq Nat
  BY StepsAre DEF Endless, N, w
<1>3. PICK e \in E : \A k \in E : e <= k
  BY <1>2, NatLeast
<1>4. e \in Steps /\ w[e] = Null /\ e # 0
  BY <1>1 DEF IsWalk
<1> DEFINE l == e - 1
<1>5. l \in Steps /\ l < N /\ l + 1 = e /\ \A k \in Steps : k <= l => k \notin E
  BY <1>3, <1>4, StepsAre
<1>6. \A k \in Steps : k <= l => w[k] # Null
  BY <1>5
<1> HIDE DEF E, l
<1>7. w[l] \in Cells /\ h[w[l]].next = Null
  <2>1. w[l] # Null /\ w[l] \in Places /\ w[l + 1] = Onward(w, h, l)
    <3>1. l <= l
      BY <1>5, StepsAre
    <3> QED BY <1>1, <1>5, <1>6, <3>1 DEF IsWalk
  <2> QED BY <1>4, <1>5, <2>1 DEF Onward, Places
<1>8. /\ LastCell(h) \in Cells /\ h[LastCell(h)].next = Null
      /\ \E k \in Steps : w[k] = LastCell(h)
  <2>1. \E c \in Cells : h[c].next = Null /\ \E k \in Steps : w[k] = c
    BY <1>5, <1>7
  <2> QED BY <2>1 DEF LastCell, w
<1>9. w[l] = LastCell(h)
  <2>1. PICK k \in Steps : w[k] = LastCell(h)
    BY <1>8
  <2>2. w[k] # Null
    BY <1>8, <2>1, CellsAssumption
  <2>3. k <= l
    <3>1. CASE e <= k
      BY <1>1, <1>4, <2>2, <3>1, EndStays
    <3>2. CASE ~ (e <= k)
      BY <1>5, <3>2, StepsAre, <1>4
    <3> QED BY <3>1, <3>2
  <2>4. CASE k < l
    <3>1. k + 1 \in Steps /\ k + 1 <= l /\ k < N
      BY <1>5, <2>4, StepsAre
    <3>2. w[k + 1] = Null
      BY <1>1, <1>8, <2>1, <3>1 DEF IsWalk, Onward
    <3> QED BY <1>6, <3>1, <3>2
  <2>5. CASE k = l
    BY <2>1, <2>5
  <2> QED BY <1>5, <2>3, <2>4, <2>5, StepsAre
<1> QED BY <1>4, <1>5, <1>6, <1>8, <1>9 DEF w

\* The heap insert_node works on: the new node is filled in.
Filled(h, c) ==
  /\ h \in [Cells -> NodeType]
  /\ h[c] = Node(buffer_id, Null, sess)
  /\ \A d \in Cells : d # c => h[d] = heap[d]

\* What insert_node does with it: the cell is the head, or the last one's next.
Inserted(h, c) ==
  \/ head = Null /\ head' = c /\ heap' = h /\ pc' = pc
  \/ /\ head # Null /\ ~ Endless(h)
     /\ Linked(h, heap', LastCell(h), c) /\ head' = head /\ pc' = pc
  \/ head # Null /\ Endless(h) /\ heap' = h /\ head' = head /\ pc' = "hung"

\* A packet is buffered in a cell malloc() has: one not live, or one freed twice.
Buffered(h, c) ==
  /\ c \in Cells /\ (c \notin live \/ twice # {})
  /\ live' = live \cup {c}
  /\ Filled(h, c)
  /\ Inserted(h, c)
  /\ buffer_id' = buffer_id + 1
  /\ waiting' = waiting \cup {buffer_id}

NotBuffered ==
  /\ twice # {} /\ pc' = "undefined"
  /\ UNCHANGED <<heap, live, head, buffer_id, waiting>>

LEMMA EncodeIs ==
  ASSUME TypeOK, OFP_encode_packet_in
  PROVE  (\E h, c : Buffered(h, c)) \/ NotBuffered
<1> SUFFICES ASSUME ~ NotBuffered PROVE \E h, c : Buffered(h, c)
  OBVIOUS
<1>1. PICK c \in malloc :
        /\ live' = live \cup {c}
        /\ insert_node([heap EXCEPT ![c] = Node(buffer_id, Null, sess)], c)
        /\ buffer_id' = buffer_id + 1
        /\ waiting' = waiting \cup {buffer_id}
  BY DEF OFP_encode_packet_in, NotBuffered
<1> DEFINE h == [heap EXCEPT ![c] = Node(buffer_id, Null, sess)]
<1>2. c \in Cells /\ (c \notin live \/ twice # {})
  BY DEF malloc, TypeOK
<1>3. Filled(h, c)
  <2>1. buffer_id \in 0..MaxId /\ sess \in 0..MaxSess
    BY MaxIdAssumption, MaxSessAssumption DEF OFP_encode_packet_in, TypeOK
  <2>2. Node(buffer_id, Null, sess) \in NodeType
    BY <2>1 DEF Node, NodeType, Places
  <2> QED BY <1>2, <2>2, Here DEF Filled
<1> HIDE DEF h
<1>4. insert_node(h, c)
  BY <1>1 DEF h
<1>5. ASSUME head # Null, ~ Endless(h), heap' = [h EXCEPT ![LastCell(h)].next = c]
      PROVE  Linked(h, heap', LastCell(h), c)
  <2>1. head \in Cells /\ c \in Places
    BY <1>2, <1>5, Here DEF Places
  <2>2. LastCell(h) \in Cells
    BY <1>3, <1>5, <2>1, LastIs DEF Filled
  <2> QED BY <1>3, <1>5, <2>1, <2>2, LinkIs DEF Filled
<1>6. Inserted(h, c)
  BY <1>4, <1>5 DEF Inserted, insert_node
<1> QED BY <1>1, <1>2, <1>3, <1>6 DEF Buffered

\* The ids and sessions of the cells, and the type of the heap.
LEMMA InsertedFields ==
  ASSUME TypeOK, NEW h, NEW c \in Cells, Filled(h, c), Inserted(h, c)
  PROVE  /\ heap' \in [Cells -> NodeType] /\ head' \in Places
         /\ \A d \in Cells : heap'[d].id = h[d].id /\ heap'[d].sess = h[d].sess
BY Here DEF Filled, Inserted, Linked, Places

\* The answer goes out: the node is freed, for the second time if it was free.
Sent(c) ==
  /\ reply' = heap[c] /\ waiting' = waiting \ {heap[c].id} /\ pc' = pc
  /\ live' = live \ {c}
  /\ twice' = IF c \in live THEN twice ELSE twice \cup {c}

\* free() has noticed that the memory is damaged.
Aborted(c) ==
  /\ c \notin live \/ twice # {}
  /\ pc' = "killed" /\ reply' = NoNode /\ UNCHANGED <<live, twice, waiting>>

\* An answer takes the node off the list, unless it is the first one.
LEMMA AnswerIs ==
  ASSUME TypeOK, pc = "running", NEW id, Answer(id)
  PROVE  \E k \in Steps, c \in Cells :
           /\ k \in Hits(id) /\ \A j \in Hits(id) : k <= j
           /\ c = Walk(heap)[k] /\ heap[c].id = id
           /\ \/ k = 0 /\ heap' = heap
              \/ /\ k > 0 /\ k - 1 \in Steps /\ Walk(heap)[k - 1] \in Cells
                 /\ Linked(heap, heap', Walk(heap)[k - 1], heap[c].next)
           /\ beheaded' = (beheaded \/ k = 0)
           /\ Sent(c) \/ Aborted(c)
<1> DEFINE k == FirstHit(id)
           c == Walk(heap)[k]
<1>1. Hits(id) # {} /\ Hits(id) \subseteq Nat /\ Hits(id) \subseteq Steps
  BY StepsAre DEF Answer, Hits
<1>2. k \in Hits(id) /\ \A j \in Hits(id) : k <= j
  <2>1. \E m \in Hits(id) : \A n \in Hits(id) : m <= n
    BY <1>1, NatLeast
  <2> QED BY <2>1 DEF FirstHit
<1>3. /\ find_node(k)
      /\ beheaded' = (beheaded \/ k = 0)
      /\ free(c)
      /\ \/ pc' = "running" /\ reply' = heap[c] /\ waiting' = waiting \ {id}
         \/ pc' = "killed" /\ reply' = NoNode /\ UNCHANGED waiting
  BY DEF Answer
<1> HIDE DEF k
<1>4. k \in Steps /\ c \in Cells /\ heap[c].id = id
  BY <1>2, Here DEF Hits, IsWalk, Places
<1>5. \/ k = 0 /\ heap' = heap
      \/ /\ k > 0 /\ k - 1 \in Steps /\ Walk(heap)[k - 1] \in Cells
         /\ Linked(heap, heap', Walk(heap)[k - 1], heap[c].next)
  <2>1. CASE k = 0
    BY <1>3, <2>1 DEF find_node
  <2>2. CASE k # 0
    <3>1. k > 0 /\ k - 1 \in Steps /\ k - 1 < N /\ (k - 1) + 1 = k
      BY <1>4, <2>2, StepsAre
    <3>2. Walk(heap)[k - 1] # Null
      <4>1. Walk(heap)[k] = Onward(Walk(heap), heap, k - 1)
        BY <3>1, Here DEF IsWalk
      <4>2. Walk(heap)[k] # Null
        BY <1>4, CellsAssumption
      <4> QED BY <4>1, <4>2 DEF Onward
    <3>3. Walk(heap)[k - 1] \in Cells
      BY <3>1, <3>2, Here DEF IsWalk, Places
    <3>4. heap[c].next \in Places
      BY <1>4, Here DEF HeapOK
    <3>5. heap' = [heap EXCEPT ![Walk(heap)[k - 1]].next = heap[c].next]
      BY <1>3, <2>2 DEF find_node
    <3>6. Linked(heap, heap', Walk(heap)[k - 1], heap[c].next)
      BY <3>3, <3>4, <3>5, Here, LinkIs
    <3> QED BY <3>1, <3>3, <3>6
  <2> QED BY <2>1, <2>2
<1>6. Sent(c) \/ Aborted(c)
  BY <1>3, <1>4 DEF free, Sent, Aborted
<1> QED BY <1>2, <1>3, <1>4, <1>5, <1>6

LEMMA AnswerFields ==
  ASSUME TypeOK, pc = "running", NEW id, Answer(id) \/ NotFound(id)
  PROVE  /\ heap' \in [Cells -> NodeType]
         /\ \A d \in Cells : heap'[d].id = heap[d].id /\ heap'[d].sess = heap[d].sess
         /\ live' \subseteq live /\ twice' \subseteq Cells /\ pc' \in Statuses
         /\ waiting' \subseteq waiting /\ beheaded' \in BOOLEAN /\ reply' \in NodeType
<1>1. NoNode \in NodeType /\ pc \in Statuses /\ beheaded \in BOOLEAN /\ twice \subseteq Cells
  BY MaxIdAssumption, MaxSessAssumption DEF TypeOK, NoNode, Node, NodeType, Places, Statuses
<1>2. CASE NotFound(id)
  BY <1>1, <1>2, Here DEF NotFound, Statuses
<1>3. CASE Answer(id)
  <2>1. PICK k \in Steps, c \in Cells :
           /\ \/ heap' = heap
              \/ Linked(heap, heap', Walk(heap)[k - 1], heap[c].next)
           /\ beheaded' = (beheaded \/ k = 0)
           /\ Sent(c) \/ Aborted(c)
    BY <1>3, AnswerIs
  <2>2. /\ heap' \in [Cells -> NodeType]
        /\ \A d \in Cells : heap'[d].id = heap[d].id /\ heap'[d].sess = heap[d].sess
    BY <2>1, Here DEF Linked
  <2>3. heap[c] \in NodeType
    BY Here
  <2> QED BY <1>1, <2>1, <2>2, <2>3 DEF Sent, Aborted, Statuses
<1> QED BY <1>2, <1>3

LEMMA TypeStep ==
  ASSUME TypeOK, [Next]_vars
  PROVE  TypeOK'
<1>1. NoNode \in NodeType
  BY MaxIdAssumption, MaxSessAssumption DEF NoNode, Node, NodeType, Places
<1>2. NoFlowMod \in NoFlowMod..MaxId
  BY MaxIdAssumption DEF NoFlowMod
<1>3. CASE OFP_encode_packet_in
  <2>1. /\ twice' = twice /\ sess' = sess /\ first_id' = first_id /\ beheaded' = beheaded
        /\ named' = NoFlowMod /\ reply' = NoNode
    BY <1>3 DEF OFP_encode_packet_in
  <2>2. CASE \E h, c : Buffered(h, c)
    <3>1. PICK h, c : Buffered(h, c)
      BY <2>2
    <3>2. heap' \in [Cells -> NodeType] /\ head' \in Places
      BY <3>1, InsertedFields DEF Buffered
    <3>3. pc' \in Statuses
      BY <3>1 DEF Buffered, Inserted, Statuses, TypeOK
    <3>4. /\ buffer_id' \in 1..MaxId + 1 /\ first_id' \in 1..buffer_id'
          /\ waiting' \subseteq first_id'..buffer_id' - 1
      <4>1. buffer_id' = buffer_id + 1 /\ waiting' = waiting \cup {buffer_id} /\ buffer_id <= MaxId
        BY <1>3, <3>1 DEF Buffered, OFP_encode_packet_in
      <4> QED BY <2>1, <4>1, MaxIdAssumption DEF TypeOK
    <3>5. live' \subseteq Cells
      BY <3>1 DEF Buffered, TypeOK
    <3> QED BY <1>1, <1>2, <2>1, <3>2, <3>3, <3>4, <3>5 DEF TypeOK, NodeType, Places, Statuses
  <2>3. CASE NotBuffered
    BY <1>1, <1>2, <2>1, <2>3 DEF NotBuffered, TypeOK, NodeType, Places
  <2> QED BY <1>3, <2>2, <2>3, EncodeIs
<1>4. CASE OFP_encode_back_to_host
  <2>1. PICK id : Answer(id) \/ NotFound(id)
    BY <1>4 DEF OFP_encode_back_to_host
  <2>2. /\ heap' \in [Cells -> NodeType]
        /\ live' \subseteq live /\ twice' \subseteq Cells /\ pc' \in Statuses
        /\ waiting' \subseteq waiting /\ beheaded' \in BOOLEAN /\ reply' \in NodeType
    BY <1>4, <2>1, AnswerFields DEF OFP_encode_back_to_host
  <2>3. /\ head' = head /\ buffer_id' = buffer_id /\ sess' = sess /\ first_id' = first_id
        /\ named' \in {NoBuffer} \cup 1..buffer_id - 1
    BY <1>4 DEF OFP_encode_back_to_host
  <2>4. named' \in NoFlowMod..MaxId
    BY <2>3, MaxIdAssumption DEF NoBuffer, NoFlowMod, TypeOK
  <2> QED BY <2>2, <2>3, <2>4 DEF TypeOK, NodeType, Places, Statuses
<1>5. CASE A_send_multipart_reply
  BY <1>1, <1>2, <1>5 DEF A_send_multipart_reply, TypeOK, NodeType, Places
<1>6. CASE ofpdInit
  <2>1. /\ head' = Null /\ waiting' = {} /\ beheaded' = FALSE /\ named' = NoFlowMod
        /\ reply' = NoNode /\ sess' \in 1..MaxSess /\ first_id' = buffer_id /\ twice' = twice
        /\ heap' = heap /\ live' = live /\ buffer_id' = buffer_id /\ pc' = pc
    BY <1>6, MaxSessAssumption DEF ofpdInit, TypeOK
  <2>2. first_id' \in 1..buffer_id'
    BY <2>1, MaxIdAssumption DEF TypeOK
  <2> QED BY <1>1, <1>2, <2>1, <2>2 DEF TypeOK, NodeType, Places
<1>7. CASE UNCHANGED vars
  BY <1>7 DEF vars, TypeOK
<1> QED BY <1>3, <1>4, <1>5, <1>6, <1>7 DEF Next

LEMMA SessionStep ==
  ASSUME TypeOK, PointersInSession, IdsGiven, [Next]_vars
  PROVE  PointersInSession'
<1>1. InSession(heap, head, sess) /\ sess \in 1..MaxSess
  BY DEF PointersInSession, InSession, TypeOK
<1>2. CASE OFP_encode_packet_in
  <2>1. CASE \E h, c : Buffered(h, c)
    <3>1. PICK h, c : c \in Cells /\ Filled(h, c) /\ Inserted(h, c)
      BY <2>1 DEF Buffered
    <3>2. h \in [Cells -> NodeType] /\ h[c].sess = sess /\ h[c].next = Null /\ c \in Places /\ c # Null
      BY <3>1, CellsAssumption DEF Filled, Node, Places
    <3>3. InSession(h, head, sess)
      <4>1. head # Null => h[head].sess = sess
        BY <1>1, <3>1, <3>2, Here DEF InSession, Filled, Places
      <4>2. ASSUME NEW d \in Cells, h[d].sess = sess, h[d].next # Null
            PROVE  h[h[d].next].sess = sess
        <5>1. d # c /\ h[d] = heap[d]
          BY <3>1, <3>2, <4>2 DEF Filled
        <5>2. heap[d].next \in Cells /\ heap[heap[d].next].sess = sess
          BY <1>1, <4>2, <5>1, Here DEF InSession, HeapOK, Places
        <5> QED BY <3>1, <3>2, <5>1, <5>2 DEF Filled
      <4> QED BY <4>1, <4>2 DEF InSession
    <3>4. InSession(h, c, sess)
      BY <3>2, <3>3 DEF InSession
    <3>5. InSession(heap', head', sess)
      <4>1. CASE head # Null /\ ~ Endless(h) /\ Linked(h, heap', LastCell(h), c) /\ head' = head
        <5>1. LastCell(h) \in Cells
          BY <3>2, <4>1, Here, LastIs DEF Places
        <5> QED BY <3>2, <3>3, <4>1, <5>1, Here, LinkInSession
      <4> QED BY <3>1, <3>3, <3>4, <4>1 DEF Inserted
    <3> QED BY <1>2, <3>5 DEF OFP_encode_packet_in, PointersInSession, InSession
  <2>2. CASE NotBuffered
    BY <1>2, <2>2 DEF NotBuffered, OFP_encode_packet_in, PointersInSession
  <2> QED BY <1>2, <2>1, <2>2, EncodeIs
<1>3. CASE OFP_encode_back_to_host
  <2>1. PICK id : Answer(id) \/ NotFound(id)
    BY <1>3 DEF OFP_encode_back_to_host
  <2>2. head' = head /\ sess' = sess /\ pc = "running"
    BY <1>3 DEF OFP_encode_back_to_host
  <2>3. InSession(heap', head, sess)
    <3>1. CASE heap' = heap
      BY <1>1, <3>1
    <3>2. CASE heap' # heap
      <4>1. PICK k \in Steps, c \in Cells :
              /\ k \in Hits(id) /\ c = Walk(heap)[k]
              /\ Walk(heap)[k - 1] \in Cells
              /\ Linked(heap, heap', Walk(heap)[k - 1], heap[c].next)
        <5>1. Answer(id)
          BY <2>1, <3>2 DEF NotFound
        <5> QED BY <2>2, <3>2, <5>1, AnswerIs
      <4>2. heap[c].sess = sess
        BY <1>1, <4>1, Here, WalkInSession DEF Hits
      <4>3. heap[c].next \in Places /\ (heap[c].next # Null => heap[heap[c].next].sess = sess)
        BY <1>1, <4>2, Here DEF InSession, HeapOK
      <4> QED BY <1>1, <4>1, <4>3, Here, LinkInSession
    <3> QED BY <3>1, <3>2
  <2> QED BY <2>2, <2>3 DEF PointersInSession, InSession
<1>4. CASE ofpdInit
  <2>1. \A c \in Cells : heap[c].sess <= sess /\ heap[c].sess \in Int
    BY Here DEF IdsGiven, NodeType
  <2>2. \A c \in Cells : heap[c].sess # sess + 1
    BY <1>1, <2>1
  <2> QED BY <1>4, <2>2 DEF ofpdInit, PointersInSession
<1>5. CASE A_send_multipart_reply
  BY <1>5 DEF A_send_multipart_reply, PointersInSession
<1>6. CASE UNCHANGED vars
  BY <1>6 DEF vars, PointersInSession
<1> QED BY <1>2, <1>3, <1>4, <1>5, <1>6 DEF Next

\* An answer sent is to the packet named, of this session, and to one that waits or
\* to one whose node is freed again, wherever the walk has led.
LEMMA ReplyNamed ==
  ASSUME TypeOK, PointersInSession, IdsGiven, Next, reply' # NoNode
  PROVE  /\ reply'.id = named' /\ reply'.sess = sess
         /\ \/ reply'.id \in waiting
            \/ \E c \in twice' : c \notin live /\ heap[c] = reply'
<1>1. Answer(named') /\ pc = "running"
  BY DEF Next, OFP_encode_packet_in, A_send_multipart_reply, ofpdInit,
         OFP_encode_back_to_host, NotFound
<1>2. PICK k \in Steps, c \in Cells :
        k \in Hits(named') /\ c = Walk(heap)[k] /\ heap[c].id = named' /\ Sent(c)
  BY <1>1, AnswerIs DEF Aborted
<1>3. heap[c].sess = sess
  <2>1. InSession(heap, head, sess)
    BY DEF PointersInSession, InSession
  <2> QED BY <1>2, <2>1, Here, WalkInSession DEF Hits
<1>4. CASE c \in live
  BY <1>2, <1>3, <1>4 DEF IdsGiven, Sent
<1>5. CASE c \notin live
  <2>1. c \in twice' /\ reply' = heap[c]
    BY <1>2, <1>5 DEF Sent
  <2> QED BY <1>2, <1>3, <1>5, <2>1
<1> QED BY <1>4, <1>5

LEMMA IdsStep ==
  ASSUME TypeOK, PointersInSession, IdsGiven, [Next]_vars
  PROVE  IdsGiven'
<1>1. /\ buffer_id \in Nat /\ sess \in Nat /\ first_id \in Nat /\ first_id <= buffer_id
      /\ sess # 0
      /\ \A c \in Cells : heap[c].id \in Nat /\ heap[c].sess \in Nat
  BY Here DEF TypeOK, NodeType
<1>2. CASE OFP_encode_packet_in
  <2>1. sess' = sess /\ first_id' = first_id
    BY <1>2 DEF OFP_encode_packet_in
  <2>2. CASE \E h, c : Buffered(h, c)
    <3>1. PICK h, c : Buffered(h, c)
      BY <2>2
    <3>2. /\ c \in Cells /\ heap'[c].id = buffer_id /\ heap'[c].sess = sess
          /\ \A d \in Cells : d # c => heap'[d].id = heap[d].id /\ heap'[d].sess = heap[d].sess
      BY <3>1, InsertedFields DEF Buffered, Filled, Node
    <3>3. /\ buffer_id' = buffer_id + 1 /\ waiting' = waiting \cup {buffer_id}
          /\ live' = live \cup {c}
      BY <3>1 DEF Buffered
    <3>4. \A d \in Cells : d # c => heap'[d].id # buffer_id
      BY <1>1, <3>2 DEF IdsGiven
    <3>5. \A d \in Cells : heap'[d].sess <= sess' /\ heap'[d].id < buffer_id'
      BY <1>1, <2>1, <3>2, <3>3 DEF IdsGiven
    <3>6. ASSUME NEW d \in Cells, NEW e \in Cells, heap'[d].sess # 0, heap'[d].id = heap'[e].id
          PROVE  d = e
      BY <3>2, <3>4, <3>6 DEF IdsGiven
    <3>7. ASSUME NEW d \in Cells, heap'[d].sess = sess
          PROVE  first_id <= heap'[d].id /\ (d \in live' <=> heap'[d].id \in waiting')
      <4>1. CASE d = c
        BY <1>1, <3>2, <3>3, <4>1
      <4>2. CASE d # c
        BY <3>2, <3>3, <3>4, <3>7, <4>2 DEF IdsGiven
      <4> QED BY <4>1, <4>2
    <3> QED BY <2>1, <3>5, <3>6, <3>7 DEF IdsGiven
  <2>3. CASE NotBuffered
    BY <2>1, <2>3 DEF NotBuffered, IdsGiven
  <2> QED BY <1>2, <2>2, <2>3, EncodeIs
<1>3. CASE OFP_encode_back_to_host
  <2>1. PICK id : Answer(id) \/ NotFound(id)
    BY <1>3 DEF OFP_encode_back_to_host
  <2>2. buffer_id' = buffer_id /\ sess' = sess /\ first_id' = first_id /\ pc = "running"
    BY <1>3 DEF OFP_encode_back_to_host
  <2>3. \A d \in Cells : heap'[d].id = heap[d].id /\ heap'[d].sess = heap[d].sess
    BY <2>1, <2>2, AnswerFields
  <2>4. ASSUME NEW d \in Cells, heap[d].sess = sess
        PROVE  d \in live' <=> heap[d].id \in waiting'
    <3>1. d \in live <=> heap[d].id \in waiting
      BY <2>4 DEF IdsGiven
    <3>2. CASE live' = live /\ waiting' = waiting
      BY <3>1, <3>2
    <3>3. CASE \E c \in Cells : Sent(c)
      <4>1. PICK c \in Cells : live' = live \ {c} /\ waiting' = waiting \ {heap[c].id}
        BY <3>3 DEF Sent
      <4>2. d = c <=> heap[d].id = heap[c].id
        BY <1>1, <2>4 DEF IdsGiven
      <4> QED BY <3>1, <4>1, <4>2
    <3>4. (live' = live /\ waiting' = waiting) \/ \E c \in Cells : Sent(c)
      <4>1. CASE NotFound(id)
        BY <4>1 DEF NotFound
      <4>2. CASE Answer(id)
        BY <2>2, <4>2, AnswerIs DEF Aborted
      <4> QED BY <2>1, <4>1, <4>2
    <3> QED BY <3>2, <3>3, <3>4
  <2> QED BY <1>1, <2>2, <2>3, <2>4 DEF IdsGiven
<1>4. CASE A_send_multipart_reply
  BY <1>4 DEF A_send_multipart_reply, IdsGiven
<1>5. CASE ofpdInit
  <2>1. sess' = sess + 1 /\ heap' = heap /\ live' = live /\ buffer_id' = buffer_id
    BY <1>5 DEF ofpdInit
  <2>2. \A c \in Cells : heap[c].sess <= sess + 1 /\ heap[c].sess # sess + 1
    BY <1>1 DEF IdsGiven
  <2> QED BY <1>1, <2>1, <2>2 DEF IdsGiven
<1>6. CASE UNCHANGED vars
  BY <1>6 DEF vars, IdsGiven
<1> QED BY <1>2, <1>3, <1>4, <1>5, <1>6 DEF Next

-----------------------------------------------------------------------------
(***************************************************************************)
(* The list, until it is spoiled                                           *)
(***************************************************************************)

\* The walk w shows that the list on h is exactly what waits, in live cells.
Intact(w, h, wait, alive) ==
  /\ w[N] = Null
  /\ {h[w[k]].id : k \in On(w)} = wait
  /\ \A k \in On(w) : w[k] \in alive
  /\ \A j, k \in On(w) : j < k => h[w[j]].id < h[w[k]].id

LEMMA IntactIs == IntactUntilSpoiled <=> (~ Spoiled => Intact(Walk(heap), heap, waiting, live))
BY DEF IntactUntilSpoiled, Intact, On, Endless, N

LEMMA IntactDistinct ==
  ASSUME NEW w \in [Steps -> Places], NEW h \in [Cells -> NodeType], NEW wait, NEW alive,
         Intact(w, h, wait, alive)
  PROVE  \A j, k \in On(w) : w[j] = w[k] => j = k
<1> SUFFICES ASSUME NEW j \in On(w), NEW k \in On(w), w[j] = w[k], j < k PROVE FALSE
  BY StepsAre DEF On
<1>1. h[w[j]].id < h[w[j]].id
  BY DEF Intact
<1>2. w[j] \in Cells
  BY DEF On, Places
<1>3. h[w[j]].id \in Int
  BY <1>2 DEF NodeType
<1> QED BY <1>1, <1>3

\* A live list with one more node, of a later id, at its end.
LEMMA LongerIntact ==
  ASSUME NEW w \in [Steps -> Places], NEW h \in [Cells -> NodeType], NEW wait, NEW alive,
         Intact(w, h, wait, alive),
         NEW n \in Steps, \A k \in Steps : w[k] # Null <=> k < n,
         NEW c \in Cells \ alive, NEW g \in [Cells -> NodeType], NEW a, NEW id \in Nat,
         \A d \in Cells : d # c => g[d].id = h[d].id /\ h[d].id < id,
         g[c].id = id,
         IsWalk([w EXCEPT ![n] = c], g, a)
  PROVE  Intact([w EXCEPT ![n] = c], g, wait \cup {id}, alive \cup {c})
<1> DEFINE v == [w EXCEPT ![n] = c]
<1>1. v[n] = c /\ c # Null /\ \A k \in Steps : k # n => v[k] = w[k]
  BY CellsAssumption
<1>2. IsWalk(v, g, a) /\ v \in [Steps -> Places]
  BY DEF IsWalk
<1> HIDE DEF v
<1>3. /\ \A k : k \in On(v) <=> k \in On(w) \/ k = n
      /\ \A k \in On(w) : k < n /\ v[k] = w[k]
  BY <1>1, StepsAre DEF On
<1>4. \A k \in On(w) : w[k] \in Cells /\ w[k] \in alive /\ w[k] # c
  BY DEF On, Places, Intact
<1>5. \A k \in On(w) : g[v[k]].id = h[w[k]].id /\ g[v[k]].id < id
  BY <1>3, <1>4
<1>6. g[v[n]].id = id
  BY <1>1
<1>7. {g[v[k]].id : k \in On(v)} = wait \cup {id}
  <2>1. \A x : (\E k \in On(v) : x = g[v[k]].id) <=> (\E k \in On(w) : x = h[w[k]].id) \/ x = id
    BY <1>3, <1>5, <1>6
  <2>2. \A x : x \in wait <=> \E k \in On(w) : x = h[w[k]].id
    BY DEF Intact
  <2> QED BY <2>1, <2>2
<1>8. \A k \in On(v) : v[k] \in alive \cup {c}
  BY <1>1, <1>3, <1>4
<1>9. ASSUME NEW j \in On(v), NEW k \in On(v), j < k PROVE g[v[j]].id < g[v[k]].id
  <2>1. j \in Nat /\ k \in Nat /\ n \in Nat
    BY StepsAre DEF On
  <2>2. j \in On(w)
    BY <1>3, <1>9, <2>1
  <2>3. CASE k = n
    BY <1>5, <1>6, <2>2, <2>3
  <2>4. CASE k # n
    <3>1. k \in On(w)
      BY <1>3, <2>4
    <3> QED BY <1>5, <1>9, <2>2, <3>1 DEF Intact
  <2> QED BY <2>3, <2>4
<1>10. v[N] = Null
  <2>1. \A j, k \in On(v) : v[j] = v[k] => j = k
    BY <1>1, <1>3, <1>4, IntactDistinct
  <2> QED BY <1>2, <2>1, DistinctEnds
<1> QED BY <1>7, <1>8, <1>9, <1>10 DEF Intact, v

\* A cell filled in off the list leaves the walk along it as it is.
LEMMA FilledWalk ==
  ASSUME TypeOK, Intact(Walk(heap), heap, waiting, live),
         NEW c \in Cells \ live, NEW h, Filled(h, c)
  PROVE  /\ \A k \in Steps : Walk(heap)[k] # Null =>
              /\ Walk(heap)[k] \in Cells /\ Walk(heap)[k] # c
              /\ h[Walk(heap)[k]] = heap[Walk(heap)[k]]
         /\ IsWalk(Walk(heap), h, head)
         /\ Walk(h) = Walk(heap) /\ ~ Endless(h)
<1> DEFINE w == Walk(heap)
<1>1. IsWalk(w, heap, head) /\ w \in [Steps -> Places] /\ heap \in [Cells -> NodeType]
  BY Here DEF IsWalk
<1>2. h \in [Cells -> NodeType] /\ HeapOK(h)
  BY NodesOK DEF Filled
<1> HIDE DEF w
<1>3. \A k \in Steps : w[k] # Null => w[k] \in Cells /\ w[k] # c /\ h[w[k]] = heap[w[k]]
  BY <1>1 DEF Intact, On, Filled, w, Places
<1>4. IsWalk(w, h, head)
  BY <1>1, <1>3 DEF IsWalk, Onward
<1>5. Walk(h) = w
  BY <1>2, <1>4, Here, WalkIs, WalkUnique DEF Walk
<1>6. ~ Endless(h)
  BY <1>5 DEF Endless, Intact, N, w
<1> QED BY <1>3, <1>4, <1>5, <1>6 DEF w

LEMMA InsertIntact ==
  ASSUME TypeOK, IdsGiven, Intact(Walk(heap), heap, waiting, live),
         NEW c \in Cells \ live, NEW h, Filled(h, c), Inserted(h, c)
  PROVE  Intact(From(heap', head'), heap', waiting \cup {buffer_id}, live \cup {c})
<1> DEFINE w == Walk(heap)
<1>1. IsWalk(w, heap, head) /\ w \in [Steps -> Places] /\ heap \in [Cells -> NodeType]
  BY Here DEF IsWalk
<1>2. h \in [Cells -> NodeType] /\ HeapOK(h) /\ h[c].next = Null /\ h[c].id = buffer_id
  BY NodesOK DEF Filled, Node
<1>3. \A k \in Steps : w[k] # Null => w[k] \in Cells /\ w[k] # c /\ h[w[k]] = heap[w[k]]
  BY FilledWalk
<1>4. IsWalk(w, h, head)
  BY FilledWalk
<1>5. Walk(h) = w /\ ~ Endless(h)
  BY FilledWalk
<1> HIDE DEF w
<1>6. heap' \in [Cells -> NodeType] /\ head' \in Places /\ HeapOK(heap')
  BY InsertedFields, NodesOK
<1>7. /\ heap'[c].id = buffer_id
      /\ \A d \in Cells : d # c => heap'[d].id = heap[d].id /\ heap[d].id < buffer_id
  BY <1>2, InsertedFields DEF Filled, IdsGiven
<1>8. \E n \in Steps : /\ \A k \in Steps : w[k] # Null <=> k < n
                       /\ IsWalk([w EXCEPT ![n] = c], heap', head')
  <2>1. CASE head = Null
    <3>1. heap' = h /\ head' = c
      BY <2>1 DEF Inserted
    <3>2. 0 \in Steps /\ \A k \in Steps : w[k] = Null
      <4>1. 0 \in Steps /\ w[0] = Null /\ \A k \in Steps : 0 <= k
        BY <1>1, <2>1, StepsAre DEF IsWalk
      <4> QED BY <1>1, <4>1, EndStays
    <3> DEFINE v == [w EXCEPT ![0] = c]
    <3>3. /\ v \in [Steps -> Places] /\ v[0] = c /\ c # Null
          /\ \A k \in Steps : k # 0 => v[k] = Null
      BY <1>1, <3>2, CellsAssumption DEF Places
    <3> HIDE DEF v
    <3>4. ASSUME NEW k \in Steps, k < N PROVE v[k + 1] = Onward(v, h, k)
      <4>1. k + 1 \in Steps /\ k + 1 # 0
        BY <3>4, StepsAre
      <4> QED BY <1>2, <3>3, <4>1 DEF Onward
    <3>5. IsWalk(v, h, c)
      BY <3>3, <3>4 DEF IsWalk
    <3>6. \A k \in Steps : w[k] # Null <=> k < 0
      BY <3>2, StepsAre
    <3> QED BY <3>1, <3>2, <3>5, <3>6 DEF v
  <2>2. CASE head # Null
    <3> DEFINE last == LastCell(h)
    <3>1. Linked(h, heap', last, c) /\ head' = head
      BY <1>5, <2>2 DEF Inserted
    <3>2. head \in Cells
      BY <2>2, Here DEF Places
    <3>3. PICK l \in Steps : /\ l < N /\ w[l] = last /\ w[l + 1] = Null
                             /\ \A k \in Steps : k <= l => w[k] # Null
      BY <1>2, <1>5, <3>2, LastIs
    <3> DEFINE n == l + 1
               v == [w EXCEPT ![n] = c]
    <3>4. n \in Steps /\ n \in Nat /\ l \in Nat /\ n - 1 = l /\ n # 0
      BY <3>3, StepsAre
    <3>5. \A k \in Steps : w[k] # Null <=> k < n
      <4>1. \A k \in Steps : n <= k => w[k] = Null
        BY <1>1, <3>3, <3>4, EndStays
      <4> QED BY <3>3, <3>4, <4>1, StepsAre
    <3>6. /\ v \in [Steps -> Places] /\ v[n] = c /\ c # Null
          /\ \A k \in Steps : k # n => v[k] = w[k]
      BY <1>1, <3>4, CellsAssumption DEF Places
    <3>7. heap'[last].next = c /\ heap'[c].next = Null /\ last \in Cells
      <4>1. last \in Cells /\ last # c
        BY <1>3, <3>3, <3>4, <3>5
      <4> QED BY <1>2, <3>1, <4>1 DEF Linked
    <3> HIDE DEF v, last
    <3>8. ASSUME NEW k \in Steps, k < N PROVE v[k + 1] = Onward(v, heap', k)
      <4>1. k + 1 \in Steps /\ k \in Nat /\ w[k + 1] = Onward(w, h, k)
        BY <1>4, <3>8, StepsAre DEF IsWalk
      <4>2. CASE k < l
        <5>1. k # n /\ k + 1 # n /\ k < n
          BY <3>4, <4>1, <4>2
        <5>2. v[k] = w[k] /\ v[k + 1] = w[k + 1] /\ w[k] # Null /\ w[k] \in Cells
          BY <1>3, <3>5, <3>6, <4>1, <5>1
        <5>3. w[k] # last
          <6>1. k \in On(w) /\ l \in On(w) /\ k # l
            BY <3>3, <3>4, <3>5, <4>1, <4>2, <5>1 DEF On
          <6> QED BY <1>1, <3>3, <6>1, IntactDistinct DEF w
        <5> QED BY <3>1, <4>1, <5>2, <5>3 DEF Onward, Linked
      <4>3. CASE k = l
        <5>1. k # n /\ k + 1 = n
          BY <3>4, <4>3
        <5>2. v[k] = last /\ v[k + 1] = c /\ last # Null
          BY <3>3, <3>6, <3>7, <4>3, <5>1, CellsAssumption
        <5> QED BY <3>7, <5>2 DEF Onward
      <4>4. CASE k = n
        <5>1. k + 1 # n /\ ~ (k + 1 < n)
          BY <3>4, <4>4
        <5>2. v[k + 1] = Null
          BY <3>5, <3>6, <4>1, <5>1
        <5> QED BY <3>6, <3>7, <4>4, <5>2 DEF Onward
      <4>5. CASE k > n
        <5>1. k # n /\ k + 1 # n /\ ~ (k < n) /\ ~ (k + 1 < n)
          BY <3>4, <4>1, <4>5
        <5> QED BY <3>5, <3>6, <4>1, <5>1 DEF Onward
      <4> QED BY <3>4, <4>1, <4>2, <4>3, <4>4, <4>5
    <3>9. v[0] = head
      BY <1>1, <3>4, <3>6, StepsAre DEF IsWalk
    <3>10. IsWalk(v, heap', head')
      BY <3>1, <3>6, <3>8, <3>9 DEF IsWalk
    <3> QED BY <3>4, <3>5, <3>10 DEF v
  <2> QED BY <2>1, <2>2
<1>9. PICK n \in Steps : /\ \A k \in Steps : w[k] # Null <=> k < n
                         /\ IsWalk([w EXCEPT ![n] = c], heap', head')
  BY <1>8
<1>10. buffer_id \in Nat
  BY DEF TypeOK
<1>11. Intact([w EXCEPT ![n] = c], heap', waiting \cup {buffer_id}, live \cup {c})
  <2>1. Intact(w, heap, waiting, live)
    BY DEF w
  <2> QED BY <1>1, <1>6, <1>7, <1>9, <1>10, <2>1, LongerIntact
<1>12. From(heap', head') = [w EXCEPT ![n] = c]
  BY <1>6, <1>9, WalkIs, WalkUnique
<1> QED BY <1>11, <1>12

\* A node behind the first taken off the list.
LEMMA RemoveIntact ==
  ASSUME TypeOK, NEW wait, NEW alive, Intact(Walk(heap), heap, wait, alive),
         NEW k \in Steps, k > 0, NEW c \in Cells, c = Walk(heap)[k],
         NEW g, Linked(heap, g, Walk(heap)[k - 1], heap[c].next)
  PROVE  Intact(From(g, head), g, wait \ {heap[c].id}, alive \ {c})
<1> DEFINE w == Walk(heap)
           Was(j) == IF j < k THEN j ELSE j + 1
           v == [j \in Steps |-> IF j < k THEN w[j] ELSE IF j < N THEN w[j + 1] ELSE Null]
<1>1. /\ IsWalk(w, heap, head) /\ w \in [Steps -> Places] /\ heap \in [Cells -> NodeType]
      /\ w[k] = c /\ c # Null /\ head \in Places
      /\ Intact(w, heap, wait, alive) /\ Linked(heap, g, w[k - 1], heap[c].next)
  BY Here, CellsAssumption DEF IsWalk
<1>2. g \in [Cells -> NodeType] /\ HeapOK(g)
  BY NodesOK DEF Linked
<1> HIDE DEF w
<1>3. N \in Nat /\ Steps = 0..N /\ k \in Nat /\ k < N /\ k \in On(w)
  <2>1. k \in On(w)
    BY <1>1 DEF On
  <2>2. k # N
    BY <1>1 DEF Intact
  <2> QED BY <2>1, <2>2, StepsAre
<1>4. \A i, j \in On(w) : w[i] = w[j] => i = j
  BY <1>1, IntactDistinct
<1>5. k - 1 \in Steps /\ k - 1 < N /\ (k - 1) + 1 = k
  BY <1>3
<1>6. k - 1 \in On(w) /\ w[k - 1] \in Cells
  <2>1. w[k] = Onward(w, heap, k - 1)
    BY <1>1, <1>5 DEF IsWalk
  <2>2. w[k - 1] # Null
    BY <1>1, <2>1 DEF Onward
  <2> QED BY <1>1, <1>5, <2>2 DEF On, Places
<1>7. heap[c].next = w[k + 1]
  BY <1>1, <1>3 DEF IsWalk, Onward
<1>8. /\ \A j \in Steps : j < k => v[j] = w[j]
      /\ \A j \in Steps : ~ (j < k) /\ j < N => j + 1 \in Steps /\ v[j] = w[j + 1]
      /\ v[N] = Null
  BY <1>3
<1>9. v \in [Steps -> Places]
  <2>1. \A j \in Steps : j < N => j + 1 \in Steps
    BY <1>3
  <2> QED BY <1>1, <2>1 DEF Places
<1> HIDE DEF v
<1>10. ASSUME NEW j \in Steps, j < N PROVE v[j + 1] = Onward(v, g, j)
  <2>1. j \in Nat /\ j + 1 \in Steps
    BY <1>3, <1>10
  <2>2. CASE j + 1 < k
    <3>1. v[j] = w[j] /\ v[j + 1] = w[j + 1] /\ w[j + 1] = Onward(w, heap, j)
      BY <1>1, <1>3, <1>8, <1>10, <2>1, <2>2 DEF IsWalk
    <3>2. ASSUME w[j] # Null PROVE w[j] \in Cells /\ w[j] # w[k - 1]
      <4>1. j \in On(w) /\ j # k - 1
        BY <1>3, <2>1, <2>2, <3>2 DEF On
      <4> QED BY <1>1, <1>4, <1>6, <3>2, <4>1 DEF Places
    <3> QED BY <1>1, <3>1, <3>2 DEF Onward, Linked
  <2>3. CASE j + 1 = k
    <3>1. j = k - 1 /\ j < k /\ ~ (j + 1 < k)
      BY <1>3, <2>1, <2>3
    <3>2. v[j] = w[k - 1] /\ v[j + 1] = w[k + 1]
      BY <1>3, <1>8, <2>1, <2>3, <3>1
    <3>3. g[w[k - 1]].next = w[k + 1] /\ w[k - 1] # Null
      BY <1>1, <1>6, <1>7 DEF Linked, On
    <3> QED BY <3>2, <3>3 DEF Onward
  <2>4. CASE j + 1 > k
    <3>1. ~ (j < k) /\ ~ (j + 1 < k)
      BY <1>3, <2>1, <2>4
    <3>2. v[j] = w[j + 1]
      BY <1>8, <1>10, <3>1
    <3>3. v[j + 1] = Onward(w, heap, j + 1)
      <4>1. CASE j + 1 < N
        <5>1. v[j + 1] = w[(j + 1) + 1]
          BY <1>8, <2>1, <3>1, <4>1
        <5> QED BY <1>1, <2>1, <4>1, <5>1 DEF IsWalk
      <4>2. CASE j + 1 = N
        BY <1>1, <1>8, <4>2 DEF Onward, Intact
      <4> QED BY <1>3, <1>10, <2>1, <4>1, <4>2
    <3>4. ASSUME w[j + 1] # Null PROVE w[j + 1] \in Cells /\ w[j + 1] # w[k - 1]
      <4>1. j + 1 \in On(w) /\ j + 1 # k - 1
        BY <1>3, <2>1, <2>4, <3>4 DEF On
      <4>2. w[j + 1] # w[k - 1]
        BY <1>4, <1>6, <4>1
      <4>3. w[j + 1] \in Places
        BY <1>1, <2>1
      <4> QED BY <3>4, <4>2, <4>3 DEF Places
    <3> QED BY <1>1, <3>2, <3>3, <3>4 DEF Onward, Linked
  <2> QED BY <1>3, <2>1, <2>2, <2>3, <2>4
<1>11. v[0] = head
  BY <1>1, <1>3, <1>8 DEF IsWalk
<1>12. From(g, head) = v
  <2>1. IsWalk(v, g, head)
    BY <1>9, <1>10, <1>11 DEF IsWalk
  <2> QED BY <1>1, <1>2, <2>1, WalkIs, WalkUnique
<1>13. ASSUME NEW j \in On(v)
       PROVE  Was(j) \in On(w) /\ Was(j) # k /\ v[j] = w[Was(j)] /\ j < N
  <2>1. j \in Steps /\ j \in Nat /\ v[j] # Null
    BY <1>3 DEF On
  <2>2. j < N
    BY <1>3, <1>8, <2>1
  <2>3. Was(j) \in Steps /\ Was(j) # k /\ v[j] = w[Was(j)]
    BY <1>3, <1>8, <2>1, <2>2
  <2> QED BY <2>1, <2>2, <2>3 DEF On
<1>14. ASSUME NEW i \in On(w), i # k PROVE \E j \in On(v) : Was(j) = i
  <2>1. i \in Steps /\ i \in Nat /\ w[i] # Null
    BY <1>3 DEF On
  <2>2. CASE i < k
    BY <1>8, <2>1, <2>2 DEF On
  <2>3. CASE i > k
    <3>1. i - 1 \in Steps /\ ~ (i - 1 < k) /\ i - 1 < N /\ (i - 1) + 1 = i
      BY <1>3, <2>1, <2>3
    <3>2. v[i - 1] = w[i]
      BY <1>8, <3>1
    <3> QED BY <2>1, <3>1, <3>2 DEF On
  <2> QED BY <1>3, <1>14, <2>1, <2>2, <2>3
<1>15. \A i \in On(w) : w[i] \in Cells /\ g[w[i]].id = heap[w[i]].id /\ heap[w[i]].id \in Int
  BY <1>1 DEF On, Places, Linked, NodeType
<1>16. \A i \in On(w) : i # k => w[i] # c /\ heap[w[i]].id # heap[c].id
  <2> SUFFICES ASSUME NEW i \in On(w), i # k PROVE w[i] # c /\ heap[w[i]].id # heap[c].id
    OBVIOUS
  <2>1. w[i] # c
    BY <1>1, <1>3, <1>4
  <2>2. i < k \/ k < i
    BY <1>3 DEF On
  <2>3. heap[w[i]].id < heap[w[k]].id \/ heap[w[k]].id < heap[w[i]].id
    BY <1>1, <1>3, <2>2 DEF Intact
  <2> QED BY <1>1, <1>3, <1>15, <2>1, <2>3
<1>17. {g[v[j]].id : j \in On(v)} = wait \ {heap[c].id}
  <2>1. \A x : x \in wait <=> \E i \in On(w) : x = heap[w[i]].id
    BY <1>1 DEF Intact
  <2>2. \A x : (\E j \in On(v) : x = g[v[j]].id) <=>
               (\E i \in On(w) : i # k /\ x = heap[w[i]].id)
    <3> HIDE DEF Was
    <3> QED BY <1>13, <1>14, <1>15
  <2>3. \A x : (\E i \in On(w) : i # k /\ x = heap[w[i]].id) <=> x \in wait /\ x # heap[c].id
    BY <1>1, <1>16, <2>1
  <2> QED BY <2>2, <2>3
<1>18. \A j \in On(v) : v[j] \in alive \ {c}
  <2> HIDE DEF Was
  <2> QED BY <1>1, <1>13, <1>16 DEF Intact
<1>19. ASSUME NEW i \in On(v), NEW j \in On(v), i < j PROVE g[v[i]].id < g[v[j]].id
  <2>1. Was(i) < Was(j)
    BY <1>3, <1>19 DEF On
  <2> HIDE DEF Was
  <2> QED BY <1>1, <1>13, <1>15, <2>1 DEF Intact
<1>20. Intact(v, g, wait \ {heap[c].id}, alive \ {c})
  BY <1>8, <1>17, <1>18, <1>19 DEF Intact
<1> QED BY <1>12, <1>20

LEMMA IntactStep ==
  ASSUME TypeOK, IdsGiven, IntactUntilSpoiled, [Next]_vars
  PROVE  IntactUntilSpoiled'
<1> SUFFICES ASSUME ~ Spoiled' PROVE Intact(From(heap', head'), heap', waiting', live')
  BY DEF IntactUntilSpoiled, Intact, On, Endless, N, Walk
<1>1. ~ beheaded' /\ twice' = {}
  BY DEF Spoiled
<1>2. CASE OFP_encode_packet_in
  <2>1. beheaded' = beheaded /\ twice' = twice
    BY <1>2 DEF OFP_encode_packet_in
  <2>2. PICK h, c : Buffered(h, c)
    BY <1>1, <1>2, <2>1, EncodeIs DEF NotBuffered
  <2>3. /\ c \in Cells \ live /\ live' = live \cup {c} /\ waiting' = waiting \cup {buffer_id}
        /\ Filled(h, c) /\ Inserted(h, c)
    BY <1>1, <2>1, <2>2 DEF Buffered
  <2>4. Intact(Walk(heap), heap, waiting, live)
    BY <1>1, <2>1, IntactIs DEF Spoiled
  <2> QED BY <2>3, <2>4, InsertIntact
<1>3. CASE OFP_encode_back_to_host
  <2>1. PICK id : Answer(id) \/ NotFound(id)
    BY <1>3 DEF OFP_encode_back_to_host
  <2>2. head' = head /\ pc = "running"
    BY <1>3 DEF OFP_encode_back_to_host
  <2>3. CASE NotFound(id)
    <3>1. /\ heap' = heap /\ live' = live /\ waiting' = waiting
          /\ beheaded' = beheaded /\ twice' = twice
      BY <2>3 DEF NotFound
    <3> QED BY <1>1, <2>2, <3>1, IntactIs DEF Walk, Spoiled
  <2>4. CASE Answer(id)
    <3>1. PICK k \in Steps, c \in Cells :
           /\ k \in Hits(id) /\ c = Walk(heap)[k] /\ heap[c].id = id
           /\ \/ k = 0
              \/ k > 0 /\ Linked(heap, heap', Walk(heap)[k - 1], heap[c].next)
           /\ beheaded' = (beheaded \/ k = 0)
           /\ Sent(c) \/ Aborted(c)
      BY <2>2, <2>4, AnswerIs
    <3>2. ~ beheaded /\ k > 0
      BY <1>1, <3>1
    <3>3. twice = {}
      BY <1>1, <3>1 DEF Sent, Aborted
    <3>4. Intact(Walk(heap), heap, waiting, live)
      BY <3>2, <3>3, IntactIs DEF Spoiled
    <3>5. c \in live
      BY <3>1, <3>4 DEF Intact, On, Hits
    <3>6. live' = live \ {c} /\ waiting' = waiting \ {heap[c].id}
      BY <3>1, <3>3, <3>5 DEF Sent, Aborted
    <3> QED BY <2>2, <3>1, <3>2, <3>4, <3>6, RemoveIntact
  <2> QED BY <2>1, <2>3, <2>4
<1>4. CASE A_send_multipart_reply
  <2>1. UNCHANGED <<heap, live, twice, head, waiting, beheaded>>
    BY <1>4 DEF A_send_multipart_reply
  <2> QED BY <1>1, <2>1, IntactIs DEF Walk, Spoiled
<1>5. CASE ofpdInit
  <2>1. head' = Null /\ waiting' = {} /\ heap' = heap
    BY <1>5 DEF ofpdInit
  <2>2. IsWalk(From(heap, Null), heap, Null)
    BY Here, WalkIs DEF Places
  <2>3. \A k \in Steps : From(heap, Null)[k] = Null
    <3>1. 0 \in Steps /\ From(heap, Null)[0] = Null /\ \A k \in Steps : 0 <= k
      BY <2>2, StepsAre DEF IsWalk
    <3> QED BY <2>2, <3>1, EndStays
  <2>4. On(From(heap, Null)) = {} /\ From(heap, Null)[N] = Null
    BY <2>3, StepsAre DEF On
  <2>5. Intact(From(heap, Null), heap, {}, live')
    BY <2>4 DEF Intact
  <2> QED BY <2>1, <2>5
<1>6. CASE UNCHANGED vars
  BY <1>1, <1>6, IntactIs DEF vars, Walk, Spoiled
<1> QED BY <1>2, <1>3, <1>4, <1>5, <1>6 DEF Next

-----------------------------------------------------------------------------
(***************************************************************************)
(* The store of packets the list is                                        *)
(***************************************************************************)
LEMMA BufferIsBuffer ==
  ASSUME IInv, OFP_encode_packet_in
  PROVE  Store!Next
<1>1. TypeOK /\ IntactUntilSpoiled
  BY DEF IInv
<1>2. /\ pc = "running" /\ named' = NoFlowMod /\ reply'.id = 0 /\ first_id' = first_id
      /\ beheaded' = beheaded /\ twice' = twice /\ Spoiled' = Spoiled
  BY DEF OFP_encode_packet_in, NoNode, Node, Spoiled
<1>3. CASE \E h, c : Buffered(h, c)
  <2>1. PICK h, c : Buffered(h, c)
    BY <1>3
  <2>2. waiting' = waiting \cup {buffer_id} /\ buffer_id' = buffer_id + 1
    BY <2>1 DEF Buffered
  <2>3. pc' = pc \/ (Spoiled /\ pc' = "hung")
    <3>1. ASSUME ~ Spoiled PROVE ~ Endless(h)
      <4>1. Filled(h, c) /\ c \in Cells \ live
        BY <2>1, <3>1 DEF Buffered, Spoiled
      <4> QED BY <1>1, <3>1, <4>1, IntactIs, FilledWalk
    <3>2. Spoiled \/ ~ Spoiled
      OBVIOUS
    <3> QED BY <2>1, <3>1, <3>2 DEF Buffered, Inserted
  <2> QED BY <1>2, <2>2, <2>3 DEF Store!Next, Store!Buffer, Store!NoAnswer
<1>4. CASE NotBuffered
  BY <1>2, <1>4 DEF NotBuffered, Store!Next, Store!Buffer, Store!NoAnswer
<1> QED BY <1>1, <1>3, <1>4, EncodeIs

\* A multipart reply matters only once the list may run through freed memory.
LEMMA ReplyIsPause ==
  ASSUME IInv, A_send_multipart_reply
  PROVE  Store!Next
<1>1. Dangling => Spoiled
  <2> SUFFICES ASSUME Dangling, ~ Spoiled PROVE FALSE
    OBVIOUS
  <2>1. Intact(Walk(heap), heap, waiting, live) /\ twice = {}
    BY IntactIs DEF IInv, Spoiled
  <2>2. PICK k \in Steps : Walk(heap)[k] \in Cells /\ Walk(heap)[k] \notin live
    BY <2>1 DEF Dangling
  <2>3. k \in On(Walk(heap))
    BY <2>2, CellsAssumption DEF On
  <2> QED BY <2>1, <2>2, <2>3 DEF Intact
<1>2. /\ pc = "running" /\ named' = NoFlowMod /\ reply'.id = 0
      /\ UNCHANGED <<waiting, first_id, buffer_id, twice>> /\ Spoiled' = Spoiled
  BY DEF A_send_multipart_reply, NoNode, Node, Spoiled
<1>3. pc' = pc \/ (Spoiled /\ pc' = "undefined")
  BY <1>1 DEF A_send_multipart_reply
<1>4. Store!Pause
  BY <1>2, <1>3 DEF Store!Pause, Store!NoAnswer
<1> QED BY <1>2, <1>4 DEF Store!Next

\* On a list that is whole the first node is the oldest packet.
LEMMA FirstIsOldest ==
  ASSUME TypeOK, Intact(Walk(heap), heap, waiting, live),
         NEW k \in Steps, NEW c \in Cells, c = Walk(heap)[k]
  PROVE  /\ heap[c].id \in waiting /\ c \in live
         /\ k = 0 <=> Store!Oldest(heap[c].id)
<1> DEFINE w == Walk(heap)
<1>1. /\ IsWalk(w, heap, head) /\ w \in [Steps -> Places] /\ heap \in [Cells -> NodeType]
      /\ Intact(w, heap, waiting, live) /\ w[k] = c /\ c # Null
  BY Here, CellsAssumption DEF IsWalk
<1> HIDE DEF w
<1>2. /\ \A id : id \in waiting <=> \E j \in On(w) : id = heap[w[j]].id
      /\ \A j \in On(w) : w[j] \in live
      /\ \A i, j \in On(w) : i < j => heap[w[i]].id < heap[w[j]].id
  BY <1>1 DEF Intact
<1>3. k \in On(w) /\ 0 \in Steps /\ k \in Nat /\ \A j \in Steps : j = 0 \/ 0 < j
  BY <1>1, StepsAre DEF On
<1>4. \A j \in On(w) : heap[w[j]].id \in Int
  BY <1>1 DEF On, Places, NodeType
<1>5. heap[c].id \in waiting /\ c \in live
  BY <1>1, <1>2, <1>3
<1>6. ASSUME k = 0, NEW other \in waiting PROVE heap[c].id <= other
  <2>1. PICK j \in On(w) : other = heap[w[j]].id
    BY <1>2
  <2>2. j = k \/ k < j
    BY <1>3, <1>6 DEF On
  <2>3. CASE j = k
    BY <1>1, <1>3, <1>4, <2>1, <2>3
  <2>4. CASE k < j
    <3>1. heap[c].id < heap[w[j]].id
      BY <1>1, <1>2, <1>3, <2>4
    <3>2. heap[c].id \in Int /\ heap[w[j]].id \in Int
      BY <1>1, <1>3, <1>4
    <3> QED BY <2>1, <3>1, <3>2
  <2> QED BY <2>2, <2>3, <2>4
<1>7. ASSUME k # 0, \A other \in waiting : heap[c].id <= other PROVE FALSE
  <2>1. 0 < k
    BY <1>3, <1>7
  <2>2. 0 \in On(w)
    <3>1. 0 <= k
      BY <2>1, <1>3
    <3>2. w[0] # Null
      BY <1>1, <1>3, <3>1, EndStays
    <3> QED BY <1>3, <3>2 DEF On
  <2>3. heap[w[0]].id \in waiting /\ heap[w[0]].id < heap[c].id
    BY <1>1, <1>2, <1>3, <2>1, <2>2
  <2>4. heap[c].id <= heap[w[0]].id
    BY <1>7, <2>3
  <2> QED BY <1>1, <1>3, <1>4, <2>2, <2>3, <2>4
<1> QED BY <1>5, <1>6, <1>7 DEF Store!Oldest

LEMMA AnswerIsAnswer ==
  ASSUME IInv, pc = "running", NEW id, Answer(id), named' = id,
         buffer_id' = buffer_id, first_id' = first_id
  PROVE  Store!Answer(id) \/ Store!Repeat(id) \/ Store!Fail(id)
<1>1. /\ TypeOK /\ PointersInSession /\ IdsGiven
      /\ (~ Spoiled => Intact(Walk(heap), heap, waiting, live))
      /\ beheaded \in BOOLEAN
  BY IntactIs DEF IInv, TypeOK
<1>2. PICK k \in Steps, c \in Cells :
        /\ k \in Hits(id) /\ c = Walk(heap)[k] /\ heap[c].id = id
        /\ beheaded' = (beheaded \/ k = 0)
        /\ Sent(c) \/ Aborted(c)
  BY <1>1, AnswerIs
<1>3. first_id <= id /\ (c \in live <=> id \in waiting)
  <2>1. InSession(heap, head, sess)
    BY <1>1 DEF PointersInSession, InSession
  <2>2. heap[c].sess = sess
    BY <1>1, <1>2, <2>1, Here, WalkInSession DEF Hits
  <2> QED BY <1>1, <1>2, <2>2 DEF IdsGiven
<1>4. ASSUME c \notin live PROVE Spoiled
  BY <1>1, <1>2, <1>4, FirstIsOldest
<1>5. CASE Sent(c) /\ c \in live
  <2>1. reply'.id = id /\ waiting' = waiting \ {id} /\ pc' = pc /\ twice' = twice
    BY <1>2, <1>5 DEF Sent
  <2>2. Spoiled' = (Spoiled \/ Store!Oldest(id))
    <3>1. CASE Spoiled
      BY <1>1, <1>2, <2>1, <3>1 DEF Spoiled
    <3>2. CASE ~ Spoiled
      <4>1. k = 0 <=> Store!Oldest(id)
        BY <1>1, <1>2, <3>2, FirstIsOldest
      <4>2. Spoiled' <=> k = 0
        BY <1>1, <1>2, <2>1, <3>2 DEF Spoiled
      <4>3. Spoiled' \in BOOLEAN
        BY <1>1, <1>2 DEF Spoiled
      <4> QED BY <3>2, <4>1, <4>2, <4>3
    <3> QED BY <3>1, <3>2
  <2> QED BY <1>3, <1>5, <2>1, <2>2 DEF Store!Answer
<1>6. CASE Sent(c) /\ c \notin live
  <2>1. reply'.id = id /\ waiting' = waiting /\ pc' = pc /\ twice' # {}
    BY <1>2, <1>3, <1>6 DEF Sent
  <2>2. Spoiled /\ Spoiled'
    BY <1>4, <1>6, <2>1 DEF Spoiled
  <2>3. Spoiled' = Spoiled
    BY <1>1, <1>2, <2>2 DEF Spoiled
  <2> QED BY <1>3, <1>6, <2>1, <2>2, <2>3 DEF Store!Repeat
<1>7. CASE Aborted(c)
  <2>1. reply'.id = 0 /\ waiting' = waiting /\ pc' = "killed" /\ twice' = twice
    BY <1>7 DEF Aborted, NoNode, Node
  <2>2. Spoiled
    BY <1>4, <1>7 DEF Aborted, Spoiled
  <2>3. Spoiled' = Spoiled
    BY <1>1, <1>2, <2>1, <2>2 DEF Spoiled
  <2> QED BY <2>1, <2>2, <2>3 DEF Store!Fail, Store!NoAnswer
<1> QED BY <1>2, <1>5, <1>6, <1>7

\* A packet that waits is found on a list that is whole.
LEMMA WaitingHit ==
  ASSUME TypeOK, Intact(Walk(heap), heap, waiting, live), NEW id \in waiting
  PROVE  Hits(id) # {}
<1>1. PICK k \in On(Walk(heap)) : id = heap[Walk(heap)[k]].id
  BY DEF Intact
<1> QED BY <1>1 DEF On, Hits

LEMMA NotFoundIsFail ==
  ASSUME IInv, NEW id, NotFound(id), named' = id, buffer_id' = buffer_id, first_id' = first_id
  PROVE  Store!Fail(id)
<1>1. TypeOK /\ (~ Spoiled => Intact(Walk(heap), heap, waiting, live))
  BY IntactIs DEF IInv
<1>2. /\ Hits(id) = {} /\ pc' = (IF Endless(heap) THEN "hung" ELSE "killed")
      /\ reply'.id = 0 /\ waiting' = waiting /\ twice' = twice /\ Spoiled' = Spoiled
  BY DEF NotFound, NoNode, Node, Spoiled
<1>3. ASSUME ~ Spoiled PROVE id \notin waiting /\ pc' = "killed"
  <2>1. id \notin waiting
    BY <1>1, <1>2, <1>3, WaitingHit
  <2>2. ~ Endless(heap)
    BY <1>1, <1>3 DEF Intact, Endless, N
  <2> QED BY <1>2, <2>1, <2>2
<1>4. pc' \in {"killed", "hung"}
  BY <1>2
<1> QED BY <1>2, <1>3, <1>4 DEF Store!Fail, Store!NoAnswer

LEMMA StoreStep ==
  ASSUME IInv, [Next]_vars
  PROVE  [Store!Next]_Store!vars
<1>1. CASE OFP_encode_packet_in
  BY <1>1, BufferIsBuffer
<1>2. CASE OFP_encode_back_to_host
  <2>1. /\ pc = "running" /\ buffer_id' = buffer_id /\ first_id' = first_id
        /\ named' \in {NoBuffer} \cup 1..buffer_id - 1
        /\ Answer(named') \/ NotFound(named')
    BY <1>2 DEF OFP_encode_back_to_host
  <2>2. named' \in 0..buffer_id - 1
    BY <2>1 DEF IInv, TypeOK, NoBuffer
  <2>3. Store!Answer(named') \/ Store!Repeat(named') \/ Store!Fail(named')
    BY <2>1, AnswerIsAnswer, NotFoundIsFail
  <2> QED BY <2>1, <2>2, <2>3 DEF Store!Next
<1>3. CASE A_send_multipart_reply
  BY <1>3, ReplyIsPause
<1>4. CASE ofpdInit
  <2>1. reply'.id = 0 /\ twice' = twice /\ Spoiled' = (twice # {})
    BY <1>4 DEF ofpdInit, NoNode, Node, Spoiled
  <2> QED BY <1>4, <2>1 DEF ofpdInit, Store!Next, Store!NewSession, Store!NoAnswer
<1>5. CASE UNCHANGED vars
  BY <1>5 DEF vars, Store!vars, Spoiled
<1> QED BY <1>1, <1>2, <1>3, <1>4, <1>5 DEF Next

-----------------------------------------------------------------------------
(***************************************************************************)
(* The results                                                             *)
(***************************************************************************)
LEMMA InitInv == Init => IInv
<1> SUFFICES ASSUME Init PROVE IInv
  OBVIOUS
<1>1. NoNode \in NodeType /\ NoNode.sess = 0 /\ NoNode.id = 0 /\ NoNode.next = Null
  BY MaxIdAssumption, MaxSessAssumption DEF NoNode, Node, NodeType, Places
<1>2. TypeOK
  <2>1. heap \in [Cells -> NodeType] /\ reply \in NodeType /\ head \in Places
    BY <1>1 DEF Init, Places
  <2>2. /\ live \subseteq Cells /\ twice \subseteq Cells /\ pc = "running" /\ beheaded = FALSE
        /\ first_id \in 1..buffer_id /\ waiting \subseteq first_id..buffer_id - 1
    BY DEF Init
  <2>3. buffer_id \in 1..MaxId + 1 /\ sess \in 1..MaxSess /\ named \in NoFlowMod..MaxId
    BY MaxIdAssumption, MaxSessAssumption DEF Init, NoFlowMod
  <2> QED BY <2>1, <2>2, <2>3 DEF TypeOK, NodeType, Places
<1>3. PointersInSession /\ IdsGiven
  BY <1>1 DEF Init, PointersInSession, IdsGiven
<1>4. IntactUntilSpoiled
  <2>1. \A k \in Steps : Walk(heap)[k] = Null
    <3>1. 0 \in Steps /\ Walk(heap)[0] = Null /\ \A k \in Steps : 0 <= k
      BY <1>2, Here, StepsAre DEF IsWalk, Init
    <3> QED BY <1>2, <3>1, Here, EndStays
  <2>2. On(Walk(heap)) = {} /\ Walk(heap)[N] = Null
    BY <2>1, StepsAre DEF On
  <2>3. Intact(Walk(heap), heap, waiting, live)
    BY <2>2 DEF Intact, Init
  <2> QED BY <2>3, IntactIs
<1> QED BY <1>2, <1>3, <1>4 DEF IInv

\* The invariant is inductive, whether free() notices a second free or not: pointers
\* stay within a session, ids are given once, the live cells of the session are the
\* packets that wait, and a list that is not spoiled is whole.
THEOREM Invariant == Spec => []IInv
<1>1. IInv /\ [Next]_vars => IInv'
  BY TypeStep, SessionStep, IdsStep, IntactStep DEF IInv
<1> QED BY <1>1, InitInv, PTL DEF Spec

\* Type correctness, wherever the walks through freed memory lead.
THEOREM TypeCorrect == Spec => []TypeOK
<1>1. IInv => TypeOK
  BY DEF IInv
<1> QED BY <1>1, Invariant, PTL

\* insert_node and find_node keep the list exactly the packets that wait, in their
\* order and in live cells, until find_node removes its first node or free() has
\* missed that a node was freed before.
THEOREM ListIntact == Spec => []IntactUntilSpoiled
<1>1. IInv => IntactUntilSpoiled
  BY DEF IInv
<1> QED BY <1>1, Invariant, PTL

\* OFP_encode_back_to_host answers a host only about the packet named, of this
\* session, even when the list runs through freed memory; and only while it waits,
\* unless free() misses that its node is freed again.
THEOREM RepliesNamed == Spec => AnswersNamed
<1>1. IInv /\ [Next]_vars =>
        [reply' # NoNode =>
           /\ reply'.id = named'
           /\ reply'.sess = sess
           /\ \/ reply'.id \in waiting
              \/ \E c \in twice' : c \notin live /\ heap[c] = reply']_vars
  BY ReplyNamed DEF IInv
<1> QED BY <1>1, Invariant, PTL DEF Spec, AnswersNamed

\* The list implements the store of packets: a packet that waits is answered when the
\* controller names it as long as the oldest one has not been answered, and whatever
\* the walks through freed memory and free() do after that, no answer is for a packet
\* other than the one named, of the same session.
THEOREM StoreRefined == Spec => StoreSpec
<1>1. Init => Store!Init
  BY DEF Init, Store!Init, NoNode, Node, Spoiled
<1>2. IInv /\ [Next]_vars => [Store!Next]_Store!vars
  BY StoreStep
<1> QED BY <1>1, <1>2, Invariant, PTL DEF Spec, StoreSpec, Store!Spec

\* What find_node does to the packets it does not answer (WaitingIsFound, which does
\* not hold) begins with the first node it removes: until then each is found, unless
\* memory was freed twice in a session before.
THEOREM FoundUntilSpoiled == Spec => [](~ Spoiled => WaitingIsFound)
<1>1. IInv => (~ Spoiled => WaitingIsFound)
  BY IntactIs, WaitingHit DEF IInv, WaitingIsFound
<1> QED BY <1>1, Invariant, PTL

\* A flow mod for no buffered packet ends the agent, or keeps it in find_node for
\* ever, each time and whatever is on the list (NoBufferSurvived does not hold).
THEOREM NoBufferFatal == Spec => [](named = NoBuffer => pc # "running")
<1> DEFINE Fatal == named = NoBuffer => pc # "running"
<1>1. Init => Fatal
  BY DEF Init, NoFlowMod, NoBuffer
<1>2. IInv /\ Fatal /\ [Next]_vars => Fatal'
  <2> SUFFICES ASSUME IInv, Fatal, [Next]_vars PROVE Fatal'
    OBVIOUS
  <2>1. CASE UNCHANGED vars
    BY <2>1 DEF vars
  <2>2. CASE OFP_encode_packet_in \/ A_send_multipart_reply \/ ofpdInit
    BY <2>2 DEF OFP_encode_packet_in, A_send_multipart_reply, ofpdInit, NoFlowMod, NoBuffer
  <2>3. CASE OFP_encode_back_to_host /\ named' = NoBuffer
    <3>1. Store!Answer(NoBuffer) \/ Store!Repeat(NoBuffer) \/ Store!Fail(NoBuffer)
      BY <2>3, AnswerIsAnswer, NotFoundIsFail DEF OFP_encode_back_to_host
    <3>2. NoBuffer \notin waiting /\ ~ (first_id <= NoBuffer)
      BY DEF IInv, TypeOK, NoBuffer
    <3> QED BY <3>1, <3>2 DEF Store!Answer, Store!Repeat, Store!Fail
  <2> QED BY <2>1, <2>2, <2>3 DEF Next
<1> QED BY <1>1, <1>2, Invariant, PTL DEF Spec
=============================================================================
