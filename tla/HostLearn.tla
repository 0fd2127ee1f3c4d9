------------------------------ MODULE HostLearn ------------------------------
(***************************************************************************)
(* The packets of hosts the agent has buffered for the controller to       *)
(* decide about: the list of host_learn_t behind port_ccb->head, with      *)
(* insert_node and find_node (src/ofp_codec.c).  The main process alone    *)
(* uses it, one mail after the other, whatever the state of the session.   *)
(*                                                                         *)
(* find_node leaves the head where it is when it removes the first node,   *)
(* which is then freed, so the list may run through freed memory.  Freed   *)
(* nodes keep their id and next (malloc() and free() write over the first  *)
(* 16 bytes only) until the cell is given out again, and a node found in a *)
(* freed cell is freed again.  The C library may notice that and abort.    *)
(* If it does not, malloc() may give the cell out twice, or, from then on, *)
(* do anything: the status "undefined", of which nothing is claimed.       *)
(***************************************************************************)
EXTENDS Integers, FiniteSets

CONSTANTS
  Cells,      \* where malloc() may place a node
  Null,
  MaxId,      \* packets buffered
  MaxSess     \* sessions

ASSUME CellsAssumption == IsFiniteSet(Cells) /\ Null \notin Cells
ASSUME MaxIdAssumption == MaxId \in Nat /\ MaxId <= Cardinality(Cells)
ASSUME MaxSessAssumption == MaxSess \in Nat \ {0}

VARIABLES
  heap,       \* what the cells hold
  live,       \* the cells malloc() has given out and free() has not taken back
  twice,      \* the cells that were freed while they were free
  head,       \* port_ccb->head
  buffer_id,  \* the static counter of OFP_encode_packet_in
  pc,         \* the main process: "running", "hung", "killed" or "undefined"
  sess,       \* the session
  first_id,   \* the value of buffer_id when the session began
  waiting,    \* ids buffered in this session and not answered yet
  beheaded,   \* in this session the first node has been removed
  named,      \* the id named by the flow mod of the last step, or NoFlowMod
  reply       \* the node the last step made an answer to the host from

vars == <<heap, live, twice, head, buffer_id, pc, sess, first_id, waiting, beheaded,
          named, reply>>

Node(id, next, s) == [id |-> id, next |-> next, sess |-> s]
NoNode == Node(0, Null, 0)
NoBuffer == 0              \* OFP_NO_BUFFER, an id no packet ever has
NoFlowMod == -1

Init ==
  /\ heap = [c \in Cells |-> NoNode]
  /\ live = {}
  /\ twice = {}
  /\ head = Null
  /\ buffer_id = 1
  /\ pc = "running"
  /\ sess = 1
  /\ first_id = 1
  /\ waiting = {}
  /\ beheaded = FALSE
  /\ named = NoFlowMod
  /\ reply = NoNode
-----------------------------------------------------------------------------
(***************************************************************************)
(* Walks along the list: where a walk from the head is after k steps.  One *)
(* that has not met the end after as many steps as there are cells never   *)
(* does.                                                                   *)
(***************************************************************************)
Steps == 0..Cardinality(Cells)

From(h, c) ==
  LET at[k \in Steps] ==
        IF k = 0 THEN c
        ELSE IF at[k - 1] = Null THEN Null ELSE h[at[k - 1]].next
  IN  at

Walk(h) == From(h, head)

Endless(h) == Walk(h)[Cardinality(Cells)] # Null

LastCell(h) == CHOOSE c \in Cells :
  h[c].next = Null /\ \E k \in Steps : Walk(h)[k] = c

Hits(id) == {k \in Steps : Walk(heap)[k] # Null /\ heap[Walk(heap)[k]].id = id}
FirstHit(id) == CHOOSE k \in Hits(id) : \A j \in Hits(id) : k <= j
-----------------------------------------------------------------------------
\* Where the C library may place the next node: a cell in its free lists.
malloc == (Cells \ live) \cup twice

\* free(c).  Once a cell has been freed twice any free() may notice.
free(c) ==
  \/ /\ live' = live \ {c}
     /\ twice' = IF c \in live THEN twice ELSE twice \cup {c}
     /\ UNCHANGED pc
  \/ /\ c \notin live \/ twice # {}
     /\ pc' = "killed"
     /\ UNCHANGED <<live, twice>>

insert_node_InFront(h, c) ==
  /\ head' = c
  /\ heap' = [h EXCEPT ![c].next = head]
  /\ UNCHANGED pc

\* insert_node(&head, c) on the heap h, in which c is already filled in.
insert_node(h, c) ==
  \/ /\ head = Null
     /\ head' = c
     /\ heap' = h
     /\ UNCHANGED pc
  \/ /\ head # Null
     /\ ~ Endless(h)
     /\ heap' = [h EXCEPT ![LastCell(h)].next = c]
     /\ UNCHANGED <<head, pc>>
  \/ /\ head # Null
     /\ Endless(h)
     /\ heap' = h
     /\ pc' = "hung"
     /\ UNCHANGED head

OFP_encode_packet_in ==
  /\ pc = "running"
  /\ buffer_id <= MaxId
  /\ \/ /\ \E c \in malloc :
             /\ live' = live \cup {c}
             /\ insert_node([heap EXCEPT ![c] = Node(buffer_id, Null, sess)], c)
        /\ buffer_id' = buffer_id + 1
        /\ waiting' = waiting \cup {buffer_id}
     \/ /\ twice # {}
        /\ pc' = "undefined"
        /\ UNCHANGED <<heap, live, head, buffer_id, waiting>>
  /\ named' = NoFlowMod
  /\ reply' = NoNode
  /\ UNCHANGED <<twice, sess, first_id, beheaded>>

find_node_LeavesIt(k) == UNCHANGED heap

\* find_node, found after k steps: the node before it, if any, skips it.
find_node(k) ==
  \/ k = 0 /\ UNCHANGED heap
  \/ /\ k > 0
     /\ heap' = [heap EXCEPT ![Walk(heap)[k - 1]].next = heap[Walk(heap)[k]].next]

\* A flow mod for id: the answer is made from the node found, which is then freed.
\* It goes out when free() returns.
Answer(id) ==
  /\ Hits(id) # {}
  /\ LET k == FirstHit(id)
         c == Walk(heap)[k]
     IN  /\ find_node(k)
         /\ beheaded' = (beheaded \/ k = 0)
         /\ free(c)
         /\ \/ pc' = "running" /\ reply' = heap[c] /\ waiting' = waiting \ {id}
            \/ pc' = "killed" /\ reply' = NoNode /\ UNCHANGED waiting

\* No node has the id: find_node returns NULL, which is dereferenced, or it
\* goes round and round.
NotFound(id) ==
  /\ Hits(id) = {}
  /\ pc' = IF Endless(heap) THEN "hung" ELSE "killed"
  /\ reply' = NoNode
  /\ UNCHANGED <<heap, live, twice, waiting, beheaded>>

\* The controller may name any packet buffered so far, or none.
OFP_encode_back_to_host ==
  /\ pc = "running"
  /\ named' \in {NoBuffer} \cup 1..buffer_id - 1
  /\ Answer(named') \/ NotFound(named')
  /\ UNCHANGED <<head, buffer_id, sess, first_id>>

\* The list runs through freed memory, or may come to.
Dangling == twice # {} \/ \E k \in Steps : Walk(heap)[k] \in Cells \ live

\* getifaddrs() and freeifaddrs() use memory as they like, but only memory that is
\* free.
A_send_multipart_reply ==
  /\ pc = "running"
  /\ UNCHANGED pc \/ (Dangling /\ pc' = "undefined")
  /\ named' = NoFlowMod
  /\ reply' = NoNode
  /\ UNCHANGED <<heap, live, twice, head, buffer_id, sess, first_id, waiting, beheaded>>

ofpdInit_KeepsHead ==
  /\ pc = "running"
  /\ sess < MaxSess
  /\ sess' = sess + 1
  /\ first_id' = buffer_id
  /\ waiting' = {}
  /\ beheaded' = FALSE
  /\ named' = NoFlowMod
  /\ reply' = NoNode
  /\ UNCHANGED <<heap, live, twice, head, buffer_id, pc>>

ofpdInit_RestartsIds ==
  /\ pc = "running"
  /\ sess < MaxSess
  /\ sess' = sess + 1
  /\ head' = Null
  /\ buffer_id' = 0
  /\ first_id' = 0
  /\ waiting' = {}
  /\ beheaded' = FALSE
  /\ named' = NoFlowMod
  /\ reply' = NoNode
  /\ UNCHANGED <<heap, live, twice, pc>>

\* A new session: the nodes are dropped without being freed, the counter of the
\* ids goes on, and so does what free() has done to the memory.
ofpdInit ==
  /\ pc = "running"
  /\ sess < MaxSess
  /\ sess' = sess + 1
  /\ head' = Null
  /\ first_id' = buffer_id
  /\ waiting' = {}
  /\ beheaded' = FALSE
  /\ named' = NoFlowMod
  /\ reply' = NoNode
  /\ UNCHANGED <<heap, live, twice, buffer_id, pc>>

Next ==
  \/ OFP_encode_packet_in
  \/ OFP_encode_back_to_host
  \/ A_send_multipart_reply
  \/ ofpdInit

Spec == Init /\ [][Next]_vars
-----------------------------------------------------------------------------
\* Every variable stays in its type.
TypeOK ==
  /\ heap \in [Cells -> [id : 0..MaxId, next : Cells \cup {Null}, sess : 0..MaxSess]]
  /\ live \subseteq Cells
  /\ twice \subseteq Cells
  /\ head \in Cells \cup {Null}
  /\ buffer_id \in 1..MaxId + 1
  /\ pc \in {"running", "hung", "killed", "undefined"}
  /\ sess \in 1..MaxSess
  /\ first_id \in 1..buffer_id
  /\ waiting \subseteq first_id..buffer_id - 1
  /\ beheaded \in BOOLEAN
  /\ named \in NoFlowMod..MaxId
  /\ reply \in [id : 0..MaxId, next : Cells \cup {Null}, sess : 0..MaxSess]

\* Whatever has become of the list, an answer goes out only for the packet the
\* controller named, of this session: an id kept from a lost session never makes the
\* agent answer the host of another packet.  That packet still waits, unless free()
\* has missed that the node of an answered one was freed again.
AnswersNamed ==
  [][reply' # NoNode =>
       /\ reply'.id = named'
       /\ reply'.sess = sess
       /\ \/ reply'.id \in waiting
          \/ \E c \in twice' : c \notin live /\ heap[c] = reply']_vars

\* The first node has been removed in this session, or memory freed twice since the
\* agent started.
Spoiled == beheaded \/ twice # {}

\* Until then the list is exactly what waits, in live cells, each id once and the
\* oldest first.
IntactUntilSpoiled ==
  ~ Spoiled =>
    LET OnList == {k \in Steps : Walk(heap)[k] # Null}
        At(k) == heap[Walk(heap)[k]]
    IN  /\ ~ Endless(heap)
        /\ {At(k).id : k \in OnList} = waiting
        /\ \A k \in OnList : Walk(heap)[k] \in live
        /\ \A j, k \in OnList : j < k => At(j).id < At(k).id

(***************************************************************************)
(* The inductive invariant these rest on.  A pointer of this session, be   *)
(* it in a live cell or in a freed one, leads to a cell filled in this     *)
(* session, whichever cells malloc() gives out.                            *)
(***************************************************************************)
PointersInSession ==
  /\ head # Null => heap[head].sess = sess
  /\ \A c \in Cells :
       heap[c].sess = sess /\ heap[c].next # Null => heap[heap[c].next].sess = sess

\* No id was given twice, and of the cells of this session the live ones are those
\* whose packets wait.
IdsGiven ==
  /\ \A c \in Cells : heap[c].sess <= sess /\ heap[c].id < buffer_id
  /\ \A c, d \in Cells : heap[c].sess # 0 /\ heap[c].id = heap[d].id => c = d
  /\ \A c \in Cells : heap[c].sess = sess =>
       first_id <= heap[c].id /\ (c \in live <=> heap[c].id \in waiting)

IInv == TypeOK /\ PointersInSession /\ IdsGiven /\ IntactUntilSpoiled

\* The list, its walks and the memory behind it are a store of packets: exact until
\* it is spoiled, and answering nothing but what it was asked for after that.
Store == INSTANCE PacketStore WITH
  status <- pc,
  next_id <- buffer_id,
  spoiled <- Spoiled,
  damaged <- twice # {},
  answered <- reply.id

StoreSpec == Store!Spec

\* src/ofp_ctrl2sw.h:61: a flow mod names the buffered packet it applies to; one that still waits
\* should be on it, and so be found when the controller answers.
WaitingIsFound ==
  pc = "running" => \A id \in waiting : Hits(id) # {}

\* src/ofp_ctrl2sw.h:61-62: a flow mod may apply to no buffered packet.
NoBufferSurvived == named = NoBuffer => pc = "running"
=============================================================================
