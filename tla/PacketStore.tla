----------------------------- MODULE PacketStore -----------------------------
(***************************************************************************)
(* What the list of buffered packets is good for.  The packets of the      *)
(* session wait under ids that are given once.  As long as the oldest one  *)
(* is not answered the store is exact: a packet that waits is answered     *)
(* when its id is named, and any other id ends the program.  From then on  *)
(* it is spoiled: a request may also end the program, keep it busy for     *)
(* ever or leave what it does undefined, and a packet of the session that  *)
(* was answered may be answered again; but an answer is still one to the   *)
(* packet that was named.  The next session starts with an exact store,    *)
(* unless an answer was repeated: that damages the store for good.         *)
(* HostLearn implements this.                                              *)
(***************************************************************************)
EXTENDS Integers

CONSTANT NoFlowMod

VARIABLES
  status,     \* of the program: "running", "hung", "killed" or "undefined"
  waiting,    \* the ids of the packets that wait
  first_id,   \* the first id of the session
  next_id,    \* the next id
  spoiled,    \* the store need not be exact
  damaged,    \* an answer was repeated
  named,      \* the id named in the last step, or NoFlowMod
  answered    \* the id of the packet answered in the last step, or 0

vars == <<status, waiting, first_id, next_id, spoiled, damaged, named, answered>>

Init ==
  /\ status = "running"
  /\ waiting = {}
  /\ first_id = 1
  /\ next_id = 1
  /\ spoiled = FALSE
  /\ damaged = FALSE
  /\ named = NoFlowMod
  /\ answered = 0

NoAnswer(id) == named' = id /\ answered' = 0

Buffer ==
  /\ \/ /\ waiting' = waiting \cup {next_id}
        /\ next_id' = next_id + 1
        /\ UNCHANGED status \/ (spoiled /\ status' = "hung")
     \/ /\ damaged
        /\ status' = "undefined"
        /\ UNCHANGED <<waiting, next_id>>
  /\ NoAnswer(NoFlowMod)
  /\ UNCHANGED <<first_id, spoiled, damaged>>

Oldest(id) == \A other \in waiting : id <= other

Answer(id) ==
  /\ id \in waiting
  /\ waiting' = waiting \ {id}
  /\ spoiled' = (spoiled \/ Oldest(id))
  /\ named' = id
  /\ answered' = id
  /\ UNCHANGED <<status, first_id, next_id, damaged>>

\* A packet of the session that was answered before is answered again.
Repeat(id) ==
  /\ spoiled
  /\ first_id <= id
  /\ id \notin waiting
  /\ damaged' = TRUE
  /\ named' = id
  /\ answered' = id
  /\ UNCHANGED <<status, waiting, first_id, next_id, spoiled>>

Fail(id) ==
  /\ \/ id \notin waiting /\ status' = "killed"
     \/ spoiled /\ status' \in {"killed", "hung"}
  /\ NoAnswer(id)
  /\ UNCHANGED <<waiting, first_id, next_id, spoiled, damaged>>

\* The program has something else to do.
Pause ==
  /\ UNCHANGED status \/ (spoiled /\ status' = "undefined")
  /\ NoAnswer(NoFlowMod)
  /\ UNCHANGED <<waiting, first_id, next_id, spoiled, damaged>>

NewSession ==
  /\ waiting' = {}
  /\ first_id' = next_id
  /\ spoiled' = damaged
  /\ NoAnswer(NoFlowMod)
  /\ UNCHANGED <<status, next_id, damaged>>

Next ==
  /\ status = "running"
  /\ \/ Buffer
     \/ Pause
     \/ NewSession
     \/ \E id \in 0..next_id - 1 : Answer(id) \/ Repeat(id) \/ Fail(id)

Spec == Init /\ [][Next]_vars
=============================================================================
