------------------------------ MODULE ConnLife ------------------------------
(***************************************************************************)
(* What the server promises about the life of a connection, without pool,  *)
(* counters, cookies or loop phases: a descriptor is accepted only while   *)
(* there is room, its stage moves forward one at a time (connected,        *)
(* reading, writing), and it can end at any stage.  One round of the write *)
(* loop may move one connection on to writing and end another.             *)
(***************************************************************************)
EXTENDS Integers, FiniteSets

CONSTANTS
  Fds,        \* the descriptors
  Limit       \* no connection is accepted while more than Limit are served

VARIABLE life  \* 0 closed, 1 connected, 2 reading, 3 writing

Served == {fd \in Fds : life[fd] # 0}

Init == life = [fd \in Fds |-> 0]

Accepted(fd) ==
  /\ life[fd] = 0
  /\ Cardinality(Served) <= Limit
  /\ life' = [life EXCEPT ![fd] = 1]

FirstBytes(fd) ==
  /\ life[fd] = 1
  /\ life' = [life EXCEPT ![fd] = 2]

(* The connections of Ending close; at most one other starts writing.      *)
Round(ending, starting) ==
  /\ \A fd \in ending : life[fd] # 0
  /\ \A fd \in starting : life[fd] = 2
  /\ life' = [fd \in Fds |-> IF fd \in ending THEN 0
                             ELSE IF fd \in starting THEN 3 ELSE life[fd]]

AtMostOne == {{}} \cup {{fd} : fd \in Fds}

Next ==
  \/ \E fd \in Fds : Accepted(fd) \/ FirstBytes(fd)
  \/ \E ending, starting \in AtMostOne : Round(ending, starting)

Spec == Init /\ [][Next]_life
=============================================================================
