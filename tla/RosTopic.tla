------------------------------ MODULE RosTopic ------------------------------
(***************************************************************************)
(* A ROS 2 topic as the nodes of this repository use it: reliable delivery *)
(* in order to one subscriber whose history is KEEP_LAST(depth).  The      *)
(* middleware never blocks a publisher: when the history is full the       *)
(* oldest undelivered message is discarded.  The middleware itself is not  *)
(* part of the repository, so these operators are external.                *)
(***************************************************************************)
EXTENDS Naturals, Sequences

\* The content of a topic after message m was published on it.
\* Mutant: a full history discards the new message.
PublishIfRoom(topic, m, depth) ==
  IF Len(topic) < depth THEN Append(topic, m) ELSE topic
Publish(topic, m, depth) ==
  IF Len(topic) < depth THEN Append(topic, m) ELSE Append(Tail(topic), m)

\* A topic of messages in M whose history holds at most depth messages.
IsTopic(topic, M, depth) == topic \in Seq(M) /\ Len(topic) <= depth
=============================================================================
