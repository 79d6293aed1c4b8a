---------------------------- MODULE GroupReader ----------------------------
(***************************************************************************)
(* How every consumer of the pipeline reads its topic: kafka-go's          *)
(* Reader.ReadMessage with a GroupID (vol3-service/cmd/main.go:23-35,      *)
(* orchestrator/main.go:31-52, decision_engine/cmd/main.go:24-47).  The    *)
(* library fetches the next message, commits its offset synchronously and  *)
(* only then returns it; when the commit fails the message is dropped and  *)
(* the callers' loops just continue.  One partition, one consumer of it.   *)
(***************************************************************************)
EXTENDS Naturals, Sequences

CONSTANT Message   \* what a partition may hold

VARIABLES
  topic,       \* the partition's messages; those still to come are already in
               \* it, since a reader that has not fetched one cannot tell
  position,    \* the reader fetches topic[position] next
  committed,   \* the group's committed offset: a new reader starts there
  delivered    \* history: the offsets ReadMessage has returned, in order

vars == <<topic, position, committed, delivered>>

Offset == 1..Len(topic)

\* kafka-go's StartOffset defaults to FirstOffset for a group with no commit.
Init ==
  /\ topic \in Seq(Message)
  /\ position = 1
  /\ committed = 1
  /\ delivered = <<>>

\* Mutant: deliver first, leave the commit for later.
ReadMessage_NotCommitted ==
  /\ position <= Len(topic)
  /\ position' = position + 1
  /\ delivered' = Append(delivered, position)
  /\ UNCHANGED <<topic, committed>>

\* ReadMessage returns topic[position], whose offset is committed.
ReadMessage ==
  /\ position <= Len(topic)
  /\ position' = position + 1
  /\ committed' = position + 1
  /\ delivered' = Append(delivered, position)
  /\ UNCHANGED topic

\* Mutant: an error is taken to skip a message even when none was fetched.
CommitFails_NoneFetched ==
  /\ position' = position + 1
  /\ committed' \in {committed, position + 1}
  /\ UNCHANGED <<topic, delivered>>

\* The commit fails, or its answer is lost: ReadMessage returns an error, the
\* caller logs it and the message is not seen again by this reader.
CommitFails ==
  /\ position <= Len(topic)
  /\ position' = position + 1
  /\ committed' \in {committed, position + 1}
  /\ UNCHANGED <<topic, delivered>>

\* A restarted process, or a reader whose group was rebalanced, resumes at
\* the committed offset.
Resume ==
  /\ position' = committed
  /\ UNCHANGED <<topic, committed, delivered>>

Next == ReadMessage \/ CommitFails \/ Resume

Spec == Init /\ [][Next]_vars

-----------------------------------------------------------------------------
TypeOK ==
  /\ topic \in Seq(Message)
  /\ position \in 1..(Len(topic) + 1)
  /\ committed \in 1..(Len(topic) + 1)
  /\ delivered \in Seq(Offset)

\* A message is handled at most once and never after a later one, whatever
\* commits fail and whenever the process restarts: a message skipped by a
\* failed commit comes back only while nothing after it was delivered.
InOrderAtMostOnce ==
  \A i, j \in 1..Len(delivered) : i < j => delivered[i] < delivered[j]

\* A restart never takes the reader back to a message it has returned.
NothingRedelivered == \A i \in 1..Len(delivered) : delivered[i] < committed
=============================================================================
