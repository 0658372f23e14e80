---------------------------- MODULE JobLifecycle ----------------------------
(***************************************************************************)
(* What the queue promises about one job, whatever stores it and whoever   *)
(* runs it: the states of a job and the edges between them, with the       *)
(* number of tries each edge may change.  Several jobs may move in one     *)
(* step (a claim takes a batch), each along one edge of its own.           *)
(*                                                                         *)
(* "unborn" is an id nobody has dispatched yet and "gone" one the store no *)
(* longer knows: deleted after success, purged, or never stored because    *)
(* its idempotency key was taken.  The code tells neither from a missing   *)
(* row; ids are UUIDs and are never reused, which is why they differ here. *)
(***************************************************************************)
EXTENDS Integers

CONSTANT Ids              \* the jobs ever dispatched

VARIABLE life             \* life[j]: the state and the tries of job j

Life(state, tries) == [state |-> state, tries |-> tries]

Init == life = [j \in Ids |-> Life("unborn", 0)]

\* A claim hands the job out and counts it as a try.
Begin(a, b) == a.state = "pending" /\ b = Life("active", a.tries + 1)

\* A failed try, or one whose worker went silent, leaves the count as it is.
Again(a, b) == a.state = "active" /\ b = Life("pending", a.tries)

\* A graceful shutdown takes the try back.
PutBack(a, b) == a.state = "active" /\ b = Life("pending", a.tries - 1)

Finish(a, b) == /\ a.state = "active"
                /\ \/ b = Life("completed", a.tries)
                   \/ b = Life("dead", a.tries)
                   \/ b.state = "gone"

Create(a, b) == a.state = "unborn" /\ (b = Life("pending", 0) \/ b.state = "gone")
Revive(a, b) == a.state = "dead" /\ b = Life("pending", 0)
Forget(a, b) == a.state \in {"completed", "dead"} /\ b.state = "gone"

Edge(a, b) == \/ Create(a, b)
              \/ Begin(a, b)
              \/ Again(a, b)
              \/ PutBack(a, b)
              \/ Finish(a, b)
              \/ Revive(a, b)
              \/ Forget(a, b)

Next == \E S \in SUBSET Ids :
          /\ \A j \in S : Edge(life[j], life'[j])
          /\ \A j \in Ids \ S : life'[j] = life[j]

Spec == Init /\ [][Next]_life
=============================================================================
