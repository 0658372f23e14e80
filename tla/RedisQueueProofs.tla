-------------------------- MODULE RedisQueueProofs --------------------------
(***************************************************************************)
(* Proofs about the Redis adapter for any jobs, queues, names, workers,    *)
(* keys, instants and claim sizes: its structures always agree with the    *)
(* hashes, so its scripts do to the hashes what the operators of the job   *)
(* table do; the CLAIM script, which cuts its candidates per queue, name   *)
(* and priority before it merges and cuts them again, picks exactly the    *)
(* first due jobs of all; and so the adapter implements the storage        *)
(* contract of the memory adapter.                                         *)
(***************************************************************************)
EXTENDS RedisQueue, JobTableLemmas, FiniteSetTheorems, FunctionTheorems

\* What the hashes hold beyond their types: agreeing columns, no job before its
\* creation, and a time for each job that waits.
Hashes(h) ==
  /\ GoodTable(h)
  /\ \A j \in Ids : h[j].state # "unborn" /\ (h[j].state = "pending" => h[j].runAt \in Times)

IInv == TypeOK /\ Hashes(hash) /\ StructuresAgree

-----------------------------------------------------------------------------
LEMMA TimesAreNat == Times \subseteq Nat
BY ScoresAssumption

LEMMA ScoreIsNat ==
  ASSUME NEW j \in Ids, NEW t \in Nat
  PROVE  score(j, t) \in Nat
<1>1. TopPriority - Priority[j] \in Nat /\ Band \in Nat
  BY ScoresAssumption
<1>2. \A a, b \in Nat : a * b + t \in Nat
  OBVIOUS
<1>3. QED
  BY <1>1, <1>2 DEF score

\* The times a hash gives are scores: none is NoScore.
LEMMA Scored ==
  ASSUME Hashes(hash), NEW j \in Ids
  PROVE  /\ hash[j] \in Row
         /\ hash[j].state = "pending" => /\ score(j, hash[j].runAt) \in Nat
                                         /\ hash[j].finishedAt = NoTime
         /\ hash[j].state = "active" => /\ hash[j].lockedUntil \in Nat
                                        /\ hash[j].finishedAt = NoTime
         /\ hash[j].state \in Finished => hash[j].finishedAt \in Nat
<1>1. hash[j] \in Row /\ Agrees(hash[j])
  BY DEF Hashes, GoodTable
<1>2. hash[j].state = "pending" => score(j, hash[j].runAt) \in Nat
  BY ScoreIsNat, TimesAreNat DEF Hashes
<1>3. QED
  BY <1>1, <1>2 DEF Agrees, Row, Finished

LEMMA InitIInv == Init => IInv
<1> SUFFICES ASSUME Init PROVE IInv
  OBVIOUS
<1>1. Good(NoRow("gone"))
  BY NewRows
<1>2. GoodTable(hash)
  BY <1>1 DEF Init, GoodTable, Good
<1>3. Hashes(hash)
  BY <1>2 DEF Init, Hashes, NoRow
<1>4. TypeOK
  BY <1>2 DEF Init, TypeOK, GoodTable, ZSet, Score, NoScore, NoJob
<1>5. \A j \in Ids : hash[j].state = "gone"
  BY DEF Init, NoRow
<1>6. NoJob \notin Ids
  BY IdsAssumption DEF NoJob
<1>7. StructuresAgree
  BY <1>5, <1>6 DEF Init, StructuresAgree, PendingAgrees, ActiveAgrees, FinishedAgrees, KeysAgree,
                    IndexAgrees, Exists, Stored, Finished
<1>8. QED
  BY <1>3, <1>4, <1>7 DEF IInv

-----------------------------------------------------------------------------
\* One lemma per script: it keeps the invariant, and does to the hashes what the
\* operation of the job table does.

LEMMA EnqueueStep ==
  ASSUME IInv, NEW j \in Ids, NEW t \in Times, enqueue(j, t)
  PROVE  IInv' /\ hash' = [hash EXCEPT ![j] = NewRow(t)] /\ hash[j].state = "gone"
<1>1. t \in Nat /\ hash' = [hash EXCEPT ![j] = NewRow(t)] /\ hash \in [Ids -> Row]
  BY ScoresAssumption DEF enqueue, IInv, TypeOK
<1>2. Good(NewRow(t)) /\ NewRow(t).state = "pending" /\ NewRow(t).runAt = t
  BY <1>1, NewRows DEF NewRow, NoRow
<1>3. Hashes(hash')
  BY <1>1, <1>2 DEF IInv, Hashes, GoodTable, Good
<1>4. hash[j].state = "gone" /\ ~Exists(j)
  BY DEF enqueue, IInv, StructuresAgree, IndexAgrees, Hashes, GoodTable, Row, Exists
<1>5. score(j, t) \in Nat
  BY <1>1, ScoreIsNat
<1>6. TypeOK'
  <2>1. hash' \in [Ids -> Row]
    BY <1>3 DEF Hashes, GoodTable
  <2>2. pending' \in [Places -> ZSet]
    BY <1>5 DEF enqueue, Waiting, ZAdd, ZSet, Score, IInv, TypeOK
  <2>3. QED
    BY <2>1, <2>2, PlacesAssumption DEF enqueue, IInv, TypeOK
<1>7. PendingAgrees'
  BY <1>1, <1>2, <1>4 DEF enqueue, Waiting, ZAdd, IInv, StructuresAgree, PendingAgrees, score
<1>8. ActiveAgrees' /\ FinishedAgrees'
  BY <1>1, <1>2, <1>4 DEF enqueue, IInv, StructuresAgree, ActiveAgrees, FinishedAgrees, Finished
<1>9. KeysAgree' /\ IndexAgrees'
  <2>1. \A i \in Ids : Exists(i)' <=> Exists(i) \/ i = j
    BY <1>1, <1>2 DEF Exists, Stored
  <2>2. NoJob \notin Ids
    BY IdsAssumption DEF NoJob
  <2>3. KeysAgree'
    BY <1>4, <2>1, <2>2, KeysAssumption DEF enqueue, Taken, IInv, TypeOK, StructuresAgree, KeysAgree
  <2>4. IndexAgrees'
    BY <1>4, <2>1 DEF enqueue, IInv, StructuresAgree, IndexAgrees
  <2>5. QED
    BY <2>3, <2>4
<1>10. QED
  BY <1>1, <1>3, <1>4, <1>6, <1>7, <1>8, <1>9 DEF IInv, StructuresAgree

\* What the candidates of CLAIM are: jobs waiting where they were found.
LEMMA ChosenWait ==
  ASSUME IInv, NEW w \in Workers, NEW now, NEW limit, NEW c \in Chosen(w, now, limit)
  PROVE  /\ c[1] \in Places /\ c[2] \in Ids /\ c = <<c[1], c[2]>>
         /\ hash[c[2]].state = "pending" /\ c[1] = Place(c[2])
<1>1. c \in (QueuesOf[w] \X NamesOf[w]) \X Ids /\ c[2] \in Found(c[1], now, limit)
  BY DEF Chosen, Candidates
<1>2. c[1] \in Places /\ c[2] \in Ids /\ c = <<c[1], c[2]>>
  BY <1>1, AskedAssumption DEF Places
<1>3. pending[c[1]][c[2]] # NoScore
  BY <1>1 DEF Found, InRange
<1>4. QED
  BY <1>2, <1>3 DEF IInv, StructuresAgree, PendingAgrees

LEMMA ClaimStep ==
  ASSUME IInv, NEW w \in Workers, NEW now \in Times, NEW until \in Times, NEW limit \in Limits,
         claim(w, now, limit, until)
  PROVE  /\ IInv'
         /\ \E S \in SUBSET Ids : /\ \A j \in S : hash[j].state = "pending"
                                  /\ hash' = Claimed(hash, w, S, until)
<1> DEFINE C == Chosen(w, now, limit)
           S == {c[2] : c \in C}
<1>1. /\ S \in SUBSET Ids
      /\ \A j \in S : hash[j].state = "pending"
      /\ \A k \in Places, j \in Ids : <<k, j>> \in C <=> j \in S /\ k = Place(j)
      /\ \A q \in Queues, j \in Ids : (\E c \in C : c[2] = j /\ c[1][1] = q) <=> j \in S /\ q = QueueOf[j]
  <2>1. \A c \in C : /\ c[1] \in Places /\ c[2] \in Ids /\ c = <<c[1], c[2]>>
                     /\ hash[c[2]].state = "pending" /\ c[1] = Place(c[2])
    BY ChosenWait
  <2> HIDE DEF C
  <2>2. \A j \in Ids : Place(j) \in Places /\ Place(j)[1] = QueueOf[j]
    BY PlacesAssumption DEF Place, Places
  <2>3. \A k, j : <<k, j>>[1] = k /\ <<k, j>>[2] = j
    OBVIOUS
  <2>4. QED
    BY <2>1, <2>2, <2>3
<1>2. hash' = Claimed(hash, w, S, until)
  BY DEF claim, ClaimAll, Claimed
<1>3. /\ pending' = [k \in Places |-> ZRem(pending[k], {j \in Ids : <<k, j>> \in C})]
      /\ active' = [q \in Queues |-> ZAdd(active[q], {j \in Ids : \E c \in C : c[2] = j /\ c[1][1] = q},
                                          [j \in Ids |-> until])]
      /\ UNCHANGED <<finished, idem, index, queues, created>>
  BY DEF claim, ClaimAll
<1> HIDE DEF C, S
<1>4. until \in Nat
  BY ScoresAssumption
<1>5. Hashes(hash')
  <2>1. GoodTable(hash')
    BY <1>1, <1>2, <1>4, ClaimedGood DEF IInv, Hashes
  <2>2. \A j \in Ids : hash'[j] = hash[j] \/ hash'[j].state = "active"
    BY <1>2 DEF Claimed, IInv, Hashes, GoodTable, Row
  <2>3. QED
    BY <2>1, <2>2 DEF IInv, Hashes
<1>6. \A j \in Ids : /\ j \in S => hash'[j].state = "active" /\ hash'[j].lockedUntil = until
                     /\ j \notin S => hash'[j] = hash[j]
  BY <1>2 DEF Claimed, IInv, Hashes, GoodTable, Row
<1>7. TypeOK'
  <2>1. pending' \in [Places -> ZSet] /\ active' \in [Queues -> ZSet]
    BY <1>3, <1>4 DEF ZRem, ZAdd, ZSet, Score, IInv, TypeOK
  <2>2. QED
    BY <1>3, <1>5, <2>1 DEF Hashes, GoodTable, IInv, TypeOK
<1>8. PendingAgrees' /\ ActiveAgrees'
  BY <1>1, <1>3, <1>6 DEF ZRem, ZAdd, IInv, StructuresAgree, PendingAgrees, ActiveAgrees
<1>9. FinishedAgrees'
  BY <1>1, <1>3, <1>6 DEF IInv, StructuresAgree, FinishedAgrees, Finished
<1>10. KeysAgree' /\ IndexAgrees'
  <2>1. \A j \in Ids : Exists(j)' <=> Exists(j)
    BY <1>1, <1>6 DEF Exists, Stored
  <2>2. QED
    BY <1>3, <2>1 DEF IInv, StructuresAgree, KeysAgree, IndexAgrees
<1>11. QED
  BY <1>1, <1>2, <1>5, <1>7, <1>8, <1>9, <1>10 DEF IInv, StructuresAgree

LEMMA RenewStep ==
  ASSUME IInv, NEW w \in Workers, NEW S \in SUBSET Ids, NEW until \in Times, renew(w, S, until)
  PROVE  IInv' /\ hash' = Renewed(hash, w, S, until)
<1>1. until \in Nat
  BY ScoresAssumption
<1>2. hash' = Renewed(hash, w, S, until)
  BY DEF renew, Renewed
<1>3. Hashes(hash')
  <2>1. GoodTable(hash')
    BY <1>1, <1>2, RenewedGood DEF IInv, Hashes
  <2>2. QED
    BY <1>2, <2>1 DEF IInv, Hashes, Renewed, GoodTable, Row
<1>4. \A j \in Ids : IF j \in S /\ Holds(hash, w, j)
                     THEN hash'[j].state = "active" /\ hash'[j].lockedUntil = until
                     ELSE hash'[j] = hash[j]
  BY <1>2 DEF Renewed, Holds, IInv, Hashes, GoodTable, Row
<1>5. TypeOK'
  <2>1. active' \in [Queues -> ZSet]
    BY <1>1 DEF renew, ZAdd, ZSet, Score, IInv, TypeOK
  <2>2. QED
    BY <1>3, <2>1 DEF renew, Hashes, GoodTable, IInv, TypeOK
<1>6. PendingAgrees' /\ FinishedAgrees'
  BY <1>4 DEF renew, Holds, IInv, StructuresAgree, PendingAgrees, FinishedAgrees, Finished
<1>7. ActiveAgrees'
  BY <1>4 DEF renew, Holds, ZAdd, IInv, StructuresAgree, ActiveAgrees
<1>8. KeysAgree' /\ IndexAgrees'
  <2>1. \A j \in Ids : Exists(j)' <=> Exists(j)
    BY <1>4 DEF Exists, Stored, Holds
  <2>2. QED
    BY <2>1 DEF renew, IInv, StructuresAgree, KeysAgree, IndexAgrees
<1>9. QED
  BY <1>2, <1>3, <1>5, <1>6, <1>7, <1>8 DEF IInv, StructuresAgree

\* What a job leaves behind when it stops running: the active set, and the structure
\* its next state belongs to, if any.
LEMMA LeavesActive ==
  ASSUME IInv, NEW j \in Ids, hash[j].state = "active",
         NEW row, Good(row), row.state \in {"pending", "completed", "dead", "gone"},
         row.state = "pending" => row.runAt \in Times,
         hash' = [hash EXCEPT ![j] = row], Released(j),
         pending' = IF row.state = "pending" THEN Waiting({j}, row.runAt) ELSE pending,
         row.state \notin Finished => finished' = finished,
         row.state \in Finished => Shelved(j, row.state, row.finishedAt),
         idem' = IF row.state = "gone" THEN FreeKeys({j}) ELSE idem,
         index' = IF row.state = "gone" THEN index \ {j} ELSE index,
         UNCHANGED <<queues, created>>
  PROVE  IInv'
<1>1. Hashes(hash')
  BY DEF IInv, Hashes, GoodTable, Good
<1>2. /\ \A i \in Ids : i # j => hash'[i] = hash[i]
      /\ hash'[j] = row /\ hash \in [Ids -> Row]
  BY DEF IInv, TypeOK
<1>3. row.state \in Finished => row.finishedAt \in Nat
  BY DEF Good, Agrees, Row
<1>4. row.state = "pending" => score(j, row.runAt) \in Nat
  BY ScoreIsNat, TimesAreNat
<1>5. TypeOK'
  <2>1. pending' \in [Places -> ZSet]
    BY <1>4 DEF Waiting, ZAdd, ZSet, Score, IInv, TypeOK
  <2>2. active' \in [Queues -> ZSet]
    BY DEF Released, ZRem, ZSet, Score, IInv, TypeOK
  <2>3. finished' \in [Finished -> [Queues -> ZSet]]
    <3>1. finished \in [Finished -> [Queues -> ZSet]] /\ QueueOf[j] \in Queues
      BY PlacesAssumption DEF IInv, TypeOK
    <3>2. CASE row.state \in Finished
      <4>1. \A z \in ZSet : ZAdd(z, {j}, [i \in Ids |-> row.finishedAt]) \in ZSet
        BY <1>3, <3>2 DEF ZAdd, ZSet, Score
      <4> DEFINE z == ZAdd(finished[row.state][QueueOf[j]], {j}, [i \in Ids |-> row.finishedAt])
      <4>2. z \in ZSet
        BY <3>1, <3>2, <4>1
      <4>3. finished' = [finished EXCEPT ![row.state] = [finished[row.state] EXCEPT ![QueueOf[j]] = z]]
        BY <3>1, <3>2 DEF Shelved
      <4> HIDE DEF z
      <4>4. QED
        BY <3>1, <3>2, <4>2, <4>3
    <3>3. CASE row.state \notin Finished
      BY <3>1, <3>3
    <3>4. QED
      BY <3>2, <3>3
  <2>4. idem' \in [Keys -> Ids \cup {NoJob}]
    BY DEF FreeKeys, IInv, TypeOK
  <2>5. QED
    BY <1>1, <2>1, <2>2, <2>3, <2>4 DEF Hashes, GoodTable, IInv, TypeOK
<1>6. PendingAgrees'
  BY <1>2 DEF Waiting, ZAdd, IInv, StructuresAgree, PendingAgrees, score
<1>7. ActiveAgrees'
  BY <1>2, PlacesAssumption DEF Released, ZRem, IInv, TypeOK, StructuresAgree, ActiveAgrees
<1>8. FinishedAgrees'
  <2>1. CASE row.state \notin Finished
    BY <1>2, <2>1 DEF IInv, StructuresAgree, FinishedAgrees, Finished
  <2>2. CASE row.state \in Finished
    BY <1>2, <2>2, PlacesAssumption DEF Shelved, ZAdd, IInv, TypeOK, StructuresAgree, FinishedAgrees, Finished
  <2>3. QED
    BY <2>1, <2>2
<1>9. KeysAgree' /\ IndexAgrees'
  <2>1. Exists(j) /\ \A i \in Ids : Exists(i)' <=> Exists(i) /\ ~(i = j /\ row.state = "gone")
    BY <1>2 DEF Exists, Stored
  <2>2. NoJob \notin Ids
    BY IdsAssumption DEF NoJob
  <2>3. KeysAgree'
    BY <2>1, <2>2, KeysAssumption DEF FreeKeys, IInv, TypeOK, StructuresAgree, KeysAgree
  <2>4. IndexAgrees'
    BY <2>1 DEF IInv, StructuresAgree, IndexAgrees
  <2>5. QED
    BY <2>3, <2>4
<1>10. QED
  BY <1>1, <1>5, <1>6, <1>7, <1>8, <1>9 DEF IInv, StructuresAgree

\* What the rows COMPLETE writes say.
LEMMA LeftRow ==
  ASSUME NEW row \in Row, NEW t
  PROVE  /\ LET r == [Unlocked(row) EXCEPT !.state = "completed", !.finishedAt = t]
            IN r.state = "completed" /\ r.finishedAt = t
         /\ LET r == [Unlocked(row) EXCEPT !.state = "dead", !.finishedAt = t]
            IN r.state = "dead" /\ r.finishedAt = t
         /\ LET r == [Unlocked(row) EXCEPT !.state = "pending", !.runAt = t]
            IN r.state = "pending" /\ r.runAt = t
         /\ LET r == [Unlocked(row) EXCEPT !.state = "pending", !.runAt = t, !.attempt = @ - 1]
            IN r.state = "pending" /\ r.runAt = t
BY UnlockedRow DEF Row

LEMMA CompleteStep ==
  ASSUME IInv, NEW w \in Workers, NEW j \in Ids, Complete(w, j)
  PROVE  /\ IInv'
         /\ \E outcome \in Outcomes, at, runAt \in Times :
              hash' = Completed(hash, w, j, KeyOf[j] # NoKey, outcome, at, runAt)
<1> DEFINE Done(outcome, t) == Outcome(hash[j], KeyOf[j] # NoKey, outcome, t, t)
           keep == KeyOf[j] # NoKey
<1>1. Holds(hash, w, j) /\ hash[j].state = "active" /\ Good(hash[j]) /\ hash[j] \in Row
  <2>1. Holds(hash, w, j)
    BY DEF Complete, completeDeleted, completeKept, completeRetry, completeDead, completeReleased
  <2>2. QED
    BY <2>1 DEF Holds, IInv, Hashes, GoodTable, Good
<1>2. ASSUME NEW outcome \in Outcomes, NEW t \in Times,
             hash' = [hash EXCEPT ![j] = Done(outcome, t)]
      PROVE  /\ Good(Done(outcome, t))
             /\ \E o \in Outcomes, at, runAt \in Times :
                  hash' = Completed(hash, w, j, keep, o, at, runAt)
  <2>1. t \in Nat /\ keep \in BOOLEAN
    BY ScoresAssumption
  <2>2. QED
    BY <1>1, <1>2, <2>1, OutcomeRow DEF Completed
<1>3. CASE KeyOf[j] = NoKey /\ completeDeleted(w, j)
  <2>0. PICK t \in Times : TRUE
    BY ScoresAssumption
  <2>1. Done("completed", t) = NoRow("gone") /\ NoRow("gone").state = "gone"
    BY <1>3 DEF Outcome, NoRow
  <2>2. hash' = [hash EXCEPT ![j] = NoRow("gone")]
    BY <1>3 DEF completeDeleted, NoHash, IInv, TypeOK
  <2>3. "completed" \in Outcomes
    BY DEF Outcomes
  <2>4. Good(NoRow("gone")) /\ \E o \in Outcomes, at, runAt \in Times :
                                 hash' = Completed(hash, w, j, keep, o, at, runAt)
    BY <1>2, <2>1, <2>2, <2>3
  <2>5. IInv'
    BY <1>1, <1>3, <2>1, <2>2, <2>4, LeavesActive DEF completeDeleted, Finished
  <2>6. QED
    BY <2>4, <2>5
<1>4. CASE KeyOf[j] # NoKey /\ \E at \in Times : completeKept(w, j, at)
  <2>1. PICK at \in Times : completeKept(w, j, at)
    BY <1>4
  <2> DEFINE r == [Unlocked(hash[j]) EXCEPT !.state = "completed", !.finishedAt = at]
  <2>2. Done("completed", at) = r /\ r.state = "completed" /\ r.finishedAt = at
    BY <1>1, <1>4, LeftRow DEF Outcome
  <2>3. hash' = [hash EXCEPT ![j] = r]
    BY <2>1 DEF completeKept, Wrote
  <2> HIDE DEF r
  <2>4. "completed" \in Outcomes
    BY DEF Outcomes
  <2>5. Good(r) /\ \E o \in Outcomes, t, runAt \in Times :
                     hash' = Completed(hash, w, j, keep, o, t, runAt)
    BY <1>2, <2>2, <2>3, <2>4
  <2>6. IInv'
    BY <1>1, <2>1, <2>2, <2>3, <2>5, LeavesActive DEF completeKept, Finished
  <2>7. QED
    BY <2>5, <2>6
<1>5. CASE \E at \in Times : completeDead(w, j, at)
  <2>1. PICK at \in Times : completeDead(w, j, at)
    BY <1>5
  <2> DEFINE r == [Unlocked(hash[j]) EXCEPT !.state = "dead", !.finishedAt = at]
  <2>2. Done("dead", at) = r /\ r.state = "dead" /\ r.finishedAt = at
    BY <1>1, LeftRow DEF Outcome
  <2>3. hash' = [hash EXCEPT ![j] = r]
    BY <2>1 DEF completeDead, Wrote
  <2> HIDE DEF r
  <2>4. "dead" \in Outcomes
    BY DEF Outcomes
  <2>5. Good(r) /\ \E o \in Outcomes, t, runAt \in Times :
                     hash' = Completed(hash, w, j, keep, o, t, runAt)
    BY <1>2, <2>2, <2>3, <2>4
  <2>6. IInv'
    BY <1>1, <2>1, <2>2, <2>3, <2>5, LeavesActive DEF completeDead, Finished
  <2>7. QED
    BY <2>5, <2>6
<1>6. CASE \E at \in Times : completeRetry(w, j, at)
  <2>1. PICK at \in Times : completeRetry(w, j, at)
    BY <1>6
  <2> DEFINE r == [Unlocked(hash[j]) EXCEPT !.state = "pending", !.runAt = at]
  <2>2. Done("retry", at) = r /\ r.state = "pending" /\ r.runAt = at
    BY <1>1, LeftRow DEF Outcome
  <2>3. hash' = [hash EXCEPT ![j] = r]
    BY <2>1 DEF completeRetry, Wrote
  <2> HIDE DEF r
  <2>4. "retry" \in Outcomes
    BY DEF Outcomes
  <2>5. Good(r) /\ \E o \in Outcomes, t, runAt \in Times :
                     hash' = Completed(hash, w, j, keep, o, t, runAt)
    BY <1>2, <2>2, <2>3, <2>4
  <2>6. IInv'
    BY <1>1, <2>1, <2>2, <2>3, <2>4, <2>5, LeavesActive DEF completeRetry, Finished
  <2>7. QED
    BY <2>5, <2>6
<1>7. CASE \E at \in Times : completeReleased(w, j, at)
  <2>1. PICK at \in Times : completeReleased(w, j, at)
    BY <1>7
  <2> DEFINE r == [Unlocked(hash[j]) EXCEPT !.state = "pending", !.runAt = at, !.attempt = @ - 1]
  <2>2. Done("released", at) = r /\ r.state = "pending" /\ r.runAt = at
    BY <1>1, LeftRow DEF Outcome
  <2>3. hash' = [hash EXCEPT ![j] = r]
    BY <2>1 DEF completeReleased, Wrote
  <2> HIDE DEF r
  <2>4. "released" \in Outcomes
    BY DEF Outcomes
  <2>5. Good(r) /\ \E o \in Outcomes, t, runAt \in Times :
                     hash' = Completed(hash, w, j, keep, o, t, runAt)
    BY <1>2, <2>2, <2>3, <2>4
  <2>6. IInv'
    BY <1>1, <2>1, <2>2, <2>3, <2>4, <2>5, LeavesActive DEF completeReleased, Finished
  <2>7. QED
    BY <2>5, <2>6
<1>8. QED
  BY <1>3, <1>4, <1>5, <1>6, <1>7 DEF Complete

LEMMA RequeueStep ==
  ASSUME IInv, NEW now \in Times, requeueExpired(now)
  PROVE  IInv' /\ hash' = Requeued(hash, now)
<1> DEFINE late == Expired(hash, now)
           out == {j \in late : hash[j].attempt >= MaxAttempts[j]}
<1>1. now \in Nat
  BY ScoresAssumption
<1>2. /\ late \subseteq Ids /\ out \subseteq late
      /\ \A j \in late : hash[j].state = "active" /\ hash[j] \in Row /\ j \in index
  BY DEF Expired, IInv, TypeOK, StructuresAgree, IndexAgrees, Exists, Stored
<1>3. /\ late = {j \in Ids : \E q \in queues : j \in Below(active[q], now)}
      /\ \A q \in Queues : Below(active[q], now) = {j \in late : QueueOf[j] = q}
      /\ \A j \in late : QueueOf[j] \in queues
  <2>1. \A q \in Queues, j \in Ids : j \in Below(active[q], now) <=> j \in late /\ QueueOf[j] = q
    BY <1>1, Scored DEF Below, Expired, IInv, StructuresAgree, ActiveAgrees, NoScore
  <2>2. \A j \in late : QueueOf[j] \in queues
    BY <1>2 DEF IInv, StructuresAgree, IndexAgrees
  <2>3. \A q \in Queues : Below(active[q], now) = {j \in late : QueueOf[j] = q}
    BY <1>2, <2>1 DEF Below
  <2>4. queues \subseteq Queues
    BY DEF IInv, TypeOK
  <2>5. QED
    BY <1>2, <2>1, <2>2, <2>3, <2>4
<1>4. /\ hash' = [j \in Ids |->
                    CASE j \in out        -> [Unlocked(hash[j]) EXCEPT !.state = "dead", !.finishedAt = now]
                      [] j \in late \ out -> [Unlocked(hash[j]) EXCEPT !.state = "pending", !.runAt = now]
                      [] OTHER            -> hash[j]]
      /\ active' = [q \in Queues |-> IF q \in queues THEN ZRem(active[q], Below(active[q], now))
                                                     ELSE active[q]]
      /\ finished' = [finished EXCEPT !["dead"] =
                        [q \in Queues |-> ZAdd(@[q], {j \in out : QueueOf[j] = q}, [j \in Ids |-> now])]]
      /\ pending' = Waiting(late \ out, now)
      /\ UNCHANGED <<idem, index, queues, created>>
  BY <1>3 DEF requeueExpired
<1>5. hash' = Requeued(hash, now)
  BY <1>4 DEF Requeued
<1>6. /\ \A j \in out : /\ hash'[j].state = "dead" /\ hash'[j].finishedAt = now
      /\ \A j \in late \ out : hash'[j].state = "pending" /\ hash'[j].runAt = now
      /\ \A j \in Ids \ late : hash'[j] = hash[j]
  <2>1. /\ \A j \in out : hash'[j] = [Unlocked(hash[j]) EXCEPT !.state = "dead", !.finishedAt = now]
        /\ \A j \in late \ out : hash'[j] = [Unlocked(hash[j]) EXCEPT !.state = "pending", !.runAt = now]
        /\ \A j \in Ids \ late : hash'[j] = hash[j]
    BY <1>2, <1>4
  <2>2. ASSUME NEW j \in late
        PROVE  /\ j \in out => hash'[j].state = "dead" /\ hash'[j].finishedAt = now
               /\ j \notin out => hash'[j].state = "pending" /\ hash'[j].runAt = now
    <3>1. hash[j] \in Row
      BY <1>2
    <3> HIDE DEF late, out
    <3>2. /\ [Unlocked(hash[j]) EXCEPT !.state = "dead", !.finishedAt = now].state = "dead"
          /\ [Unlocked(hash[j]) EXCEPT !.state = "dead", !.finishedAt = now].finishedAt = now
          /\ [Unlocked(hash[j]) EXCEPT !.state = "pending", !.runAt = now].state = "pending"
          /\ [Unlocked(hash[j]) EXCEPT !.state = "pending", !.runAt = now].runAt = now
      BY <3>1, LeftRow
    <3>3. QED
      BY <2>1, <3>2
  <2> HIDE DEF late, out
  <2>3. QED
    BY <1>2, <2>1, <2>2
<1> HIDE DEF late, out
<1>7. Hashes(hash')
  <2>1. GoodTable(hash')
    BY <1>1, <1>5, RequeuedGood DEF IInv, Hashes
  <2>2. QED
    BY <1>1, <1>2, <1>6, <2>1 DEF IInv, Hashes
<1>8. TypeOK'
  <2>1. pending' \in [Places -> ZSet]
    <3>1. \A j \in Ids : score(j, now) \in Nat
      BY <1>1, ScoreIsNat
    <3>2. QED
      BY <1>4, <3>1 DEF Waiting, ZAdd, ZSet, Score, IInv, TypeOK
  <2>2. active' \in [Queues -> ZSet]
    BY <1>4 DEF ZRem, ZSet, Score, IInv, TypeOK
  <2>3. finished' \in [Finished -> [Queues -> ZSet]]
    <3>1. \A q \in Queues : ZAdd(finished["dead"][q], {j \in out : QueueOf[j] = q}, [j \in Ids |-> now]) \in ZSet
      BY <1>1 DEF ZAdd, ZSet, Score, IInv, TypeOK, Finished
    <3>2. QED
      BY <1>4, <3>1 DEF IInv, TypeOK
  <2>4. QED
    BY <1>4, <1>7, <2>1, <2>2, <2>3 DEF Hashes, GoodTable, IInv, TypeOK
<1>9. PendingAgrees'
  BY <1>2, <1>4, <1>6, ZenonT(40) DEF Waiting, ZAdd, IInv, StructuresAgree, PendingAgrees, score
<1>10. ActiveAgrees'
  <2>1. ASSUME NEW q \in Queues, NEW j \in Ids
        PROVE  active'[q][j] = IF j \in late THEN NoScore ELSE active[q][j]
    BY <1>2, <1>3, <1>4 DEF ZRem, IInv, StructuresAgree, ActiveAgrees
  <2>2. QED
    BY <1>2, <1>6, <2>1 DEF IInv, StructuresAgree, ActiveAgrees
<1>11. FinishedAgrees'
  <2>1. /\ \A q \in Queues, j \in Ids : finished'["dead"][q][j] = IF j \in out /\ QueueOf[j] = q
                                                                 THEN now ELSE finished["dead"][q][j]
        /\ finished'["completed"] = finished["completed"]
    BY <1>4 DEF ZAdd, IInv, TypeOK, Finished
  <2>2. QED
    BY <1>2, <1>6, <2>1 DEF IInv, StructuresAgree, FinishedAgrees, Finished
<1>12. KeysAgree' /\ IndexAgrees'
  <2>1. \A j \in Ids : Exists(j)' <=> Exists(j)
    BY <1>2, <1>6 DEF Exists, Stored
  <2>2. QED
    BY <1>4, <2>1 DEF IInv, StructuresAgree, KeysAgree, IndexAgrees
<1>13. QED
  BY <1>5, <1>7, <1>8, <1>9, <1>10, <1>11, <1>12 DEF IInv, StructuresAgree

LEMMA RetryStep ==
  ASSUME IInv, NEW S \in SUBSET Ids, NEW now \in Times, retry(S, now)
  PROVE  IInv' /\ hash' = Retried(hash, S, now)
<1> DEFINE dead == {j \in S : hash[j].state = "dead"}
<1>1. now \in Nat
  BY ScoresAssumption
<1>2. hash' = Retried(hash, S, now)
  BY DEF retry, Retried
<1>3. /\ finished' = [finished EXCEPT !["dead"] =
                        [q \in Queues |-> ZRem(@[q], {j \in dead : QueueOf[j] = q})]]
      /\ pending' = Waiting(dead, now)
      /\ UNCHANGED <<active, idem, index, queues, created>>
  BY DEF retry
<1>4. /\ dead \subseteq Ids
      /\ \A j \in dead : hash[j].state = "dead" /\ hash'[j].state = "pending" /\ hash'[j].runAt = now
      /\ \A j \in Ids \ dead : hash'[j] = hash[j]
  BY <1>2 DEF Retried, IInv, TypeOK, Row
<1> HIDE DEF dead
<1>5. Hashes(hash')
  <2>1. GoodTable(hash')
    BY <1>1, <1>2, RetriedGood DEF IInv, Hashes
  <2>2. QED
    BY <1>1, <1>4, <2>1 DEF IInv, Hashes
<1>6. TypeOK'
  <2>1. pending' \in [Places -> ZSet]
    <3>1. \A j \in Ids : score(j, now) \in Nat
      BY <1>1, ScoreIsNat
    <3>2. QED
      BY <1>3, <3>1 DEF Waiting, ZAdd, ZSet, Score, IInv, TypeOK
  <2>2. finished' \in [Finished -> [Queues -> ZSet]]
    <3>1. \A q \in Queues : ZRem(finished["dead"][q], {j \in dead : QueueOf[j] = q}) \in ZSet
      BY DEF ZRem, ZSet, Score, IInv, TypeOK, Finished
    <3>2. QED
      BY <1>3, <3>1 DEF IInv, TypeOK
  <2>3. QED
    BY <1>3, <1>5, <2>1, <2>2 DEF Hashes, GoodTable, IInv, TypeOK
<1>7. PendingAgrees' /\ ActiveAgrees'
  BY <1>3, <1>4 DEF Waiting, ZAdd, IInv, StructuresAgree, PendingAgrees, ActiveAgrees, score
<1>8. FinishedAgrees'
  <2>1. /\ \A q \in Queues, j \in Ids : finished'["dead"][q][j] = IF j \in dead /\ QueueOf[j] = q
                                                                 THEN NoScore ELSE finished["dead"][q][j]
        /\ finished'["completed"] = finished["completed"]
    BY <1>3 DEF ZRem, IInv, TypeOK, Finished
  <2>2. QED
    BY <1>4, <2>1 DEF IInv, StructuresAgree, FinishedAgrees, Finished
<1>9. KeysAgree' /\ IndexAgrees'
  <2>1. \A j \in Ids : Exists(j)' <=> Exists(j)
    BY <1>4 DEF Exists, Stored
  <2>2. QED
    BY <1>3, <2>1 DEF IInv, StructuresAgree, KeysAgree, IndexAgrees
<1>10. QED
  BY <1>2, <1>5, <1>6, <1>7, <1>8, <1>9 DEF IInv, StructuresAgree

LEMMA PurgeStep ==
  ASSUME IInv, NEW state \in Finished, NEW before \in Times, purge(state, before)
  PROVE  IInv' /\ hash' = Purged(hash, state, before)
<1> DEFINE old == {j \in Ids : hash[j].state = state /\ hash[j].finishedAt < before}
<1>1. before \in Nat
  BY ScoresAssumption
<1>2. old \subseteq Ids /\ \A j \in old : Exists(j) /\ j \in index /\ hash[j].state = state
  BY DEF IInv, StructuresAgree, IndexAgrees, Exists, Stored, Finished
<1>3. /\ old = {j \in Ids : \E q \in queues : j \in Below(finished[state][q], before)}
      /\ \A q \in Queues : Below(finished[state][q], before) = {j \in old : QueueOf[j] = q}
      /\ \A j \in old : QueueOf[j] \in queues
  <2>1. \A q \in Queues, j \in Ids : j \in Below(finished[state][q], before) <=> j \in old /\ QueueOf[j] = q
    BY <1>1, Scored DEF Below, IInv, StructuresAgree, FinishedAgrees, NoScore
  <2>2. \A j \in old : QueueOf[j] \in queues
    BY <1>2 DEF IInv, StructuresAgree, IndexAgrees
  <2>3. \A q \in Queues : Below(finished[state][q], before) = {j \in old : QueueOf[j] = q}
    BY <1>2, <2>1 DEF Below
  <2>4. queues \subseteq Queues
    BY DEF IInv, TypeOK
  <2>5. QED
    BY <1>2, <2>1, <2>2, <2>3, <2>4
<1>4. /\ hash' = NoHash(old)
      /\ idem' = FreeKeys(old)
      /\ index' = index \ old
      /\ finished' = [finished EXCEPT ![state] =
                        [q \in Queues |-> IF q \in queues THEN ZRem(@[q], Below(@[q], before)) ELSE @[q]]]
      /\ UNCHANGED <<pending, active, queues, created>>
  BY <1>3 DEF purge
<1>5. hash' = Purged(hash, state, before)
  <2>1. \A j \in Ids : hash[j].state = state => hash[j].finishedAt # NoTime
    BY DEF IInv, Hashes, GoodTable, Agrees
  <2>2. QED
    BY <1>4, <2>1 DEF NoHash, Purged
<1>6. /\ \A j \in old : hash'[j].state = "gone"
      /\ \A j \in Ids \ old : hash'[j] = hash[j]
  BY <1>2, <1>4 DEF NoHash, NoRow
<1> HIDE DEF old
<1>7. Hashes(hash')
  <2>1. GoodTable(hash')
    BY <1>5, PurgedGood DEF IInv, Hashes
  <2>2. QED
    BY <1>2, <1>6, <2>1 DEF IInv, Hashes
<1>8. \A q \in Queues, j \in Ids : finished'[state][q][j] = IF j \in old /\ QueueOf[j] = q
                                                            THEN NoScore ELSE finished[state][q][j]
  BY <1>2, <1>3, <1>4 DEF ZRem, IInv, TypeOK
<1>9. TypeOK'
  <2>1. idem' \in [Keys -> Ids \cup {NoJob}]
    BY <1>4 DEF FreeKeys, IInv, TypeOK
  <2>2. finished' \in [Finished -> [Queues -> ZSet]]
    <3>1. \A q \in Queues : ZRem(finished[state][q], Below(finished[state][q], before)) \in ZSet
      BY DEF ZRem, ZSet, Score, IInv, TypeOK
    <3>2. QED
      BY <1>4, <3>1 DEF IInv, TypeOK
  <2>3. QED
    BY <1>4, <1>7, <2>1, <2>2 DEF Hashes, GoodTable, IInv, TypeOK
<1>10. PendingAgrees' /\ ActiveAgrees'
  BY <1>2, <1>4, <1>6 DEF IInv, StructuresAgree, PendingAgrees, ActiveAgrees, Finished
<1>11. FinishedAgrees'
  <2>1. \A s \in Finished : s # state => finished'[s] = finished[s]
    BY <1>4 DEF IInv, TypeOK
  <2>2. QED
    BY <1>2, <1>6, <1>8, <2>1 DEF IInv, StructuresAgree, FinishedAgrees, Finished
<1>12. KeysAgree' /\ IndexAgrees'
  <2>1. \A i \in Ids : Exists(i)' <=> Exists(i) /\ i \notin old
    BY <1>6 DEF Exists, Stored
  <2>2. NoJob \notin Ids
    BY IdsAssumption DEF NoJob
  <2>3. KeysAgree'
    <3>1. \A key \in Keys : idem'[key] = IF \E j \in old : KeyOf[j] = key THEN NoJob ELSE idem[key]
      BY <1>4 DEF FreeKeys
    <3>2. QED
      BY <1>2, <2>1, <2>2, <3>1 DEF IInv, TypeOK, StructuresAgree, KeysAgree
  <2>4. IndexAgrees'
    BY <1>2, <1>4, <2>1 DEF IInv, StructuresAgree, IndexAgrees
  <2>5. QED
    BY <2>3, <2>4
<1>13. QED
  BY <1>5, <1>7, <1>9, <1>10, <1>11, <1>12 DEF IInv, StructuresAgree

-----------------------------------------------------------------------------
LEMMA NextStep ==
  ASSUME IInv, Next
  PROVE  IInv'
<1>1. ASSUME NEW j \in Ids, enqueueDuplicate(j)
      PROVE  IInv'
  BY <1>1 DEF enqueueDuplicate, structures, IInv, TypeOK, Hashes, GoodTable, StructuresAgree, PendingAgrees,
              ActiveAgrees, FinishedAgrees, KeysAgree, IndexAgrees, Exists
<1>2. QED
  BY <1>1, EnqueueStep, ClaimStep, RenewStep, CompleteStep, RequeueStep, RetryStep, PurgeStep DEF Next

\* The invariant is inductive.
LEMMA Invariance == Spec => []IInv
<1>1. IInv /\ [Next]_vars => IInv'
  <2>1. IInv /\ UNCHANGED vars => IInv'
    BY DEF vars, structures, IInv, TypeOK, Hashes, GoodTable, StructuresAgree, PendingAgrees,
           ActiveAgrees, FinishedAgrees, KeysAgree, IndexAgrees, Exists
  <2>2. QED
    BY <2>1, NextStep
<1>2. QED
  BY InitIInv, <1>1, PTL DEF Spec

-----------------------------------------------------------------------------
\* Every Redis key holds a value of its type, whatever is called when (redis.ts, the
\* key layout).
THEOREM TypeCorrect == Spec => []TypeOK
<1>1. IInv => TypeOK
  BY DEF IInv
<1>2. QED
  BY Invariance, <1>1, PTL

\* The sorted sets, the keys and the index always say what the hashes say, for any
\* number of jobs, queues, names and workers (redis.ts, the scripts).
THEOREM StructuresCorrect == Spec => []StructuresAgree
<1>1. IInv => StructuresAgree
  BY DEF IInv
<1>2. QED
  BY Invariance, <1>1, PTL

-----------------------------------------------------------------------------
\* Cutting twice.  R orders D; C keeps at least the elements of D that fewer than
\* `limit` others precede.

Preds(R, S, j) == {i \in S : <<i, j>> \in R}

LEMMA CutTwice ==
  ASSUME NEW D, IsFiniteSet(D), NEW R,
         \A i \in D : <<i, i>> \notin R,
         \A h, i, j \in D : <<h, i>> \in R /\ <<i, j>> \in R => <<h, j>> \in R,
         NEW C \in SUBSET D, NEW limit \in Nat,
         \A j \in D \ C : Cardinality(Preds(R, D, j)) >= limit
  PROVE  {j \in C : Cardinality(Preds(R, C, j)) < limit} = {j \in D : Cardinality(Preds(R, D, j)) < limit}
<1>1. ASSUME NEW j \in D
      PROVE  /\ IsFiniteSet(Preds(R, D, j)) /\ Cardinality(Preds(R, D, j)) \in Nat
             /\ IsFiniteSet(Preds(R, C, j)) /\ Cardinality(Preds(R, C, j)) \in Nat
             /\ Cardinality(Preds(R, C, j)) <= Cardinality(Preds(R, D, j))
  <2>1. Preds(R, D, j) \in SUBSET D /\ Preds(R, C, j) \in SUBSET Preds(R, D, j)
    BY DEF Preds
  <2>2. QED
    BY <2>1, FS_Subset, FS_CardinalityType
<1>2. ASSUME NEW j \in D, Cardinality(Preds(R, D, j)) < limit
      PROVE  j \in C /\ Cardinality(Preds(R, C, j)) < limit
  BY <1>1, <1>2
<1>3. ASSUME NEW j \in C, Cardinality(Preds(R, D, j)) >= limit
      PROVE  Cardinality(Preds(R, C, j)) >= limit
  <2> DEFINE out == Preds(R, D, j) \ C
             sets == {Preds(R, D, i) : i \in out}
  <2>1. CASE out = {}
    <3>1. Preds(R, C, j) = Preds(R, D, j)
      BY <2>1 DEF Preds
    <3>2. QED
      BY <1>3, <3>1
  <2>2. CASE out # {}
    <3>1. sets \subseteq FiniteSubsetsOf(D) /\ sets # {}
      <4>1. \A i \in D : Preds(R, D, i) \in SUBSET D
        BY DEF Preds
      <4>2. \A i \in D : Preds(R, D, i) \in FiniteSubsetsOf(D)
        BY <1>1, <4>1 DEF FiniteSubsetsOf
      <4>3. out \subseteq D
        BY DEF Preds
      <4>4. QED
        BY <2>2, <4>2, <4>3
    <3>2. PICK m \in sets : \A s \in sets : <<s, m>> \notin StrictSubsetOrdering(D)
      <4> HIDE DEF sets
      <4>1. QED
        BY <3>1, FS_StrictSubsetOrderingWellFounded, WFMin
    <3>3. PICK i \in out : m = Preds(R, D, i)
      BY <3>2
    <3>4. i \in D /\ i \notin C /\ <<i, j>> \in R
      BY <3>3 DEF Preds
    <3>5. ASSUME NEW h \in Preds(R, D, i)
          PROVE  h \in Preds(R, C, j)
      <4>1. h \in D /\ <<h, i>> \in R /\ <<h, j>> \in R
        BY <3>4 DEF Preds
      <4>2. Preds(R, D, h) \subseteq m /\ h \in m /\ h \notin Preds(R, D, h)
        BY <3>3, <3>4, <4>1 DEF Preds
      <4>3. <<Preds(R, D, h), m>> \in StrictSubsetOrdering(D)
        BY <3>3, <4>2 DEF StrictSubsetOrdering, Preds
      <4>4. h \notin out
        BY <3>2, <4>3
      <4>5. QED
        BY <4>1, <4>4 DEF Preds
    <3>6. Preds(R, D, i) \in SUBSET Preds(R, C, j)
      BY <3>5
    <3>7. Cardinality(Preds(R, D, i)) >= limit /\ Cardinality(Preds(R, D, i)) \in Nat
      BY <1>1, <3>4
    <3>8. IsFiniteSet(Preds(R, C, j)) /\ Cardinality(Preds(R, C, j)) \in Nat
      BY <1>1
    <3>9. Cardinality(Preds(R, D, i)) <= Cardinality(Preds(R, C, j))
      BY <3>6, <3>8, FS_Subset
    <3>10. QED
      BY <3>7, <3>8, <3>9
  <2>3. QED
    BY <2>1, <2>2
<1>4. QED
  BY <1>1, <1>2, <1>3

-----------------------------------------------------------------------------
\* Scores of different priorities do not overlap.

LEMMA Bands ==
  ASSUME NEW B \in Nat, NEW a \in Nat, NEW b \in Nat, NEW s \in 0 .. B - 1, NEW t \in 0 .. B - 1
  PROVE  /\ a * B + s < b * B + t <=> a < b \/ (a = b /\ s < t)
         /\ a * B + s = b * B + t <=> a = b /\ s = t
         /\ b * B <= a * B + s /\ a * B + s <= b * B + t <=> a = b /\ s <= t
<1>1. ASSUME NEW c \in Nat, NEW d \in Nat, c < d
      PROVE  c * B + B <= d * B
  <2>1. PICK e \in Nat : d = c + 1 + e
    <3>1. d - c - 1 \in Nat /\ d = c + 1 + (d - c - 1)
      BY <1>1
    <3>2. QED
      BY <3>1
  <2>2. d * B = c * B + B + e * B /\ e * B \in Nat
    BY <2>1
  <2>3. c * B \in Nat
    OBVIOUS
  <2>4. QED
    BY <2>2, <2>3
<1>2. a * B \in Nat /\ b * B \in Nat
  OBVIOUS
<1>3. CASE a < b
  BY <1>1, <1>2, <1>3
<1>4. CASE b < a
  BY <1>1, <1>2, <1>4
<1>5. CASE a = b
  BY <1>2, <1>5
<1>6. QED
  BY <1>3, <1>4, <1>5

-----------------------------------------------------------------------------
\* CLAIM in terms of the due jobs.

FiniteJobs == IsFiniteSet(created)

Sc(j) == score(j, hash[j].runAt)

LEMMA DueJobs ==
  ASSUME IInv, NEW w \in Workers, NEW now \in Times
  PROVE  /\ Due(Rows, w, now) = {j \in Ids : /\ QueueOf[j] \in QueuesOf[w] /\ NameOf[j] \in NamesOf[w]
                                             /\ hash[j].state = "pending" /\ hash[j].runAt <= now}
         /\ Due(Rows, w, now) \subseteq created
         /\ \A j \in Due(Rows, w, now) : Rows[j] = hash[j]
<1>1. \A j \in Ids : hash[j].state = "pending" => j \in created
  BY DEF IInv, StructuresAgree, IndexAgrees, Exists, Stored
<1>2. \A j \in Ids : Rows[j] = IF j \in created THEN hash[j] ELSE NoRow("unborn")
  BY DEF Rows
<1>3. NoRow("unborn").state = "unborn"
  BY DEF NoRow
<1>4. \A j \in Ids : Rows[j].state = "pending" <=> hash[j].state = "pending"
  BY <1>1, <1>2, <1>3
<1>5. Serves[w] = {j \in Ids : QueueOf[j] \in QueuesOf[w] /\ NameOf[j] \in NamesOf[w]}
  BY AskedAssumption
<1>6. \A j \in Ids : hash[j].state = "pending" => Rows[j] = hash[j]
  BY <1>1, <1>2
<1>7. QED
  BY <1>1, <1>4, <1>5, <1>6 DEF Due

LEMMA PendingScores ==
  ASSUME IInv, NEW i \in Ids, NEW j \in Ids, hash[i].state = "pending", hash[j].state = "pending"
  PROVE  /\ Sc(i) \in Nat
         /\ Before(hash, i, j) <=> Sc(i) < Sc(j) \/ (Sc(i) = Sc(j) /\ i < j)
<1>1. /\ hash[i].runAt \in 0 .. Band - 1 /\ hash[j].runAt \in 0 .. Band - 1
      /\ Band \in Nat /\ TopPriority \in Nat
      /\ Priority[i] \in 0 .. TopPriority /\ Priority[j] \in 0 .. TopPriority
  BY ScoresAssumption DEF IInv, Hashes
<1> DEFINE a == TopPriority - Priority[i]
           b == TopPriority - Priority[j]
           s == hash[i].runAt
           t == hash[j].runAt
<1>2. a \in Nat /\ b \in Nat /\ s \in 0 .. Band - 1 /\ t \in 0 .. Band - 1
  BY <1>1
<1>3. /\ Priority[i] > Priority[j] <=> a < b
      /\ Priority[i] = Priority[j] <=> a = b
  BY <1>1
<1>4. Sc(i) = a * Band + s /\ Sc(j) = b * Band + t
  BY DEF Sc, score
<1>5. Before(hash, i, j) <=> a < b \/ (a = b /\ s < t) \/ (a = b /\ s = t /\ i < j)
  BY <1>3 DEF Before
<1>6. Sc(i) \in Nat
  BY <1>1, ScoreIsNat DEF Sc
<1> HIDE DEF a, b, s, t
<1>7. /\ a * Band + s < b * Band + t <=> a < b \/ (a = b /\ s < t)
      /\ a * Band + s = b * Band + t <=> a = b /\ s = t
  BY <1>1, <1>2, Bands
<1>8. QED
  BY <1>4, <1>5, <1>6, <1>7

\* What one ZRANGEBYSCORE of CLAIM returns.
LEMMA BandIs ==
  ASSUME IInv, NEW k \in Places, NEW now \in Times, NEW b \in 0 .. TopPriority, NEW j \in Ids
  PROVE  j \in InRange(pending[k], b * Band, b * Band + now)
           <=> /\ hash[j].state = "pending" /\ Place(j) = k
               /\ TopPriority - Priority[j] = b /\ hash[j].runAt <= now
<1>1. pending[k][j] = IF hash[j].state = "pending" /\ k = Place(j) THEN Sc(j) ELSE NoScore
  BY DEF IInv, StructuresAgree, PendingAgrees, Sc
<1>2. CASE hash[j].state = "pending" /\ k = Place(j)
  <2> DEFINE a == TopPriority - Priority[j]
             s == hash[j].runAt
  <2>1. /\ s \in 0 .. Band - 1 /\ now \in 0 .. Band - 1
        /\ Band \in Nat /\ TopPriority \in Nat /\ Priority[j] \in 0 .. TopPriority
    BY <1>2, ScoresAssumption DEF IInv, Hashes
  <2>2. a \in Nat /\ b \in Nat
    BY <2>1
  <2>3. Sc(j) = a * Band + s
    BY DEF Sc, score
  <2>4. Sc(j) \in Nat
    BY <1>2, PendingScores
  <2>5. pending[k][j] = Sc(j) /\ Sc(j) # NoScore
    BY <1>1, <1>2, <2>4 DEF NoScore
  <2> HIDE DEF a, s
  <2>6. b * Band <= a * Band + s /\ a * Band + s <= b * Band + now <=> a = b /\ s <= now
    BY <2>1, <2>2, Bands
  <2>7. j \in InRange(pending[k], b * Band, b * Band + now) <=> a = b /\ s <= now
    BY <2>3, <2>5, <2>6 DEF InRange
  <2>8. QED
    BY <1>2, <2>7 DEF a, s
<1>3. CASE ~(hash[j].state = "pending" /\ k = Place(j))
  BY <1>1, <1>3 DEF InRange
<1>4. QED
  BY <1>2, <1>3

\* The due jobs waiting beside j that come before it: those of its queue, name and
\* priority.
Beside(D, j) == {i \in D : Place(i) = Place(j) /\ Priority[i] = Priority[j] /\ Before(hash, i, j)}

LEMMA FoundIs ==
  ASSUME IInv, NEW w \in Workers, NEW now \in Times, NEW limit,
         NEW k \in QueuesOf[w] \X NamesOf[w], NEW j \in Ids
  PROVE  j \in Found(k, now, limit)
           <=> /\ j \in Due(Rows, w, now) /\ Place(j) = k
               /\ Cardinality(Beside(Due(Rows, w, now), j)) < limit
<1> DEFINE D == Due(Rows, w, now)
           band(b) == InRange(pending[k], b * Band, b * Band + now)
           first(b, i) == {h \in band(b) : \/ pending[k][h] < pending[k][i]
                                           \/ pending[k][h] = pending[k][i] /\ h < i}
           inD(i) == hash[i].state = "pending" /\ Place(i) = k /\ hash[i].runAt <= now
<1>1. k \in Places
  BY AskedAssumption DEF Places
<1>2. \A i \in Ids : i \in D /\ Place(i) = k <=> inD(i)
  <2>1. D = {i \in Ids : /\ QueueOf[i] \in QueuesOf[w] /\ NameOf[i] \in NamesOf[w]
                         /\ hash[i].state = "pending" /\ hash[i].runAt <= now}
    BY DueJobs
  <2>2. \A i \in Ids : Place(i) = k => QueueOf[i] \in QueuesOf[w] /\ NameOf[i] \in NamesOf[w]
    BY DEF Place
  <2> HIDE DEF D
  <2>3. QED
    BY <2>1, <2>2
<1>3. \A i \in Ids, b \in 0 .. TopPriority : i \in band(b) <=> inD(i) /\ TopPriority - Priority[i] = b
  BY <1>1, BandIs
<1>4. \A i \in Ids : inD(i) => pending[k][i] = Sc(i)
  BY <1>1 DEF IInv, StructuresAgree, PendingAgrees, Sc
<1>5. \A i, h \in Ids : inD(i) /\ inD(h)
                          => (Before(hash, h, i) <=> Sc(h) < Sc(i) \/ (Sc(h) = Sc(i) /\ h < i))
  BY PendingScores
<1>6. Found(k, now, limit) = UNION {{i \in band(b) : Cardinality(first(b, i)) < limit} : b \in 0 .. TopPriority}
  BY DEF Found
<1>7. D \subseteq Ids /\ \A b : band(b) \subseteq Ids
  BY DueJobs DEF InRange
<1>8. TopPriority \in Nat /\ \A i \in Ids : Priority[i] \in 0 .. TopPriority
  BY ScoresAssumption
<1> HIDE DEF D, band, inD
<1>9. ASSUME NEW b \in 0 .. TopPriority, j \in band(b)
      PROVE  first(b, j) = Beside(D, j)
  <2>1. inD(j) /\ TopPriority - Priority[j] = b /\ Place(j) = k
    BY <1>3, <1>9 DEF inD
  <2>2. \A h \in Ids : h \in band(b) <=> h \in D /\ Place(h) = Place(j) /\ Priority[h] = Priority[j]
    BY <1>2, <1>3, <1>8, <2>1
  <2>3. \A h \in band(b) : inD(h) /\ pending[k][h] = Sc(h)
    BY <1>3, <1>4, <1>7
  <2>4. pending[k][j] = Sc(j)
    BY <1>4, <2>1
  <2>5. \A h \in band(b) : (pending[k][h] < pending[k][j] \/ (pending[k][h] = pending[k][j] /\ h < j))
                             <=> Before(hash, h, j)
    BY <1>5, <1>7, <2>1, <2>3, <2>4
  <2>6. \A h : h \in first(b, j) <=> h \in Beside(D, j)
    BY <1>7, <2>2, <2>5 DEF Beside
  <2> HIDE DEF first
  <2>7. QED
    BY <2>6
<1>10. ASSUME j \in D, Place(j) = k
       PROVE  \E b \in 0 .. TopPriority : j \in band(b)
  BY <1>2, <1>3, <1>8, <1>10
<1> HIDE DEF first
<1>11. j \in Found(k, now, limit) <=> \E b \in 0 .. TopPriority : j \in band(b) /\ Cardinality(first(b, j)) < limit
  BY <1>6
<1>12. \A b \in 0 .. TopPriority : j \in band(b) => j \in D /\ Place(j) = k
  BY <1>2, <1>3
<1>13. j \in Found(k, now, limit) <=> j \in D /\ Place(j) = k /\ Cardinality(Beside(D, j)) < limit
  BY <1>9, <1>10, <1>11, <1>12
<1>14. QED
  BY <1>13 DEF D

LEMMA ClaimsFirst ==
  ASSUME IInv, FiniteJobs, NEW w \in Workers, NEW now \in Times, NEW limit \in Limits
  PROVE  {c[2] : c \in Chosen(w, now, limit)} = Claimable(Rows, w, now, limit)
<1> DEFINE D == Due(Rows, w, now)
           R == {p \in D \X D : Before(hash, p[1], p[2])}
           C == {j \in D : Cardinality(Beside(D, j)) < limit}
           cands == Candidates(w, now, limit)
<1>1. /\ IsFiniteSet(D) /\ D \subseteq Ids /\ limit \in Nat
      /\ \A j \in D : /\ QueueOf[j] \in QueuesOf[w] /\ NameOf[j] \in NamesOf[w]
                      /\ hash[j].state = "pending" /\ Rows[j] = hash[j]
  <2>1. D \subseteq created
    BY DueJobs
  <2>2. IsFiniteSet(D)
    BY <2>1, FS_Subset DEF FiniteJobs
  <2>3. QED
    BY <2>2, DueJobs, LimitsAssumption
<1> HIDE DEF D
<1>2. \A i, j \in D : <<i, j>> \in R <=> Before(hash, i, j)
  OBVIOUS
<1>3. \A i, j \in D : /\ Sc(i) \in Nat
                      /\ <<i, j>> \in R <=> Sc(i) < Sc(j) \/ (Sc(i) = Sc(j) /\ i < j)
  BY <1>1, <1>2, PendingScores
<1>4. D \subseteq Nat
  BY <1>1, IdsAssumption
<1>5. \A S \in SUBSET D, j \in D : Preds(R, S, j) = {i \in S : Before(hash, i, j)}
  BY <1>2 DEF Preds
<1> HIDE DEF R
<1>6. \A i \in D : <<i, i>> \notin R
  BY <1>3, <1>4
<1>7. \A h, i, j \in D : <<h, i>> \in R /\ <<i, j>> \in R => <<h, j>> \in R
  <2> SUFFICES ASSUME NEW h \in D, NEW i \in D, NEW j \in D, <<h, i>> \in R, <<i, j>> \in R
               PROVE  <<h, j>> \in R
    OBVIOUS
  <2>1. Sc(h) \in Nat /\ Sc(i) \in Nat /\ Sc(j) \in Nat /\ h \in Nat /\ i \in Nat /\ j \in Nat
    BY <1>3, <1>4
  <2>2. /\ Sc(h) < Sc(i) \/ (Sc(h) = Sc(i) /\ h < i)
        /\ Sc(i) < Sc(j) \/ (Sc(i) = Sc(j) /\ i < j)
    BY <1>3
  <2>3. Sc(h) < Sc(j) \/ (Sc(h) = Sc(j) /\ h < j)
    BY <2>1, <2>2
  <2>4. QED
    BY <1>3, <2>3
<1>8. \A j \in D : /\ IsFiniteSet(Preds(R, D, j)) /\ Cardinality(Preds(R, D, j)) \in Nat
                   /\ Cardinality(Beside(D, j)) \in Nat
                   /\ Cardinality(Beside(D, j)) <= Cardinality(Preds(R, D, j))
  <2> SUFFICES ASSUME NEW j \in D
               PROVE  /\ IsFiniteSet(Preds(R, D, j)) /\ Cardinality(Preds(R, D, j)) \in Nat
                      /\ Cardinality(Beside(D, j)) \in Nat
                      /\ Cardinality(Beside(D, j)) <= Cardinality(Preds(R, D, j))
    OBVIOUS
  <2>1. Preds(R, D, j) \in SUBSET D /\ Beside(D, j) \in SUBSET Preds(R, D, j)
    BY <1>5 DEF Preds, Beside
  <2>2. IsFiniteSet(Preds(R, D, j)) /\ IsFiniteSet(Beside(D, j))
    BY <1>1, <2>1, FS_Subset
  <2>3. QED
    BY <2>1, <2>2, FS_Subset, FS_CardinalityType
<1>9. C \in SUBSET D /\ \A j \in D \ C : Cardinality(Preds(R, D, j)) >= limit
  BY <1>1, <1>8
<1>10. \A c : c \in cands <=> \E j \in C : c = <<Place(j), j>>
  <2>1. ASSUME NEW c \in cands
        PROVE  c[2] \in C /\ c = <<Place(c[2]), c[2]>>
    <3>1. /\ c[1] \in QueuesOf[w] \X NamesOf[w] /\ c[2] \in Ids /\ c = <<c[1], c[2]>>
          /\ c[2] \in Found(c[1], now, limit)
      BY DEF Candidates
    <3>2. c[2] \in D /\ Place(c[2]) = c[1] /\ Cardinality(Beside(D, c[2])) < limit
      BY <3>1, FoundIs DEF D
    <3>3. QED
      BY <3>1, <3>2
  <2>2. ASSUME NEW j \in C
        PROVE  <<Place(j), j>> \in cands
    <3>1. /\ j \in D /\ j \in Ids /\ Place(j) \in QueuesOf[w] \X NamesOf[w]
          /\ Cardinality(Beside(D, j)) < limit
      BY <1>1 DEF Place
    <3>2. j \in Found(Place(j), now, limit)
      BY <3>1, FoundIs DEF D
    <3>3. QED
      BY <3>1, <3>2 DEF Candidates
  <2>3. QED
    BY <2>1, <2>2
<1> HIDE DEF C, cands
<1>11. \A j \in C : pending[Place(j)][j] = Sc(j)
  <2>1. \A j \in Ids : Place(j) \in Places
    BY PlacesAssumption DEF Place, Places
  <2>2. QED
    BY <1>1, <1>9, <2>1 DEF IInv, StructuresAgree, PendingAgrees, Sc
<1>12. ASSUME NEW j \in C
       PROVE  Cardinality({d \in cands : Sooner(d, <<Place(j), j>>)}) = Cardinality(Preds(R, C, j))
  <2> DEFINE sooner == {d \in cands : Sooner(d, <<Place(j), j>>)}
             pair == [i \in Preds(R, C, j) |-> <<Place(i), i>>]
  <2>1. \A i \in C : Sooner(<<Place(i), i>>, <<Place(j), j>>) <=> <<i, j>> \in R
    BY <1>3, <1>9, <1>11 DEF Sooner
  <2>2. \A d : d \in sooner <=> \E i \in Preds(R, C, j) : d = <<Place(i), i>>
    BY <1>10, <2>1 DEF Preds
  <2> HIDE DEF sooner
  <2>3. pair \in [Preds(R, C, j) -> sooner]
    BY <2>2
  <2>4. \A a, b \in Preds(R, C, j) : pair[a] = pair[b] => a = b
    OBVIOUS
  <2>5. \A d \in sooner : \E i \in Preds(R, C, j) : pair[i] = d
    BY <2>2
  <2> HIDE DEF pair
  <2>6. ExistsBijection(Preds(R, C, j), sooner)
    BY <2>3, <2>4, <2>5, Fun_IsBij DEF ExistsBijection
  <2>7. IsFiniteSet(Preds(R, C, j))
    <3>1. Preds(R, C, j) \in SUBSET D
      BY <1>9 DEF Preds
    <3>2. QED
      BY <1>1, <3>1, FS_Subset
  <2>8. Cardinality(sooner) = Cardinality(Preds(R, C, j))
    BY <2>6, <2>7, FS_Bijection
  <2>9. QED
    BY <2>8 DEF sooner
<1>13. {c[2] : c \in Chosen(w, now, limit)} = {j \in C : Cardinality(Preds(R, C, j)) < limit}
  <2>1. Chosen(w, now, limit) = {c \in cands : Cardinality({d \in cands : Sooner(d, c)}) < limit}
    BY DEF Chosen, cands
  <2>2. \A j \in C : <<Place(j), j>> \in Chosen(w, now, limit) <=> Cardinality(Preds(R, C, j)) < limit
    BY <1>10, <1>12, <2>1
  <2>3. \A c \in Chosen(w, now, limit) : \E j \in C : c = <<Place(j), j>>
    BY <1>10, <2>1
  <2>4. \A j \in C : <<Place(j), j>>[2] = j
    OBVIOUS
  <2>5. ASSUME NEW c \in Chosen(w, now, limit)
        PROVE  c[2] \in C /\ Cardinality(Preds(R, C, c[2])) < limit
    <3>1. PICK j \in C : c = <<Place(j), j>>
      BY <2>3
    <3>2. QED
      BY <2>2, <3>1
  <2>6. ASSUME NEW j \in C, Cardinality(Preds(R, C, j)) < limit
        PROVE  \E c \in Chosen(w, now, limit) : c[2] = j
    BY <2>2, <2>4, <2>6
  <2>7. QED
    BY <2>5, <2>6
<1>14. Claimable(Rows, w, now, limit) = {j \in D : Cardinality(Preds(R, D, j)) < limit}
  <2>1. \A j \in D : {i \in D : Before(Rows, i, j)} = Preds(R, D, j)
    BY <1>1, <1>5 DEF Before
  <2>2. QED
    BY <2>1 DEF Claimable, D
<1>15. QED
  BY <1>1, <1>6, <1>7, <1>9, <1>13, <1>14, CutTwice

LEMMA FiniteInvariance == Spec => []FiniteJobs
<1>1. Init => FiniteJobs
  BY FS_EmptySet DEF Init, FiniteJobs
<1>2. FiniteJobs /\ [Next]_vars => FiniteJobs'
  <2>1. [Next]_vars => created' = created \/ \E j \in Ids : created' = created \cup {j}
    BY ZenonT(40) DEF Next, vars, enqueueDuplicate, enqueue, claim, ClaimAll, renew, Complete, completeDeleted,
           completeKept, completeRetry, completeDead, completeReleased, requeueExpired, retry, purge
  <2>2. QED
    BY <2>1, FS_AddElement DEF FiniteJobs
<1>3. QED
  BY <1>1, <1>2, PTL DEF Spec

\* CLAIM picks the first due jobs of all, by priority, runAt and creation, for any
\* numbers of queues, names, priorities and jobs (redis.ts, CLAIM).
THEOREM ClaimsCorrect == Spec => []ClaimsFirstDue
<1>1. IInv /\ FiniteJobs => ClaimsFirstDue
  BY ClaimsFirst DEF ClaimsFirstDue
<1>2. QED
  BY Invariance, FiniteInvariance, <1>1, PTL

-----------------------------------------------------------------------------
\* The refinement: each script does to the rows what a call of the contract does.

GoneRows == \A j \in Ids : hash[j].state = "gone" => hash[j] = NoRow("gone")

LEMMA OutcomeGone ==
  ASSUME NEW row \in Row, NEW keep, NEW outcome \in Outcomes, NEW at, NEW runAt,
         Outcome(row, keep, outcome, at, runAt).state = "gone"
  PROVE  Outcome(row, keep, outcome, at, runAt) = NoRow("gone")
BY LeftRow DEF Outcome, Outcomes

LEMMA GoneStep ==
  ASSUME IInv, GoneRows, Next
  PROVE  GoneRows'
<1>1. \A j \in Ids : hash[j] \in Row
  BY DEF IInv, TypeOK
<1>2. ASSUME NEW j \in Ids, enqueueDuplicate(j)
      PROVE  GoneRows'
  BY <1>2 DEF enqueueDuplicate, GoneRows
<1>3. ASSUME NEW j \in Ids, NEW t \in Times, enqueue(j, t)
      PROVE  GoneRows'
  BY <1>1, <1>3 DEF enqueue, GoneRows, NewRow, NoRow, IInv, TypeOK
<1>4. ASSUME NEW w \in Workers, NEW now \in Times, NEW until \in Times, NEW limit \in Limits,
             claim(w, now, limit, until)
      PROVE  GoneRows'
  <2>1. PICK S \in SUBSET Ids : hash' = Claimed(hash, w, S, until)
    BY <1>4, ClaimStep
  <2>2. \A j \in Ids : hash'[j] = hash[j] \/ hash'[j].state = "active"
    BY <1>1, <2>1 DEF Claimed, Row
  <2>3. QED
    BY <2>2 DEF GoneRows
<1>5. ASSUME NEW w \in Workers, NEW S \in SUBSET Ids, NEW until \in Times, renew(w, S, until)
      PROVE  GoneRows'
  <2>1. hash' = Renewed(hash, w, S, until)
    BY <1>5, RenewStep
  <2>2. \A j \in Ids : hash'[j] = hash[j] \/ hash'[j].state = "active"
    BY <1>1, <2>1 DEF Renewed, Holds, Row
  <2>3. QED
    BY <2>2 DEF GoneRows
<1>6. ASSUME NEW w \in Workers, NEW j \in Ids, Complete(w, j)
      PROVE  GoneRows'
  <2>1. PICK outcome \in Outcomes, at, runAt \in Times :
          hash' = Completed(hash, w, j, KeyOf[j] # NoKey, outcome, at, runAt)
    BY <1>6, CompleteStep
  <2>2. \A i \in Ids \ {j} : hash'[i] = hash[i]
    BY <2>1 DEF Completed, IInv, TypeOK
  <2>3. hash'[j] = hash[j] \/ hash'[j] = Outcome(hash[j], KeyOf[j] # NoKey, outcome, at, runAt)
    BY <2>1 DEF Completed, IInv, TypeOK
  <2>4. QED
    BY <1>1, <2>2, <2>3, OutcomeGone DEF GoneRows
<1>7. ASSUME NEW now \in Times, requeueExpired(now)
      PROVE  GoneRows'
  <2>1. hash' = Requeued(hash, now)
    BY <1>7, RequeueStep
  <2>2. \A j \in Ids : \/ hash'[j] = hash[j]
                       \/ hash'[j] = [Unlocked(hash[j]) EXCEPT !.state = "dead", !.finishedAt = now]
                       \/ hash'[j] = [Unlocked(hash[j]) EXCEPT !.state = "pending", !.runAt = now]
    BY <2>1 DEF Requeued
  <2>3. \A j \in Ids : /\ [Unlocked(hash[j]) EXCEPT !.state = "dead", !.finishedAt = now].state = "dead"
                       /\ [Unlocked(hash[j]) EXCEPT !.state = "pending", !.runAt = now].state = "pending"
    BY <1>1, LeftRow
  <2>4. \A j \in Ids : hash'[j] = hash[j] \/ hash'[j].state \in {"dead", "pending"}
    BY <2>2, <2>3
  <2>5. QED
    BY <2>4 DEF GoneRows
<1>8. ASSUME NEW S \in SUBSET Ids, NEW now \in Times, retry(S, now)
      PROVE  GoneRows'
  <2>1. hash' = Retried(hash, S, now)
    BY <1>8, RetryStep
  <2>2. \A j \in Ids : hash'[j] = hash[j] \/ hash'[j].state = "pending"
    BY <1>1, <2>1 DEF Retried, Row
  <2>3. QED
    BY <2>2 DEF GoneRows
<1>9. ASSUME NEW state \in Finished, NEW before \in Times, purge(state, before)
      PROVE  GoneRows'
  <2>1. hash' = Purged(hash, state, before)
    BY <1>9, PurgeStep
  <2>2. QED
    BY <2>1 DEF GoneRows, Purged
<1>10. QED
  BY <1>2, <1>3, <1>4, <1>5, <1>6, <1>7, <1>8, <1>9 DEF Next

LEMMA GoneInvariance == Spec => []GoneRows
<1>1. Init => GoneRows
  BY DEF Init, GoneRows, NoRow
<1>2. IInv /\ GoneRows /\ [Next]_vars => GoneRows'
  BY GoneStep DEF vars, GoneRows
<1>3. QED
  BY Invariance, <1>1, <1>2, PTL DEF Spec

LEMMA KnownRows ==
  ASSUME IInv
  PROVE  /\ \A j \in Ids : Rows[j] = IF j \in created THEN hash[j] ELSE NoRow("unborn")
         /\ \A j \in Ids : hash[j].state \in Stored => j \in created
         /\ \A j \in Ids : hash[j].state # "gone" => hash[j].state \in Stored
         /\ \A j \in Ids : j \notin created => /\ hash[j].state = "gone"
                                              /\ Rows[j].state = "unborn"
BY DEF Rows, NoRow, IInv, TypeOK, Row, Hashes, StructuresAgree, IndexAgrees, Exists

LEMMA AdapterStep ==
  ASSUME IInv, FiniteJobs, GoneRows, Next
  PROVE  Adapter!Next
<1>1. ASSUME NEW j \in Ids, enqueueDuplicate(j)
      PROVE  Adapter!Next
  <2>1. PICK t \in Times : TRUE
    BY ScoresAssumption
  <2>2. /\ KeyOf[j] # NoKey /\ idem[KeyOf[j]] # NoJob /\ j \notin created
        /\ created' = created \cup {j} /\ hash' = hash
    BY <1>1 DEF enqueueDuplicate, Taken
  <2>3. PICK i \in Ids : idem[KeyOf[j]] = i
    BY <2>2, KeysAssumption DEF IInv, TypeOK
  <2>4. Exists(i) /\ KeyOf[i] = KeyOf[j]
    BY <2>2, <2>3, KeysAssumption DEF IInv, StructuresAgree, KeysAgree
  <2>5. i \in created /\ Rows[i] = hash[i]
    BY <2>4, KnownRows DEF Exists
  <2>6. j \in Adapter!Deduplicated(Rows, {j})
    BY <2>2, <2>4, <2>5 DEF Adapter!Deduplicated, Adapter!InStore, Adapter!SameKey, Exists,
                            Adapter!Stored, Stored
  <2>7. hash[j] = NoRow("gone")
    BY <2>2, KnownRows DEF GoneRows
  <2>8. Rows' = Adapter!Enqueued(Rows, {j}, t)
    <3>1. \A h \in Ids : Rows'[h] = IF h = j THEN NoRow("gone") ELSE Rows[h]
      BY <2>2, <2>7 DEF Rows
    <3>2. QED
      BY <2>6, <3>1 DEF Rows, Adapter!Enqueued, Adapter!NoRow, NoRow, Adapter!NoTime, NoTime
  <2>9. Rows[j].state = "unborn"
    BY <2>2, KnownRows
  <2>10. Adapter!enqueue({j}, t)
    BY <2>8, <2>9 DEF Adapter!enqueue
  <2>11. QED
    BY <2>10 DEF Adapter!Next
<1>2. ASSUME NEW j \in Ids, NEW t \in Times, enqueue(j, t)
      PROVE  Adapter!Next
  <2>1. /\ j \notin created /\ ~Taken(j)
        /\ created' = created \cup {j} /\ hash' = [hash EXCEPT ![j] = NewRow(t)]
    BY <1>2 DEF enqueue
  <2>2. \A i \in Ids : i \in Adapter!InStore(Rows) => Exists(i)
    BY KnownRows DEF Adapter!InStore, Adapter!Stored, Stored, Exists, NoRow
  <2>3. j \notin Adapter!Deduplicated(Rows, {j})
    <3>1. ASSUME NEW i \in Ids, Exists(i), KeyOf[i] = KeyOf[j], KeyOf[j] # NoKey
          PROVE  FALSE
      <4>1. KeyOf[j] \in Keys
        BY <3>1, KeysAssumption
      <4>2. idem[KeyOf[j]] = i
        BY <3>1, <4>1 DEF IInv, StructuresAgree, KeysAgree
      <4>3. i # NoJob
        BY IdsAssumption DEF NoJob
      <4>4. QED
        BY <2>1, <3>1, <4>2, <4>3 DEF Taken
    <3>2. ~(j < j)
      BY IdsAssumption
    <3>3. Adapter!InStore(Rows) \subseteq Ids
      BY DEF Adapter!InStore
    <3>4. QED
      BY <2>2, <3>1, <3>2, <3>3 DEF Adapter!Deduplicated, Adapter!SameKey
  <2>4. Rows' = Adapter!Enqueued(Rows, {j}, t)
    <3>1. \A h \in Ids : Rows'[h] = IF h = j THEN NewRow(t) ELSE Rows[h]
      BY <2>1 DEF Rows, IInv, TypeOK
    <3>2. QED
      BY <2>3, <3>1 DEF Rows, Adapter!Enqueued, Adapter!NewRow, NewRow, Adapter!NoRow, NoRow,
                        Adapter!NoTime, NoTime
  <2>5. Rows[j].state = "unborn"
    BY <2>1, KnownRows
  <2>6. Adapter!enqueue({j}, t)
    BY <2>4, <2>5 DEF Adapter!enqueue
  <2>7. QED
    BY <2>6 DEF Adapter!Next
<1>3. ASSUME NEW w \in Workers, NEW now \in Times, NEW until \in Times, NEW limit \in Limits,
             claim(w, now, limit, until)
      PROVE  Adapter!Next
  <2> DEFINE S == Claimable(Rows, w, now, limit)
  <2>1. hash' = Claimed(hash, w, {c[2] : c \in Chosen(w, now, limit)}, until) /\ UNCHANGED created
    BY <1>3 DEF claim, ClaimAll, Claimed
  <2>2. hash' = Claimed(hash, w, S, until)
    BY <2>1, ClaimsFirst
  <2>3. S \subseteq created
    BY DueJobs DEF Claimable
  <2>4. S = Adapter!Claimable(Rows, w, now, limit)
    <3>1. Adapter!Due(Rows, w, now) = Due(Rows, w, now)
      BY DEF Due, Adapter!Due
    <3>2. \A j \in Due(Rows, w, now) : {i \in Due(Rows, w, now) : Adapter!Before(Rows, i, j)}
                                        = {i \in Due(Rows, w, now) : Before(Rows, i, j)}
      BY DEF Before, Adapter!Before
    <3> DEFINE due == Due(Rows, w, now)
    <3>3. Claimable(Rows, w, now, limit)
            = {j \in due : Cardinality({i \in due : Before(Rows, i, j)}) < limit}
      BY DEF Claimable
    <3>4. Adapter!Claimable(Rows, w, now, limit)
            = {j \in due : Cardinality({i \in due : Adapter!Before(Rows, i, j)}) < limit}
      <4>1. \A S1 : Adapter!Cardinality(S1) = Cardinality(S1)
        BY DEF Adapter!Cardinality, Cardinality
      <4>2. QED
        BY <3>1, <4>1 DEF Adapter!Claimable
    <3> HIDE DEF due
    <3>5. {j \in due : Cardinality({i \in due : Before(Rows, i, j)}) < limit}
            = {j \in due : Cardinality({i \in due : Adapter!Before(Rows, i, j)}) < limit}
      <4>1. \A j \in due : {i \in due : Adapter!Before(Rows, i, j)} = {i \in due : Before(Rows, i, j)}
        BY <3>2 DEF due
      <4>2. QED
        BY <4>1
    <3>6. QED
      BY <3>3, <3>4, <3>5 DEF S
  <2> HIDE DEF S
  <2>5. Rows' = Adapter!Claimed(Rows, w, S, until)
    BY <2>1, <2>2, <2>3 DEF Rows, Claimed, Adapter!Claimed
  <2>6. Adapter!claim(w, now, limit, until)
    BY <2>4, <2>5 DEF Adapter!claim
  <2>7. QED
    BY <2>6 DEF Adapter!Next
<1>4. ASSUME NEW w \in Workers, NEW S \in SUBSET Ids, NEW until \in Times, renew(w, S, until)
      PROVE  Adapter!Next
  <2>1. hash' = Renewed(hash, w, S, until) /\ UNCHANGED created
    BY <1>4, RenewStep DEF renew
  <2>2. \A j \in Ids : Holds(hash, w, j) <=> Adapter!Holds(Rows, w, j)
    BY KnownRows DEF Holds, Adapter!Holds, Stored
  <2>3. Rows' = Adapter!Renewed(Rows, w, S, until)
    BY <2>1, <2>2, KnownRows DEF Rows, Renewed, Adapter!Renewed, Holds, Stored
  <2>4. Adapter!renew(w, S, until)
    BY <2>3 DEF Adapter!renew
  <2>5. QED
    BY <2>4 DEF Adapter!Next
<1>5. ASSUME NEW w \in Workers, NEW j \in Ids, Complete(w, j)
      PROVE  Adapter!Next
  <2>1. UNCHANGED created
    BY <1>5 DEF Complete, completeDeleted, completeKept, completeRetry, completeDead, completeReleased
  <2>2. PICK outcome \in Outcomes, at, runAt \in Times :
          hash' = Completed(hash, w, j, KeyOf[j] # NoKey, outcome, at, runAt)
    BY <1>5, CompleteStep
  <2>3. Holds(hash, w, j) <=> Adapter!Holds(Rows, w, j)
    BY KnownRows DEF Holds, Adapter!Holds, Stored
  <2>4. \A row : Adapter!Outcome(row, KeyOf[j] # NoKey, outcome, at, runAt)
                   = Outcome(row, KeyOf[j] # NoKey, outcome, at, runAt)
    BY DEF Adapter!Outcome, Outcome, Adapter!Unlocked, Unlocked, Adapter!NoRow, NoRow, Adapter!NoTime, NoTime
  <2>5. Rows' = Adapter!Completed(Rows, w, j, KeyOf[j] # NoKey, outcome, at, runAt)
    <3>1. CASE Holds(hash, w, j)
      <4>1. j \in created
        BY <3>1, KnownRows DEF Holds, Stored
      <4>2. hash' = [hash EXCEPT ![j] = Outcome(hash[j], KeyOf[j] # NoKey, outcome, at, runAt)]
        BY <2>2, <3>1 DEF Completed
      <4>3. Rows' = [Rows EXCEPT ![j] = Outcome(Rows[j], KeyOf[j] # NoKey, outcome, at, runAt)]
        BY <2>1, <4>1, <4>2 DEF Rows, IInv, TypeOK
      <4>4. QED
        BY <2>3, <2>4, <3>1, <4>3 DEF Adapter!Completed
    <3>2. CASE ~Holds(hash, w, j)
      BY <2>1, <2>2, <2>3, <3>2 DEF Rows, Completed, Adapter!Completed
    <3>3. QED
      BY <3>1, <3>2
  <2>6. Adapter!complete(w, j, outcome, at, runAt)
    BY <2>5 DEF Adapter!complete
  <2>7. outcome \in Adapter!Outcomes
    BY DEF Outcomes, Adapter!Outcomes
  <2>8. QED
    BY <2>6, <2>7 DEF Adapter!Next
<1>6. ASSUME NEW now \in Times, requeueExpired(now)
      PROVE  Adapter!Next
  <2>1. hash' = Requeued(hash, now) /\ UNCHANGED created
    BY <1>6, RequeueStep DEF requeueExpired
  <2>2. \A j \in Ids : j \in Adapter!Expired(Rows, now) <=> j \in Expired(hash, now)
    BY KnownRows DEF Expired, Adapter!Expired, Stored
  <2>3. Rows' = Adapter!Requeued(Rows, now)
    BY <2>1, <2>2, KnownRows DEF Rows, Requeued, Adapter!Requeued, Adapter!Unlocked, Unlocked,
                                 Adapter!NoTime, NoTime, Expired, Stored
  <2>4. Adapter!requeueExpired(now)
    BY <2>3 DEF Adapter!requeueExpired
  <2>5. QED
    BY <2>4 DEF Adapter!Next
<1>7. ASSUME NEW S \in SUBSET Ids, NEW now \in Times, retry(S, now)
      PROVE  Adapter!Next
  <2>1. hash' = Retried(hash, S, now) /\ UNCHANGED created
    BY <1>7, RetryStep DEF retry
  <2>2. Rows' = Adapter!Retried(Rows, S, now)
    BY <2>1, KnownRows DEF Rows, Retried, Adapter!Retried, Adapter!NoTime, NoTime, Stored
  <2>3. Adapter!retry(S, now)
    BY <2>2 DEF Adapter!retry
  <2>4. QED
    BY <2>3 DEF Adapter!Next
<1>8. ASSUME NEW state \in Finished, NEW before \in Times, purge(state, before)
      PROVE  Adapter!Next
  <2>1. hash' = Purged(hash, state, before) /\ UNCHANGED created
    BY <1>8, PurgeStep DEF purge
  <2>2. Rows' = Adapter!Purged(Rows, state, before)
    BY <2>1, KnownRows DEF Rows, Purged, Adapter!Purged, Adapter!NoRow, NoRow, Adapter!NoTime, NoTime,
                           Stored, Finished
  <2>3. Adapter!purge(state, before)
    BY <2>2 DEF Adapter!purge
  <2>4. state \in Adapter!Finished
    BY DEF Finished, Adapter!Finished
  <2>5. QED
    BY <2>3, <2>4 DEF Adapter!Next
<1>9. QED
  BY <1>1, <1>2, <1>3, <1>4, <1>5, <1>6, <1>7, <1>8 DEF Next

\* The Redis adapter implements the contract of the memory adapter for any jobs,
\* queues, names, keys, priorities, workers, instants and claim sizes (redis.ts).
THEOREM AdapterCorrect == Spec => ImplementsAdapter
<1>1. Init => Adapter!Init
  BY DEF Init, Rows, Adapter!Init, Adapter!NoRow, NoRow, Adapter!NoTime, NoTime
<1>2. IInv /\ FiniteJobs /\ GoneRows /\ [Next]_vars => [Adapter!Next]_Rows
  <2>1. UNCHANGED vars => UNCHANGED Rows
    BY DEF vars, Rows
  <2>2. QED
    BY <2>1, AdapterStep
<1>3. QED
  BY Invariance, FiniteInvariance, GoneInvariance, <1>1, <1>2, PTL DEF Spec, ImplementsAdapter, Adapter!Spec
=============================================================================
