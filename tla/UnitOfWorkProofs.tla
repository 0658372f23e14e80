-------------------------- MODULE UnitOfWorkProofs --------------------------
(***************************************************************************)
(* Proofs about UnitOfWork, for any flows, items, listeners and number of  *)
(* scopes: type correctness, that nothing is announced which is not        *)
(* committed, that callbacks run in order, each once and none left out,    *)
(* and that connections close under nobody.  And about Migrator, for any   *)
(* instances and files: what migrate() and rollback() promise.             *)
(***************************************************************************)
EXTENDS UnitOfWork, Migrator, SequenceTheorems, FiniteSetTheorems, WellFoundedInduction, TLAPS

-----------------------------------------------------------------------------
\* Sequences.

LEMMA SetAppend ==
  ASSUME NEW S, NEW s \in Seq(S), NEW x \in S
  PROVE  Append(s, x) \in Seq(S) /\ Set(Append(s, x)) = Set(s) \cup {x}
<1>1. Append(s, x) \in Seq(S) /\ Len(Append(s, x)) = Len(s) + 1
  OBVIOUS
<1>2. \A n \in 1 .. Len(s) : Append(s, x)[n] = s[n]
  OBVIOUS
<1>3. Append(s, x)[Len(s) + 1] = x
  OBVIOUS
<1>4. DOMAIN Append(s, x) = 1 .. (Len(s) + 1) /\ DOMAIN s = 1 .. Len(s) /\ Len(s) \in Nat
  BY <1>1
<1>5. 1 .. (Len(s) + 1) = (1 .. Len(s)) \cup {Len(s) + 1}
  BY <1>4
<1> QED
  BY <1>1, <1>2, <1>3, <1>4, <1>5 DEF Set

LEMMA SetConcat ==
  ASSUME NEW S, NEW s \in Seq(S), NEW t \in Seq(S)
  PROVE  s \o t \in Seq(S) /\ Set(s \o t) = Set(s) \cup Set(t)
<1>1. /\ s \o t \in Seq(S) /\ Len(s \o t) = Len(s) + Len(t) /\ Len(s) \in Nat /\ Len(t) \in Nat
      /\ DOMAIN s = 1 .. Len(s) /\ DOMAIN t = 1 .. Len(t) /\ DOMAIN (s \o t) = 1 .. (Len(s) + Len(t))
  OBVIOUS
<1>2. ASSUME NEW n \in DOMAIN (s \o t)
      PROVE  (s \o t)[n] \in Set(s) \cup Set(t)
  <2>1. n \in 1 .. (Len(s) + Len(t))
    BY <1>1, <1>2
  <2>2. CASE n <= Len(s)
    BY <2>1, <2>2, <1>1 DEF Set
  <2>3. CASE n > Len(s)
    <3>1. (s \o t)[n] = t[n - Len(s)] /\ n - Len(s) \in 1 .. Len(t)
      BY <2>1, <2>3, <1>1
    <3> QED
      BY <3>1, <1>1 DEF Set
  <2> QED
    BY <2>1, <2>2, <2>3, <1>1
<1>3. \A n \in 1 .. Len(s) : n \in 1 .. (Len(s) + Len(t)) /\ (s \o t)[n] = s[n]
  BY <1>1
<1>4. \A n \in 1 .. Len(t) : Len(s) + n \in 1 .. (Len(s) + Len(t)) /\ (s \o t)[Len(s) + n] = t[n]
  BY <1>1
<1>5. Set(s) \subseteq Set(s \o t)
  BY <1>1, <1>3 DEF Set
<1>6. Set(t) \subseteq Set(s \o t)
  BY <1>1, <1>4 DEF Set
<1>7. Set(s \o t) \subseteq Set(s) \cup Set(t)
  BY <1>2 DEF Set
<1> QED
  BY <1>1, <1>5, <1>6, <1>7

LEMMA TakeTail ==
  ASSUME NEW S, NEW s \in Seq(S), s # <<>>
  PROVE  Head(s) \in S /\ Head(s) \in Set(s) /\ Tail(s) \in Seq(S) /\ Set(Tail(s)) \subseteq Set(s)
<1>1. Len(s) \in Nat \ {0} /\ Head(s) = s[1] /\ Tail(s) \in Seq(S) /\ Len(Tail(s)) = Len(s) - 1
  OBVIOUS
<1>2. \A n \in 1 .. (Len(s) - 1) : Tail(s)[n] = s[n + 1]
  OBVIOUS
<1>3. DOMAIN s = 1 .. Len(s) /\ DOMAIN Tail(s) = 1 .. (Len(s) - 1)
  BY <1>1
<1>4. 1 \in DOMAIN s /\ \A n \in DOMAIN Tail(s) : n + 1 \in DOMAIN s
  BY <1>1, <1>3
<1> QED
  BY <1>1, <1>2, <1>3, <1>4 DEF Set

-----------------------------------------------------------------------------
\* The inductive invariant: the afterCommit array of an open scope holds the items whose
\* rows are written in that very scope, so that the two share their fate.

Scoped(ls, ws) ==
  /\ ls \in Seq(Seq(Items)) /\ ws \in Seq(SUBSET Items)
  /\ Len(ls) = Len(ws)
  /\ \A n \in 1 .. Len(ls) : Set(ls[n]) = ws[n]

ScopesMatch == \A f \in Flows : Scoped(lists[f], writes[f])
AfterKept == \A f \in Flows : Set(after[f]) \subseteq kept \cup late

IInv == TypeOK /\ ScopesMatch /\ AfterKept /\ OnlyAfterCommit

LEMMA ScopedEmpty == Scoped(<<>>, <<>>)
BY DEF Scoped

LEMMA ScopedBegin ==
  ASSUME NEW ls, NEW ws, Scoped(ls, ws)
  PROVE  Scoped(Append(ls, <<>>), Append(ws, {}))
<1>1. Append(ls, <<>>) \in Seq(Seq(Items)) /\ Append(ws, {}) \in Seq(SUBSET Items)
  BY DEF Scoped
<1>2. Len(Append(ls, <<>>)) = Len(ls) + 1 /\ Len(Append(ws, {})) = Len(ls) + 1 /\ Len(ls) \in Nat
  BY DEF Scoped
<1>3. ASSUME NEW n \in 1 .. (Len(ls) + 1)
      PROVE  Set(Append(ls, <<>>)[n]) = Append(ws, {})[n]
  <2>1. CASE n = Len(ls) + 1
    BY <2>1, <1>2 DEF Scoped, Set
  <2>2. CASE n \in 1 .. Len(ls)
    BY <2>2, <1>2 DEF Scoped
  <2> QED
    BY <2>1, <2>2, <1>2
<1> QED
  BY <1>1, <1>2, <1>3 DEF Scoped

LEMMA ScopedOuter ==
  ASSUME NEW ls, NEW ws, Scoped(ls, ws), NEW k \in 0 .. Len(ls)
  PROVE  /\ Scoped(SubSeq(ls, 1, k), SubSeq(ws, 1, k))
         /\ Len(SubSeq(ls, 1, k)) = k /\ Len(SubSeq(ws, 1, k)) = k
<1>1. SubSeq(ls, 1, k) \in Seq(Seq(Items)) /\ SubSeq(ws, 1, k) \in Seq(SUBSET Items)
  BY DEF Scoped
<1>2. Len(SubSeq(ls, 1, k)) = k /\ Len(SubSeq(ws, 1, k)) = k /\ k \in Nat /\ k <= Len(ls) /\ Len(ls) \in Nat
  BY DEF Scoped
<1>3. \A n \in 1 .. k : SubSeq(ls, 1, k)[n] = ls[n] /\ SubSeq(ws, 1, k)[n] = ws[n]
  BY <1>2 DEF Scoped
<1> QED
  BY <1>1, <1>2, <1>3 DEF Scoped

LEMMA ScopedJoin ==
  ASSUME NEW ls, NEW ws, Scoped(ls, ws), Len(ls) > 1
  PROVE  Scoped(Append(SubSeq(ls, 1, Len(ls) - 2), ls[Len(ls) - 1] \o ls[Len(ls)]),
                Append(SubSeq(ws, 1, Len(ls) - 2), ws[Len(ls) - 1] \cup ws[Len(ls)]))
<1> DEFINE k == Len(ls) - 2
           l == ls[Len(ls) - 1] \o ls[Len(ls)]
           w == ws[Len(ls) - 1] \cup ws[Len(ls)]
           A == SubSeq(ls, 1, k)
           B == SubSeq(ws, 1, k)
<1>1. Len(ls) \in Nat /\ k \in 0 .. Len(ls) /\ Len(ls) - 1 \in 1 .. Len(ls) /\ Len(ls) \in 1 .. Len(ls)
  BY DEF Scoped
<1>2. /\ ls[Len(ls) - 1] \in Seq(Items) /\ ls[Len(ls)] \in Seq(Items)
      /\ ws[Len(ls) - 1] \in SUBSET Items /\ ws[Len(ls)] \in SUBSET Items
  BY <1>1 DEF Scoped
<1>3. l \in Seq(Items) /\ Set(l) = w /\ w \in SUBSET Items
  <2>1. l \in Seq(Items) /\ Set(l) = Set(ls[Len(ls) - 1]) \cup Set(ls[Len(ls)])
    BY <1>2, SetConcat
  <2>2. Set(ls[Len(ls) - 1]) = ws[Len(ls) - 1] /\ Set(ls[Len(ls)]) = ws[Len(ls)]
    BY <1>1 DEF Scoped
  <2> QED
    BY <2>1, <2>2, <1>2
<1>4. Scoped(A, B) /\ Len(A) = k /\ Len(B) = k
  BY <1>1, ScopedOuter, ZenonT(40)
<1> HIDE DEF k, l, w, A, B
<1>5. /\ Append(A, l) \in Seq(Seq(Items)) /\ Append(B, w) \in Seq(SUBSET Items)
      /\ Len(Append(A, l)) = k + 1 /\ Len(Append(B, w)) = k + 1 /\ k \in Nat
  BY <1>1, <1>3, <1>4 DEF Scoped
<1>6. ASSUME NEW n \in 1 .. (k + 1)
      PROVE  Set(Append(A, l)[n]) = Append(B, w)[n]
  <2>1. CASE n = k + 1
    BY <2>1, <1>3, <1>4, <1>5 DEF Scoped
  <2>2. CASE n \in 1 .. k
    BY <2>2, <1>3, <1>4, <1>5 DEF Scoped
  <2> QED
    BY <2>1, <2>2, <1>5
<1>7. Scoped(Append(A, l), Append(B, w))
  BY <1>5, <1>6 DEF Scoped
<1> QED
  BY <1>7 DEF k, l, w, A, B

LEMMA ScopedRegister ==
  ASSUME NEW ls, NEW ws, Scoped(ls, ws), NEW n \in 1 .. Len(ls), NEW i \in Items
  PROVE  Scoped([ls EXCEPT ![n] = Append(@, i)], [ws EXCEPT ![n] = @ \cup {i}])
<1> DEFINE l == [ls EXCEPT ![n] = Append(@, i)]
           w == [ws EXCEPT ![n] = @ \cup {i}]
<1>1. ls[n] \in Seq(Items) /\ ws[n] \in SUBSET Items /\ Set(ls[n]) = ws[n] /\ n \in 1 .. Len(ws)
  BY DEF Scoped
<1>2. Append(ls[n], i) \in Seq(Items) /\ Set(Append(ls[n], i)) = ws[n] \cup {i}
  BY <1>1, SetAppend
<1>3. l \in Seq(Seq(Items)) /\ w \in Seq(SUBSET Items) /\ Len(l) = Len(ls) /\ Len(w) = Len(ws)
  BY <1>1, <1>2 DEF Scoped
<1>4. l[n] = Append(ls[n], i) /\ w[n] = ws[n] \cup {i}
  BY <1>1 DEF Scoped
<1>5. \A m \in 1 .. Len(ls) : m # n => l[m] = ls[m] /\ w[m] = ws[m]
  BY DEF Scoped
<1> HIDE DEF l, w
<1>6. Scoped(l, w)
  BY <1>2, <1>3, <1>4, <1>5 DEF Scoped
<1> QED
  BY <1>6 DEF l, w

-----------------------------------------------------------------------------
\* The initial state and the steps.

LEMMA InitHolds == Init => IInv
<1> SUFFICES ASSUME Init PROVE IInv
  OBVIOUS
<1>1. <<>> \in Seq(Items) /\ <<>> \in Seq(Seq(Items)) /\ <<>> \in Seq(SUBSET Items) /\ Set(<<>>) = {}
  BY DEF Set
<1>2. TypeOK
  BY <1>1, ScopesAssumption DEF Init, TypeOK, Requests, Stages
<1>3. ScopesMatch
  BY ScopedEmpty DEF Init, ScopesMatch
<1>4. AfterKept /\ OnlyAfterCommit
  BY <1>1 DEF Init, AfterKept, OnlyAfterCommit
<1> QED
  BY <1>2, <1>3, <1>4 DEF IInv

\* The parts of the invariant that a step leaves alone when it only adds to kept or late.
LEMMA Announced ==
  ASSUME IInv, kept \cup late \subseteq (kept \cup late)'
  PROVE  /\ UNCHANGED <<ran, queued>> /\ pending' \subseteq pending => OnlyAfterCommit'
         /\ UNCHANGED after => AfterKept'
BY DEF IInv, OnlyAfterCommit, AfterKept

\* An item runs that is committed or late.
LEMMA RunSound ==
  ASSUME IInv, NEW i \in Items, RunsItem(i), i \in (kept \cup late)',
         kept \cup late \subseteq (kept \cup late)'
  PROVE  /\ OnlyAfterCommit'
         /\ ran' \in Seq(Items) /\ queued' \subseteq Items /\ pending' \subseteq Events \X Listeners
<1>1. ran' = Append(ran, i) /\ ran \in Seq(Items) /\ queued \subseteq Items
  BY DEF RunsItem, IInv, TypeOK
<1>2. ran' \in Seq(Items) /\ (Set(ran))' = Set(ran) \cup {i}
  BY <1>1, SetAppend
<1>3. queued' \subseteq queued \cup {i}
  BY DEF RunsItem, Deliver, Enqueue
<1>4. pending' \subseteq pending \cup {p \in Events \X Listeners : p[1] = i}
  BY DEF RunsItem, Deliver, Enqueue, Started
<1>5. pending' \subseteq Events \X Listeners
  BY <1>4 DEF IInv, TypeOK
<1>6. OnlyAfterCommit'
  BY <1>2, <1>3, <1>4 DEF IInv, OnlyAfterCommit
<1> QED
  BY <1>1, <1>2, <1>3, <1>5, <1>6

LEMMA BeginSound == ASSUME IInv, NEW f \in Flows, Begin(f) PROVE IInv'
<1>1. Scoped(lists[f], writes[f]) /\ lists[f] \in Seq(Seq(Items)) /\ writes[f] \in Seq(SUBSET Items)
  BY DEF IInv, TypeOK, ScopesMatch
<1>2. Scoped(Append(lists[f], <<>>), Append(writes[f], {}))
  BY <1>1, ScopedBegin
<1>3. ScopesMatch'
  BY <1>2 DEF Begin, IInv, TypeOK, ScopesMatch
<1>4. begun' \in [Flows -> 0 .. MaxScopes]
  BY ScopesAssumption DEF Begin, IInv, TypeOK
<1>5. TypeOK'
  BY <1>2, <1>4 DEF Begin, IInv, TypeOK, Scoped, bus, history
<1> QED
  BY <1>3, <1>5, Announced DEF Begin, bus, history, IInv

\* A savepoint ends one way or the other: its flow's scopes become ls and ws.
LEMMA ScopesEnd ==
  ASSUME IInv, NEW f \in Flows, NEW ls, NEW ws, Scoped(ls, ws),
         lists' = [lists EXCEPT ![f] = ls], writes' = [writes EXCEPT ![f] = ws]
  PROVE  /\ ScopesMatch'
         /\ lists' \in [Flows -> Seq(Seq(Items))] /\ writes' \in [Flows -> Seq(SUBSET Items)]
BY DEF IInv, TypeOK, ScopesMatch, Scoped

LEMMA ReleaseSound == ASSUME IInv, NEW f \in Flows, Release(f) PROVE IInv'
<1>1. Scoped(lists[f], writes[f]) /\ Depth(f) > 1
  BY DEF IInv, ScopesMatch, Release
<1>2. Scoped(Joined(f), Append(SubSeq(writes[f], 1, Depth(f) - 2),
                               writes[f][Depth(f) - 1] \cup writes[f][Depth(f)]))
  BY <1>1, ScopedJoin DEF Joined, Depth
<1>3. /\ ScopesMatch'
      /\ lists' \in [Flows -> Seq(Seq(Items))] /\ writes' \in [Flows -> Seq(SUBSET Items)]
  BY <1>2, ScopesEnd DEF Release
<1>4. TypeOK'
  BY <1>3 DEF Release, IInv, TypeOK, bus, history
<1> QED
  BY <1>3, <1>4, Announced DEF Release, bus, history, IInv

LEMMA UndoSound == ASSUME IInv, NEW f \in Flows, Undo(f) PROVE IInv'
<1>1. Scoped(lists[f], writes[f]) /\ Len(lists[f]) > 1 /\ Len(lists[f]) \in Nat /\ Len(writes[f]) = Len(lists[f])
  BY DEF IInv, ScopesMatch, Scoped, Undo, Depth
<1>2. Scoped(Outer(lists[f]), Outer(writes[f]))
  BY <1>1, ScopedOuter DEF Outer
<1>3. /\ ScopesMatch'
      /\ lists' \in [Flows -> Seq(Seq(Items))] /\ writes' \in [Flows -> Seq(SUBSET Items)]
  BY <1>2, ScopesEnd DEF Undo, Dropped
<1>4. TypeOK'
  BY <1>3 DEF Undo, IInv, TypeOK, bus, history
<1> QED
  BY <1>3, <1>4, Announced DEF Undo, bus, history, IInv

LEMMA EndsSound ==
  ASSUME IInv, NEW f \in Flows, Commit(f) \/ Rollback(f) \/ CommitUnknown(f)
  PROVE  IInv'
<1>1. Ends(f) /\ Scoped(lists[f], writes[f]) /\ Len(lists[f]) = 1
  BY DEF Commit, Rollback, CommitUnknown, Ends, Depth, IInv, ScopesMatch
<1>2. lists[f][1] \in Seq(Items) /\ writes[f][1] \in SUBSET Items /\ Set(lists[f][1]) \subseteq writes[f][1]
  <2>1. /\ lists[f] \in Seq(Seq(Items)) /\ writes[f] \in Seq(SUBSET Items) /\ Len(writes[f]) = 1
        /\ \A n \in 1 .. 1 : Set(lists[f][n]) = writes[f][n]
    BY <1>1 DEF Scoped
  <2>2. lists[f][1] \in Seq(Items) /\ writes[f][1] \in SUBSET Items
    BY <1>1, <2>1
  <2> QED
    BY <2>1, <2>2
<1>3. /\ ScopesMatch'
      /\ lists' \in [Flows -> Seq(Seq(Items))] /\ writes' \in [Flows -> Seq(SUBSET Items)]
  BY <1>1, ScopedEmpty, ScopesEnd DEF Ends
<1>4. kept' \subseteq kept \cup writes[f][1] /\ kept \subseteq kept' /\ doubted' \subseteq doubted \cup writes[f][1]
      /\ late' = late
  BY DEF Commit, Rollback, CommitUnknown, Ends, history
<1>5. after' = after \/ (after' = [after EXCEPT ![f] = lists[f][1]] /\ writes[f][1] \subseteq kept')
  BY DEF Commit, Rollback, CommitUnknown
<1>6. after' \in [Flows -> Seq(Items)]
  BY <1>2, <1>5 DEF IInv, TypeOK
<1>7. AfterKept'
  BY <1>2, <1>4, <1>5 DEF IInv, TypeOK, AfterKept
<1>8. TypeOK'
  BY <1>1, <1>2, <1>3, <1>4, <1>6 DEF Ends, IInv, TypeOK, bus, history
<1>9. OnlyAfterCommit'
  BY <1>1, <1>4, Announced DEF Ends, bus
<1> QED
  BY <1>3, <1>7, <1>8, <1>9 DEF IInv

LEMMA RegisterSound ==
  ASSUME IInv, NEW f \in Flows, NEW i \in Items, NEW n, Register(f, i, n)
  PROVE  IInv'
<1> DEFINE ls == [lists[f] EXCEPT ![n] = Append(@, i)]
           ws == [writes[f] EXCEPT ![n] = @ \cup {i}]
<1>1. Scoped(ls, ws)
  BY ScopedRegister DEF IInv, ScopesMatch, Register, Depth
<1>2. lists' = [lists EXCEPT ![f] = ls] /\ writes' = [writes EXCEPT ![f] = ws]
  BY DEF Register, IInv, TypeOK
<1> HIDE DEF ls, ws
<1>3. /\ ScopesMatch'
      /\ lists' \in [Flows -> Seq(Seq(Items))] /\ writes' \in [Flows -> Seq(SUBSET Items)]
  BY <1>1, <1>2, ScopesEnd
<1>4. noted' \in [Flows -> Seq(Items)] /\ aside' \subseteq Items
  BY DEF Register, IInv, TypeOK
<1>5. TypeOK'
  BY <1>3, <1>4, ZenonT(40) DEF Register, IInv, TypeOK, bus
<1> QED
  BY <1>3, <1>5, Announced DEF Register, bus, IInv

LEMMA RegisterLateSound ==
  ASSUME IInv, NEW f \in Flows, NEW i \in Items, RegisterLate(f, i)
  PROVE  IInv'
<1>1. after[f] \in Seq(Items) /\ late' = late \cup {i} /\ kept' = kept
      /\ (after' = after \/ after' = [after EXCEPT ![f] = Append(@, i)])
  BY DEF RegisterLate, IInv, TypeOK
<1>2. Append(after[f], i) \in Seq(Items) /\ Set(Append(after[f], i)) = Set(after[f]) \cup {i}
  BY <1>1, SetAppend
<1>3. AfterKept'
  BY <1>1, <1>2 DEF IInv, TypeOK, AfterKept
<1>4. TypeOK'
  BY <1>1, <1>2 DEF RegisterLate, IInv, TypeOK, bus, scopes
<1>5. ScopesMatch'
  BY DEF RegisterLate, scopes, IInv, ScopesMatch
<1>6. OnlyAfterCommit'
  BY <1>1, Announced DEF RegisterLate, bus
<1> QED
  BY <1>3, <1>4, <1>5, <1>6 DEF IInv

LEMMA RunNowSound ==
  ASSUME IInv, NEW i \in Items, (\E f \in Flows : RunNow(f, i)) \/ ListenerEmits(i)
  PROVE  IInv'
<1>1. /\ RunsItem(i) /\ kept' = kept \cup {i}
      /\ UNCHANGED <<request, scopes, after, app, settling, history, doubted>>
  BY DEF RunNow, ListenerEmits
<1>2. late' = late /\ UNCHANGED <<lists, writes, begun, after, noted, aside>>
  BY <1>1 DEF history, scopes
<1>3. /\ OnlyAfterCommit'
      /\ ran' \in Seq(Items) /\ queued' \subseteq Items /\ pending' \subseteq Events \X Listeners
  BY <1>1, <1>2, RunSound
<1>4. TypeOK'
  BY <1>1, <1>2, <1>3 DEF IInv, TypeOK
<1>5. ScopesMatch' /\ AfterKept'
  BY <1>1, <1>2, Announced DEF IInv, ScopesMatch
<1> QED
  BY <1>3, <1>4, <1>5 DEF IInv

LEMMA RunCallbackSound == ASSUME IInv, NEW f \in Flows, RunCallback(f) PROVE IInv'
<1> DEFINE i == Head(after[f])
<1>1. after[f] \in Seq(Items) /\ after[f] # <<>> /\ Set(after[f]) \subseteq kept \cup late
  BY DEF RunCallback, IInv, TypeOK, AfterKept
<1>2. i \in Items /\ i \in Set(after[f]) /\ Tail(after[f]) \in Seq(Items)
      /\ Set(Tail(after[f])) \subseteq Set(after[f])
  BY <1>1, TakeTail
<1>3. RunsItem(i) /\ after' = [after EXCEPT ![f] = Tail(@)]
      /\ UNCHANGED <<request, scopes, app, settling, kept, history, doubted>>
  BY DEF RunCallback
<1>4. UNCHANGED <<lists, writes, begun, noted, late, aside, kept>>
  BY <1>3 DEF history, scopes
<1> HIDE DEF i
<1>5. /\ OnlyAfterCommit'
      /\ ran' \in Seq(Items) /\ queued' \subseteq Items /\ pending' \subseteq Events \X Listeners
  BY <1>1, <1>2, <1>3, <1>4, RunSound
<1>6. AfterKept'
  BY <1>1, <1>2, <1>3, <1>4 DEF IInv, TypeOK, AfterKept
<1>7. TypeOK'
  BY <1>2, <1>3, <1>4, <1>5 DEF IInv, TypeOK
<1>8. ScopesMatch'
  BY <1>4 DEF IInv, ScopesMatch
<1> QED
  BY <1>5, <1>6, <1>7, <1>8 DEF IInv

\* Steps of requests, listeners and the App, which leave scopes and callbacks alone.
LEMMA OthersSound ==
  ASSUME IInv,
         \/ \E f \in Flows : Arrive(f) \/ Leave(f)
         \/ \E p \in pending : ListenerEnds(p)
         \/ Stop \/ Drained \/ IdleAgain \/ Idle
  PROVE  IInv'
<1>1. UNCHANGED <<lists, writes, begun, after, kept, queued, ran, noted, late, aside, doubted>>
  BY DEF Arrive, Leave, ListenerEnds, Stop, Drained, IdleAgain, Idle, scopes, history
<1>2. pending' \subseteq pending /\ settling' \subseteq settling \cup pending
  BY DEF Arrive, Leave, ListenerEnds, Stop, Drained, IdleAgain, Idle, bus
<1>3. request' \in [Flows -> Requests] /\ app' \in Stages
  BY DEF Arrive, Leave, ListenerEnds, Stop, Drained, IdleAgain, Idle, IInv, TypeOK, Requests, Stages
<1>4. TypeOK'
  BY <1>1, <1>2, <1>3 DEF IInv, TypeOK
<1>5. ScopesMatch' /\ AfterKept' /\ OnlyAfterCommit'
  BY <1>1, <1>2, Announced DEF IInv, ScopesMatch
<1> QED
  BY <1>4, <1>5 DEF IInv

LEMMA CrashSound == ASSUME IInv, Crash PROVE IInv'
<1>1. <<>> \in Seq(Items) /\ <<>> \in Seq(Seq(Items)) /\ <<>> \in Seq(SUBSET Items) /\ Set(<<>>) = {}
  BY DEF Set
<1>2. TypeOK'
  BY <1>1 DEF Crash, IInv, TypeOK, Requests, Stages, history
<1>3. ScopesMatch' /\ AfterKept'
  BY <1>1, ScopedEmpty DEF Crash, ScopesMatch, AfterKept
<1>4. OnlyAfterCommit'
  BY Announced DEF Crash, history
<1> QED
  BY <1>2, <1>3, <1>4 DEF IInv

LEMMA Invariance == Spec => []IInv
<1>1. IInv /\ [Next]_vars => IInv'
  <2>1. ASSUME IInv, Next PROVE IInv'
    <3>1. CASE \E f \in Flows : Arrive(f) \/ Leave(f)
      BY <2>1, <3>1, OthersSound
    <3>2. CASE \E f \in Flows : Begin(f) \/ Release(f) \/ Undo(f)
      BY <2>1, <3>2, BeginSound, ReleaseSound, UndoSound
    <3>3. CASE \E f \in Flows : Commit(f) \/ Rollback(f) \/ CommitUnknown(f)
      BY <2>1, <3>3, EndsSound
    <3>4. CASE \E f \in Flows : RunCallback(f)
      BY <2>1, <3>4, RunCallbackSound
    <3>5. CASE \E f \in Flows, i \in Items : RegisterLate(f, i) \/ \E n \in 1 .. MaxScopes : Register(f, i, n)
      BY <2>1, <3>5, RegisterLateSound, RegisterSound
    <3>6. CASE \E i \in Items : ListenerEmits(i) \/ \E f \in Flows : RunNow(f, i)
      BY <2>1, <3>6, RunNowSound
    <3>7. CASE (\E p \in pending : ListenerEnds(p)) \/ Stop \/ Drained \/ IdleAgain \/ Idle
      BY <2>1, <3>7, OthersSound
    <3>8. CASE Crash
      BY <2>1, <3>8, CrashSound
    <3> QED
      BY <2>1, <3>1, <3>2, <3>3, <3>4, <3>5, <3>6, <3>7, <3>8 DEF Next
  <2>2. IInv /\ UNCHANGED vars => IInv'
    BY DEF IInv, vars, scopes, bus, history, TypeOK, ScopesMatch, AfterKept, OnlyAfterCommit
  <2> QED
    BY <2>1, <2>2
<1> QED
  BY <1>1, InitHolds, PTL DEF Spec

-----------------------------------------------------------------------------
\* The order of callbacks.  An item waits in one place only, and what a flow's scopes and
\* its committed transaction hold, from the outermost scope in, is in the order in which
\* the flow registered it, what a branch registered beside an open savepoint excepted.

NotedBefore(f, a, b) == \E m, n \in DOMAIN noted[f] : m < n /\ noted[f][m] = a /\ noted[f][n] = b

\* <<x, y>>: x may wait in front of y.
MayPrecede(f) == {p \in Items \X Items : p[1] # p[2] /\ (p[1] \in aside \/ ~NotedBefore(f, p[2], p[1]))}

Chained(R, s) == \A k, l \in DOMAIN s : k < l => <<s[k], s[l]>> \in R

Threaded(R, ls) ==
  /\ \A n \in 1 .. Len(ls) : Chained(R, ls[n])
  /\ \A m, n \in 1 .. Len(ls) : m < n => \A x \in Set(ls[m]), y \in Set(ls[n]) : <<x, y>> \in R

Held(ls) == UNION {Set(ls[n]) : n \in 1 .. Len(ls)}

\* The flow that registered an item has it, or has it no more.
Owned ==
  /\ \A f \in Flows : /\ Held(lists[f]) \subseteq Set(noted[f])
                      /\ Set(after[f]) \subseteq Set(noted[f]) \cup late
                      /\ \A m, n \in DOMAIN noted[f] : noted[f][m] = noted[f][n] => m = n
                      /\ Set(noted[f]) \cap late = {}
                      /\ Held(lists[f]) \cap Set(ran) = {}
                      /\ Set(after[f]) \cap Set(ran) = {}
  /\ \A f, g \in Flows : f # g => /\ Set(noted[f]) \cap Set(noted[g]) = {}
                                  /\ Set(after[f]) \cap Set(after[g]) = {}

Lined == \A f \in Flows : Threaded(MayPrecede(f), lists[f]) /\ Chained(MayPrecede(f), after[f])

\* What is registered later than something in an open scope has not run.
OpenFirst ==
  \A f \in Flows : \A m, n \in DOMAIN noted[f] :
    m < n /\ noted[f][m] \in Held(lists[f]) => noted[f][n] \notin Set(ran)

\* Everything committed has run or is about to.
Announcing ==
  app # "crashed" => \A i \in kept \ doubted : i \in Set(ran) \/ \E f \in Flows : i \in Set(after[f])

\* Where there can be callbacks at all.
Idling ==
  /\ \A f \in Flows : /\ lists[f] # <<>> => after[f] = <<>>
                      /\ request[f] # "active" => lists[f] = <<>> /\ after[f] = <<>>
                      /\ app \in {"draining", "closed", "crashed"} => request[f] # "active"
  /\ app \in {"closed", "crashed"} => pending = {}

OrderInv == Owned /\ Lined /\ OpenFirst /\ Announcing /\ Idling /\ InOrder

LEMMA ChainedMono ==
  ASSUME NEW R, NEW Q, NEW s, Chained(R, s),
         \A x, y \in Set(s) : <<x, y>> \in R => <<x, y>> \in Q
  PROVE  Chained(Q, s)
BY DEF Chained, Set

LEMMA ChainedAppend ==
  ASSUME NEW R, NEW S, NEW s \in Seq(S), NEW x \in S, Chained(R, s),
         \A y \in Set(s) : <<y, x>> \in R
  PROVE  Chained(R, Append(s, x))
<1>1. /\ DOMAIN s = 1 .. Len(s) /\ DOMAIN Append(s, x) = 1 .. (Len(s) + 1) /\ Len(s) \in Nat
      /\ Append(s, x)[Len(s) + 1] = x
  OBVIOUS
<1>2. \A n \in 1 .. Len(s) : Append(s, x)[n] = s[n]
  OBVIOUS
<1>3. ASSUME NEW k \in 1 .. (Len(s) + 1), NEW l \in 1 .. (Len(s) + 1), k < l
      PROVE  <<Append(s, x)[k], Append(s, x)[l]>> \in R
  <2>1. k \in 1 .. Len(s) /\ Append(s, x)[k] = s[k] /\ s[k] \in Set(s)
    BY <1>1, <1>2, <1>3 DEF Set
  <2>2. CASE l = Len(s) + 1
    BY <2>1, <2>2, <1>1
  <2>3. CASE l \in 1 .. Len(s)
    BY <2>1, <2>3, <1>1, <1>2, <1>3 DEF Chained
  <2> QED
    BY <2>2, <2>3, <1>1
<1> QED
  BY <1>1, <1>3 DEF Chained

LEMMA ChainedTail ==
  ASSUME NEW R, NEW S, NEW s \in Seq(S), s # <<>>, Chained(R, s)
  PROVE  /\ Chained(R, Tail(s))
         /\ \A y \in Set(Tail(s)) : <<Head(s), y>> \in R
         /\ Set(s) = {Head(s)} \cup Set(Tail(s))
<1>1. /\ Len(s) \in Nat \ {0} /\ Head(s) = s[1] /\ Tail(s) \in Seq(S) /\ Len(Tail(s)) = Len(s) - 1
      /\ DOMAIN s = 1 .. Len(s) /\ DOMAIN Tail(s) = 1 .. (Len(s) - 1)
  OBVIOUS
<1>2. \A n \in 1 .. (Len(s) - 1) : Tail(s)[n] = s[n + 1] /\ n + 1 \in 1 .. Len(s)
  BY <1>1
<1>3. ASSUME NEW k \in 1 .. Len(s) PROVE s[k] \in {Head(s)} \cup Set(Tail(s))
  <2>1. CASE k = 1
    BY <2>1, <1>1
  <2>2. CASE k # 1
    <3>1. k - 1 \in 1 .. (Len(s) - 1) /\ (k - 1) + 1 = k
      BY <2>2, <1>1
    <3>2. Tail(s)[k - 1] = s[k]
      BY <3>1, <1>2
    <3> QED
      BY <3>1, <3>2, <1>1 DEF Set
  <2> QED
    BY <2>1, <2>2
<1>4. ASSUME NEW k \in 1 .. (Len(s) - 1), NEW l \in 1 .. (Len(s) - 1), k < l
      PROVE  <<Tail(s)[k], Tail(s)[l]>> \in R
  <2>1. k + 1 \in 1 .. Len(s) /\ l + 1 \in 1 .. Len(s) /\ k + 1 < l + 1
    BY <1>1, <1>4
  <2> QED
    BY <2>1, <1>1, <1>2 DEF Chained
<1>5. ASSUME NEW k \in 1 .. (Len(s) - 1) PROVE <<Head(s), Tail(s)[k]>> \in R
  <2>1. 1 \in 1 .. Len(s) /\ k + 1 \in 1 .. Len(s) /\ 1 < k + 1
    BY <1>1
  <2> QED
    BY <2>1, <1>1, <1>2 DEF Chained
<1>6. Set(s) \subseteq {Head(s)} \cup Set(Tail(s))
  BY <1>1, <1>3 DEF Set
<1>7. {Head(s)} \cup Set(Tail(s)) \subseteq Set(s)
  BY <1>1, <1>2 DEF Set
<1> QED
  BY <1>1, <1>4, <1>5, <1>6, <1>7 DEF Chained, Set

LEMMA ChainedConcat ==
  ASSUME NEW R, NEW S, NEW s \in Seq(S), NEW t \in Seq(S), Chained(R, s), Chained(R, t),
         \A x \in Set(s), y \in Set(t) : <<x, y>> \in R
  PROVE  Chained(R, s \o t)
<1>1. /\ Len(s) \in Nat /\ Len(t) \in Nat
      /\ DOMAIN s = 1 .. Len(s) /\ DOMAIN t = 1 .. Len(t) /\ DOMAIN (s \o t) = 1 .. (Len(s) + Len(t))
  OBVIOUS
<1>2. \A n \in 1 .. Len(s) : (s \o t)[n] = s[n]
  BY <1>1
<1>3. \A n \in 1 .. (Len(s) + Len(t)) :
        n > Len(s) => n - Len(s) \in 1 .. Len(t) /\ (s \o t)[n] = t[n - Len(s)]
  BY <1>1
<1>4. ASSUME NEW k \in 1 .. (Len(s) + Len(t)), NEW l \in 1 .. (Len(s) + Len(t)), k < l
      PROVE  <<(s \o t)[k], (s \o t)[l]>> \in R
  <2>1. CASE l <= Len(s)
    <3>1. k \in 1 .. Len(s) /\ l \in 1 .. Len(s)
      BY <1>1, <1>4, <2>1
    <3> QED
      BY <3>1, <1>1, <1>2, <1>4 DEF Chained
  <2>2. CASE k <= Len(s) /\ l > Len(s)
    <3>1. k \in 1 .. Len(s) /\ (s \o t)[k] \in Set(s)
      BY <1>1, <1>2, <2>2 DEF Set
    <3>2. (s \o t)[l] \in Set(t)
      BY <1>1, <1>3, <2>2 DEF Set
    <3> QED
      BY <3>1, <3>2
  <2>3. CASE k > Len(s)
    <3>1. l > Len(s) /\ k - Len(s) < l - Len(s)
      BY <1>1, <1>4, <2>3
    <3>2. /\ k - Len(s) \in 1 .. Len(t) /\ (s \o t)[k] = t[k - Len(s)]
          /\ l - Len(s) \in 1 .. Len(t) /\ (s \o t)[l] = t[l - Len(s)]
      BY <1>3, <2>3, <3>1
    <3> QED
      BY <3>1, <3>2, <1>1 DEF Chained
  <2>4. PICK m, first, second : m = Len(s) /\ first = k /\ second = l
    OBVIOUS
  <2>5. m \in Nat /\ first \in Nat /\ second \in Nat
    BY <1>1, <1>4, <2>4
  <2>6. second <= m \/ (first <= m /\ second > m) \/ first > m
    BY <2>5
  <2> QED
    BY <2>1, <2>2, <2>3, <2>4, <2>6, Zenon
<1> QED
  BY <1>1, <1>4 DEF Chained

LEMMA HeldEmpty == Held(<<>>) = {} /\ Set(<<>>) = {}
BY DEF Held, Set

LEMMA ThreadedEmpty == \A R : Threaded(R, <<>>) /\ Chained(R, <<>>)
BY DEF Threaded, Chained

LEMMA ThreadedMono ==
  ASSUME NEW R, NEW Q, NEW ls, Threaded(R, ls),
         \A x, y \in Held(ls) : <<x, y>> \in R => <<x, y>> \in Q
  PROVE  Threaded(Q, ls)
<1>1. ASSUME NEW n \in 1 .. Len(ls) PROVE Chained(Q, ls[n])
  <2>1. Set(ls[n]) \subseteq Held(ls)
    BY DEF Held
  <2> QED
    BY <2>1, ChainedMono DEF Threaded
<1> QED
  BY <1>1 DEF Threaded, Held

LEMMA ThreadedBegin ==
  ASSUME NEW R, NEW ls \in Seq(Seq(Items)), Threaded(R, ls)
  PROVE  Threaded(R, Append(ls, <<>>)) /\ Held(Append(ls, <<>>)) \subseteq Held(ls)
<1> DEFINE A == Append(ls, <<>>)
<1>1. Len(A) = Len(ls) + 1 /\ Len(ls) \in Nat /\ A[Len(ls) + 1] = <<>> /\ \A n \in 1 .. Len(ls) : A[n] = ls[n]
  OBVIOUS
<1>2. Set(<<>>) = {} /\ Chained(R, <<>>)
  BY HeldEmpty, ThreadedEmpty
<1> HIDE DEF A
<1>3. \A n \in 1 .. Len(A) : (n \in 1 .. Len(ls) /\ A[n] = ls[n]) \/ (Set(A[n]) = {} /\ Chained(R, A[n]))
  BY <1>1, <1>2
<1>4. Threaded(R, A)
  BY <1>3 DEF Threaded
<1>5. Held(A) \subseteq Held(ls)
  BY <1>3 DEF Held
<1> QED
  BY <1>4, <1>5 DEF A

LEMMA ThreadedOuter ==
  ASSUME NEW R, NEW ls \in Seq(Seq(Items)), Threaded(R, ls), NEW k \in 0 .. Len(ls)
  PROVE  Threaded(R, SubSeq(ls, 1, k)) /\ Held(SubSeq(ls, 1, k)) \subseteq Held(ls)
<1> DEFINE A == SubSeq(ls, 1, k)
<1>1. Len(A) = k /\ k \in Nat /\ k <= Len(ls) /\ Len(ls) \in Nat
  OBVIOUS
<1>2. \A n \in 1 .. Len(A) : n \in 1 .. Len(ls) /\ A[n] = ls[n]
  BY <1>1
<1> HIDE DEF A
<1>3. Threaded(R, A) /\ Held(A) \subseteq Held(ls)
  BY <1>2 DEF Threaded, Held
<1> QED
  BY <1>3 DEF A

LEMMA ThreadedJoin ==
  ASSUME NEW R, NEW ls \in Seq(Seq(Items)), Threaded(R, ls), Len(ls) > 1
  PROVE  LET j == Append(SubSeq(ls, 1, Len(ls) - 2), ls[Len(ls) - 1] \o ls[Len(ls)])
         IN  Threaded(R, j) /\ Held(j) \subseteq Held(ls)
<1> DEFINE k == Len(ls) - 2
           u == ls[Len(ls) - 1]
           v == ls[Len(ls)]
           A == SubSeq(ls, 1, k)
           j == Append(A, u \o v)
<1>1. /\ Len(ls) \in Nat /\ k \in 0 .. Len(ls) /\ k \in Nat
      /\ Len(ls) = k + 2 /\ k + 1 \in 1 .. Len(ls) /\ k + 2 \in 1 .. Len(ls)
      /\ u = ls[k + 1] /\ v = ls[k + 2] /\ u \in Seq(Items) /\ v \in Seq(Items)
  OBVIOUS
<1> HIDE DEF k, u, v
<1>2. A \in Seq(Seq(Items)) /\ Len(A) = k /\ \A n \in 1 .. k : n \in 1 .. Len(ls) /\ A[n] = ls[n]
  BY <1>1
<1> HIDE DEF A
<1>3. u \o v \in Seq(Items) /\ Set(u \o v) = Set(u) \cup Set(v)
  BY <1>1, SetConcat
<1>4. Chained(R, u) /\ Chained(R, v) /\ \A x \in Set(u), y \in Set(v) : <<x, y>> \in R
  <2>1. k + 1 < k + 2
    BY <1>1
  <2> QED
    BY <2>1, <1>1 DEF Threaded
<1>5. Chained(R, u \o v)
  BY <1>1, <1>4, ChainedConcat
<1>6. Len(j) = k + 1 /\ j[k + 1] = u \o v /\ \A n \in 1 .. k : j[n] = A[n]
  BY <1>1, <1>2, <1>3
<1> HIDE DEF j
<1>7. ASSUME NEW n \in 1 .. k, NEW x \in Set(ls[n]), NEW y \in Set(u) \cup Set(v)
      PROVE  <<x, y>> \in R
  <2>1. n \in 1 .. Len(ls) /\ n < k + 1 /\ n < k + 2
    BY <1>1
  <2>2. CASE y \in Set(u)
    BY <2>1, <2>2, <1>1 DEF Threaded
  <2>3. CASE y \in Set(v)
    BY <2>1, <2>3, <1>1 DEF Threaded
  <2> QED
    BY <2>2, <2>3
<1>8. ASSUME NEW n \in 1 .. (k + 1)
      PROVE  \/ n \in 1 .. k /\ n \in 1 .. Len(ls) /\ j[n] = ls[n]
             \/ n = k + 1 /\ j[n] = u \o v
  <2>1. n \in 1 .. k \/ n = k + 1
    BY <1>1
  <2> QED
    BY <2>1, <1>2, <1>6
<1>9. \A n \in 1 .. Len(j) : Chained(R, j[n])
  BY <1>5, <1>6, <1>8 DEF Threaded
<1>10. ASSUME NEW m \in 1 .. Len(j), NEW n \in 1 .. Len(j), m < n, NEW x \in Set(j[m]), NEW y \in Set(j[n])
       PROVE  <<x, y>> \in R
  <2>1. m \in 1 .. k /\ m \in 1 .. Len(ls) /\ j[m] = ls[m]
    <3>1. m \in 1 .. (k + 1) /\ m # k + 1
      BY <1>1, <1>6, <1>10
    <3> QED
      BY <3>1, <1>8
  <2>2. CASE n \in 1 .. k /\ n \in 1 .. Len(ls) /\ j[n] = ls[n]
    BY <2>1, <2>2, <1>10 DEF Threaded
  <2>3. CASE j[n] = u \o v
    BY <2>1, <2>3, <1>3, <1>7, <1>10
  <2> QED
    BY <2>2, <2>3, <1>6, <1>8
<1>11. Set(u) \cup Set(v) \subseteq Held(ls)
  BY <1>1 DEF Held
<1>12. Held(j) \subseteq Held(ls)
  BY <1>3, <1>11, <1>6, <1>8 DEF Held
<1>13. Threaded(R, j)
  BY <1>9, <1>10 DEF Threaded
<1> QED
  BY <1>12, <1>13 DEF j, A, k, u, v

\* The n-th list of ls has been given an item, and R allows it there.
Grown(ls, n, i, l) ==
  /\ Len(l) = Len(ls) /\ l[n] = Append(ls[n], i)
  /\ \A m \in 1 .. Len(ls) : m # n => l[m] = ls[m]

Fitting(R, ls, n, i) ==
  \A x \in Held(ls) : <<x, i>> \in R /\ (n < Len(ls) => <<i, x>> \in R)

LEMMA ThreadedRegister ==
  ASSUME NEW R, NEW ls \in Seq(Seq(Items)), Threaded(R, ls), NEW n \in 1 .. Len(ls), NEW i \in Items,
         Fitting(R, ls, n, i), NEW l, Grown(ls, n, i, l)
  PROVE  Threaded(R, l) /\ Held(l) \subseteq Held(ls) \cup {i}
<1> USE DEF Fitting
<1>1. ls[n] \in Seq(Items) /\ Len(l) = Len(ls) /\ Len(ls) \in Nat
  BY DEF Grown
<1>2. Set(Append(ls[n], i)) = Set(ls[n]) \cup {i}
  BY <1>1, SetAppend
<1>3. l[n] = Append(ls[n], i) /\ \A m \in 1 .. Len(ls) : m # n => l[m] = ls[m]
  BY DEF Grown
<1>4. \A m \in 1 .. Len(ls) : Set(ls[m]) \subseteq Held(ls)
  BY DEF Held
<1>5. Chained(R, Append(ls[n], i))
  BY <1>1, <1>4, ChainedAppend DEF Threaded
<1>6. \A m \in 1 .. Len(ls) : /\ Chained(R, l[m])
                              /\ Set(l[m]) \subseteq Set(ls[m]) \cup {i}
                              /\ m # n => Set(l[m]) = Set(ls[m])
  BY <1>2, <1>3, <1>5 DEF Threaded
<1>7. ASSUME NEW k \in 1 .. Len(ls), NEW m \in 1 .. Len(ls), k < m, NEW x \in Set(l[k]), NEW y \in Set(l[m])
      PROVE  <<x, y>> \in R
  <2>1. CASE x \in Set(ls[k]) /\ y \in Set(ls[m])
    BY <2>1, <1>7 DEF Threaded
  <2>2. CASE y \notin Set(ls[m])
    <3>1. y = i /\ m = n
      BY <2>2, <1>6, <1>7
    <3>2. k # n
      BY <3>1, <1>7
    <3>3. x \in Held(ls)
      BY <3>2, <1>4, <1>6, <1>7
    <3> QED
      BY <3>1, <3>3
  <2>3. CASE x \notin Set(ls[k]) /\ y \in Set(ls[m])
    <3>1. x = i /\ k = n
      BY <2>3, <1>6, <1>7
    <3>2. n < Len(ls)
      BY <3>1, <1>1, <1>7
    <3> QED
      BY <2>3, <3>1, <3>2, <1>4
  <2> QED
    BY <2>1, <2>2, <2>3
<1>8. Held(l) \subseteq Held(ls) \cup {i}
  BY <1>1, <1>4, <1>6 DEF Held
<1>9. Threaded(R, l)
  BY <1>1, <1>6, <1>7 DEF Threaded
<1> QED
  BY <1>8, <1>9

-----------------------------------------------------------------------------
\* The initial state and the steps, again.

LEMMA OrderInit == Init => OrderInv
<1> SUFFICES ASSUME Init PROVE OrderInv
  OBVIOUS
<1>1. \A f \in Flows : lists[f] = <<>> /\ after[f] = <<>> /\ noted[f] = <<>> /\ request[f] = "new"
  BY DEF Init
<1>2. ran = <<>> /\ kept = {} /\ late = {} /\ pending = {} /\ app = "up"
  BY DEF Init
<1>3. Set(<<>>) = {} /\ Held(<<>>) = {} /\ DOMAIN <<>> = {}
  BY HeldEmpty
<1>4. Owned
  BY <1>1, <1>2, <1>3 DEF Owned
<1>5. Lined
  BY <1>1, ThreadedEmpty DEF Lined
<1>6. OpenFirst /\ Announcing /\ InOrder
  BY <1>1, <1>2, <1>3 DEF OpenFirst, Announcing, InOrder
<1>7. Idling
  BY <1>1, <1>2 DEF Idling
<1> QED
  BY <1>4, <1>5, <1>6, <1>7 DEF OrderInv

\* A step that moves no item: its flow's scopes may end, and hold what they held or less.
LEMMA OrderKept ==
  ASSUME OrderInv, UNCHANGED <<ran, noted, late, aside>>,
         \A f \in Flows : after'[f] \in {after[f], <<>>},
         kept' \ doubted' \subseteq kept \ doubted,
         \A f \in Flows : /\ Held(lists'[f]) \subseteq Held(lists[f])
                          /\ \A R : Threaded(R, lists[f]) => Threaded(R, lists'[f])
  PROVE  Owned' /\ Lined' /\ OpenFirst' /\ InOrder'
<1>1. \A f \in Flows : MayPrecede(f)' = MayPrecede(f)
  BY DEF MayPrecede, NotedBefore
<1>2. \A f \in Flows : Set(after'[f]) \subseteq Set(after[f])
  BY HeldEmpty
<1>3. Owned'
  BY <1>2 DEF OrderInv, Owned
<1>4. Lined'
  BY <1>1, ThreadedEmpty DEF OrderInv, Lined
<1>5. OpenFirst'
  BY DEF OrderInv, OpenFirst
<1>6. InOrder'
  BY DEF OrderInv, InOrder, RanBefore
<1> QED
  BY <1>3, <1>4, <1>5, <1>6

LEMMA AnnouncingKept ==
  ASSUME OrderInv, UNCHANGED <<ran, after>>, kept' \ doubted' \subseteq kept \ doubted,
         app = "crashed" => app' = "crashed"
  PROVE  Announcing'
BY DEF OrderInv, Announcing

LEMMA OrderBegin == ASSUME IInv, OrderInv, NEW f \in Flows, Begin(f) PROVE OrderInv'
<1>1. lists[f] \in Seq(Seq(Items)) /\ lists' = [lists EXCEPT ![f] = Append(@, <<>>)]
  BY DEF Begin, IInv, TypeOK
<1>2. UNCHANGED <<ran, noted, late, aside, after, kept, doubted, app, request, pending>>
  BY DEF Begin, history, bus
<1>3. /\ Held(Append(lists[f], <<>>)) \subseteq Held(lists[f])
      /\ \A R : Threaded(R, lists[f]) => Threaded(R, Append(lists[f], <<>>))
  <2>1. Threaded(MayPrecede(f), lists[f])
    BY DEF OrderInv, Lined
  <2> QED
    BY <2>1, <1>1, ThreadedBegin
<1>4. \A g \in Flows : /\ Held(lists'[g]) \subseteq Held(lists[g])
                       /\ \A R : Threaded(R, lists[g]) => Threaded(R, lists'[g])
  BY <1>1, <1>3 DEF IInv, TypeOK
<1>5. Owned' /\ Lined' /\ OpenFirst' /\ InOrder'
  BY <1>2, <1>4, OrderKept
<1>6. Announcing'
  BY <1>2, AnnouncingKept
<1>7. Idling'
  BY <1>1, <1>2 DEF Begin, OrderInv, Idling, IInv, TypeOK
<1> QED
  BY <1>5, <1>6, <1>7 DEF OrderInv

\* A savepoint holds, or does not.
LEMMA OrderSavepoint ==
  ASSUME IInv, OrderInv, NEW f \in Flows, Release(f) \/ Undo(f)
  PROVE  OrderInv'
<1> DEFINE ls == lists'[f]
<1>1. lists[f] \in Seq(Seq(Items)) /\ Len(lists[f]) > 1 /\ Len(lists[f]) \in Nat
  BY DEF Release, Undo, Depth, IInv, TypeOK
<1>2. lists' = [lists EXCEPT ![f] = ls] /\ ls \in {Joined(f), Dropped(f)}
  BY DEF Release, Undo, IInv, TypeOK
<1>3. UNCHANGED <<ran, noted, late, aside, after, kept, doubted, app, request, pending>>
  BY DEF Release, Undo, history, bus
<1>4. Threaded(MayPrecede(f), lists[f])
  BY DEF OrderInv, Lined
<1>5. Len(lists[f]) - 1 \in 0 .. Len(lists[f])
  BY <1>1
<1>6. \A R : Threaded(R, lists[f]) => Threaded(R, Joined(f)) /\ Held(Joined(f)) \subseteq Held(lists[f])
  BY <1>1, ThreadedJoin DEF Joined, Depth
<1>7. \A R : Threaded(R, lists[f]) => Threaded(R, Dropped(f)) /\ Held(Dropped(f)) \subseteq Held(lists[f])
  BY <1>1, <1>5, ThreadedOuter DEF Dropped, Outer
<1> HIDE DEF ls
<1>8. \A g \in Flows : /\ Held(lists'[g]) \subseteq Held(lists[g])
                       /\ \A R : Threaded(R, lists[g]) => Threaded(R, lists'[g])
  BY <1>2, <1>4, <1>6, <1>7 DEF IInv, TypeOK
<1>9. Owned' /\ Lined' /\ OpenFirst' /\ InOrder'
  BY <1>3, <1>8, OrderKept
<1>10. Announcing'
  BY <1>3, AnnouncingKept
<1>11. lists[f] # <<>>
  BY <1>1
<1>12. Idling'
  BY <1>2, <1>3, <1>11 DEF OrderInv, Idling, IInv, TypeOK
<1> QED
  BY <1>9, <1>10, <1>12 DEF OrderInv

LEMMA ListsEnded ==
  ASSUME IInv, NEW f \in Flows, Ends(f)
  PROVE  /\ lists[f] # <<>> /\ Held(lists[f]) = writes[f][1] /\ Set(lists[f][1]) = writes[f][1]
         /\ \A R : Threaded(R, lists[f]) => Chained(R, lists[f][1])
         /\ \A g \in Flows : /\ Held(lists'[g]) \subseteq Held(lists[g])
                             /\ g # f => lists'[g] = lists[g]
                             /\ \A R : Threaded(R, lists[g]) => Threaded(R, lists'[g])
         /\ lists'[f] = <<>> /\ Held(lists'[f]) = {}
<1>1. Len(lists[f]) = 1 /\ lists' = [lists EXCEPT ![f] = <<>>] /\ lists \in [Flows -> Seq(Seq(Items))]
  BY DEF Ends, Depth, IInv, TypeOK
<1>2. \A n \in 1 .. 1 : Set(lists[f][n]) = writes[f][n]
  BY <1>1 DEF IInv, ScopesMatch, Scoped
<1>3. Set(lists[f][1]) = writes[f][1] /\ 1 .. 1 = {1}
  BY <1>2
<1>4. Held(lists[f]) = writes[f][1]
  BY <1>1, <1>3 DEF Held
<1>5. lists'[f] = <<>> /\ \A g \in Flows : g # f => lists'[g] = lists[g]
  BY <1>1
<1>6. lists[f] # <<>>
  <2>1. Depth(f) = 0 \/ lists[f] # <<>>
    BY DEF Depth
  <2> QED
    BY <2>1 DEF Ends
<1>7. \A R : Threaded(R, lists[f]) => Chained(R, lists[f][1])
  BY <1>1 DEF Threaded
<1> QED
  BY <1>3, <1>4, <1>5, <1>6, <1>7, HeldEmpty, ThreadedEmpty

LEMMA OrderRollback ==
  ASSUME IInv, OrderInv, NEW f \in Flows, Rollback(f) \/ CommitUnknown(f)
  PROVE  OrderInv'
<1>1. Ends(f) /\ after' = after /\ kept' \ doubted' \subseteq kept \ doubted
  BY DEF Rollback, CommitUnknown
<1>2. UNCHANGED <<ran, noted, late, aside, app, request, pending>>
  BY <1>1 DEF Ends, history, bus
<1>3. Owned' /\ Lined' /\ OpenFirst' /\ InOrder'
  BY <1>1, <1>2, ListsEnded, OrderKept
<1>4. Announcing'
  BY <1>1, <1>2, AnnouncingKept
<1>5. Idling'
  BY <1>1, <1>2, ListsEnded DEF OrderInv, Idling
<1> QED
  BY <1>3, <1>4, <1>5 DEF OrderInv

LEMMA OrderCommit == ASSUME IInv, OrderInv, NEW f \in Flows, Commit(f) PROVE OrderInv'
<1>1. /\ Ends(f) /\ after' = [after EXCEPT ![f] = lists[f][1]] /\ kept' = kept \cup writes[f][1]
      /\ doubted' = doubted /\ after \in [Flows -> Seq(Items)]
  BY DEF Commit, IInv, TypeOK
<1>2. UNCHANGED <<ran, noted, late, aside, app, request, pending>>
  BY <1>1 DEF Ends, history, bus
<1>3. after[f] = <<>> /\ request[f] = "active"
  BY <1>1, ListsEnded DEF OrderInv, Idling
<1>4. /\ after'[f] = lists[f][1] /\ Set(after'[f]) = Held(lists[f])
      /\ \A g \in Flows : g # f => after'[g] = after[g]
  BY <1>1, ListsEnded
<1>5. kept' = kept \cup Held(lists[f])
  BY <1>1, ListsEnded
<1>6. \A g \in Flows : Held(lists'[g]) \subseteq Held(lists[g])
  BY <1>1, ListsEnded
<1>7. Owned'
  <2>1. \A g, h \in Flows : g # h => Set(after'[g]) \cap Set(after'[h]) = {}
    <3>1. ASSUME NEW g \in Flows, g # f PROVE Held(lists[f]) \cap Set(after[g]) = {}
      <4>1. Held(lists[f]) \subseteq Set(noted[f]) /\ Set(after[g]) \subseteq Set(noted[g]) \cup late
        BY DEF OrderInv, Owned
      <4>2. Set(noted[f]) \cap Set(noted[g]) = {} /\ Set(noted[f]) \cap late = {}
        BY <3>1 DEF OrderInv, Owned
      <4> QED
        BY <4>1, <4>2
    <3> QED
      BY <1>4, <3>1 DEF OrderInv, Owned
  <2>2. \A g \in Flows : Set(after'[g]) \subseteq Set(noted[g]) \cup late /\ Set(after'[g]) \cap Set(ran) = {}
    BY <1>4 DEF OrderInv, Owned
  <2> QED
    BY <1>2, <1>6, <2>1, <2>2 DEF OrderInv, Owned
<1>8. Lined'
  <2>1. \A g \in Flows : MayPrecede(g)' = MayPrecede(g)
    BY <1>2 DEF MayPrecede, NotedBefore
  <2>2. \A g \in Flows : Threaded(MayPrecede(g), lists'[g])
    BY <1>1, ListsEnded DEF OrderInv, Lined
  <2>3. \A g \in Flows : Chained(MayPrecede(g), after'[g])
    BY <1>1, <1>4, ListsEnded DEF OrderInv, Lined
  <2> QED
    BY <2>1, <2>2, <2>3 DEF Lined
<1>9. OpenFirst'
  BY <1>2, <1>6 DEF OrderInv, OpenFirst
<1>10. Announcing'
  <2>1. ASSUME app # "crashed", NEW i \in kept' \ doubted
        PROVE  i \in Set(ran) \/ \E g \in Flows : i \in Set(after'[g])
    <3>1. CASE i \in Held(lists[f])
      BY <3>1, <1>4
    <3>2. CASE i \in kept
      <4>1. i \in Set(ran) \/ \E g \in Flows : i \in Set(after[g])
        BY <2>1, <3>2 DEF OrderInv, Announcing
      <4> QED
        BY <4>1, <1>3, <1>4, HeldEmpty
    <3> QED
      BY <2>1, <3>1, <3>2, <1>5
  <2> QED
    BY <2>1, <1>1, <1>2 DEF Announcing
<1>11. Idling'
  BY <1>1, <1>2, <1>3, <1>4, ListsEnded DEF OrderInv, Idling
<1>12. InOrder'
  <2>1. ASSUME NEW g \in Flows, NEW m \in DOMAIN noted[g], NEW n \in DOMAIN noted[g],
               m < n, noted[g][n] \in Set(ran) \ aside, noted[g][m] \in kept' \ doubted
        PROVE  RanBefore(noted[g][m], noted[g][n])
    <3>1. CASE noted[g][m] \in kept
      BY <2>1, <3>1 DEF OrderInv, InOrder
    <3>2. CASE noted[g][m] \in Held(lists[f])
      <4>1. noted[g][m] \in Set(noted[g]) /\ noted[g][m] \in Set(noted[f])
        BY <3>2 DEF OrderInv, Owned, Set
      <4>2. g = f
        BY <4>1 DEF OrderInv, Owned
      <4> QED
        BY <2>1, <3>2, <4>2 DEF OrderInv, OpenFirst
    <3> QED
      BY <2>1, <3>1, <3>2, <1>5
  <2> QED
    BY <2>1, <1>1, <1>2 DEF InOrder, OrderInv, RanBefore
<1> QED
  BY <1>7, <1>8, <1>9, <1>10, <1>11, <1>12 DEF OrderInv

\* What it means to append to what is noted.
LEMMA NotedAppend ==
  ASSUME TypeOK, NEW f \in Flows, NEW i \in Items, noted' = [noted EXCEPT ![f] = Append(@, i)],
         i \notin Set(noted[f])
  PROVE  /\ Set(noted'[f]) = Set(noted[f]) \cup {i}
         /\ \A g \in Flows : g # f => noted'[g] = noted[g]
<1>1. noted[f] \in Seq(Items) /\ noted'[f] = Append(noted[f], i)
  BY DEF TypeOK
<1> QED
  BY <1>1, SetAppend DEF TypeOK

\* t is s and another item.
Longer(s, i, t) ==
  \A m, n \in DOMAIN t :
    /\ m < n => /\ m \in DOMAIN s /\ t[m] = s[m] /\ s[m] # i
                /\ (n \in DOMAIN s /\ t[n] = s[n]) \/ t[n] = i
    /\ t[m] = t[n] => m = n \/ (m \in DOMAIN s /\ n \in DOMAIN s /\ s[m] = s[n])

LEMMA NotedPair ==
  ASSUME NEW s \in Seq(Items), NEW i \in Items, i \notin Set(s)
  PROVE  Longer(s, i, Append(s, i))
<1> DEFINE t == Append(s, i)
<1>1. /\ Len(s) \in Nat /\ DOMAIN s = 1 .. Len(s) /\ DOMAIN t = 1 .. (Len(s) + 1)
      /\ t[Len(s) + 1] = i
  OBVIOUS
<1>2. \A k \in 1 .. Len(s) : t[k] = s[k] /\ s[k] # i
  <2>1. \A k \in 1 .. Len(s) : t[k] = s[k]
    OBVIOUS
  <2> QED
    BY <2>1, <1>1 DEF Set
<1> HIDE DEF t
<1>3. ASSUME NEW m \in DOMAIN t, NEW n \in DOMAIN t
      PROVE  /\ m < n => /\ m \in DOMAIN s /\ t[m] = s[m] /\ s[m] # i
                         /\ (n \in DOMAIN s /\ t[n] = s[n]) \/ t[n] = i
             /\ t[m] = t[n] => m = n \/ (m \in DOMAIN s /\ n \in DOMAIN s /\ s[m] = s[n])
  <2>1. m \in 1 .. Len(s) \/ m = Len(s) + 1
    BY <1>1
  <2>2. n \in 1 .. Len(s) \/ n = Len(s) + 1
    BY <1>1
  <2>3. m < n => m \in 1 .. Len(s)
    BY <1>1, <2>1, <2>2
  <2> QED
    BY <1>1, <1>2, <2>1, <2>2, <2>3
<1>4. Longer(s, i, t)
  BY <1>3 DEF Longer
<1> QED
  BY <1>4 DEF t

LEMMA UnusedFacts ==
  ASSUME NEW i, Unused(i)
  PROVE  i \notin late /\ i \notin Set(ran) /\ \A f \in Flows : i \notin Set(noted[f])
BY DEF Unused

LEMMA OrderRegister ==
  ASSUME IInv, OrderInv, NEW f \in Flows, NEW i \in Items, NEW n, Register(f, i, n)
  PROVE  OrderInv'
<1> DEFINE ls == lists'[f]
<1>1. /\ Unused(i) /\ n \in 1 .. Len(lists[f]) /\ lists[f] \in Seq(Seq(Items))
      /\ ls = [lists[f] EXCEPT ![n] = Append(@, i)]
      /\ \A g \in Flows : g # f => lists'[g] = lists[g]
  BY DEF Register, Depth, IInv, TypeOK
<1>2. UNCHANGED <<request, after, pending, app, kept, ran, late, doubted>>
  BY DEF Register, bus
<1>3. /\ noted' = [noted EXCEPT ![f] = Append(@, i)]
      /\ aside' = IF n < Len(lists[f]) THEN aside \cup {i} ELSE aside
  BY DEF Register, Depth
<1>4. i \notin late /\ i \notin Set(ran) /\ \A g \in Flows : i \notin Set(noted[g])
  BY <1>1, UnusedFacts
<1>5. TypeOK
  BY DEF IInv
<1>6. /\ Set(noted'[f]) = Set(noted[f]) \cup {i}
      /\ \A g \in Flows : g # f => noted'[g] = noted[g]
  BY <1>3, <1>4, <1>5, NotedAppend
<1>7. Longer(noted[f], i, noted'[f])
  <2>1. noted[f] \in Seq(Items) /\ noted'[f] = Append(noted[f], i) /\ i \notin Set(noted[f])
    BY <1>3, <1>4, <1>5 DEF TypeOK
  <2> QED
    BY <2>1, NotedPair
<1>8. \A k, l \in DOMAIN noted'[f] : noted'[f][k] = noted'[f][l] => k = l
  <2>1. \A k, l \in DOMAIN noted[f] : noted[f][k] = noted[f][l] => k = l
    BY DEF OrderInv, Owned
  <2> QED
    BY <2>1, <1>7 DEF Longer
<1>9. \A g \in Flows : i \notin Held(lists[g]) /\ i \notin Set(after[g])
  BY <1>4 DEF OrderInv, Owned
<1>10. \A x \in Items : NotedBefore(f, i, x)' = FALSE
  BY <1>7 DEF NotedBefore, Longer
<1>11. ASSUME NEW g \in Flows, NEW x, NEW y, <<x, y>> \in MayPrecede(g), x # i
       PROVE  <<x, y>> \in MayPrecede(g)'
  <2>1. x \in Items /\ y \in Items /\ x # y /\ (x \in aside \/ ~NotedBefore(g, y, x))
    BY <1>11 DEF MayPrecede
  <2>2. x \in aside => x \in aside'
    BY <1>3
  <2>3. ~NotedBefore(g, y, x) => ~NotedBefore(g, y, x)'
    <3>1. CASE g = f
      BY <3>1, <1>7, <1>11 DEF NotedBefore, Longer
    <3>2. CASE g # f
      BY <3>2, <1>6 DEF NotedBefore
    <3> QED
      BY <3>1, <3>2
  <2> QED
    BY <2>1, <2>2, <2>3 DEF MayPrecede
<1>12. \A x \in Items : x # i => <<x, i>> \in MayPrecede(f)'
  BY <1>10 DEF MayPrecede
<1>13. n < Len(lists[f]) => \A x \in Items : x # i => <<i, x>> \in MayPrecede(f)'
  BY <1>3 DEF MayPrecede
<1>14. Held(lists[f]) \subseteq Items
  <2>1. Held(lists[f]) \subseteq Set(noted[f]) /\ noted[f] \in Seq(Items)
    BY DEF OrderInv, Owned, IInv, TypeOK
  <2>2. Set(noted[f]) \subseteq Items
    BY <2>1 DEF Set
  <2> QED
    BY <2>1, <2>2
<1>15. Threaded(MayPrecede(f)', lists[f])
  <2>1. Threaded(MayPrecede(f), lists[f])
    BY DEF OrderInv, Lined
  <2>2. \A x, y \in Held(lists[f]) : <<x, y>> \in MayPrecede(f) => <<x, y>> \in MayPrecede(f)'
    BY <1>9, <1>11
  <2> QED
    BY <2>1, <2>2, ThreadedMono
<1>16. Threaded(MayPrecede(f)', ls) /\ Held(ls) \subseteq Held(lists[f]) \cup {i}
  <2>1. \A x \in Held(lists[f]) : <<x, i>> \in MayPrecede(f)'
    BY <1>9, <1>12, <1>14
  <2>2. n < Len(lists[f]) => \A x \in Held(lists[f]) : <<i, x>> \in MayPrecede(f)'
    BY <1>9, <1>13, <1>14
  <2> QED
    <3>1. Grown(lists[f], n, i, ls)
      BY <1>1 DEF Grown
    <3>2. Fitting(MayPrecede(f)', lists[f], n, i)
      BY <2>1, <2>2 DEF Fitting
    <3>3. lists[f] \in Seq(Seq(Items)) /\ n \in 1 .. Len(lists[f])
      BY <1>1
    <3> HIDE DEF ls
    <3> QED
      BY <3>1, <3>2, <3>3, <1>15, ThreadedRegister
<1> HIDE DEF ls
<1>17. Lined'
  <2>1. \A g \in Flows : Chained(MayPrecede(g)', after[g])
    <3>1. \A g \in Flows : Chained(MayPrecede(g), after[g])
      BY DEF OrderInv, Lined
    <3>2. \A g \in Flows : \A x, y \in Set(after[g]) :
            <<x, y>> \in MayPrecede(g) => <<x, y>> \in MayPrecede(g)'
      BY <1>9, <1>11
    <3> QED
      BY <3>1, <3>2, ChainedMono
  <2>2. \A g \in Flows : g # f => Threaded(MayPrecede(g)', lists[g])
    <3>1. \A g \in Flows : Threaded(MayPrecede(g), lists[g])
      BY DEF OrderInv, Lined
    <3>2. \A g \in Flows : \A x, y \in Held(lists[g]) :
            <<x, y>> \in MayPrecede(g) => <<x, y>> \in MayPrecede(g)'
      BY <1>9, <1>11
    <3> QED
      BY <3>1, <3>2, ThreadedMono
  <2> QED
    BY <2>1, <2>2, <1>1, <1>2, <1>16 DEF Lined, ls
<1>18. Owned'
  <2>1. \A g \in Flows : Held(lists'[g]) \subseteq Set(noted'[g]) /\ Held(lists'[g]) \cap Set(ran) = {}
    <3>1. \A g \in Flows : Held(lists[g]) \subseteq Set(noted[g]) /\ Held(lists[g]) \cap Set(ran) = {}
      BY DEF OrderInv, Owned
    <3>2. Held(lists'[f]) \subseteq Held(lists[f]) \cup {i}
      BY <1>16 DEF ls
    <3>3. ASSUME NEW g \in Flows, g # f
          PROVE  Held(lists'[g]) \subseteq Set(noted'[g]) /\ Held(lists'[g]) \cap Set(ran) = {}
      BY <3>1, <3>3, <1>1, <1>6
    <3>4. Held(lists'[f]) \subseteq Set(noted'[f]) /\ Held(lists'[f]) \cap Set(ran) = {}
      BY <3>1, <3>2, <1>4, <1>6
    <3> QED
      BY <3>3, <3>4
  <2>2. \A g \in Flows : Set(after[g]) \subseteq Set(noted'[g]) \cup late /\ Set(noted'[g]) \cap late = {}
    BY <1>4, <1>6 DEF OrderInv, Owned
  <2>3. \A g \in Flows : \A k, l \in DOMAIN noted'[g] : noted'[g][k] = noted'[g][l] => k = l
    BY <1>6, <1>8 DEF OrderInv, Owned
  <2>4. \A g, h \in Flows : g # h => Set(noted'[g]) \cap Set(noted'[h]) = {}
    BY <1>4, <1>6 DEF OrderInv, Owned
  <2> QED
    BY <2>1, <2>2, <2>3, <2>4, <1>2 DEF OrderInv, Owned
<1>19. OpenFirst'
  <2>1. ASSUME NEW g \in Flows, NEW k \in DOMAIN noted'[g], NEW l \in DOMAIN noted'[g],
               k < l, noted'[g][k] \in Held(lists'[g])
        PROVE  noted'[g][l] \notin Set(ran)
    <3>1. CASE g # f
      BY <2>1, <3>1, <1>1, <1>6 DEF OrderInv, OpenFirst
    <3>2. CASE g = f
      <4>1. /\ k \in DOMAIN noted[f] /\ noted'[f][k] = noted[f][k] /\ noted[f][k] # i
            /\ \/ l \in DOMAIN noted[f] /\ noted'[f][l] = noted[f][l]
               \/ noted'[f][l] = i
        BY <2>1, <3>2, <1>7 DEF Longer
      <4>2. noted[f][k] \in Held(lists[f])
        BY <2>1, <3>2, <4>1, <1>16 DEF ls
      <4> QED
        BY <2>1, <3>2, <4>1, <4>2, <1>4 DEF OrderInv, OpenFirst
    <3> QED
      BY <3>1, <3>2
  <2> QED
    BY <2>1, <1>2 DEF OpenFirst
<1>20. Announcing'
  BY <1>2, AnnouncingKept
<1>21. Idling'
  <2>1. lists[f] # <<>>
    <3>1. Len(<<>>) = 0 /\ Len(lists[f]) \in Nat /\ Len(lists[f]) >= 1
      BY <1>1
    <3> QED
      BY <3>1
  <2> QED
    BY <2>1, <1>1, <1>2 DEF OrderInv, Idling
<1>22. InOrder'
  <2>1. ASSUME NEW g \in Flows, NEW k \in DOMAIN noted'[g], NEW l \in DOMAIN noted'[g],
               k < l, noted'[g][l] \in Set(ran) \ aside', noted'[g][k] \in kept \ doubted
        PROVE  RanBefore(noted'[g][k], noted'[g][l])
    <3>1. aside \subseteq aside'
      BY <1>3
    <3>2. CASE g # f
      BY <2>1, <3>1, <3>2, <1>6 DEF OrderInv, InOrder
    <3>3. CASE g = f
      <4>1. /\ k \in DOMAIN noted[f] /\ noted'[f][k] = noted[f][k]
            /\ \/ l \in DOMAIN noted[f] /\ noted'[f][l] = noted[f][l]
               \/ noted'[f][l] = i
        BY <2>1, <3>3, <1>7 DEF Longer
      <4>2. l \in DOMAIN noted[f] /\ noted'[f][l] = noted[f][l]
        BY <2>1, <3>3, <4>1, <1>4
      <4> QED
        BY <2>1, <3>1, <3>3, <4>1, <4>2 DEF OrderInv, InOrder
    <3> QED
      BY <3>2, <3>3
  <2>2. \A k, l \in DOMAIN ran : ran[k] = ran[l] => k = l
    BY DEF OrderInv, InOrder
  <2> QED
    BY <2>1, <2>2, <1>2 DEF InOrder, RanBefore
<1> QED
  BY <1>17, <1>18, <1>19, <1>20, <1>21, <1>22 DEF OrderInv

LEMMA OrderRegisterLate ==
  ASSUME IInv, OrderInv, NEW f \in Flows, NEW i \in Items, RegisterLate(f, i)
  PROVE  OrderInv'
<1>1. Unused(i) /\ late' = late \cup {i} /\ after[f] \in Seq(Items)
  BY DEF RegisterLate, IInv, TypeOK
<1>2. UNCHANGED <<request, lists, pending, app, kept, ran, noted, aside, doubted>>
  BY DEF RegisterLate, scopes, bus
<1>3. i \notin late /\ i \notin Set(ran) /\ \A g \in Flows : i \notin Set(noted[g])
  BY <1>1, UnusedFacts
<1>4. \A g \in Flows : i \notin Set(after[g]) /\ i \notin Held(lists[g])
  BY <1>3 DEF OrderInv, Owned
<1>5. \A g \in Flows : MayPrecede(g)' = MayPrecede(g)
  BY <1>2 DEF MayPrecede, NotedBefore
<1>6. \/ after' = after
      \/ /\ after[f] # <<>>
         /\ after'[f] = Append(after[f], i) /\ \A g \in Flows : g # f => after'[g] = after[g]
  BY DEF RegisterLate, IInv, TypeOK
<1>7. Set(Append(after[f], i)) = Set(after[f]) \cup {i}
  BY <1>1, SetAppend
<1>8. Chained(MayPrecede(f), Append(after[f], i))
  <2>1. ASSUME NEW x \in Set(after[f]) PROVE <<x, i>> \in MayPrecede(f)
    <3>1. x \in Items /\ x # i
      BY <1>1, <1>4 DEF Set
    <3>2. ~NotedBefore(f, i, x)
      BY <1>3 DEF NotedBefore, Set
    <3> QED
      BY <3>1, <3>2 DEF MayPrecede
  <2> QED
    BY <2>1, <1>1, ChainedAppend DEF OrderInv, Lined
<1>9. Lined'
  BY <1>2, <1>5, <1>6, <1>8 DEF OrderInv, Lined
<1>10. Owned'
  <2>1. /\ \A g \in Flows : Set(after'[g]) \subseteq Set(after[g]) \cup {i}
        /\ \A g \in Flows : g # f => Set(after'[g]) = Set(after[g])
    BY <1>6, <1>7
  <2>2. \A g, h \in Flows : g # h => Set(after'[g]) \cap Set(after'[h]) = {}
    BY <2>1, <1>4 DEF OrderInv, Owned
  <2>3. \A g \in Flows : Set(after'[g]) \subseteq Set(noted[g]) \cup late' /\ Set(after'[g]) \cap Set(ran) = {}
    BY <2>1, <1>1, <1>3 DEF OrderInv, Owned
  <2> QED
    <3>1. \A g \in Flows : Set(noted[g]) \cap late' = {}
      BY <1>1, <1>3 DEF OrderInv, Owned
    <3> QED
      BY <2>2, <2>3, <3>1, <1>2 DEF OrderInv, Owned
<1>11. OpenFirst' /\ InOrder'
  BY <1>2 DEF OrderInv, OpenFirst, InOrder, RanBefore
<1>12. Announcing'
  BY <1>2, <1>6, <1>7 DEF OrderInv, Announcing
<1>13. Idling'
  BY <1>2, <1>6 DEF OrderInv, Idling
<1> QED
  BY <1>9, <1>10, <1>11, <1>12, <1>13 DEF OrderInv

\* What a run of an item adds to what ran.
LEMMA RanAppend ==
  ASSUME TypeOK, NEW i \in Items, ran' = Append(ran, i), i \notin Set(ran),
         \A m, n \in DOMAIN ran : ran[m] = ran[n] => m = n
  PROVE  /\ Set(ran') = Set(ran) \cup {i}
         /\ \A m, n \in DOMAIN ran' : ran'[m] = ran'[n] => m = n
         /\ \A a, b : RanBefore(a, b) => RanBefore(a, b)'
         /\ \A a \in Set(ran) : RanBefore(a, i)'
<1>1. ran \in Seq(Items) /\ Set(ran') = Set(ran) \cup {i}
  BY SetAppend DEF TypeOK
<1>2. /\ Len(ran) \in Nat /\ DOMAIN ran = 1 .. Len(ran) /\ DOMAIN ran' = 1 .. (Len(ran) + 1)
      /\ ran'[Len(ran) + 1] = i
  BY <1>1
<1>3. \A n \in 1 .. Len(ran) : ran'[n] = ran[n] /\ ran[n] # i /\ n < Len(ran) + 1
  <2>1. \A n \in 1 .. Len(ran) : ran'[n] = ran[n] /\ n < Len(ran) + 1
    BY <1>1
  <2> QED
    BY <2>1, <1>2 DEF Set
<1>4. \A n \in 1 .. (Len(ran) + 1) : n \in 1 .. Len(ran) \/ n = Len(ran) + 1
  BY <1>2
<1>5. \A n \in 1 .. Len(ran) : n \in 1 .. (Len(ran) + 1)
  BY <1>2
<1>6. Len(ran) + 1 \in 1 .. (Len(ran) + 1)
  BY <1>2
<1>7. \A m, n \in DOMAIN ran' : ran'[m] = ran'[n] => m = n
  BY <1>2, <1>3, <1>4
<1>8. \A a, b : RanBefore(a, b) => RanBefore(a, b)'
  BY <1>2, <1>3, <1>5 DEF RanBefore
<1>9. ASSUME NEW a \in Set(ran) PROVE RanBefore(a, i)'
  <2>1. PICK k \in 1 .. Len(ran) : ran[k] = a
    BY <1>2 DEF Set
  <2> QED
    BY <2>1, <1>2, <1>3, <1>5, <1>6 DEF RanBefore
<1> QED
  BY <1>1, <1>7, <1>8, <1>9

LEMMA OrderRunNow ==
  ASSUME IInv, OrderInv, NEW i \in Items, (\E f \in Flows : RunNow(f, i)) \/ ListenerEmits(i)
  PROVE  OrderInv'
<1>1. /\ Unused(i) /\ ran' = Append(ran, i) /\ kept' = kept \cup {i}
      /\ UNCHANGED <<request, scopes, after, app, settling, history, doubted>>
  BY DEF RunNow, ListenerEmits, RunsItem
<1>2. UNCHANGED <<request, lists, after, app, noted, late, aside, doubted>>
  BY <1>1 DEF scopes, history
<1>3. i \notin late /\ i \notin Set(ran) /\ \A g \in Flows : i \notin Set(noted[g])
  BY <1>1, UnusedFacts
<1>4. app \notin {"closed", "crashed"}
  BY DEF RunNow, ListenerEmits, OrderInv, Idling
<1>5. TypeOK /\ \A m, n \in DOMAIN ran : ran[m] = ran[n] => m = n
  BY DEF IInv, OrderInv, InOrder
<1>6. /\ Set(ran') = Set(ran) \cup {i}
      /\ \A m, n \in DOMAIN ran' : ran'[m] = ran'[n] => m = n
      /\ \A a, b : RanBefore(a, b) => RanBefore(a, b)'
  BY <1>1, <1>3, <1>5, RanAppend
<1>7. \A g \in Flows : i \notin Set(after[g]) /\ i \notin Held(lists[g])
  BY <1>3 DEF OrderInv, Owned
<1>8. Owned'
  <2>1. \A g \in Flows : Held(lists[g]) \cap Set(ran') = {} /\ Set(after[g]) \cap Set(ran') = {}
    BY <1>6, <1>7 DEF OrderInv, Owned
  <2> QED
    BY <2>1, <1>2 DEF OrderInv, Owned
<1>9. Lined'
  <2>1. \A g \in Flows : MayPrecede(g)' = MayPrecede(g)
    BY <1>2 DEF MayPrecede, NotedBefore
  <2> QED
    BY <2>1, <1>2 DEF OrderInv, Lined
<1>10. \A g \in Flows : \A n \in DOMAIN noted[g] : noted[g][n] # i /\ (noted[g][n] \in Set(ran') => noted[g][n] \in Set(ran))
  BY <1>3, <1>6 DEF Set
<1>11. OpenFirst'
  BY <1>2, <1>10 DEF OrderInv, OpenFirst
<1>12. Announcing'
  BY <1>1, <1>2, <1>6 DEF OrderInv, Announcing
<1>13. Idling'
  BY <1>2, <1>4 DEF OrderInv, Idling
<1>14. InOrder'
  BY <1>1, <1>2, <1>6, <1>10 DEF OrderInv, InOrder
<1> QED
  BY <1>8, <1>9, <1>11, <1>12, <1>13, <1>14 DEF OrderInv

LEMMA OrderRunCallback ==
  ASSUME IInv, OrderInv, NEW f \in Flows, RunCallback(f), NEW i, i = Head(after[f])
  PROVE  OrderInv'
<1>1. /\ after[f] \in Seq(Items) /\ after[f] # <<>> /\ ran' = Append(ran, i)
      /\ after'[f] = Tail(after[f]) /\ \A g \in Flows : g # f => after'[g] = after[g]
      /\ UNCHANGED <<request, scopes, app, settling, kept, history, doubted>>
  BY DEF RunCallback, RunsItem, IInv, TypeOK
<1>2. UNCHANGED <<request, lists, app, kept, noted, late, aside, doubted>>
  BY <1>1 DEF scopes, history
<1>3. /\ Chained(MayPrecede(f), Tail(after[f]))
      /\ \A y \in Set(Tail(after[f])) : <<i, y>> \in MayPrecede(f)
      /\ Set(after[f]) = {i} \cup Set(Tail(after[f]))
  BY <1>1, ChainedTail DEF OrderInv, Lined
<1>4. i \in Items
  BY <1>1
<1>5. lists[f] = <<>> /\ app \notin {"closed", "crashed"}
  BY <1>1 DEF OrderInv, Idling
<1>6. i \notin Set(ran) /\ i \in Set(noted[f]) \cup late
  BY <1>3 DEF OrderInv, Owned
<1>7. \A g \in Flows : g # f => i \notin Set(noted[g]) /\ i \notin Set(after[g])
  BY <1>3, <1>6 DEF OrderInv, Owned
<1>8. i \notin Set(Tail(after[f]))
  BY <1>3 DEF MayPrecede
<1>9. \A g \in Flows : i \notin Held(lists[g])
  BY <1>5, <1>7, HeldEmpty DEF OrderInv, Owned
<1>10. TypeOK /\ (\A m, n \in DOMAIN ran : ran[m] = ran[n] => m = n) /\ ran' = Append(ran, i)
  BY <1>1 DEF IInv, OrderInv, InOrder
<1>11. /\ Set(ran') = Set(ran) \cup {i}
       /\ \A m, n \in DOMAIN ran' : ran'[m] = ran'[n] => m = n
       /\ \A a, b : RanBefore(a, b) => RanBefore(a, b)'
       /\ \A a \in Set(ran) : RanBefore(a, i)'
  BY <1>4, <1>6, <1>10, RanAppend
<1>12. /\ \A g \in Flows : Set(after'[g]) \subseteq Set(after[g]) /\ i \notin Set(after'[g])
       /\ \A g \in Flows : Set(after[g]) \subseteq Set(after'[g]) \cup {i}
  BY <1>1, <1>3, <1>7, <1>8
<1>13. Owned'
  <2>1. \A g \in Flows : Held(lists[g]) \cap Set(ran') = {} /\ Set(after'[g]) \cap Set(ran') = {}
    BY <1>9, <1>11, <1>12 DEF OrderInv, Owned
  <2>2. \A g, h \in Flows : g # h => Set(after'[g]) \cap Set(after'[h]) = {}
    BY <1>12 DEF OrderInv, Owned
  <2> QED
    BY <2>1, <2>2, <1>2, <1>12 DEF OrderInv, Owned
<1>14. Lined'
  <2>1. \A g \in Flows : MayPrecede(g)' = MayPrecede(g)
    BY <1>2 DEF MayPrecede, NotedBefore
  <2> QED
    BY <2>1, <1>1, <1>2, <1>3 DEF OrderInv, Lined
<1>15. OpenFirst'
  <2>1. ASSUME NEW g \in Flows, NEW k \in DOMAIN noted[g], NEW l \in DOMAIN noted[g],
               k < l, noted[g][k] \in Held(lists[g])
        PROVE  noted[g][l] \notin Set(ran')
    <3>1. g # f
      BY <2>1, <1>5, HeldEmpty
    <3>2. noted[g][l] # i
      BY <3>1, <1>7 DEF Set
    <3> QED
      BY <2>1, <3>2, <1>11 DEF OrderInv, OpenFirst
  <2> QED
    BY <2>1, <1>2 DEF OpenFirst
<1>16. Announcing'
  BY <1>2, <1>11, <1>12 DEF OrderInv, Announcing
<1>17. Idling'
  <2>1. \A g \in Flows : after[g] = <<>> => after'[g] = <<>>
    BY <1>1
  <2> QED
    BY <2>1, <1>2, <1>5 DEF OrderInv, Idling
<1>18. InOrder'
  <2>1. ASSUME NEW g \in Flows, NEW k \in DOMAIN noted[g], NEW l \in DOMAIN noted[g], k < l,
               NEW a, NEW b, a = noted[g][k], b = noted[g][l], b \in Set(ran') \ aside, a \in kept \ doubted
        PROVE  RanBefore(a, b)'
    <3>1. CASE b \in Set(ran)
      <4>1. RanBefore(a, b)
        BY <2>1, <3>1 DEF OrderInv, InOrder
      <4> QED
        BY <4>1, <1>11
    <3>2. CASE b = i
      <4>1. g = f
        BY <2>1, <3>2, <1>7 DEF Set
      <4>2. NotedBefore(f, a, i) /\ a \in Set(noted[f]) /\ i \notin aside
        BY <2>1, <3>2, <4>1 DEF NotedBefore, Set
      <4>3. a # i
        <5>1. k # l
          BY <2>1, <4>1 DEF IInv, TypeOK
        <5> QED
          BY <2>1, <5>1, <3>2, <4>1 DEF OrderInv, Owned
      <4>4. a \in Set(ran) \/ \E h \in Flows : a \in Set(after[h])
        BY <2>1, <1>5 DEF OrderInv, Announcing
      <4>5. ASSUME NEW h \in Flows, a \in Set(after[h]) PROVE FALSE
        <5>1. h = f
          BY <4>2, <4>5 DEF OrderInv, Owned
        <5>2. <<i, a>> \in MayPrecede(f)
          BY <4>3, <4>5, <5>1, <1>3
        <5> QED
          BY <4>2, <5>2 DEF MayPrecede
      <4>6. a \in Set(ran)
        BY <4>4, <4>5
      <4> QED
        BY <3>2, <4>6, <1>11
    <3> QED
      BY <2>1, <3>1, <3>2, <1>11
  <2>2. \A g \in Flows : \A k, l \in DOMAIN noted[g] :
          k < l /\ noted[g][l] \in Set(ran') \ aside /\ noted[g][k] \in kept \ doubted
            => RanBefore(noted[g][k], noted[g][l])'
    BY <2>1, <1>2
  <2> QED
    BY <2>2, <1>2, <1>11 DEF InOrder
<1> QED
  BY <1>13, <1>14, <1>15, <1>16, <1>17, <1>18 DEF OrderInv

LEMMA OrderOthers ==
  ASSUME IInv, OrderInv,
         \/ \E f \in Flows : Arrive(f) \/ Leave(f)
         \/ \E p \in pending : ListenerEnds(p)
         \/ Stop \/ Drained \/ IdleAgain \/ Idle
  PROVE  OrderInv'
<1>1. UNCHANGED <<lists, after, kept, ran, noted, late, aside, doubted>>
  BY DEF Arrive, Leave, ListenerEnds, Stop, Drained, IdleAgain, Idle, scopes, history
<1>2. Owned' /\ Lined' /\ OpenFirst' /\ InOrder'
  BY <1>1, OrderKept
<1>3. app = "crashed" => app' = "crashed"
  BY DEF Arrive, Leave, ListenerEnds, Stop, Drained, IdleAgain, Idle, Settled
<1>4. Announcing'
  BY <1>1, <1>3, AnnouncingKept
<1>5. Idling'
  <2>1. CASE \E f \in Flows : Arrive(f)
    BY <2>1, <1>1 DEF Arrive, OrderInv, Idling, bus, IInv, TypeOK
  <2>2. CASE \E f \in Flows : Leave(f)
    <3>1. \A s \in Seq(Seq(Items)) : Len(s) = 0 => s = <<>>
      OBVIOUS
    <3> QED
      BY <2>2, <3>1, <1>1 DEF Leave, Depth, OrderInv, Idling, bus, IInv, TypeOK
  <2>3. CASE \E p \in pending : ListenerEnds(p)
    BY <2>3, <1>1 DEF ListenerEnds, OrderInv, Idling
  <2>4. CASE Stop \/ Drained \/ IdleAgain \/ Idle
    BY <2>4, <1>1 DEF Stop, Drained, IdleAgain, Idle, Settled, OrderInv, Idling, bus
  <2> QED
    BY <2>1, <2>2, <2>3, <2>4
<1> QED
  BY <1>2, <1>4, <1>5 DEF OrderInv

LEMMA OrderCrash == ASSUME IInv, OrderInv, Crash PROVE OrderInv'
<1>1. /\ app' = "crashed" /\ pending' = {} /\ UNCHANGED <<ran, noted, late, aside, kept, doubted>>
      /\ \A f \in Flows : request'[f] = "ended" /\ lists'[f] = <<>> /\ after'[f] = <<>>
  BY DEF Crash, history
<1>2. Owned' /\ Lined' /\ OpenFirst' /\ InOrder'
  BY <1>1, HeldEmpty, ThreadedEmpty, OrderKept
<1>3. Announcing' /\ Idling'
  BY <1>1 DEF Announcing, Idling
<1> QED
  BY <1>2, <1>3 DEF OrderInv

LEMMA OrderInvariance == Spec => []OrderInv
<1>1. IInv /\ OrderInv /\ [Next]_vars => OrderInv'
  <2>1. ASSUME IInv, OrderInv, Next PROVE OrderInv'
    <3>1. CASE \E f \in Flows : Arrive(f) \/ Leave(f)
      BY <2>1, <3>1, OrderOthers
    <3>2. CASE \E f \in Flows : Begin(f) \/ Release(f) \/ Undo(f)
      BY <2>1, <3>2, OrderBegin, OrderSavepoint
    <3>3. CASE \E f \in Flows : Commit(f) \/ Rollback(f) \/ CommitUnknown(f)
      BY <2>1, <3>3, OrderCommit, OrderRollback
    <3>4. CASE \E f \in Flows : RunCallback(f)
      BY <2>1, <3>4, OrderRunCallback
    <3>5. CASE \E f \in Flows, i \in Items : RegisterLate(f, i) \/ \E n \in 1 .. MaxScopes : Register(f, i, n)
      BY <2>1, <3>5, OrderRegisterLate, OrderRegister
    <3>6. CASE \E i \in Items : ListenerEmits(i) \/ \E f \in Flows : RunNow(f, i)
      BY <2>1, <3>6, OrderRunNow
    <3>7. CASE (\E p \in pending : ListenerEnds(p)) \/ Stop \/ Drained \/ IdleAgain \/ Idle
      BY <2>1, <3>7, OrderOthers
    <3>8. CASE Crash
      BY <2>1, <3>8, OrderCrash
    <3> QED
      BY <2>1, <3>1, <3>2, <3>3, <3>4, <3>5, <3>6, <3>7, <3>8 DEF Next
  <2>2. ASSUME OrderInv, UNCHANGED vars PROVE OrderInv'
    <3>1. UNCHANGED <<request, lists, after, pending, app, kept, ran, noted, late, aside, doubted>>
      BY <2>2 DEF vars, scopes, bus, history
    <3>2. Owned' /\ Lined' /\ OpenFirst' /\ InOrder' /\ Announcing'
      BY <2>2, <3>1, OrderKept, AnnouncingKept
    <3>3. Idling'
      BY <2>2, <3>1 DEF OrderInv, Idling
    <3> QED
      BY <3>2, <3>3 DEF OrderInv
  <2> QED
    BY <2>1, <2>2
<1> QED
  BY <1>1, OrderInit, Invariance, PTL DEF Spec

-----------------------------------------------------------------------------
\* Whatever the requests do, every variable keeps its type (database.ts, transaction
\* and afterCommit).
THEOREM TypeCorrect == Spec => []TypeOK
<1>1. IInv => TypeOK
  BY DEF IInv
<1> QED
  BY <1>1, Invariance, PTL

\* Jobs deferred to a commit and listeners of events emitted in a transaction are queued and
\* run only when the rows they announce are committed, however deep the savepoints
\* and whichever of them roll back (database.ts, transaction and afterCommit).
THEOREM AnnouncedCorrect == Spec => []OnlyAfterCommit
<1>1. IInv => OnlyAfterCommit
  BY DEF IInv
<1> QED
  BY <1>1, Invariance, PTL

\* Callbacks run once each and in the order in which their request registered them,
\* through the savepoints that join their lists to the outer ones, and none is left out
\* for a later one (database.ts, transaction and runAfterCommit).
THEOREM OrderCorrect == Spec => []InOrder
<1>1. OrderInv => InOrder
  BY DEF OrderInv
<1> QED
  BY <1>1, OrderInvariance, PTL

\* When the App has closed its connections, no listener runs and everything committed has been
\* announced: the requests are answered after their callbacks, and idle() returns when
\* the listeners started meanwhile have ended, too (events.ts, idle).
THEOREM QuietCorrect == Spec => []ClosedQuietly
<1>1. OrderInv => ClosedQuietly
  <2> SUFFICES ASSUME OrderInv, app = "closed" PROVE pending = {} /\ kept \ doubted \subseteq Set(ran)
    BY DEF ClosedQuietly
  <2>1. pending = {} /\ \A f \in Flows : after[f] = <<>>
    BY DEF OrderInv, Idling
  <2>2. \A i \in kept \ doubted : i \in Set(ran)
    BY <2>1, HeldEmpty DEF OrderInv, Announcing
  <2> QED
    BY <2>1, <2>2
<1> QED
  BY <1>1, OrderInvariance, PTL

-----------------------------------------------------------------------------
\* Migrator.

Row == [name : Nat, batch : Nat, by : Nat]
Working == {"reading", "listing", "numbering", "running", "ending"}
Migrations == Early \cup Late
Instance == [pc : {"idle", "locking"} \cup Working, call : {"none", "migrate", "rollback", "step"}, number : Nat,
             seen : Seq(Row), listed : SUBSET Migrations, todo : Seq(Nat), batch : Nat]

MigratorTypeOK ==
  /\ dialect \in {"postgres", "sqlite"} /\ files \in SUBSET Migrations /\ table \in Seq(Row)
  /\ instance \in [Instances -> Instance] /\ calls \in Nat

\* name is the primary key.
NamedOnce(rows) == \A m, n \in DOMAIN rows : rows[m].name = rows[n].name => m = n

\* A batch is what one call applied.
OneCall(rows) == \A m, n \in DOMAIN rows : rows[m].batch = rows[n].batch => rows[m].by = rows[n].by

NoRollback == "rollback" \notin trouble

\* What migrate() read is still there, when nobody can have taken it away.
Complete(q) ==
  q.call = "migrate" /\ (Guarded \/ NoRollback) =>
    /\ q.pc = "listing" => Names(q.seen) \subseteq Names(table)
    /\ q.pc \in {"numbering", "running"} => q.listed \subseteq Names(table) \cup ToSet(q.todo)

\* Under the lock it is all there is, and what is left to do goes behind it.
Behind(q, row, n) == row.batch < q.batch \/ (row.batch = q.batch /\ row.by = q.number /\ row.name < q.todo[n])
Newest(q, row) == row.batch < q.batch \/ (row.batch = q.batch /\ row.by = q.number)
Upwards(q) ==
  q.call = "migrate" =>
    /\ q.pc = "listing" => Names(table) \subseteq Names(q.seen)
    /\ q.pc \in {"numbering", "running"} => Ascending(q.todo) /\ ToSet(q.todo) \cap Names(table) = {}
    /\ q.pc = "running" => \A m \in DOMAIN table : /\ Newest(q, table[m])
                                                   /\ \A n \in DOMAIN q.todo : Behind(q, table[m], n)

\* What rollback() has left of the rows it read, and what it has still to take from their end.
Undone(q) == Len(table) <= Len(q.seen) /\ \A n \in DOMAIN table : table[n] = q.seen[n]
Backwards(q) ==
  q.call # "migrate" /\ q.pc = "running" =>
    /\ Undone(q) /\ Len(q.todo) <= Len(table)
    /\ \A n \in DOMAIN q.todo : q.todo[n] = table[Len(table) + 1 - n].name
    /\ q.call = "rollback" =>
         \A n \in DOMAIN q.seen :
           LET last == q.seen[Len(q.seen)].batch
           IN IF n <= Len(table) - Len(q.todo) THEN q.seen[n].batch < last ELSE q.seen[n].batch = last

InstanceOK(i, q) ==
  /\ q.call = "none" => q.pc = "idle"
  /\ q.pc \in {"listing", "numbering"} => q.call = "migrate"
  /\ NoRollback => q.call \in {"none", "migrate"}
  /\ Complete(q)
  /\ Guarded => /\ q.pc \in Working => lock = i
                /\ Upwards(q) /\ Backwards(q)

MigratorInv ==
  /\ MigratorTypeOK /\ NamedOnce(table) /\ OneAtATime
  /\ Guarded => ByBatch(table) /\ OneCall(table)
  /\ \A i \in Instances : InstanceOK(i, instance[i])

LEMMA LeastPlace ==
  ASSUME NEW T, T \subseteq Nat, T # {}
  PROVE  \E x \in T : \A y \in T : x <= y
<1>1. PICK x \in T : \A y \in T : ~ (<<y, x>> \in OpToRel(<, Nat))
  BY NatLessThanWellFounded, WFMin
<1>2. \A y \in T : ~ (y < x)
  BY <1>1 DEF OpToRel
<1> QED
  BY <1>2

\* A list of as many places as a set has members, with no member twice, has all of them.
LEMMA ListsAll ==
  ASSUME NEW S, IsFiniteSet(S), NEW s \in Lists(S), \A m, n \in DOMAIN s : s[m] = s[n] => m = n
  PROVE  s \in Seq(S) /\ Len(s) = Cardinality(S) /\ ToSet(s) = S
<1> DEFINE size == Cardinality(S)
<1>1. size \in Nat
  BY FS_CardinalityType
<1>2. s \in [1 .. size -> S]
  BY DEF Lists
<1>3. s \in Seq(S) /\ Len(s) = size
  BY <1>1, <1>2
<1>4. s \in Injection(1 .. size, S)
  BY <1>2 DEF Injection, IsInjective
<1>5. Cardinality(1 .. size) = size
  BY <1>1, FS_Interval
<1>6. s \in Surjection(1 .. size, S)
  BY <1>4, <1>5, FS_Injection
<1>7. ToSet(s) = S
  BY <1>6 DEF Surjection, ToSet
<1> QED
  BY <1>3, <1>7

LEMMA MembersFinite ==
  ASSUME NEW S, NEW s \in Seq(S)
  PROVE  /\ IsFiniteSet(ToSet(s)) /\ ToSet(s) \subseteq S
         /\ (\A m, n \in DOMAIN s : s[m] = s[n] => m = n) => s \in Lists(ToSet(s))
<1> DEFINE size == Len(s)
<1>1. size \in Nat /\ DOMAIN s = 1 .. size /\ s \in [1 .. size -> ToSet(s)] /\ ToSet(s) \subseteq S
  BY DEF ToSet
<1>2. IsFiniteSet(1 .. size) /\ Cardinality(1 .. size) = size
  BY <1>1, FS_Interval
<1>3. s \in Surjection(1 .. size, ToSet(s))
  BY <1>1 DEF Surjection, ToSet
<1>4. /\ IsFiniteSet(ToSet(s))
      /\ Cardinality(ToSet(s)) = Cardinality(1 .. size) <=> s \in Injection(1 .. size, ToSet(s))
  BY <1>2, <1>3, FS_Surjection
<1>5. ASSUME \A m, n \in DOMAIN s : s[m] = s[n] => m = n
      PROVE  s \in Lists(ToSet(s))
  <2>1. s \in Injection(1 .. size, ToSet(s))
    BY <1>1, <1>5 DEF Injection, IsInjective
  <2> QED
    BY <1>1, <1>2, <1>4, <2>1 DEF Lists
<1> QED
  BY <1>1, <1>4, <1>5

\* There is one way to put a set in order.
Strict(R) == \A x, y : <<x, y>> \in R => <<y, x>> \notin R
Rises(s, R, size) == \A m, n \in 1 .. size : m < n => <<s[m], s[n]>> \in R
Covers(s, t, size) == \A m \in 1 .. size : \E n \in 1 .. size : t[m] = s[n]

LEMMA OneOrder ==
  ASSUME NEW R, Strict(R), NEW size \in Nat, NEW s, NEW t,
         Rises(s, R, size), Rises(t, R, size), Covers(s, t, size), Covers(t, s, size)
  PROVE  \A m \in 1 .. size : s[m] = t[m]
<1> DEFINE T == {m \in 1 .. size : s[m] # t[m]}
<1> SUFFICES ASSUME T # {} PROVE FALSE
  OBVIOUS
<1>1. T \subseteq Nat
  OBVIOUS
<1>2. PICK m \in T : \A n \in T : m <= n
  <2> HIDE DEF T
  <2> QED
    BY <1>1, LeastPlace
<1>3. m \in 1 .. size /\ s[m] # t[m] /\ \A n \in 1 .. size : n < m => s[n] = t[n]
  BY <1>2
<1>4. PICK i \in 1 .. size : s[m] = t[i]
  BY <1>3 DEF Covers
<1>5. PICK j \in 1 .. size : t[m] = s[j]
  BY <1>3 DEF Covers
<1>6. i # m /\ j # m
  BY <1>3, <1>4, <1>5
<1>7. ~ (i < m)
  <2> SUFFICES ASSUME i < m PROVE FALSE
    OBVIOUS
  <2>1. s[i] = s[m]
    BY <1>3, <1>4
  <2> QED
    BY <1>3, <1>4, <1>5, <2>1 DEF Rises, Strict
<1>8. ~ (j < m)
  <2> SUFFICES ASSUME j < m PROVE FALSE
    OBVIOUS
  <2>1. t[j] = t[m]
    BY <1>3, <1>5
  <2> QED
    BY <1>3, <1>4, <1>5, <2>1 DEF Rises, Strict
<1>9. m < i /\ m < j
  <2>1. m \in Int /\ i \in Int /\ j \in Int
    BY <1>3
  <2> HIDE DEF T
  <2> QED
    BY <2>1, <1>6, <1>7, <1>8
<1>10. <<t[m], t[i]>> \in R /\ <<s[m], s[j]>> \in R
  BY <1>3, <1>9 DEF Rises
<1>11. <<t[m], s[m]>> \in R /\ <<s[m], t[m]>> \in R
  BY <1>4, <1>5, <1>10
<1> QED
  BY <1>11 DEF Strict

LEMMA BeforeIsStrict ==
  ASSUME NEW a \in Row, NEW b \in Row, Before(a, b)
  PROVE  ~ Before(b, a) /\ a # b
BY DEF Before, Row

LEMMA ByBatchOnce ==
  ASSUME NEW rows \in Seq(Row), ByBatch(rows)
  PROVE  \A m, n \in DOMAIN rows : rows[m] = rows[n] => m = n
<1> SUFFICES ASSUME NEW m \in DOMAIN rows, NEW n \in DOMAIN rows, rows[m] = rows[n], m # n PROVE FALSE
  OBVIOUS
<1>1. m \in Nat /\ n \in Nat /\ rows[m] \in Row /\ rows[n] \in Row
  OBVIOUS
<1>2. m < n \/ n < m
  BY <1>1
<1>3. Before(rows[m], rows[n]) \/ Before(rows[n], rows[m])
  BY <1>2 DEF ByBatch
<1> QED
  BY <1>1, <1>3, BeforeIsStrict

\* What appliedMigrations() reads are the rows of the table, and the table itself if that is in order.
LEMMA AppliedFacts ==
  ASSUME table \in Seq(Row), NEW rows \in AppliedMigrations
  PROVE  /\ rows \in Seq(Row) /\ ToSet(rows) = ToSet(table) /\ ByBatch(rows)
         /\ ByBatch(table) => rows = table
<1>1. rows \in Lists(ToSet(table)) /\ ByBatch(rows)
  BY DEF AppliedMigrations
<1>2. IsFiniteSet(ToSet(table)) /\ ToSet(table) \subseteq Row
  BY MembersFinite
<1>3. rows \in Seq(Row)
  <2>1. Cardinality(ToSet(table)) \in Nat
    BY <1>2, FS_CardinalityType
  <2> QED
    BY <1>1, <1>2, <2>1 DEF Lists
<1>4. Len(rows) = Cardinality(ToSet(table)) /\ ToSet(rows) = ToSet(table)
  BY <1>1, <1>2, <1>3, ByBatchOnce, ListsAll
<1>5. ASSUME ByBatch(table)
      PROVE  rows = table
  <2> DEFINE R == {p \in Row \X Row : Before(p[1], p[2])}
             size == Len(table)
  <2>1. table \in Lists(ToSet(table))
    BY <1>5, MembersFinite, ByBatchOnce
  <2>2. Len(rows) = size /\ size \in Nat /\ DOMAIN rows = 1 .. size /\ DOMAIN table = 1 .. size
    <3>1. Len(table) = Cardinality(ToSet(table))
      BY <1>2, <1>5, <2>1, ByBatchOnce, ListsAll
    <3> QED
      BY <1>3, <1>4, <3>1
  <2>3. Strict(R)
    BY BeforeIsStrict DEF Strict
  <2>4. \A m \in 1 .. size : rows[m] \in Row /\ table[m] \in Row
    BY <1>3, <2>2
  <2>5. Rises(rows, R, size) /\ Rises(table, R, size)
    BY <1>1, <1>5, <2>2, <2>4 DEF ByBatch, Rises
  <2>6. Covers(rows, table, size) /\ Covers(table, rows, size)
    BY <1>4, <2>2 DEF ToSet, Covers
  <2> HIDE DEF R, size
  <2>7. \A m \in 1 .. size : rows[m] = table[m]
    BY <2>2, <2>3, <2>5, <2>6, OneOrder
  <2> QED
    BY <1>3, <2>2, <2>7
<1> QED
  BY <1>1, <1>3, <1>4, <1>5

\* A table in order is what appliedMigrations() reads.
LEMMA AppliedIsTable ==
  ASSUME table \in Seq(Row), ByBatch(table)
  PROVE  AppliedMigrations = {table}
<1>1. table \in AppliedMigrations
  BY ByBatchOnce, MembersFinite DEF AppliedMigrations
<1> QED
  BY <1>1, AppliedFacts

\* The places that rollback() undoes reach down from the end, and it takes them from there.
LEMMA NewestFacts ==
  ASSUME NEW rows \in Seq(Row), NEW call, NEW names \in NewestFirst(rows, Targets(call, rows))
  PROVE  /\ names \in Seq(Nat)
         /\ ByBatch(rows) =>
              /\ Len(names) <= Len(rows)
              /\ \A n \in DOMAIN names : names[n] = rows[Len(rows) + 1 - n].name
              /\ call = "rollback" =>
                   \A n \in DOMAIN rows :
                     LET last == rows[Len(rows)].batch
                     IN IF n <= Len(rows) - Len(names) THEN rows[n].batch < last ELSE rows[n].batch = last
<1> DEFINE places == Targets(call, rows)
<1>1. PICK s \in Lists(places) : /\ \A m, n \in DOMAIN s : m < n => s[m] > s[n]
                                 /\ names = [n \in DOMAIN s |-> rows[s[n]].name]
  BY DEF NewestFirst
<1> DEFINE top == Len(rows)
           size == Cardinality(places)
<1>2. top \in Nat /\ DOMAIN rows = 1 .. top /\ places \subseteq 1 .. top /\ \A n \in 1 .. top : rows[n] \in Row
  BY DEF Targets
<1>3. IsFiniteSet(places) /\ size \in Nat /\ size <= top
  <2>1. IsFiniteSet(1 .. top) /\ Cardinality(1 .. top) = top
    BY <1>2, FS_Interval, SMTT(30)
  <2>2. IsFiniteSet(places) /\ size <= Cardinality(1 .. top)
    BY <1>2, <2>1, FS_Subset
  <2> QED
    BY <2>1, <2>2, FS_CardinalityType
<1>4. \A n \in places : rows[n].batch = rows[top].batch \/ n = top
  BY DEF Targets
<1>5. \A n \in 1 .. top : call = "rollback" /\ rows[n].batch = rows[top].batch => n \in places
  BY <1>2 DEF Targets
<1>6. call # "rollback" => \A n \in places : n = top
  BY DEF Targets
<1> HIDE DEF places, size, top
<1>7. s \in [1 .. size -> places] /\ DOMAIN s = 1 .. size
  BY <1>1 DEF Lists, size
<1>8. names \in Seq(Nat) /\ Len(names) = size /\ DOMAIN names = 1 .. size /\ \A n \in 1 .. size : names[n] = rows[s[n]].name
  <2>1. \A n \in 1 .. size : rows[s[n]].name \in Nat
    BY <1>2, <1>7 DEF Row
  <2> QED
    BY <1>1, <1>3, <1>7, <2>1
<1>9. \A m, n \in 1 .. size : s[m] = s[n] => m = n
  <2> SUFFICES ASSUME NEW m \in 1 .. size, NEW n \in 1 .. size, s[m] = s[n], m # n PROVE FALSE
    OBVIOUS
  <2>1. s[m] \in places /\ s[n] \in places
    BY <1>7
  <2>2. s[m] \in Int /\ s[n] \in Int
    <3>1. \A x \in places : x \in Int
      BY <1>2
    <3> QED
      BY <2>1, <3>1
  <2>3. m < n \/ n < m
    BY <1>3
  <2> QED
    BY <1>1, <1>7, <2>2, <2>3
<1>10. \A n \in places : \E m \in 1 .. size : s[m] = n
  <2>1. ToSet(s) = places
    BY <1>1, <1>3, <1>7, <1>9, ListsAll
  <2> QED
    BY <1>7, <2>1 DEF ToSet
<1>11. ASSUME ByBatch(rows)
       PROVE  /\ size <= top /\ \A n \in 1 .. size : s[n] = top + 1 - n
              /\ call = "rollback" =>
                   \A n \in 1 .. top :
                     IF n <= top - size THEN rows[n].batch < rows[top].batch ELSE rows[n].batch = rows[top].batch
  <2>1. \A m, n \in 1 .. top : m <= n => rows[m].batch <= rows[n].batch
    <3> SUFFICES ASSUME NEW m \in 1 .. top, NEW n \in 1 .. top, m <= n PROVE rows[m].batch <= rows[n].batch
      OBVIOUS
    <3>1. rows[m] \in Row /\ rows[n] \in Row
      BY <1>2
    <3>2. CASE m = n
      BY <3>1, <3>2 DEF Row
    <3>3. CASE m < n
      <4>1. Before(rows[m], rows[n])
        BY <1>2, <1>11, <3>3 DEF ByBatch
      <4> QED
        BY <3>1, <4>1, SMTT(30) DEF Before, Row
    <3> QED
      BY <1>2, <3>2, <3>3
  <2>2. ASSUME NEW m \in places, NEW n \in 1 .. top, m <= n
        PROVE  n \in places
    <3>1. top \in 1 .. top /\ m \in 1 .. top /\ n <= top
      BY <1>2
    <3>2. CASE call = "rollback"
      <4>1. rows[m].batch = rows[top].batch
        BY <1>4
      <4>2. rows[m].batch <= rows[n].batch /\ rows[n].batch <= rows[top].batch
        BY <2>1, <2>2, <3>1
      <4>3. rows[m] \in Row /\ rows[n] \in Row
        BY <1>2, <3>1
      <4> QED
        BY <1>5, <3>2, <4>1, <4>2, <4>3, SMTT(30) DEF Row
    <3>3. CASE call # "rollback"
      BY <1>6, <2>2, <3>1, <3>3
    <3> QED
      BY <3>2, <3>3
  <2>3. \A n \in 1 .. size : s[n] = top + 1 - n
    <3> DEFINE T == {n \in 1 .. size : s[n] # top + 1 - n}
    <3> SUFFICES ASSUME T # {} PROVE FALSE
      OBVIOUS
    <3>1. PICK n \in T : \A m \in T : n <= m
      <4>1. T \subseteq Nat
        BY <1>3
      <4> HIDE DEF T
      <4> QED
        BY <4>1, LeastPlace
    <3>2. n \in 1 .. size /\ s[n] # top + 1 - n /\ \A m \in 1 .. size : m < n => s[m] = top + 1 - m
      BY <3>1
    <3> HIDE DEF T
    <3>3. s[n] \in places /\ s[n] \in 1 .. top /\ n \in Nat /\ 1 <= n
      <4>1. s[n] \in places
        BY <1>7, <3>2
      <4>2. s[n] \in 1 .. top
        BY <1>2, <4>1
      <4> QED
        BY <1>3, <3>2, <4>1, <4>2
    <3>4. s[n] <= top + 1 - n
      <4>1. CASE n = 1
        BY <1>2, <3>3, <4>1
      <4>2. CASE n # 1
        <5>1. n - 1 \in 1 .. size /\ n - 1 < n
          BY <1>3, <3>2, <3>3, <4>2
        <5>2. s[n - 1] = top + 1 - (n - 1) /\ s[n - 1] > s[n]
          BY <1>1, <1>7, <3>2, <5>1
        <5> QED
          BY <1>2, <3>3, <5>2
      <4> QED
        BY <4>1, <4>2
    <3>5. top + 1 - n \in 1 .. top
      BY <1>2, <3>3, <3>4
    <3>6. PICK m \in 1 .. size : s[m] = top + 1 - n
      BY <1>10, <2>2, <3>3, <3>4, <3>5
    <3>7. m \in Nat
      BY <1>3
    <3>8. CASE m < n
      <4>1. s[m] = top + 1 - m
        BY <3>2, <3>8
      <4> QED
        BY <1>2, <3>3, <3>6, <3>7, <3>8, <4>1
    <3>9. CASE n < m
      <4>1. s[n] > s[m]
        BY <1>1, <1>7, <3>2, <3>9
      <4> QED
        BY <1>2, <3>3, <3>4, <3>6, <4>1
    <3> QED
      BY <3>2, <3>3, <3>6, <3>7, <3>8, <3>9
  <2>4. ASSUME call = "rollback", NEW n \in 1 .. top
        PROVE  IF n <= top - size THEN rows[n].batch < rows[top].batch ELSE rows[n].batch = rows[top].batch
    <3>0. n \in Nat /\ n <= top /\ top \in 1 .. top
      BY <1>2
    <3>1. CASE n <= top - size
      <4>1. n \notin places
        <5> SUFFICES ASSUME n \in places PROVE FALSE
          OBVIOUS
        <5>1. PICK m \in 1 .. size : s[m] = n
          BY <1>10
        <5>2. n = top + 1 - m /\ m \in Nat /\ m <= size
          BY <1>3, <2>3, <5>1
        <5> QED
          BY <1>2, <1>3, <3>1, <5>2
      <4>2. rows[n].batch # rows[top].batch /\ rows[n].batch <= rows[top].batch
        BY <1>5, <2>1, <2>4, <3>0, <4>1
      <4>3. rows[n] \in Row /\ rows[top] \in Row
        BY <1>2, <3>0
      <4> QED
        BY <3>1, <4>2, <4>3, SMTT(30) DEF Row
    <3>2. CASE ~ (n <= top - size)
      <4>1. top + 1 - n \in 1 .. size
        BY <1>2, <1>3, <3>0, <3>2
      <4>2. s[top + 1 - n] = n
        BY <1>2, <2>3, <3>0, <4>1
      <4>3. n \in places
        BY <1>7, <4>1, <4>2
      <4> QED
        BY <1>4, <3>2, <4>3
    <3> QED
      BY <3>1, <3>2
  <2> QED
    BY <1>3, <2>3, <2>4
<1>12. ASSUME ByBatch(rows)
       PROVE  \A n \in DOMAIN names : names[n] = rows[top + 1 - n].name
  BY <1>8, <1>11, <1>12
<1> QED
  BY <1>2, <1>8, <1>11, <1>12 DEF top

\* What an instance does to itself while the table stays as it is.
LEMMA TableStays ==
  ASSUME MigratorInv, NEW i \in Instances, NEW q \in Instance, Step(i, q), InstanceOK(i, q)',
         UNCHANGED <<dialect, table>>, trouble \subseteq trouble', OneAtATime',
         files' \in SUBSET Migrations, calls' \in Nat,
         \A j \in Instances : j # i /\ lock = j => lock' = j
  PROVE  MigratorInv'
<1>1. (Guarded' => Guarded) /\ (NoRollback' => NoRollback)
  BY DEF Guarded, NoRollback
<1>2. instance' \in [Instances -> Instance] /\ \A j \in Instances : instance'[j] = IF j = i THEN q ELSE instance[j]
  BY DEF MigratorInv, MigratorTypeOK, Step
<1>3. ASSUME NEW j \in Instances
      PROVE  InstanceOK(j, instance[j])'
  <2>1. CASE j = i
    BY <1>2, <2>1
  <2>2. CASE j # i
    <3>0. PICK p : p = instance[j]
      OBVIOUS
    <3>1. InstanceOK(j, p) /\ instance'[j] = p
      BY <1>2, <2>2, <3>0 DEF MigratorInv
    <3>2. Complete(p)'
      BY <1>1, <3>1 DEF InstanceOK, Complete
    <3>3. Guarded' => (p.pc \in Working => lock' = j) /\ Upwards(p)' /\ Backwards(p)'
      BY <1>1, <2>2, <3>1 DEF InstanceOK, Upwards, Backwards, Undone
    <3> QED
      BY <1>1, <3>1, <3>2, <3>3 DEF InstanceOK
  <2> QED
    BY <2>1, <2>2
<1> QED
  BY <1>1, <1>2, <1>3 DEF MigratorInv, MigratorTypeOK

\* An instance that neither has read nor writes has nothing to answer for.
LEMMA QuietOK ==
  ASSUME NEW i, NEW q, q.pc \in {"idle", "locking", "reading", "ending"}, q.call = "none" => q.pc = "idle",
         NoRollback' => q.call \in {"none", "migrate"},
         Guarded' /\ q.pc \in {"reading", "ending"} => lock' = i
  PROVE  InstanceOK(i, q)'
BY DEF InstanceOK, Complete, Upwards, Backwards, Working

LEMMA RestingOK == Resting \in Instance /\ Resting.pc = "idle" /\ Resting.call = "none"
BY DEF Resting, Instance

\* What the invariant says of one instance.
LEMMA OneInstance ==
  ASSUME MigratorInv, NEW i \in Instances
  PROVE  /\ instance[i] \in Instance /\ InstanceOK(i, instance[i])
         /\ instance[i].call = "none" => instance[i].pc = "idle"
         /\ NoRollback => instance[i].call \in {"none", "migrate"}
         /\ Guarded /\ instance[i].pc \in Working => lock = i
BY DEF MigratorInv, MigratorTypeOK, InstanceOK

LEMMA CallKeeps ==
  ASSUME MigratorInv, NEW i \in Instances, NEW kind \in {"migrate", "rollback", "step"}, Call(i, kind)
  PROVE  MigratorInv'
<1>1. PICK q : q = [Resting EXCEPT !.pc = IF dialect = "postgres" THEN "locking" ELSE "reading",
                                   !.call = kind, !.number = calls + 1]
  OBVIOUS
<1>2. calls \in Nat /\ files \in SUBSET Migrations
  BY DEF MigratorInv, MigratorTypeOK
<1>3. /\ q = [pc |-> IF dialect = "postgres" THEN "locking" ELSE "reading", call |-> kind, number |-> calls + 1,
               seen |-> <<>>, listed |-> {}, todo |-> <<>>, batch |-> 0]
  BY <1>1 DEF Resting
<1>4. q \in Instance
  <2>1. <<>> \in Seq(Row) /\ <<>> \in Seq(Nat) /\ {} \in SUBSET Migrations
    OBVIOUS
  <2>2. calls + 1 \in Nat
    BY <1>2
  <2> QED
    BY <1>3, <2>1, <2>2 DEF Instance, Working
<1>5. /\ q.call = kind /\ q.pc \in {"locking", "reading"}
      /\ dialect = "postgres" => q.pc = "locking"
  BY <1>3
<1>6. Step(i, q)
  BY <1>1 DEF Call
<1>7. /\ calls' = calls + 1 /\ UNCHANGED <<dialect, files, table, lock>>
      /\ trouble' = IF kind = "migrate" THEN trouble ELSE trouble \cup {"rollback"}
  BY DEF Call
<1>8. InstanceOK(i, q)'
  <2>1. NoRollback' => kind = "migrate"
    BY <1>7 DEF NoRollback
  <2>2. Guarded' => q.pc = "locking"
    BY <1>5, <1>7 DEF Guarded
  <2>3. NoRollback' => q.call \in {"none", "migrate"}
    BY <1>5, <2>1
  <2>4. Guarded' /\ q.pc \in {"reading", "ending"} => lock' = i
    BY <2>2
  <2>5. q.pc \in {"idle", "locking", "reading", "ending"} /\ (q.call = "none" => q.pc = "idle")
    BY <1>5
  <2> QED
    BY <2>3, <2>4, <2>5, QuietOK
<1>9. OneAtATime' /\ files' \in SUBSET Migrations /\ calls' \in Nat
  BY <1>2, <1>7 DEF MigratorInv, OneAtATime, Guarded
<1> QED
  BY <1>4, <1>6, <1>7, <1>8, <1>9, TableStays

\* A step that leaves all but the lock and the instance as it is.
LEMMA OnlyMoves ==
  ASSUME MigratorInv, NEW i \in Instances, NEW q \in Instance, Step(i, q), InstanceOK(i, q)',
         UNCHANGED <<dialect, files, table, calls, trouble>>,
         \A j \in Instances : j # i /\ lock = j => lock' = j
  PROVE  MigratorInv'
<1>1. OneAtATime' /\ files' \in SUBSET Migrations /\ calls' \in Nat
  BY DEF MigratorInv, MigratorTypeOK, OneAtATime, Guarded
<1> QED
  BY <1>1, TableStays

LEMMA LockKeeps ==
  ASSUME MigratorInv, NEW i \in Instances, Lock(i)
  PROVE  MigratorInv'
<1>1. PICK q : q = [instance[i] EXCEPT !.pc = "reading"]
  OBVIOUS
<1>2. q \in Instance /\ q.pc = "reading" /\ q.call = instance[i].call
  BY <1>1, OneInstance DEF Instance, Working
<1>3. Step(i, q) /\ lock = NoInstance /\ lock' = i /\ UNCHANGED <<dialect, files, table, calls, trouble>>
  BY <1>1 DEF Lock, Goes
<1>4. InstanceOK(i, q)'
  BY <1>2, <1>3, OneInstance, QuietOK DEF NoRollback, Lock, Is
<1> QED
  BY <1>2, <1>3, <1>4, MigratorAssumption, OnlyMoves

LEMMA UnlockKeeps ==
  ASSUME MigratorInv, NEW i \in Instances, Unlock(i)
  PROVE  MigratorInv'
<1>1. /\ Step(i, Resting) /\ lock' = (IF lock = i THEN NoInstance ELSE lock)
      /\ UNCHANGED <<dialect, files, table, calls, trouble>>
  BY DEF Unlock
<1>2. PICK q : q = Resting
  OBVIOUS
<1>3. InstanceOK(i, q)'
  BY <1>2, RestingOK, QuietOK
<1> QED
  BY <1>1, <1>2, <1>3, RestingOK, OnlyMoves

LEMMA DiesKeeps ==
  ASSUME MigratorInv, NEW i \in Instances, Dies(i)
  PROVE  MigratorInv'
<1>1. /\ Step(i, Resting) /\ lock' = (IF lock = i THEN NoInstance ELSE lock)
      /\ UNCHANGED <<dialect, files, table, calls, trouble>>
  BY DEF Dies
<1>2. PICK q : q = Resting
  OBVIOUS
<1>3. InstanceOK(i, q)'
  BY <1>2, RestingOK, QuietOK
<1> QED
  BY <1>1, <1>2, <1>3, RestingOK, OnlyMoves

\* A call that ends, because it is done or because it fails.
LEMMA EndingKeeps ==
  ASSUME MigratorInv, NEW i \in Instances, Is(i, "running"), Goes(i, "ending"),
         UNCHANGED <<dialect, files, table, lock, calls>>, trouble \subseteq trouble', OneAtATime'
  PROVE  MigratorInv'
<1>1. PICK q : q = [instance[i] EXCEPT !.pc = "ending"]
  OBVIOUS
<1>2. q \in Instance /\ q.pc = "ending" /\ q.call = instance[i].call
  BY <1>1, OneInstance DEF Instance, Working
<1>3. (Guarded' => Guarded) /\ (NoRollback' => NoRollback)
  BY DEF Guarded, NoRollback
<1>4. InstanceOK(i, q)'
  BY <1>2, <1>3, OneInstance, QuietOK DEF Is, Working
<1>5. Step(i, q) /\ files' \in SUBSET Migrations /\ calls' \in Nat
  BY <1>1 DEF Goes, MigratorInv, MigratorTypeOK
<1> QED
  BY <1>2, <1>4, <1>5, TableStays

LEMMA DoneKeeps ==
  ASSUME MigratorInv, NEW i \in Instances, Done(i)
  PROVE  MigratorInv'
<1>1. OneAtATime'
  BY DEF Done, MigratorInv, OneAtATime, Guarded
<1> QED
  BY <1>1, EndingKeeps DEF Done

\* What goes on around the instances.
LEMMA AroundKeeps ==
  ASSUME MigratorInv, Merge \/ UNCHANGED migratorVars \/ \E i \in Instances : Disconnect(i)
  PROVE  MigratorInv'
<1>1. /\ UNCHANGED <<dialect, table, instance, calls>> /\ files' \in SUBSET Migrations
      /\ trouble \subseteq trouble' /\ (trouble' # trouble => "unlocked" \in trouble')
      /\ lock' = lock \/ "unlocked" \in trouble'
  <2>1. CASE Merge
    BY <2>1 DEF Merge, MigratorInv, MigratorTypeOK, Migrations
  <2>2. CASE UNCHANGED migratorVars
    BY <2>2 DEF migratorVars, MigratorInv, MigratorTypeOK
  <2>3. CASE \E i \in Instances : Disconnect(i)
    BY <2>3 DEF Disconnect, MigratorInv, MigratorTypeOK
  <2> QED
    BY <2>1, <2>2, <2>3
<1>2. (Guarded' => Guarded /\ lock' = lock /\ trouble' = trouble) /\ (NoRollback' => NoRollback)
  BY <1>1 DEF Guarded, NoRollback
<1>3. OneAtATime'
  BY <1>2 DEF MigratorInv, OneAtATime
<1>4. ASSUME NEW j \in Instances
      PROVE  InstanceOK(j, instance[j])'
  <2>1. PICK q : q = instance[j]
    OBVIOUS
  <2>2. InstanceOK(j, q)
    BY <2>1 DEF MigratorInv
  <2>3. InstanceOK(j, q)'
    BY <1>1, <1>2, <2>2 DEF InstanceOK, Complete, Upwards, Backwards, Undone
  <2> QED
    BY <1>1, <2>1, <2>3
<1> QED
  BY <1>1, <1>2, <1>3, <1>4 DEF MigratorInv, MigratorTypeOK

\* A step that only moves the instance.
LEMMA MovesKeeps ==
  ASSUME MigratorInv, NEW i \in Instances, NEW q \in Instance, Step(i, q), InstanceOK(i, q),
         UNCHANGED <<dialect, files, table, lock, calls, trouble>>
  PROVE  MigratorInv'
<1>1. InstanceOK(i, q)'
  BY DEF InstanceOK, Complete, Guarded, NoRollback, Upwards, Backwards, Undone
<1> QED
  BY <1>1, OnlyMoves

LEMMA ReadAppliedKeeps ==
  ASSUME MigratorInv, NEW i \in Instances, ReadApplied(i)
  PROVE  MigratorInv'
<1> DEFINE r == instance[i]
<1>1. table \in Seq(Row) /\ (Guarded => ByBatch(table))
  BY DEF MigratorInv, MigratorTypeOK
<1>2. /\ r \in Instance /\ r.pc = "reading" /\ r.call # "none" /\ (NoRollback => r.call \in {"none", "migrate"})
      /\ Guarded => lock = i
  BY OneInstance DEF ReadApplied, Is, Working
<1>3. PICK rows \in AppliedMigrations :
        LET q == [r EXCEPT !.seen = rows]
        IN IF q.call = "migrate" THEN Step(i, [q EXCEPT !.pc = "listing"])
           ELSE \E names \in NewestFirst(rows, Targets(q.call, rows)) : Step(i, [q EXCEPT !.pc = "running", !.todo = names])
  BY DEF ReadApplied
<1>4. /\ rows \in Seq(Row) /\ ToSet(rows) = ToSet(table) /\ ByBatch(rows)
      /\ Guarded => rows = table
  BY <1>1, AppliedFacts
<1>5. UNCHANGED <<dialect, files, table, lock, calls, trouble>>
  BY DEF ReadApplied
<1>6. CASE r.call = "migrate"
  <2>1. PICK q : q = [[r EXCEPT !.seen = rows] EXCEPT !.pc = "listing"]
    OBVIOUS
  <2>2. q \in Instance /\ q.pc = "listing" /\ q.call = "migrate" /\ q.seen = rows
    BY <1>2, <1>4, <1>6, <2>1 DEF Instance, Working
  <2>3. Step(i, q)
    <3>1. [r EXCEPT !.seen = rows].call = "migrate"
      BY <1>2, <1>6 DEF Instance
    <3> QED
      BY <1>3, <2>1, <3>1
  <2>4. Names(rows) = Names(table)
    BY <1>4 DEF Names
  <2>5. InstanceOK(i, q)
    BY <1>2, <2>2, <2>4 DEF InstanceOK, Complete, Upwards, Backwards
  <2> QED
    BY <1>5, <2>2, <2>3, <2>5, MovesKeeps
<1>7. CASE r.call # "migrate"
  <2>1. [r EXCEPT !.seen = rows].call = r.call
    BY <1>2 DEF Instance
  <2>2. PICK names \in NewestFirst(rows, Targets(r.call, rows)) :
          Step(i, [[r EXCEPT !.seen = rows] EXCEPT !.pc = "running", !.todo = names])
    BY <1>3, <1>7, <2>1
  <2>3. PICK q : q = [[r EXCEPT !.seen = rows] EXCEPT !.pc = "running", !.todo = names]
    OBVIOUS
  <2>4. names \in Seq(Nat)
    BY <1>4, <2>2, NewestFacts
  <2>5. q \in Instance /\ q.pc = "running" /\ q.call = r.call /\ q.seen = rows /\ q.todo = names
    BY <1>2, <1>4, <2>3, <2>4 DEF Instance, Working
  <2>6. Guarded => Backwards(q)
    <3> SUFFICES ASSUME Guarded PROVE Backwards(q)
      OBVIOUS
    <3>1. /\ Len(names) <= Len(rows)
          /\ \A n \in DOMAIN names : names[n] = rows[Len(rows) + 1 - n].name
          /\ r.call = "rollback" =>
               \A n \in DOMAIN rows :
                 LET last == rows[Len(rows)].batch
                 IN IF n <= Len(rows) - Len(names) THEN rows[n].batch < last ELSE rows[n].batch = last
      BY <1>4, <2>2, NewestFacts
    <3>2. Undone(q)
      BY <1>4, <2>5 DEF Undone
    <3> QED
      BY <1>4, <2>5, <3>1, <3>2 DEF Backwards
  <2>7. InstanceOK(i, q)
    BY <1>2, <1>7, <2>5, <2>6 DEF InstanceOK, Complete, Upwards
  <2> QED
    BY <1>5, <2>2, <2>3, <2>5, <2>7, MovesKeeps
<1> QED
  BY <1>6, <1>7

LEMMA MigrationFilesKeeps ==
  ASSUME MigratorInv, NEW i \in Instances, migrationFiles(i)
  PROVE  MigratorInv'
<1> DEFINE r == instance[i]
           S == files \ Names(r.seen)
<1>1. r \in Instance /\ r.pc = "listing" /\ InstanceOK(i, r)
  BY OneInstance DEF migrationFiles, Is
<1>2. PICK names \in Lists(S) : Ascending(names) /\ Step(i, [r EXCEPT !.pc = "numbering", !.listed = files, !.todo = names])
  BY DEF migrationFiles
<1>3. UNCHANGED <<dialect, files, table, lock, calls, trouble>>
  BY DEF migrationFiles
<1>4. files \in SUBSET Migrations
  BY DEF MigratorInv, MigratorTypeOK
<1>5. IsFiniteSet(S) /\ S \subseteq Nat
  <2>1. S \subseteq Migrations /\ IsFiniteSet(Migrations) /\ Migrations \subseteq Nat
    BY <1>4, MigratorAssumption DEF Migrations
  <2> QED
    BY <2>1, FS_Subset
<1> HIDE DEF S
<1>6. Cardinality(S) \in Nat /\ names \in [1 .. Cardinality(S) -> S]
  BY <1>2, <1>5, FS_CardinalityType DEF Lists
<1>7. \A m, n \in DOMAIN names : names[m] = names[n] => m = n
  <2> SUFFICES ASSUME NEW m \in DOMAIN names, NEW n \in DOMAIN names, names[m] = names[n], m # n PROVE FALSE
    OBVIOUS
  <2>1. DOMAIN names = 1 .. Cardinality(S) /\ names[m] \in S /\ names[n] \in S
    BY <1>6
  <2>2. names[m] \in Nat /\ names[n] \in Nat
    BY <1>5, <2>1
  <2>3. m < n \/ n < m
    BY <1>6, <2>1
  <2> QED
    BY <1>2, <2>2, <2>3 DEF Ascending
<1>8. names \in Seq(S) /\ ToSet(names) = S
  BY <1>2, <1>5, <1>7, ListsAll
<1>9. names \in Seq(Nat)
  <2>1. names \in [1 .. Cardinality(S) -> Nat]
    BY <1>5, <1>6
  <2> QED
    BY <1>6, <2>1
<1>10. PICK q : q = [r EXCEPT !.pc = "numbering", !.listed = files, !.todo = names]
  OBVIOUS
<1>11. /\ q \in Instance /\ q.pc = "numbering" /\ q.call = r.call
       /\ q.listed = files /\ q.todo = names
  BY <1>1, <1>4, <1>9, <1>10 DEF Instance, Working
<1>12. InstanceOK(i, q)
  <2>1. r.call = "migrate" /\ (NoRollback => r.call \in {"none", "migrate"}) /\ (Guarded => lock = i)
    BY <1>1 DEF InstanceOK, Working
  <2>2. Complete(q)
    <3>1. Guarded \/ NoRollback => Names(r.seen) \subseteq Names(table)
      BY <1>1, <2>1 DEF InstanceOK, Complete
    <3> QED
      BY <1>8, <1>11, <3>1 DEF Complete, S
  <2>3. Guarded => Upwards(q)
    <3>1. Guarded => Names(table) \subseteq Names(r.seen)
      BY <1>1, <2>1 DEF InstanceOK, Upwards
    <3> QED
      BY <1>2, <1>8, <1>11, <3>1 DEF Upwards, S
  <2> QED
    BY <1>11, <2>1, <2>2, <2>3 DEF InstanceOK, Backwards
<1> QED
  BY <1>2, <1>3, <1>10, <1>11, <1>12, MovesKeeps

LEMMA LastBatchKeeps ==
  ASSUME MigratorInv, NEW i \in Instances, lastBatch(i)
  PROVE  MigratorInv'
<1> DEFINE r == instance[i]
<1>1. r \in Instance /\ r.pc = "numbering" /\ InstanceOK(i, r)
  BY OneInstance DEF lastBatch, Is
<1>2. PICK last \in {0} \cup {row.batch : row \in ToSet(table)} :
        /\ \A row \in ToSet(table) : row.batch <= last
        /\ Step(i, [r EXCEPT !.pc = "running", !.batch = last + 1])
  BY DEF lastBatch
<1>3. UNCHANGED <<dialect, files, table, lock, calls, trouble>>
  BY DEF lastBatch
<1>4. \A m \in DOMAIN table : table[m] \in Row /\ table[m] \in ToSet(table)
  BY DEF MigratorInv, MigratorTypeOK, ToSet
<1>5. last \in Nat
  <2>1. \A row \in ToSet(table) : row.batch \in Nat
    BY <1>4 DEF ToSet, Row
  <2> QED
    BY <1>2, <2>1
<1>6. PICK q : q = [r EXCEPT !.pc = "running", !.batch = last + 1]
  OBVIOUS
<1>7. /\ q \in Instance /\ q.pc = "running" /\ q.call = r.call /\ q.listed = r.listed
      /\ q.todo = r.todo /\ q.batch = last + 1
  <2>1. last + 1 \in Nat
    BY <1>5
  <2> QED
    BY <1>1, <1>6, <2>1 DEF Instance, Working
<1>8. \A m \in DOMAIN table : table[m].batch < q.batch
  BY <1>2, <1>4, <1>5, <1>7 DEF Row
<1>9. InstanceOK(i, q)
  <2>1. r.call = "migrate" /\ (NoRollback => r.call \in {"none", "migrate"}) /\ (Guarded => lock = i)
    BY <1>1 DEF InstanceOK, Working
  <2>2. Complete(q)
    BY <1>1, <1>7 DEF InstanceOK, Complete
  <2>3. Guarded => Upwards(q)
    <3>1. Guarded => Ascending(r.todo) /\ ToSet(r.todo) \cap Names(table) = {}
      BY <1>1, <2>1 DEF InstanceOK, Upwards
    <3> QED
      BY <1>7, <1>8, <3>1 DEF Upwards, Newest, Behind
  <2> QED
    BY <1>7, <2>1, <2>2, <2>3 DEF InstanceOK, Backwards
<1> QED
  BY <1>2, <1>3, <1>6, <1>7, <1>9, MovesKeeps

\* What an instance does to the table: the others have not got the lock, or find again what they read.
LEMMA TableChanges ==
  ASSUME MigratorInv, NEW i \in Instances, NEW q \in Instance, Step(i, q), InstanceOK(i, q)',
         UNCHANGED <<dialect, files, lock, calls, trouble>>,
         table' \in Seq(Row), NamedOnce(table'),
         Guarded => lock = i /\ ByBatch(table') /\ OneCall(table'),
         NoRollback => Names(table) \subseteq Names(table')
  PROVE  MigratorInv'
<1>1. (Guarded' <=> Guarded) /\ (NoRollback' <=> NoRollback)
  BY DEF Guarded, NoRollback
<1>2. instance' \in [Instances -> Instance] /\ \A j \in Instances : instance'[j] = IF j = i THEN q ELSE instance[j]
  BY DEF MigratorInv, MigratorTypeOK, Step
<1>3. ASSUME NEW j \in Instances
      PROVE  InstanceOK(j, instance[j])'
  <2>1. CASE j = i
    BY <1>2, <2>1
  <2>2. CASE j # i
    <3>1. PICK p : p = instance[j]
      OBVIOUS
    <3>2. InstanceOK(j, p) /\ instance'[j] = p
      BY <1>2, <2>2, <3>1 DEF MigratorInv
    <3>3. Guarded => p.pc \notin Working
      BY <2>2, <3>2 DEF InstanceOK
    <3>4. Complete(p)'
      <4>1. CASE Guarded
        BY <3>3, <4>1 DEF Complete, Working
      <4>2. CASE ~ Guarded
        BY <1>1, <3>2, <4>2 DEF InstanceOK, Complete
      <4> QED
        BY <4>1, <4>2
    <3>5. Guarded' => p.pc \notin Working /\ Upwards(p)' /\ Backwards(p)'
      BY <1>1, <3>3 DEF Upwards, Backwards, Working
    <3> QED
      BY <1>1, <3>2, <3>4, <3>5 DEF InstanceOK
  <2> QED
    BY <2>1, <2>2
<1>4. OneAtATime'
  BY <1>1 DEF MigratorInv, OneAtATime
<1> QED
  BY <1>1, <1>2, <1>3, <1>4 DEF MigratorInv, MigratorTypeOK

\* How the instance goes on when its transaction has committed.
LEMMA CommitsTo ==
  ASSUME MigratorInv, NEW i \in Instances, Is(i, "running"), NEW rows, Commits(i, rows),
         instance[i].todo # <<>>
  PROVE  \E q \in Instance :
           /\ Step(i, q) /\ q.call = instance[i].call /\ q.listed = instance[i].listed
           /\ q.seen = instance[i].seen /\ q.batch = instance[i].batch /\ q.number = instance[i].number
           /\ q.pc = "ending" \/ (q.pc = "running" /\ q.todo = Tail(instance[i].todo))
<1>1. instance[i] \in Instance /\ instance[i].pc = "running"
  BY OneInstance DEF Is
<1>2. CASE Step(i, [instance[i] EXCEPT !.todo = Tail(@)])
  <2>1. PICK q : q = [instance[i] EXCEPT !.todo = Tail(@)]
    OBVIOUS
  <2>2. Tail(instance[i].todo) \in Seq(Nat)
    <3>1. PICK todo : todo = instance[i].todo
      OBVIOUS
    <3>2. todo \in Seq(Nat) /\ todo # <<>>
      BY <1>1, <3>1 DEF Instance
    <3>3. Tail(todo) \in Seq(Nat)
      BY <3>2
    <3> QED
      BY <3>1, <3>3
  <2>3. q \in Instance
    BY <1>1, <2>1, <2>2 DEF Instance
  <2> QED
    BY <1>1, <1>2, <2>1, <2>3 DEF Instance
<1>3. CASE Goes(i, "ending")
  <2>1. PICK q : q = [instance[i] EXCEPT !.pc = "ending"]
    OBVIOUS
  <2>2. q \in Instance
    BY <1>1, <2>1 DEF Instance, Working
  <2> QED
    BY <1>1, <1>3, <2>1, <2>2 DEF Instance, Goes
<1> QED
  BY <1>2, <1>3 DEF Commits

\* A row at the end of a table.
IsAppended(new, rows, row) ==
  /\ new \in Seq(Row) /\ Len(new) = Len(rows) + 1
  /\ \A n \in 1 .. Len(rows) : new[n] = rows[n]
  /\ new[Len(rows) + 1] = row

LEMMA AppendIs ==
  ASSUME NEW rows \in Seq(Row), NEW row \in Row
  PROVE  IsAppended(Append(rows, row), rows, row)
BY DEF IsAppended

LEMMA AppendedFacts ==
  ASSUME NEW rows \in Seq(Row), NEW row \in Row, NEW new, IsAppended(new, rows, row)
  PROVE  /\ Names(new) = Names(rows) \cup {row.name}
         /\ NamedOnce(rows) /\ row.name \notin Names(rows) => NamedOnce(new)
         /\ ByBatch(rows) /\ (\A n \in DOMAIN rows : Before(rows[n], row)) => ByBatch(new)
         /\ OneCall(rows) /\ (\A n \in DOMAIN rows : rows[n].batch = row.batch => rows[n].by = row.by) => OneCall(new)
<1> DEFINE size == Len(rows)
<1>1. size \in Nat /\ DOMAIN rows = 1 .. size /\ DOMAIN new = 1 .. size + 1
  BY DEF IsAppended
<1>2. /\ \A n \in 1 .. size : new[n] = rows[n]
      /\ new[size + 1] = row
  BY DEF IsAppended
<1> HIDE DEF size
<1>3. \A n \in 1 .. size + 1 : n \in 1 .. size \/ n = size + 1
  BY <1>1
<1>4. 1 .. size \subseteq 1 .. size + 1 /\ size + 1 \in 1 .. size + 1
  BY <1>1
<1>5. Names(new) = Names(rows) \cup {row.name}
  <2>1. Names(new) = {new[n].name : n \in 1 .. size + 1} /\ Names(rows) = {rows[n].name : n \in 1 .. size}
    BY <1>1 DEF Names, ToSet
  <2>2. \A x : x \in {new[n].name : n \in 1 .. size + 1} <=> x \in {rows[n].name : n \in 1 .. size} \cup {row.name}
    BY <1>2, <1>3, <1>4
  <2> QED
    BY <2>1, <2>2
<1>6. ASSUME NamedOnce(rows), row.name \notin Names(rows)
      PROVE  NamedOnce(new)
  <2>1. \A n \in 1 .. size : rows[n].name # row.name
    BY <1>1, <1>6 DEF Names, ToSet
  <2>2. \A m, n \in 1 .. size : rows[m].name = rows[n].name => m = n
    BY <1>1, <1>6 DEF NamedOnce
  <2>3. \A m, n \in 1 .. size + 1 : new[m].name = new[n].name => m = n
    BY <1>2, <1>3, <2>1, <2>2
  <2> QED
    BY <1>1, <2>3 DEF NamedOnce
<1>7. ASSUME ByBatch(rows), \A n \in DOMAIN rows : Before(rows[n], row)
      PROVE  ByBatch(new)
  <2> SUFFICES ASSUME NEW m \in 1 .. size + 1, NEW n \in 1 .. size + 1, m < n PROVE Before(new[m], new[n])
    BY <1>1 DEF ByBatch
  <2>1. m \in 1 .. size
    BY <1>1
  <2>2. CASE n = size + 1
    BY <1>1, <1>2, <1>7, <2>1, <2>2
  <2>3. CASE n \in 1 .. size
    BY <1>1, <1>2, <1>7, <2>1, <2>3 DEF ByBatch
  <2> QED
    BY <1>3, <2>2, <2>3
<1>8. ASSUME OneCall(rows), \A n \in DOMAIN rows : rows[n].batch = row.batch => rows[n].by = row.by
      PROVE  OneCall(new)
  <2>1. \A m, n \in 1 .. size : rows[m].batch = rows[n].batch => rows[m].by = rows[n].by
    BY <1>1, <1>8 DEF OneCall
  <2>2. \A n \in 1 .. size : rows[n].batch = row.batch => rows[n].by = row.by
    BY <1>1, <1>8
  <2>3. \A m, n \in 1 .. size + 1 : new[m].batch = new[n].batch => new[m].by = new[n].by
    BY <1>2, <1>3, <2>1, <2>2
  <2> QED
    BY <1>1, <2>3 DEF OneCall
<1> QED
  BY <1>5, <1>6, <1>7, <1>8

\* What is left of a list when its head is done.
LEMMA TailFacts ==
  ASSUME NEW todo \in Seq(Nat), todo # <<>>
  PROVE  /\ Len(todo) \in Nat /\ Len(todo) > 0 /\ 1 \in DOMAIN todo /\ Head(todo) = todo[1] /\ Head(todo) \in Nat
         /\ Tail(todo) \in Seq(Nat) /\ Len(Tail(todo)) = Len(todo) - 1
         /\ \A n \in DOMAIN Tail(todo) : n \in Nat /\ n + 1 \in DOMAIN todo /\ Tail(todo)[n] = todo[n + 1] /\ todo[n + 1] \in Nat
         /\ ToSet(todo) = {Head(todo)} \cup ToSet(Tail(todo))
<1>1. /\ Len(todo) \in Nat /\ Len(todo) > 0 /\ 1 \in DOMAIN todo /\ Head(todo) = todo[1] /\ Head(todo) \in Nat
      /\ Tail(todo) \in Seq(Nat) /\ Len(Tail(todo)) = Len(todo) - 1
      /\ DOMAIN todo = 1 .. Len(todo) /\ DOMAIN Tail(todo) = 1 .. Len(todo) - 1
  OBVIOUS
<1>2. \A n \in DOMAIN Tail(todo) : n \in Nat /\ n + 1 \in DOMAIN todo /\ Tail(todo)[n] = todo[n + 1] /\ todo[n + 1] \in Nat
  OBVIOUS
<1>3. \A m \in DOMAIN todo : m = 1 \/ (m - 1 \in DOMAIN Tail(todo) /\ m = (m - 1) + 1)
  BY <1>1
<1>4. ToSet(todo) = {Head(todo)} \cup ToSet(Tail(todo))
  <2>1. ASSUME NEW m \in DOMAIN todo PROVE todo[m] \in {Head(todo)} \cup {Tail(todo)[n] : n \in DOMAIN Tail(todo)}
    <3>1. CASE m = 1
      BY <1>1, <3>1
    <3>2. CASE m # 1
      <4>1. m - 1 \in DOMAIN Tail(todo) /\ m = (m - 1) + 1
        BY <1>3, <3>2
      <4>2. Tail(todo)[m - 1] = todo[m]
        BY <1>2, <4>1
      <4> QED
        BY <4>1, <4>2
    <3> QED
      BY <3>1, <3>2
  <2>2. \A n \in DOMAIN Tail(todo) : Tail(todo)[n] \in {todo[m] : m \in DOMAIN todo}
    BY <1>2
  <2>3. Head(todo) \in {todo[m] : m \in DOMAIN todo}
    BY <1>1
  <2> QED
    BY <2>1, <2>2, <2>3 DEF ToSet
<1> QED
  BY <1>1, <1>2, <1>4

LEMMA FailsKeeps ==
  ASSUME MigratorInv, NEW i \in Instances, Is(i, "running"), NEW why, Fails(i, why), Guarded => why = {}
  PROVE  MigratorInv'
<1>1. /\ Goes(i, "ending") /\ UNCHANGED <<dialect, files, table, lock, calls>> /\ trouble' = trouble \cup why
  BY DEF Fails
<1>2. OneAtATime'
  BY <1>1 DEF MigratorInv, OneAtATime, Guarded
<1> QED
  BY <1>1, <1>2, EndingKeeps

LEMMA UpKeeps ==
  ASSUME MigratorInv, NEW i \in Instances, Up(i)
  PROVE  MigratorInv'
<1> DEFINE r == instance[i]
           now == Now(i)
<1>1. /\ r \in Instance /\ InstanceOK(i, r) /\ (NoRollback => r.call \in {"none", "migrate"})
      /\ Guarded /\ r.pc \in Working => lock = i
  BY OneInstance
<1>2. Is(i, "running") /\ r.pc = "running" /\ r.todo # <<>> /\ r.call = "migrate"
  BY DEF Up, Runs, Is
<1>3. table \in Seq(Row) /\ NamedOnce(table) /\ (Guarded => ByBatch(table) /\ OneCall(table))
  BY DEF MigratorInv, MigratorTypeOK
<1>4. r.todo \in Seq(Nat) /\ r.batch \in Nat /\ r.number \in Nat
  BY <1>1 DEF Instance
<1>5. PICK todo : todo = r.todo
  OBVIOUS
<1>6. PICK rest : rest = Tail(todo)
  OBVIOUS
<1>7. /\ 1 \in DOMAIN todo /\ now = todo[1] /\ now \in Nat
      /\ \A n \in DOMAIN rest : n \in Nat /\ n + 1 \in DOMAIN todo /\ rest[n] = todo[n + 1]
      /\ ToSet(todo) = {now} \cup ToSet(rest) /\ DOMAIN todo \subseteq Nat /\ \A n \in DOMAIN todo : todo[n] \in Nat
  BY <1>2, <1>4, <1>5, <1>6, TailFacts, SMTT(30) DEF Now
<1>8. Complete(r) /\ (Guarded => Upwards(r))
  BY <1>1 DEF InstanceOK
<1>9. Guarded => /\ Ascending(todo) /\ ToSet(todo) \cap Names(table) = {}
                 /\ \A m \in DOMAIN table : Newest(r, table[m]) /\ \A n \in DOMAIN todo : Behind(r, table[m], n)
  BY <1>2, <1>5, <1>8 DEF Upwards
<1>10. Guarded \/ NoRollback => r.listed \subseteq Names(table) \cup ToSet(todo)
  BY <1>2, <1>5, <1>8 DEF Complete
<1>11. CASE now \in Broken /\ Fails(i, {})
  BY <1>2, <1>11, FailsKeeps
<1>12. CASE now \in Names(table) /\ Fails(i, {"clash"})
  <2>1. ~ Guarded
    BY <1>7, <1>9, <1>12
  <2> QED
    BY <1>2, <1>12, <2>1, FailsKeeps
<1>13. CASE now \notin Names(table) /\ Commits(i, Append(table, [name |-> now, batch |-> r.batch, by |-> r.number]))
  <2>1. PICK row : row = [name |-> now, batch |-> r.batch, by |-> r.number]
    OBVIOUS
  <2>2. row \in Row /\ row.name = now /\ row.batch = r.batch /\ row.by = r.number
    BY <1>4, <1>7, <2>1 DEF Row
  <2>3. Commits(i, Append(table, row)) /\ table' = Append(table, row) /\ UNCHANGED <<dialect, files, lock, calls, trouble>>
    BY <1>13, <2>1 DEF Commits
  <2>4. PICK q \in Instance :
          /\ Step(i, q) /\ q.call = r.call /\ q.listed = r.listed
          /\ q.seen = r.seen /\ q.batch = r.batch /\ q.number = r.number
          /\ q.pc = "ending" \/ (q.pc = "running" /\ q.todo = rest)
    BY <1>2, <1>5, <1>6, <2>3, CommitsTo
  <2>5. IsAppended(table', table, row)
    BY <1>3, <2>2, <2>3, AppendIs
  <2>6. \A m \in DOMAIN table : table[m] \in Row
    BY <1>3
  <2>7. Guarded => \A m \in DOMAIN table : Before(table[m], row)
    <3> SUFFICES ASSUME Guarded, NEW m \in DOMAIN table PROVE Before(table[m], row)
      OBVIOUS
    <3>1. Behind(r, table[m], 1)
      BY <1>7, <1>9
    <3> QED
      BY <1>5, <1>7, <2>2, <3>1 DEF Behind, Before
  <2>8. Guarded => \A m \in DOMAIN table : table[m].batch = row.batch => table[m].by = row.by
    <3> SUFFICES ASSUME Guarded, NEW m \in DOMAIN table, table[m].batch = row.batch PROVE table[m].by = row.by
      OBVIOUS
    <3>1. Newest(r, table[m]) /\ table[m].batch \in Nat
      BY <1>9, <2>6 DEF Row
    <3> QED
      BY <1>4, <2>2, <3>1 DEF Newest
  <2>9. PICK new : new = table'
    OBVIOUS
  <2>10. /\ new \in Seq(Row) /\ Names(new) = Names(table) \cup {now} /\ NamedOnce(new)
         /\ Guarded => ByBatch(new) /\ OneCall(new)
    <3>1. IsAppended(new, table, row)
      BY <2>5, <2>9
    <3>2. new \in Seq(Row)
      BY <3>1 DEF IsAppended
    <3> QED
      BY <1>3, <1>13, <2>2, <2>7, <2>8, <3>1, <3>2, AppendedFacts
  <2>11. \A m \in DOMAIN new : (m \in DOMAIN table /\ new[m] = table[m]) \/ new[m] = row
    <3>1. IsAppended(new, table, row) /\ DOMAIN new = 1 .. Len(new) /\ DOMAIN table = 1 .. Len(table) /\ Len(table) \in Nat
      BY <1>3, <2>5, <2>9, <2>10
    <3> QED
      BY <3>1 DEF IsAppended
  <2>12. (Guarded' <=> Guarded) /\ (NoRollback' <=> NoRollback)
    BY <2>3 DEF Guarded, NoRollback
  <2>13. InstanceOK(i, q)'
    <3>1. CASE q.pc = "ending"
      BY <1>1, <1>2, <2>3, <2>4, <2>12, <3>1, QuietOK DEF Working
    <3>2. CASE q.pc = "running" /\ q.todo = rest
      <4>1. Complete(q)'
        <5>1. Guarded \/ NoRollback => q.listed \subseteq Names(new) \cup ToSet(q.todo)
          BY <1>7, <1>10, <2>4, <2>10, <3>2
        <5> QED
          BY <2>9, <2>12, <3>2, <5>1 DEF Complete
      <4>2. ASSUME Guarded
            PROVE  /\ Ascending(rest) /\ ToSet(rest) \cap Names(new) = {}
                   /\ \A m \in DOMAIN new : Newest(q, new[m]) /\ \A n \in DOMAIN rest : Behind(q, new[m], n)
        <5>1. Ascending(todo) /\ \A m, n \in DOMAIN todo : m < n => todo[m] < todo[n]
          BY <1>9, <4>2 DEF Ascending
        <5>2. Ascending(rest)
          <6> SUFFICES ASSUME NEW m \in DOMAIN rest, NEW n \in DOMAIN rest, m < n PROVE rest[m] < rest[n]
            BY DEF Ascending
          <6>1. /\ m \in Nat /\ n \in Nat /\ m + 1 \in DOMAIN todo /\ n + 1 \in DOMAIN todo
                /\ rest[m] = todo[m + 1] /\ rest[n] = todo[n + 1]
            BY <1>7
          <6>2. m + 1 < n + 1
            BY <6>1
          <6> QED
            BY <5>1, <6>1, <6>2
        <5>3. \A n \in DOMAIN rest : now < rest[n]
          <6> SUFFICES ASSUME NEW n \in DOMAIN rest PROVE now < rest[n]
            OBVIOUS
          <6>1. n \in Nat /\ n + 1 \in DOMAIN todo /\ rest[n] = todo[n + 1]
            BY <1>7
          <6>2. n # 0
            <7>1. rest \in Seq(Nat)
              BY <1>2, <1>4, <1>5, <1>6, TailFacts
            <7> QED
              BY <7>1
          <6>3. 1 < n + 1
            BY <6>1, <6>2
          <6> QED
            BY <1>7, <5>1, <6>1, <6>3
        <5>4. ToSet(rest) \cap Names(new) = {}
          <6>1. now \notin ToSet(rest)
            <7>1. \A n \in DOMAIN rest : rest[n] # now
              <8>1. \A n \in DOMAIN rest : rest[n] \in Nat
                BY <1>7
              <8> QED
                BY <1>7, <5>3, <8>1
            <7> QED
              BY <7>1 DEF ToSet
          <6>2. ToSet(todo) \cap Names(table) = {}
            BY <1>9, <4>2
          <6> QED
            BY <1>7, <2>10, <6>1, <6>2
        <5>5. ASSUME NEW m \in DOMAIN new
              PROVE  Newest(q, new[m]) /\ \A n \in DOMAIN rest : Behind(q, new[m], n)
          <6>1. CASE m \in DOMAIN table /\ new[m] = table[m]
            <7>1. Newest(r, table[m])
              BY <1>9, <4>2, <6>1
            <7>2. Newest(q, new[m])
              BY <2>4, <6>1, <7>1 DEF Newest
            <7>3. ASSUME NEW n \in DOMAIN rest
                  PROVE  Behind(q, new[m], n)
              <8>1. n + 1 \in DOMAIN todo /\ rest[n] = todo[n + 1]
                BY <1>7
              <8>2. Behind(r, table[m], n + 1)
                BY <1>9, <4>2, <6>1, <8>1
              <8> QED
                BY <1>5, <2>4, <3>2, <6>1, <8>1, <8>2 DEF Behind
            <7> QED
              BY <7>2, <7>3
          <6>2. CASE new[m] = row
            BY <2>2, <2>4, <3>2, <5>3, <6>2 DEF Newest, Behind
          <6> QED
            BY <2>11, <6>1, <6>2
        <5> QED
          BY <5>2, <5>4, <5>5
      <4>3. Guarded => Upwards(q)'
        BY <2>9, <3>2, <4>2 DEF Upwards
      <4>4. q.call = "migrate"
        BY <1>2, <2>4
      <4>5. Backwards(q)'
        BY <4>4 DEF Backwards
      <4> QED
        BY <1>1, <1>2, <2>3, <2>12, <3>2, <4>1, <4>3, <4>4, <4>5 DEF InstanceOK, Working
    <3> QED
      BY <2>4, <3>1, <3>2
  <2>14. /\ table' \in Seq(Row) /\ NamedOnce(table') /\ (Guarded => lock = i /\ ByBatch(table') /\ OneCall(table'))
         /\ NoRollback => Names(table) \subseteq Names(table')
    BY <1>1, <1>2, <2>9, <2>10 DEF Working
  <2> QED
    BY <2>3, <2>4, <2>13, <2>14, TableChanges
<1> QED
  BY <1>11, <1>12, <1>13 DEF Up

\* A row cut out of a table.
IsCutOut(new, rows, k) ==
  /\ new \in Seq(Row) /\ Len(new) = Len(rows) - 1
  /\ \A n \in DOMAIN new : new[n] = rows[IF n < k THEN n ELSE n + 1]

LEMMA CutOutIs ==
  ASSUME NEW rows \in Seq(Row), NEW k \in DOMAIN rows
  PROVE  IsCutOut(RemoveAt(rows, k), rows, k)
<1>1. k \in Nat /\ Len(rows) \in Nat /\ 1 <= k /\ k <= Len(rows)
  OBVIOUS
<1> DEFINE front == SubSeq(rows, 1, k - 1)
           back == SubSeq(rows, k + 1, Len(rows))
<1>2. /\ front \in Seq(Row) /\ Len(front) = k - 1
      /\ \A n \in 1 .. k - 1 : front[n] = rows[n]
  BY <1>1
<1>3. /\ back \in Seq(Row) /\ Len(back) = Len(rows) - k
      /\ \A n \in 1 .. Len(rows) - k : back[n] = rows[k + n]
  BY <1>1
<1> HIDE DEF front, back
<1>4. /\ front \o back \in Seq(Row) /\ Len(front \o back) = Len(rows) - 1
      /\ \A n \in 1 .. Len(rows) - 1 : (front \o back)[n] = IF n < k THEN front[n] ELSE back[n - (k - 1)]
  <2>1. PICK m, p : m = Len(front) /\ p = Len(back)
    OBVIOUS
  <2>2. /\ front \o back \in Seq(Row) /\ Len(front \o back) = m + p
        /\ \A n \in 1 .. m + p : (front \o back)[n] = IF n <= m THEN front[n] ELSE back[n - m]
    <3>1. front \in Seq(Row) /\ back \in Seq(Row)
      BY <1>2, <1>3
    <3> QED
      BY <2>1, <3>1, ConcatProperties, Zenon
  <2>3. PICK both : both = front \o back
    OBVIOUS
  <2>4. /\ both \in Seq(Row) /\ Len(both) = m + p
        /\ \A n \in 1 .. m + p : both[n] = IF n <= m THEN front[n] ELSE back[n - m]
    BY <2>2, <2>3, Zenon
  <2>5. m = k - 1 /\ p = Len(rows) - k /\ m + p = Len(rows) - 1
    BY <1>1, <1>2, <1>3, <2>1
  <2>6. ASSUME NEW n \in 1 .. Len(rows) - 1
        PROVE  both[n] = IF n < k THEN front[n] ELSE back[n - (k - 1)]
    <3>1. n \in 1 .. m + p /\ (n <= m <=> n < k) /\ n - m = n - (k - 1)
      BY <1>1, <2>5, SMTT(30)
    <3> QED
      BY <2>4, <3>1
  <2>7. both \in Seq(Row) /\ Len(both) = Len(rows) - 1
    BY <2>4, <2>5
  <2> QED
    BY <2>3, <2>6, <2>7, Zenon
<1>5. PICK new : new = front \o back
  OBVIOUS
<1>6. /\ new \in Seq(Row) /\ Len(new) = Len(rows) - 1
      /\ \A n \in 1 .. Len(rows) - 1 : new[n] = IF n < k THEN front[n] ELSE back[n - (k - 1)]
  BY <1>4, <1>5
<1>7. ASSUME NEW n \in DOMAIN new
      PROVE  new[n] = rows[IF n < k THEN n ELSE n + 1]
  <2>1. n \in 1 .. Len(rows) - 1 /\ n \in Nat
    BY <1>6
  <2>2. CASE n < k
    <3>1. n \in 1 .. k - 1
      BY <1>1, <2>1, <2>2
    <3> QED
      BY <1>2, <1>6, <2>1, <2>2, <3>1
  <2>3. CASE ~ (n < k)
    <3>1. n - (k - 1) \in 1 .. Len(rows) - k /\ k + (n - (k - 1)) = n + 1
      BY <1>1, <2>1, <2>3
    <3> QED
      BY <1>3, <1>6, <2>1, <2>3, <3>1
  <2> QED
    BY <2>2, <2>3
<1>8. RemoveAt(rows, k) = new
  BY <1>5 DEF RemoveAt, front, back
<1> QED
  BY <1>6, <1>7, <1>8 DEF IsCutOut

LEMMA CutOutFacts ==
  ASSUME NEW rows \in Seq(Row), NEW k \in DOMAIN rows, NEW new, IsCutOut(new, rows, k)
  PROVE  /\ NamedOnce(rows) => NamedOnce(new)
         /\ ByBatch(rows) => ByBatch(new)
         /\ OneCall(rows) => OneCall(new)
<1> DEFINE place == [n \in DOMAIN new |-> IF n < k THEN n ELSE n + 1]
<1>1. /\ k \in Nat /\ DOMAIN rows = 1 .. Len(rows) /\ Len(rows) \in Nat /\ k <= Len(rows)
      /\ DOMAIN new = 1 .. Len(rows) - 1
  BY DEF IsCutOut
<1>2. \A n \in DOMAIN new : n \in Nat /\ place[n] \in DOMAIN rows /\ place[n] \in Nat
  BY <1>1
<1>3. \A m, n \in DOMAIN new : (m < n => place[m] < place[n]) /\ (place[m] = place[n] => m = n)
  BY <1>1
<1>4. \A n \in DOMAIN new : new[n] = rows[place[n]]
  BY DEF IsCutOut
<1> HIDE DEF place
<1>5. NamedOnce(rows) => NamedOnce(new)
  BY <1>2, <1>3, <1>4 DEF NamedOnce
<1>6. ByBatch(rows) => ByBatch(new)
  BY <1>2, <1>3, <1>4 DEF ByBatch
<1>7. OneCall(rows) => OneCall(new)
  BY <1>2, <1>3, <1>4 DEF OneCall
<1> QED
  BY <1>5, <1>6, <1>7

LEMMA DownKeeps ==
  ASSUME MigratorInv, NEW i \in Instances, Down(i)
  PROVE  MigratorInv'
<1> DEFINE r == instance[i]
           now == Now(i)
<1>1. /\ r \in Instance /\ InstanceOK(i, r) /\ (NoRollback => r.call \in {"none", "migrate"})
      /\ r.call = "none" => r.pc = "idle"
      /\ Guarded /\ r.pc \in Working => lock = i
  BY OneInstance
<1>2. Is(i, "running") /\ r.pc = "running" /\ r.todo # <<>> /\ r.call # "migrate"
  BY DEF Down, Runs, Is
<1>3. ~ NoRollback /\ r.call # "none" /\ (Guarded => lock = i)
  BY <1>1, <1>2 DEF Working
<1>4. table \in Seq(Row) /\ NamedOnce(table) /\ (Guarded => ByBatch(table) /\ OneCall(table))
  BY DEF MigratorInv, MigratorTypeOK
<1>5. r.todo \in Seq(Nat) /\ r.seen \in Seq(Row)
  BY <1>1 DEF Instance
<1>6. PICK todo : todo = r.todo
  OBVIOUS
<1>7. PICK rest : rest = Tail(todo)
  OBVIOUS
<1>8. /\ Len(todo) \in Nat /\ Len(todo) > 0 /\ 1 \in DOMAIN todo /\ now = todo[1]
      /\ rest \in Seq(Nat) /\ Len(rest) = Len(todo) - 1
      /\ \A n \in DOMAIN rest : n \in Nat /\ n + 1 \in DOMAIN todo /\ rest[n] = todo[n + 1]
  BY <1>2, <1>5, <1>6, <1>7, TailFacts DEF Now
<1>9. PICK size : size = Len(table)
  OBVIOUS
<1>10. size \in Nat /\ DOMAIN table = 1 .. size
  BY <1>4, <1>9
<1>11. Guarded =>
         /\ Undone(r) /\ Len(todo) <= size
         /\ \A n \in DOMAIN todo : todo[n] = table[size + 1 - n].name
         /\ r.call = "rollback" =>
              \A n \in DOMAIN r.seen :
                LET last == r.seen[Len(r.seen)].batch
                IN IF n <= size - Len(todo) THEN r.seen[n].batch < last ELSE r.seen[n].batch = last
  BY <1>1, <1>2, <1>6, <1>9 DEF InstanceOK, Backwards
<1>12. Guarded => size \in DOMAIN table /\ now = table[size].name
  <2> SUFFICES ASSUME Guarded PROVE size \in DOMAIN table /\ now = table[size].name
    OBVIOUS
  <2>1. size \in DOMAIN table
    BY <1>8, <1>10, <1>11
  <2>2. size + 1 - 1 = size
    BY <1>10
  <2> QED
    BY <1>8, <1>11, <2>1, <2>2
<1>13. CASE Fails(i, {})
  BY <1>2, <1>13, FailsKeeps
<1>14. CASE now \notin Names(table)
  <2>1. ~ Guarded
    BY <1>12, <1>14 DEF Names, ToSet
  <2>2. CASE Fails(i, {"clash"})
    BY <1>2, <2>1, <2>2, FailsKeeps
  <2>3. CASE Commits(i, table)
    <3>1. UNCHANGED <<dialect, files, lock, calls, trouble, table>>
      BY <2>3 DEF Commits
    <3>2. PICK q \in Instance : Step(i, q) /\ q.call = r.call /\ (q.pc = "ending" \/ q.pc = "running")
      BY <1>2, <2>3, CommitsTo
    <3>3. ~ Guarded' /\ ~ NoRollback'
      BY <1>3, <2>1, <3>1 DEF Guarded, NoRollback
    <3>4. InstanceOK(i, q)'
      BY <1>2, <1>3, <3>2, <3>3 DEF InstanceOK, Complete
    <3> QED
      BY <1>3, <1>4, <2>1, <3>1, <3>2, <3>4, TableChanges
  <2>4. Fails(i, {}) \/ Fails(i, {"clash"}) \/ Commits(i, table)
    <3>1. ASSUME NEW n \in DOMAIN table, table[n].name = now PROVE FALSE
      BY <1>14, <3>1 DEF Names, ToSet
    <3> QED
      BY <3>1 DEF Down
  <2> QED
    BY <1>13, <2>2, <2>3, <2>4
<1>15. CASE \E n \in DOMAIN table : table[n].name = now /\ Commits(i, RemoveAt(table, n))
  <2>1. PICK k \in DOMAIN table : table[k].name = now /\ Commits(i, RemoveAt(table, k))
    BY <1>15
  <2>2. Guarded => k = size
    BY <1>4, <1>12, <2>1 DEF NamedOnce
  <2>3. table' = RemoveAt(table, k) /\ UNCHANGED <<dialect, files, lock, calls, trouble>>
    BY <2>1 DEF Commits
  <2>4. PICK q \in Instance :
          /\ Step(i, q) /\ q.call = r.call /\ q.listed = r.listed
          /\ q.seen = r.seen /\ q.batch = r.batch /\ q.number = r.number
          /\ q.pc = "ending" \/ (q.pc = "running" /\ q.todo = rest)
    BY <1>2, <1>6, <1>7, <2>1, CommitsTo
  <2>5. PICK new : new = table'
    OBVIOUS
  <2>6. IsCutOut(new, table, k)
    BY <1>4, <2>3, <2>5, CutOutIs
  <2>7. new \in Seq(Row) /\ Len(new) = size - 1
    BY <1>9, <2>6 DEF IsCutOut
  <2>8. NamedOnce(new) /\ (Guarded => ByBatch(new) /\ OneCall(new))
    BY <1>4, <2>6, CutOutFacts
  <2>9. (Guarded' <=> Guarded) /\ (NoRollback' <=> NoRollback)
    BY <2>3 DEF Guarded, NoRollback
  <2>10. InstanceOK(i, q)'
    <3>1. CASE q.pc = "ending"
      BY <1>2, <1>3, <2>3, <2>4, <2>9, <3>1, QuietOK
    <3>2. CASE q.pc = "running" /\ q.todo = rest
      <4>1. ASSUME Guarded
            PROVE  /\ Len(new) <= Len(q.seen) /\ \A n \in DOMAIN new : new[n] = q.seen[n]
                   /\ Len(rest) <= Len(new)
                   /\ \A n \in DOMAIN rest : rest[n] = new[Len(new) + 1 - n].name
                   /\ Len(new) - Len(rest) = size - Len(todo)
        <5>1. \A n \in DOMAIN new : n \in DOMAIN table /\ new[n] = table[n]
          <6> SUFFICES ASSUME NEW n \in DOMAIN new PROVE n \in DOMAIN table /\ new[n] = table[n]
            OBVIOUS
          <6>1. n \in 1 .. size - 1
            BY <2>7
          <6>2. n \in 1 .. size /\ n < size
            BY <1>10, <6>1
          <6> QED
            BY <1>10, <2>2, <2>6, <4>1, <6>2 DEF IsCutOut
        <5>2. size <= Len(r.seen) /\ \A n \in DOMAIN table : table[n] = r.seen[n]
          BY <1>9, <1>11, <4>1 DEF Undone
        <5>3. Len(r.seen) \in Nat
          BY <1>5
        <5>4. Len(new) <= Len(q.seen) /\ \A n \in DOMAIN new : new[n] = q.seen[n]
          BY <1>10, <2>4, <2>7, <5>1, <5>2, <5>3
        <5>5. Len(rest) <= Len(new) /\ Len(new) - Len(rest) = size - Len(todo)
          BY <1>8, <1>10, <1>11, <2>7, <4>1
        <5>6. ASSUME NEW n \in DOMAIN rest
              PROVE  rest[n] = new[Len(new) + 1 - n].name
          <6>1. n + 1 \in DOMAIN todo /\ rest[n] = todo[n + 1] /\ n \in Nat
            BY <1>8
          <6>2. todo[n + 1] = table[size + 1 - (n + 1)].name
            BY <1>11, <4>1, <6>1
          <6>3. size + 1 - (n + 1) = Len(new) + 1 - n
            BY <1>10, <2>7, <6>1
          <6>4. Len(new) + 1 - n \in DOMAIN new
            <7>1. n <= Len(rest) /\ 1 <= n
              BY <1>8
            <7>2. Len(rest) \in Int /\ Len(new) \in Int /\ DOMAIN new = 1 .. Len(new)
              BY <1>8, <2>7
            <7>3. Len(new) + 1 - n \in 1 .. Len(new)
              BY <5>5, <6>1, <7>1, <7>2
            <7> QED
              BY <7>2, <7>3
          <6> QED
            BY <5>1, <6>1, <6>2, <6>3, <6>4
        <5> QED
          BY <5>4, <5>5, <5>6
      <4>2. Guarded => Backwards(q)'
        <5> SUFFICES ASSUME Guarded PROVE Backwards(q)'
          OBVIOUS
        <5>1. Undone(q)'
          BY <2>5, <4>1 DEF Undone
        <5>2. q.call = "rollback" =>
                \A n \in DOMAIN q.seen :
                  LET last == q.seen[Len(q.seen)].batch
                  IN IF n <= Len(new) - Len(rest) THEN q.seen[n].batch < last ELSE q.seen[n].batch = last
          <6>1. Len(new) - Len(rest) = size - Len(todo)
            BY <4>1
          <6> QED
            BY <1>11, <2>4, <6>1
        <5> QED
          BY <2>5, <3>2, <4>1, <5>1, <5>2 DEF Backwards
      <4>3. Complete(q)' /\ Upwards(q)'
        BY <1>2, <2>4 DEF Complete, Upwards
      <4> QED
        BY <1>3, <2>3, <2>4, <2>9, <3>2, <4>2, <4>3 DEF InstanceOK
    <3> QED
      BY <2>4, <3>1, <3>2
  <2> QED
    BY <1>3, <2>3, <2>4, <2>5, <2>7, <2>8, <2>10, TableChanges
<1> QED
  BY <1>13, <1>14, <1>15 DEF Down, Names, ToSet

\* The lock is held by a call that is at work, or by nobody: it outlives no call.
LockHasOwner == lock = NoInstance \/ (lock \in Instances /\ instance[lock].pc \in Working)

LEMMA OwnerStays ==
  ASSUME MigratorInv, LockHasOwner, NEW i \in Instances, NEW q, Step(i, q),
         \/ lock' = NoInstance
         \/ lock' = lock /\ (lock = i => q.pc \in Working)
         \/ lock' = i /\ q.pc \in Working
  PROVE  LockHasOwner'
<1>1. \A j \in Instances : instance'[j] = IF j = i THEN q ELSE instance[j]
  BY DEF MigratorInv, MigratorTypeOK, Step
<1> QED
  BY <1>1 DEF LockHasOwner

LEMMA OwnerStep == MigratorInv /\ LockHasOwner /\ [MigratorNext]_migratorVars => LockHasOwner'
<1> SUFFICES ASSUME MigratorInv, LockHasOwner, [MigratorNext]_migratorVars PROVE LockHasOwner'
  OBVIOUS
<1>1. ASSUME NEW i \in Instances, NEW call, Call(i, call)
      PROVE  LockHasOwner'
  <2>1. PICK q : q = [Resting EXCEPT !.pc = IF dialect = "postgres" THEN "locking" ELSE "reading",
                                     !.call = call, !.number = calls + 1]
    OBVIOUS
  <2>2. Step(i, q) /\ lock' = lock /\ instance[i].pc = "idle"
    BY <1>1, <2>1 DEF Call, Is
  <2>3. lock # i
    BY <2>2, MigratorAssumption DEF LockHasOwner, Working
  <2> QED
    BY <2>2, <2>3, OwnerStays
<1>2. ASSUME NEW i \in Instances, Lock(i)
      PROVE  LockHasOwner'
  <2>1. PICK q : q = [instance[i] EXCEPT !.pc = "reading"]
    OBVIOUS
  <2>2. Step(i, q) /\ lock' = i
    BY <1>2, <2>1 DEF Lock, Goes
  <2>3. q.pc \in Working
    BY <2>1, OneInstance DEF Instance, Working
  <2> QED
    BY <2>2, <2>3, OwnerStays
<1>3. ASSUME NEW i \in Instances, Unlock(i) \/ Dies(i)
      PROVE  LockHasOwner'
  <2>1. Step(i, Resting) /\ lock' = IF lock = i THEN NoInstance ELSE lock
    BY <1>3 DEF Unlock, Dies
  <2> QED
    BY <2>1, OwnerStays
<1>4. ASSUME NEW i \in Instances, NEW q, Step(i, q), q.pc \in Working, lock' = lock
      PROVE  LockHasOwner'
  BY <1>4, OwnerStays
<1>5. ASSUME NEW i \in Instances, Goes(i, "ending"), lock' = lock
      PROVE  LockHasOwner'
  <2>1. PICK q : q = [instance[i] EXCEPT !.pc = "ending"]
    OBVIOUS
  <2>2. q.pc \in Working
    BY <2>1, OneInstance DEF Instance, Working
  <2> QED
    BY <1>4, <1>5, <2>1, <2>2 DEF Goes
<1>6. ASSUME NEW i \in Instances, ReadApplied(i)
      PROVE  LockHasOwner'
  <2> DEFINE r == instance[i]
  <2>1. PICK rows \in AppliedMigrations :
          LET q == [r EXCEPT !.seen = rows]
          IN IF q.call = "migrate" THEN Step(i, [q EXCEPT !.pc = "listing"])
             ELSE \E names \in NewestFirst(rows, Targets(q.call, rows)) : Step(i, [q EXCEPT !.pc = "running", !.todo = names])
    BY <1>6 DEF ReadApplied
  <2>2. lock' = lock /\ r \in Instance
    BY <1>6, OneInstance DEF ReadApplied
  <2>3. CASE Step(i, [[r EXCEPT !.seen = rows] EXCEPT !.pc = "listing"])
    <3>1. PICK q : q = [[r EXCEPT !.seen = rows] EXCEPT !.pc = "listing"]
      OBVIOUS
    <3>2. q.pc \in Working
      BY <2>2, <3>1 DEF Instance, Working
    <3> QED
      BY <1>4, <2>2, <2>3, <3>1, <3>2
  <2>4. ASSUME NEW names, Step(i, [[r EXCEPT !.seen = rows] EXCEPT !.pc = "running", !.todo = names])
        PROVE  LockHasOwner'
    <3>1. PICK q : q = [[r EXCEPT !.seen = rows] EXCEPT !.pc = "running", !.todo = names]
      OBVIOUS
    <3>2. q.pc \in Working
      BY <2>2, <3>1 DEF Instance, Working
    <3> QED
      BY <1>4, <2>2, <2>4, <3>1, <3>2
  <2> QED
    BY <2>1, <2>3, <2>4
<1>7. ASSUME NEW i \in Instances, migrationFiles(i)
      PROVE  LockHasOwner'
  <2>1. PICK names : Step(i, [instance[i] EXCEPT !.pc = "numbering", !.listed = files, !.todo = names])
    BY <1>7 DEF migrationFiles
  <2>2. PICK q : q = [instance[i] EXCEPT !.pc = "numbering", !.listed = files, !.todo = names]
    OBVIOUS
  <2>3. q.pc \in Working
    BY <2>2, OneInstance DEF Instance, Working
  <2> QED
    BY <1>4, <1>7, <2>1, <2>2, <2>3 DEF migrationFiles
<1>8. ASSUME NEW i \in Instances, lastBatch(i)
      PROVE  LockHasOwner'
  <2>1. PICK last : Step(i, [instance[i] EXCEPT !.pc = "running", !.batch = last + 1])
    BY <1>8 DEF lastBatch
  <2>2. PICK q : q = [instance[i] EXCEPT !.pc = "running", !.batch = last + 1]
    OBVIOUS
  <2>3. q.pc \in Working
    BY <2>2, OneInstance DEF Instance, Working
  <2> QED
    BY <1>4, <1>8, <2>1, <2>2, <2>3 DEF lastBatch
<1>9. ASSUME NEW i \in Instances, Up(i) \/ Down(i) \/ Done(i)
      PROVE  LockHasOwner'
  <2>1. Is(i, "running")
    BY <1>9 DEF Up, Down, Done, Runs
  <2>2. CASE \E rows : Commits(i, rows) /\ instance[i].todo # <<>>
    <3>1. PICK rows : Commits(i, rows) /\ instance[i].todo # <<>>
      BY <2>2
    <3>2. PICK q \in Instance : Step(i, q) /\ (q.pc = "ending" \/ q.pc = "running")
      BY <2>1, <3>1, CommitsTo
    <3> QED
      BY <1>4, <3>1, <3>2 DEF Commits, Working
  <2>3. CASE \E why : Fails(i, why)
    BY <1>5, <2>3 DEF Fails
  <2>4. CASE Done(i)
    BY <1>5, <2>4 DEF Done
  <2> QED
    BY <1>9, <2>2, <2>3, <2>4 DEF Up, Down, Runs
<1>10. CASE Merge \/ UNCHANGED migratorVars \/ \E i \in Instances : Disconnect(i)
  BY <1>10 DEF Merge, migratorVars, Disconnect, LockHasOwner
<1>11. ASSUME NEW i \in Instances, Proceeds(i)
       PROVE  LockHasOwner'
  BY <1>2, <1>3, <1>6, <1>7, <1>8, <1>9, <1>11 DEF Proceeds
<1> QED
  BY <1>1, <1>3, <1>10, <1>11 DEF MigratorNext

LEMMA MigratorStep == MigratorInv /\ [MigratorNext]_migratorVars => MigratorInv'
<1> SUFFICES ASSUME MigratorInv, [MigratorNext]_migratorVars PROVE MigratorInv'
  OBVIOUS
<1>1. ASSUME NEW i \in Instances, Proceeds(i)
      PROVE  MigratorInv'
  BY <1>1, LockKeeps, UnlockKeeps, ReadAppliedKeeps, MigrationFilesKeeps, LastBatchKeeps, UpKeeps, DownKeeps, DoneKeeps
  DEF Proceeds
<1>2. ASSUME NEW i \in Instances, NEW call \in {"migrate", "rollback", "step"}, Call(i, call)
      PROVE  MigratorInv'
  BY <1>2, CallKeeps
<1>3. ASSUME NEW i \in Instances, Dies(i)
      PROVE  MigratorInv'
  BY <1>3, DiesKeeps
<1>4. ASSUME Merge \/ UNCHANGED migratorVars \/ \E i \in Instances : Disconnect(i)
      PROVE  MigratorInv'
  BY <1>4, AroundKeeps
<1> QED
  BY <1>1, <1>2, <1>3, <1>4 DEF MigratorNext

LEMMA MigratorStart == MigratorInit => MigratorInv
<1> SUFFICES ASSUME MigratorInit PROVE MigratorInv
  OBVIOUS
<1>1. /\ dialect \in {"postgres", "sqlite"} /\ files = Early /\ table = <<>> /\ calls = 0 /\ trouble = {}
      /\ instance = [i \in Instances |-> Resting]
  BY DEF MigratorInit
<1>2. MigratorTypeOK
  <2>1. <<>> \in Seq(Row) /\ 0 \in Nat /\ Early \in SUBSET Migrations
    BY DEF Migrations
  <2> QED
    BY <1>1, <2>1, RestingOK DEF MigratorTypeOK
<1>3. NamedOnce(table) /\ ByBatch(table) /\ OneCall(table)
  <2>1. DOMAIN table = {}
    BY <1>1
  <2> QED
    BY <2>1 DEF NamedOnce, ByBatch, OneCall
<1>4. ASSUME NEW i \in Instances
      PROVE  InstanceOK(i, instance[i])
  <2>1. instance[i].pc = "idle" /\ instance[i].call = "none"
    BY <1>1, RestingOK
  <2> QED
    BY <2>1 DEF InstanceOK, Complete, Upwards, Backwards, Working
<1> QED
  BY <1>1, <1>2, <1>3, <1>4 DEF MigratorInv, OneAtATime

LEMMA MigrationsHere == MigratorInv => OneAtATime /\ BatchesKeepOrder /\ AllApplied /\ UndoesLast
<1> SUFFICES ASSUME MigratorInv PROVE OneAtATime /\ BatchesKeepOrder /\ AllApplied /\ UndoesLast
  OBVIOUS
<1>1. table \in Seq(Row) /\ (Guarded => ByBatch(table) /\ OneCall(table))
  BY DEF MigratorInv, MigratorTypeOK
<1>2. BatchesKeepOrder
  BY <1>1, AppliedIsTable DEF BatchesKeepOrder, OneCall, ToSet
<1>3. ASSUME NEW i \in Instances, instance[i].pc = "running", instance[i].call = "migrate", instance[i].todo = <<>>,
             Guarded \/ "rollback" \notin trouble
      PROVE  instance[i].listed \subseteq Names(table)
  <2>1. instance[i].listed \subseteq Names(table) \cup ToSet(instance[i].todo)
    BY <1>3, OneInstance DEF InstanceOK, Complete, NoRollback
  <2>2. ToSet(<<>>) = {}
    BY DEF ToSet
  <2> QED
    BY <1>3, <2>1, <2>2
<1>4. ASSUME NEW i \in Instances, Guarded, instance[i].pc = "running", instance[i].call = "rollback"
      PROVE  /\ IsPrefix(table, instance[i].seen)
             /\ instance[i].todo = <<>> =>
                  \A a \in ToSet(table), b \in ToSet(instance[i].seen) \ ToSet(table) : a.batch < b.batch
  <2>1. PICK seen : seen = instance[i].seen
    OBVIOUS
  <2>2. PICK size : size = Len(table)
    OBVIOUS
  <2>3. /\ seen \in Seq(Row) /\ Undone(instance[i])
        /\ \A n \in DOMAIN seen :
             LET last == seen[Len(seen)].batch
             IN IF n <= size - Len(instance[i].todo) THEN seen[n].batch < last ELSE seen[n].batch = last
    BY <1>4, <2>1, <2>2, OneInstance DEF InstanceOK, Backwards, Instance
  <2>4. size \in Nat /\ DOMAIN table = 1 .. size /\ Len(seen) \in Nat /\ DOMAIN seen = 1 .. Len(seen)
    BY <1>1, <2>2, <2>3
  <2>5. size <= Len(seen) /\ \A n \in 1 .. size : table[n] = seen[n]
    BY <2>1, <2>2, <2>3, <2>4 DEF Undone
  <2>6. IsPrefix(table, seen)
    <3>1. SubSeq(table, 1, size) = [n \in 1 .. size |-> table[n]] /\ SubSeq(seen, 1, size) = [n \in 1 .. size |-> seen[n]]
      BY <1>1, <2>2, <2>3, <2>4, <2>5
    <3> QED
      BY <2>2, <2>5, <3>1 DEF IsPrefix
  <2>7. ASSUME instance[i].todo = <<>>, NEW a \in ToSet(table), NEW b \in ToSet(seen) \ ToSet(table)
        PROVE  a.batch < b.batch
    <3>1. PICK m \in 1 .. size : a = table[m]
      BY <2>4 DEF ToSet
    <3>2. PICK n \in 1 .. Len(seen) : b = seen[n] /\ n \notin 1 .. size
      <4>1. PICK n \in 1 .. Len(seen) : b = seen[n]
        BY <2>4 DEF ToSet
      <4>2. ASSUME n \in 1 .. size PROVE FALSE
        <5>1. b = table[n]
          BY <2>5, <4>1, <4>2
        <5> QED
          BY <2>4, <4>2, <5>1 DEF ToSet
      <4> QED
        BY <4>1, <4>2
    <3>3. Len(instance[i].todo) = 0
      BY <2>7
    <3>4. m \in 1 .. Len(seen) /\ m <= size - 0 /\ ~ (n <= size - 0)
      BY <2>4, <2>5, <3>2
    <3>5. a = seen[m]
      BY <2>5, <3>1
    <3> QED
      BY <2>3, <2>4, <3>2, <3>3, <3>4, <3>5
  <2> QED
    BY <2>1, <2>6, <2>7
<1>5. AllApplied
  BY <1>3 DEF AllApplied
<1>6. UndoesLast
  BY <1>4 DEF UndoesLast
<1> QED
  BY <1>2, <1>5, <1>6 DEF MigratorInv

\* What migrate() and rollback() promise: while the lock is held no call meets another; rows, batches
\* and calls are in the same order; a migrate() that is done has left nothing out, a rollback() has
\* undone the last batch and nothing else; and no call waits for one that is gone or waits itself.
THEOREM MigrationsCorrect == MigratorSpec => []MigrationsHold
<1>1. MigratorInit => LockHasOwner
  BY DEF MigratorInit, LockHasOwner
<1>2. LockHasOwner => NobodyStuck
  BY DEF LockHasOwner, NobodyStuck, Waits, Is, Connected, Working
<1>3. MigratorInv /\ LockHasOwner => MigrationsHold
  BY <1>2, MigrationsHere DEF MigrationsHold
<1> QED
  BY <1>1, <1>3, MigratorStart, MigratorStep, OwnerStep, PTL DEF MigratorSpec
=============================================================================
