-------------------------- MODULE FeaturePlanProofs -------------------------
(***************************************************************************)
(* Proofs about FeaturePlan, for any catalogue that meets the assumptions  *)
(* FeatureCatalogue states (TLC evaluates them for the one there is), any  *)
(* requests and any number of commands, edits and faults: what add,        *)
(* remove, sync and doctor promise.                                        *)
(* And, at the end, about DatabaseQueue, for any jobs, transactions,       *)
(* workers and instants, on both dialects: what a statement may do to rows *)
(* is shown once (Quiet); the rest of the invariant says which rows an     *)
(* open or rolled back transaction can have.                               *)
(***************************************************************************)
EXTENDS FeaturePlan, DatabaseQueue, JobTableLemmas, SequenceTheorems, FiniteSetTheorems

-----------------------------------------------------------------------------
\* Lists.

LEMMA FlattenIs ==
  ASSUME NEW X, NEW ss \in Seq(Seq(X)), ss # <<>>
  PROVE  \E F \in [1 .. Len(ss) -> Seq(X)] :
           /\ FlattenSeq(ss) = F[Len(ss)] /\ F[1] = ss[1]
           /\ \A i \in 1 .. Len(ss) - 1 : F[i + 1] = F[i] \o ss[i + 1]
<1>1. PICK size : size = Len(ss) /\ size \in Nat \ {0}
  <2>1. Len(ss) \in Nat
    BY LenProperties, Zenon
  <2>2. Len(ss) # 0
    OBVIOUS
  <2> QED
    BY <2>1, <2>2
<1> DEFINE S == 1 .. size
           V == Seq(X)
           Turn(f, i) == IF i = 1 THEN ss[i] ELSE f[i - 1] \o ss[i]
           Body == [f \in [S -> V] |-> [i \in S |-> Turn(f, i)]]
           rank == [i \in S |-> i]
<1>2. \A i \in S : ss[i] \in V
  BY <1>1, ElementOfSeq
<1>3. ASSUME NEW f \in [S -> V], NEW i \in S
      PROVE  Turn(f, i) \in V
  <2>1. CASE i = 1
    BY <1>2, <2>1
  <2>2. CASE i # 1
    <3>1. PICK before, here : before = f[i - 1] /\ here = ss[i]
      OBVIOUS
    <3>2. i - 1 \in S
      BY <1>1, <2>2
    <3>3. before \in Seq(X) /\ here \in Seq(X)
      BY <1>2, <3>1, <3>2
    <3>4. before \o here \in V
      BY <3>3, ConcatProperties
    <3> QED
      BY <2>2, <3>1, <3>4
  <2> QED
    BY <2>1, <2>2
<1>4. ASSUME NEW f \in [S -> V], NEW g \in [S -> V], NEW i \in S, \A j \in S : rank[j] < rank[i] => f[j] = g[j]
      PROVE  Turn(f, i) = Turn(g, i)
  <2>1. i # 1 => i - 1 \in S /\ f[i - 1] = g[i - 1]
    BY <1>1, <1>4
  <2> QED
    BY <2>1
<1> HIDE DEF Turn
<1>5. Body \in [[S -> V] -> [S -> V]] /\ rank \in [S -> Nat] /\ V # {}
  BY <1>1, <1>3, EmptySeq
<1>6. \A f, g \in [S -> V], i \in S : (\A j \in S : rank[j] < rank[i] => f[j] = g[j]) => Body[f][i] = Body[g][i]
  BY <1>4
<1>7. \E f \in [S -> V] : f = Body[f]
  <2>1. WellFounded(S, V, rank, Body)
    BY <1>5, <1>6 DEF WellFounded
  <2> HIDE DEF S, V, rank, Body
  <2> QED
    BY <2>1, RecursionHolds
<1>8. \E f : f = [i \in S |-> Turn(f, i)]
  BY <1>7
<1> DEFINE F == CHOOSE f : f = [i \in S |-> Turn(f, i)]
<1>9. F = [i \in S |-> Turn(F, i)]
  BY <1>8
<1>10. FlattenSeq(ss) = F[size]
  <2>1. Len(ss) # 0
    BY <1>1
  <2> QED
    BY <1>1, <2>1 DEF FlattenSeq, Turn
<1> HIDE DEF F
<1>11. PICK all : all = F /\ all = [i \in S |-> Turn(all, i)]
  BY <1>9
<1>12. all \in [S -> V]
  <2> DEFINE T == {i \in Nat : i \in S => all[i] \in V}
  <2>1. ASSUME NEW n \in Nat, \A m \in Nat : m < n => m \in T
        PROVE  n \in S => all[n] \in V
    <3> SUFFICES ASSUME n \in S PROVE all[n] \in V
      OBVIOUS
    <3>1. all[n] = IF n = 1 THEN ss[n] ELSE all[n - 1] \o ss[n]
      BY <1>11 DEF Turn
    <3>2. CASE n = 1
      BY <1>2, <3>1, <3>2
    <3>3. CASE n # 1
      <4>1. n - 1 \in Nat /\ n - 1 < n /\ n - 1 \in S
        BY <1>1, <3>3
      <4>2. n - 1 \in T
        BY <2>1, <4>1
      <4>3. PICK before, here : before = all[n - 1] /\ here = ss[n]
        OBVIOUS
      <4>4. before \in Seq(X) /\ here \in Seq(X)
        BY <1>2, <4>1, <4>2, <4>3
      <4>5. before \o here \in V
        BY <4>4, ConcatProperties
      <4> QED
        BY <3>1, <3>3, <4>3, <4>5
    <3> QED
      BY <3>2, <3>3
  <2>2. \A n \in Nat : (\A m \in Nat : m < n => m \in T) => n \in T
    BY <2>1
  <2>3. Nat \subseteq T
    <3> HIDE DEF T
    <3> QED
      BY <2>2, Climb
  <2>4. \A i \in S : all[i] \in V
    BY <1>1, <2>3
  <2> QED
    BY <1>11, <2>4
<1>13. all[1] = ss[1] /\ \A i \in 1 .. size - 1 : all[i + 1] = all[i] \o ss[i + 1]
  <2>1. \A i \in S : all[i] = Turn(all, i)
    BY <1>11
  <2>2. 1 \in S /\ all[1] = ss[1]
    BY <1>1, <2>1 DEF Turn
  <2>3. ASSUME NEW i \in 1 .. size - 1
        PROVE  all[i + 1] = all[i] \o ss[i + 1]
    <3>1. i + 1 \in S /\ i + 1 # 1 /\ (i + 1) - 1 = i
      BY <1>1
    <3> QED
      BY <2>1, <3>1 DEF Turn
  <2> QED
    BY <2>2, <2>3
<1> QED
  BY <1>1, <1>10, <1>11, <1>12, <1>13

\* What is in two lists joined is in one of them.
LEMMA ConcatRange ==
  ASSUME NEW X, NEW a \in Seq(X), NEW b \in Seq(X), NEW x \in ToSet(a \o b)
  PROVE  x \in ToSet(a) \/ x \in ToSet(b)
<1>1. PICK m, n : m = Len(a) /\ n = Len(b)
  OBVIOUS
<1>2. m \in Nat /\ n \in Nat /\ DOMAIN a = 1 .. m /\ DOMAIN b = 1 .. n
  BY <1>1, LenProperties
<1>3. PICK whole : whole = a \o b
  OBVIOUS
<1>4. whole \in Seq(X) /\ Len(whole) = m + n /\ \A k \in 1 .. m + n : whole[k] = IF k <= m THEN a[k] ELSE b[k - m]
  BY <1>1, <1>3, ConcatProperties
<1>5. PICK k \in 1 .. m + n : x = whole[k]
  BY <1>3, <1>4, LenProperties DEF ToSet
<1>6. CASE k <= m
  <2>1. k \in DOMAIN a /\ x = a[k]
    BY <1>2, <1>4, <1>5, <1>6
  <2> QED
    BY <2>1 DEF ToSet
<1>7. CASE m < k
  <2>1. k - m \in DOMAIN b /\ x = b[k - m]
    BY <1>2, <1>4, <1>5, <1>7
  <2> QED
    BY <2>1 DEF ToSet
<1>8. k <= m \/ m < k
  BY <1>2
<1> QED
  BY <1>6, <1>7, <1>8

\* What is in a list of lists flattened comes from one of them, and a first one comes first.
LEMMA FlattenRange ==
  ASSUME NEW X, NEW ss \in Seq(Seq(X))
  PROVE  FlattenSeq(ss) \in Seq(X) /\ \A x \in ToSet(FlattenSeq(ss)) : \E n \in DOMAIN ss : x \in ToSet(ss[n])
<1>1. CASE ss = <<>>
  <2>1. FlattenSeq(ss) = <<>>
    BY <1>1 DEF FlattenSeq
  <2> QED
    BY <2>1 DEF ToSet
<1>2. CASE ss # <<>>
  <2>1. PICK size : size = Len(ss) /\ size \in Nat \ {0} /\ DOMAIN ss = 1 .. size
    <3>1. Len(ss) \in Nat /\ DOMAIN ss = 1 .. Len(ss)
      BY LenProperties, Zenon
    <3>2. Len(ss) # 0
      BY <1>2
    <3> QED
      BY <3>1, <3>2
  <2>2. PICK F \in [1 .. size -> Seq(X)] : /\ FlattenSeq(ss) = F[size] /\ F[1] = ss[1]
                                           /\ \A i \in 1 .. size - 1 : F[i + 1] = F[i] \o ss[i + 1]
    <3>1. ss \in Seq(Seq(X)) /\ ss # <<>>
      BY <1>2
    <3>2. \E F \in [1 .. Len(ss) -> Seq(X)] : /\ FlattenSeq(ss) = F[Len(ss)] /\ F[1] = ss[1]
                                              /\ \A i \in 1 .. Len(ss) - 1 : F[i + 1] = F[i] \o ss[i + 1]
      BY <3>1, FlattenIs, Zenon
    <3> QED
      BY <2>1, <3>2, Zenon
  <2>3. \A i \in 1 .. size : ss[i] \in Seq(X)
    BY <2>1, ElementOfSeq
  <2> DEFINE T == {i \in Nat : i \in 1 .. size => \A x \in ToSet(F[i]) : \E n \in 1 .. size : x \in ToSet(ss[n])}
  <2>4. ASSUME NEW i \in Nat, \A m \in Nat : m < i => m \in T, i \in 1 .. size, NEW x \in ToSet(F[i])
        PROVE  \E n \in 1 .. size : x \in ToSet(ss[n])
    <3>1. CASE i = 1
      BY <2>2, <2>4, <3>1
    <3>2. CASE i # 1
      <4>1. i - 1 \in 1 .. size - 1 /\ i - 1 \in 1 .. size /\ i - 1 < i /\ i - 1 \in Nat /\ (i - 1) + 1 = i
        BY <2>1, <2>4, <3>2
      <4>2. PICK before, here : before = F[i - 1] /\ here = ss[i] /\ F[i] = before \o here
        BY <2>2, <4>1
      <4>3. before \in Seq(X) /\ here \in Seq(X)
        BY <2>2, <2>3, <2>4, <4>1, <4>2
      <4>4. x \in ToSet(before) \/ x \in ToSet(here)
        <5>1. x \in ToSet(before \o here)
          BY <2>4, <4>2
        <5> QED
          BY <4>3, <5>1, ConcatRange
      <4>5. i - 1 \in T
        BY <2>4, <4>1
      <4> QED
        BY <2>4, <4>1, <4>2, <4>4, <4>5
    <3> QED
      BY <3>1, <3>2
  <2>5. \A n \in Nat : (\A m \in Nat : m < n => m \in T) => n \in T
    BY <2>4
  <2>6. Nat \subseteq T
    <3> HIDE DEF T
    <3> QED
      BY <2>5, Climb
  <2>7. \A x \in ToSet(F[size]) : \E n \in 1 .. size : x \in ToSet(ss[n])
    <3>1. size \in T /\ size \in 1 .. size
      <4> HIDE DEF T
      <4> QED
        BY <2>1, <2>6
    <3> QED
      BY <3>1
  <2>8. F[size] \in Seq(X)
    BY <2>1, <2>2
  <2> HIDE DEF T
  <2> QED
    BY <2>1, <2>2, <2>7, <2>8
<1> QED
  BY <1>1, <1>2

LastAdded(t, s, x) ==
  \E n \in Nat : DOMAIN s = 1 .. n /\ DOMAIN t = 1 .. n + 1 /\ t[n + 1] = x /\ \A i \in 1 .. n : t[i] = s[i]

LEMMA Fronted ==
  ASSUME NEW S, NEW s \in Seq(S), s # <<>>
  PROVE  Last(s) \in S /\ Front(s) \in Seq(S) /\ Len(Front(s)) = Len(s) - 1 /\ Len(s) \in Nat /\ LastAdded(s, Front(s), Last(s))
<1>1. Len(s) \in Nat \ {0} /\ Last(s) = s[Len(s)] /\ s[Len(s)] \in S
  BY DEF Last
<1>2. PICK k : k = Len(s) - 1
  OBVIOUS
<1>3. k \in Nat /\ 1 \in Int /\ k \in Int /\ \A i \in 1 .. k : s[i] \in S
  BY <1>1, <1>2
<1>4. PICK front : front = Front(s) /\ front = SubSeq(s, 1, k)
  BY <1>2 DEF Front
<1>5. front \in Seq(S) /\ Len(front) = k /\ \A n \in 1 .. k : front[n] = s[n]
  <2>1. /\ SubSeq(s, 1, k) \in Seq(S)
        /\ Len(SubSeq(s, 1, k)) = IF 1 <= k THEN k - 1 + 1 ELSE 0
        /\ \A i \in 1 .. k - 1 + 1 : SubSeq(s, 1, k)[i] = s[1 + i - 1]
    BY <1>3, SubSeqProperties
  <2>2. \A i \in 1 .. k : front[i] = s[1 + i - 1] /\ 1 + i - 1 = i
    BY <1>3, <1>4, <2>1
  <2>3. Len(front) = k
    BY <1>3, <1>4, <2>1
  <2> QED
    BY <1>4, <2>1, <2>2, <2>3
<1>6. DOMAIN front = 1 .. k /\ DOMAIN s = 1 .. k + 1 /\ Len(s) = k + 1
  BY <1>1, <1>2, <1>3, <1>5, LenProperties
<1>7. LastAdded(s, front, s[k + 1])
  BY <1>3, <1>5, <1>6 DEF LastAdded
<1> QED
  BY <1>1, <1>2, <1>4, <1>5, <1>6, <1>7

LEMMA Appended ==
  ASSUME NEW S, NEW s \in Seq(S), NEW x \in S
  PROVE  Append(s, x) \in Seq(S) /\ LastAdded(Append(s, x), s, x)
<1>1. PICK t, n : t = Append(s, x) /\ n = Len(s)
  OBVIOUS
<1>2. t \in Seq(S) /\ Len(t) = n + 1 /\ (\A i \in 1 .. n : t[i] = s[i]) /\ t[n + 1] = x
  BY <1>1, AppendProperties
<1>3. n \in Nat /\ DOMAIN s = 1 .. n /\ DOMAIN t = 1 .. n + 1
  BY <1>1, <1>2, LenProperties
<1> QED
  BY <1>1, <1>2, <1>3 DEF LastAdded

-----------------------------------------------------------------------------
\* FeaturePlan: lists.

LEMMA LastAddedSet ==
  ASSUME NEW t, NEW s, NEW x, LastAdded(t, s, x)
  PROVE  ToSet(t) = ToSet(s) \cup {x} /\ DOMAIN s \subseteq DOMAIN t /\ \A n \in DOMAIN s : t[n] = s[n]
<1>1. PICK n \in Nat : DOMAIN s = 1 .. n /\ DOMAIN t = 1 .. n + 1 /\ t[n + 1] = x /\ \A i \in 1 .. n : t[i] = s[i]
  BY DEF LastAdded
<1>2. \A i \in 1 .. n + 1 : i \in 1 .. n \/ i = n + 1
  BY <1>1
<1>3. n + 1 \in 1 .. n + 1 /\ \A i \in 1 .. n : i \in 1 .. n + 1
  BY <1>1
<1> QED
  BY <1>1, <1>2, <1>3 DEF ToSet

\* What is in one of two lists joined is in the whole.
LEMMA ConcatHas ==
  ASSUME NEW X, NEW a \in Seq(X), NEW b \in Seq(X)
  PROVE  a \o b \in Seq(X) /\ ToSet(a \o b) = ToSet(a) \cup ToSet(b)
<1>1. PICK m, n : m = Len(a) /\ n = Len(b)
  OBVIOUS
<1>2. m \in Nat /\ n \in Nat /\ DOMAIN a = 1 .. m /\ DOMAIN b = 1 .. n
  BY <1>1, LenProperties
<1>3. PICK whole : whole = a \o b
  OBVIOUS
<1>4. whole \in Seq(X) /\ Len(whole) = m + n /\ \A k \in 1 .. m + n : whole[k] = IF k <= m THEN a[k] ELSE b[k - m]
  BY <1>1, <1>3, ConcatProperties
<1>5. DOMAIN whole = 1 .. m + n
  BY <1>4, LenProperties
<1>6. ASSUME NEW k \in DOMAIN a PROVE a[k] \in ToSet(whole)
  <2>1. k \in DOMAIN whole /\ whole[k] = a[k]
    BY <1>2, <1>4, <1>5, <1>6
  <2> QED
    BY <2>1 DEF ToSet
<1>7. ASSUME NEW k \in DOMAIN b PROVE b[k] \in ToSet(whole)
  <2>1. k + m \in DOMAIN whole /\ whole[k + m] = b[k]
    BY <1>2, <1>4, <1>5, <1>7
  <2> QED
    BY <2>1 DEF ToSet
<1>8. ToSet(a) \subseteq ToSet(whole) /\ ToSet(b) \subseteq ToSet(whole)
  BY <1>6, <1>7 DEF ToSet
<1>9. ToSet(whole) \subseteq ToSet(a) \cup ToSet(b)
  BY <1>3, ConcatRange
<1> QED
  BY <1>3, <1>4, <1>8, <1>9

LEMMA ToSetIn ==
  ASSUME NEW X, NEW s \in Seq(X)
  PROVE  ToSet(s) \subseteq X
<1>1. \A n \in DOMAIN s : s[n] \in X
  BY LenProperties, ElementOfSeq
<1> QED
  BY <1>1 DEF ToSet

\* A finite set can be listed.
LEMMA Listing ==
  ASSUME NEW S, IsFiniteSet(S)
  PROVE  SetToSeq(S) \in Seq(S) /\ ToSet(SetToSeq(S)) = S /\ Len(SetToSeq(S)) = Cardinality(S)
<1>1. PICK n : n = Cardinality(S) /\ n \in Nat
  BY FS_CardinalityType
<1>2. PICK f \in Bijection(1 .. n, S) : TRUE
  BY <1>1, FS_CardinalityType DEF ExistsBijection
<1>3. f \in [1 .. n -> S] /\ IsInjective(f)
  BY <1>2 DEF Bijection, Injection, IsInjective
<1> DEFINE g == SetToSeq(S)
<1>4. g \in [1 .. n -> S] /\ IsInjective(g)
  BY <1>1, <1>3 DEF SetToSeq
<1>5. PICK list : list = g
  OBVIOUS
<1>6. list \in [1 .. n -> S] /\ list \in Injection(1 .. n, S)
  BY <1>4, <1>5 DEF Injection, IsInjective
<1>7. IsFiniteSet(1 .. n) /\ Cardinality(1 .. n) = n
  <2>1. 1 \in Int /\ n \in Int
    BY <1>1
  <2>2. IsFiniteSet(1 .. n) /\ Cardinality(1 .. n) = IF 1 > n THEN 0 ELSE n - 1 + 1
    BY <2>1, FS_Interval
  <2> QED
    BY <1>1, <2>2
<1>8. list \in Surjection(1 .. n, S)
  BY <1>1, <1>6, <1>7, FS_Injection
<1>9. \A x \in S : \E k \in 1 .. n : list[k] = x
  BY <1>8 DEF Surjection
<1>10. ToSet(list) = S
  BY <1>6, <1>9 DEF ToSet
<1>11. list \in Seq(S) /\ Len(list) = n
  BY <1>1, <1>6
<1> QED
  BY <1>1, <1>5, <1>10, <1>11

LEMMA ChangesAre ==
  ASSUME NEW X, NEW to, IsFiniteSet(DOMAIN to), \A p \in DOMAIN to : [path |-> p, content |-> to[p]] \in X
  PROVE  /\ Changes(to) \in Seq(X) /\ Len(Changes(to)) = Cardinality(DOMAIN to)
         /\ ToSet(Changes(to)) = {[path |-> p, content |-> to[p]] : p \in DOMAIN to}
<1>1. PICK paths : paths = SetToSeq(DOMAIN to)
  OBVIOUS
<1>2. PICK n : n = Cardinality(DOMAIN to)
  OBVIOUS
<1>3. paths \in Seq(DOMAIN to) /\ ToSet(paths) = DOMAIN to /\ Len(paths) = n
  BY <1>1, <1>2, Listing
<1>4. n \in Nat /\ DOMAIN paths = 1 .. n /\ \A k \in 1 .. n : paths[k] \in DOMAIN to
  BY <1>3, LenProperties, ElementOfSeq
<1>5. PICK list : list = Changes(to)
  OBVIOUS
<1>6. list = [k \in 1 .. n |-> [path |-> paths[k], content |-> to[paths[k]]]]
  BY <1>1, <1>4, <1>5 DEF Changes
<1>7. list \in [1 .. n -> X]
  BY <1>4, <1>6
<1>8. list \in Seq(X) /\ Len(list) = n
  BY <1>4, <1>7
<1>9. \A p \in DOMAIN to : \E k \in 1 .. n : paths[k] = p
  BY <1>3, <1>4 DEF ToSet
<1>10. DOMAIN list = 1 .. n /\ \A k \in 1 .. n : list[k] = [path |-> paths[k], content |-> to[paths[k]]]
  BY <1>6
<1>11. ToSet(list) = {[path |-> p, content |-> to[p]] : p \in DOMAIN to}
  <2>1. ASSUME NEW c \in ToSet(list) PROVE c \in {[path |-> p, content |-> to[p]] : p \in DOMAIN to}
    BY <1>4, <1>10 DEF ToSet
  <2>2. ASSUME NEW p \in DOMAIN to PROVE [path |-> p, content |-> to[p]] \in ToSet(list)
    <3>1. PICK k \in 1 .. n : paths[k] = p
      BY <1>9
    <3>2. k \in DOMAIN list /\ list[k] = [path |-> p, content |-> to[p]]
      BY <1>10, <3>1
    <3> QED
      BY <3>2 DEF ToSet
  <2> QED
    BY <2>1, <2>2
<1> QED
  BY <1>2, <1>5, <1>8, <1>11

\* With and Content are the write and the read of one file.
LEMMA WithIs ==
  ASSUME NEW d, NEW path, NEW content, \A p \in DOMAIN d : d[p] # NoFile
  PROVE  /\ With(d, path, content) = [p \in DOMAIN With(d, path, content) |-> With(d, path, content)[p]]
         /\ \A p \in DOMAIN With(d, path, content) : With(d, path, content)[p] # NoFile
         /\ \A p : Content(With(d, path, content), p) = IF p = path THEN content ELSE Content(d, p)
         /\ \A p : p \in DOMAIN d \/ p = path \/ p \notin DOMAIN With(d, path, content)
<1> HIDE DEF NoFile
<1>1. PICK e : e = With(d, path, content)
  OBVIOUS
<1>2. CASE content = NoFile
  <2>1. e = [p \in DOMAIN d \ {path} |-> IF p = path THEN content ELSE d[p]]
    BY <1>1, <1>2 DEF With
  <2> QED
    BY <1>1, <1>2, <2>1 DEF Content
<1>3. CASE content # NoFile
  <2>1. e = [p \in DOMAIN d \cup {path} |-> IF p = path THEN content ELSE d[p]]
    BY <1>1, <1>3 DEF With
  <2> QED
    BY <1>1, <1>3, <2>1 DEF Content
<1> QED
  BY <1>2, <1>3

\* Two disks with the same contents are the same.
LEMMA SameDisk ==
  ASSUME NEW d, NEW e, d = [p \in DOMAIN d |-> d[p]], e = [p \in DOMAIN e |-> e[p]],
         \A p \in DOMAIN d : d[p] # NoFile, \A p \in DOMAIN e : e[p] # NoFile, \A p : Content(d, p) = Content(e, p)
  PROVE  d = e
<1> HIDE DEF NoFile
<1>1. \A p : p \in DOMAIN d => p \in DOMAIN e
  BY DEF Content
<1>2. \A p : p \in DOMAIN e => p \in DOMAIN d
  BY DEF Content
<1>3. DOMAIN d = DOMAIN e
  BY <1>1, <1>2
<1>4. \A p \in DOMAIN d : d[p] = e[p]
  BY <1>3 DEF Content
<1> QED
  BY <1>3, <1>4

-----------------------------------------------------------------------------
\* FeaturePlan: what the catalogue's shape gives.

Known == DOMAIN Features

LEMMA RequiresOf ==
  ASSUME NEW id \in Known
  PROVE  /\ Features[id].requires \in Seq(Requirements) /\ Len(Features[id].requires) <= 3
         /\ FlattenSeq(Features[id].requires) \in Seq(Known) /\ Len(FlattenSeq(Features[id].requires)) <= 3
         /\ \A r \in ToSet(Features[id].requires) : r \in Requirements /\ ToSet(r) \subseteq Required({id})
         /\ ToSet(FlattenSeq(Features[id].requires)) \subseteq Required({id})
<1>1. PICK rs : rs = Features[id].requires
  OBVIOUS
<1>2. rs \in Seq(Requirements) /\ Len(rs) <= 3 /\ Len(FlattenSeq(rs)) <= 3
  BY <1>1, CatalogueTyped DEF Known
<1>3. \A r \in ToSet(rs) : r \in Requirements
  BY <1>2, ToSetIn
<1>4. \A r \in ToSet(rs) : ToSet(r) \subseteq Required({id})
  BY <1>1 DEF Required
<1>5. rs \in Seq(Seq(Known))
  <2>1. Requirements \subseteq Seq(Known)
    BY DEF Requirements, Known
  <2>2. PICK lists : lists = Seq(Known)
    OBVIOUS
  <2>3. Requirements \subseteq lists
    BY <2>1, <2>2
  <2>4. rs \in Seq(lists)
    BY <1>2, <2>3
  <2> QED
    BY <2>2, <2>4
<1>6. FlattenSeq(rs) \in Seq(Known) /\ \A x \in ToSet(FlattenSeq(rs)) : \E n \in DOMAIN rs : x \in ToSet(rs[n])
  BY <1>5, FlattenRange
<1>7. ASSUME NEW x \in ToSet(FlattenSeq(rs)) PROVE x \in Required({id})
  <2>1. PICK n \in DOMAIN rs : x \in ToSet(rs[n])
    BY <1>6
  <2>2. rs[n] \in ToSet(rs)
    BY DEF ToSet
  <2> QED
    BY <1>4, <2>1, <2>2
<1> QED
  BY <1>1, <1>2, <1>3, <1>4, <1>6, <1>7

LEMMA RequiredGrows ==
  ASSUME NEW S, NEW T, S \subseteq T
  PROVE  Required(S) \subseteq Required(T)
BY DEF Required

\* How far features are from those that require nothing.
Required1 == Required(Known)
Required2 == Required(Required1)
Required3 == Required(Required2)
Height(S) == IF S = {} THEN 0 ELSE IF S \subseteq Required3 THEN 1 ELSE IF S \subseteq Required2 THEN 2 ELSE IF S \subseteq Required1 THEN 3 ELSE 4

LEMMA HeightOf ==
  /\ \A S : Height(S) \in 0 .. 4
  /\ \A S, T : S \subseteq T => Height(S) <= Height(T)
  /\ \A S, id : id \in S /\ S \subseteq Known => Height(Required({id})) < Height(S)
<1>1. \A S, T : S \subseteq T => Height(S) <= Height(T)
  BY DEF Height
<1>2. ASSUME NEW S, NEW id, id \in S, S \subseteq Known
      PROVE  Height(Required({id})) < Height(S)
  <2>1. Required(Required3) = {}
    BY CatalogueAcyclic DEF Required1, Required2, Required3, Known
  <2>2. {id} \subseteq S /\ S # {}
    BY <1>2
  <2>3. CASE S \subseteq Required3
    <3>1. Required({id}) = {}
      BY <2>1, <2>2, <2>3, RequiredGrows
    <3> QED
      BY <2>2, <2>3, <3>1 DEF Height
  <2>4. CASE S \subseteq Required2 /\ ~ (S \subseteq Required3)
    <3>1. Required({id}) \subseteq Required3
      BY <2>2, <2>4, RequiredGrows DEF Required3
    <3> QED
      BY <2>2, <2>4, <3>1 DEF Height
  <2>5. CASE S \subseteq Required1 /\ ~ (S \subseteq Required2) /\ ~ (S \subseteq Required3)
    <3>1. Required({id}) \subseteq Required2
      BY <2>2, <2>5, RequiredGrows DEF Required2
    <3> QED
      BY <2>2, <2>5, <3>1 DEF Height
  <2>6. CASE ~ (S \subseteq Required1) /\ ~ (S \subseteq Required2) /\ ~ (S \subseteq Required3)
    <3>1. Required({id}) \subseteq Required1
      BY <1>2, <2>2, RequiredGrows DEF Required1
    <3> QED
      BY <2>2, <2>6, <3>1 DEF Height
  <2> QED
    BY <2>3, <2>4, <2>5, <2>6
<1>3. \A S : Height(S) \in 0 .. 4
  BY DEF Height
<1> QED
  BY <1>1, <1>2, <1>3

LEMMA RanksDrop ==
  ASSUME NEW h \in 0 .. 4, NEW k \in 0 .. 4, NEW m \in Nat, NEW n \in Nat
  PROVE  /\ h * 4 + m \in Nat
         /\ h <= k /\ m < n => h * 4 + m < k * 4 + n
         /\ h < k /\ m <= 3 /\ n > 0 => h * 4 + m < k * 4 + n
OBVIOUS

-----------------------------------------------------------------------------
\* FeaturePlan: the order of features.

PlacingRank(w) == Height(ToSet(w.list)) * 4 + Len(w.list)
PlacingBefore(w) == [w EXCEPT !.list = Front(@)]
PlacingUnder(id, before) == [list |-> FlattenSeq(Features[id].requires), ordered |-> before]

LEMMA PlacingParts ==
  ASSUME NEW w \in Placing, w.list # <<>>
  PROVE  /\ Last(w.list) \in Known /\ ToSet(w.list) \subseteq Known
         /\ PlacingBefore(w) \in Placing /\ PlacingBefore(w).ordered = w.ordered /\ PlacingRank(PlacingBefore(w)) < PlacingRank(w)
         /\ \A before \in Seq(Known) : /\ PlacingUnder(Last(w.list), before) \in Placing
                                     /\ PlacingUnder(Last(w.list), before).ordered = before
                                     /\ PlacingRank(PlacingUnder(Last(w.list), before)) < PlacingRank(w)
<1>1. w.list \in Seq(Known) /\ w.ordered \in Seq(Known) /\ w = [list |-> w.list, ordered |-> w.ordered]
  BY DEF Placing, Known
<1>2. PICK list : list = w.list
  OBVIOUS
<1>3. PICK id, front : id = Last(list) /\ front = Front(list)
  OBVIOUS
<1>4. id \in Known /\ front \in Seq(Known) /\ Len(front) = Len(list) - 1 /\ Len(list) \in Nat /\ LastAdded(list, front, id)
  BY <1>1, <1>2, <1>3, Fronted
<1>5. ToSet(list) = ToSet(front) \cup {id} /\ ToSet(list) \subseteq Known
  BY <1>1, <1>2, <1>4, LastAddedSet, ToSetIn
<1>6. Len(front) \in Nat /\ Len(front) < Len(list) /\ Len(list) > 0
  BY <1>4, LenProperties
<1>7. PICK v : v = PlacingBefore(w)
  OBVIOUS
<1>8. v = [list |-> front, ordered |-> w.ordered]
  BY <1>1, <1>2, <1>3, <1>7 DEF PlacingBefore
<1>9. v \in Placing /\ v.ordered = w.ordered /\ v.list = front
  BY <1>1, <1>4, <1>8 DEF Placing, Known
<1>10. PlacingRank(v) < PlacingRank(w)
  <2>1. Height(ToSet(front)) <= Height(ToSet(list)) /\ Height(ToSet(front)) \in 0 .. 4 /\ Height(ToSet(list)) \in 0 .. 4
    BY <1>5, HeightOf
  <2> QED
    BY <1>2, <1>6, <1>9, <2>1, <1>4, RanksDrop DEF PlacingRank
<1>11. ASSUME NEW before \in Seq(Known)
       PROVE  /\ PlacingUnder(id, before) \in Placing /\ PlacingUnder(id, before).ordered = before
              /\ PlacingRank(PlacingUnder(id, before)) < PlacingRank(w)
  <2>1. PICK needs : needs = FlattenSeq(Features[id].requires)
    OBVIOUS
  <2>2. needs \in Seq(Known) /\ Len(needs) <= 3 /\ ToSet(needs) \subseteq Required({id}) /\ Len(needs) \in Nat
    BY <1>4, <2>1, RequiresOf, LenProperties
  <2>3. PICK u : u = PlacingUnder(id, before)
    OBVIOUS
  <2>4. u = [list |-> needs, ordered |-> before]
    BY <2>1, <2>3 DEF PlacingUnder
  <2>5. u \in Placing /\ u.ordered = before /\ u.list = needs
    BY <2>2, <2>4 DEF Placing, Known
  <2>6. /\ Height(ToSet(needs)) < Height(ToSet(list)) /\ Height(ToSet(needs)) \in 0 .. 4 /\ Height(ToSet(list)) \in 0 .. 4
    <3>1. Height(ToSet(needs)) <= Height(Required({id}))
      BY <2>2, HeightOf
    <3>2. Height(Required({id})) < Height(ToSet(list))
      BY <1>5, HeightOf
    <3>3. Height(ToSet(needs)) \in 0 .. 4 /\ Height(ToSet(list)) \in 0 .. 4 /\ Height(Required({id})) \in 0 .. 4
      BY HeightOf
    <3> QED
      BY <3>1, <3>2, <3>3
  <2>7. PlacingRank(u) < PlacingRank(w)
    BY <1>2, <1>4, <1>6, <2>2, <2>5, <2>6, RanksDrop DEF PlacingRank
  <2> QED
    BY <2>3, <2>5, <2>7
<1> QED
  BY <1>2, <1>3, <1>4, <1>5, <1>7, <1>9, <1>10, <1>11

LEMMA PlacingRankNatural == \A w \in Placing : PlacingRank(w) \in Nat
<1>1. ASSUME NEW w \in Placing PROVE PlacingRank(w) \in Nat
  <2>1. Len(w.list) \in Nat /\ Height(ToSet(w.list)) \in 0 .. 4
    BY HeightOf, LenProperties DEF Placing
  <2> QED
    BY <2>1, RanksDrop DEF PlacingRank
<1> QED
  BY <1>1

LEMMA PlaceFeatureIs ==
  ASSUME NEW ids, NEW f, NEW w
  PROVE  LET id == Last(w.list)
             before == f[PlacingBefore(w)]
         IN placeFeature(ids, f, w) = IF w.list = <<>> THEN w.ordered
                                      ELSE IF id \in ToSet(before) \/ id \notin ids THEN before
                                      ELSE Append(f[PlacingUnder(id, before)], id)
BY DEF placeFeature, PlacingBefore, PlacingUnder

\* It looks at what comes before only, and places what is wanted.
LEMMA PlaceFeatureLooks ==
  ASSUME NEW ids, NEW f \in [Placing -> Seq(Known)], NEW g \in [Placing -> Seq(Known)], NEW w \in Placing,
         \A v \in Placing : PlacingRank(v) < PlacingRank(w) => f[v] = g[v]
  PROVE  placeFeature(ids, f, w) = placeFeature(ids, g, w) /\ placeFeature(ids, f, w) \in Seq(Known)
<1>1. CASE w.list = <<>>
  BY <1>1, PlaceFeatureIs DEF Placing, Known
<1>2. CASE w.list # <<>>
  <2>1. PICK id : id = Last(w.list) /\ id \in Known
    BY <1>2, PlacingParts
  <2>2. PICK before : before = f[PlacingBefore(w)] /\ before = g[PlacingBefore(w)] /\ before \in Seq(Known)
    BY <1>2, PlacingParts
  <2>3. PICK after : after = f[PlacingUnder(id, before)] /\ after = g[PlacingUnder(id, before)] /\ after \in Seq(Known)
    BY <1>2, <2>1, <2>2, PlacingParts
  <2>4. PICK longer : longer = Append(after, id) /\ longer \in Seq(Known)
    BY <2>1, <2>3, Appended
  <2>5. placeFeature(ids, f, w) = IF id \in ToSet(before) \/ id \notin ids THEN before ELSE longer
    BY <1>2, <2>1, <2>2, <2>3, <2>4, PlaceFeatureIs
  <2>6. placeFeature(ids, g, w) = IF id \in ToSet(before) \/ id \notin ids THEN before ELSE longer
    BY <1>2, <2>1, <2>2, <2>3, <2>4, PlaceFeatureIs
  <2> QED
    BY <2>2, <2>4, <2>5, <2>6
<1> QED
  BY <1>1, <1>2

LEMMA PlacingHas ==
  ASSUME NEW ids
  PROVE  \E f \in [Placing -> Seq(Known)] : f = [w \in Placing |-> placeFeature(ids, f, w)]
<1> DEFINE S == Placing
           V == Seq(Known)
           Body == [f \in [S -> V] |-> [w \in S |-> placeFeature(ids, f, w)]]
           rank == [w \in S |-> PlacingRank(w)]
<1>1. V # {}
  BY EmptySeq
<1>2. rank \in [S -> Nat]
  BY PlacingRankNatural
<1>3. ASSUME NEW f \in [S -> V], NEW g \in [S -> V], NEW w \in S, \A u \in S : rank[u] < rank[w] => f[u] = g[u]
      PROVE  Body[f][w] = Body[g][w]
  <2>1. \A u \in S : PlacingRank(u) < PlacingRank(w) => f[u] = g[u]
    BY <1>3
  <2>2. placeFeature(ids, f, w) = placeFeature(ids, g, w)
    BY <2>1, PlaceFeatureLooks
  <2> QED
    BY <2>2
<1>4. Body \in [[S -> V] -> [S -> V]]
  <2>1. ASSUME NEW f \in [S -> V], NEW w \in S PROVE placeFeature(ids, f, w) \in V
    BY PlaceFeatureLooks
  <2> QED
    BY <2>1
<1>5. WellFounded(S, V, rank, Body)
  BY <1>1, <1>2, <1>3, <1>4 DEF WellFounded
<1>6. \E f \in [S -> V] : f = Body[f]
  <2> HIDE DEF S, V, rank, Body
  <2> QED
    BY <1>5, RecursionHolds
<1> QED
  BY <1>6

\* Features are ordered among themselves.
LEMMA OrderIn ==
  ASSUME NEW ids, ids \subseteq Known
  PROVE  order(ids) \in Seq(ids)
<1> DEFINE f == CHOOSE f : f = [w \in Placing |-> placeFeature(ids, f, w)]
<1>1. f = [w \in Placing |-> placeFeature(ids, f, w)]
  BY PlacingHas
<1>2. PICK g : g = f /\ g = [w \in Placing |-> placeFeature(ids, g, w)]
  BY <1>1
<1>3. PICK start : start = [list |-> Registered, ordered |-> <<>>]
  OBVIOUS
<1>4. start \in Placing /\ start.ordered = <<>>
  <2>1. <<>> \in Seq(Known) /\ Registered \in Seq(Known)
    BY EmptySeq, CatalogueTyped DEF Known
  <2> QED
    BY <1>3, <2>1 DEF Placing, Known
<1>5. order(ids) = g[start]
  BY <1>2, <1>3 DEF order
<1> HIDE DEF f
<1> DEFINE Fitting(w) == g[w] \in Seq(Known) /\ ToSet(g[w]) \subseteq ToSet(w.ordered) \cup ids
           T == {n \in Nat : \A w \in Placing : PlacingRank(w) = n => Fitting(w)}
<1>6. ASSUME NEW w \in Placing, \A v \in Placing : PlacingRank(v) < PlacingRank(w) => Fitting(v)
      PROVE  Fitting(w)
  <2>0. g[w] = placeFeature(ids, g, w)
    BY <1>2
  <2>1. CASE w.list = <<>>
    <3>1. g[w] = w.ordered
      BY <2>0, <2>1, PlaceFeatureIs
    <3> QED
      BY <3>1 DEF Placing, Known
  <2>2. CASE w.list # <<>>
    <3>1. PICK id : id = Last(w.list) /\ id \in Known
      BY <2>2, PlacingParts
    <3>2. PICK before : before = g[PlacingBefore(w)] /\ before \in Seq(Known) /\ ToSet(before) \subseteq ToSet(w.ordered) \cup ids
      BY <1>6, <2>2, PlacingParts
    <3>3. PICK after : after = g[PlacingUnder(id, before)] /\ after \in Seq(Known) /\ ToSet(after) \subseteq ToSet(before) \cup ids
      BY <1>6, <2>2, <3>1, <3>2, PlacingParts
    <3>4. PICK longer : longer = Append(after, id) /\ longer \in Seq(Known) /\ ToSet(longer) = ToSet(after) \cup {id}
      <4>1. PICK longer : longer = Append(after, id)
        OBVIOUS
      <4>2. longer \in Seq(Known) /\ LastAdded(longer, after, id)
        BY <3>1, <3>3, <4>1, Appended
      <4>3. ToSet(longer) = ToSet(after) \cup {id}
        BY <4>2, LastAddedSet
      <4> QED
        BY <4>1, <4>2, <4>3
    <3>5. g[w] = IF id \in ToSet(before) \/ id \notin ids THEN before ELSE longer
      BY <2>0, <2>2, <3>1, <3>2, <3>3, <3>4, PlaceFeatureIs
    <3> QED
      BY <3>2, <3>3, <3>4, <3>5
  <2> QED
    BY <2>1, <2>2
<1>7. \A n \in Nat : (\A m \in Nat : m < n => m \in T) => n \in T
  <2> HIDE DEF Fitting
  <2> QED
    BY <1>6, PlacingRankNatural
<1>8. Nat \subseteq T
  <2> HIDE DEF T
  <2> QED
    BY <1>7, Climb
<1>9. Fitting(start)
  <2> HIDE DEF Fitting
  <2> QED
    BY <1>4, <1>8, PlacingRankNatural
<1>10. g[start] \in Seq(Known) /\ ToSet(g[start]) \subseteq ids
  <2>1. ToSet(<<>>) = {}
    BY DEF ToSet
  <2> QED
    BY <1>4, <1>9, <2>1
<1>11. PICK list : list = g[start] /\ list \in Seq(Known) /\ ToSet(list) \subseteq ids
  BY <1>10
<1>12. \A n \in 1 .. Len(list) : list[n] \in ids
  BY <1>11, LenProperties DEF ToSet
<1>13. list \in Seq(ids)
  <2>1. Len(list) \in Nat /\ list \in [1 .. Len(list) -> Known]
    BY <1>11, LenProperties
  <2>2. list \in [1 .. Len(list) -> ids]
    BY <1>12, <2>1
  <2> QED
    BY <2>1, <2>2
<1> QED
  BY <1>5, <1>11, <1>13

-----------------------------------------------------------------------------
\* FeaturePlan: what is added.

Options(list) == UNION {ToSet(r) : r \in ToSet(list)}
IncludingRank(w) == Height(Options(w.list)) * 4 + Len(w.list)
IncludingBefore(w) == [w EXCEPT !.list = Front(@)]
IncludingUnder(r, before) == [list |-> Features[Head(r)].requires, planned |-> before]

LEMMA FirstOption ==
  ASSUME NEW r \in Requirements
  PROVE  Head(r) \in Known /\ Head(r) \in ToSet(r) /\ ToSet(r) \subseteq Known
<1>1. r \in Seq(Known) /\ r # <<>>
  BY DEF Requirements, Known
<1>2. PICK n : n = Len(r) /\ n \in Nat /\ n # 0 /\ DOMAIN r = 1 .. n
  BY <1>1, LenProperties
<1>3. 1 \in DOMAIN r /\ Head(r) = r[1]
  BY <1>1, <1>2
<1> QED
  BY <1>1, <1>3, ToSetIn DEF ToSet

LEMMA IncludingParts ==
  ASSUME NEW w \in Including, w.list # <<>>
  PROVE  /\ Last(w.list) \in Requirements /\ LastAdded(w.list, Front(w.list), Last(w.list))
         /\ IncludingBefore(w) \in Including /\ IncludingBefore(w).planned = w.planned /\ IncludingBefore(w).list = Front(w.list)
         /\ IncludingRank(IncludingBefore(w)) < IncludingRank(w)
         /\ \A before \in Seq(Known) : /\ IncludingUnder(Last(w.list), before) \in Including
                                     /\ IncludingUnder(Last(w.list), before).planned = before
                                     /\ IncludingUnder(Last(w.list), before).list = Features[Head(Last(w.list))].requires
                                     /\ IncludingRank(IncludingUnder(Last(w.list), before)) < IncludingRank(w)
<1>1. w.list \in Seq(Requirements) /\ w.planned \in Seq(Known) /\ w = [list |-> w.list, planned |-> w.planned]
  BY DEF Including, Known
<1>2. PICK list : list = w.list
  OBVIOUS
<1>3. PICK r, front : r = Last(list) /\ front = Front(list)
  OBVIOUS
<1>4. r \in Requirements /\ front \in Seq(Requirements) /\ Len(front) = Len(list) - 1 /\ Len(list) \in Nat /\ LastAdded(list, front, r)
  BY <1>1, <1>2, <1>3, Fronted
<1>5. ToSet(list) = ToSet(front) \cup {r} /\ ToSet(list) \subseteq Requirements
  <2>1. ToSet(list) = ToSet(front) \cup {r}
    BY <1>4, LastAddedSet
  <2>2. ToSet(list) \subseteq Requirements
    BY <1>1, <1>2, ToSetIn
  <2> QED
    BY <2>1, <2>2
<1>6. Len(front) \in Nat /\ Len(front) < Len(list) /\ Len(list) > 0
  BY <1>4, LenProperties
<1>7. PICK v : v = IncludingBefore(w)
  OBVIOUS
<1>8. v = [list |-> front, planned |-> w.planned]
  BY <1>1, <1>2, <1>3, <1>7 DEF IncludingBefore
<1>9. v \in Including /\ v.planned = w.planned /\ v.list = front
  BY <1>1, <1>4, <1>8 DEF Including, Known
<1>10. IncludingRank(v) < IncludingRank(w)
  <2>1. Options(front) \subseteq Options(list)
    BY <1>5 DEF Options
  <2>2. Height(Options(front)) <= Height(Options(list)) /\ Height(Options(front)) \in 0 .. 4 /\ Height(Options(list)) \in 0 .. 4
    BY <2>1, HeightOf
  <2> QED
    BY <1>2, <1>6, <1>9, <2>2, <1>4, RanksDrop DEF IncludingRank
<1>11. ASSUME NEW before \in Seq(Known)
       PROVE  /\ IncludingUnder(r, before) \in Including /\ IncludingUnder(r, before).planned = before
              /\ IncludingUnder(r, before).list = Features[Head(r)].requires
              /\ IncludingRank(IncludingUnder(r, before)) < IncludingRank(w)
  <2>1. PICK id, needs : id = Head(r) /\ needs = Features[id].requires
    OBVIOUS
  <2>2. id \in Known /\ id \in Options(list) /\ Options(list) \subseteq Known
    BY <1>4, <1>5, <2>1, FirstOption DEF Options
  <2>3. needs \in Seq(Requirements) /\ Len(needs) <= 3 /\ Len(needs) \in Nat /\ Options(needs) \subseteq Required({id})
    <3>1. needs \in Seq(Requirements) /\ Len(needs) <= 3 /\ \A q \in ToSet(needs) : ToSet(q) \subseteq Required({id})
      BY <2>1, <2>2, RequiresOf
    <3>2. Len(needs) \in Nat
      BY <3>1, LenProperties
    <3>3. Options(needs) \subseteq Required({id})
      BY <3>1 DEF Options
    <3> QED
      BY <3>1, <3>2, <3>3
  <2>4. PICK u : u = IncludingUnder(r, before)
    OBVIOUS
  <2>5. u = [list |-> needs, planned |-> before]
    BY <2>1, <2>4 DEF IncludingUnder
  <2>6. u \in Including /\ u.planned = before /\ u.list = needs
    BY <2>3, <2>5 DEF Including, Known
  <2>7. /\ Height(Options(needs)) < Height(Options(list)) /\ Height(Options(needs)) \in 0 .. 4 /\ Height(Options(list)) \in 0 .. 4
    <3>1. Height(Options(needs)) <= Height(Required({id}))
      BY <2>3, HeightOf
    <3>2. Height(Required({id})) < Height(Options(list))
      BY <2>2, HeightOf
    <3>3. Height(Options(needs)) \in 0 .. 4 /\ Height(Options(list)) \in 0 .. 4 /\ Height(Required({id})) \in 0 .. 4
      BY HeightOf
    <3> QED
      BY <3>1, <3>2, <3>3
  <2>8. IncludingRank(u) < IncludingRank(w)
    BY <1>2, <1>4, <1>6, <2>3, <2>6, <2>7, RanksDrop DEF IncludingRank
  <2> QED
    BY <2>1, <2>4, <2>6, <2>8
<1> QED
  BY <1>2, <1>3, <1>4, <1>7, <1>9, <1>10, <1>11

LEMMA IncludingRankNatural == \A w \in Including : IncludingRank(w) \in Nat
<1>1. ASSUME NEW w \in Including PROVE IncludingRank(w) \in Nat
  <2>1. Len(w.list) \in Nat /\ Height(Options(w.list)) \in 0 .. 4
    BY HeightOf, LenProperties DEF Including
  <2> QED
    BY <2>1, RanksDrop DEF IncludingRank
<1> QED
  BY <1>1

LEMMA IncludeIs ==
  ASSUME NEW installed, NEW f, NEW w
  PROVE  LET r == Last(w.list)
             before == f[IncludingBefore(w)]
         IN include(installed, f, w) = IF w.list = <<>> THEN w.planned
                                       ELSE IF satisfied(r, installed \cup ToSet(before)) THEN before
                                       ELSE Append(f[IncludingUnder(r, before)], Head(r))
BY DEF include, IncludingBefore, IncludingUnder

LEMMA IncludeLooks ==
  ASSUME NEW installed, NEW f \in [Including -> Seq(Known)], NEW g \in [Including -> Seq(Known)], NEW w \in Including,
         \A v \in Including : IncludingRank(v) < IncludingRank(w) => f[v] = g[v]
  PROVE  include(installed, f, w) = include(installed, g, w) /\ include(installed, f, w) \in Seq(Known)
<1>1. CASE w.list = <<>>
  BY <1>1, IncludeIs DEF Including, Known
<1>2. CASE w.list # <<>>
  <2>1. PICK r, id : r = Last(w.list) /\ id = Head(r) /\ id \in Known
    BY <1>2, IncludingParts, FirstOption
  <2>2. PICK before : before = f[IncludingBefore(w)] /\ before = g[IncludingBefore(w)] /\ before \in Seq(Known)
    BY <1>2, IncludingParts
  <2>3. PICK after : after = f[IncludingUnder(r, before)] /\ after = g[IncludingUnder(r, before)] /\ after \in Seq(Known)
    BY <1>2, <2>1, <2>2, IncludingParts
  <2>4. PICK longer : longer = Append(after, id) /\ longer \in Seq(Known)
    BY <2>1, <2>3, Appended
  <2>5. include(installed, f, w) = IF satisfied(r, installed \cup ToSet(before)) THEN before ELSE longer
    BY <1>2, <2>1, <2>2, <2>3, <2>4, IncludeIs
  <2>6. include(installed, g, w) = IF satisfied(r, installed \cup ToSet(before)) THEN before ELSE longer
    BY <1>2, <2>1, <2>2, <2>3, <2>4, IncludeIs
  <2> QED
    BY <2>2, <2>4, <2>5, <2>6
<1> QED
  BY <1>1, <1>2

LEMMA IncludingHas ==
  ASSUME NEW installed
  PROVE  \E f \in [Including -> Seq(Known)] : f = [w \in Including |-> include(installed, f, w)]
<1> DEFINE S == Including
           V == Seq(Known)
           Body == [f \in [S -> V] |-> [w \in S |-> include(installed, f, w)]]
           rank == [w \in S |-> IncludingRank(w)]
<1>1. V # {}
  BY EmptySeq
<1>2. rank \in [S -> Nat]
  BY IncludingRankNatural
<1>3. ASSUME NEW f \in [S -> V], NEW g \in [S -> V], NEW w \in S, \A u \in S : rank[u] < rank[w] => f[u] = g[u]
      PROVE  Body[f][w] = Body[g][w]
  <2>1. \A u \in S : IncludingRank(u) < IncludingRank(w) => f[u] = g[u]
    BY <1>3
  <2>2. include(installed, f, w) = include(installed, g, w)
    BY <2>1, IncludeLooks
  <2> QED
    BY <2>2
<1>4. Body \in [[S -> V] -> [S -> V]]
  <2>1. ASSUME NEW f \in [S -> V], NEW w \in S PROVE include(installed, f, w) \in V
    BY IncludeLooks
  <2> QED
    BY <2>1
<1>5. WellFounded(S, V, rank, Body)
  BY <1>1, <1>2, <1>3, <1>4 DEF WellFounded
<1>6. \E f \in [S -> V] : f = Body[f]
  <2> HIDE DEF S, V, rank, Body
  <2> QED
    BY <1>5, RecursionHolds
<1> QED
  BY <1>6

\* What including a list of requirements comes to: all of them, and of what is new, are met, and
\* nothing is new when all are met.
Includes(installed, w, planned) ==
  /\ planned \in Seq(Known) /\ ToSet(w.planned) \subseteq ToSet(planned)
  /\ \A r \in ToSet(w.list) : satisfied(r, installed \cup ToSet(planned))
  /\ \A id \in ToSet(planned) \ ToSet(w.planned) : Unmet(id, installed \cup ToSet(planned)) = {}
  /\ (\A r \in ToSet(w.list) : satisfied(r, installed)) => planned = w.planned

LEMMA StaysMet ==
  ASSUME NEW few, NEW many, few \subseteq many
  PROVE  /\ \A r : satisfied(r, few) => satisfied(r, many)
         /\ \A id : Unmet(id, few) = {} => Unmet(id, many) = {}
<1>1. \A r : satisfied(r, few) => satisfied(r, many)
  BY DEF satisfied
<1> QED
  BY <1>1 DEF Unmet

LEMMA IncludeIncludes ==
  ASSUME NEW installed, NEW f, NEW w \in Including,
         \A v \in Including : IncludingRank(v) < IncludingRank(w) => Includes(installed, v, f[v])
  PROVE  Includes(installed, w, include(installed, f, w))
<1>1. CASE w.list = <<>>
  <2>1. include(installed, f, w) = w.planned /\ ToSet(w.list) = {} /\ w.planned \in Seq(Known)
    <3>1. include(installed, f, w) = w.planned
      BY <1>1, IncludeIs
    <3>2. ToSet(<<>>) = {}
      BY DEF ToSet
    <3>3. w.planned \in Seq(Known)
      BY DEF Including, Known
    <3> QED
      BY <1>1, <3>1, <3>2, <3>3
  <2> QED
    BY <2>1 DEF Includes
<1>2. CASE w.list # <<>>
  <2>1. PICK r, id : r = Last(w.list) /\ id = Head(r) /\ id \in Known /\ id \in ToSet(r)
    BY <1>2, IncludingParts, FirstOption
  <2>2. ToSet(w.list) = ToSet(Front(w.list)) \cup {r}
    <3>1. LastAdded(w.list, Front(w.list), r)
      BY <1>2, <2>1, IncludingParts
    <3> QED
      BY <3>1, LastAddedSet
  <2>3. PICK before : before = f[IncludingBefore(w)]
    OBVIOUS
  <2>4. /\ before \in Seq(Known) /\ ToSet(w.planned) \subseteq ToSet(before)
        /\ \A q \in ToSet(Front(w.list)) : satisfied(q, installed \cup ToSet(before))
        /\ \A x \in ToSet(before) \ ToSet(w.planned) : Unmet(x, installed \cup ToSet(before)) = {}
        /\ (\A q \in ToSet(Front(w.list)) : satisfied(q, installed)) => before = w.planned
    <3>1. Includes(installed, IncludingBefore(w), before)
      BY <1>2, <2>3, IncludingParts
    <3>2. IncludingBefore(w).planned = w.planned /\ IncludingBefore(w).list = Front(w.list)
      BY <1>2, IncludingParts
    <3> QED
      BY <3>1, <3>2 DEF Includes
  <2>5. PICK after : after = f[IncludingUnder(r, before)]
    OBVIOUS
  <2>6. /\ after \in Seq(Known) /\ ToSet(before) \subseteq ToSet(after)
        /\ \A q \in ToSet(Features[id].requires) : satisfied(q, installed \cup ToSet(after))
        /\ \A x \in ToSet(after) \ ToSet(before) : Unmet(x, installed \cup ToSet(after)) = {}
    <3>1. PICK u : u = IncludingUnder(r, before)
      OBVIOUS
    <3>2. u \in Including /\ u.planned = before /\ u.list = Features[id].requires /\ IncludingRank(u) < IncludingRank(w)
      BY <1>2, <2>1, <2>4, <3>1, IncludingParts
    <3>3. Includes(installed, u, after)
      BY <2>5, <3>1, <3>2
    <3> QED
      BY <3>2, <3>3 DEF Includes
  <2>7. PICK longer : longer = Append(after, id)
    OBVIOUS
  <2>8. longer \in Seq(Known) /\ ToSet(longer) = ToSet(after) \cup {id}
    <3>1. longer \in Seq(Known) /\ LastAdded(longer, after, id)
      BY <2>1, <2>6, <2>7, Appended
    <3> QED
      BY <3>1, LastAddedSet
  <2>9. include(installed, f, w) = IF satisfied(r, installed \cup ToSet(before)) THEN before ELSE longer
    BY <1>2, <2>1, <2>3, <2>5, <2>7, IncludeIs
  <2>10. CASE satisfied(r, installed \cup ToSet(before))
    <3>1. include(installed, f, w) = before
      BY <2>9, <2>10
    <3>2. Includes(installed, w, before)
      BY <2>2, <2>4, <2>10 DEF Includes
    <3> QED
      BY <3>1, <3>2
  <2>11. CASE ~ satisfied(r, installed \cup ToSet(before))
    <3>1. include(installed, f, w) = longer
      BY <2>9, <2>11
    <3>2. /\ installed \cup ToSet(before) \subseteq installed \cup ToSet(longer)
          /\ installed \cup ToSet(after) \subseteq installed \cup ToSet(longer)
      BY <2>6, <2>8
    <3>3. satisfied(r, installed \cup ToSet(longer))
      BY <2>1, <2>8 DEF satisfied
    <3>4. \A q \in ToSet(w.list) : satisfied(q, installed \cup ToSet(longer))
      BY <2>2, <2>4, <3>2, <3>3, StaysMet
    <3>5. Unmet(id, installed \cup ToSet(longer)) = {}
      <4>1. Unmet(id, installed \cup ToSet(after)) = {}
        BY <2>6 DEF Unmet
      <4> QED
        BY <3>2, <4>1, StaysMet
    <3>6. ASSUME NEW x \in ToSet(longer) \ ToSet(w.planned) PROVE Unmet(x, installed \cup ToSet(longer)) = {}
      <4>1. CASE x = id
        BY <3>5, <4>1
      <4>2. CASE x \in ToSet(before)
        <5>1. Unmet(x, installed \cup ToSet(before)) = {}
          BY <2>4, <3>6, <4>2
        <5> QED
          BY <3>2, <5>1, StaysMet
      <4>3. CASE x \in ToSet(after) \ ToSet(before)
        <5>1. Unmet(x, installed \cup ToSet(after)) = {}
          BY <2>6, <4>3
        <5> QED
          BY <3>2, <5>1, StaysMet
      <4> QED
        BY <2>8, <4>1, <4>2, <4>3
    <3>7. ~ (\A q \in ToSet(w.list) : satisfied(q, installed))
      <4>1. installed \subseteq installed \cup ToSet(before)
        OBVIOUS
      <4> QED
        BY <2>2, <2>11, <4>1, StaysMet
    <3>8. ToSet(w.planned) \subseteq ToSet(longer)
      BY <2>4, <2>6, <2>8
    <3>9. Includes(installed, w, longer)
      BY <2>8, <3>4, <3>6, <3>7, <3>8 DEF Includes
    <3> QED
      BY <3>1, <3>9
  <2> QED
    BY <2>10, <2>11
<1> QED
  BY <1>1, <1>2

LEMMA ExpandIn ==
  ASSUME NEW request \in Seq(Known \cup DOMAIN authPresets)
  PROVE  expand(request) \in Seq(Known)
<1> DEFINE members(id) == IF id \in DOMAIN authPresets THEN authPresets[id] ELSE <<id>>
<1>1. PICK lists : lists = [n \in DOMAIN request |-> members(request[n])]
  OBVIOUS
<1>2. PICK n : n = Len(request) /\ n \in Nat /\ DOMAIN request = 1 .. n /\ \A k \in 1 .. n : request[k] \in Known \cup DOMAIN authPresets
  BY LenProperties, ElementOfSeq
<1>3. ASSUME NEW id \in Known \cup DOMAIN authPresets PROVE members(id) \in Seq(Known)
  <2>1. CASE id \in DOMAIN authPresets
    BY <2>1, CatalogueTyped DEF Known
  <2>2. CASE id \notin DOMAIN authPresets
    BY <2>2
  <2> QED
    BY <2>1, <2>2
<1> HIDE DEF members
<1>4. PICK all : all = Seq(Known)
  OBVIOUS
<1>5. lists \in [1 .. n -> all]
  BY <1>1, <1>2, <1>3, <1>4
<1>6. lists \in Seq(all)
  BY <1>2, <1>5
<1>7. expand(request) = FlattenSeq(lists)
  BY <1>1 DEF expand, members
<1> QED
  BY <1>4, <1>6, <1>7, FlattenRange

LEMMA AskedIs ==
  ASSUME NEW request \in Seq(Known \cup DOMAIN authPresets)
  PROVE  /\ Asked(request) \in Seq(Requirements)
         /\ \A r \in ToSet(Asked(request)) : \E id \in ToSet(expand(request)) : ToSet(r) = {id}
         /\ \A id \in ToSet(expand(request)) : \E r \in ToSet(Asked(request)) : ToSet(r) = {id}
<1>1. PICK wanted : wanted = expand(request) /\ wanted \in Seq(Known)
  BY ExpandIn
<1>2. PICK n : n = Len(wanted) /\ n \in Nat /\ DOMAIN wanted = 1 .. n /\ \A k \in 1 .. n : wanted[k] \in Known
  BY <1>1, LenProperties, ElementOfSeq
<1>3. PICK asked : asked = Asked(request)
  OBVIOUS
<1>4. asked = [k \in 1 .. n |-> <<wanted[k]>>]
  BY <1>1, <1>2, <1>3 DEF Asked
<1>5. ASSUME NEW id \in Known PROVE <<id>> \in Requirements /\ ToSet(<<id>>) = {id}
  <2>1. <<id>> \in Seq(Known) /\ <<id>> # <<>>
    OBVIOUS
  <2>2. DOMAIN <<id>> = 1 .. 1 /\ <<id>>[1] = id
    OBVIOUS
  <2> QED
    BY <2>1, <2>2 DEF Requirements, Known, ToSet
<1>6. asked \in [1 .. n -> Requirements]
  BY <1>2, <1>4, <1>5
<1>7. asked \in Seq(Requirements) /\ DOMAIN asked = 1 .. n
  BY <1>2, <1>6
<1>8. \A k \in 1 .. n : asked[k] \in ToSet(asked) /\ ToSet(asked[k]) = {wanted[k]} /\ wanted[k] \in ToSet(wanted)
  BY <1>2, <1>4, <1>5, <1>7 DEF ToSet
<1>9. \A r \in ToSet(asked) : \E k \in 1 .. n : r = asked[k]
  BY <1>7 DEF ToSet
<1>10. \A id \in ToSet(wanted) : \E k \in 1 .. n : id = wanted[k]
  BY <1>2 DEF ToSet
<1>11. ASSUME NEW r \in ToSet(asked) PROVE \E id \in ToSet(wanted) : ToSet(r) = {id}
  <2>1. PICK k \in 1 .. n : r = asked[k]
    BY <1>9
  <2>2. wanted[k] \in ToSet(wanted) /\ ToSet(r) = {wanted[k]}
    BY <1>8, <2>1
  <2> QED
    BY <2>2
<1>12. ASSUME NEW id \in ToSet(wanted) PROVE \E r \in ToSet(asked) : ToSet(r) = {id}
  <2>1. PICK k \in 1 .. n : id = wanted[k]
    BY <1>10
  <2>2. asked[k] \in ToSet(asked) /\ ToSet(asked[k]) = {id}
    BY <1>8, <2>1
  <2> QED
    BY <2>2
<1> QED
  BY <1>1, <1>3, <1>7, <1>11, <1>12

\* What is planned meets what it requires together with what is installed, and all that is asked for
\* is there; nothing is planned when it was there already.
LEMMA PlannedIs ==
  ASSUME NEW installed, NEW request \in Seq(Known \cup DOMAIN authPresets)
  PROVE  /\ Planned(installed, request) \subseteq Known
         /\ ToSet(expand(request)) \subseteq installed \cup Planned(installed, request)
         /\ \A id \in Planned(installed, request) : Unmet(id, installed \cup Planned(installed, request)) = {}
         /\ ToSet(expand(request)) \subseteq installed => Planned(installed, request) = {}
<1> DEFINE f == CHOOSE f : f = [w \in Including |-> include(installed, f, w)]
<1>1. f = [w \in Including |-> include(installed, f, w)]
  BY IncludingHas
<1>2. PICK g : g = f /\ g = [w \in Including |-> include(installed, g, w)]
  BY <1>1
<1>3. PICK start : start = [list |-> Asked(request), planned |-> <<>>]
  OBVIOUS
<1>4. start \in Including /\ start.list = Asked(request) /\ start.planned = <<>>
  <2>1. <<>> \in Seq(Known) /\ Asked(request) \in Seq(Requirements)
    BY EmptySeq, AskedIs
  <2> QED
    BY <1>3, <2>1 DEF Including, Known
<1>5. Planned(installed, request) = ToSet(g[start])
  BY <1>2, <1>3 DEF Planned
<1> HIDE DEF f
<1> DEFINE T == {n \in Nat : \A w \in Including : IncludingRank(w) = n => Includes(installed, w, g[w])}
<1>6. ASSUME NEW w \in Including, \A v \in Including : IncludingRank(v) < IncludingRank(w) => Includes(installed, v, g[v])
      PROVE  Includes(installed, w, g[w])
  <2>1. g[w] = include(installed, g, w)
    BY <1>2
  <2>2. Includes(installed, w, include(installed, g, w))
    BY <1>6, IncludeIncludes
  <2> QED
    BY <2>1, <2>2
<1>7. \A n \in Nat : (\A m \in Nat : m < n => m \in T) => n \in T
  BY <1>6, IncludingRankNatural
<1>8. Nat \subseteq T
  <2> HIDE DEF T
  <2> QED
    BY <1>7, Climb
<1>9. Includes(installed, start, g[start])
  BY <1>4, <1>8, IncludingRankNatural
<1>10. PICK planned : planned = g[start]
  OBVIOUS
<1>11. ToSet(<<>>) = {}
  BY DEF ToSet
<1>12. /\ planned \in Seq(Known)
       /\ \A r \in ToSet(Asked(request)) : satisfied(r, installed \cup ToSet(planned))
       /\ \A id \in ToSet(planned) : Unmet(id, installed \cup ToSet(planned)) = {}
       /\ (\A r \in ToSet(Asked(request)) : satisfied(r, installed)) => planned = <<>>
  BY <1>4, <1>9, <1>10, <1>11 DEF Includes
<1> DEFINE wanted == ToSet(expand(request))
           asked == ToSet(Asked(request))
<1>13. (\A r \in asked : \E id \in wanted : ToSet(r) = {id}) /\ \A id \in wanted : \E r \in asked : ToSet(r) = {id}
  BY AskedIs
<1>14. \A id, all : (\E r \in asked : ToSet(r) = {id} /\ satisfied(r, all)) => id \in all
  BY DEF satisfied
<1>15. \A r, id, all : ToSet(r) = {id} /\ id \in all => satisfied(r, all)
  BY DEF satisfied
<1>16. ToSet(expand(request)) \subseteq installed \cup ToSet(planned)
  <2> HIDE DEF wanted, asked
  <2>1. wanted \subseteq installed \cup ToSet(planned)
    BY <1>12, <1>13, <1>14 DEF asked
  <2> QED
    BY <2>1 DEF wanted
<1>17. ToSet(expand(request)) \subseteq installed => ToSet(planned) = {}
  <2> HIDE DEF wanted, asked
  <2>1. wanted \subseteq installed => \A r \in asked : satisfied(r, installed)
    BY <1>13, <1>15
  <2> QED
    BY <1>11, <1>12, <2>1 DEF wanted, asked
<1>18. ToSet(planned) \subseteq Known
  BY <1>12, ToSetIn
<1> QED
  BY <1>5, <1>10, <1>12, <1>16, <1>17, <1>18

\* A removal that cascades leaves nothing unmet.
LEMMA CascadedIs ==
  ASSUME NEW installed, IsFiniteSet(installed), NEW direct \in SUBSET installed
  PROVE  /\ cascaded(direct, installed) \subseteq installed /\ direct \subseteq cascaded(direct, installed)
         /\ Stranded(installed, cascaded(direct, installed)) = {}
<1> DEFINE S == SUBSET installed
           Turn(f, gone) == IF Stranded(installed, gone) = {} THEN gone ELSE f[gone \cup Stranded(installed, gone)]
           Body == [f \in [S -> S] |-> [gone \in S |-> Turn(f, gone)]]
           rank == [gone \in S |-> Cardinality(installed \ gone)]
<1>1. ASSUME NEW gone \in S, Stranded(installed, gone) # {}
      PROVE  gone \cup Stranded(installed, gone) \in S /\ rank[gone \cup Stranded(installed, gone)] < rank[gone]
  <2>1. PICK more : more = gone \cup Stranded(installed, gone)
    OBVIOUS
  <2>2. more \in S /\ gone \subseteq more /\ more # gone
    BY <1>1, <2>1 DEF Stranded
  <2>3. PICK rest, left : rest = installed \ gone /\ left = installed \ more
    OBVIOUS
  <2>4. left \in SUBSET rest /\ left # rest /\ IsFiniteSet(rest)
    BY <2>2, <2>3, FS_Subset
  <2>5. Cardinality(left) <= Cardinality(rest) /\ Cardinality(left) # Cardinality(rest)
    BY <2>4, FS_Subset
  <2>6. Cardinality(left) \in Nat /\ Cardinality(rest) \in Nat
    BY <2>4, FS_Subset, FS_CardinalityType
  <2> QED
    BY <2>1, <2>2, <2>3, <2>5, <2>6
<1>2. rank \in [S -> Nat]
  <2>1. \A gone \in S : Cardinality(installed \ gone) \in Nat
    BY FS_Difference, FS_CardinalityType
  <2> QED
    BY <2>1
<1>3. ASSUME NEW f \in [S -> S], NEW gone \in S PROVE Turn(f, gone) \in S
  BY <1>1
<1>4. ASSUME NEW f \in [S -> S], NEW g \in [S -> S], NEW gone \in S, \A h \in S : rank[h] < rank[gone] => f[h] = g[h]
      PROVE  Turn(f, gone) = Turn(g, gone)
  BY <1>1, <1>4
<1> HIDE DEF Turn
<1>5. Body \in [[S -> S] -> [S -> S]] /\ S # {}
  BY <1>3
<1>6. \A f, g \in [S -> S], x \in S : (\A y \in S : rank[y] < rank[x] => f[y] = g[y]) => Body[f][x] = Body[g][x]
  BY <1>4
<1>7. \E f \in [S -> S] : f = Body[f]
  <2>1. WellFounded(S, S, rank, Body)
    BY <1>2, <1>5, <1>6 DEF WellFounded
  <2> HIDE DEF S, rank, Body
  <2> QED
    BY <2>1, RecursionHolds
<1> DEFINE f == CHOOSE f : f = [gone \in S |-> Turn(f, gone)]
<1>8. f = [gone \in S |-> Turn(f, gone)]
  BY <1>7
<1>9. cascaded(direct, installed) = f[direct]
  BY DEF cascaded, Turn
<1>10. PICK g : g = f /\ g = [gone \in S |-> Turn(g, gone)]
  BY <1>8
<1> HIDE DEF f
<1> DEFINE Fitting(gone) == g[gone] \subseteq installed /\ gone \subseteq g[gone] /\ Stranded(installed, g[gone]) = {}
           T == {n \in Nat : \A gone \in S : rank[gone] = n => Fitting(gone)}
<1>11. ASSUME NEW gone \in S, \A h \in S : rank[h] < rank[gone] => Fitting(h)
       PROVE  Fitting(gone)
  <2>1. g[gone] = IF Stranded(installed, gone) = {} THEN gone ELSE g[gone \cup Stranded(installed, gone)]
    BY <1>10 DEF Turn
  <2>2. CASE Stranded(installed, gone) = {}
    BY <2>1, <2>2
  <2>3. CASE Stranded(installed, gone) # {}
    <3>1. PICK more : more = gone \cup Stranded(installed, gone)
      OBVIOUS
    <3>2. more \in S /\ Fitting(more) /\ g[gone] = g[more]
      BY <1>1, <1>11, <2>1, <2>3, <3>1
    <3> QED
      BY <3>1, <3>2
  <2> QED
    BY <2>2, <2>3
<1>12. \A n \in Nat : (\A m \in Nat : m < n => m \in T) => n \in T
  <2> HIDE DEF Fitting, rank
  <2> QED
    BY <1>2, <1>11
<1>13. Nat \subseteq T
  <2> HIDE DEF T
  <2> QED
    BY <1>12, Climb
<1>14. Fitting(direct)
  <2> HIDE DEF Fitting, rank
  <2> QED
    BY <1>2, <1>13
<1> QED
  BY <1>9, <1>10, <1>14

-----------------------------------------------------------------------------
\* FeaturePlan: what is rendered.

Texts == {"template", "scaffold", "generated", "initial", "edited around", "edited", "add", "remove"}
Lines == Known \cup DOMAIN Generated \cup {BlankLine, OwnLine}
Contents == [text : Texts, of : SUBSET Lines]

\* Features that go together.
Fit(ids) == ids \subseteq Known /\ \A id \in ids : Unmet(id, ids) = {} /\ Features[id].conflicts \cap ids = {}
Pristine(id) == [path \in Features[id].files |-> template(id, path)]
Given(m) == m = [features |-> m.features, outputs |-> m.outputs, extra |-> m.extra]
FitManifest(m) ==
  /\ Given(m) /\ Fit(DOMAIN m.features) /\ \A id \in DOMAIN m.features : m.features[id] = Pristine(id)
  /\ DOMAIN m.outputs = OutputPaths(DOMAIN m.features) /\ m.extra \subseteq DOMAIN Generated

GoodDisk(d) ==
  /\ d = [path \in DOMAIN d |-> d[path]]
  /\ \A path \in DOMAIN d : d[path] # NoFile /\ (path # MANIFEST_FILE => d[path] \in Contents)
  /\ FitManifest(readManifest(d))

LEMMA NoFileApart == NoFile \notin Contents
BY DEF NoFile, Contents, Texts

FilePaths == Kinds[1] \cup Kinds[2] \cup Kinds[3] \cup Kinds[4]

LEMMA PathsApart ==
  /\ MANIFEST_FILE \notin FilePaths
  /\ \A id \in Known : /\ Features[id].files \subseteq FilePaths /\ Features[id].files \cap DOMAIN Outputs = {}
                     /\ Features[id].scaffold \subseteq FilePaths /\ Features[id].scaffold \cap DOMAIN Outputs = {}
                     /\ \A other \in Known : Features[id].scaffold \cap Features[other].files = {}
                     /\ ToSet(MigrationFiles) \cap Features[id].files = {}
  /\ DOMAIN Outputs \subseteq FilePaths /\ MANIFEST_FILE \notin DOMAIN Outputs
  /\ ToSet(MigrationFiles) \subseteq FilePaths /\ ToSet(MigrationFiles) \cap DOMAIN Outputs = {}
<1> DEFINE files == UNION {Features[id].files : id \in DOMAIN Features}
           scaffolds == UNION {Features[id].scaffold : id \in DOMAIN Features}
<1>1. PICK a, b, c, e, f, g : /\ a = files /\ b = scaffolds /\ c = DOMAIN Outputs /\ e = ToSet(MigrationFiles) /\ f = {MANIFEST_FILE}
                             /\ g = Kinds[6]
  OBVIOUS
<1>2. Kinds = <<a, b, c, e, f, g>>
  BY <1>1 DEF Kinds
<1>3. Kinds[1] = a /\ Kinds[2] = b /\ Kinds[3] = c /\ Kinds[4] = e /\ Kinds[5] = f
  BY <1>2
<1>4. \A m, n \in 1 .. 6 : m # n => Kinds[m] \cap Kinds[n] = {}
  BY KindsApart
<1>5. 1 \in 1 .. 6 /\ 2 \in 1 .. 6 /\ 3 \in 1 .. 6 /\ 4 \in 1 .. 6 /\ 5 \in 1 .. 6
  OBVIOUS
<1>6. a \cap b = {} /\ a \cap c = {} /\ a \cap e = {} /\ b \cap c = {} /\ c \cap e = {}
  BY <1>3, <1>4, <1>5
<1>7. f \cap a = {} /\ f \cap b = {} /\ f \cap c = {} /\ f \cap e = {}
  BY <1>3, <1>4, <1>5
<1>8. \A id \in Known : Features[id].files \subseteq a /\ Features[id].scaffold \subseteq b
  BY <1>1 DEF Known
<1>9. FilePaths = a \cup b \cup c \cup e
  BY <1>3 DEF FilePaths
<1> QED
  BY <1>1, <1>6, <1>7, <1>8, <1>9

LEMMA RenderIs ==
  ASSUME NEW ids, ids \subseteq Known
  PROVE  /\ OutputPaths(ids) \subseteq DOMAIN Outputs /\ IsFiniteSet(OutputPaths(ids))
         /\ \A extra \in SUBSET DOMAIN Generated, path \in OutputPaths(ids) :
              renderOutputs(ids, extra)[path] \in SUBSET Lines /\ renderOutputs(ids, extra)[path] # {BlankLine}
<1>1. DOMAIN Outputs = {o.path : o \in AllOutputs}
  BY DEF Outputs
<1>2. UNION {Features[id].outputs : id \in ids} \subseteq AllOutputs
  BY DEF AllOutputs, Known
<1>3. OutputPaths(ids) = {o.path : o \in UNION {Features[id].outputs : id \in ids}}
  BY DEF OutputPaths
<1>4. OutputPaths(ids) \subseteq DOMAIN Outputs
  BY <1>1, <1>2, <1>3
<1>5. IsFiniteSet(OutputPaths(ids))
  BY <1>4, CatalogueTyped, FS_Subset
<1>6. ASSUME NEW extra \in SUBSET DOMAIN Generated, NEW path \in OutputPaths(ids)
      PROVE  renderOutputs(ids, extra)[path] \in SUBSET Lines /\ renderOutputs(ids, extra)[path] # {BlankLine}
  <2>1. renderOutputs(ids, extra)[path] \subseteq ids \cup extra
    BY DEF renderOutputs
  <2>2. BlankLine \notin ids \cup extra /\ ids \cup extra \subseteq Lines
    BY LinesApart DEF Lines, Known
  <2> QED
    BY <2>1, <2>2
<1> QED
  BY <1>4, <1>5, <1>6

\* What an output is to be made of.
Rendering(d, ids) == renderOutputs(ids, readManifest(d).extra)

LEMMA UpdatedIs ==
  ASSUME NEW d, GoodDisk(d), NEW ids, ids \subseteq Known, NEW path \in OutputPaths(ids)
  PROVE  /\ Updated(d, path, ids) \in Contents /\ Updated(d, path, ids).of = Rendering(d, ids)[path]
         /\ Updated(d, path, ids).text = IF ~ IsBlock(path) THEN "generated" ELSE IF path \in DOMAIN d THEN d[path].text ELSE "initial"
         /\ Updated(d, path, ids) = [text |-> Updated(d, path, ids).text, of |-> Rendering(d, ids)[path]]
<1>1. PICK made : made = Rendering(d, ids)[path] /\ made \in SUBSET Lines /\ made = renderOutputs(ids, readManifest(d).extra)[path]
  <2>1. readManifest(d).extra \in SUBSET DOMAIN Generated
    BY DEF GoodDisk, FitManifest
  <2> QED
    BY <2>1, RenderIs DEF Rendering
<1>2. path # MANIFEST_FILE
  BY RenderIs, PathsApart
<1>3. CASE ~ IsBlock(path)
  <2>1. Updated(d, path, ids) = [text |-> "generated", of |-> made]
    BY <1>1, <1>3 DEF Updated
  <2>3. PICK new : new = Updated(d, path, ids) /\ new = [text |-> "generated", of |-> made]
    BY <2>1
  <2>4. new \in Contents /\ new.of = made /\ new.text = "generated"
    <3>1. "generated" \in Texts
      BY DEF Texts
    <3>2. new \in [text : Texts, of : SUBSET Lines]
      BY <1>1, <2>3, <3>1
    <3> QED
      BY <2>3, <3>2 DEF Contents
  <2> QED
    BY <1>1, <1>3, <2>3, <2>4
<1>4. CASE IsBlock(path) /\ path \in DOMAIN d
  <2>1. PICK old : old = d[path] /\ old \in Contents
    BY <1>2, <1>4 DEF GoodDisk
  <2>2. Updated(d, path, ids) = [old EXCEPT !.of = made]
    BY <1>1, <1>4, <2>1 DEF Updated, replaceBlock
  <2>3. [old EXCEPT !.of = made] = [text |-> old.text, of |-> made] /\ old.text \in Texts
    BY <2>1 DEF Contents
  <2> QED
    BY <1>1, <1>4, <2>1, <2>2, <2>3 DEF Contents
<1>5. CASE IsBlock(path) /\ path \notin DOMAIN d
  <2>1. Updated(d, path, ids) = [[text |-> "initial", of |-> {}] EXCEPT !.of = made]
    BY <1>1, <1>5 DEF Updated, replaceBlock
  <2>2. Updated(d, path, ids) = [text |-> "initial", of |-> made]
    BY <2>1
  <2>3. PICK new : new = Updated(d, path, ids) /\ new = [text |-> "initial", of |-> made]
    BY <2>2
  <2>4. new \in Contents /\ new.of = made /\ new.text = "initial"
    <3>1. "initial" \in Texts
      BY DEF Texts
    <3>2. new \in [text : Texts, of : SUBSET Lines]
      BY <1>1, <2>3, <3>1
    <3> QED
      BY <2>3, <3>2 DEF Contents
  <2> QED
    BY <1>1, <1>5, <2>3, <2>4
<1> QED
  BY <1>3, <1>4, <1>5

\* doctor finds nothing wrong with an output that is what sync would make it, or but for one blank line.
Right(d, path, made) ==
  /\ path \in DOMAIN d
  /\ IsBlock(path) => HasMarkers(d[path]) /\ readBlock(d[path]) = made[path]
  /\ ~ IsBlock(path) => d[path] = [text |-> "generated", of |-> made[path]]

OneBlank(d, path, ids) ==
  IsBlock(path) /\ path \in DOMAIN d /\ d[path].of = {BlankLine} /\ Updated(d, path, ids) = [d[path] EXCEPT !.of = {}]

LEMMA DiagnoseIs ==
  ASSUME NEW d
  PROVE  diagnose(d) = {path \in OutputPaths(Installed(d)) : ~ Right(d, path, Rendering(d, Installed(d)))}
<1>1. DOMAIN Rendering(d, Installed(d)) = OutputPaths(Installed(d))
  BY DEF Rendering, renderOutputs
<1> QED
  BY <1>1 DEF diagnose, Right, Installed, Rendering

LEMMA RightIs ==
  ASSUME NEW d, GoodDisk(d), NEW ids, ids \subseteq Known, NEW path \in OutputPaths(ids), path \notin Lost(d, ids)
  PROVE  /\ Right(d, path, Rendering(d, ids)) <=> Content(d, path) = Updated(d, path, ids) \/ OneBlank(d, path, ids)
         /\ \A e : Content(e, path) = Updated(d, path, ids) => Right(e, path, Rendering(d, ids))
<1>1. PICK new : new = Updated(d, path, ids)
  OBVIOUS
<1>2. PICK made : made = Rendering(d, ids)[path] /\ made # {BlankLine}
  <2>1. readManifest(d).extra \in SUBSET DOMAIN Generated
    BY DEF GoodDisk, FitManifest
  <2> QED
    BY <2>1, RenderIs DEF Rendering
<1>3. /\ new \in Contents /\ new.of = made /\ new = [text |-> new.text, of |-> made]
      /\ new.text = IF ~ IsBlock(path) THEN "generated" ELSE IF path \in DOMAIN d THEN d[path].text ELSE "initial"
  BY <1>1, <1>2, UpdatedIs
<1>4. path # MANIFEST_FILE
  BY RenderIs, PathsApart
<1>5. IsBlock(path) => HasMarkers(new)
  <2>1. IsBlock(path) /\ path \in DOMAIN d => HasMarkers(d[path])
    BY DEF Lost
  <2> QED
    BY <1>3, <2>1 DEF HasMarkers
<1>6. ASSUME NEW e, Content(e, path) = new PROVE Right(e, path, Rendering(d, ids))
  <2>1. path \in DOMAIN e /\ e[path] = new
    BY <1>3, <1>6, NoFileApart DEF Content
  <2> QED
    BY <1>2, <1>3, <1>5, <2>1 DEF Right, readBlock
<1>7. ASSUME Right(d, path, Rendering(d, ids)) PROVE Content(d, path) = new \/ OneBlank(d, path, ids)
  <2>1. PICK old : old = d[path] /\ old \in Contents /\ path \in DOMAIN d /\ Content(d, path) = old
    BY <1>4, <1>7 DEF Right, Content, GoodDisk
  <2>2. old = [text |-> old.text, of |-> old.of]
    BY <2>1 DEF Contents
  <2>3. CASE IsBlock(path) /\ old.of # {BlankLine}
    <3>1. old.of = made /\ new.text = old.text
      BY <1>2, <1>3, <1>7, <2>1, <2>3 DEF Right, readBlock
    <3> QED
      BY <1>3, <2>1, <2>2, <3>1
  <2>4. CASE IsBlock(path) /\ old.of = {BlankLine}
    <3>1. made = {} /\ new.text = old.text
      BY <1>2, <1>3, <1>7, <2>1, <2>4 DEF Right, readBlock
    <3>2. [old EXCEPT !.of = {}] = [text |-> old.text, of |-> {}]
      BY <2>1 DEF Contents
    <3>3. new = [old EXCEPT !.of = {}]
      BY <1>3, <3>1, <3>2
    <3> QED
      BY <1>1, <2>1, <2>4, <3>3 DEF OneBlank
  <2>5. CASE ~ IsBlock(path)
    <3>1. old = [text |-> "generated", of |-> made] /\ new.text = "generated"
      BY <1>2, <1>3, <1>7, <2>1, <2>5 DEF Right
    <3> QED
      BY <1>3, <2>1, <3>1
  <2> QED
    BY <2>3, <2>4, <2>5
<1>8. ASSUME OneBlank(d, path, ids) PROVE Right(d, path, Rendering(d, ids))
  <2>1. PICK old : old = d[path] /\ old \in Contents /\ path \in DOMAIN d /\ IsBlock(path) /\ old.of = {BlankLine}
                  /\ new = [old EXCEPT !.of = {}]
    BY <1>1, <1>4, <1>8 DEF OneBlank, GoodDisk
  <2>2. new.of = {}
    BY <2>1 DEF Contents
  <2>3. HasMarkers(old)
    BY <2>1 DEF Lost
  <2> QED
    BY <1>2, <1>3, <2>1, <2>2, <2>3 DEF Right, readBlock
<1> QED
  BY <1>1, <1>6, <1>7, <1>8

LEMMA LostWrong ==
  ASSUME NEW d, NEW ids, NEW path \in Lost(d, ids)
  PROVE  path \in OutputPaths(ids) /\ \A made : ~ Right(d, path, made)
BY DEF Lost, Right

\* A fit manifest is written.
LEMMA NextManifestFits ==
  ASSUME NEW d, GoodDisk(d), NEW files, Fit(DOMAIN files), \A id \in DOMAIN files : files[id] = Pristine(id)
  PROVE  /\ FitManifest(NextManifest(d, files)) /\ NextManifest(d, files) # NoFile
         /\ NextManifest(d, files).features = files /\ NextManifest(d, files).extra = readManifest(d).extra
<1>1. PICK m, outputs : m = NextManifest(d, files) /\ outputs = m.outputs
  OBVIOUS
<1>2. m = [features |-> files, outputs |-> [path \in OutputPaths(DOMAIN files) |-> Updated(d, path, DOMAIN files)],
           extra |-> readManifest(d).extra]
  BY <1>1 DEF NextManifest
<1>3. m.features = files /\ DOMAIN m.outputs = OutputPaths(DOMAIN files) /\ m.extra = readManifest(d).extra
  BY <1>2
<1>4. DOMAIN m = {"features", "outputs", "extra"}
  BY <1>2
<1>5. m # NoFile
  <2>1. DOMAIN NoFile = {"text", "of"}
    BY DEF NoFile
  <2>2. "features" \in DOMAIN m /\ "features" \notin DOMAIN NoFile
    BY <1>4, <2>1
  <2> QED
    BY <2>2
<1> QED
  BY <1>1, <1>2, <1>3, <1>5 DEF FitManifest, GoodDisk, Given

LEMMA EmptyFits == FitManifest(emptyManifest) /\ DOMAIN emptyManifest.features = {}
<1>1. DOMAIN emptyManifest.features = {} /\ DOMAIN emptyManifest.outputs = {} /\ emptyManifest.extra = {}
  BY DEF emptyManifest
<1>2. OutputPaths({}) = {}
  BY DEF OutputPaths
<1>3. Fit({})
  BY DEF Fit
<1> QED
  BY <1>1, <1>2, <1>3 DEF FitManifest, Given, emptyManifest


-----------------------------------------------------------------------------
\* FeaturePlan: what a plan may change.

\* What the developer wrote, in a file of a feature or around a block.
Authored(d, path) ==
  path \in DOMAIN d /\ d[path].text \in {"edited", "edited around"} /\ (path \in DOMAIN Outputs => IsBlock(path))

\* Changes of files, of what is authored only by force, of outputs only to what they should be, and of what
\* the features that are added own only to their templates.
Allowed(d, ids, added, force) ==
  {c \in [path : FilePaths, content : Contents \cup {NoFile}] :
     /\ c.path \in OutputPaths(ids) => c.content = Updated(d, c.path, ids)
     /\ ~ force /\ Authored(d, c.path) => c.content.text = d[c.path].text
     /\ \A id \in added : c.path \in Features[id].files => c.content = template(id, c.path)}

LEMMA OwnList ==
  ASSUME NEW X, NEW s \in Seq(X)
  PROVE  s \in Seq(ToSet(s)) /\ ToSet(s) \subseteq X
<1>1. PICK n, S : n = Len(s) /\ S = ToSet(s)
  OBVIOUS
<1>2. n \in Nat /\ DOMAIN s = 1 .. n /\ s = [k \in 1 .. n |-> s[k]]
  BY <1>1, LenProperties
<1>3. \A k \in 1 .. n : s[k] \in S
  BY <1>1, <1>2 DEF ToSet
<1>4. s \in [1 .. n -> S]
  BY <1>2, <1>3
<1>5. s \in Seq(S)
  BY <1>2, <1>4
<1> QED
  BY <1>1, <1>5, ToSetIn

LEMMA GreatestOf ==
  ASSUME NEW T, T \subseteq Nat, T # {}, NEW n \in Nat, \A x \in T : x <= n
  PROVE  Max(T) \in T /\ \A x \in T : x <= Max(T)
<1> DEFINE rest == {k \in Nat : \E x \in T : k = n - x}
<1>1. rest # {} /\ rest \subseteq Nat
  <2>1. PICK x \in T : TRUE
    OBVIOUS
  <2>2. n - x \in Nat
    BY <2>1
  <2> QED
    BY <2>2
<1>2. PICK k \in rest : \A y \in rest : k <= y
  <2> HIDE DEF rest
  <2> QED
    BY <1>1, Least
<1>3. PICK x \in T : k = n - x
  BY <1>2
<1>4. \A y \in T : x >= y
  <2>1. ASSUME NEW y \in T PROVE x >= y
    <3>1. n - y \in rest
      BY <2>1
    <3>2. n - x <= n - y
      BY <1>2, <1>3, <3>1
    <3> QED
      BY <3>2
  <2> QED
    BY <2>1
<1>5. Max(T) \in T /\ \A y \in T : Max(T) >= y
  BY <1>3, <1>4 DEF Max
<1>6. \A y \in T : y <= Max(T)
  BY <1>5
<1> QED
  BY <1>5, <1>6

\* A change in its place.
LEMMA ChangeIs ==
  ASSUME NEW X, NEW path, NEW content, [path |-> path, content |-> content] \in X
  PROVE  Change(path, content) \in Seq(X) /\ Change(path, content) # <<>>
<1>1. PICK c : c = [path |-> path, content |-> content] /\ c \in X
  OBVIOUS
<1>2. Change(path, content) = <<c>>
  BY <1>1 DEF Change
<1>3. <<c>> \in Seq(X) /\ <<c>> # <<>>
  BY <1>1
<1> QED
  BY <1>2, <1>3

\* A migration is a new file.
LEMMA MigratedIs ==
  ASSUME NEW d, NEW list \in Seq(Known), NEW n \in DOMAIN list, NEW verb \in {"add", "remove"},
         NEW ids, ids \subseteq Known, NEW added, added \subseteq Known, NEW force
  PROVE  Migrated(d, list, n, verb) \in Seq(Allowed(d, ids, added, force))
<1> DEFINE T == {0} \cup {k \in DOMAIN MigrationFiles : MigrationFiles[k] \in DOMAIN d}
           few == {k \in 1 .. n : Features[list[k]].migration}
<1>1. DOMAIN MigrationFiles = 1 .. 14
  BY DEF MigrationFiles
<1>2. PICK id : id = list[n] /\ id \in Known
  BY LenProperties, ElementOfSeq
<1>3. PICK last : last = Max(T)
  OBVIOUS
<1>4. last \in Nat /\ \A k \in T : k <= last
  <2>1. T \subseteq Nat /\ T # {} /\ \A k \in T : k <= 14
    BY <1>1
  <2> HIDE DEF T
  <2> QED
    BY <1>1, <1>3, <2>1, GreatestOf
<1>5. PICK at : at = last + Cardinality(few)
  OBVIOUS
<1>6. Migrated(d, list, n, verb) = IF Features[id].migration /\ at \in DOMAIN MigrationFiles
                                   THEN Change(MigrationFiles[at], Migration(verb, id)) ELSE <<>>
  BY <1>2, <1>3, <1>5 DEF Migrated
<1>7. CASE ~ (Features[id].migration /\ at \in DOMAIN MigrationFiles)
  <2>1. Migrated(d, list, n, verb) = <<>>
    BY <1>6, <1>7
  <2> QED
    BY <2>1, EmptySeq
<1>8. CASE Features[id].migration /\ at \in DOMAIN MigrationFiles
  <2>1. n \in Nat /\ n \in 1 .. n
    BY LenProperties
  <2>2. IsFiniteSet(1 .. n)
    BY <2>1, FS_Interval
  <2>3. IsFiniteSet(few) /\ few # {}
    <3>1. n \in few
      BY <1>2, <1>8, <2>1
    <3>2. few \in SUBSET (1 .. n)
      OBVIOUS
    <3> QED
      BY <2>2, <3>1, <3>2, FS_Subset
  <2>4. Cardinality(few) \in Nat /\ Cardinality(few) # 0
    <3> HIDE DEF few
    <3> QED
      BY <2>3, FS_EmptySet, FS_CardinalityType
  <2>5. at \notin T
    <3>1. at > last /\ at \in Nat
      BY <1>4, <1>5, <2>4
    <3>2. \A k \in T : ~ (k > last)
      BY <1>4
    <3> HIDE DEF T
    <3> QED
      BY <3>1, <3>2
  <2>6. PICK path : path = MigrationFiles[at]
    OBVIOUS
  <2>7. path \notin DOMAIN d
    BY <1>8, <2>5, <2>6
  <2>8. path \in ToSet(MigrationFiles)
    BY <1>8, <2>6 DEF ToSet
  <2>9. path \in FilePaths /\ path \notin DOMAIN Outputs /\ \A other \in Known : path \notin Features[other].files
    BY <2>8, PathsApart
  <2>10. path \notin OutputPaths(ids)
    BY <2>9, RenderIs
  <2>11. PICK c, made : c = [path |-> path, content |-> made] /\ made = Migration(verb, id)
    OBVIOUS
  <2>12. made \in Contents
    <3>1. verb \in Texts
      BY DEF Texts
    <3>2. made = [text |-> verb, of |-> {id}]
      BY <2>11 DEF Migration
    <3>3. made \in [text : Texts, of : SUBSET Lines]
      BY <1>2, <3>1, <3>2 DEF Lines
    <3> QED
      BY <3>3 DEF Contents
  <2>13. c.path = path /\ c \in [path : FilePaths, content : Contents \cup {NoFile}]
    BY <2>9, <2>11, <2>12
  <2>14. ~ Authored(d, path)
    BY <2>7 DEF Authored
  <2>15. \A other \in added : path \notin Features[other].files
    BY <2>9
  <2>16. c \in Allowed(d, ids, added, force)
    BY <2>10, <2>13, <2>14, <2>15 DEF Allowed
  <2>17. Change(path, made) \in Seq(Allowed(d, ids, added, force))
    BY <2>11, <2>16, ChangeIs
  <2> QED
    BY <1>6, <1>8, <2>6, <2>11, <2>17
<1> QED
  BY <1>7, <1>8

\* The outputs are brought to what they should be; those that no longer exist go if they are as they were written.
LEMMA OutputStepsIs ==
  ASSUME NEW d, GoodDisk(d), NEW ids, ids \subseteq Known, Lost(d, ids) = {},
         NEW added, added \subseteq Known, NEW force
  PROVE  /\ outputSteps(d, ids) \in Seq(Allowed(d, ids, added, force))
         /\ \A path \in OutputPaths(ids) :
              Content(d, path) = Updated(d, path, ids) \/ [path |-> path, content |-> Updated(d, path, ids)] \in ToSet(outputSteps(d, ids))
<1> DEFINE stale == {path \in OutputPaths(ids) : Content(d, path) # Updated(d, path, ids)}
           before == readManifest(d).outputs
           gone == {path \in DOMAIN before \ OutputPaths(ids) : ~ IsBlock(path) /\ Content(d, path) = before[path]}
           X == Allowed(d, ids, added, force)
<1>1. \A path \in DOMAIN d : path # MANIFEST_FILE => d[path] \in Contents
  BY DEF GoodDisk
<1>2. DOMAIN before \subseteq DOMAIN Outputs /\ IsFiniteSet(DOMAIN before)
  <2>1. DOMAIN before = OutputPaths(Installed(d)) /\ Installed(d) \subseteq Known
    BY DEF GoodDisk, FitManifest, Installed, Fit
  <2> QED
    BY <2>1, RenderIs
<1>3. /\ OutputPaths(ids) \subseteq DOMAIN Outputs /\ IsFiniteSet(OutputPaths(ids)) /\ DOMAIN Outputs \subseteq FilePaths
      /\ \A path \in DOMAIN Outputs, id \in added : path \notin Features[id].files
  BY RenderIs, PathsApart
<1>4. IsFiniteSet(stale) /\ IsFiniteSet(gone)
  <2>1. stale \in SUBSET OutputPaths(ids) /\ gone \in SUBSET DOMAIN before
    OBVIOUS
  <2> QED
    BY <1>2, <1>3, <2>1, FS_Subset
<1>5. ASSUME NEW path \in stale
      PROVE  [path |-> path, content |-> Updated(d, path, ids)] \in X
  <2>1. PICK new : new = Updated(d, path, ids) /\ new \in Contents
                   /\ new.text = IF ~ IsBlock(path) THEN "generated" ELSE IF path \in DOMAIN d THEN d[path].text ELSE "initial"
    BY UpdatedIs
  <2>2. PICK c : c = [path |-> path, content |-> new]
    OBVIOUS
  <2>3. path \in DOMAIN Outputs /\ path \in FilePaths
    BY <1>3
  <2>4. c \in [path : FilePaths, content : Contents \cup {NoFile}] /\ c.path = path /\ c.content = new
    BY <2>1, <2>2, <2>3
  <2>5. Authored(d, path) => new.text = d[path].text
    BY <2>1, <2>3 DEF Authored
  <2>6. \A id \in added : path \notin Features[id].files
    BY <1>3, <2>3
  <2>7. c \in X
    BY <2>1, <2>4, <2>5, <2>6 DEF Allowed
  <2> QED
    BY <2>1, <2>2, <2>7
<1>6. ASSUME NEW path \in gone
      PROVE  [path |-> path, content |-> NoFile] \in X
  <2>1. PICK c : c = [path |-> path, content |-> NoFile]
    OBVIOUS
  <2>2. path \in DOMAIN Outputs /\ path \in FilePaths /\ path \notin OutputPaths(ids) /\ ~ IsBlock(path)
    BY <1>2, <1>3
  <2>3. c \in [path : FilePaths, content : Contents \cup {NoFile}] /\ c.path = path
    BY <2>1, <2>2
  <2>4. ~ Authored(d, path) /\ \A id \in added : path \notin Features[id].files
    BY <1>3, <2>2 DEF Authored
  <2>5. c \in X
    BY <2>2, <2>3, <2>4 DEF Allowed
  <2> QED
    BY <2>1, <2>5
<1>7. PICK to, back : to = [path \in stale |-> Updated(d, path, ids)] /\ back = [path \in gone |-> NoFile]
  OBVIOUS
<1>8. outputSteps(d, ids) = Changes(to) \o Changes(back)
  BY <1>7 DEF outputSteps, Deletions
<1>9. Changes(to) \in Seq(X) /\ ToSet(Changes(to)) = {[path |-> p, content |-> to[p]] : p \in stale}
  <2>1. DOMAIN to = stale /\ \A p \in stale : to[p] = Updated(d, p, ids)
    BY <1>7
  <2>2. \A p \in DOMAIN to : [path |-> p, content |-> to[p]] \in X
    BY <1>5, <2>1
  <2> HIDE DEF stale, X
  <2> QED
    BY <1>4, <2>1, <2>2, ChangesAre
<1>10. Changes(back) \in Seq(X)
  <2>1. DOMAIN back = gone /\ \A p \in gone : back[p] = NoFile
    BY <1>7
  <2>2. \A p \in DOMAIN back : [path |-> p, content |-> back[p]] \in X
    BY <1>6, <2>1
  <2> HIDE DEF gone, X
  <2> QED
    BY <1>4, <2>1, <2>2, ChangesAre
<1>11. outputSteps(d, ids) \in Seq(X) /\ ToSet(Changes(to)) \subseteq ToSet(outputSteps(d, ids))
  <2> HIDE DEF X
  <2> QED
    BY <1>8, <1>9, <1>10, ConcatHas
<1>12. ASSUME NEW path \in OutputPaths(ids), Content(d, path) # Updated(d, path, ids)
       PROVE  [path |-> path, content |-> Updated(d, path, ids)] \in ToSet(outputSteps(d, ids))
  <2>1. path \in stale
    BY <1>12
  <2>2. [path |-> path, content |-> to[path]] \in ToSet(Changes(to))
    BY <1>9, <2>1
  <2>3. to[path] = Updated(d, path, ids)
    BY <1>7, <2>1
  <2> QED
    BY <1>11, <2>2, <2>3
<1> QED
  BY <1>11, <1>12

LEMMA TemplateIs ==
  ASSUME NEW id \in Known, NEW path
  PROVE  template(id, path) \in Contents /\ template(id, path).text = "template"
<1>1. PICK new : new = template(id, path)
  OBVIOUS
<1>2. new = [text |-> "template", of |-> IF path = "src/jobs/commands.ts" THEN {} ELSE {id}]
  BY <1>1 DEF template
<1>3. "template" \in Texts
  BY DEF Texts
<1>4. new \in [text : Texts, of : SUBSET Lines]
  <2>1. (IF path = "src/jobs/commands.ts" THEN {} ELSE {id}) \in SUBSET Known
    OBVIOUS
  <2> QED
    BY <1>2, <1>3, <2>1 DEF Lines
<1> QED
  BY <1>1, <1>2, <1>4 DEF Contents

\* What is added to is not there yet.
LEMMA AddsIs ==
  ASSUME NEW d, NEW list \in Seq(Known), NEW n \in DOMAIN list, NEW ids, ids \subseteq Known, NEW added, added \subseteq Known,
         list[n] \in added, NEW force,
         \A a, b \in added : a = b \/ Features[a].files \cap Features[b].files = {}
  PROVE  Adds(d, list, n) \in Seq(Allowed(d, ids, added, force))
<1>1. PICK id : id = list[n] /\ id \in Known
  OBVIOUS
<1>2. PICK new, frame : new = Features[id].files \ DOMAIN d /\ frame = Features[id].scaffold \ DOMAIN d
  OBVIOUS
<1>3. IsFiniteSet(new) /\ IsFiniteSet(frame)
  <2>1. IsFiniteSet(Features[id].files) /\ IsFiniteSet(Features[id].scaffold)
    BY <1>1, CatalogueTyped DEF Known
  <2>2. new \in SUBSET Features[id].files /\ frame \in SUBSET Features[id].scaffold
    BY <1>2
  <2> QED
    BY <2>1, <2>2, FS_Subset
<1>4. PICK to, bare : to = [path \in new |-> template(id, path)] /\ bare = [path \in frame |-> [text |-> "scaffold", of |-> {}]]
  OBVIOUS
<1>5. PICK more : more = Migrated(d, list, n, "add")
  OBVIOUS
<1>6. Adds(d, list, n) = Changes(to) \o Changes(bare) \o more
  BY <1>1, <1>2, <1>4, <1>5 DEF Adds
<1>7. PICK X : X = Allowed(d, ids, added, force)
  OBVIOUS
<1>8. ASSUME NEW path \in new PROVE [path |-> path, content |-> to[path]] \in X
  <2>1. PICK made, c : made = to[path] /\ c = [path |-> path, content |-> made]
    OBVIOUS
  <2>2. made = template(id, path) /\ made \in Contents
    BY <1>1, <1>4, <2>1, TemplateIs
  <2>3. path \in FilePaths /\ path \notin OutputPaths(ids) /\ path \notin DOMAIN d /\ path \in Features[id].files
    BY <1>1, <1>2, PathsApart, RenderIs
  <2>4. c \in [path : FilePaths, content : Contents \cup {NoFile}] /\ c.path = path /\ c.content = made
    BY <2>1, <2>2, <2>3
  <2>5. \A other \in added : path \in Features[other].files => other = id
    BY <1>1, <2>3
  <2>6. ~ Authored(d, path)
    BY <2>3 DEF Authored
  <2>7. c \in Allowed(d, ids, added, force)
    BY <2>2, <2>3, <2>4, <2>5, <2>6 DEF Allowed
  <2> QED
    BY <1>7, <2>1, <2>7
<1>9. ASSUME NEW path \in frame PROVE [path |-> path, content |-> bare[path]] \in X
  <2>1. PICK made, c : made = bare[path] /\ c = [path |-> path, content |-> made]
    OBVIOUS
  <2>2. made = [text |-> "scaffold", of |-> {}]
    BY <1>4, <2>1
  <2>3. made \in Contents
    <3>1. "scaffold" \in Texts
      BY DEF Texts
    <3>2. made \in [text : Texts, of : SUBSET Lines]
      BY <2>2, <3>1
    <3> QED
      BY <3>2 DEF Contents
  <2>4. /\ path \in FilePaths /\ path \notin OutputPaths(ids) /\ path \notin DOMAIN d
        /\ \A other \in added : path \notin Features[other].files
    BY <1>1, <1>2, PathsApart, RenderIs
  <2>5. c \in [path : FilePaths, content : Contents \cup {NoFile}] /\ c.path = path /\ c.content = made
    BY <2>1, <2>3, <2>4
  <2>6. ~ Authored(d, path)
    BY <2>4 DEF Authored
  <2>7. c \in Allowed(d, ids, added, force)
    BY <2>4, <2>5, <2>6 DEF Allowed
  <2> QED
    BY <1>7, <2>1, <2>7
<1>10. Changes(to) \in Seq(X) /\ Changes(bare) \in Seq(X)
  <2>1. DOMAIN to = new /\ DOMAIN bare = frame
    BY <1>4
  <2>2. Changes(to) \in Seq(X)
    BY <1>3, <1>8, <2>1, ChangesAre
  <2>3. Changes(bare) \in Seq(X)
    BY <1>3, <1>9, <2>1, ChangesAre
  <2> QED
    BY <2>2, <2>3
<1>11. more \in Seq(X)
  BY <1>5, <1>7, MigratedIs
<1>12. PICK a, b : a = Changes(to) /\ b = Changes(bare) /\ a \in Seq(X) /\ b \in Seq(X)
  BY <1>10
<1>13. PICK ab : ab = a \o b /\ ab \in Seq(X)
  BY <1>12, ConcatProperties
<1>14. ab \o more \in Seq(X)
  BY <1>11, <1>13, ConcatProperties
<1> QED
  BY <1>6, <1>7, <1>12, <1>13, <1>14

\* What is removed is as it was installed, or removed by force.
LEMMA RemovesIs ==
  ASSUME NEW d, GoodDisk(d), NEW list \in Seq(Installed(d)), NEW n \in DOMAIN list, NEW ids, ids \subseteq Known, NEW force \in BOOLEAN
  PROVE  Removes(d, list, n, force) \in Seq(Allowed(d, ids, {}, force))
<1>1. PICK id : id = list[n] /\ id \in Installed(d)
  BY LenProperties, ElementOfSeq
<1>2. Installed(d) \subseteq Known /\ readManifest(d).features[id] = Pristine(id) /\ id \in Known
  BY <1>1 DEF GoodDisk, FitManifest, Fit, Installed
<1>3. PICK files, gone : files = Pristine(id) /\ gone = {path \in DOMAIN files \cap DOMAIN d : force \/ d[path] = files[path]}
  OBVIOUS
<1>4. DOMAIN files = Features[id].files /\ \A path \in DOMAIN files : files[path] = template(id, path)
  BY <1>3 DEF Pristine
<1>5. PICK back, more : back = [path \in gone |-> NoFile] /\ more = Migrated(d, list, n, "remove")
  OBVIOUS
<1>6. Removes(d, list, n, force) = Changes(back) \o more
  BY <1>1, <1>2, <1>3, <1>5 DEF Removes, Deletions
<1>7. PICK X : X = Allowed(d, ids, {}, force)
  OBVIOUS
<1>8. ASSUME NEW path \in gone PROVE [path |-> path, content |-> back[path]] \in X
  <2>1. PICK c : c = [path |-> path, content |-> back[path]]
    OBVIOUS
  <2>2. back[path] = NoFile /\ path \in Features[id].files
    BY <1>3, <1>4, <1>5
  <2>3. path \in FilePaths /\ path \notin OutputPaths(ids)
    BY <1>2, <2>2, PathsApart, RenderIs
  <2>4. c \in [path : FilePaths, content : Contents \cup {NoFile}] /\ c.path = path /\ c.content = NoFile
    BY <2>1, <2>2, <2>3
  <2>5. ~ force => ~ Authored(d, path)
    <3>1. ASSUME ~ force PROVE d[path].text = "template"
      BY <1>2, <1>3, <1>4, <2>2, <3>1, TemplateIs
    <3> QED
      BY <3>1 DEF Authored
  <2>6. c \in Allowed(d, ids, {}, force)
    BY <2>3, <2>4, <2>5 DEF Allowed
  <2> QED
    BY <1>7, <2>1, <2>6
<1>9. Changes(back) \in Seq(X)
  <2>1. IsFiniteSet(gone)
    <3>1. IsFiniteSet(Features[id].files)
      BY <1>2, CatalogueTyped DEF Known
    <3>2. gone \in SUBSET Features[id].files
      BY <1>3, <1>4
    <3> QED
      BY <3>1, <3>2, FS_Subset
  <2>2. DOMAIN back = gone
    BY <1>5
  <2> QED
    BY <1>8, <2>1, <2>2, ChangesAre
<1>10. more \in Seq(X)
  <2>1. list \in Seq(Known)
    BY <1>2, SeqMonotonic
  <2> QED
    BY <1>2, <1>5, <1>7, <2>1, MigratedIs
<1>11. PICK a : a = Changes(back) /\ a \in Seq(X)
  BY <1>9
<1>12. a \o more \in Seq(X)
  BY <1>10, <1>11, ConcatProperties
<1> QED
  BY <1>6, <1>7, <1>11, <1>12

-----------------------------------------------------------------------------
\* FeaturePlan: plans.

GoodContent(path, content) == content = NoFile \/ IF path = MANIFEST_FILE THEN FitManifest(content) ELSE content \in Contents

\* One change of a plan that was made of the files d and leaves ids installed.
Proper(c, d, ids, force) ==
  /\ c = [path |-> c.path, content |-> c.content] /\ GoodContent(c.path, c.content)
  /\ c.path = MANIFEST_FILE => c.content # NoFile /\ DOMAIN c.content.features = ids /\ c.content.extra = readManifest(d).extra
  /\ c.path \in OutputPaths(ids) => c.content = Updated(d, c.path, ids)
  /\ ~ force /\ c.path # MANIFEST_FILE /\ Authored(d, c.path) => c.content.text = d[c.path].text

\* What an add was accepted for.
Adding(C, d, ids, again) ==
  LET added == Planned(Installed(d), again) IN
  /\ again \in Additions /\ ids = Installed(d) \cup added
  /\ \A id \in added : Taken(d, id) = {}
  /\ \A c \in C, id \in added : c.path \in Features[id].files => c.content = template(id, c.path)

PlanOf(C, d, ids, force, again) ==
  /\ GoodDisk(d) /\ Fit(ids) /\ Lost(d, ids) = {}
  /\ \A c \in C : Proper(c, d, ids, force)
  /\ \E c \in C : c.path = MANIFEST_FILE
  /\ \A path \in OutputPaths(ids) : Content(d, path) = Updated(d, path, ids) \/ [path |-> path, content |-> Updated(d, path, ids)] \in C
  /\ again # <<>> => Adding(C, d, ids, again)

\* Changes that are allowed and cover what is stale make a plan with the manifest's.
LEMMA PlanMade ==
  ASSUME NEW d, GoodDisk(d), NEW files, Fit(DOMAIN files), \A id \in DOMAIN files : files[id] = Pristine(id),
         Lost(d, DOMAIN files) = {}, NEW added, added \subseteq Known, NEW force,
         NEW most \in Seq(Allowed(d, DOMAIN files, added, force)),
         \A path \in OutputPaths(DOMAIN files) :
           Content(d, path) = Updated(d, path, DOMAIN files) \/ [path |-> path, content |-> Updated(d, path, DOMAIN files)] \in ToSet(most),
         NEW again,
         again # <<>> => /\ again \in Additions /\ added = Planned(Installed(d), again) /\ DOMAIN files = Installed(d) \cup added
                         /\ \A id \in added : Taken(d, id) = {},
         NEW whole, whole = most \o Change(MANIFEST_FILE, NextManifest(d, files))
  PROVE  whole \in Seq(ToSet(whole)) /\ whole # <<>> /\ PlanOf(ToSet(whole), d, DOMAIN files, force, again)
<1>1. PICK ids : ids = DOMAIN files
  OBVIOUS
<1>2. PICK m, last : m = NextManifest(d, files) /\ last = [path |-> MANIFEST_FILE, content |-> m]
  OBVIOUS
<1>3. FitManifest(m) /\ m # NoFile /\ m.features = files /\ m.extra = readManifest(d).extra
  BY <1>2, NextManifestFits
<1>4. PICK X : X = Allowed(d, ids, added, force) \cup {last}
  OBVIOUS
<1>5. PICK end : end = Change(MANIFEST_FILE, m)
  OBVIOUS
<1>6. end \in Seq(X) /\ end # <<>> /\ ToSet(end) = {last}
  <2>1. end \in Seq(X) /\ end # <<>>
    BY <1>2, <1>4, <1>5, ChangeIs
  <2>2. end = <<last>>
    BY <1>2, <1>5 DEF Change
  <2>3. DOMAIN end = 1 .. 1 /\ end[1] = last
    BY <2>2
  <2>4. ToSet(end) = {last}
    BY <2>3 DEF ToSet
  <2> QED
    BY <2>1, <2>4
<1>7. most \in Seq(X)
  <2>1. Allowed(d, ids, added, force) \subseteq X
    BY <1>4
  <2> QED
    BY <1>1, <2>1, SeqMonotonic
<1>8. whole = most \o end
  BY <1>2, <1>5
<1>9. whole \in Seq(X) /\ ToSet(whole) = ToSet(most) \cup {last} /\ whole # <<>>
  <2>1. whole \in Seq(X) /\ ToSet(whole) = ToSet(most) \cup ToSet(end)
    BY <1>6, <1>7, <1>8, ConcatHas
  <2>2. ToSet(whole) # {}
    BY <1>6, <2>1
  <2>3. ToSet(<<>>) = {}
    BY DEF ToSet
  <2> QED
    BY <1>6, <2>1, <2>2, <2>3
<1>10. ToSet(most) \subseteq Allowed(d, ids, added, force)
  BY <1>1, ToSetIn
<1>11. ASSUME NEW c \in ToSet(most)
       PROVE  Proper(c, d, ids, force) /\ c.path # MANIFEST_FILE /\ \A id \in added : c.path \in Features[id].files => c.content = template(id, c.path)
  <2>1. /\ c \in [path : FilePaths, content : Contents \cup {NoFile}]
        /\ c.path \in OutputPaths(ids) => c.content = Updated(d, c.path, ids)
        /\ ~ force /\ Authored(d, c.path) => c.content.text = d[c.path].text
        /\ \A id \in added : c.path \in Features[id].files => c.content = template(id, c.path)
    BY <1>10 DEF Allowed
  <2>2. c = [path |-> c.path, content |-> c.content] /\ c.path \in FilePaths /\ c.content \in Contents \cup {NoFile}
    BY <2>1
  <2>3. c.path # MANIFEST_FILE
    BY <2>2, PathsApart
  <2>4. GoodContent(c.path, c.content)
    BY <2>2, <2>3 DEF GoodContent
  <2> QED
    BY <2>1, <2>2, <2>3, <2>4 DEF Proper
<1>12. last.path = MANIFEST_FILE /\ last.content = m
  BY <1>2
<1>13. MANIFEST_FILE \notin OutputPaths(ids)
  BY <1>1, PathsApart, RenderIs DEF Fit
<1>14. Proper(last, d, ids, force)
  <2>1. GoodContent(MANIFEST_FILE, m)
    BY <1>3 DEF GoodContent
  <2>2. last = [path |-> last.path, content |-> last.content]
    BY <1>2
  <2> QED
    BY <1>1, <1>3, <1>12, <1>13, <2>1, <2>2 DEF Proper
<1>15. MANIFEST_FILE \notin FilePaths /\ \A id \in added : MANIFEST_FILE \notin Features[id].files
  BY PathsApart
<1>16. again # <<>> => Adding(ToSet(whole), d, ids, again)
  BY <1>1, <1>9, <1>11, <1>12, <1>15 DEF Adding
<1>17. \A c \in ToSet(whole) : Proper(c, d, ids, force)
  BY <1>9, <1>11, <1>14
<1>18. \E c \in ToSet(whole) : c.path = MANIFEST_FILE
  BY <1>9, <1>12
<1>19. \A path \in OutputPaths(ids) :
         Content(d, path) = Updated(d, path, ids) \/ [path |-> path, content |-> Updated(d, path, ids)] \in ToSet(whole)
  BY <1>1, <1>9
<1>20. PlanOf(ToSet(whole), d, ids, force, again)
  BY <1>1, <1>16, <1>17, <1>18, <1>19 DEF PlanOf
<1> QED
  BY <1>1, <1>9, <1>20, OwnList

LEMMA InstalledIs ==
  ASSUME NEW d, GoodDisk(d)
  PROVE  /\ Fit(Installed(d)) /\ Installed(d) \subseteq Known /\ IsFiniteSet(Installed(d))
         /\ \A id \in Installed(d) : readManifest(d).features[id] = Pristine(id)
<1>1. Fit(Installed(d)) /\ \A id \in Installed(d) : readManifest(d).features[id] = Pristine(id)
  BY DEF GoodDisk, FitManifest, Installed
<1>2. Installed(d) \subseteq Known
  BY <1>1 DEF Fit
<1>3. IsFiniteSet(Installed(d))
  BY <1>2, CatalogueTyped, FS_Subset DEF Known
<1> QED
  BY <1>1, <1>2, <1>3

\* An add that is not refused leaves features that go together.
LEMMA AddedFit ==
  ASSUME NEW installed, Fit(installed), NEW request \in Seq(Known \cup DOMAIN authPresets),
         ~ Conflicting(Planned(installed, request), installed)
  PROVE  /\ Fit(installed \cup Planned(installed, request)) /\ Planned(installed, request) \subseteq Known
         /\ \A a, b \in Planned(installed, request) : a = b \/ Features[a].files \cap Features[b].files = {}
<1>1. PICK added, after : added = Planned(installed, request) /\ after = installed \cup added
  OBVIOUS
<1>2. added \subseteq Known /\ \A id \in added : Unmet(id, after) = {}
  BY <1>1, PlannedIs
<1>3. installed \subseteq Known /\ \A id \in installed : Unmet(id, installed) = {} /\ Features[id].conflicts \cap installed = {}
  BY DEF Fit
<1>4. \A id \in installed : Unmet(id, after) = {}
  <2>1. installed \subseteq after
    BY <1>1
  <2> QED
    BY <1>3, <2>1, StaysMet
<1>5. \A id \in added : Features[id].conflicts \cap after = {}
  BY <1>1 DEF Conflicting
<1>6. \A id \in installed : Features[id].conflicts \cap after = {}
  <2>1. \A id \in installed : Features[id].conflicts \cap added = {}
    BY <1>1 DEF Conflicting
  <2> QED
    BY <1>1, <1>3, <2>1
<1>7. Fit(after)
  BY <1>1, <1>2, <1>3, <1>4, <1>5, <1>6 DEF Fit
<1>8. \A a, b \in added : a = b \/ Features[a].files \cap Features[b].files = {}
  <2>1. ASSUME NEW a \in added, NEW b \in added PROVE a = b \/ Features[a].files \cap Features[b].files = {}
    <3>1. b \notin Features[a].conflicts
      BY <1>1, <1>5, <2>1
    <3> QED
      BY <1>2, <3>1, CatalogueExclusive DEF Known
  <2> QED
    BY <2>1
<1> QED
  BY <1>1, <1>2, <1>7, <1>8

\* What planAdd asks.
Accepts(d, request) ==
  LET added == Planned(Installed(d), request)
  IN ~ Conflicting(added, Installed(d)) /\ (\A id \in added : Taken(d, id) = {}) /\ Lost(d, Installed(d) \cup added) = {}

LEMMA AcceptsAdd ==
  ASSUME NEW d, NEW request, planAdd(d, request) # Refused
  PROVE  Accepts(d, request)
BY DEF planAdd, Accepts

LEMMA AddPlan ==
  ASSUME NEW d, GoodDisk(d), NEW request \in Additions, Accepts(d, request)
  PROVE  /\ planAdd(d, request) # Refused
         /\ \E C, ids : planAdd(d, request) \in Seq(C) /\ C = ToSet(planAdd(d, request)) /\ PlanOf(C, d, ids, FALSE, request)
<1>1. request \in Seq(Known \cup DOMAIN authPresets)
  BY CommandsAssumption DEF Known
<1>2. PICK installed, added, after : installed = Installed(d) /\ added = Planned(installed, request) /\ after = installed \cup added
  OBVIOUS
<1>3. PICK files : files = [id \in after |-> IF id \in added THEN [path \in Features[id].files |-> template(id, path)]
                                            ELSE readManifest(d).features[id]]
  OBVIOUS
<1>4. PICK list : list = order(added)
  OBVIOUS
<1>5. PICK parts : parts = [n \in DOMAIN list |-> Adds(d, list, n)]
  OBVIOUS
<1>6. PICK first, second, m : first = FlattenSeq(parts) /\ second = outputSteps(d, after) /\ m = NextManifest(d, files)
  OBVIOUS
<1>7. planAdd(d, request) = IF Conflicting(added, installed) \/ (\E id \in added : Taken(d, id) # {}) \/ Lost(d, after) # {} THEN Refused
                            ELSE first \o second \o Change(MANIFEST_FILE, m)
  BY <1>2, <1>3, <1>4, <1>5, <1>6 DEF planAdd
<1>8. ~ Conflicting(added, installed) /\ (\A id \in added : Taken(d, id) = {}) /\ Lost(d, after) = {}
  BY <1>2 DEF Accepts
<1>9. PICK whole : whole = planAdd(d, request)
  OBVIOUS
<1>10. whole = first \o second \o Change(MANIFEST_FILE, m)
  BY <1>7, <1>8, <1>9
<1>11. Fit(installed) /\ installed \subseteq Known /\ \A id \in installed : readManifest(d).features[id] = Pristine(id)
  BY <1>2, InstalledIs
<1>12. /\ Fit(after) /\ added \subseteq Known
       /\ \A a, b \in added : a = b \/ Features[a].files \cap Features[b].files = {}
  BY <1>1, <1>2, <1>8, <1>11, AddedFit
<1>13. PICK X : X = Allowed(d, after, added, FALSE)
  OBVIOUS
<1>14. after \subseteq Known
  BY <1>12 DEF Fit
<1>15. second \in Seq(X)
  BY <1>6, <1>8, <1>12, <1>13, <1>14, OutputStepsIs
<1>16. \A path \in OutputPaths(after) :
         Content(d, path) = Updated(d, path, after) \/ [path |-> path, content |-> Updated(d, path, after)] \in ToSet(second)
  BY <1>6, <1>8, <1>12, <1>14, OutputStepsIs
<1>17. list \in Seq(added)
  BY <1>4, <1>12, OrderIn
<1>18. PICK size : size = Len(list) /\ size \in Nat /\ DOMAIN list = 1 .. size
  BY <1>17, LenProperties
<1>19. ASSUME NEW n \in DOMAIN list PROVE Adds(d, list, n) \in Seq(X)
  <2>1. list[n] \in added
    BY <1>17, <1>18, ElementOfSeq
  <2>2. list \in Seq(Known)
    BY <1>12, <1>17, SeqMonotonic
  <2> QED
    BY <1>12, <1>13, <1>14, <2>1, <2>2, AddsIs
<1>20. PICK all : all = Seq(X)
  OBVIOUS
<1>21. parts \in [1 .. size -> all]
  BY <1>5, <1>18, <1>19, <1>20
<1>22. parts \in Seq(all)
  BY <1>18, <1>21
<1>23. first \in Seq(X)
  BY <1>6, <1>20, <1>22, FlattenRange
<1>24. PICK most : most = first \o second
  OBVIOUS
<1>25. most \in Seq(X) /\ ToSet(most) = ToSet(first) \cup ToSet(second)
  BY <1>15, <1>23, <1>24, ConcatHas
<1>26. DOMAIN files = after /\ \A id \in DOMAIN files : files[id] = Pristine(id)
  BY <1>2, <1>3, <1>11 DEF Pristine
<1>27. whole = most \o Change(MANIFEST_FILE, NextManifest(d, files))
  BY <1>6, <1>10, <1>24
<1>28. \A path \in OutputPaths(DOMAIN files) :
         Content(d, path) = Updated(d, path, DOMAIN files) \/ [path |-> path, content |-> Updated(d, path, DOMAIN files)] \in ToSet(most)
  BY <1>16, <1>25, <1>26
<1>29. most \in Seq(Allowed(d, DOMAIN files, added, FALSE))
  BY <1>13, <1>25, <1>26
<1>30. request # <<>> => /\ request \in Additions /\ added = Planned(Installed(d), request) /\ DOMAIN files = Installed(d) \cup added
                         /\ \A id \in added : Taken(d, id) = {}
  BY <1>2, <1>8, <1>26
<1>31. Fit(DOMAIN files) /\ Lost(d, DOMAIN files) = {}
  BY <1>8, <1>12, <1>26
<1>32. whole \in Seq(ToSet(whole)) /\ whole # <<>> /\ PlanOf(ToSet(whole), d, DOMAIN files, FALSE, request)
  BY <1>12, <1>26, <1>27, <1>28, <1>29, <1>30, <1>31, PlanMade
<1> QED
  BY <1>9, <1>32 DEF Refused

LEMMA RemovePlan ==
  ASSUME NEW d, GoodDisk(d), NEW request, NEW cascade, NEW force \in BOOLEAN, planRemove(d, request, cascade, force) # Refused
  PROVE  \E C, ids : /\ planRemove(d, request, cascade, force) \in Seq(C) /\ C = ToSet(planRemove(d, request, cascade, force))
                     /\ PlanOf(C, d, ids, force, <<>>)
<1>1. PICK installed, direct : installed = Installed(d) /\ direct = Direct(installed, request)
  OBVIOUS
<1>2. PICK removed, after : removed = cascaded(direct, installed) /\ after = installed \ removed
  OBVIOUS
<1>3. PICK removal : removal = Reverse(order(removed))
  OBVIOUS
<1>4. PICK files : files = [id \in after |-> readManifest(d).features[id]]
  OBVIOUS
<1>5. PICK parts : parts = [n \in DOMAIN removal |-> Removes(d, removal, n, force)]
  OBVIOUS
<1>6. PICK first, second, m : first = FlattenSeq(parts) /\ second = outputSteps(d, after) /\ m = NextManifest(d, files)
  OBVIOUS
<1>7. PICK no : no = ((\E id \in ToSet(request) : Direct(installed, <<id>>) = {}) \/ (~ cascade /\ removed # direct))
  OBVIOUS
<1>8. planRemove(d, request, cascade, force) = IF no \/ Lost(d, after) # {} THEN Refused
                                               ELSE first \o second \o Change(MANIFEST_FILE, m)
  BY <1>1, <1>2, <1>3, <1>4, <1>5, <1>6, <1>7 DEF planRemove
<1>9. PICK whole : whole = planRemove(d, request, cascade, force)
  OBVIOUS
<1>10. Lost(d, after) = {} /\ whole = first \o second \o Change(MANIFEST_FILE, m)
  BY <1>8, <1>9
<1>11. Fit(installed) /\ installed \subseteq Known /\ IsFiniteSet(installed) /\ \A id \in installed : readManifest(d).features[id] = Pristine(id)
  BY <1>1, InstalledIs
<1>12. direct \in SUBSET installed
  BY <1>1 DEF Direct
<1>13. removed \subseteq installed /\ Stranded(installed, removed) = {}
  BY <1>2, <1>11, <1>12, CascadedIs
<1>14. after \subseteq Known /\ Fit(after)
  <2>1. \A id \in after : Unmet(id, after) = {}
    BY <1>2, <1>13 DEF Stranded
  <2>2. \A id \in after : Features[id].conflicts \cap after = {}
    BY <1>2, <1>11 DEF Fit
  <2>3. after \subseteq Known
    BY <1>2, <1>11
  <2> QED
    BY <2>1, <2>2, <2>3 DEF Fit
<1>15. PICK X : X = Allowed(d, after, {}, force)
  OBVIOUS
<1>16. second \in Seq(X)
  BY <1>6, <1>10, <1>14, <1>15, OutputStepsIs
<1>17. \A path \in OutputPaths(after) :
         Content(d, path) = Updated(d, path, after) \/ [path |-> path, content |-> Updated(d, path, after)] \in ToSet(second)
  BY <1>6, <1>10, <1>14, OutputStepsIs
<1>18. PICK list : list = order(removed) /\ list \in Seq(removed)
  BY <1>11, <1>13, OrderIn
<1>19. PICK size : size = Len(list) /\ size \in Nat /\ DOMAIN list = 1 .. size
  BY <1>18, LenProperties
<1>20. removal \in Seq(removed) /\ DOMAIN removal = 1 .. size
  <2>1. removal = [i \in 1 .. size |-> list[(size - i) + 1]]
    BY <1>3, <1>18, <1>19 DEF Reverse
  <2>2. \A i \in 1 .. size : list[(size - i) + 1] \in removed
    <3>1. \A i \in 1 .. size : (size - i) + 1 \in 1 .. size
      BY <1>19
    <3> QED
      BY <1>18, <1>19, <3>1, ElementOfSeq
  <2>3. removal \in [1 .. size -> removed]
    BY <2>1, <2>2
  <2> QED
    BY <1>19, <2>1, <2>3
<1>21. ASSUME NEW n \in DOMAIN removal PROVE Removes(d, removal, n, force) \in Seq(X)
  <2>1. removal \in Seq(Installed(d))
    BY <1>1, <1>13, <1>20, SeqMonotonic
  <2> QED
    BY <1>14, <1>15, <2>1, RemovesIs
<1>22. PICK all : all = Seq(X)
  OBVIOUS
<1>23. parts \in [1 .. size -> all]
  BY <1>5, <1>20, <1>21, <1>22
<1>24. parts \in Seq(all)
  BY <1>19, <1>23
<1>25. first \in Seq(X)
  BY <1>6, <1>22, <1>24, FlattenRange
<1>26. PICK most : most = first \o second
  OBVIOUS
<1>27. most \in Seq(X) /\ ToSet(most) = ToSet(first) \cup ToSet(second)
  BY <1>16, <1>25, <1>26, ConcatHas
<1>28. DOMAIN files = after /\ \A id \in DOMAIN files : files[id] = Pristine(id)
  BY <1>2, <1>4, <1>11
<1>29. whole = most \o Change(MANIFEST_FILE, NextManifest(d, files))
  BY <1>6, <1>10, <1>26
<1>30. \A path \in OutputPaths(DOMAIN files) :
         Content(d, path) = Updated(d, path, DOMAIN files) \/ [path |-> path, content |-> Updated(d, path, DOMAIN files)] \in ToSet(most)
  BY <1>17, <1>27, <1>28
<1>31. most \in Seq(Allowed(d, DOMAIN files, {}, force))
  BY <1>15, <1>27, <1>28
<1>32. Fit(DOMAIN files) /\ Lost(d, DOMAIN files) = {}
  BY <1>10, <1>14, <1>28
<1>33a. PICK none : none = {}
  BY Zenon
<1>33b. PICK again : again = <<>>
  BY Zenon
<1>33. none = {} /\ again = <<>> /\ none \subseteq Known
  BY <1>33a, <1>33b
<1>34. whole \in Seq(ToSet(whole)) /\ PlanOf(ToSet(whole), d, DOMAIN files, force, again)
  BY <1>28, <1>29, <1>30, <1>31, <1>32, <1>33, PlanMade
<1> QED
  BY <1>9, <1>33, <1>34

LEMMA SyncPlan ==
  ASSUME NEW d, GoodDisk(d), planSync(d) # Refused
  PROVE  \E C, ids : planSync(d) \in Seq(C) /\ C = ToSet(planSync(d)) /\ PlanOf(C, d, ids, FALSE, <<>>)
<1>1. PICK ids, files : ids = Installed(d) /\ files = readManifest(d).features
  OBVIOUS
<1>2. PICK most, m : most = outputSteps(d, ids) /\ m = NextManifest(d, files)
  OBVIOUS
<1>3. planSync(d) = IF Lost(d, ids) # {} THEN Refused ELSE most \o Change(MANIFEST_FILE, m)
  BY <1>1, <1>2 DEF planSync
<1>4. PICK whole : whole = planSync(d)
  OBVIOUS
<1>5. Lost(d, ids) = {} /\ whole = most \o Change(MANIFEST_FILE, m)
  BY <1>3, <1>4
<1>6. Fit(ids) /\ ids \subseteq Known /\ DOMAIN files = ids /\ \A id \in ids : files[id] = Pristine(id)
  BY <1>1, InstalledIs DEF Installed
<1>7. most \in Seq(Allowed(d, ids, {}, FALSE))
  BY <1>2, <1>5, <1>6, OutputStepsIs
<1>8. \A path \in OutputPaths(ids) :
         Content(d, path) = Updated(d, path, ids) \/ [path |-> path, content |-> Updated(d, path, ids)] \in ToSet(most)
  BY <1>2, <1>5, <1>6, OutputStepsIs
<1>9a. PICK none : none = {}
  BY Zenon
<1>9b. PICK again : again = <<>>
  BY Zenon
<1>9. none = {} /\ again = <<>> /\ none \subseteq Known
  BY <1>9a, <1>9b
<1>10. whole = most \o Change(MANIFEST_FILE, NextManifest(d, files))
  BY <1>2, <1>5
<1>11. whole \in Seq(ToSet(whole)) /\ PlanOf(ToSet(whole), d, ids, FALSE, again)
  BY <1>5, <1>6, <1>7, <1>8, <1>9, <1>10, PlanMade
<1> QED
  BY <1>4, <1>9, <1>11

\* doctor finds nothing wrong exactly when sync can be run and changes nothing but blank blocks.
LEMMA DoctorIsSync ==
  ASSUME NEW d, GoodDisk(d)
  PROVE  diagnose(d) = {} <=> /\ planSync(d) # Refused
                              /\ \A change \in {c \in ToSet(planSync(d)) : c.path # MANIFEST_FILE} : BlankOnly(d, change)
<1>1. PICK ids : ids = Installed(d)
  OBVIOUS
<1>2. Fit(ids) /\ ids \subseteq Known
  BY <1>1, InstalledIs
<1>4. diagnose(d) = {path \in OutputPaths(ids) : ~ Right(d, path, Rendering(d, ids))}
  BY <1>1, DiagnoseIs
<1>5. CASE Lost(d, ids) # {}
  <2>1. planSync(d) = Refused
    BY <1>1, <1>5 DEF planSync
  <2>3. diagnose(d) # {}
    BY <1>4, <1>5, LostWrong
  <2> QED
    BY <2>1, <2>3
<1>6. CASE Lost(d, ids) = {}
  <2> DEFINE stale == {path \in OutputPaths(ids) : Content(d, path) # Updated(d, path, ids)}
             before == readManifest(d).outputs
             gone == {path \in DOMAIN before \ OutputPaths(ids) : ~ IsBlock(path) /\ Content(d, path) = before[path]}
  <2>1. gone = {}
    BY <1>1 DEF GoodDisk, FitManifest, Installed
  <2>2. diagnose(d) = {path \in stale : ~ OneBlank(d, path, ids)}
    BY <1>2, <1>4, <1>6, RightIs
  <2>3. IsFiniteSet(stale) /\ IsFiniteSet(gone)
    <3>1. IsFiniteSet(OutputPaths(ids)) /\ stale \in SUBSET OutputPaths(ids)
      BY <1>2, RenderIs
    <3> QED
      BY <2>1, <3>1, FS_Subset, FS_EmptySet
  <2>4. PICK to, back : to = [path \in stale |-> Updated(d, path, ids)] /\ back = [path \in gone |-> NoFile]
    OBVIOUS
  <2>5. outputSteps(d, ids) = Changes(to) \o Changes(back)
    BY <2>4 DEF outputSteps, Deletions
  <2>6. PICK last : last = [path |-> MANIFEST_FILE, content |-> NextManifest(d, readManifest(d).features)]
    OBVIOUS
  <2>7. PICK X : X = {[path |-> p, content |-> to[p]] : p \in stale} \cup {[path |-> p, content |-> back[p]] : p \in gone} \cup {last}
    OBVIOUS
  <2>8. DOMAIN to = stale /\ DOMAIN back = gone /\ \A p \in stale : to[p] = Updated(d, p, ids)
    BY <2>4
  <2>9. /\ \A p \in DOMAIN to : [path |-> p, content |-> to[p]] \in X
        /\ \A p \in DOMAIN back : [path |-> p, content |-> back[p]] \in X
        /\ last \in X
    <3> HIDE DEF stale, gone
    <3> QED
      BY <2>7, <2>8
  <2>10. gone = {} /\ \A p \in stale : p # MANIFEST_FILE
    BY <1>2, <2>1, RenderIs, PathsApart
  <2> HIDE DEF stale, gone
  <2>11. PICK one : one = Changes(to) /\ one \in Seq(X) /\ ToSet(one) = {[path |-> p, content |-> to[p]] : p \in stale}
    BY <2>3, <2>8, <2>9, ChangesAre
  <2>12. PICK two : two = Changes(back) /\ two \in Seq(X) /\ ToSet(two) = {}
    <3>1. Changes(back) \in Seq(X) /\ ToSet(Changes(back)) = {[path |-> p, content |-> back[p]] : p \in gone}
      BY <2>3, <2>8, <2>9, ChangesAre
    <3> QED
      BY <2>10, <3>1
  <2>13. PICK three : three = Change(MANIFEST_FILE, NextManifest(d, readManifest(d).features)) /\ three = <<last>>
    BY <2>6 DEF Change
  <2>14. three \in Seq(X) /\ ToSet(three) = {last}
    <3>1. DOMAIN three = 1 .. 1 /\ three[1] = last
      BY <2>13
    <3> QED
      BY <2>9, <2>13, <3>1 DEF ToSet
  <2>15. PICK both : both = one \o two /\ both \in Seq(X) /\ ToSet(both) = ToSet(one)
    <3>1. one \o two \in Seq(X) /\ ToSet(one \o two) = ToSet(one) \cup ToSet(two)
      BY <2>11, <2>12, ConcatHas
    <3> QED
      BY <2>12, <3>1
  <2>16. planSync(d) = both \o three
    BY <1>1, <1>6, <2>5, <2>11, <2>12, <2>13, <2>15 DEF planSync
  <2>17. PICK whole : whole = planSync(d) /\ ToSet(whole) = {[path |-> p, content |-> to[p]] : p \in stale} \cup {last}
    <3>1. ToSet(both \o three) = ToSet(both) \cup ToSet(three)
      <4>1. both \in Seq(X) /\ three \in Seq(X)
        BY <2>14, <2>15
      <4> QED
        BY <4>1, ConcatHas
    <3> QED
      BY <2>11, <2>14, <2>15, <2>16, <3>1
  <2>18. whole # Refused
    <3>1. ToSet(<<>>) = {}
      BY DEF ToSet
    <3> QED
      BY <2>17, <3>1 DEF Refused
  <2>19. last.path = MANIFEST_FILE
    BY <2>6
  <2>20. ASSUME NEW p \in stale, NEW c, c = [path |-> p, content |-> to[p]]
         PROVE  c.path = p /\ c.path # MANIFEST_FILE /\ (BlankOnly(d, c) <=> OneBlank(d, p, ids))
    <3>1. c.path = p /\ c.content = Updated(d, p, ids)
      BY <2>8, <2>20
    <3> QED
      BY <2>10, <3>1 DEF BlankOnly, OneBlank
  <2>21. ASSUME \A p \in stale : OneBlank(d, p, ids), NEW c \in ToSet(whole), c.path # MANIFEST_FILE
         PROVE  BlankOnly(d, c)
    <3>1. PICK p \in stale : c = [path |-> p, content |-> to[p]]
      BY <2>17, <2>19, <2>21
    <3> QED
      BY <2>20, <2>21, <3>1
  <2>22. ASSUME \A c \in ToSet(whole) : c.path # MANIFEST_FILE => BlankOnly(d, c), NEW p \in stale
         PROVE  OneBlank(d, p, ids)
    <3>1. PICK c : c = [path |-> p, content |-> to[p]]
      OBVIOUS
    <3>2. c \in ToSet(whole)
      BY <2>17, <3>1
    <3> QED
      BY <2>20, <2>22, <3>1, <3>2
  <2>23. diagnose(d) = {} <=> \A p \in stale : OneBlank(d, p, ids)
    BY <2>2
  <2> QED
    BY <2>17, <2>18, <2>21, <2>22, <2>23
<1> QED
  BY <1>5, <1>6

-----------------------------------------------------------------------------
\* FeaturePlan: what writing and undoing keep.

LEMMA GoodWrite ==
  ASSUME NEW now, GoodDisk(now), NEW path, NEW content, GoodContent(path, content)
  PROVE  GoodDisk(With(now, path, content))
<1> HIDE DEF NoFile
<1>1. PICK e : e = With(now, path, content)
  OBVIOUS
<1>2. \A p \in DOMAIN now : now[p] # NoFile /\ (p # MANIFEST_FILE => now[p] \in Contents)
  BY DEF GoodDisk
<1>3. /\ e = [p \in DOMAIN e |-> e[p]]
      /\ \A p \in DOMAIN e : e[p] # NoFile
      /\ \A p : Content(e, p) = IF p = path THEN content ELSE Content(now, p)
      /\ \A p : p \in DOMAIN now \/ p = path \/ p \notin DOMAIN e
  BY <1>1, <1>2, WithIs
<1>4. \A p \in DOMAIN e : e[p] = Content(e, p)
  BY DEF Content
<1>5. ASSUME NEW p \in DOMAIN e, p # MANIFEST_FILE PROVE e[p] \in Contents
  <2>1. CASE p = path
    <3>1. e[p] = content
      BY <1>3, <1>4, <2>1
    <3> QED
      BY <1>3, <1>5, <2>1, <3>1 DEF GoodContent
  <2>2. CASE p # path
    <3>1. e[p] = Content(now, p) /\ p \in DOMAIN now
      BY <1>3, <1>4, <2>2
    <3> QED
      BY <1>2, <1>5, <3>1 DEF Content
  <2> QED
    BY <2>1, <2>2
<1>6. FitManifest(readManifest(e))
  <2>1. CASE path # MANIFEST_FILE
    <3>1. Content(e, MANIFEST_FILE) = Content(now, MANIFEST_FILE)
      BY <1>3, <2>1
    <3>2. readManifest(e) = readManifest(now)
      BY <1>2, <1>3, <3>1 DEF readManifest, Content
    <3> QED
      BY <3>2 DEF GoodDisk
  <2>2. CASE path = MANIFEST_FILE /\ content = NoFile
    <3>1. MANIFEST_FILE \notin DOMAIN e
      BY <1>3, <1>4, <2>2
    <3> QED
      BY <3>1, EmptyFits DEF readManifest
  <2>3. CASE path = MANIFEST_FILE /\ content # NoFile
    <3>1. MANIFEST_FILE \in DOMAIN e /\ e[MANIFEST_FILE] = content
      BY <1>3, <2>3 DEF Content
    <3>2. FitManifest(content)
      BY <2>3 DEF GoodContent
    <3> QED
      BY <3>1, <3>2 DEF readManifest
  <2> QED
    BY <2>1, <2>2, <2>3
<1> QED
  BY <1>1, <1>3, <1>5, <1>6 DEF GoodDisk

LEMMA GoodRead ==
  ASSUME NEW now, GoodDisk(now), NEW path
  PROVE  GoodContent(path, Content(now, path))
<1>1. CASE path \notin DOMAIN now
  BY <1>1 DEF GoodContent, Content
<1>2. CASE path \in DOMAIN now /\ path # MANIFEST_FILE
  BY <1>2 DEF GoodContent, Content, GoodDisk
<1>3. CASE path \in DOMAIN now /\ path = MANIFEST_FILE
  BY <1>3 DEF GoodContent, Content, GoodDisk, readManifest
<1> QED
  BY <1>1, <1>2, <1>3

\* Contents a journal may hold, and where it holds what was there at first.
Entries(o, C) == C \cup {[path |-> p, content |-> Content(o, p)] : p \in {c.path : c \in C}}
Covered(o, journal, now) == \A p : (\A n \in DOMAIN journal : journal[n].path # p) => Content(now, p) = Content(o, p)
Oldest(o, journal) ==
  \A n \in DOMAIN journal : (\A k \in DOMAIN journal : k < n => journal[k].path # journal[n].path)
                            => journal[n].content = Content(o, journal[n].path)
Newest(o, journal) ==
  \A n \in DOMAIN journal : (\A k \in DOMAIN journal : k > n => journal[k].path # journal[n].path)
                            => journal[n].content = Content(o, journal[n].path)

\* The journal, before the change it is written for and after it.
LEMMA Journalled ==
  ASSUME NEW o, NEW X, NEW journal \in Seq(X), NEW now, Oldest(o, journal), Covered(o, journal, now),
         NEW entry \in X, entry.content = Content(now, entry.path)
  PROVE  /\ Append(journal, entry) \in Seq(X) /\ Oldest(o, Append(journal, entry))
         /\ \A e : (\A p : p = entry.path \/ Content(e, p) = Content(now, p)) => Covered(o, Append(journal, entry), e)
<1>1. PICK longer : longer = Append(journal, entry)
  OBVIOUS
<1>2. longer \in Seq(X) /\ LastAdded(longer, journal, entry)
  BY <1>1, Appended
<1>3. PICK n \in Nat : DOMAIN journal = 1 .. n /\ DOMAIN longer = 1 .. n + 1 /\ longer[n + 1] = entry /\ \A i \in 1 .. n : longer[i] = journal[i]
  BY <1>2 DEF LastAdded
<1>4. /\ n + 1 \in DOMAIN longer /\ \A i \in DOMAIN journal : i \in DOMAIN longer /\ longer[i] = journal[i] /\ i < n + 1
      /\ \A i \in DOMAIN longer : i = n + 1 \/ i \in DOMAIN journal
  BY <1>3
<1>5. Oldest(o, longer)
  <2>1. ASSUME NEW i \in DOMAIN longer, \A k \in DOMAIN longer : k < i => longer[k].path # longer[i].path
        PROVE  longer[i].content = Content(o, longer[i].path)
    <3>1. CASE i \in DOMAIN journal
      <4>1. \A k \in DOMAIN journal : k < i => journal[k].path # journal[i].path
        BY <1>4, <2>1, <3>1
      <4> QED
        BY <1>4, <3>1, <4>1 DEF Oldest
    <3>2. CASE i = n + 1
      <4>1. \A k \in DOMAIN journal : journal[k].path # entry.path
        BY <1>3, <1>4, <2>1, <3>2
      <4>2. Content(now, entry.path) = Content(o, entry.path)
        BY <4>1 DEF Covered
      <4> QED
        BY <1>3, <3>2, <4>2
    <3> QED
      BY <1>4, <3>1, <3>2
  <2> QED
    BY <2>1 DEF Oldest
<1>6. ASSUME NEW e, \A p : p = entry.path \/ Content(e, p) = Content(now, p)
      PROVE  Covered(o, longer, e)
  <2>1. ASSUME NEW p, \A i \in DOMAIN longer : longer[i].path # p PROVE Content(e, p) = Content(o, p)
    <3>1. p # entry.path
      BY <1>3, <1>4, <2>1
    <3>2. \A i \in DOMAIN journal : journal[i].path # p
      BY <1>4, <2>1
    <3> QED
      BY <1>6, <3>1, <3>2 DEF Covered
  <2> QED
    BY <2>1 DEF Covered
<1> QED
  BY <1>1, <1>2, <1>5, <1>6

LEMMA Reversed ==
  ASSUME NEW o, NEW X, NEW journal \in Seq(X), NEW now, Oldest(o, journal), Covered(o, journal, now)
  PROVE  Reverse(journal) \in Seq(X) /\ Newest(o, Reverse(journal)) /\ Covered(o, Reverse(journal), now)
<1>1. PICK n, back : n = Len(journal) /\ back = Reverse(journal)
  OBVIOUS
<1>2. n \in Nat /\ DOMAIN journal = 1 .. n /\ \A i \in 1 .. n : journal[i] \in X
  BY <1>1, LenProperties, ElementOfSeq
<1>3. back = [i \in 1 .. n |-> journal[(n - i) + 1]]
  BY <1>1 DEF Reverse
<1>4. \A i \in 1 .. n : (n - i) + 1 \in 1 .. n /\ (n - ((n - i) + 1)) + 1 = i
  BY <1>2
<1>5. back \in [1 .. n -> X] /\ DOMAIN back = 1 .. n /\ \A i \in 1 .. n : back[i] = journal[(n - i) + 1]
  BY <1>2, <1>3, <1>4
<1>6. back \in Seq(X)
  BY <1>2, <1>5
<1>7. ASSUME NEW i \in 1 .. n, \A k \in 1 .. n : k > i => back[k].path # back[i].path
      PROVE  back[i].content = Content(o, back[i].path)
  <2>1. PICK at : at = (n - i) + 1 /\ at \in 1 .. n /\ back[i] = journal[at]
    BY <1>4, <1>5
  <2>2. ASSUME NEW k \in 1 .. n, k < at PROVE journal[k].path # journal[at].path
    <3>1. PICK m : m = (n - k) + 1 /\ m \in 1 .. n /\ m > i
      BY <1>2, <1>4, <2>1, <2>2
    <3>2. back[m] = journal[k]
      BY <1>4, <1>5, <2>2, <3>1
    <3> QED
      BY <1>7, <2>1, <3>1, <3>2
  <2> QED
    BY <1>2, <2>1, <2>2 DEF Oldest
<1>8. Newest(o, back)
  BY <1>5, <1>7 DEF Newest
<1>9. ASSUME NEW p, \A i \in 1 .. n : back[i].path # p PROVE Content(now, p) = Content(o, p)
  <2>1. ASSUME NEW k \in 1 .. n PROVE journal[k].path # p
    <3>1. PICK m : m = (n - k) + 1 /\ m \in 1 .. n
      BY <1>4, <2>1
    <3>2. back[m] = journal[k]
      BY <1>4, <1>5, <2>1, <3>1
    <3> QED
      BY <1>9, <3>1, <3>2
  <2> QED
    BY <1>2, <2>1 DEF Covered
<1>10. Covered(o, back, now)
  BY <1>5, <1>9 DEF Covered
<1> QED
  BY <1>1, <1>6, <1>8, <1>10

\* Putting one entry back.
LEMMA Reverted ==
  ASSUME NEW o, NEW X, NEW journal \in Seq(X), journal # <<>>, NEW now, Newest(o, journal), Covered(o, journal, now),
         NEW e, \A p : Content(e, p) = IF p = Head(journal).path THEN Head(journal).content ELSE Content(now, p)
  PROVE  Newest(o, Tail(journal)) /\ Covered(o, Tail(journal), e)
<1>1. PICK n, rest, first : n = Len(journal) /\ rest = Tail(journal) /\ first = Head(journal)
  OBVIOUS
<1>2. n \in Nat /\ n # 0 /\ DOMAIN journal = 1 .. n
  BY <1>1, LenProperties
<1>3. DOMAIN rest = 1 .. n - 1 /\ first = journal[1] /\ \A i \in 1 .. n - 1 : rest[i] = journal[i + 1]
  <2>1. rest \in Seq(X) /\ Len(rest) = n - 1 /\ \A i \in 1 .. Len(rest) : rest[i] = journal[i + 1]
    BY <1>1, HeadTailProperties
  <2>2. DOMAIN rest = 1 .. n - 1
    BY <2>1, LenProperties
  <2>3. first = journal[1]
    BY <1>1
  <2> QED
    BY <2>1, <2>2, <2>3
<1>4. Newest(o, rest)
  <2>1. ASSUME NEW i \in 1 .. n - 1, \A k \in 1 .. n - 1 : k > i => rest[k].path # rest[i].path
        PROVE  rest[i].content = Content(o, rest[i].path)
    <3>1. PICK at : at = i + 1 /\ at \in 1 .. n /\ rest[i] = journal[at]
      BY <1>2, <1>3, <2>1
    <3>2. ASSUME NEW k \in 1 .. n, k > at PROVE journal[k].path # journal[at].path
      <4>1. PICK m : m = k - 1 /\ m \in 1 .. n - 1 /\ m > i /\ m + 1 = k
        BY <1>2, <2>1, <3>1, <3>2
      <4>2. rest[m] = journal[k]
        BY <1>3, <4>1
      <4> QED
        BY <2>1, <3>1, <4>1, <4>2
    <3> QED
      BY <1>2, <3>1, <3>2 DEF Newest
  <2> QED
    BY <1>3, <2>1 DEF Newest
<1>5. ASSUME NEW p, \A i \in 1 .. n - 1 : rest[i].path # p PROVE Content(e, p) = Content(o, p)
  <2>1. ASSUME NEW k \in 1 .. n, k > 1 PROVE journal[k].path # p
    <3>1. PICK m : m = k - 1 /\ m \in 1 .. n - 1 /\ m + 1 = k
      BY <1>2, <2>1
    <3> QED
      BY <1>3, <1>5, <3>1
  <2>2. CASE p = first.path
    <3>1. 1 \in 1 .. n
      BY <1>2
    <3>2. first.content = Content(o, p)
      BY <1>2, <1>3, <2>1, <2>2, <3>1 DEF Newest
    <3> QED
      BY <1>1, <2>2, <3>2
  <2>3. CASE p # first.path
    <3>1. \A k \in 1 .. n : journal[k].path # p
      BY <1>2, <1>3, <2>1, <2>3
    <3>2. Content(now, p) = Content(o, p)
      BY <1>2, <3>1 DEF Covered
    <3> QED
      BY <1>1, <2>3, <3>2
  <2> QED
    BY <2>2, <2>3
<1>6. Covered(o, rest, e)
  BY <1>3, <1>5 DEF Covered
<1> QED
  BY <1>1, <1>4, <1>6

-----------------------------------------------------------------------------
\* FeaturePlan: the invariant.  A plan was made of files d and would leave ids installed; what was touched since
\* is known; of the files o there were at the confirmation each is as it was or as a change of the plan made it,
\* and the journal holds what it was before.

Shaped(c) ==
  c = [mode |-> c.mode, todo |-> c.todo, undo |-> c.undo, origin |-> c.origin, force |-> c.force,
       touched |-> c.touched, undone |-> c.undone, again |-> c.again]

Untouched(now, d, touched) == \A p : p \in touched \/ Content(now, p) = Content(d, p)

Planning(c, d, ids, C) ==
  /\ PlanOf(C, d, ids, c.force, c.again) /\ c.todo \in Seq(C)
  /\ MANIFEST_FILE \notin c.touched /\ (c.again # <<>> => c.touched = {})

Waiting(c, now, d, ids, C) ==
  /\ Planning(c, d, ids, C) /\ C = ToSet(c.todo) /\ c.undo = <<>> /\ c.undone = TRUE
  /\ Untouched(now, d, c.touched)

Possible(o, C, now) == \A p : Content(now, p) = Content(o, p) \/ [path |-> p, content |-> Content(now, p)] \in C

\* The files a plan is applied to are those it was made of, or, for generate, those but for the manifest,
\* in which more is recorded.
Follows(o, d, c) ==
  \/ Untouched(o, d, c.touched)
  \/ c.again = <<>> /\ Untouched(o, d, {MANIFEST_FILE}) /\ readManifest(o).extra \subseteq readManifest(d).extra

Running(c, now, d, ids, C, o) ==
  /\ Planning(c, d, ids, C) /\ c.origin = <<o>> /\ GoodDisk(o) /\ Follows(o, d, c)
  /\ Possible(o, C, now) /\ c.undo \in Seq(Entries(o, C))

\* What was done of the plan, D, is on disk.
Done(o, D, now) ==
  \A p : /\ (\E c \in D : c.path = p) => [path |-> p, content |-> Content(now, p)] \in D
         /\ (\A c \in D : c.path # p) => Content(now, p) = Content(o, p)

Writing(c, now, d, ids, C, o, D) ==
  /\ Running(c, now, d, ids, C, o) /\ C = D \cup ToSet(c.todo) /\ Done(o, D, now)
  /\ Oldest(o, c.undo) /\ Covered(o, c.undo, now) /\ c.undone = TRUE

Undoing(c, now, d, ids, C, o) ==
  /\ Running(c, now, d, ids, C, o)
  /\ c.undone = TRUE => Newest(o, c.undo) /\ Covered(o, c.undo, now)

FeaturesInv(c, now) ==
  /\ Shaped(c) /\ GoodDisk(now)
  /\ c.mode \in {"idle", "planned", "writing", "undoing"}
  /\ c.mode = "idle" => (c.again # <<>> => planAdd(now, c.again) # Refused)
  /\ c.mode = "planned" => \E d, ids, C : Waiting(c, now, d, ids, C)
  /\ c.mode = "writing" => \E d, ids, C, o, D : Writing(c, now, d, ids, C, o, D)
  /\ c.mode = "undoing" => \E d, ids, C, o : Undoing(c, now, d, ids, C, o)

LEMMA SameManifest ==
  ASSUME NEW a, GoodDisk(a), NEW b, GoodDisk(b), Content(a, MANIFEST_FILE) = Content(b, MANIFEST_FILE)
  PROVE  readManifest(a) = readManifest(b) /\ Installed(a) = Installed(b)
<1>1. (\A p \in DOMAIN a : a[p] # NoFile) /\ (\A p \in DOMAIN b : b[p] # NoFile)
  BY DEF GoodDisk
<1>2. readManifest(a) = readManifest(b)
  BY <1>1 DEF Content, readManifest
<1> QED
  BY <1>2 DEF Installed

\* When the manifest is the plan's, the features are; it is the plan's or the one it was made of.
LEMMA InstalledWritten ==
  ASSUME NEW c, NEW now, GoodDisk(now), NEW d, NEW ids, NEW C, NEW o, Running(c, now, d, ids, C, o),
         NEW x \in C, x.path = MANIFEST_FILE, x.content = Content(now, MANIFEST_FILE)
  PROVE  Installed(now) = ids /\ readManifest(now).extra = readManifest(d).extra
<1> DEFINE M == MANIFEST_FILE
<1>1. Proper(x, d, ids, c.force)
  BY DEF Running, Planning, PlanOf
<1>2. Content(now, M) # NoFile /\ DOMAIN Content(now, M).features = ids /\ Content(now, M).extra = readManifest(d).extra
  BY <1>1 DEF Proper
<1>3. M \in DOMAIN now /\ now[M] = Content(now, M)
  BY <1>2 DEF Content
<1> QED
  BY <1>2, <1>3 DEF Installed, readManifest

LEMMA InstalledSoFar ==
  ASSUME NEW c, NEW now, GoodDisk(now), NEW d, NEW ids, NEW C, NEW o, Running(c, now, d, ids, C, o), c.again # <<>>
  PROVE  Installed(now) = Installed(d) \/ Installed(now) = ids
<1> DEFINE M == MANIFEST_FILE
<1>1. Content(o, M) = Content(d, M)
  BY DEF Running, Planning, Follows, Untouched
<1>2. GoodDisk(o) /\ GoodDisk(d)
  BY DEF Running, Planning, PlanOf
<1>3. ASSUME [path |-> M, content |-> Content(now, M)] \in C PROVE Installed(now) = ids
  <2>1. PICK x : x = [path |-> M, content |-> Content(now, M)] /\ x \in C
    BY <1>3
  <2>2. x.path = M /\ x.content = Content(now, M)
    BY <2>1
  <2> QED
    BY <2>1, <2>2, InstalledWritten
<1>4. ASSUME Content(now, M) = Content(o, M) PROVE Installed(now) = Installed(d)
  <2>1. Content(now, M) = Content(d, M)
    BY <1>1, <1>4
  <2> QED
    BY <1>2, <2>1, SameManifest
<1>5. Content(now, M) = Content(o, M) \/ [path |-> M, content |-> Content(now, M)] \in C
  BY DEF Running, Possible
<1> QED
  BY <1>3, <1>4, <1>5

\* Wherever an add that nothing was edited since is cut off, it is accepted again.
LEMMA AcceptedAgain ==
  ASSUME NEW c, NEW now, GoodDisk(now), NEW d, NEW ids, NEW C, NEW o, Running(c, now, d, ids, C, o), c.again # <<>>
  PROVE  planAdd(now, c.again) # Refused
<1>1. PICK request, was, add0 : request = c.again /\ was = Installed(d) /\ add0 = Planned(was, request)
  OBVIOUS
<1>2. PlanOf(C, d, ids, c.force, request) /\ request # <<>> /\ c.touched = {}
  BY <1>1 DEF Running, Planning
<1>3. /\ request \in Additions /\ ids = was \cup add0 /\ \A id \in add0 : Taken(d, id) = {}
      /\ \A x \in C, id \in add0 : x.path \in Features[id].files => x.content = template(id, x.path)
  BY <1>1, <1>2 DEF PlanOf, Adding
<1>4. GoodDisk(d) /\ Fit(ids) /\ Lost(d, ids) = {} /\ \A x \in C : Proper(x, d, ids, c.force)
  BY <1>2 DEF PlanOf
<1>5. request \in Seq(Known \cup DOMAIN authPresets)
  BY <1>3, CommandsAssumption DEF Known
<1>6. ASSUME NEW p PROVE Content(now, p) = Content(d, p) \/ [path |-> p, content |-> Content(now, p)] \in C
  <2>1. Content(o, p) = Content(d, p)
    BY <1>2 DEF Running, Follows, Untouched
  <2>2. Content(now, p) = Content(o, p) \/ [path |-> p, content |-> Content(now, p)] \in C
    BY DEF Running, Possible
  <2> QED
    BY <2>1, <2>2
<1>7. PICK installed, added, after : installed = Installed(now) /\ added = Planned(installed, request) /\ after = installed \cup added
  OBVIOUS
<1>8. after = ids /\ added \subseteq add0 /\ added \subseteq ids /\ ids \subseteq Known
  <2>1. CASE installed = was
    BY <1>1, <1>3, <1>4, <1>7, <2>1 DEF Fit
  <2>2. CASE installed = ids
    <3>1. ToSet(expand(request)) \subseteq was \cup add0
      BY <1>1, <1>5, PlannedIs
    <3>2. added = {}
      BY <1>3, <1>5, <1>7, <2>2, <3>1, PlannedIs
    <3> QED
      BY <1>4, <1>7, <2>2, <3>2 DEF Fit
  <2>3. Installed(now) = Installed(d) \/ Installed(now) = ids
    BY InstalledSoFar
  <2> QED
    BY <1>1, <1>7, <2>1, <2>2, <2>3
<1>9. ~ Conflicting(added, installed)
  <2>1. installed \subseteq ids /\ installed \cup added = ids
    BY <1>7, <1>8
  <2>2. \A id \in ids : Features[id].conflicts \cap ids = {}
    BY <1>4 DEF Fit
  <2> QED
    BY <1>8, <2>1, <2>2 DEF Conflicting
<1>10. \A p \in DOMAIN now : Content(now, p) = now[p] /\ now[p] # NoFile
  BY DEF GoodDisk, Content
<1>11. ASSUME NEW id \in added PROVE Taken(now, id) = {}
  <2>1. ASSUME NEW path \in Features[id].files \cap DOMAIN now PROVE now[path] = template(id, path)
    <3>1. CASE Content(now, path) = Content(d, path)
      <4>1. path \in DOMAIN d /\ d[path] = now[path]
        BY <1>10, <2>1, <3>1 DEF Content
      <4>2. Taken(d, id) = {}
        BY <1>3, <1>8, <1>11
      <4> QED
        BY <2>1, <4>1, <4>2 DEF Taken
    <3>2. CASE [path |-> path, content |-> Content(now, path)] \in C
      <4>1. PICK x : x = [path |-> path, content |-> Content(now, path)] /\ x \in C
        BY <3>2
      <4>2. x.path = path /\ x.content = now[path]
        BY <1>10, <2>1, <4>1
      <4> QED
        BY <1>3, <1>8, <1>11, <2>1, <4>1, <4>2
    <3> QED
      BY <1>6, <3>1, <3>2
  <2> QED
    BY <2>1 DEF Taken
<1>12. ASSUME NEW path \in OutputPaths(ids), IsBlock(path), path \in DOMAIN now
       PROVE  HasMarkers(now[path])
  <2>1. \A p \in DOMAIN d : p # MANIFEST_FILE => d[p] \in Contents
    BY <1>4 DEF GoodDisk
  <2>2. path \in DOMAIN d => HasMarkers(d[path])
    BY <1>4, <1>12 DEF Lost
  <2>3. CASE Content(now, path) = Content(d, path)
    <3>1. path \in DOMAIN d /\ d[path] = now[path]
      BY <1>10, <1>12, <2>3 DEF Content
    <3> QED
      BY <2>2, <3>1
  <2>4. CASE [path |-> path, content |-> Content(now, path)] \in C
    <3>1. PICK x : x = [path |-> path, content |-> Content(now, path)] /\ x \in C
      BY <2>4
    <3>2. x.path = path /\ x.content = now[path] /\ Proper(x, d, ids, c.force)
      BY <1>4, <1>10, <1>12, <3>1
    <3>3. now[path] = Updated(d, path, ids)
      BY <1>12, <3>2 DEF Proper
    <3>4. now[path].text = IF path \in DOMAIN d THEN d[path].text ELSE "initial"
      BY <1>4, <1>8, <1>12, <3>3, UpdatedIs
    <3> QED
      BY <2>2, <3>4 DEF HasMarkers
  <2> QED
    BY <1>6, <2>3, <2>4
<1>13. Lost(now, after) = {}
  BY <1>8, <1>12 DEF Lost
<1>14. Accepts(now, request)
  BY <1>7, <1>9, <1>11, <1>13 DEF Accepts
<1> QED
  BY <1>1, <1>3, <1>14, AddPlan

-----------------------------------------------------------------------------
\* FeaturePlan: every step keeps it.

LEMMA FeaturesBegin ==
  ASSUME FeaturesInit
  PROVE  FeaturesInv(command, disk)
<1>1. command = NoCommand
  BY DEF FeaturesInit
<1>2. GoodDisk(disk)
  <2>1. CASE disk = [path \in {} |-> NoFile]
    <3>1. DOMAIN disk = {} /\ disk = [path \in DOMAIN disk |-> disk[path]]
      BY <2>1
    <3>2. readManifest(disk) = emptyManifest
      BY <3>1 DEF readManifest
    <3> QED
      BY <3>1, <3>2, EmptyFits DEF GoodDisk
  <2>2. ASSUME NEW owners \in SUBSET DOMAIN Generated, disk = [path \in {MANIFEST_FILE} |-> [emptyManifest EXCEPT !.extra = owners]]
        PROVE  GoodDisk(disk)
    <3>1. PICK m : m = [emptyManifest EXCEPT !.extra = owners]
      OBVIOUS
    <3>2. DOMAIN disk = {MANIFEST_FILE} /\ disk = [path \in DOMAIN disk |-> disk[path]] /\ disk[MANIFEST_FILE] = m
      BY <2>2, <3>1
    <3>3. readManifest(disk) = m
      BY <3>2 DEF readManifest
    <3>4. m.features = emptyManifest.features /\ m.outputs = emptyManifest.outputs /\ m.extra = owners /\ "features" \in DOMAIN m
      BY <3>1 DEF emptyManifest
    <3>5. FitManifest(m)
      <4>1. Given(m)
        BY <3>1 DEF emptyManifest, Given
      <4> QED
        BY <3>4, <4>1, EmptyFits DEF FitManifest
    <3>6. m # NoFile
      <4>1. "features" \notin DOMAIN NoFile
        BY DEF NoFile
      <4> QED
        BY <3>4, <4>1
    <3> QED
      BY <3>2, <3>3, <3>5, <3>6 DEF GoodDisk
  <2> QED
    BY <2>1, <2>2 DEF FeaturesInit
<1>3. Shaped(command) /\ command.mode = "idle" /\ command.again = <<>>
  BY <1>1 DEF NoCommand, Shaped
<1> QED
  BY <1>2, <1>3 DEF FeaturesInv

\* A command that is over leaves nothing to be added again.
LEMMA OverKeeps ==
  ASSUME FeaturesInv(command, disk), command' = NoCommand, disk' = disk
  PROVE  FeaturesInv(command', disk')
<1>1. Shaped(command') /\ command'.mode = "idle" /\ command'.again = <<>>
  BY DEF NoCommand, Shaped
<1> QED
  BY <1>1 DEF FeaturesInv

LEMMA PlanKeeps ==
  ASSUME FeaturesInv(command, disk), NEW changes, NEW force, NEW again, Plan(changes, force, again),
         \E C, ids : changes \in Seq(C) /\ C = ToSet(changes) /\ PlanOf(C, disk, ids, force, again)
  PROVE  FeaturesInv(command', disk')
<1>1. PICK C, ids : changes \in Seq(C) /\ C = ToSet(changes) /\ PlanOf(C, disk, ids, force, again)
  OBVIOUS
<1>2. PICK next : next = command'
  OBVIOUS
<1>3. next = [mode |-> "planned", todo |-> changes, undo |-> <<>>, origin |-> <<>>, force |-> force,
              touched |-> {}, undone |-> TRUE, again |-> again]
  BY <1>2 DEF Plan, NoCommand
<1>4. /\ next.mode = "planned" /\ next.todo = changes /\ next.undo = <<>> /\ next.force = force
      /\ next.touched = {} /\ next.undone = TRUE /\ next.again = again /\ Shaped(next)
  BY <1>3 DEF Shaped
<1>5. disk' = disk
  BY DEF Plan
<1>6. Planning(next, disk, ids, C)
  BY <1>1, <1>4 DEF Planning
<1>7. Waiting(next, disk, disk, ids, C)
  BY <1>1, <1>4, <1>6 DEF Waiting, Untouched
<1>8. GoodDisk(disk)
  BY DEF FeaturesInv
<1>9. FeaturesInv(next, disk)
  BY <1>4, <1>7, <1>8 DEF FeaturesInv
<1> QED
  BY <1>2, <1>5, <1>9

LEMMA ConfirmKeeps ==
  ASSUME FeaturesInv(command, disk), Confirm
  PROVE  FeaturesInv(command', disk')
<1>1. Shaped(command) /\ GoodDisk(disk) /\ command.mode = "planned" /\ disk' = disk
  BY DEF Confirm, FeaturesInv
<1>2. PICK d, ids, C : Waiting(command, disk, d, ids, C)
  BY <1>1 DEF FeaturesInv
<1>3. PICK next, o : next = command' /\ o = disk
  OBVIOUS
<1>4. /\ Shaped(next) /\ next.mode = "writing" /\ next.todo = command.todo /\ next.undo = command.undo /\ next.origin = <<o>>
      /\ next.force = command.force /\ next.touched = command.touched /\ next.undone = command.undone /\ next.again = command.again
  BY <1>1, <1>3 DEF Confirm, Shaped
<1>5. Planning(next, d, ids, C)
  BY <1>2, <1>4 DEF Waiting, Planning
<1>6. next.undo = <<>> /\ next.undone = TRUE /\ C = ToSet(next.todo) /\ Untouched(o, d, next.touched)
  BY <1>2, <1>3, <1>4 DEF Waiting
<1>7. Possible(o, C, o) /\ Done(o, {}, o) /\ Covered(o, <<>>, o)
  BY DEF Possible, Done, Covered
<1>8. Oldest(o, <<>>)
  <2>1. DOMAIN <<>> = {}
    OBVIOUS
  <2> QED
    BY <2>1 DEF Oldest
<1>9. next.undo \in Seq(Entries(o, C))
  BY <1>6, EmptySeq
<1>10. Running(next, o, d, ids, C, o)
  BY <1>1, <1>3, <1>4, <1>5, <1>6, <1>7, <1>9 DEF Running, Follows
<1>11. Writing(next, o, d, ids, C, o, {})
  BY <1>6, <1>7, <1>8, <1>10 DEF Writing
<1>12. FeaturesInv(next, o)
  BY <1>1, <1>3, <1>4, <1>11 DEF FeaturesInv
<1> QED
  BY <1>1, <1>3, <1>12

\* The change that comes next, and its entry in the journal.
LEMMA NextChange ==
  ASSUME NEW c, NEW now, GoodDisk(now), NEW d, NEW ids, NEW C, NEW o, Running(c, now, d, ids, C, o), c.todo # <<>>,
         NEW change, change = Head(c.todo), NEW entry, entry = [path |-> change.path, content |-> Content(now, change.path)]
  PROVE  /\ change \in C /\ change = [path |-> change.path, content |-> change.content] /\ GoodContent(change.path, change.content)
         /\ Tail(c.todo) \in Seq(C) /\ ToSet(c.todo) = {change} \cup ToSet(Tail(c.todo))
         /\ entry \in Entries(o, C) /\ entry.path = change.path /\ entry.content = Content(now, change.path)
<1>1. c.todo \in Seq(C) /\ \A x \in C : Proper(x, d, ids, c.force)
  BY DEF Running, Planning, PlanOf
<1>2. PICK todo, rest : todo = c.todo /\ rest = Tail(todo)
  OBVIOUS
<1>3. PICK n : n = Len(todo)
  OBVIOUS
<1>4. n \in Nat /\ n # 0 /\ DOMAIN todo = 1 .. n
  BY <1>1, <1>2, <1>3, LenProperties
<1>5. change \in C /\ rest \in Seq(C) /\ Len(rest) = n - 1 /\ \A i \in 1 .. n - 1 : rest[i] = todo[i + 1]
  <2>1. change \in C /\ rest \in Seq(C) /\ Len(rest) = n - 1 /\ \A i \in 1 .. Len(rest) : rest[i] = todo[i + 1]
    BY <1>1, <1>2, <1>3, HeadTailProperties
  <2> QED
    BY <2>1
<1>6. change = todo[1]
  BY <1>1, <1>2
<1>7. DOMAIN rest = 1 .. n - 1
  BY <1>5, LenProperties
<1>8. ToSet(todo) = {change} \cup ToSet(rest)
  <2>1. ASSUME NEW i \in 1 .. n PROVE todo[i] \in {change} \cup ToSet(rest)
    <3>1. CASE i = 1
      BY <1>6, <3>1
    <3>2. CASE i # 1
      <4>1. PICK k : k = i - 1 /\ k \in 1 .. n - 1 /\ k + 1 = i
        BY <1>4, <2>1, <3>2
      <4>2. todo[i] = rest[k]
        BY <1>5, <4>1
      <4> QED
        BY <1>7, <4>1, <4>2 DEF ToSet
    <3> QED
      BY <3>1, <3>2
  <2>2. ASSUME NEW i \in 1 .. n - 1 PROVE rest[i] \in ToSet(todo)
    <3>1. i + 1 \in 1 .. n
      BY <1>4, <2>2
    <3> QED
      BY <1>4, <1>5, <2>2, <3>1 DEF ToSet
  <2>3. 1 \in 1 .. n
    BY <1>4
  <2> QED
    BY <1>4, <1>6, <1>7, <2>1, <2>2, <2>3 DEF ToSet
<1>9. change = [path |-> change.path, content |-> change.content] /\ GoodContent(change.path, change.content)
  BY <1>1, <1>5 DEF Proper
<1>10. entry.path = change.path /\ entry.content = Content(now, change.path)
  OBVIOUS
<1>11. entry \in Entries(o, C)
  <2>1. Content(now, change.path) = Content(o, change.path) \/ entry \in C
    BY DEF Running, Possible
  <2>2. CASE Content(now, change.path) = Content(o, change.path)
    BY <1>5, <2>2 DEF Entries
  <2>3. CASE entry \in C
    BY <2>3 DEF Entries
  <2> QED
    BY <2>1, <2>2, <2>3
<1> QED
  BY <1>2, <1>5, <1>8, <1>9, <1>10, <1>11

LEMMA WriteKeeps ==
  ASSUME FeaturesInv(command, disk), Write
  PROVE  FeaturesInv(command', disk')
<1>1. Shaped(command) /\ GoodDisk(disk) /\ command.mode = "writing" /\ command.todo # <<>>
  BY DEF Write, FeaturesInv
<1>2. PICK d, ids, C, o, D : Writing(command, disk, d, ids, C, o, D)
  BY <1>1 DEF FeaturesInv
<1>3. PICK now, later, next : now = disk /\ later = disk' /\ next = command'
  OBVIOUS
<1>4. PICK change, entry : change = Head(command.todo) /\ entry = [path |-> change.path, content |-> Content(now, change.path)]
  OBVIOUS
<1>5. later = With(now, change.path, change.content)
  BY <1>3, <1>4 DEF Write
<1>6. PICK rest, journal : rest = Tail(command.todo) /\ journal = Append(command.undo, entry)
  OBVIOUS
<1>7. Journal = journal
  BY <1>3, <1>4, <1>6 DEF Journal
<1>8. /\ Shaped(next) /\ next.mode = "writing" /\ next.todo = rest /\ next.undo = journal /\ next.origin = command.origin
      /\ next.force = command.force /\ next.touched = command.touched /\ next.undone = command.undone /\ next.again = command.again
  BY <1>1, <1>3, <1>6, <1>7 DEF Write, Shaped
<1>9. Running(command, now, d, ids, C, o)
  BY <1>2, <1>3 DEF Writing
<1>10. /\ change \in C /\ change = [path |-> change.path, content |-> change.content] /\ GoodContent(change.path, change.content)
       /\ rest \in Seq(C) /\ ToSet(command.todo) = {change} \cup ToSet(rest)
       /\ entry \in Entries(o, C) /\ entry.path = change.path /\ entry.content = Content(now, change.path)
  <2>1. GoodDisk(now) /\ command.todo # <<>>
    BY <1>1, <1>3
  <2>2. /\ change \in C /\ change = [path |-> change.path, content |-> change.content] /\ GoodContent(change.path, change.content)
        /\ Tail(command.todo) \in Seq(C) /\ ToSet(command.todo) = {change} \cup ToSet(Tail(command.todo))
        /\ entry \in Entries(o, C) /\ entry.path = change.path /\ entry.content = Content(now, change.path)
    BY <1>4, <1>9, <2>1, NextChange
  <2> QED
    BY <1>6, <2>2
<1>11. GoodDisk(later)
  BY <1>1, <1>3, <1>5, <1>10, GoodWrite
<1>12. \A p : Content(later, p) = IF p = change.path THEN change.content ELSE Content(now, p)
  <2>1. \A p \in DOMAIN now : now[p] # NoFile
    BY <1>1, <1>3 DEF GoodDisk
  <2> QED
    BY <1>5, <2>1, WithIs
<1>13. command.undo \in Seq(Entries(o, C)) /\ Oldest(o, command.undo) /\ Covered(o, command.undo, now)
  BY <1>2, <1>3, <1>9 DEF Writing, Running
<1>14. journal \in Seq(Entries(o, C)) /\ Oldest(o, journal) /\ Covered(o, journal, later)
  <2>1. \A p : p = entry.path \/ Content(later, p) = Content(now, p)
    BY <1>10, <1>12
  <2>2. /\ journal \in Seq(Entries(o, C)) /\ Oldest(o, journal)
        /\ \A e : (\A p : p = entry.path \/ Content(e, p) = Content(now, p)) => Covered(o, journal, e)
    BY <1>6, <1>10, <1>13, Journalled
  <2> QED
    BY <2>1, <2>2
<1>15. Possible(o, C, later)
  <2>1. ASSUME NEW p PROVE Content(later, p) = Content(o, p) \/ [path |-> p, content |-> Content(later, p)] \in C
    <3>1. CASE p = change.path
      BY <1>10, <1>12, <3>1
    <3>2. CASE p # change.path
      BY <1>9, <1>12, <3>2 DEF Running, Possible
    <3> QED
      BY <3>1, <3>2
  <2> QED
    BY <2>1 DEF Possible
<1>16. PICK D2 : D2 = D \cup {change}
  OBVIOUS
<1>17. C = D2 \cup ToSet(rest)
  BY <1>2, <1>10, <1>16 DEF Writing
<1>18. Done(o, D2, later)
  <2>1. ASSUME NEW p
        PROVE  /\ (\E c \in D2 : c.path = p) => [path |-> p, content |-> Content(later, p)] \in D2
               /\ (\A c \in D2 : c.path # p) => Content(later, p) = Content(o, p)
    <3>1. CASE p = change.path
      BY <1>10, <1>12, <1>16, <3>1
    <3>2. CASE p # change.path
      <4>1. /\ (\E c \in D : c.path = p) => [path |-> p, content |-> Content(now, p)] \in D
            /\ (\A c \in D : c.path # p) => Content(now, p) = Content(o, p)
        BY <1>2, <1>3 DEF Writing, Done
      <4>2. Content(later, p) = Content(now, p)
        BY <1>12, <3>2
      <4> QED
        BY <1>16, <3>2, <4>1, <4>2
    <3> QED
      BY <3>1, <3>2
  <2> QED
    BY <2>1 DEF Done
<1>19. Planning(next, d, ids, C)
  BY <1>8, <1>9, <1>10 DEF Running, Planning
<1>20. Running(next, later, d, ids, C, o)
  BY <1>8, <1>9, <1>14, <1>15, <1>19 DEF Running, Follows
<1>21. Writing(next, later, d, ids, C, o, D2)
  BY <1>2, <1>8, <1>14, <1>17, <1>18, <1>20 DEF Writing
<1>22. FeaturesInv(next, later)
  BY <1>8, <1>11, <1>21 DEF FeaturesInv
<1> QED
  BY <1>3, <1>22

LEMMA WriteFailsKeeps ==
  ASSUME FeaturesInv(command, disk), WriteFails
  PROVE  FeaturesInv(command', disk')
<1>1. Shaped(command) /\ GoodDisk(disk) /\ command.mode = "writing" /\ command.todo # <<>> /\ disk' = disk
  BY DEF WriteFails, FeaturesInv
<1>2. PICK d, ids, C, o, D : Writing(command, disk, d, ids, C, o, D)
  BY <1>1 DEF FeaturesInv
<1>3. PICK now, next : now = disk /\ next = command'
  OBVIOUS
<1>4. PICK change, entry : change = Head(command.todo) /\ entry = [path |-> change.path, content |-> Content(now, change.path)]
  OBVIOUS
<1>5. PICK journal, back : journal = Append(command.undo, entry) /\ back = Reverse(journal)
  OBVIOUS
<1>6. Journal = journal
  BY <1>3, <1>4, <1>5 DEF Journal
<1>7. /\ Shaped(next) /\ next.mode = "undoing" /\ next.todo = <<>> /\ next.undo = back /\ next.origin = command.origin
      /\ next.force = command.force /\ next.touched = command.touched /\ next.again = command.again
  BY <1>1, <1>3, <1>5, <1>6 DEF WriteFails, Shaped
<1>8. Running(command, now, d, ids, C, o)
  BY <1>2, <1>3 DEF Writing
<1>9. entry \in Entries(o, C) /\ entry.path = change.path /\ entry.content = Content(now, change.path)
  BY <1>1, <1>3, <1>4, <1>8, NextChange
<1>10. command.undo \in Seq(Entries(o, C)) /\ Oldest(o, command.undo) /\ Covered(o, command.undo, now)
  BY <1>2, <1>3, <1>8 DEF Writing, Running
<1>11. journal \in Seq(Entries(o, C)) /\ Oldest(o, journal) /\ Covered(o, journal, now)
  BY <1>5, <1>9, <1>10, Journalled
<1>12. back \in Seq(Entries(o, C)) /\ Newest(o, back) /\ Covered(o, back, now)
  BY <1>5, <1>11, Reversed
<1>13. Planning(next, d, ids, C)
  BY <1>7, <1>8, EmptySeq DEF Running, Planning
<1>14. Running(next, now, d, ids, C, o)
  BY <1>7, <1>8, <1>12, <1>13 DEF Running, Follows
<1>15. Undoing(next, now, d, ids, C, o)
  BY <1>7, <1>12, <1>14 DEF Undoing
<1>16. FeaturesInv(next, now)
  BY <1>1, <1>3, <1>7, <1>15 DEF FeaturesInv
<1> QED
  BY <1>1, <1>3, <1>16

LEMMA UndoKeeps ==
  ASSUME FeaturesInv(command, disk), UndoChange
  PROVE  FeaturesInv(command', disk')
<1>1. Shaped(command) /\ GoodDisk(disk) /\ command.mode = "undoing" /\ command.undo # <<>>
  BY DEF UndoChange, FeaturesInv
<1>2. PICK d, ids, C, o : Undoing(command, disk, d, ids, C, o)
  BY <1>1 DEF FeaturesInv
<1>3. PICK now, later, next : now = disk /\ later = disk' /\ next = command'
  OBVIOUS
<1>4. PICK X, journal, entry, rest : X = Entries(o, C) /\ journal = command.undo /\ entry = Head(journal) /\ rest = Tail(journal)
  OBVIOUS
<1>5. Running(command, now, d, ids, C, o) /\ journal \in Seq(X) /\ journal # <<>>
  BY <1>1, <1>2, <1>3, <1>4 DEF Undoing, Running
<1>6. entry \in X /\ rest \in Seq(X)
  BY <1>4, <1>5, HeadTailProperties
<1>7. /\ Shaped(next) /\ next.mode = "undoing" /\ next.todo = command.todo /\ next.undo = rest /\ next.origin = command.origin
      /\ next.force = command.force /\ next.touched = command.touched /\ next.again = command.again
  <2>1. \/ next = [command EXCEPT !.undo = Tail(@)]
        \/ next = [command EXCEPT !.undo = Tail(@), !.undone = FALSE]
    BY <1>3 DEF UndoChange
  <2>2. CASE next = [command EXCEPT !.undo = Tail(@)]
    BY <1>1, <1>4, <2>2 DEF Shaped
  <2>3. CASE next = [command EXCEPT !.undo = Tail(@), !.undone = FALSE]
    BY <1>1, <1>4, <2>3 DEF Shaped
  <2> QED
    BY <2>1, <2>2, <2>3
<1>8. Planning(next, d, ids, C)
  BY <1>5, <1>7 DEF Running, Planning
<1>9. CASE later = now /\ next.undone = FALSE
  <2>1. Running(next, now, d, ids, C, o)
    BY <1>4, <1>5, <1>6, <1>7, <1>8 DEF Running, Follows
  <2>2. Undoing(next, now, d, ids, C, o)
    BY <1>9, <2>1 DEF Undoing
  <2> QED
    BY <1>1, <1>3, <1>7, <1>9, <2>2 DEF FeaturesInv
<1>10. CASE later = With(now, entry.path, entry.content) /\ next.undone = command.undone
  <2>1. \A x \in C : Proper(x, d, ids, command.force)
    BY <1>5 DEF Running, Planning, PlanOf
  <2>2. GoodDisk(o)
    BY <1>5 DEF Running
  <2>3. /\ GoodContent(entry.path, entry.content)
        /\ entry.content = Content(o, entry.path) \/ [path |-> entry.path, content |-> entry.content] \in C
    <3>1. CASE entry \in C
      <4>1. Proper(entry, d, ids, command.force)
        BY <2>1, <3>1
      <4> QED
        BY <3>1, <4>1 DEF Proper
    <3>2. CASE \E p : entry = [path |-> p, content |-> Content(o, p)]
      <4>1. PICK p : entry = [path |-> p, content |-> Content(o, p)]
        BY <3>2
      <4>2. entry.path = p /\ entry.content = Content(o, p)
        BY <4>1
      <4> QED
        BY <2>2, <4>2, GoodRead
    <3> QED
      BY <1>4, <1>6, <3>1, <3>2 DEF Entries
  <2>4. GoodDisk(later)
    BY <1>1, <1>3, <1>10, <2>3, GoodWrite
  <2>5. \A p : Content(later, p) = IF p = entry.path THEN entry.content ELSE Content(now, p)
    <3>1. \A p \in DOMAIN now : now[p] # NoFile
      BY <1>1, <1>3 DEF GoodDisk
    <3> QED
      BY <1>10, <3>1, WithIs
  <2>6. Possible(o, C, later)
    <3>1. ASSUME NEW p PROVE Content(later, p) = Content(o, p) \/ [path |-> p, content |-> Content(later, p)] \in C
      <4>1. CASE p = entry.path
        BY <2>3, <2>5, <4>1
      <4>2. CASE p # entry.path
        BY <1>5, <2>5, <4>2 DEF Running, Possible
      <4> QED
        BY <4>1, <4>2
    <3> QED
      BY <3>1 DEF Possible
  <2>7. Running(next, later, d, ids, C, o)
    BY <1>4, <1>5, <1>6, <1>7, <1>8, <2>6 DEF Running, Follows
  <2>8. ASSUME next.undone = TRUE PROVE Newest(o, rest) /\ Covered(o, rest, later)
    <3>1. Newest(o, journal) /\ Covered(o, journal, now)
      BY <1>2, <1>3, <1>4, <1>10, <2>8 DEF Undoing
    <3>2. journal \in Seq(Entries(o, C)) /\ journal # <<>>
      BY <1>4, <1>5
    <3>3. \A p : Content(later, p) = IF p = Head(journal).path THEN Head(journal).content ELSE Content(now, p)
      BY <1>4, <2>5
    <3>4. Newest(o, Tail(journal)) /\ Covered(o, Tail(journal), later)
      BY <3>1, <3>2, <3>3, Reverted, Zenon
    <3> QED
      BY <1>4, <3>4
  <2>9. Undoing(next, later, d, ids, C, o)
    BY <1>7, <2>7, <2>8 DEF Undoing
  <2> QED
    BY <1>3, <1>7, <2>4, <2>9 DEF FeaturesInv
<1>11. \/ later = now /\ next.undone = FALSE
       \/ later = With(now, entry.path, entry.content) /\ next.undone = command.undone
  <2>1. \/ later = With(now, entry.path, entry.content) /\ next = [command EXCEPT !.undo = Tail(@)]
        \/ later = now /\ next = [command EXCEPT !.undo = Tail(@), !.undone = FALSE]
    BY <1>3, <1>4 DEF UndoChange
  <2>2. CASE later = With(now, entry.path, entry.content) /\ next = [command EXCEPT !.undo = Tail(@)]
    BY <1>1, <2>2 DEF Shaped
  <2>3. CASE later = now /\ next = [command EXCEPT !.undo = Tail(@), !.undone = FALSE]
    BY <1>1, <2>3 DEF Shaped
  <2> QED
    BY <2>1, <2>2, <2>3
<1> QED
  BY <1>9, <1>10, <1>11

LEMMA KilledKeeps ==
  ASSUME FeaturesInv(command, disk), Killed
  PROVE  FeaturesInv(command', disk')
<1>1. GoodDisk(disk) /\ disk' = disk /\ command.mode \in {"writing", "undoing"}
  BY DEF Killed, FeaturesInv
<1>2. PICK next : next = command'
  OBVIOUS
<1>3. Shaped(next) /\ next.mode = "idle" /\ next.again = command.again
  BY <1>2 DEF Killed, NoCommand, Shaped
<1>4. \E d, ids, C, o : Running(command, disk, d, ids, C, o)
  <2>1. CASE command.mode = "writing"
    <3>1. PICK d, ids, C, o, D : Writing(command, disk, d, ids, C, o, D)
      BY <2>1 DEF FeaturesInv
    <3> QED
      BY <3>1 DEF Writing
  <2>2. CASE command.mode = "undoing"
    <3>1. PICK d, ids, C, o : Undoing(command, disk, d, ids, C, o)
      BY <2>2 DEF FeaturesInv
    <3> QED
      BY <3>1 DEF Undoing
  <2> QED
    BY <1>1, <2>1, <2>2
<1>5. command.again # <<>> => planAdd(disk, command.again) # Refused
  BY <1>1, <1>4, AcceptedAgain
<1>6. FeaturesInv(next, disk)
  BY <1>1, <1>3, <1>5 DEF FeaturesInv
<1> QED
  BY <1>1, <1>2, <1>6

LEMMA EditKeeps ==
  ASSUME FeaturesInv(command, disk), NEW path \in Edited, Edit(path)
  PROVE  FeaturesInv(command', disk')
<1>1. Shaped(command) /\ GoodDisk(disk) /\ command.mode \in {"idle", "planned"} /\ path \in DOMAIN disk
  BY DEF Edit, FeaturesInv
<1>2. path # MANIFEST_FILE
  BY CommandsAssumption
<1>3. PICK next, now, later : next = command' /\ now = disk /\ later = disk'
  OBVIOUS
<1>4. /\ Shaped(next) /\ next.mode = command.mode /\ next.todo = command.todo /\ next.undo = command.undo /\ next.force = command.force
      /\ next.touched = command.touched \cup {path} /\ next.undone = command.undone /\ next.again = <<>>
  BY <1>1, <1>3 DEF Edit, Shaped
<1>5. \E content \in Contents \cup {NoFile} : later = With(now, path, content)
  <2>1. PICK old : old = now[path] /\ old \in Contents
    BY <1>1, <1>2, <1>3 DEF GoodDisk
  <2>2. old.of \in SUBSET Lines /\ DOMAIN old = {"text", "of"}
    BY <2>1 DEF Contents
  <2>3. "edited" \in Texts /\ "edited around" \in Texts
    BY DEF Texts
  <2>4. [text |-> "edited", of |-> {}] \in Contents
    BY <2>3 DEF Contents
  <2>5. [old EXCEPT !.text = "edited around"] \in Contents
    BY <2>1, <2>3 DEF Contents
  <2>6. \/ later = With(now, path, [text |-> "edited", of |-> {}])
        \/ later = With(now, path, NoFile)
        \/ later = With(now, path, [old EXCEPT !.text = "edited around"])
        \/ \E lines \in {{}, old.of \cup {BlankLine}, old.of \cup {OwnLine}} : later = With(now, path, [old EXCEPT !.of = lines])
    BY <1>3, <2>1 DEF Edit
  <2>7. \A lines \in {{}, old.of \cup {BlankLine}, old.of \cup {OwnLine}} : [old EXCEPT !.of = lines] \in Contents
    <3>1. {BlankLine, OwnLine} \subseteq Lines
      BY DEF Lines
    <3>2. \A lines \in {{}, old.of \cup {BlankLine}, old.of \cup {OwnLine}} : lines \in SUBSET Lines
      BY <2>2, <3>1
    <3> QED
      BY <2>1, <3>2 DEF Contents
  <2> QED
    BY <2>4, <2>5, <2>6, <2>7
<1>6. PICK content \in Contents \cup {NoFile} : later = With(now, path, content)
  BY <1>5
<1>7. GoodDisk(later)
  <2>1. GoodContent(path, content)
    BY <1>2 DEF GoodContent
  <2> QED
    BY <1>1, <1>3, <1>6, <2>1, GoodWrite
<1>8. \A p : p = path \/ Content(later, p) = Content(now, p)
  <2>1. \A p \in DOMAIN now : now[p] # NoFile
    BY <1>1, <1>3 DEF GoodDisk
  <2> QED
    BY <1>6, <2>1, WithIs
<1>9. CASE command.mode = "idle"
  BY <1>3, <1>4, <1>7, <1>9 DEF FeaturesInv
<1>10. CASE command.mode = "planned"
  <2>1. PICK d, ids, C : Waiting(command, now, d, ids, C)
    BY <1>3, <1>10 DEF FeaturesInv
  <2>2. PlanOf(C, d, ids, command.force, <<>>)
    BY <2>1 DEF Waiting, Planning, PlanOf
  <2>3. Planning(next, d, ids, C)
    BY <1>2, <1>4, <2>1, <2>2 DEF Waiting, Planning
  <2>4. Untouched(later, d, next.touched)
    BY <1>4, <1>8, <2>1 DEF Waiting, Untouched
  <2>5. Waiting(next, later, d, ids, C)
    BY <1>4, <2>1, <2>3, <2>4 DEF Waiting
  <2> QED
    BY <1>3, <1>4, <1>7, <1>10, <2>5 DEF FeaturesInv
<1> QED
  BY <1>1, <1>9, <1>10

LEMMA GenerateKeeps ==
  ASSUME FeaturesInv(command, disk), NEW owner \in DOMAIN Generated, generate(owner)
  PROVE  FeaturesInv(command', disk')
<1>1. GoodDisk(disk)
  BY DEF FeaturesInv
<1>2. PICK file, content : file = Generated[owner].file /\ content = [text |-> "scaffold", of |-> {}]
  OBVIOUS
<1>3. content \in Contents /\ file # MANIFEST_FILE
  <2>1. "scaffold" \in Texts
    BY DEF Texts
  <2>2. file \in Kinds[6] /\ MANIFEST_FILE \in Kinds[5]
    BY <1>2 DEF Kinds
  <2>3. Kinds[6] \cap Kinds[5] = {}
    <3>1. 5 \in 1 .. 6 /\ 6 \in 1 .. 6
      OBVIOUS
    <3> QED
      BY <3>1, KindsApart
  <2> QED
    BY <1>2, <2>1, <2>2, <2>3 DEF Contents
<1>4. PICK o : o = With(disk, file, content)
  OBVIOUS
<1>5. GoodDisk(o)
  <2>1. GoodContent(file, content)
    BY <1>3 DEF GoodContent
  <2> QED
    BY <1>1, <1>4, <2>1, GoodWrite
<1>6. readManifest(o) = readManifest(disk)
  <2>1. Content(o, MANIFEST_FILE) = Content(disk, MANIFEST_FILE)
    <3>1. \A p \in DOMAIN disk : disk[p] # NoFile
      BY <1>1 DEF GoodDisk
    <3> QED
      BY <1>3, <1>4, <3>1, WithIs
  <2> QED
    BY <1>1, <1>5, <2>1, SameManifest
<1>7. PICK m, recorded : m = readManifest(disk) /\ recorded = [m EXCEPT !.extra = m.extra \cup {owner}]
  OBVIOUS
<1>8. FitManifest(m) /\ Given(m)
  BY <1>1, <1>7 DEF GoodDisk, FitManifest
<1>9. recorded.features = m.features /\ recorded.outputs = m.outputs /\ recorded.extra = m.extra \cup {owner} /\ recorded # NoFile
  <2>1. recorded = [features |-> m.features, outputs |-> m.outputs, extra |-> m.extra \cup {owner}]
    BY <1>7, <1>8 DEF Given
  <2>2. "features" \in DOMAIN recorded
    BY <2>1
  <2>3. "features" \notin DOMAIN NoFile
    BY DEF NoFile
  <2> QED
    BY <2>1, <2>2, <2>3
<1>10. FitManifest(recorded)
  <2>1. Given(recorded)
    BY <1>7, <1>8 DEF Given
  <2> QED
    BY <1>8, <1>9, <2>1 DEF FitManifest
<1>11. PICK d : d = With(o, MANIFEST_FILE, recorded)
  OBVIOUS
<1>12. /\ GoodDisk(d) /\ readManifest(d) = recorded /\ \A p : p = MANIFEST_FILE \/ Content(o, p) = Content(d, p)
  <2>1. GoodContent(MANIFEST_FILE, recorded)
    BY <1>10 DEF GoodContent
  <2>2. GoodDisk(d)
    BY <1>5, <1>11, <2>1, GoodWrite
  <2>3. \A p \in DOMAIN o : o[p] # NoFile
    BY <1>5 DEF GoodDisk
  <2>4. \A p : Content(d, p) = IF p = MANIFEST_FILE THEN recorded ELSE Content(o, p)
    BY <1>11, <2>3, WithIs
  <2>5. MANIFEST_FILE \in DOMAIN d /\ d[MANIFEST_FILE] = recorded
    BY <1>9, <2>4 DEF Content
  <2> QED
    BY <2>2, <2>4, <2>5 DEF readManifest
<1>13. PICK changes : changes = planSync(d)
  OBVIOUS
<1>14. PICK next : next = command'
  OBVIOUS
<1>15. disk' = o
  BY <1>2, <1>4 DEF generate
<1>16. next = IF changes = Refused THEN NoCommand ELSE [NoCommand EXCEPT !.mode = "writing", !.todo = changes, !.origin = <<o>>]
  BY <1>2, <1>4, <1>7, <1>11, <1>13, <1>14 DEF generate
<1>17. CASE changes = Refused
  <2>1. Shaped(next) /\ next.mode = "idle" /\ next.again = <<>>
    BY <1>16, <1>17 DEF NoCommand, Shaped
  <2>2. FeaturesInv(next, o)
    BY <1>5, <2>1 DEF FeaturesInv
  <2> QED
    BY <1>14, <1>15, <2>2
<1>18. CASE changes # Refused
  <2>1. PICK C, ids : changes \in Seq(C) /\ C = ToSet(changes) /\ PlanOf(C, d, ids, FALSE, <<>>)
    BY <1>12, <1>13, <1>18, SyncPlan
  <2>2. next = [mode |-> "writing", todo |-> changes, undo |-> <<>>, origin |-> <<o>>, force |-> FALSE,
                touched |-> {}, undone |-> TRUE, again |-> <<>>]
    BY <1>16, <1>18 DEF NoCommand
  <2>3. /\ Shaped(next) /\ next.mode = "writing" /\ next.todo = changes /\ next.undo = <<>> /\ next.origin = <<o>>
        /\ next.force = FALSE /\ next.touched = {} /\ next.undone = TRUE /\ next.again = <<>>
    BY <2>2 DEF Shaped
  <2>4. Planning(next, d, ids, C)
    BY <2>1, <2>3 DEF Planning
  <2>5. Follows(o, d, next)
    BY <1>6, <1>7, <1>9, <1>12, <2>3 DEF Follows, Untouched
  <2>6. Possible(o, C, o) /\ Done(o, {}, o) /\ Covered(o, <<>>, o) /\ Oldest(o, <<>>)
    <3>1. DOMAIN <<>> = {}
      OBVIOUS
    <3> QED
      BY <3>1 DEF Possible, Done, Covered, Oldest
  <2>7. next.undo \in Seq(Entries(o, C))
    BY <2>3, EmptySeq
  <2>8. Running(next, o, d, ids, C, o)
    BY <1>5, <2>3, <2>4, <2>5, <2>6, <2>7 DEF Running
  <2>9. Writing(next, o, d, ids, C, o, {})
    BY <2>1, <2>3, <2>6, <2>8 DEF Writing
  <2>10. FeaturesInv(next, o)
    BY <1>5, <2>3, <2>9 DEF FeaturesInv
  <2> QED
    BY <1>14, <1>15, <2>10
<1> QED
  BY <1>17, <1>18

LEMMA FeaturesKeep ==
  ASSUME FeaturesInv(command, disk), [FeaturesNext]_featureVars
  PROVE  FeaturesInv(command', disk')
<1>1. GoodDisk(disk)
  BY DEF FeaturesInv
<1>2. CASE \E request \in Additions : add(request)
  <2>1. PICK request \in Additions : add(request)
    BY <1>2
  <2>2. PICK changes : changes = planAdd(disk, request) /\ changes # Refused /\ Plan(changes, FALSE, request)
    BY <2>1 DEF add, Plan
  <2>3. \E C, ids : changes \in Seq(C) /\ C = ToSet(changes) /\ PlanOf(C, disk, ids, FALSE, request)
    BY <1>1, <2>2, AcceptsAdd, AddPlan
  <2> QED
    BY <2>2, <2>3, PlanKeeps
<1>3. CASE \E request \in Removals, cascade, force \in BOOLEAN : remove(request, cascade, force)
  <2>1. PICK request \in Removals, cascade \in BOOLEAN, force \in BOOLEAN : remove(request, cascade, force)
    BY <1>3
  <2>2. PICK changes, again : changes = planRemove(disk, request, cascade, force) /\ changes # Refused /\ again = <<>> /\ Plan(changes, force, again)
    BY <2>1 DEF remove, Plan
  <2>3. \E C, ids : changes \in Seq(C) /\ C = ToSet(changes) /\ PlanOf(C, disk, ids, force, again)
    BY <1>1, <2>2, RemovePlan
  <2> QED
    BY <2>2, <2>3, PlanKeeps
<1>4. CASE sync
  <2>1. PICK changes, again : changes = planSync(disk) /\ changes # Refused /\ again = <<>> /\ Plan(changes, FALSE, again)
    BY <1>4 DEF sync, Plan
  <2>2. \E C, ids : changes \in Seq(C) /\ C = ToSet(changes) /\ PlanOf(C, disk, ids, FALSE, again)
    BY <1>1, <2>1, SyncPlan
  <2> QED
    BY <2>1, <2>2, PlanKeeps
<1>5. CASE Decline \/ Applied \/ Failed
  <2>1. command' = NoCommand /\ disk' = disk
    BY <1>5 DEF Decline, Applied, Failed
  <2> QED
    BY <2>1, OverKeeps
<1>6. CASE (\E path \in Edited : Edit(path)) \/ (\E owner \in DOMAIN Generated : generate(owner))
  BY <1>6, EditKeeps, GenerateKeeps
<1>7. CASE UNCHANGED featureVars
  <2>1. command' = command /\ disk' = disk
    BY <1>7 DEF featureVars
  <2> QED
    BY <2>1
<1> QED
  BY <1>2, <1>3, <1>4, <1>5, <1>6, <1>7, ConfirmKeeps, WriteKeeps, WriteFailsKeeps, UndoKeeps, KilledKeeps DEF FeaturesNext

-----------------------------------------------------------------------------
\* FeaturePlan: the properties.

\* What every option of a requirement has, an installed feature finds.
LEMMA PassedOn ==
  ASSUME NEW ids, Fit(ids), NEW has, NEW X, \A id \in ids : has[id] \subseteq X
  PROVE  \A id \in ids : Passed(has)[id] \subseteq X
<1>1. ASSUME NEW id \in ids, NEW x \in Passed(has)[id] PROVE x \in X
  <2>1. id \in DOMAIN Features /\ Unmet(id, ids) = {}
    BY DEF Fit, Known
  <2>2. \/ x \in has[id]
        \/ \E r \in ToSet(Features[id].requires) : \A o \in ToSet(r) : x \in has[o]
    BY <1>1, <2>1 DEF Passed
  <2>3. CASE x \in has[id]
    BY <2>3
  <2>4. CASE \E r \in ToSet(Features[id].requires) : \A o \in ToSet(r) : x \in has[o]
    <3>1. PICK r \in ToSet(Features[id].requires) : \A o \in ToSet(r) : x \in has[o]
      BY <2>4
    <3>2. satisfied(r, ids)
      BY <2>1, <3>1 DEF Unmet
    <3>3. PICK o \in ToSet(r) : o \in ids
      BY <3>2 DEF satisfied
    <3> QED
      BY <3>1, <3>3
  <2> QED
    BY <2>2, <2>3, <2>4
<1> QED
  BY <1>1

LEMMA FitDelivers ==
  ASSUME NEW ids, Fit(ids)
  PROVE  \A id \in ids : /\ Features[id].slots \subseteq UNION {Outputs[path].slots : path \in OutputPaths(ids)}
                         /\ Features[id].commandsModule \subseteq OutputPaths(ids) \cup Features[id].files
<1>1. PICK paths, slots : paths = OutputPaths(ids) /\ slots = UNION {Outputs[path].slots : path \in paths}
  OBVIOUS
<1>2. ids \subseteq DOMAIN Features
  BY DEF Fit, Known
<1>3. ASSUME NEW id \in ids, NEW o \in Features[id].outputs PROVE o.path \in paths /\ Outputs[o.path] = o
  <2>1. o.path \in paths
    BY <1>1 DEF OutputPaths
  <2>2. o \in AllOutputs
    BY <1>2 DEF AllOutputs
  <2> QED
    BY <2>1, <2>2, CatalogueTyped
<1>4. ASSUME NEW id \in ids PROVE Rendered[id] \subseteq slots
  <2>1. Rendered[id] = UNION {o.slots : o \in Features[id].outputs}
    BY <1>2 DEF Rendered
  <2> QED
    BY <1>1, <1>3, <2>1
<1>5. ASSUME NEW id \in ids PROVE Declared[id] \subseteq paths
  <2>1. Declared[id] = {o.path : o \in Features[id].outputs}
    BY <1>2 DEF Declared
  <2> QED
    BY <1>3, <2>1
<1>6. PICK once, twice : once = Passed(Rendered) /\ twice = Passed(once)
  OBVIOUS
<1>7. \A id \in ids : once[id] \subseteq slots
  BY <1>4, <1>6, PassedOn
<1>8. \A id \in ids : twice[id] \subseteq slots
  BY <1>6, <1>7, PassedOn
<1>9. PICK first, second : first = Passed(Declared) /\ second = Passed(first)
  OBVIOUS
<1>10. \A id \in ids : first[id] \subseteq paths
  BY <1>5, <1>9, PassedOn
<1>11. \A id \in ids : second[id] \subseteq paths
  BY <1>9, <1>10, PassedOn
<1>12. \A id \in ids : Features[id].slots \subseteq slots /\ Features[id].commandsModule \ Features[id].files \subseteq paths
  BY <1>2, <1>6, <1>8, <1>9, <1>11, CatalogueDelivers
<1> QED
  BY <1>1, <1>12

LEMMA FitHolds ==
  ASSUME GoodDisk(disk)
  PROVE  InstalledFit
<1>1. PICK ids : ids = Installed(disk)
  OBVIOUS
<1>2. Fit(ids)
  BY <1>1, InstalledIs
<1>3. \A id \in ids : Unmet(id, ids) = {} /\ Features[id].conflicts \cap ids = {}
  BY <1>2 DEF Fit
<1>4. ASSUME NEW a \in ids, NEW b \in ids, a # b PROVE Features[a].files \cap Features[b].files = {}
  <2>1. a \in DOMAIN Features /\ b \in DOMAIN Features /\ b \notin Features[a].conflicts
    BY <1>2, <1>3, <1>4 DEF Fit, Known
  <2> QED
    BY <1>4, <2>1, CatalogueExclusive
<1>5. \A id \in ids : /\ Features[id].slots \subseteq UNION {Outputs[path].slots : path \in OutputPaths(ids)}
                      /\ Features[id].commandsModule \subseteq OutputPaths(ids) \cup Features[id].files
  BY <1>2, FitDelivers
<1> QED
  BY <1>1, <1>3, <1>4, <1>5 DEF InstalledFit

\* When all of a plan is written, what was not touched since it was made is as it should be.
LEMMA AppliedRight ==
  ASSUME FeaturesInv(command, disk), command.mode = "writing", command.todo = <<>>
  PROVE  diagnose(disk) \subseteq command.touched
<1>1. PICK d, ids, C, o, D : Writing(command, disk, d, ids, C, o, D)
  BY DEF FeaturesInv
<1>2. PICK now : now = disk /\ GoodDisk(now)
  BY DEF FeaturesInv
<1>3. Running(command, now, d, ids, C, o) /\ Done(o, D, now) /\ C = D \cup ToSet(command.todo)
  BY <1>1, <1>2 DEF Writing
<1>4. C = D
  <2>1. ToSet(<<>>) = {}
    BY DEF ToSet
  <2> QED
    BY <1>3, <2>1
<1>5. PlanOf(C, d, ids, command.force, command.again)
  BY <1>3 DEF Running, Planning
<1>6. /\ GoodDisk(d) /\ Fit(ids) /\ Lost(d, ids) = {} /\ \A c \in C : Proper(c, d, ids, command.force)
      /\ \E c \in C : c.path = MANIFEST_FILE
      /\ \A path \in OutputPaths(ids) : Content(d, path) = Updated(d, path, ids) \/ [path |-> path, content |-> Updated(d, path, ids)] \in C
  BY <1>5 DEF PlanOf
<1>7. Installed(now) = ids /\ readManifest(now).extra = readManifest(d).extra
  <2>1. [path |-> MANIFEST_FILE, content |-> Content(now, MANIFEST_FILE)] \in C
    BY <1>3, <1>4, <1>6 DEF Done
  <2>2. PICK x : x = [path |-> MANIFEST_FILE, content |-> Content(now, MANIFEST_FILE)] /\ x \in C
    BY <2>1
  <2>3. x.path = MANIFEST_FILE /\ x.content = Content(now, MANIFEST_FILE)
    BY <2>2
  <2> QED
    BY <1>2, <1>3, <2>2, <2>3, InstalledWritten
<1>8. ASSUME NEW path \in OutputPaths(ids), path \notin command.touched PROVE Right(now, path, Rendering(d, ids))
  <2>1. Content(o, path) = Content(d, path)
    <3>1. path # MANIFEST_FILE
      BY <1>6, <1>8, RenderIs, PathsApart DEF Fit
    <3> QED
      BY <1>3, <1>8, <3>1 DEF Running, Follows, Untouched
  <2>2. Content(now, path) = Updated(d, path, ids)
    <3>1. CASE \E c \in C : c.path = path
      <4>1. PICK x : x = [path |-> path, content |-> Content(now, path)] /\ x \in C
        BY <1>3, <1>4, <3>1 DEF Done
      <4>2. x.path = path /\ x.content = Content(now, path) /\ Proper(x, d, ids, command.force)
        BY <1>6, <4>1
      <4> QED
        BY <1>8, <4>2 DEF Proper
    <3>2. CASE \A c \in C : c.path # path
      <4>1. Content(now, path) = Content(d, path)
        BY <1>3, <1>4, <2>1, <3>2 DEF Done
      <4>2. PICK x : x = [path |-> path, content |-> Updated(d, path, ids)]
        OBVIOUS
      <4>3. x \notin C
        <5>1. x.path = path
          BY <4>2
        <5> QED
          BY <3>2, <5>1
      <4> QED
        BY <1>6, <1>8, <4>1, <4>2, <4>3
    <3> QED
      BY <3>1, <3>2
  <2>3. ids \subseteq Known /\ path \notin Lost(d, ids)
    BY <1>6 DEF Fit
  <2> QED
    BY <1>6, <1>8, <2>2, <2>3, RightIs
<1>9. Rendering(now, Installed(now)) = Rendering(d, ids)
  BY <1>7 DEF Rendering
<1> QED
  BY <1>2, <1>7, <1>8, <1>9, DiagnoseIs

LEMMA OneOnly ==
  ASSUME NEW o
  PROVE  ToSet(<<o>>) = {o}
<1>1. PICK one : one = <<o>>
  OBVIOUS
<1>2. DOMAIN one = 1 .. 1 /\ one[1] = o
  BY <1>1
<1>3. ToSet(one) = {o}
  BY <1>2 DEF ToSet
<1> QED
  BY <1>1, <1>3

LEMMA EditsHold ==
  ASSUME FeaturesInv(command, disk)
  PROVE  EditsSurvive
<1>0. SUFFICES ASSUME command.mode = "writing", ~ command.force, NEW before \in ToSet(command.origin),
                    NEW path \in DOMAIN before \ (command.touched \cup {MANIFEST_FILE}),
                    before[path].text \in {"edited", "edited around"}, path \in DOMAIN Outputs => IsBlock(path)
             PROVE  Content(disk, path).text = before[path].text
  BY DEF EditsSurvive
<1>1. PICK d, ids, C, o, D : Writing(command, disk, d, ids, C, o, D)
  BY <1>0 DEF FeaturesInv
<1>2. PICK now : now = disk
  OBVIOUS
<1>3. Running(command, now, d, ids, C, o) /\ GoodDisk(o) /\ command.origin = <<o>>
  BY <1>1, <1>2 DEF Writing, Running
<1>4. before = o
  <2>1. command.origin = <<o>> /\ before \in ToSet(command.origin)
    BY <1>0, <1>3
  <2>2. ToSet(command.origin) = {o}
    BY <2>1, OneOnly
  <2> QED
    BY <2>1, <2>2
<1>5. PlanOf(C, d, ids, command.force, command.again) /\ Follows(o, d, command) /\ Possible(o, C, now)
  BY <1>3 DEF Running, Planning
<1>6. Content(o, path) = o[path] /\ o[path] # NoFile
  BY <1>0, <1>3, <1>4 DEF Content, GoodDisk
<1>7. path \in DOMAIN d /\ d[path] = o[path]
  BY <1>0, <1>5, <1>6 DEF Follows, Untouched, Content
<1>8. Authored(d, path)
  BY <1>0, <1>4, <1>7 DEF Authored
<1>9. CASE Content(now, path) = Content(o, path)
  BY <1>2, <1>4, <1>6, <1>9
<1>10. CASE [path |-> path, content |-> Content(now, path)] \in C
  <2>1. PICK x : x = [path |-> path, content |-> Content(now, path)] /\ x \in C
    BY <1>10
  <2>2. x.path = path /\ x.content = Content(now, path) /\ Proper(x, d, ids, command.force)
    BY <1>5, <2>1 DEF PlanOf
  <2>3. x.content.text = d[path].text
    BY <1>0, <1>8, <2>2 DEF Proper
  <2> QED
    BY <1>2, <1>4, <1>7, <2>2, <2>3
<1> QED
  BY <1>5, <1>9, <1>10 DEF Possible

LEMMA RecordedHolds ==
  ASSUME FeaturesInv(command, disk)
  PROVE  RecordedStays
<1>0. SUFFICES ASSUME command.mode = "writing", NEW before \in ToSet(command.origin)
             PROVE  readManifest(before).extra \subseteq readManifest(disk).extra
  BY DEF RecordedStays
<1>1. PICK d, ids, C, o, D : Writing(command, disk, d, ids, C, o, D)
  BY <1>0 DEF FeaturesInv
<1>2. PICK now : now = disk /\ GoodDisk(now)
  BY DEF FeaturesInv
<1>3. Running(command, now, d, ids, C, o) /\ GoodDisk(o) /\ GoodDisk(d) /\ command.origin = <<o>>
      /\ MANIFEST_FILE \notin command.touched /\ Follows(o, d, command)
  BY <1>1, <1>2 DEF Writing, Running, Planning, PlanOf
<1>4. before = o
  <2>1. command.origin = <<o>> /\ before \in ToSet(command.origin)
    BY <1>0, <1>3
  <2>2. ToSet(command.origin) = {o}
    BY <2>1, OneOnly
  <2> QED
    BY <2>1, <2>2
<1>5. readManifest(o).extra \subseteq readManifest(d).extra
  <2>1. CASE Untouched(o, d, command.touched)
    <3>1. Content(o, MANIFEST_FILE) = Content(d, MANIFEST_FILE)
      BY <1>3, <2>1 DEF Untouched
    <3> QED
      BY <1>3, <3>1, SameManifest
  <2> QED
    BY <1>3, <2>1 DEF Follows
<1>6. CASE Content(now, MANIFEST_FILE) = Content(o, MANIFEST_FILE)
  BY <1>2, <1>3, <1>4, <1>6, SameManifest
<1>7. CASE [path |-> MANIFEST_FILE, content |-> Content(now, MANIFEST_FILE)] \in C
  <2>1. PICK x : x = [path |-> MANIFEST_FILE, content |-> Content(now, MANIFEST_FILE)] /\ x \in C
    BY <1>7
  <2>2. x.path = MANIFEST_FILE /\ x.content = Content(now, MANIFEST_FILE)
    BY <2>1
  <2>3. readManifest(now).extra = readManifest(d).extra
    BY <1>2, <1>3, <2>1, <2>2, InstalledWritten
  <2> QED
    BY <1>2, <1>4, <1>5, <2>3
<1>8. Possible(o, C, now)
  BY <1>3 DEF Running
<1> QED
  BY <1>6, <1>7, <1>8 DEF Possible

LEMMA UndoneHolds ==
  ASSUME FeaturesInv(command, disk)
  PROVE  AllOrNothing
<1> SUFFICES ASSUME command.mode = "undoing", command.undo = <<>>, command.undone
             PROVE  <<disk>> = command.origin
  BY DEF AllOrNothing
<1>1. PICK d, ids, C, o : Undoing(command, disk, d, ids, C, o)
  BY DEF FeaturesInv
<1>2. PICK now : now = disk /\ GoodDisk(now)
  BY DEF FeaturesInv
<1>3. command.origin = <<o>> /\ GoodDisk(o)
  BY <1>1 DEF Undoing, Running
<1>4. Covered(o, <<>>, now)
  BY <1>1, <1>2 DEF Undoing
<1>5. \A p : Content(now, p) = Content(o, p)
  BY <1>4 DEF Covered
<1>6. /\ now = [p \in DOMAIN now |-> now[p]] /\ \A p \in DOMAIN now : now[p] # NoFile
      /\ o = [p \in DOMAIN o |-> o[p]] /\ \A p \in DOMAIN o : o[p] # NoFile
  BY <1>2, <1>3 DEF GoodDisk
<1>7. now = o
  BY <1>5, <1>6, SameDisk
<1> QED
  BY <1>2, <1>3, <1>7

FeaturesKept == FeaturesInv(command, disk)

\* The features that are installed always go together and find their outputs; doctor agrees with sync; an add that was
\* cut off is accepted again; a failed apply undoes itself; what the developer wrote survives (plan.ts, apply.ts,
\* resolve.ts, doctor.ts).  Of the catalogue only its assumptions are used, of the bounds nothing.
THEOREM FeaturesCorrect == FeaturesSpec => []FeaturesHold
<1>1. FeaturesInit => FeaturesKept
  BY FeaturesBegin DEF FeaturesKept
<1>2. FeaturesKept /\ [FeaturesNext]_featureVars => FeaturesKept'
  BY FeaturesKeep DEF FeaturesKept
<1>3. FeaturesKept => FeaturesHold
  <2> SUFFICES ASSUME FeaturesKept PROVE FeaturesHold
    OBVIOUS
  <2>1. GoodDisk(disk) /\ FeaturesInv(command, disk)
    BY DEF FeaturesKept, FeaturesInv
  <2>2. InstalledFit
    BY <2>1, FitHolds
  <2>3. DoctorKnows
    BY <2>1, DoctorIsSync, AppliedRight DEF DoctorKnows
  <2>4. AddsAgain
    BY <2>1 DEF FeaturesInv, AddsAgain
  <2>5. AllOrNothing /\ EditsSurvive /\ RecordedStays
    BY <2>1, UndoneHolds, EditsHold, RecordedHolds
  <2> QED
    BY <2>2, <2>3, <2>4, <2>5 DEF FeaturesHold
<1> QED
  BY <1>1, <1>2, <1>3, PTL DEF FeaturesSpec

-----------------------------------------------------------------------------
\* DatabaseQueue.

Types ==
  /\ tx \in [Txs -> Progress]
  /\ by \in [Ids -> Txs \cup {Alone}]
  /\ conn = by
  /\ reply \in [Ids -> Replies]
  /\ holder \in [Ids -> Ids \cup {NoJob}]
  /\ sweeps \subseteq Times

\* An id nobody dispatched, and rows that are not committed: just inserted, or gone
\* with their transaction.
Fresh(j) == rows[j] = NoRow("unborn") /\ by[j] = Alone /\ reply[j] = "none"
Drafted(j) == rows[j] = NoRow("gone") \/ (rows[j].state = "pending" /\ rows[j].attempt = 0)

Drafts ==
  \A j \in Ids : /\ rows[j].state = "unborn" => Fresh(j)
                 /\ ~Committed(j) => Drafted(j)

\* The job a duplicate was answered with was dispatched, and by someone whose work is
\* kept or by the same transaction.
Holders ==
  \A j \in Ids : reply[j] = "duplicate" =>
    /\ holder[j] \in Ids /\ rows[holder[j]].state # "unborn"
    /\ Committed(holder[j]) \/ conn[holder[j]] = conn[j]

IInv == GoodTable(rows) /\ KeysDiffer(rows) /\ Types /\ Drafts /\ Holders

\* What a statement of a worker or of maintenance does.
Quiet ==
  /\ GoodTable(rows') /\ InStore(rows') \subseteq InStore(rows) /\ Moves(rows, rows')
  /\ \A j \in Ids : ~Committed(j) \/ rows[j].state = "unborn" => rows'[j] = rows[j]
  /\ UNCHANGED <<tx, by, conn, reply, holder>> /\ sweeps' \subseteq Times

-----------------------------------------------------------------------------
LEMMA InitHolds == Init => IInv
<1> SUFFICES ASSUME Init PROVE IInv
  OBVIOUS
<1>1. GoodTable(rows)
  BY InitGood DEF Init
<1>2. \A j \in Ids : rows[j] = NoRow("unborn") /\ rows[j].state = "unborn" /\ by[j] = Alone /\ conn[j] = Alone /\ reply[j] = "none"
  BY DEF Init, NoRow
<1>3. KeysDiffer(rows)
  BY <1>2 DEF KeysDiffer, InStore, Stored
<1>4. Drafts /\ Holders
  BY <1>2 DEF Drafts, Fresh, Holders, Committed, Kept
<1>5. QED
  BY <1>1, <1>3, <1>4 DEF IInv, Types, Init, Progress, Replies

\* A part of a requeue is as sound as the whole.
LEMMA PartRequeued ==
  ASSUME NEW js, GoodTable(js), NEW now \in Nat, NEW ks,
         ks = [j \in Ids |-> ks[j]],
         \A j \in Ids : ks[j] = js[j] \/ (j \in Expired(js, now) /\ ks[j] = Requeued(js, now)[j])
  PROVE  GoodTable(ks) /\ InStore(ks) \subseteq InStore(js) /\ Moves(js, ks)
<1>1. GoodTable(Requeued(js, now)) /\ Moves(js, Requeued(js, now))
  BY RequeuedGood, RequeuedMoves
<1>2. InStore(Requeued(js, now)) \subseteq InStore(js)
  BY RequeuedStore
<1>3. GoodTable(ks)
  BY <1>1 DEF GoodTable
<1>4. InStore(ks) \subseteq InStore(js)
  BY <1>2 DEF InStore
<1>5. Moves(js, ks)
  BY <1>1 DEF Moves
<1>6. QED
  BY <1>3, <1>4, <1>5

\* Rows that are not committed, and ids nobody dispatched, are not what a statement
\* looks for.
LEMMA OutOfReach ==
  ASSUME IInv
  PROVE  \A j \in Ids : ~Committed(j) \/ rows[j].state = "unborn" =>
           rows[j].state \in {"unborn", "gone", "pending"}
BY DEF IInv, Drafts, Drafted, NoRow

LEMMA ClaimQuiet ==
  ASSUME IInv, NEW w \in Workers, NEW now \in Times, NEW until \in Times, NEW limit \in Limits,
         claim(w, now, limit, until)
  PROVE  Quiet
<1> DEFINE S == Claimable(Rows, w, now, limit)
<1>1. S \subseteq Ids /\ \A j \in S : Rows[j].state = "pending"
  BY ClaimableDue
<1>2. \A j \in S : Committed(j) /\ rows[j].state = "pending"
  BY <1>1 DEF Rows, NoRow
<1>3. rows' = Claimed(rows, w, S, until) /\ until \in Nat
  BY TimesAssumption DEF claim
<1>4. UNCHANGED <<tx, by, conn, reply, holder, sweeps>>
  BY DEF claim, Statement, dispatches
<1> HIDE DEF S
<1>5. GoodTable(rows') /\ InStore(rows') \subseteq InStore(rows) /\ Moves(rows, rows')
  BY <1>2, <1>3, ClaimedGood, ClaimedStore, ClaimedMoves DEF IInv
<1>6. \A j \in Ids : ~Committed(j) \/ rows[j].state = "unborn" => rows'[j] = rows[j]
  BY <1>2, <1>3 DEF Claimed
<1>7. QED
  BY <1>4, <1>5, <1>6 DEF Quiet, IInv, Types

LEMMA RenewQuiet ==
  ASSUME IInv, NEW w \in Workers, NEW S \in SUBSET Ids, NEW until \in Times, renew(w, S, until)
  PROVE  Quiet
<1>1. rows' = Renewed(rows, w, S, until) /\ until \in Nat
  BY TimesAssumption DEF renew
<1>2. UNCHANGED <<tx, by, conn, reply, holder, sweeps>>
  BY DEF renew, Statement, dispatches
<1>3. GoodTable(rows') /\ InStore(rows') \subseteq InStore(rows) /\ Moves(rows, rows')
  BY <1>1, RenewedGood, RenewedStore, RenewedMoves DEF IInv
<1>4. \A j \in Ids : ~Committed(j) \/ rows[j].state = "unborn" => rows'[j] = rows[j]
  BY <1>1, OutOfReach DEF Renewed, Holds
<1>5. QED
  BY <1>2, <1>3, <1>4 DEF Quiet, IInv, Types

LEMMA CompleteQuiet ==
  ASSUME IInv, NEW w \in Workers, NEW j \in Ids, NEW outcome \in Outcomes,
         NEW at \in Times, NEW runAt \in Times, complete(w, j, outcome, at, runAt)
  PROVE  Quiet
<1> DEFINE keep == KeyOf[j] # NoKey
<1>1. rows' = Completed(rows, w, j, keep, outcome, at, runAt) /\ at \in Nat /\ runAt \in Nat
  BY TimesAssumption DEF complete
<1>2. UNCHANGED <<tx, by, conn, reply, holder, sweeps>>
  BY DEF complete, Statement, dispatches
<1>3. rows = [i \in Ids |-> rows[i]] /\ keep \in BOOLEAN
  BY DEF IInv, GoodTable
<1> HIDE DEF keep
<1>4. GoodTable(rows') /\ InStore(rows') \subseteq InStore(rows) /\ Moves(rows, rows')
  BY <1>1, <1>3, CompletedGood, CompletedStore, CompletedMoves DEF IInv
<1>5. \A i \in Ids : ~Committed(i) \/ rows[i].state = "unborn" => rows'[i] = rows[i]
  BY <1>1, <1>3, OutOfReach DEF Completed, Holds
<1>6. QED
  BY <1>2, <1>4, <1>5 DEF Quiet, IInv, Types

LEMMA SweepQuiet ==
  ASSUME IInv, NEW now \in Times, requeueDead(now) \/ requeuePending(now) \/ SweepEnds(now)
  PROVE  Quiet
<1>1. now \in Nat /\ GoodTable(rows) /\ rows = [j \in Ids |-> rows[j]]
  BY TimesAssumption DEF IInv, GoodTable
<1>2. UNCHANGED <<tx, by, conn, reply, holder>> /\ sweeps' \subseteq Times
  BY DEF requeueDead, requeuePending, SweepEnds, Statement, dispatches, IInv, Types
<1>3. /\ rows' = [j \in Ids |-> rows'[j]]
      /\ \A j \in Ids : rows'[j] = rows[j] \/ (j \in Expired(rows, now) /\ rows'[j] = Requeued(rows, now)[j])
  BY <1>1 DEF requeueDead, requeuePending, SweepEnds, Buried, PutBack
<1>4. GoodTable(rows') /\ InStore(rows') \subseteq InStore(rows) /\ Moves(rows, rows')
  BY <1>1, <1>3, PartRequeued
<1>5. \A j \in Ids : ~Committed(j) \/ rows[j].state = "unborn" => rows'[j] = rows[j]
  BY <1>3, OutOfReach DEF Expired
<1>6. QED
  BY <1>2, <1>4, <1>5 DEF Quiet

LEMMA RetryQuiet ==
  ASSUME IInv, NEW S \in SUBSET Ids, NEW now \in Times, retry(S, now)
  PROVE  Quiet
<1>1. rows' = Retried(rows, S, now) /\ now \in Nat
  BY TimesAssumption DEF retry
<1>2. UNCHANGED <<tx, by, conn, reply, holder, sweeps>>
  BY DEF retry, Statement, dispatches
<1>3. GoodTable(rows') /\ InStore(rows') \subseteq InStore(rows) /\ Moves(rows, rows')
  BY <1>1, RetriedGood, RetriedStore, RetriedMoves DEF IInv
<1>4. \A j \in Ids : ~Committed(j) \/ rows[j].state = "unborn" => rows'[j] = rows[j]
  BY <1>1, OutOfReach DEF Retried
<1>5. QED
  BY <1>2, <1>3, <1>4 DEF Quiet, IInv, Types

LEMMA PurgeQuiet ==
  ASSUME IInv, NEW state \in Finished, NEW before \in Times, purge(state, before)
  PROVE  Quiet
<1>1. rows' = Purged(rows, state, before)
  BY DEF purge
<1>2. UNCHANGED <<tx, by, conn, reply, holder, sweeps>>
  BY DEF purge, Statement, dispatches
<1>3. GoodTable(rows') /\ InStore(rows') \subseteq InStore(rows) /\ Moves(rows, rows')
  BY <1>1, PurgedGood, PurgedStore, PurgedMoves DEF IInv
<1>4. \A j \in Ids : ~Committed(j) \/ rows[j].state = "unborn" => rows'[j] = rows[j]
  BY <1>1, OutOfReach DEF Purged, Finished
<1>5. QED
  BY <1>2, <1>3, <1>4 DEF Quiet, IInv, Types

-----------------------------------------------------------------------------
\* The invariant is inductive.

LEMMA QuietSound == IInv /\ Quiet => IInv'
<1> SUFFICES ASSUME IInv, Quiet PROVE IInv'
  OBVIOUS
<1>1. GoodTable(rows') /\ KeysDiffer(rows')
  BY StoreShrinks DEF IInv, Quiet
<1>2. Types'
  BY DEF IInv, Quiet, Types
<1>3. \A j \in Ids : (Committed(j))' <=> Committed(j)
  BY DEF Quiet, Committed, Kept
<1>4. \A j \in Ids : rows'[j].state = "unborn" <=> rows[j].state = "unborn"
  <2>1. \A a, b : Life!Edge(a, b) => b.state # "unborn"
    BY DEF Life!Edge, Life!Create, Life!Begin, Life!Again, Life!PutBack, Life!Finish,
           Life!Revive, Life!Forget, Life!Life
  <2>2. \A j \in Ids : LifeOf(rows'[j]).state = rows'[j].state /\ LifeOf(rows[j]).state = rows[j].state
    BY DEF LifeOf
  <2>3. ASSUME NEW j \in Ids, rows[j].state # "unborn" PROVE rows'[j].state # "unborn"
    <3>1. LifeOf(rows'[j]) = LifeOf(rows[j]) \/ Life!Edge(LifeOf(rows[j]), LifeOf(rows'[j]))
      BY DEF Quiet, Moves
    <3>2. QED
      BY <2>1, <2>2, <2>3, <3>1
  <2>4. QED
    BY <2>3 DEF Quiet
<1>5. Drafts'
  BY <1>3, <1>4 DEF IInv, Quiet, Drafts, Drafted, Fresh
<1>6. Holders'
  BY <1>3, <1>4 DEF IInv, Quiet, Holders
<1>7. QED
  BY <1>1, <1>2, <1>5, <1>6 DEF IInv, GoodTable, KeysDiffer, InStore

LEMMA InsertSound ==
  ASSUME IInv, NEW j \in Ids, NEW d \in Txs \cup {Alone}, NEW runAt \in Times, Insert(j, d, runAt)
  PROVE  IInv'
<1>1. /\ rows[j].state = "unborn" /\ conn[j] = Alone /\ reply[j] = "none"
      /\ by' = [by EXCEPT ![j] = d] /\ conn' = by'
      /\ UNCHANGED <<tx, holder, sweeps>>
  BY DEF Insert, Connection, IInv, Types, Drafts, Fresh
<1>2. /\ rows' = [rows EXCEPT ![j] = IF KeyTaken(j) THEN NoRow("gone") ELSE NewRow(runAt)]
      /\ reply' = [reply EXCEPT ![j] = IF KeyTaken(j) THEN "selecting" ELSE "stored"]
  BY DEF Insert
<1>3. runAt \in Nat
  BY TimesAssumption
<1>4. GoodTable(rows')
  BY <1>2, <1>3, NewRows DEF IInv, GoodTable, Good
<1>5. KeysDiffer(rows')
  <2>1. \A i \in Ids \ {j} : rows'[i] = rows[i]
    BY <1>2 DEF IInv, GoodTable
  <2>2. KeyTaken(j) => InStore(rows') = InStore(rows)
    BY <1>1, <1>2 DEF IInv, GoodTable, InStore, NoRow, Stored
  <2>3. InStore(rows') \subseteq InStore(rows) \cup {j}
    BY <2>1 DEF InStore
  <2>4. QED
    BY <2>2, <2>3 DEF IInv, KeysDiffer, KeyTaken, SameKey
<1>6. Types'
  BY <1>1, <1>2 DEF IInv, Types, Replies
<1>7. \A i \in Ids \ {j} : /\ rows'[i] = rows[i] /\ reply'[i] = reply[i] /\ by'[i] = by[i]
                            /\ conn'[i] = conn[i]
  BY <1>1, <1>2 DEF IInv, GoodTable, Types
<1>8. \A i \in Ids \ {j} : (Committed(i))' <=> Committed(i)
  BY <1>1, <1>7 DEF Committed, Kept
<1>9. rows'[j].state # "unborn" /\ (Drafted(j))' /\ reply'[j] # "duplicate"
  BY <1>2 DEF IInv, GoodTable, Types, NoRow, NewRow, Drafted
<1>10. Drafts'
  BY <1>7, <1>8, <1>9 DEF IInv, Drafts, Fresh, Drafted
<1>11. Holders'
  BY <1>1, <1>7, <1>8, <1>9 DEF IInv, Holders
<1>12. QED
  BY <1>4, <1>5, <1>6, <1>10, <1>11 DEF IInv, GoodTable, KeysDiffer, InStore

LEMMA SelectSound ==
  ASSUME IInv, NEW j \in Ids, Select(j)
  PROVE  IInv'
<1>1. UNCHANGED <<rows, tx, by, conn, sweeps>> /\ reply[j] = "selecting"
  BY DEF Select
<1>2. \A i \in Ids \ {j} : reply'[i] = reply[i] /\ holder'[i] = holder[i]
  BY DEF Select, IInv, Types
<1>3. \/ reply'[j] = "failed" /\ UNCHANGED holder
      \/ /\ reply'[j] = "duplicate" /\ holder'[j] \in InStore(rows)
         /\ conn[holder'[j]] \in {conn[j]} \cup {d \in Txs \cup {Alone} : Kept(d)}
  BY DEF Select, IInv, Types
<1>4. reply' \in [Ids -> Replies] /\ holder' \in [Ids -> Ids \cup {NoJob}]
  BY DEF Select, IInv, Types, Replies, InStore
<1>5. Types'
  BY <1>1, <1>4 DEF IInv, Types
<1>6. \A i \in Ids : (Committed(i))' <=> Committed(i)
  BY <1>1 DEF Committed, Kept
<1>7. rows[j].state # "unborn"
  BY <1>1 DEF IInv, Drafts, Fresh
<1>8. Drafts'
  BY <1>1, <1>2, <1>6, <1>7 DEF IInv, Drafts, Fresh, Drafted
<1>9. \A i \in InStore(rows) : i \in Ids /\ rows[i].state # "unborn"
  BY DEF InStore, Stored
<1>10. Holders'
  BY <1>1, <1>2, <1>3, <1>6, <1>9 DEF IInv, Holders, Committed
<1>11. QED
  BY <1>1, <1>5, <1>8, <1>10 DEF IInv, GoodTable, KeysDiffer, InStore

LEMMA CommitSound ==
  ASSUME IInv, NEW t \in Txs, Commit(t)
  PROVE  IInv'
<1>1. UNCHANGED <<rows, by, conn, reply, holder, sweeps>> /\ tx' = [tx EXCEPT ![t] = "committed"]
  BY DEF Commit, dispatches
<1>2. \A i \in Ids : Committed(i) => (Committed(i))'
  BY <1>1 DEF Committed, Kept, IInv, Types
<1>3. Types'
  BY <1>1 DEF IInv, Types, Progress
<1>4. Drafts' /\ Holders'
  BY <1>1, <1>2 DEF IInv, Drafts, Fresh, Drafted, Holders
<1>5. QED
  BY <1>1, <1>3, <1>4 DEF IInv, GoodTable, KeysDiffer, InStore

LEMMA RollbackSound ==
  ASSUME IInv, NEW t \in Txs, Rollback(t)
  PROVE  IInv'
<1>1. /\ UNCHANGED <<by, conn, holder, sweeps>>
      /\ tx[t] = "open" /\ tx' = [tx EXCEPT ![t] = "rolled back"]
      /\ rows' = [j \in Ids |-> IF conn[j] = t THEN NoRow("gone") ELSE rows[j]]
      /\ reply' = [j \in Ids |-> IF by[j] = t /\ reply[j] = "selecting" THEN "failed" ELSE reply[j]]
  BY DEF Rollback
<1>2. \A i \in Ids : (Committed(i))' <=> Committed(i)
  BY <1>1, TxsAssumption DEF Committed, Kept, IInv, Types
<1>3. Types'
  BY <1>1 DEF IInv, Types, Progress, Replies
<1>4. 0 \in Nat
  OBVIOUS
<1>5. GoodTable(rows') /\ InStore(rows') \subseteq InStore(rows)
  BY <1>1, <1>4, NewRows DEF IInv, GoodTable, Good, InStore, NoRow, Stored
<1>6. KeysDiffer(rows')
  BY <1>5, StoreShrinks DEF IInv
<1>7. \A i \in Ids : (rows'[i].state = "gone" /\ rows'[i] = NoRow("gone")) \/ rows'[i] = rows[i]
  BY <1>1 DEF NoRow
<1>8. \A i \in Ids : reply[i] = "none" => reply'[i] = "none"
  BY <1>1
<1>9. Drafts'
  <2>1. \A i \in Ids : rows'[i].state = "unborn" => (Fresh(i))'
    <3>1. ASSUME NEW i \in Ids, rows'[i].state = "unborn" PROVE (Fresh(i))'
      <4>1. rows'[i] = rows[i]
        BY <1>7, <3>1
      <4>2. Fresh(i)
        BY <3>1, <4>1 DEF IInv, Drafts
      <4> QED
        BY <1>1, <1>8, <4>1, <4>2 DEF Fresh
    <3> QED
      BY <3>1
  <2>2. \A i \in Ids : ~(Committed(i))' => (Drafted(i))'
    BY <1>2, <1>7 DEF IInv, Drafts, Drafted
  <2>3. QED
    BY <2>1, <2>2 DEF Drafts
<1>10. \A i \in Ids : reply'[i] = "duplicate" => reply[i] = "duplicate"
  BY <1>1
<1>11. Holders'
  <2>1. ASSUME NEW i \in Ids, reply'[i] = "duplicate"
        PROVE  /\ holder'[i] \in Ids /\ rows'[holder'[i]].state # "unborn"
               /\ (Committed(holder[i]))' \/ conn'[holder'[i]] = conn'[i]
    <3>1. /\ holder[i] \in Ids /\ rows[holder[i]].state # "unborn"
          /\ Committed(holder[i]) \/ conn[holder[i]] = conn[i]
      BY <1>10, <2>1 DEF IInv, Holders
    <3>2. holder' = holder /\ conn' = conn
      BY <1>1
    <3>3. rows'[holder[i]].state = "gone" \/ rows'[holder[i]] = rows[holder[i]]
      BY <1>7, <3>1
    <3>4. Committed(holder[i]) => (Committed(holder[i]))'
      BY <1>2, <3>1, <3>2
    <3> QED
      BY <3>1, <3>2, <3>3, <3>4
  <2> QED
    BY <2>1 DEF Holders
<1>12. QED
  BY <1>3, <1>5, <1>6, <1>9, <1>11 DEF IInv, GoodTable, KeysDiffer, InStore

\* Every step is a statement of workers or maintenance, or one of a dispatcher.
LEMMA Steps ==
  ASSUME IInv, Next
  PROVE  \/ Quiet
         \/ \E j \in Ids, d \in Txs \cup {Alone}, runAt \in Times : Insert(j, d, runAt)
         \/ \E j \in Ids : Select(j)
         \/ \E t \in Txs : Commit(t) \/ Rollback(t)
BY ClaimQuiet, RenewQuiet, CompleteQuiet, SweepQuiet, RetryQuiet, PurgeQuiet DEF Next

LEMMA Invariance == Spec => []IInv
<1>1. IInv /\ [Next]_vars => IInv'
  <2>1. ASSUME IInv, Next PROVE IInv'
    BY <2>1, Steps, QuietSound, InsertSound, SelectSound, CommitSound, RollbackSound
  <2>2. IInv /\ UNCHANGED vars => IInv'
    BY DEF IInv, vars, dispatches, GoodTable, KeysDiffer, InStore, Types, Drafts, Fresh,
           Drafted, Holders, Committed, Kept
  <2>3. QED
    BY <2>1, <2>2
<1>2. QED
  BY InitHolds, <1>1, PTL DEF Spec

-----------------------------------------------------------------------------
\* Every column keeps its type, whatever runs when (database.ts, JOBS_MIGRATION).
THEOREM TypeCorrect == Spec => []TypeOK
<1>1. IInv => TypeOK
  BY DEF IInv, GoodTable, Types, TypeOK
<1>2. QED
  BY Invariance, <1>1, PTL

\* A job's lock and finish time are set exactly when its state says so, also between
\* the two statements of requeueExpired (database.ts, requeueExpired).
THEOREM ColumnsCorrect == Spec => []ColumnsAgree
<1>1. IInv => ColumnsAgree
  BY DEF IInv, GoodTable, Agrees, ColumnsAgree, Row
<1>2. QED
  BY Invariance, <1>1, PTL

\* Two rows never share a key, committed or not (database.ts, enqueue).
THEOREM KeysCorrect == Spec => []OneJobPerKey
<1>1. IInv => OneJobPerKey
  BY DEF IInv, KeysDiffer, OneJobPerKey
<1>2. QED
  BY Invariance, <1>1, PTL

\* Jobs commit and roll back with the transaction that dispatched them, and no kept
\* work relies on a job that was rolled back (database.ts, DatabaseQueueAdapter).
THEOREM DispatchCorrect == Spec => []JobsFollowTheirTransaction
<1>1. ASSUME IInv PROVE JobsFollowTheirTransaction
  <2>1. ASSUME NEW j \in Ids, Rows[j].state \in Stored PROVE Kept(by[j])
    <3>1. Committed(j)
      BY <2>1 DEF Rows, NoRow, Stored
    <3>2. QED
      BY <1>1, <3>1 DEF Committed, IInv, Types
  <2>2. ASSUME NEW j \in Ids, reply[j] = "duplicate", Kept(by[j]) PROVE Kept(by[holder[j]])
    BY <1>1, <2>2 DEF IInv, Holders, Committed, Types
  <2>3. QED
    BY <2>1, <2>2 DEF JobsFollowTheirTransaction
<1>2. QED
  BY Invariance, <1>1, PTL

-----------------------------------------------------------------------------
\* The refinement of the lifecycle.

LEMMA EdgesAgree ==
  ASSUME NEW a, NEW b, Life!Edge(a, b)
  PROVE  Lifecycle!Edge(a, b)
BY DEF Life!Edge, Life!Create, Life!Begin, Life!Again, Life!PutBack, Life!Finish, Life!Revive,
       Life!Forget, Life!Life, Lifecycle!Edge, Lifecycle!Create, Lifecycle!Begin,
       Lifecycle!Again, Lifecycle!PutBack, Lifecycle!Finish, Lifecycle!Revive,
       Lifecycle!Forget, Lifecycle!Life

\* What everyone sees of a table of which each row stays or moves along an edge.
LEMMA EdgesMakeAStep ==
  ASSUME \A j \in Ids : Rows'[j] = Rows[j] \/ LifeOf(Rows'[j]) = LifeOf(Rows[j])
                        \/ Life!Edge(LifeOf(Rows[j]), LifeOf(Rows'[j]))
  PROVE  Lifecycle!Next
<1> DEFINE S == {j \in Ids : LifeOf(Rows'[j]) # LifeOf(Rows[j])}
<1>1. \A j \in S : Lifecycle!Edge(LifeOf(Rows[j]), LifeOf(Rows'[j]))
  BY EdgesAgree
<1>2. S \in SUBSET Ids /\ \A j \in Ids \ S : LifeOf(Rows'[j]) = LifeOf(Rows[j])
  OBVIOUS
<1> HIDE DEF S
<1>3. QED
  BY <1>1, <1>2 DEF Lifecycle!Next

\* A row appears when its transaction commits; it was inserted, or is gone, by then.
LEMMA Appears ==
  ASSUME NEW row, row.state = "pending" /\ row.attempt = 0
  PROVE  Life!Edge(LifeOf(NoRow("unborn")), LifeOf(row))
BY DEF LifeOf, NoRow, Life!Edge, Life!Create, Life!Life

LEMMA Vanishes == Life!Edge(LifeOf(NoRow("unborn")), LifeOf(NoRow("gone")))
BY DEF LifeOf, NoRow, Life!Edge, Life!Create, Life!Life

LEMMA QuietStep ==
  ASSUME IInv, Quiet
  PROVE  Lifecycle!Next
<1>1. \A j \in Ids : (Committed(j))' <=> Committed(j)
  BY DEF Quiet, Committed, Kept
<1>2. ASSUME NEW j \in Ids
      PROVE  Rows'[j] = Rows[j] \/ LifeOf(Rows'[j]) = LifeOf(Rows[j])
             \/ Life!Edge(LifeOf(Rows[j]), LifeOf(Rows'[j]))
  <2>1. CASE Committed(j)
    BY <1>1, <2>1 DEF Rows, Quiet, Moves
  <2>2. CASE ~Committed(j)
    BY <1>1, <2>2 DEF Rows, Quiet
  <2>3. QED
    BY <2>1, <2>2
<1>3. QED
  BY <1>2, EdgesMakeAStep

LEMMA InsertStep ==
  ASSUME IInv, NEW j \in Ids, NEW d \in Txs \cup {Alone}, NEW runAt \in Times, Insert(j, d, runAt)
  PROVE  Lifecycle!Next
<1>1. /\ rows[j].state = "unborn" /\ conn[j] = Alone
      /\ conn' = [conn EXCEPT ![j] = d] /\ UNCHANGED tx
      /\ rows' = [rows EXCEPT ![j] = IF KeyTaken(j) THEN NoRow("gone") ELSE NewRow(runAt)]
  BY DEF Insert, Connection, IInv, Types, Drafts, Fresh
<1>2. \A i \in Ids \ {j} : rows'[i] = rows[i] /\ ((Committed(i))' <=> Committed(i))
  BY <1>1 DEF IInv, GoodTable, Types, Committed, Kept
<1>3. \A i \in Ids \ {j} : Rows'[i] = Rows[i]
  BY <1>2 DEF Rows
<1>4. Rows[j] = NoRow("unborn")
  BY <1>1 DEF IInv, Drafts, Fresh, Rows
<1>5. Rows'[j] \in {NoRow("unborn"), NoRow("gone"), NewRow(runAt)}
  BY <1>1 DEF IInv, GoodTable, Rows
<1>6. NewRow(runAt).state = "pending" /\ NewRow(runAt).attempt = 0
  BY DEF NewRow, NoRow
<1>7. Rows'[j] = Rows[j] \/ Life!Edge(LifeOf(Rows[j]), LifeOf(Rows'[j]))
  BY <1>4, <1>5, <1>6, Appears, Vanishes
<1>8. QED
  BY <1>3, <1>7, EdgesMakeAStep

LEMMA SelectStep ==
  ASSUME NEW j \in Ids, Select(j)
  PROVE  Lifecycle!Next
<1>1. \A i \in Ids : Rows'[i] = Rows[i]
  BY DEF Select, Rows, Committed, Kept
<1>2. QED
  BY <1>1, EdgesMakeAStep

LEMMA CommitStep ==
  ASSUME IInv, NEW t \in Txs, Commit(t)
  PROVE  Lifecycle!Next
<1>1. UNCHANGED <<rows, conn>> /\ tx' = [tx EXCEPT ![t] = "committed"]
  BY DEF Commit, dispatches
<1>2. ASSUME NEW j \in Ids
      PROVE  Rows'[j] = Rows[j] \/ Life!Edge(LifeOf(Rows[j]), LifeOf(Rows'[j]))
  <2>1. CASE Committed(j) \/ ~(Committed(j))'
    <3>1. (Committed(j))' <=> Committed(j)
      BY <1>1, <2>1 DEF Committed, Kept, IInv, Types
    <3>2. QED
      BY <1>1, <3>1 DEF Rows
  <2>2. CASE ~Committed(j) /\ (Committed(j))'
    <3>1. Drafted(j)
      BY <2>2 DEF IInv, Drafts
    <3>2. CASE rows[j] = NoRow("gone")
      BY <1>1, <3>2 DEF Rows, NoRow
    <3>3. CASE rows[j].state = "pending" /\ rows[j].attempt = 0
      <4>1. Rows[j] = NoRow("unborn") /\ Rows'[j] = rows[j]
        BY <1>1, <2>2, <3>3 DEF Rows
      <4>2. QED
        BY <3>3, <4>1, Appears
    <3>4. QED
      BY <3>1, <3>2, <3>3 DEF Drafted
  <2>3. QED
    BY <2>1, <2>2
<1>3. QED
  BY <1>2, EdgesMakeAStep

LEMMA RollbackStep ==
  ASSUME IInv, NEW t \in Txs, Rollback(t)
  PROVE  Lifecycle!Next
<1>1. /\ UNCHANGED conn
      /\ tx[t] = "open" /\ tx' = [tx EXCEPT ![t] = "rolled back"]
      /\ rows' = [j \in Ids |-> IF conn[j] = t THEN NoRow("gone") ELSE rows[j]]
  BY DEF Rollback
<1>2. \A i \in Ids : (Committed(i))' <=> Committed(i)
  BY <1>1, TxsAssumption DEF Committed, Kept, IInv, Types
<1>3. ASSUME NEW j \in Ids
      PROVE  Rows'[j] = Rows[j] \/ Life!Edge(LifeOf(Rows[j]), LifeOf(Rows'[j]))
  <2>1. CASE conn[j] # t
    BY <1>1, <1>2, <2>1 DEF Rows
  <2>2. CASE conn[j] = t
    <3>1. ~Committed(j)
      BY <1>1, <2>2, TxsAssumption DEF Committed, Kept
    <3>2. Drafted(j)
      BY <3>1 DEF IInv, Drafts
    <3>3. Rows'[j] = NoRow("gone") /\ Rows[j] \in {NoRow("unborn"), NoRow("gone")}
      BY <1>1, <2>2, <3>1, <3>2 DEF Rows, Drafted, NoRow
    <3>4. QED
      BY <3>3, Vanishes
  <2>3. QED
    BY <2>1, <2>2
<1>4. QED
  BY <1>3, EdgesMakeAStep

\* Every statement, commit and rollback moves the jobs everyone sees along their
\* lifecycle, or leaves them (database.ts; spec-6 3.2).
THEOREM LifecycleCorrect == Spec => ImplementsLifecycle
<1> DEFINE life == [j \in Ids |-> LifeOf(Rows[j])]
<1>1. Init => Lifecycle!Init
  <2>1. ASSUME Init PROVE \A j \in Ids : Rows[j] = NoRow("unborn")
    BY <2>1 DEF Init, Rows
  <2>2. QED
    BY <2>1 DEF Lifecycle!Init, Lifecycle!Life, LifeOf, NoRow
<1>2. IInv /\ [Next]_vars => [Lifecycle!Next]_life
  <2>1. ASSUME IInv, Next PROVE Lifecycle!Next
    BY <2>1, Steps, QuietStep, InsertStep, SelectStep, CommitStep, RollbackStep
  <2>2. UNCHANGED vars => UNCHANGED life
    BY DEF vars, dispatches, Rows, Committed, Kept
  <2>3. QED
    BY <2>1, <2>2
<1>3. QED
  BY Invariance, <1>1, <1>2, PTL DEF Spec, ImplementsLifecycle, Lifecycle!Spec
=============================================================================
