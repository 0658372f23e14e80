------------------------- MODULE AppLifecycleProofs -------------------------
(***************************************************************************)
(* Proofs about AppLifecycle, for any resources, failures and load: type   *)
(* correctness, and, when no stop() comes while listen() is under way,     *)
(* that what was opened is closed once, in order and after the drain.      *)
(* Then proofs about Requests, for any requests, options and limits, and   *)
(* about Cache, for any keys, callers, ttl and capacity.  Then about       *)
(* Routes, for any routers, routes, mounts and requests: what the          *)
(* recursive definitions give (the search down the trie, the routes        *)
(* collected from the mounts), that the trie finds the best route, and     *)
(* that a request meets the routers as they are.  Last about Auth, for any *)
(* visitors, keys and intervals: the answers, whoever rotates, revokes or  *)
(* touches meanwhile, and the order any list of features is placed in.     *)
(***************************************************************************)
EXTENDS AppLifecycle, Requests, Cache, Routes, Auth, SequenceTheorems, FiniteSetTheorems, WellFoundedInduction, TLAPS

-----------------------------------------------------------------------------
\* Lists of hooks.

\* The start hooks' resources up to k, as cleanups holds them.
Opened(k) == [n \in 1 .. (k - Built) |-> Built + n]

\* The resources from `top` down to the one above `base`.
Down(top, base) == [n \in 1 .. (top - base) |-> top + 1 - n]

LEMMA DownIs ==
  ASSUME NEW base \in Nat, NEW top \in Nat, base <= top
  PROVE  /\ Down(top, base) \in Seq(Int) /\ Len(Down(top, base)) = top - base
         /\ \A n \in 1 .. (top - base) : Down(top, base)[n] = top + 1 - n
<1>1. top - base \in Nat /\ \A n \in 1 .. (top - base) : top + 1 - n \in Int
  OBVIOUS
<1> QED
  BY <1>1 DEF Down

LEMMA OpenedGrows ==
  ASSUME NEW k \in Built .. Top - 1
  PROVE  Append(Opened(k), k + 1) = Opened(k + 1)
<1> DEFINE s == Opened(k)
<1>1. Built \in Nat /\ k \in Nat /\ k - Built \in Nat
  BY ResourcesAssumption
<1>2. s \in Seq(Int) /\ Len(s) = k - Built
  BY <1>1 DEF Opened
<1>3. /\ Append(s, k + 1) = [n \in 1 .. Len(s) + 1 |-> IF n = Len(s) + 1 THEN k + 1 ELSE s[n]]
  BY <1>2
<1>4. \A n \in 1 .. (k + 1 - Built) : (IF n = Len(s) + 1 THEN k + 1 ELSE s[n]) = Built + n
  BY <1>1, <1>2 DEF Opened
<1> QED
  BY <1>1, <1>2, <1>3, <1>4 DEF Opened

LEMMA ReversedOpened ==
  ASSUME NEW k \in Built .. Top
  PROVE  Reverse(Opened(k)) = Down(k, Built)
<1>1. Built \in Nat /\ k \in Nat /\ k - Built \in Nat
  BY ResourcesAssumption
<1>2. Opened(k) \in Seq(Int) /\ Len(Opened(k)) = k - Built
  BY <1>1 DEF Opened
<1>3. \A n \in 1 .. (k - Built) : Opened(k)[(k - Built - n) + 1] = k + 1 - n
  BY <1>1 DEF Opened
<1> QED
  BY <1>1, <1>2, <1>3 DEF Reverse, Down

LEMMA AllDown == ShutdownHooks(Opened(Top)) = Down(Top, 0)
<1> DEFINE late == Reverse(Opened(Top))
           early == Reverse([r \in 1 .. Built |-> r])
<1>1. Built \in Nat /\ Top \in Nat /\ Top - Built \in Nat
  BY ResourcesAssumption
<1>2. late = Down(Top, Built)
  BY <1>1, ReversedOpened
<1>3. [r \in 1 .. Built |-> r] \in Seq(Int) /\ Len([r \in 1 .. Built |-> r]) = Built
  BY <1>1
<1>4. early = [n \in 1 .. Built |-> Built + 1 - n]
  BY <1>1, <1>3 DEF Reverse
<1>5. late \in Seq(Int) /\ Len(late) = Top - Built /\ early \in Seq(Int) /\ Len(early) = Built
  BY <1>1, <1>2, <1>4 DEF Down
<1> HIDE DEF late, early
<1>6. /\ late \o early \in Seq(Int) /\ Len(late \o early) = Len(late) + Len(early)
      /\ \A n \in 1 .. Len(late) + Len(early) :
           (late \o early)[n] = IF n <= Len(late) THEN late[n] ELSE early[n - Len(late)]
  BY <1>5, ConcatProperties
<1>7. Len(late) + Len(early) = Top
  BY <1>1, <1>5
<1>8. ASSUME NEW n \in 1 .. Top PROVE (late \o early)[n] = Top + 1 - n
  <2>1. (late \o early)[n] = IF n <= Top - Built THEN late[n] ELSE early[n - (Top - Built)]
    BY <1>5, <1>6, <1>7
  <2>2. CASE n <= Top - Built
    BY <1>1, <1>2, <2>1, <2>2, DownIs
  <2>3. CASE n > Top - Built
    <3>1. n - (Top - Built) \in 1 .. Built
      BY <1>1, <1>8, <2>3
    <3>2. early[n - (Top - Built)] = Built + 1 - (n - (Top - Built))
      BY <1>4, <3>1
    <3> QED
      BY <1>1, <1>8, <2>1, <2>3, <3>2
  <2>4. n <= Top - Built \/ n > Top - Built
    BY <1>1
  <2> QED
    BY <2>2, <2>3, <2>4
<1>9. late \o early = Down(Top, 0)
  <2> DEFINE s == late \o early
             t == Down(Top, 0)
  <2>1. t \in Seq(Int) /\ Len(t) = Top /\ \A n \in 1 .. Top : t[n] = Top + 1 - n
    BY <1>1, DownIs
  <2>2. s \in Seq(Int) /\ Len(s) = Top /\ \A n \in 1 .. Top : s[n] = Top + 1 - n
    BY <1>6, <1>7, <1>8
  <2> HIDE DEF s, t
  <2>3. s = t
    BY <2>1, <2>2, SeqEqual
  <2> QED
    BY <2>3 DEF s, t
<1> QED
  BY <1>9 DEF ShutdownHooks, late, early

\* A list that is not through yet begins with its highest resource.
LEMMA DownHead ==
  ASSUME NEW base \in Nat, NEW top \in Nat, base <= top, Down(top, base) # <<>>
  PROVE  top > base /\ Head(Down(top, base)) = top /\ Tail(Down(top, base)) = Down(top - 1, base)
<1> DEFINE s == Down(top, base)
<1>1. top - base \in Nat /\ s \in Seq(Int) /\ Len(s) = top - base
  BY DEF Down
<1>2. top > base
  BY <1>1 DEF Down
<1>3. Head(s) = top
  BY <1>1, <1>2 DEF Down
<1>4. Tail(s) \in Seq(Int) /\ Len(Tail(s)) = top - 1 - base /\ \A n \in 1 .. (top - 1 - base) : Tail(s)[n] = s[n + 1]
  BY <1>1, <1>2, HeadTailProperties
<1>5. \A n \in 1 .. (top - 1 - base) : Tail(s)[n] = (top - 1) + 1 - n
  BY <1>1, <1>2, <1>4 DEF Down
<1>6. Tail(s) = Down(top - 1, base)
  <2> DEFINE t == Down(top - 1, base)
             u == Tail(s)
  <2>1. t \in Seq(Int) /\ Len(t) = top - 1 - base /\ \A n \in 1 .. (top - 1 - base) : t[n] = (top - 1) + 1 - n
    <3>1. top - 1 \in Nat /\ base <= top - 1
      BY <1>2
    <3> QED
      BY <3>1, DownIs
  <2>2. u \in Seq(Int) /\ Len(u) = Len(t) /\ \A n \in 1 .. Len(u) : u[n] = t[n]
    BY <1>4, <1>5, <2>1
  <2> HIDE DEF t, u
  <2>3. u = t
    BY <2>2, <2>1, SeqEqual
  <2> QED
    BY <2>3 DEF t, u
<1> QED
  BY <1>2, <1>3, <1>6

LEMMA DownEmpty ==
  ASSUME NEW base \in Nat, NEW top \in Nat, base <= top, Down(top, base) = <<>>
  PROVE  top = base
  BY DEF Down

LEMMA ReverseTyped ==
  ASSUME NEW S, NEW s \in Seq(S)
  PROVE  Reverse(s) \in Seq(S)
<1>1. Len(s) \in Nat /\ \A n \in 1 .. Len(s) : s[n] \in S
  OBVIOUS
<1>2. \A n \in 1 .. Len(s) : (Len(s) - n) + 1 \in 1 .. Len(s)
  BY <1>1
<1> QED
  BY <1>1, <1>2 DEF Reverse

LEMMA HooksTyped ==
  ASSUME NEW s \in Seq(Resources)
  PROVE  Reverse(s) \in Seq(Resources) /\ ShutdownHooks(s) \in Seq(Resources)
<1> DEFINE built == [r \in 1 .. Built |-> r]
<1>1. built \in Seq(Resources)
  BY ResourcesAssumption DEF Resources
<1>2. Reverse(s) \in Seq(Resources) /\ Reverse(built) \in Seq(Resources)
  BY <1>1, ReverseTyped
<1> HIDE DEF built
<1>3. Reverse(s) \o Reverse(built) \in Seq(Resources)
  BY <1>2, ConcatProperties
<1> QED
  BY <1>2, <1>3 DEF ShutdownHooks, built

-----------------------------------------------------------------------------
\* Types.

LoadFits == /\ {http, upgrading, sockets, leaving} \subseteq Nat
            /\ http + upgrading + sockets + leaving <= MaxLoad

HookKnown == starter.pc = "hooks" => starter.hook \in Built + 1 .. Top

TypeInv == TypeOK /\ LoadFits /\ HookKnown

LEMMA LoadTyped == LoadFits => {http, upgrading, sockets, leaving} \subseteq 0 .. MaxLoad
  BY LoadAssumption DEF LoadFits

LEMMA RunsHookTyped ==
  ASSUME TypeOK, NEW s \in Seq(Resources), s # <<>>, RunsHook(Head(s))
  PROVE  open' \subseteq Resources /\ closings' \in [Resources -> Nat] /\ Tail(s) \in Seq(Resources)
<1>1. Head(s) \in Resources /\ Tail(s) \in Seq(Resources)
  BY HeadTailProperties
<1> QED
  BY <1>1, SMTT(30) DEF RunsHook, TypeOK

\* The steps of listen() and run().
LEMMA StarterTyped ==
  ASSUME TypeInv, (\E serves \in BOOLEAN : Listen(serves)) \/ StartStep \/ HookFails \/ BindFails \/ SubscribeFails
  PROVE  TypeInv'
<1> USE DEF TypeInv
<1>1. CASE \E serves \in BOOLEAN : Listen(serves)
  <2>1. Built + 1 \in Resources /\ Built + 1 \in Built + 1 .. Top
    BY ResourcesAssumption DEF Resources
  <2> QED
    BY <1>1, <2>1 DEF Listen, TypeOK, LoadFits, HookKnown, States, StartPcs, work
<1>2. CASE HookDone
  <2>1. starter.hook \in Built + 1 .. Top /\ starter.hook \in Resources
    BY <1>2, ResourcesAssumption DEF HookDone, HookKnown, Resources
  <2>2. starter.hook < Top => starter.hook + 1 \in Built + 1 .. Top /\ starter.hook + 1 \in Resources
    BY <2>1, ResourcesAssumption DEF Resources
  <2>3. Append(cleanups, starter.hook) \in Seq(Resources)
    BY <2>1 DEF TypeOK
  <2> QED
    BY <1>2, <2>1, <2>2, <2>3 DEF HookDone, StarterAt, TypeOK, LoadFits, HookKnown, States, StartPcs, work
<1>3. CASE HookFails \/ BindFails
  <2>1. Reverse(cleanups) \in Seq(Resources) /\ ShutdownHooks(cleanups) \in Seq(Resources)
    BY HooksTyped DEF TypeOK
  <2>2. PICK pc \in {"undoing", "unwinding"}, list \in Seq(Resources) :
           starter' = [starter EXCEPT !.pc = pc, !.todo = list]
    BY <1>3, <2>1 DEF HookFails, BindFails
  <2>3. UNCHANGED <<state, stopper, open, cleanups, server, subscribed, http, upgrading, sockets, leaving, timedOut, closings>>
    BY <1>3 DEF HookFails, BindFails, work
  <2> QED
    BY <2>2, <2>3 DEF TypeOK, LoadFits, HookKnown, StartPcs
<1>4. CASE StarterRunsHook
  <2>1. open' \subseteq Resources /\ closings' \in [Resources -> Nat] /\ Tail(starter.todo) \in Seq(Resources)
    BY <1>4, RunsHookTyped DEF StarterRunsHook, TypeOK
  <2> QED
    BY <1>4, <2>1 DEF StarterRunsHook, TypeOK, LoadFits, HookKnown, work
<1>5. CASE Undone \/ Unwound \/ Bind \/ Subscribed \/ SubscribeFails
  <2>1. \E pc \in StartPcs \ {"hooks"} : StarterAt(pc)
    BY <1>5 DEF Undone, Unwound, Bind, Subscribed, SubscribeFails, StartPcs
  <2>2. /\ state' \in {state, "stopped", "running"} /\ cleanups' \in {cleanups, <<>>}
        /\ server' \in {server, "open"} /\ subscribed' \in {subscribed, TRUE}
        /\ UNCHANGED <<stopper, open, http, upgrading, sockets, leaving, timedOut, closings>>
    BY <1>5 DEF Undone, Unwound, Bind, Subscribed, SubscribeFails, work
  <2>3. starter' \in [pc : StartPcs, hook : {0} \cup Resources, serves : BOOLEAN, todo : Seq(Resources)] /\ HookKnown'
    BY <2>1 DEF StarterAt, TypeOK, HookKnown
  <2>4. <<>> \in Seq(Resources)
    OBVIOUS
  <2> QED
    BY <2>2, <2>3, <2>4 DEF TypeOK, LoadFits, States, Servers
<1> QED
  BY <1>1, <1>2, <1>3, <1>4, <1>5 DEF StartStep

\* Requests, sockets and stop().
LEMMA ServingTyped ==
  ASSUME TypeInv, Arrives \/ Answered \/ Upgraded \/ PeerCloses \/ Left
  PROVE  TypeInv'
<1>1. LoadFits'
  BY LoadAssumption DEF TypeInv, LoadFits, Arrives, Answered, Upgraded, PeerCloses, Left
<1>2. {http, upgrading, sockets, leaving}' \subseteq 0 .. MaxLoad
  BY <1>1, LoadAssumption DEF LoadFits
<1>3. UNCHANGED <<state, starter, stopper, open, cleanups, server, subscribed, timedOut, closings>>
  BY DEF Arrives, Answered, Upgraded, PeerCloses, Left
<1> QED
  BY <1>1, <1>2, <1>3 DEF TypeInv, TypeOK, HookKnown

LEMMA StopperTyped ==
  ASSUME TypeInv, StopUnstarted \/ Stop \/ StopStep
  PROVE  TypeInv'
<1> USE DEF TypeInv
<1>1. LoadFits' /\ UNCHANGED starter
  <2>1. CASE StopUnstarted \/ Drained \/ DrainHooks \/ Unsubscribes \/ StopperRunsHook \/ Stopped
    BY <2>1 DEF LoadFits, StopUnstarted, Drained, DrainHooks, Unsubscribes, StopperRunsHook, Stopped, work
  <2>2. CASE Stop
    BY <2>2, LoadAssumption DEF LoadFits, Stop
  <2>3. CASE Timeout
    BY <2>3, LoadAssumption DEF LoadFits, Timeout
  <2> QED
    BY <2>1, <2>2, <2>3 DEF StopStep
<1>2. {http, upgrading, sockets, leaving}' \subseteq 0 .. MaxLoad /\ HookKnown'
  BY <1>1, LoadAssumption DEF LoadFits, HookKnown
<1>3. CASE StopUnstarted \/ Stop \/ Drained \/ Timeout \/ DrainHooks \/ Stopped
  BY <1>1, <1>2, <1>3, ZenonT(40) DEF StopUnstarted, Stop, Drained, Timeout, DrainHooks, Stopped, StopperAt, TypeOK, States, StopPcs,
                          Servers
<1>4. CASE Unsubscribes
  <2>1. ShutdownHooks(cleanups) \in Seq(Resources)
    BY HooksTyped DEF TypeOK
  <2> QED
    BY <1>1, <1>2, <1>4, <2>1 DEF Unsubscribes, TypeOK, StopPcs
<1>5. CASE StopperRunsHook
  <2>1. open' \subseteq Resources /\ closings' \in [Resources -> Nat] /\ Tail(stopper.todo) \in Seq(Resources)
    BY <1>5, RunsHookTyped DEF StopperRunsHook, TypeOK
  <2> QED
    BY <1>1, <1>2, <1>5, <2>1 DEF StopperRunsHook, TypeOK
<1> QED
  BY <1>3, <1>4, <1>5 DEF StopStep

LEMMA InitTyped == Init => TypeInv
<1> SUFFICES ASSUME Init PROVE TypeInv
  OBVIOUS
<1>1. LoadFits /\ HookKnown
  BY LoadAssumption DEF Init, LoadFits, HookKnown
<1>2. open \subseteq Resources /\ cleanups \in Seq(Resources) /\ closings \in [Resources -> Nat]
  BY ResourcesAssumption DEF Init, Resources
<1>3. /\ starter \in [pc : StartPcs, hook : {0} \cup Resources, serves : BOOLEAN, todo : Seq(Resources)]
      /\ stopper \in [pc : StopPcs, todo : Seq(Resources)]
  BY DEF Init, StartPcs, StopPcs
<1>4. {http, upgrading, sockets, leaving} \subseteq 0 .. MaxLoad
  BY <1>1, LoadTyped
<1> QED
  BY <1>1, <1>2, <1>3, <1>4 DEF Init, TypeInv, TypeOK, States, Servers

LEMMA TypeInvariance == Spec => []TypeInv
<1>1. TypeInv /\ [Next]_vars => TypeInv'
  <2>1. TypeInv /\ UNCHANGED vars => TypeInv'
    BY DEF TypeInv, TypeOK, LoadFits, HookKnown, vars, work
  <2> QED
    BY <2>1, StarterTyped, ServingTyped, StopperTyped DEF Next
<1> QED
  BY <1>1, InitTyped, PTL DEF Spec

-----------------------------------------------------------------------------
\* Where an app is whose stop() does not come while listen() is under way.

\* The resources up to k are open, none was closed yet.
Up(k) == cleanups = Opened(k) /\ open = 1 .. k /\ \A r \in Resources : closings[r] = 0

\* The hooks down to the one above m have run.
Going(m) ==
  /\ open \subseteq (1 .. m) \cup Faulty
  /\ \A r \in 1 .. m : closings[r] = 0
  /\ \A r \in Resources : closings[r] <= 1

Fresh ==
  /\ starter.pc = "idle" /\ stopper.pc \in {"idle", "stopped"}
  /\ state = IF stopper.pc = "idle" THEN "created" ELSE "stopped"
  /\ Up(Built)

Starting ==
  starter.pc = "hooks" /\ stopper.pc = "idle" /\ state = "initializing" /\ Up(starter.hook - 1)

Undoing ==
  /\ starter.pc = "undoing" /\ stopper.pc = "idle" /\ state = "initializing"
  /\ \E m \in Built .. Top : starter.todo = Down(m, Built) /\ Going(m)

Serving ==
  /\ starter.pc \in {"binding", "subscribing", "listening", "rejected"}
  /\ stopper.pc \in {"idle", "draining", "drained", "unsubscribing"}
  /\ stopper.pc # "idle" => starter.pc \in {"listening", "rejected"}
  /\ state = IF stopper.pc # "idle" THEN "stopping" ELSE IF starter.pc = "listening" THEN "running" ELSE "ready"
  /\ Up(Top)

Unwinding ==
  /\ starter.pc = "unwinding" /\ stopper.pc = "idle" /\ state = "ready"
  /\ \E m \in 0 .. Top : starter.todo = Down(m, 0) /\ Going(m)

Closing ==
  /\ starter.pc \in {"listening", "rejected"} /\ stopper.pc = "closing" /\ state = "stopping"
  /\ \E m \in 0 .. Top : stopper.todo = Down(m, 0) /\ Going(m)

Ended ==
  /\ starter.pc \in {"listening", "rejected"} /\ stopper.pc \in {"idle", "stopped"} /\ state = "stopped"
  /\ stopper.pc = "idle" => starter.pc = "rejected"
  /\ \E m \in {0, Built} : Going(m) /\ (starter.pc = "listening" => m = 0)

Phase == Fresh \/ Starting \/ Undoing \/ Serving \/ Unwinding \/ Closing \/ Ended

\* What stop() waits for, and what has been cut.
Drainage ==
  /\ server = "none" => Idle
  /\ stopper.pc = "idle" => server \in {"none", "open"}
  /\ stopper.pc = "draining" => server = "closing"
  /\ stopper.pc \in {"drained", "unsubscribing", "closing"} => server # "open" /\ (Idle \/ timedOut)
  /\ stopper.pc = "closing" /\ subscribed => "unsubscribe" \in Failures

IInv == TypeInv /\ Phase /\ Drainage

LEMMA NothingOpened == Opened(Built) = <<>>
  BY ResourcesAssumption DEF Opened

LEMMA InitHolds == Init => Phase /\ Drainage
<1> SUFFICES ASSUME Init PROVE Phase /\ Drainage
  OBVIOUS
<1>1. Fresh
  BY NothingOpened DEF Init, Fresh, Up
<1> QED
  BY <1>1 DEF Init, Phase, Drainage, Idle

\* A hook of the list that goes down runs.
LEMMA GoingOn ==
  ASSUME TypeOK, NEW m \in 1 .. Top, Going(m), RunsHook(m)
  PROVE  Going(m - 1)'
<1>1. m \in Resources /\ Top \in Nat
  BY ResourcesAssumption DEF Resources
<1>2. \A r \in Resources : closings'[r] = IF r = m THEN closings[r] + 1 ELSE closings[r]
  BY DEF RunsHook, TypeOK
<1>3. closings[m] = 0
  BY DEF Going
<1>4. \A r \in 1 .. (m - 1) : r \in 1 .. m /\ r # m /\ r \in Resources
  BY <1>1 DEF Resources
<1>5. open' \subseteq (1 .. (m - 1)) \cup Faulty
  <2>1. open \subseteq (1 .. (m - 1)) \cup {m} \cup Faulty
    BY <1>1 DEF Going
  <2> QED
    BY <2>1 DEF RunsHook
<1> QED
  BY <1>2, <1>3, <1>4, <1>5 DEF Going

\* The first hook of a list that reaches down to the one above base.
LEMMA NextHook ==
  ASSUME TypeOK, NEW base \in Nat, NEW m \in base .. Top, NEW todo, todo = Down(m, base), todo # <<>>,
         Going(m), RunsHook(Head(todo))
  PROVE  m - 1 \in base .. Top /\ Tail(todo) = Down(m - 1, base) /\ Going(m - 1)' /\ Head(todo) = m
<1>1. m \in Nat /\ base <= m /\ Top \in Nat
  BY ResourcesAssumption
<1>2. m > base /\ Head(todo) = m /\ Tail(todo) = Down(m - 1, base)
  BY <1>1, DownHead
<1>3. m \in 1 .. Top
  BY <1>1, <1>2
<1>4. Going(m - 1)'
  BY <1>2, <1>3, GoingOn
<1> QED
  BY <1>1, <1>2, <1>4

\* Each field of the two functions tells the phase.
LEMMA WhereItIs ==
  ASSUME Phase
  PROVE  /\ state = "created" => Fresh /\ stopper.pc = "idle"
         /\ starter.pc = "hooks" => Starting
         /\ starter.pc = "undoing" => Undoing
         /\ starter.pc = "unwinding" => Unwinding
         /\ starter.pc \in {"binding", "subscribing"} => Serving /\ stopper.pc = "idle"
         /\ stopper.pc \in {"draining", "drained", "unsubscribing"} => Serving
         /\ stopper.pc = "closing" => Closing
  BY DEF Phase, Fresh, Starting, Undoing, Serving, Unwinding, Closing, Ended

LEMMA UpIsGoing ==
  ASSUME NEW m \in Built .. Top, Up(m)
  PROVE  Going(m)
<1>1. 1 .. m \subseteq Resources
  BY ResourcesAssumption DEF Resources
<1> QED
  BY <1>1 DEF Up, Going

\* The steps of listen() and run().
LEMMA StarterKeepsPhase ==
  ASSUME TypeInv, Phase,
         (\E serves \in BOOLEAN : Listen(serves)) \/ StartStep \/ HookFails \/ BindFails \/ SubscribeFails
  PROVE  Phase'
<1> USE DEF TypeInv
<1>n. Built \in Nat /\ Top \in Nat /\ Built < Top /\ Built \in Built .. Top /\ Top \in Built .. Top
  BY ResourcesAssumption
<1>1. CASE \E serves \in BOOLEAN : Listen(serves)
  <2>1. Fresh /\ stopper.pc = "idle"
    BY <1>1, WhereItIs DEF Listen
  <2>2. starter'.pc = "hooks" /\ starter'.hook - 1 = Built /\ state' = "initializing"
    BY <1>1, <1>n DEF Listen
  <2>3. UNCHANGED <<stopper, open, cleanups, closings>>
    BY <1>1 DEF Listen
  <2>4. Starting'
    BY <2>1, <2>2, <2>3 DEF Fresh, Starting, Up
  <2> QED
    BY <2>4 DEF Phase
<1>2. CASE HookDone
  <2>k. PICK k : k = starter.hook
    OBVIOUS
  <2>1. Starting /\ k \in Built + 1 .. Top /\ k - 1 \in Built .. Top - 1
    BY <1>2, <1>n, <2>k, WhereItIs DEF HookDone, HookKnown
  <2>2. Up(k)'
    <3>1. Append(Opened(k - 1), (k - 1) + 1) = Opened((k - 1) + 1)
      BY <2>1, OpenedGrows
    <3>2. (k - 1) + 1 = k /\ (1 .. (k - 1)) \cup {k} = 1 .. k
      BY <1>n, <2>1
    <3>3. cleanups' = Opened(k)
      BY <1>2, <2>k, <2>1, <3>1, <3>2 DEF HookDone, Starting, Up
    <3>4. open' = 1 .. k /\ closings' = closings
      BY <1>2, <2>k, <2>1, <3>2 DEF HookDone, Starting, Up
    <3> QED
      BY <2>k, <2>1, <3>3, <3>4 DEF Starting, Up
  <2>3. CASE k < Top
    <3>1. starter'.hook = k + 1 /\ starter'.pc = "hooks" /\ UNCHANGED <<state, stopper>>
      BY <1>2, <2>k, <2>3 DEF HookDone, TypeOK
    <3>2. starter'.hook - 1 = k
      BY <1>n, <2>1, <3>1
    <3>3. Starting'
      BY <2>1, <2>2, <3>1, <3>2 DEF Starting, Up
    <3> QED
      BY <3>3 DEF Phase
  <2>4. CASE ~(k < Top)
    <3>1. k = Top
      BY <1>n, <2>1, <2>4
    <3>2. starter'.pc = "binding" /\ state' = "ready" /\ UNCHANGED stopper
      BY <1>2, <2>k, <2>4 DEF HookDone, StarterAt, TypeOK
    <3>3. Serving'
      BY <2>1, <2>2, <3>1, <3>2 DEF Starting, Serving, Up
    <3> QED
      BY <3>3 DEF Phase
  <2> QED
    BY <2>3, <2>4
<1>3. CASE HookFails
  <2>m. PICK m : m = starter.hook - 1
    OBVIOUS
  <2>1. Starting /\ m \in Built .. Top /\ Up(m)
    BY <1>3, <1>n, <2>m, WhereItIs DEF HookFails, HookKnown, Starting
  <2>2. starter'.pc = "undoing" /\ starter'.todo = Reverse(cleanups) /\ UNCHANGED <<state, stopper, open, closings>>
    BY <1>3 DEF HookFails, TypeOK
  <2>3. Reverse(cleanups) = Down(m, Built)
    BY <2>1, ReversedOpened DEF Up
  <2>4. Going(m)'
    BY <2>1, <2>2, UpIsGoing DEF Going
  <2>5. Undoing'
    BY <2>1, <2>2, <2>3, <2>4 DEF Starting, Undoing, Going
  <2> QED
    BY <2>5 DEF Phase
<1>4. CASE StarterRunsHook
  <2>1. starter'.pc = starter.pc /\ starter'.todo = Tail(starter.todo) /\ UNCHANGED <<state, stopper>>
    BY <1>4 DEF StarterRunsHook, TypeOK
  <2>2. CASE starter.pc = "undoing"
    <3>1. PICK m \in Built .. Top : starter.todo = Down(m, Built) /\ Going(m)
      BY <2>2, WhereItIs DEF Undoing
    <3>2. m - 1 \in Built .. Top /\ Tail(starter.todo) = Down(m - 1, Built) /\ Going(m - 1)'
      BY <1>4, <1>n, <3>1, NextHook DEF StarterRunsHook
    <3>3. Undoing'
      BY <2>1, <2>2, <3>2, WhereItIs DEF Undoing, Going
    <3> QED
      BY <3>3 DEF Phase
  <2>3. CASE starter.pc = "unwinding"
    <3>1. PICK m \in 0 .. Top : starter.todo = Down(m, 0) /\ Going(m)
      BY <2>3, WhereItIs DEF Unwinding
    <3>2. m - 1 \in 0 .. Top /\ Tail(starter.todo) = Down(m - 1, 0) /\ Going(m - 1)'
      BY <1>4, <3>1, NextHook DEF StarterRunsHook
    <3>3. Unwinding'
      BY <2>1, <2>3, <3>2, WhereItIs DEF Unwinding, Going
    <3> QED
      BY <3>3 DEF Phase
  <2> QED
    BY <1>4, <2>2, <2>3 DEF StarterRunsHook
<1>5. CASE Undone \/ Unwound
  <2>1. starter'.pc = "rejected" /\ state' = "stopped" /\ UNCHANGED <<stopper, open, closings>>
    BY <1>5 DEF Undone, Unwound, StarterAt, TypeOK
  <2>2. stopper.pc = "idle" /\ \E m \in {0, Built} : Going(m)
    <3>1. CASE Undone
      <4>1. PICK m \in Built .. Top : starter.todo = Down(m, Built) /\ Going(m)
        BY <3>1, WhereItIs DEF Undone, Undoing
      <4>2. m = Built
        BY <1>n, <3>1, <4>1, DownEmpty DEF Undone
      <4> QED
        BY <3>1, <4>1, <4>2, WhereItIs DEF Undone, Undoing
    <3>2. CASE Unwound
      <4>1. PICK m \in 0 .. Top : starter.todo = Down(m, 0) /\ Going(m)
        BY <3>2, WhereItIs DEF Unwound, Unwinding
      <4>2. m = 0
        <5>1. 0 \in Nat /\ m \in Nat /\ 0 <= m
          BY <1>n
        <5> QED
          BY <3>2, <4>1, <5>1, DownEmpty DEF Unwound
      <4> QED
        BY <3>2, <4>1, <4>2, WhereItIs DEF Unwound, Unwinding
    <3> QED
      BY <1>5, <3>1, <3>2
  <2>3. Ended'
    BY <2>1, <2>2 DEF Ended, Going
  <2> QED
    BY <2>3 DEF Phase
<1>6. CASE Bind \/ Subscribed \/ SubscribeFails
  <2>1. Serving /\ stopper.pc = "idle" /\ starter.pc # "listening"
    BY <1>6, WhereItIs DEF Bind, Subscribed, SubscribeFails
  <2>2. /\ starter'.pc \in {"subscribing", "listening", "rejected"}
        /\ state' = IF starter'.pc = "listening" THEN "running" ELSE state
        /\ UNCHANGED <<stopper, open, cleanups, closings>>
    BY <1>6 DEF Bind, Subscribed, SubscribeFails, StarterAt, TypeOK
  <2>3. Serving'
    BY <2>1, <2>2 DEF Serving, Up
  <2> QED
    BY <2>3 DEF Phase
<1>7. CASE BindFails
  <2>1. Serving /\ stopper.pc = "idle" /\ Up(Top) /\ starter.pc = "binding"
    BY <1>7, WhereItIs DEF BindFails, Serving
  <2>2. starter'.pc = "unwinding" /\ starter'.todo = ShutdownHooks(cleanups) /\ UNCHANGED <<state, stopper, open, closings>>
    BY <1>7 DEF BindFails, TypeOK
  <2>3. starter'.todo = Down(Top, 0) /\ Top \in 0 .. Top
    BY <1>n, <2>1, <2>2, AllDown DEF Up
  <2>4. Going(Top)'
    BY <1>n, <2>1, <2>2, UpIsGoing DEF Going
  <2>5. Unwinding'
    BY <2>1, <2>2, <2>3, <2>4 DEF Serving, Unwinding, Going
  <2> QED
    BY <2>5 DEF Phase
<1> QED
  BY <1>1, <1>2, <1>3, <1>4, <1>5, <1>6, <1>7 DEF StartStep

\* Steps that leave the fields of the two functions alone.
LEMMA OthersKeepPhase ==
  ASSUME Phase, UNCHANGED <<state, starter, stopper, open, cleanups, closings>>
  PROVE  Phase'
<1>1. \A k \in Int : Up(k)' = Up(k) /\ Going(k)' = Going(k)
  BY DEF Up, Going
<1>2. Undoing' = Undoing /\ Unwinding' = Unwinding /\ Closing' = Closing /\ Ended' = Ended
  BY DEF Undoing, Unwinding, Closing, Ended, Going
<1>3. Fresh' = Fresh /\ Starting' = Starting /\ Serving' = Serving
  BY DEF Fresh, Starting, Serving, Up
<1> QED
  BY <1>2, <1>3 DEF Phase

\* The steps of stop(), when it does not come while listen() is under way.
LEMMA StopperKeepsPhase ==
  ASSUME EarlyStop = FALSE, TypeInv, Phase, StopUnstarted \/ Stop \/ StopStep
  PROVE  Phase'
<1> USE DEF TypeInv
<1>n. Built \in Nat /\ Top \in Nat /\ Built < Top /\ Top \in 0 .. Top /\ Top \in Built .. Top
  BY ResourcesAssumption
<1>1. CASE StopUnstarted
  <2>1. Fresh \/ Ended
    BY <1>1 DEF StopUnstarted, Phase, Fresh, Starting, Undoing, Serving, Unwinding, Closing, Ended
  <2>2. stopper'.pc = "stopped" /\ state' = "stopped" /\ stopper.pc = "idle"
        /\ UNCHANGED <<starter, open, cleanups, closings>>
    BY <1>1 DEF StopUnstarted, StopperAt, TypeOK
  <2>3. Fresh => Fresh'
    BY <2>2 DEF Fresh, Up
  <2>4. Ended => Ended'
    BY <2>2 DEF Ended, Going
  <2> QED
    BY <2>1, <2>3, <2>4 DEF Phase
<1>2. CASE Stop
  <2>1. starter.pc \in {"idle", "listening", "rejected"} /\ stopper.pc = "idle"
    BY <1>2 DEF Stop, Early
  <2>2. Serving /\ starter.pc \in {"listening", "rejected"}
    BY <1>2, <2>1 DEF Stop, Phase, Fresh, Starting, Undoing, Serving, Unwinding, Closing, Ended
  <2>3. stopper'.pc \in {"draining", "drained"} /\ state' = "stopping" /\ UNCHANGED <<starter, open, cleanups, closings>>
    BY <1>2 DEF Stop, StopperAt, TypeOK
  <2>4. Serving'
    BY <2>2, <2>3 DEF Serving, Up
  <2> QED
    BY <2>4 DEF Phase
<1>3. CASE Drained \/ Timeout \/ DrainHooks
  <2>1. Serving
    BY <1>3, WhereItIs DEF Drained, Timeout, DrainHooks
  <2>2. stopper.pc # "idle" /\ stopper'.pc \in {"drained", "unsubscribing"}
        /\ UNCHANGED <<state, starter, open, cleanups, closings>>
    BY <1>3 DEF Drained, Timeout, DrainHooks, StopperAt, TypeOK
  <2>3. Serving'
    BY <2>1, <2>2 DEF Serving, Up
  <2> QED
    BY <2>3 DEF Phase
<1>4. CASE Unsubscribes
  <2>1. Serving /\ stopper.pc = "unsubscribing" /\ Up(Top)
    BY <1>4, WhereItIs DEF Unsubscribes, Serving
  <2>2. stopper'.pc = "closing" /\ stopper'.todo = ShutdownHooks(cleanups) /\ UNCHANGED <<state, starter, open, closings>>
    BY <1>4 DEF Unsubscribes
  <2>3. stopper'.todo = Down(Top, 0)
    BY <2>1, <2>2, AllDown DEF Up
  <2>4. Going(Top)'
    BY <1>n, <2>1, <2>2, UpIsGoing DEF Going
  <2>5. Closing'
    BY <1>n, <2>1, <2>2, <2>3, <2>4 DEF Serving, Closing, Going
  <2> QED
    BY <2>5 DEF Phase
<1>5. CASE StopperRunsHook
  <2>1. Closing /\ stopper'.pc = "closing" /\ stopper'.todo = Tail(stopper.todo) /\ UNCHANGED <<state, starter>>
    BY <1>5, WhereItIs DEF StopperRunsHook, TypeOK
  <2>2. PICK m \in 0 .. Top : stopper.todo = Down(m, 0) /\ Going(m)
    BY <2>1 DEF Closing
  <2>3. m - 1 \in 0 .. Top /\ Tail(stopper.todo) = Down(m - 1, 0) /\ Going(m - 1)'
    BY <1>5, <2>2, NextHook DEF StopperRunsHook
  <2>4. Closing'
    BY <2>1, <2>3 DEF Closing, Going
  <2> QED
    BY <2>4 DEF Phase
<1>6. CASE Stopped
  <2>1. Closing /\ stopper'.pc = "stopped" /\ state' = "stopped" /\ UNCHANGED <<starter, open, closings>>
    BY <1>6, WhereItIs DEF Stopped, StopperAt, TypeOK
  <2>2. PICK m \in 0 .. Top : stopper.todo = Down(m, 0) /\ Going(m)
    BY <2>1 DEF Closing
  <2>3. m = 0
    <3>1. 0 \in Nat /\ m \in Nat /\ 0 <= m
      BY <1>n
    <3> QED
      BY <1>6, <2>2, <3>1, DownEmpty DEF Stopped
  <2>4. Ended'
    BY <2>1, <2>2, <2>3 DEF Closing, Ended, Going
  <2> QED
    BY <2>4 DEF Phase
<1> QED
  BY <1>1, <1>2, <1>3, <1>4, <1>5, <1>6 DEF StopStep

LEMMA StarterKeepsDrainage ==
  ASSUME TypeInv, Phase, Drainage,
         (\E serves \in BOOLEAN : Listen(serves)) \/ StartStep \/ HookFails \/ BindFails \/ SubscribeFails
  PROVE  Drainage'
<1> USE DEF TypeInv
<1>1. UNCHANGED <<stopper, http, upgrading, sockets, leaving, timedOut>>
  BY DEF Listen, StartStep, HookDone, StarterRunsHook, Undone, Bind, Unwound, Subscribed, HookFails, BindFails,
         SubscribeFails, work
<1>2. Idle' = Idle
  BY <1>1 DEF Idle
<1>3. UNCHANGED <<server, subscribed>> \/ (stopper.pc = "idle" /\ server' \in {server, "open"})
  <2>1. CASE Bind \/ Subscribed
    BY <2>1, WhereItIs DEF Bind, Subscribed
  <2>2. CASE ~(Bind \/ Subscribed)
    BY <2>2 DEF Listen, StartStep, HookDone, StarterRunsHook, Undone, Unwound, HookFails, BindFails, SubscribeFails
  <2> QED
    BY <2>1, <2>2
<1> QED
  BY <1>1, <1>2, <1>3 DEF Drainage

LEMMA ServingKeepsDrainage ==
  ASSUME TypeInv, Drainage, Arrives \/ Answered \/ Upgraded \/ PeerCloses \/ Left
  PROVE  Drainage'
<1>1. UNCHANGED <<stopper, server, subscribed, timedOut>>
  BY DEF Arrives, Answered, Upgraded, PeerCloses, Left
<1>2. {http, upgrading, sockets, leaving} \subseteq Nat
  BY DEF TypeInv, LoadFits
<1>3. Idle => server = "open"
  BY <1>2 DEF Idle, Arrives, Answered, Upgraded, PeerCloses, Left
<1>4. server = "none" => FALSE
  BY <1>3 DEF Drainage
<1> QED
  BY <1>1, <1>3, <1>4 DEF Drainage

LEMMA StopperKeepsDrainage ==
  ASSUME TypeInv, Drainage, StopUnstarted \/ Stop \/ StopStep
  PROVE  Drainage'
<1> USE DEF TypeInv
<1>1. CASE StopUnstarted \/ Drained \/ DrainHooks \/ StopperRunsHook \/ Stopped
  <2>1. UNCHANGED <<server, subscribed, http, upgrading, sockets, leaving, timedOut>>
    BY <1>1 DEF StopUnstarted, Drained, DrainHooks, StopperRunsHook, Stopped, work
  <2>2. Idle' = Idle
    BY <2>1 DEF Idle
  <2>3. \/ stopper.pc = "draining" /\ Idle /\ stopper'.pc = "drained"
        \/ stopper.pc = "drained" /\ stopper'.pc = "unsubscribing"
        \/ stopper.pc = "closing" /\ stopper'.pc = "closing"
        \/ stopper'.pc = "stopped"
    BY <1>1 DEF StopUnstarted, Drained, DrainHooks, StopperRunsHook, Stopped, StopperAt, TypeOK
  <2> QED
    BY <2>1, <2>2, <2>3 DEF Drainage
<1>2. CASE Stop
  <2>1. stopper.pc = "idle" /\ UNCHANGED <<http, upgrading, timedOut, subscribed>> /\ sockets' = 0
        /\ leaving' = leaving + sockets
    BY <1>2 DEF Stop
  <2>2. server = "none" => Idle' /\ Idle
    BY <2>1 DEF Drainage, Idle
  <2>3. \/ server = "open" /\ server' = "closing" /\ stopper'.pc = "draining"
        \/ server = "none" /\ server' = "none" /\ stopper'.pc = "drained"
    BY <1>2, <2>1 DEF Stop, StopperAt, TypeOK, Drainage
  <2> QED
    BY <2>1, <2>2, <2>3 DEF Drainage
<1>3. CASE Timeout
  <2>1. timedOut' = TRUE /\ server' = "forced" /\ stopper'.pc = "drained"
    BY <1>3 DEF Timeout, StopperAt, TypeOK
  <2> QED
    BY <2>1 DEF Drainage
<1>4. CASE Unsubscribes
  <2>1. UNCHANGED <<server, http, upgrading, sockets, leaving, timedOut>> /\ stopper.pc = "unsubscribing"
        /\ stopper'.pc = "closing" /\ (subscribed' => "unsubscribe" \in Failures)
    BY <1>4 DEF Unsubscribes, work
  <2>2. Idle' = Idle
    BY <2>1 DEF Idle
  <2> QED
    BY <2>1, <2>2 DEF Drainage
<1> QED
  BY <1>1, <1>2, <1>3, <1>4 DEF StopStep

LEMMA StepKeepsIInv ==
  ASSUME EarlyStop = FALSE, IInv, [Next]_vars
  PROVE  IInv'
<1> USE DEF IInv
<1>1. CASE (\E serves \in BOOLEAN : Listen(serves)) \/ StartStep \/ HookFails \/ BindFails \/ SubscribeFails
  BY <1>1, StarterTyped, StarterKeepsPhase, StarterKeepsDrainage
<1>2. CASE Arrives \/ Answered \/ Upgraded \/ PeerCloses \/ Left
  <2>1. UNCHANGED <<state, starter, stopper, open, cleanups, closings>>
    BY <1>2 DEF Arrives, Answered, Upgraded, PeerCloses, Left
  <2> QED
    BY <1>2, <2>1, ServingTyped, OthersKeepPhase, ServingKeepsDrainage
<1>3. CASE StopUnstarted \/ Stop \/ StopStep
  BY <1>3, StopperTyped, StopperKeepsPhase, StopperKeepsDrainage
<1>4. CASE UNCHANGED vars
  <2>1. TypeInv' /\ Drainage'
    BY <1>4 DEF TypeInv, TypeOK, LoadFits, HookKnown, Drainage, Idle, vars, work
  <2>2. Phase'
    BY <1>4, OthersKeepPhase DEF vars
  <2> QED
    BY <2>1, <2>2
<1> QED
  BY <1>1, <1>2, <1>3, <1>4 DEF Next

LEMMA IInvariance ==
  ASSUME EarlyStop = FALSE
  PROVE  Spec => []IInv
<1>1. Init => IInv
  <2>1. Init => Phase /\ Drainage
    BY InitHolds
  <2>2. Init => TypeInv
    BY InitTyped
  <2> QED
    BY <2>1, <2>2 DEF IInv
<1>2. IInv /\ [Next]_vars => IInv'
  BY StepKeepsIInv
<1> QED
  BY <1>1, <1>2, PTL DEF Spec

-----------------------------------------------------------------------------
\* The theorems.

\* Every variable keeps its type, early stop() calls and all.
THEOREM TypeCorrect == Spec => []TypeOK
<1>1. TypeInv => TypeOK
  BY DEF TypeInv
<1> QED
  BY <1>1, TypeInvariance, PTL

\* Whichever step fails on the way up and whichever hook throws on the way down, no hook
\* runs twice and an app that stopped left nothing open, unless stop() was called while
\* listen() was under way (app.ts, listen, run and stop; lifecycle.ts).
THEOREM ClosedCorrect == EarlyStop = FALSE => (Spec => []ClosedExactlyOnce)
<1> SUFFICES ASSUME EarlyStop = FALSE PROVE Spec => []ClosedExactlyOnce
  OBVIOUS
<1>n. Built \in Nat /\ Top \in Nat /\ Built < Top
  BY ResourcesAssumption
<1>1. IInv => ClosedOnce
  <2> SUFFICES ASSUME IInv PROVE ClosedOnce
    OBVIOUS
  <2>1. \A k : Up(k) \/ Going(k) => ClosedOnce
    BY DEF Up, Going, ClosedOnce
  <2> QED
    BY <2>1 DEF IInv, Phase, Fresh, Starting, Undoing, Serving, Unwinding, Closing, Ended
<1>2. IInv => NothingLeftOpen
  <2> SUFFICES ASSUME IInv PROVE NothingLeftOpen
    OBVIOUS
  <2>1. CASE Fresh
    BY <1>n, <2>1 DEF Fresh, Up, NothingLeftOpen
  <2>2. CASE Ended
    <3>1. PICK m \in {0, Built} : Going(m) /\ (starter.pc = "listening" => m = 0)
      BY <2>2 DEF Ended
    <3>2. (1 .. m) \cap (Built + 1 .. Top) = {}
      BY <1>n, <3>1
    <3>3. m = 0 => (1 .. m) = {}
      OBVIOUS
    <3> QED
      BY <3>1, <3>2, <3>3 DEF Going, NothingLeftOpen
  <2>3. CASE Starting \/ Undoing \/ Serving \/ Unwinding \/ Closing
    BY <2>3 DEF Starting, Undoing, Serving, Unwinding, Closing, NothingLeftOpen
  <2> QED
    BY <2>1, <2>2, <2>3 DEF IInv, Phase
<1> QED
  BY <1>1, <1>2, IInvariance, PTL DEF ClosedExactlyOnce

\* The resource a step closes is the last one of those still to be closed.
LEMMA ClosesTheLast ==
  ASSUME TypeOK, Phase, StarterRunsHook \/ StopperRunsHook
  PROVE  \E m \in 1 .. Top : Going(m) /\ RunsHook(m)
<1>n. Built \in Nat /\ Top \in Nat /\ Built < Top
  BY ResourcesAssumption
<1>1. ASSUME NEW base \in Nat, NEW m \in base .. Top, NEW todo, todo = Down(m, base), todo # <<>>,
             Going(m), RunsHook(Head(todo))
      PROVE  m \in 1 .. Top /\ RunsHook(m)
  <2>1. m - 1 \in base .. Top /\ Head(todo) = m
    BY <1>1, NextHook
  <2> QED
    BY <1>n, <1>1, <2>1
<1>2. CASE StarterRunsHook
  <2>1. CASE starter.pc = "undoing"
    <3>1. PICK m \in Built .. Top : starter.todo = Down(m, Built) /\ Going(m)
      BY <2>1, WhereItIs DEF Undoing
    <3> QED
      BY <1>n, <1>1, <1>2, <3>1 DEF StarterRunsHook
  <2>2. CASE starter.pc = "unwinding"
    <3>1. PICK m \in 0 .. Top : starter.todo = Down(m, 0) /\ Going(m)
      BY <2>2, WhereItIs DEF Unwinding
    <3> QED
      BY <1>n, <1>1, <1>2, <3>1 DEF StarterRunsHook
  <2> QED
    BY <1>2, <2>1, <2>2 DEF StarterRunsHook
<1>3. CASE StopperRunsHook
  <2>1. PICK m \in 0 .. Top : stopper.todo = Down(m, 0) /\ Going(m)
    BY <1>3, WhereItIs DEF StopperRunsHook, Closing
  <2> QED
    BY <1>n, <1>1, <1>3, <2>1 DEF StopperRunsHook
<1> QED
  BY <1>2, <1>3

\* On every way down a resource is closed only when those opened after it are, or could
\* not be (lifecycle.ts, runAll and runShutdownHooks).
THEOREM OrderCorrect == EarlyStop = FALSE => (Spec => ClosedInOrder)
<1> SUFFICES ASSUME EarlyStop = FALSE PROVE Spec => ClosedInOrder
  OBVIOUS
<1> DEFINE InOrder == \A r \in Resources : r \in open /\ r \notin open' =>
                         \A later \in open : later > r => later \in Faulty
<1>1. IInv /\ [Next]_vars => InOrder
  <2> SUFFICES ASSUME IInv, [Next]_vars, NEW r \in Resources, r \in open, r \notin open',
                      NEW later \in open, later > r
               PROVE  later \in Faulty
    OBVIOUS
  <2>1. StarterRunsHook \/ StopperRunsHook
    BY DEF Next, Listen, StartStep, HookDone, Undone, Bind, Unwound, Subscribed, HookFails, BindFails,
           SubscribeFails, Arrives, Answered, Upgraded, PeerCloses, Left, StopUnstarted, Stop, StopStep,
           Drained, Timeout, DrainHooks, Unsubscribes, Stopped, vars
  <2>2. PICK m \in 1 .. Top : Going(m) /\ RunsHook(m)
    BY <2>1, ClosesTheLast DEF IInv, TypeInv
  <2>3. r = m
    BY <2>2 DEF RunsHook
  <2>4. Top \in Nat
    BY ResourcesAssumption
  <2>5. later \notin 1 .. m
    BY <2>3, <2>4
  <2> QED
    BY <2>2, <2>5 DEF Going
<1>2. [][InOrder]_vars => ClosedInOrder
  BY PTL DEF ClosedInOrder
<1> QED
  BY <1>1, <1>2, IInvariance, PTL DEF Spec

\* stop() closes nothing before requests and sockets are gone or the timeout came, and
\* not while messages still arrive, unless unsubscribing failed (app.ts, stop).
THEOREM DrainCorrect == EarlyStop = FALSE => (Spec => ClosedAfterDrain)
<1> SUFFICES ASSUME EarlyStop = FALSE PROVE Spec => ClosedAfterDrain
  OBVIOUS
<1>1. IInv /\ [Next]_vars => (StopperRunsHook => (Idle \/ timedOut) /\ (subscribed => "unsubscribe" \in Failures))
  BY DEF IInv, Drainage, StopperRunsHook
<1> QED
  BY <1>1, IInvariance, PTL DEF Spec, ClosedAfterDrain

-----------------------------------------------------------------------------
-----------------------------------------------------------------------------
\* Requests.

\* A response has its four parts, and headers by name.
Answer(r) ==
  /\ r = [status |-> r.status, headers |-> r.headers, body |-> r.body, reveals |-> r.reveals]
  /\ r.headers = [name \in DOMAIN r.headers |-> r.headers[name]]

Bears(r, name) == name \in DOMAIN r.headers

\* The layers entered when the request came as far as layer d.
EnteredTo(d) == [n \in 1 .. 7 |-> IF n <= d THEN 1 ELSE 0]

\* What layer n sees of a response to q, when layer d was the innermost that ran.
Carries(s, q, r, n, d) ==
  /\ r.reveals => s.exposeErrors
  /\ Bears(r, "allow-origin") => (s.cors = "*" \/ q.origin = "listed") /\ n <= 2 /\ d >= 3
  /\ Bears(r, "allow-credentials") => Bears(r, "allow-origin") /\ r.headers["allow-origin"] # "*"
  /\ n <= 2 /\ d >= 3 /\ q.origin # "none" /\ s.cors # "*" => Bears(r, "vary")
  /\ n >= 2 => ~ Bears(r, "hsts")
  /\ n <= 1 /\ d >= 2 => Bears(r, "csp") /\ (Bears(r, "hsts") <=> q.secure)
  /\ d = 1 => q.declared /\ q.size > MaxBody

\* Before the request; on its way in, to a layer; on its way out again; and answered.
NotYet ==
  /\ request = NoIncoming /\ at = 0 /\ entered = EnteredTo(0) /\ ~ upgraded /\ response = NoResponse
GoesIn ==
  /\ request \in Incoming /\ at \in 1 .. 7 /\ inward /\ entered = EnteredTo(at) /\ ~ upgraded
  /\ response = NoResponse
  /\ at >= 2 => limit <= MaxBody
  /\ at = 7 => limit <= RouteLimit
GoesOut ==
  /\ request \in Incoming /\ at \in 0 .. 6 /\ ~ inward
  /\ upgraded => isAllowedOrigin
  /\ \E d \in at + 1 .. 7 : entered = EnteredTo(d) /\ Carries(settings, request, response, at, d)
IsOver ==
  /\ request \in Incoming /\ at = 8
  /\ \E d \in 1 .. 7 : entered = EnteredTo(d) /\ (~ upgraded => Carries(settings, request, response, 0, d))
  /\ InFull
  /\ response.reveals => settings.exposeErrors

RequestsTypeOK ==
  /\ settings \in Settings /\ request \in Incoming \cup {NoIncoming}
  /\ at \in 0 .. 8 /\ inward \in BOOLEAN /\ Answer(response)
  /\ limit \in Nat /\ jar \subseteq {4, 6, 7} /\ upgraded \in BOOLEAN /\ taken \in Nat

RequestsInv ==
  /\ RequestsTypeOK
  /\ taken <= MaxBody /\ taken <= RouteLimit
  /\ NotYet \/ GoesIn \/ GoesOut \/ IsOver

LEMMA SevenLayers == Len(Layers) = 7 /\ DOMAIN Layers = 1 .. 7
BY DEF Layers

LEMMA IncomingFacts ==
  /\ MaxBody \in Nat /\ RouteLimit \in Nat /\ NoIncoming \notin Incoming
  /\ \A q \in Incoming : q.size \in Nat /\ q.secure \in BOOLEAN /\ q.declared \in BOOLEAN
  /\ \A s \in Settings : s.exposeErrors \in BOOLEAN
BY RequestsAssumption DEF NoIncoming

\* Responses.
LEMMA HeaderAdded ==
  ASSUME NEW r, Answer(r), NEW name, NEW value
  PROVE  /\ Answer(withHeader(r, name, value))
         /\ withHeader(r, name, value).status = r.status
         /\ withHeader(r, name, value).body = r.body
         /\ withHeader(r, name, value).reveals = r.reveals
         /\ \A x : Bears(withHeader(r, name, value), x) <=> (Bears(r, x) \/ x = name)
         /\ withHeader(r, name, value).headers[name] = value
         /\ \A x : Bears(r, x) /\ x # name => withHeader(r, name, value).headers[x] = r.headers[x]
<1> DEFINE h == [x \in {name} \cup DOMAIN r.headers |-> IF x = name THEN value ELSE r.headers[x]]
           t == withHeader(r, name, value)
<1>2. DOMAIN h = {name} \cup DOMAIN r.headers /\ h = [x \in DOMAIN h |-> h[x]]
  OBVIOUS
<1>3. h[name] = value /\ \A x \in DOMAIN r.headers : x # name => h[x] = r.headers[x]
  OBVIOUS
<1> HIDE DEF h
<1>4. t = [r EXCEPT !.headers = h]
  BY DEF withHeader, h
<1>5. t = [status |-> r.status, headers |-> h, body |-> r.body, reveals |-> r.reveals]
  BY <1>4 DEF Answer
<1> HIDE DEF t
<1>6. Answer(t) /\ t.status = r.status /\ t.body = r.body /\ t.reveals = r.reveals /\ t.headers = h
  BY <1>2, <1>5 DEF Answer
<1> QED
  BY <1>2, <1>3, <1>6 DEF Bears, t

\* An answer that no layer of the framework has dressed.
Bare(s, r) == Answer(r) /\ (r.reveals => s.exposeErrors) /\ DOMAIN r.headers \subseteq {"csp"}

LEMMA PlainBare ==
  ASSUME NEW status
  PROVE  /\ Answer(Plain(status)) /\ Plain(status).reveals = FALSE /\ DOMAIN Plain(status).headers = {}
         /\ \A s : Bare(s, Plain(status))
<1>1. DOMAIN <<>> = {} /\ <<>> = [x \in DOMAIN <<>> |-> <<>>[x]]
  OBVIOUS
<1>2. /\ Plain(status) = [status |-> status, headers |-> <<>>, body |-> status # 204, reveals |-> FALSE]
  BY DEF Plain
<1> QED
  BY <1>1, <1>2 DEF Answer, Bare

LEMMA ErrorsBare ==
  ASSUME NEW error, NEW r \in handleError(error)
  PROVE  Bare(settings, r)
<1>1. CASE r = errorResponse(error)
  <2> DEFINE p == Plain(error.status)
             tells == error.status >= 500 /\ settings.exposeErrors
  <2>1. Answer(p) /\ DOMAIN p.headers = {}
    BY PlainBare
  <2>2. r = [p EXCEPT !.reveals = tells]
    BY <1>1 DEF errorResponse
  <2>3. tells => settings.exposeErrors
    OBVIOUS
  <2> HIDE DEF p, tells
  <2>4. r = [status |-> p.status, headers |-> p.headers, body |-> p.body, reveals |-> tells]
    BY <2>1, <2>2 DEF Answer
  <2> QED
    BY <2>1, <2>3, <2>4 DEF Answer, Bare
<1>2. CASE r # errorResponse(error)
  <2>1. \E explicit, fallback : r = BuiltFrom(explicit, fallback)
    BY <1>2 DEF handleError
  <2>2. \E status : r = Plain(status)
    BY <2>1 DEF BuiltFrom
  <2> QED
    BY <2>2, PlainBare
<1> QED
  BY <1>1, <1>2

LEMMA RepliesBare ==
  ASSUME NEW r \in HandlerReplies
  PROVE  Bare(settings, r)
<1>1. CASE r = withHeader(Plain(200), "csp", "own")
  <2> DEFINE p == Plain(200)
             t == withHeader(p, "csp", "own")
  <2>p. Answer(p) /\ p.reveals = FALSE
    BY PlainBare
  <2> HIDE DEF p
  <2>q. Answer(t) /\ t.reveals = p.reveals /\ \A x : Bears(t, x) <=> (Bears(p, x) \/ x = "csp")
    BY <2>p, HeaderAdded
  <2> HIDE DEF t
  <2>1. /\ Answer(r) /\ r.reveals = FALSE
        /\ \A x : Bears(r, x) <=> (Bears(p, x) \/ x = "csp")
    BY <1>1, <2>p, <2>q DEF p, t
  <2> USE DEF p
  <2>2. \A x : Bears(Plain(200), x) => FALSE
    BY PlainBare DEF Bears
  <2> QED
    BY <2>1, <2>2 DEF Bears, Bare
<1>2. CASE r # withHeader(Plain(200), "csp", "own")
  <2>1. \E explicit, fallback : r = BuiltFrom(explicit, fallback)
    BY <1>2 DEF HandlerReplies
  <2>2. \E status : r = Plain(status)
    BY <2>1 DEF BuiltFrom
  <2> QED
    BY <2>2, PlainBare
<1> QED
  BY <1>1, <1>2

\* Below the layer that answers across origins nothing else is asked of a response.
LEMMA BareCarries ==
  ASSUME NEW s, NEW q, NEW r, Bare(s, r), NEW n \in 3 .. 7, NEW d \in 4 .. 7
  PROVE  Carries(s, q, r, n, d)
BY DEF Bare, Carries, Bears


LEMMA WhereAt ==
  ASSUME RequestsInv, at \in 1 .. 7
  PROVE  request \in Incoming /\ (inward => GoesIn) /\ (~ inward => GoesOut)
BY DEF RequestsInv, NotYet, GoesIn, GoesOut, IsOver, RequestsTypeOK

\* The answer of layer "at" is on its way out.
LEMMA OutSound ==
  ASSUME RequestsInv, at \in 1 .. 7, NEW r, Respond(r), Answer(r),
         NEW d \in at .. 7, entered = EnteredTo(d), Carries(settings, request, r, at - 1, d),
         limit' \in Nat, jar' \subseteq {4, 6, 7}, upgraded' \in BOOLEAN, upgraded' => isAllowedOrigin,
         taken' \in Nat, taken' <= MaxBody, taken' <= RouteLimit
  PROVE  RequestsInv'
<1>1. request \in Incoming
  BY WhereAt
<1>2. /\ at' = at - 1 /\ inward' = FALSE /\ response' = r /\ settings' = settings /\ request' = request
      /\ entered' = entered
  BY DEF Respond
<1>3. RequestsTypeOK'
  <2>1. Answer(response')
    BY <1>2
  <2>2. settings' \in Settings
    BY <1>2 DEF RequestsInv, RequestsTypeOK
  <2>3. request' \in Incoming /\ at' \in 0 .. 8
    BY <1>1, <1>2
  <2>4. inward' \in BOOLEAN
    BY <1>2
  <2> QED
    BY <2>1, <2>2, <2>3, <2>4 DEF RequestsTypeOK, Answer
<1>4. GoesOut'
  <2>1. entered' = EnteredTo(d) /\ Carries(settings', request', response', at', d) /\ d \in at' + 1 .. 7
    BY <1>2
  <2>2. upgraded' => isAllowedOrigin'
    BY <1>2 DEF isAllowedOrigin
  <2>3. request' \in Incoming /\ at' \in 0 .. 6 /\ ~ inward'
    BY <1>1, <1>2
  <2> QED
    BY <2>1, <2>2, <2>3 DEF GoesOut
<1> QED
  BY <1>3, <1>4 DEF RequestsInv

\* The request goes one layer further.
LEMMA InSound ==
  ASSUME RequestsInv, at \in 1 .. 6, inward, Inwards, UNCHANGED <<jar, taken>>, limit' \in Nat,
         limit' <= MaxBody, at = 6 => limit' <= RouteLimit
  PROVE  RequestsInv'
<1>1. GoesIn /\ request \in Incoming
  BY WhereAt
<1>2. /\ at' = at + 1 /\ inward' = TRUE /\ response' = response /\ settings' = settings /\ request' = request
      /\ upgraded' = upgraded /\ entered' = [entered EXCEPT ![at + 1] = @ + 1]
  BY DEF Inwards
<1>3. entered' = EnteredTo(at + 1)
  <2>1. entered = [n \in 1 .. 7 |-> IF n <= at THEN 1 ELSE 0]
    BY <1>1 DEF GoesIn, EnteredTo
  <2>2. at + 1 \in 1 .. 7 /\ entered[at + 1] = 0
    BY <2>1
  <2>a. entered' = [entered EXCEPT ![at + 1] = entered[at + 1] + 1]
    BY <1>2
  <2>b. entered' = [entered EXCEPT ![at + 1] = 1]
    BY <2>a, <2>2
  <2>3. entered' = [n \in 1 .. 7 |-> IF n = at + 1 THEN 1 ELSE IF n <= at THEN 1 ELSE 0]
    BY <2>b, <2>1
  <2>4. \A n \in 1 .. 7 : (IF n = at + 1 THEN 1 ELSE IF n <= at THEN 1 ELSE 0) = IF n <= at + 1 THEN 1 ELSE 0
    BY <2>2
  <2> QED
    BY <2>3, <2>4 DEF EnteredTo
<1>4. RequestsTypeOK'
  BY <1>1, <1>2 DEF RequestsInv, RequestsTypeOK, Answer
<1>5. GoesIn'
  BY <1>1, <1>2, <1>3 DEF GoesIn, EnteredTo
<1> QED
  BY <1>2, <1>4, <1>5 DEF RequestsInv

\* Whatever a layer below the framework's answers itself.
LEMMA BareOut ==
  ASSUME RequestsInv, at \in 4 .. 7, NEW r, Respond(r), Bare(settings, r), UNCHANGED jar, limit' = limit \/ (limit' \in Nat /\ inward),
         upgraded' = upgraded \/ (upgraded' \in BOOLEAN /\ isAllowedOrigin), UNCHANGED taken
  PROVE  RequestsInv'
<1>1. PICK d \in at .. 7 : entered = EnteredTo(d)
  <2>1. CASE inward
    BY <2>1, WhereAt DEF GoesIn
  <2>2. CASE ~ inward
    BY <2>2, WhereAt DEF GoesOut
  <2> QED
    BY <2>1, <2>2 DEF RequestsInv, RequestsTypeOK
<1>2. upgraded => isAllowedOrigin
  BY WhereAt DEF GoesIn, GoesOut, RequestsInv, RequestsTypeOK
<1>3. at - 1 \in 3 .. 7 /\ d \in 4 .. 7
  OBVIOUS
<1>4. Carries(settings, request, r, at - 1, d)
  BY <1>3, BareCarries
<1>5. /\ limit' \in Nat /\ jar' \subseteq {4, 6, 7} /\ upgraded' \in BOOLEAN
      /\ (upgraded' => isAllowedOrigin)
  BY <1>2 DEF RequestsInv, RequestsTypeOK
<1>6. taken' \in Nat /\ taken' <= MaxBody /\ taken' <= RouteLimit
  BY DEF RequestsInv, RequestsTypeOK
<1>7. Answer(r)
  BY DEF Bare
<1>8. at \in 1 .. 7
  OBVIOUS
<1> QED
  BY <1>1, <1>4, <1>5, <1>6, <1>7, <1>8, OutSound

\* What it throws.
LEMMA ThrownOut ==
  ASSUME RequestsInv, at \in 4 .. 7, NEW error, Throw(error), UNCHANGED jar, limit' = limit \/ (limit' \in Nat /\ inward),
         UNCHANGED upgraded, UNCHANGED taken
  PROVE  RequestsInv'
<1>1. PICK r \in handleError(error) : Respond(r)
  BY DEF Throw
<1>2. Bare(settings, r)
  BY ErrorsBare
<1> QED
  BY <1>1, <1>2, BareOut

\* An answer that a layer hands on.
LEMMA HandedOn ==
  ASSUME RequestsInv, at \in {1, 4, 5, 6}, ~ inward, Returns(response)
  PROVE  RequestsInv'
<1>1. PICK d \in at + 1 .. 7 : entered = EnteredTo(d) /\ Carries(settings, request, response, at, d)
  BY WhereAt DEF GoesOut
<1>2. Carries(settings, request, response, at - 1, d)
  BY <1>1 DEF Carries
<1>3. d \in at .. 7 /\ Answer(response) /\ (upgraded => isAllowedOrigin)
  BY WhereAt DEF GoesOut, RequestsInv, RequestsTypeOK
<1>4. Respond(response) /\ UNCHANGED <<limit, jar, upgraded, taken>>
  BY DEF Returns
<1> QED
  BY <1>1, <1>2, <1>3, <1>4, OutSound DEF RequestsInv, RequestsTypeOK

-----------------------------------------------------------------------------
LEMMA UnlessNamed ==
  ASSUME NEW r, Answer(r), NEW name, NEW value
  PROVE  /\ Answer(Unless(r, name, value)) /\ Unless(r, name, value).reveals = r.reveals
         /\ \A x : Bears(Unless(r, name, value), x) <=> (Bears(r, x) \/ x = name)
         /\ \A x : Bears(r, x) => Unless(r, name, value).headers[x] = r.headers[x]
<1>1. CASE Bears(r, name)
  <2>1. Unless(r, name, value) = r
    BY <1>1 DEF Unless, Bears
  <2> QED
    BY <1>1, <2>1
<1>2. CASE ~ Bears(r, name)
  <2>1. Unless(r, name, value) = withHeader(r, name, value)
    BY <1>2 DEF Unless, Bears
  <2> DEFINE t == withHeader(r, name, value)
  <2>2. /\ Answer(t) /\ t.reveals = r.reveals
        /\ \A x : Bears(t, x) <=> (Bears(r, x) \/ x = name)
        /\ \A x : Bears(r, x) /\ x # name => t.headers[x] = r.headers[x]
    BY HeaderAdded
  <2> HIDE DEF t
  <2>3. \A x : Bears(r, x) => x # name
    BY <1>2
  <2>4. Unless(r, name, value) = t
    BY <2>1 DEF t
  <2> QED
    BY <2>2, <2>3, <2>4
<1> QED
  BY <1>1, <1>2

LEMMA SharedNamed ==
  ASSUME NEW r, Answer(r)
  PROVE  /\ Answer(Shared(r)) /\ Shared(r).reveals = r.reveals
         /\ \A x : Bears(Shared(r), x) <=>
              (Bears(r, x) \/ x = "allow-origin" \/ (x = "allow-credentials" /\ settings.cors = "credentials"))
         /\ Shared(r).headers["allow-origin"] = IF settings.cors = "*" THEN "*" ELSE request.origin
<1> DEFINE value == IF settings.cors = "*" THEN "*" ELSE request.origin
           to == withHeader(r, "allow-origin", value)
           both == withHeader(to, "allow-credentials", "true")
<1>1. /\ Answer(to) /\ to.reveals = r.reveals
      /\ \A x : Bears(to, x) <=> (Bears(r, x) \/ x = "allow-origin")
      /\ to.headers["allow-origin"] = value
  BY HeaderAdded
<1>2. Shared(r) = IF settings.cors = "credentials" THEN both ELSE to
  BY DEF Shared
<1> HIDE DEF to, value
<1>3. /\ Answer(both) /\ both.reveals = to.reveals
      /\ \A x : Bears(both, x) <=> (Bears(to, x) \/ x = "allow-credentials")
      /\ \A x : Bears(to, x) /\ x # "allow-credentials" => both.headers[x] = to.headers[x]
  BY <1>1, HeaderAdded
<1> HIDE DEF both
<1>4. both.headers["allow-origin"] = value
  <2>1. Bears(to, "allow-origin") /\ "allow-origin" # "allow-credentials"
    BY <1>1
  <2> QED
    BY <1>1, <1>3, <2>1
<1>5. CASE settings.cors = "credentials"
  <2>1. Shared(r) = both
    BY <1>2, <1>5
  <2>2. \A x : Bears(both, x) <=> (Bears(r, x) \/ x = "allow-origin" \/ x = "allow-credentials")
    BY <1>1, <1>3
  <2>3. both.reveals = r.reveals
    BY <1>1, <1>3
  <2> QED
    BY <1>3, <1>4, <1>5, <2>1, <2>2, <2>3 DEF value
<1>6. CASE settings.cors # "credentials"
  <2>1. Shared(r) = to
    BY <1>2, <1>6
  <2> QED
    BY <1>1, <1>6, <2>1 DEF value
<1> QED
  BY <1>5, <1>6

-----------------------------------------------------------------------------
\* The steps of a request.
LEMMA ReceiveSound ==
  ASSUME RequestsInv, NEW q \in Incoming, Receive(q)
  PROVE  RequestsInv'
<1>1. NotYet
  BY IncomingFacts DEF RequestsInv, NotYet, GoesIn, GoesOut, IsOver, Receive
<1>2. /\ request' = q /\ at' = 1 /\ inward' = TRUE /\ response' = response /\ limit' = Unbounded /\ jar' = {}
      /\ upgraded' = FALSE /\ taken' = 0 /\ settings' = settings
  BY <1>1 DEF Receive, NotYet
<1>3. entered' = EnteredTo(1)
  <2>1. entered' = [n \in 1 .. 7 |-> IF n = 1 THEN 1 ELSE 0]
    BY SevenLayers DEF Receive
  <2>2. \A n \in 1 .. 7 : (IF n = 1 THEN 1 ELSE 0) = IF n <= 1 THEN 1 ELSE 0
    OBVIOUS
  <2> QED
    BY <2>1, <2>2 DEF EnteredTo
<1>4. Unbounded \in Nat /\ taken' <= MaxBody /\ taken' <= RouteLimit
  BY <1>2, IncomingFacts DEF Unbounded
<1>5. RequestsTypeOK'
  <2>1. Answer(response')
    BY <1>2 DEF RequestsInv, RequestsTypeOK
  <2>2. settings' \in Settings
    BY <1>2 DEF RequestsInv, RequestsTypeOK
  <2>3. request' \in Incoming /\ at' \in 0 .. 8 /\ limit' \in Nat /\ jar' \subseteq {4, 6, 7} /\ taken' \in Nat
    BY <1>2, <1>4
  <2>4. inward' \in BOOLEAN /\ upgraded' \in BOOLEAN
    BY <1>2
  <2> QED
    BY <2>1, <2>2, <2>3, <2>4 DEF RequestsTypeOK, Answer
<1>6. GoesIn'
  BY <1>1, <1>2, <1>3 DEF GoesIn, NotYet
<1> QED
  BY <1>2, <1>4, <1>5, <1>6 DEF RequestsInv

LEMMA LimitSound ==
  ASSUME RequestsInv, LimitBody(1, MaxBody)
  PROVE  RequestsInv'
<1>1. at = 1 /\ inward /\ GoesIn /\ request \in Incoming
  BY WhereAt DEF LimitBody, Layer
<1>2. jar' = jar /\ taken' = taken /\ limit' \in Nat /\ limit' <= MaxBody
  BY IncomingFacts DEF LimitBody, Lowered, RequestsInv, RequestsTypeOK
<1>3. CASE request.declared /\ request.size > MaxBody
  <2>1. Throw(HttpError(413)) /\ upgraded' = upgraded
    BY <1>3 DEF LimitBody
  <2>2. PICK r \in handleError(HttpError(413)) : Respond(r)
    BY <2>1 DEF Throw
  <2>3. Bare(settings, r)
    BY ErrorsBare
  <2>4. Answer(r) /\ Carries(settings, request, r, 0, 1)
    BY <1>3, <2>3 DEF Bare, Carries, Bears
  <2>5. /\ at - 1 = 0 /\ 1 \in at .. 7 /\ at \in 1 .. 7
        /\ entered = EnteredTo(1)
    BY <1>1 DEF GoesIn
  <2>6. Carries(settings, request, r, at - 1, 1)
    BY <2>4, <2>5
  <2>7. /\ limit' \in Nat /\ jar' \subseteq {4, 6, 7} /\ upgraded' \in BOOLEAN /\ (upgraded' => isAllowedOrigin)
        /\ taken' \in Nat /\ taken' <= MaxBody /\ taken' <= RouteLimit
    BY <1>1, <1>2, <2>1 DEF GoesIn, RequestsInv, RequestsTypeOK
  <2> QED
    BY <2>2, <2>4, <2>5, <2>6, <2>7, OutSound
<1>4. CASE ~ (request.declared /\ request.size > MaxBody)
  <2>1. Inwards
    BY <1>4 DEF LimitBody
  <2> QED
    BY <1>1, <1>2, <2>1, InSound
<1> QED
  BY <1>3, <1>4

LEMMA LimitPassed ==
  ASSUME RequestsInv, LimitBody(6, RouteLimit)
  PROVE  RequestsInv'
<1>1. at = 6 /\ inward /\ GoesIn
  BY WhereAt DEF LimitBody, Layer
<1>2. /\ jar' = jar /\ taken' = taken /\ limit' \in Nat
      /\ limit' <= MaxBody /\ limit' <= RouteLimit
  BY <1>1, IncomingFacts DEF LimitBody, Lowered, RequestsInv, RequestsTypeOK, GoesIn
<1>3. (Throw(HttpError(413)) /\ upgraded' = upgraded) \/ Inwards
  BY DEF LimitBody
<1>4. CASE Throw(HttpError(413)) /\ upgraded' = upgraded
  BY <1>1, <1>2, <1>4, ThrownOut
<1>5. CASE Inwards
  BY <1>1, <1>2, <1>5, InSound
<1> QED
  BY <1>3, <1>4, <1>5

LEMMA PassesSound ==
  ASSUME RequestsInv, at \in 2 .. 5, Passes
  PROVE  RequestsInv'
<1>1. GoesIn
  BY WhereAt DEF Passes
<1>2. limit' = limit /\ limit \in Nat /\ limit <= MaxBody
  BY <1>1 DEF Passes, GoesIn, RequestsInv, RequestsTypeOK
<1>3. inward /\ Inwards /\ UNCHANGED <<jar, taken>>
  BY DEF Passes
<1> QED
  BY <1>2, <1>3, InSound

\* A framework's layer answers something else than it was given.
LEMMA ReturnsSound ==
  ASSUME RequestsInv, at \in 2 .. 3, NEW r, Returns(r), Answer(r),
         NEW d \in at .. 7, entered = EnteredTo(d), Carries(settings, request, r, at - 1, d)
  PROVE  RequestsInv'
<1>1. upgraded => isAllowedOrigin
  BY WhereAt DEF GoesIn, GoesOut, RequestsInv, RequestsTypeOK
<1>2. /\ limit' \in Nat /\ jar' \subseteq {4, 6, 7} /\ upgraded' \in BOOLEAN /\ (upgraded' => isAllowedOrigin)
      /\ taken' \in Nat /\ taken' <= MaxBody /\ taken' <= RouteLimit
  BY <1>1 DEF Returns, RequestsInv, RequestsTypeOK
<1>3. Respond(r) /\ at \in 1 .. 7
  BY DEF Returns
<1> QED
  BY <1>2, <1>3, OutSound

LEMMA SecuritySound ==
  ASSUME RequestsInv, SecurityHeaders
  PROVE  RequestsInv'
<1>1. at = 2
  BY DEF SecurityHeaders, Layer
<1>2. CASE Passes
  BY <1>1, <1>2, PassesSound
<1>3. CASE ~ Passes
  <2> DEFINE r == Unless(response, "csp", "default")
             f == IF request.secure THEN Unless(r, "hsts", "default") ELSE r
  <2>1. ~ inward /\ Returns(f)
    BY <1>3 DEF SecurityHeaders
  <2>2. PICK d \in 3 .. 7 : entered = EnteredTo(d) /\ Carries(settings, request, response, 2, d)
    BY <1>1, <2>1, WhereAt DEF GoesOut
  <2>3. /\ Answer(r) /\ r.reveals = response.reveals
        /\ \A x : Bears(r, x) <=> (Bears(response, x) \/ x = "csp")
        /\ \A x : Bears(response, x) => r.headers[x] = response.headers[x]
    BY UnlessNamed DEF RequestsInv, RequestsTypeOK
  <2>4. ~ Bears(r, "hsts") /\ request.secure \in BOOLEAN
    BY <1>1, <2>2, <2>3, WhereAt, IncomingFacts DEF Carries
  <2> HIDE DEF r
  <2>5. LET t == Unless(r, "hsts", "default")
        IN /\ Answer(t) /\ t.reveals = r.reveals
           /\ \A x : Bears(t, x) <=> (Bears(r, x) \/ x = "hsts")
           /\ \A x : Bears(r, x) => t.headers[x] = r.headers[x]
    BY <2>3, UnlessNamed
  <2>6. /\ Answer(f) /\ f.reveals = r.reveals
        /\ \A x : Bears(f, x) <=> (Bears(r, x) \/ (x = "hsts" /\ request.secure))
        /\ \A x : Bears(r, x) => f.headers[x] = r.headers[x]
    BY <2>3, <2>4, <2>5
  <2> HIDE DEF f
  <2>7. /\ f.reveals = response.reveals
        /\ \A x : Bears(f, x) <=> (Bears(response, x) \/ x = "csp" \/ (x = "hsts" /\ request.secure))
        /\ \A x : Bears(response, x) => f.headers[x] = response.headers[x]
    BY <2>3, <2>6
  <2>8. Bears(f, "csp") /\ (Bears(f, "hsts") <=> request.secure)
    BY <2>4, <2>6, <2>7
  <2>9. /\ Bears(f, "allow-origin") <=> Bears(response, "allow-origin")
        /\ Bears(f, "allow-credentials") <=> Bears(response, "allow-credentials")
        /\ Bears(response, "vary") => Bears(f, "vary")
        /\ Bears(response, "allow-origin") => f.headers["allow-origin"] = response.headers["allow-origin"]
    BY <2>7
  <2>10. Carries(settings, request, f, 1, d)
    BY <2>2, <2>7, <2>8, <2>9 DEF Carries
  <2>11. Carries(settings, request, f, at - 1, d) /\ at \in 2 .. 3 /\ d \in at .. 7
    BY <1>1, <2>10
  <2> QED
    BY <2>1, <2>2, <2>6, <2>11, ReturnsSound
<1> QED
  BY <1>2, <1>3

LEMMA CorsSound ==
  ASSUME RequestsInv, Cors
  PROVE  RequestsInv'
<1> DEFINE allowed == request.origin # "none" /\ isAllowed(request.origin)
           varies == IF request.origin # "none" /\ settings.cors # "*" THEN withHeader(response, "vary", "origin") ELSE response
           asked == request.method = "OPTIONS" /\ request.origin # "none" /\ request.preflight
           reply == withHeader(Plain(204), "vary", "origin")
<1>1. at = 3 /\ request \in Incoming
  BY WhereAt DEF Cors, Layer
<1>2. \/ Passes
      \/ asked /\ inward /\ Returns(IF allowed THEN Shared(reply) ELSE reply)
      \/ ~ inward /\ Returns(IF allowed THEN Shared(varies) ELSE varies)
  BY Zenon DEF Cors
\* What is shared of an answer that names no origin yet.
<1>3. ASSUME NEW r, Answer(r), r.reveals => settings.exposeErrors, NEW d \in 3 .. 7, entered = EnteredTo(d),
             ~ Bears(r, "allow-origin"), ~ Bears(r, "allow-credentials"), ~ Bears(r, "hsts"),
             request.origin # "none" /\ settings.cors # "*" => Bears(r, "vary"),
             Returns(IF allowed THEN Shared(r) ELSE r)
      PROVE  RequestsInv'
  <2> DEFINE f == IF allowed THEN Shared(r) ELSE r
  <2>1. /\ Answer(Shared(r)) /\ Shared(r).reveals = r.reveals
        /\ \A x : Bears(Shared(r), x) <=>
             (Bears(r, x) \/ x = "allow-origin" \/ (x = "allow-credentials" /\ settings.cors = "credentials"))
        /\ Shared(r).headers["allow-origin"] = IF settings.cors = "*" THEN "*" ELSE request.origin
    BY <1>3, SharedNamed
  <2>2. CASE allowed
    <3>1. /\ Bears(Shared(r), "allow-origin")
          /\ Bears(Shared(r), "allow-credentials") => settings.cors = "credentials"
          /\ Bears(r, "vary") => Bears(Shared(r), "vary")
          /\ ~ Bears(Shared(r), "hsts")
      BY <1>3, <2>1
    <3>2. settings.cors = "*" \/ request.origin = "listed"
      BY <2>2 DEF isAllowed
    <3>3. settings.cors = "credentials" => Shared(r).headers["allow-origin"] # "*"
      BY <2>1, <3>2
    <3>4. Carries(settings, request, Shared(r), 2, d)
      BY <1>3, <2>1, <3>1, <3>2, <3>3 DEF Carries
    <3> QED
      BY <1>1, <1>3, <2>1, <2>2, <3>4, ReturnsSound
  <2>3. CASE ~ allowed
    <3>1. Carries(settings, request, r, 2, d)
      BY <1>3 DEF Carries
    <3> QED
      BY <1>1, <1>3, <2>3, <3>1, ReturnsSound
  <2> QED
    BY <2>2, <2>3
<1>4. CASE Passes
  BY <1>1, <1>4, PassesSound
<1>5. CASE asked /\ inward /\ Returns(IF allowed THEN Shared(reply) ELSE reply)
  <2>1. Answer(reply) /\ reply.reveals = FALSE /\ \A x : Bears(reply, x) <=> x = "vary"
    <3> DEFINE p == Plain(204)
    <3>1. Answer(p) /\ p.reveals = FALSE /\ \A x : ~ Bears(p, x)
      BY PlainBare DEF Bears
    <3> HIDE DEF p
    <3>2. LET t == withHeader(p, "vary", "origin")
          IN Answer(t) /\ t.reveals = p.reveals /\ \A x : Bears(t, x) <=> (Bears(p, x) \/ x = "vary")
      BY <3>1, HeaderAdded
    <3> QED
      BY <3>1, <3>2 DEF p
  <2>2. entered = EnteredTo(3)
    BY <1>1, <1>5, WhereAt DEF GoesIn
  <2> HIDE DEF allowed, reply, asked
  <2>3. /\ ~ Bears(reply, "allow-origin") /\ ~ Bears(reply, "allow-credentials") /\ ~ Bears(reply, "hsts")
        /\ Bears(reply, "vary")
    BY <2>1
  <2>4. Returns(IF allowed THEN Shared(reply) ELSE reply)
    BY <1>5
  <2>5. Answer(reply) /\ (reply.reveals => settings.exposeErrors) /\ 3 \in 3 .. 7
    BY <2>1
  <2> QED
    BY <1>3, <2>2, <2>3, <2>4, <2>5
<1>6. CASE ~ inward /\ Returns(IF allowed THEN Shared(varies) ELSE varies)
  <2>1. PICK d \in 4 .. 7 : entered = EnteredTo(d) /\ Carries(settings, request, response, 3, d)
    BY <1>1, <1>6, WhereAt DEF GoesOut
  <2>2. Answer(response)
    BY DEF RequestsInv, RequestsTypeOK
  <2>3. /\ Answer(varies) /\ varies.reveals = response.reveals
        /\ \A x : Bears(varies, x) <=> (Bears(response, x) \/ (x = "vary" /\ request.origin # "none" /\ settings.cors # "*"))
    <3>1. LET t == withHeader(response, "vary", "origin")
          IN Answer(t) /\ t.reveals = response.reveals /\ \A x : Bears(t, x) <=> (Bears(response, x) \/ x = "vary")
      BY <2>2, HeaderAdded
    <3> QED
      BY <2>2, <3>1
  <2> HIDE DEF varies, allowed
  <2>4. /\ response.reveals => settings.exposeErrors
        /\ ~ Bears(response, "allow-origin") /\ ~ Bears(response, "allow-credentials") /\ ~ Bears(response, "hsts")
    BY <2>1 DEF Carries
  <2>5. /\ ~ Bears(varies, "allow-origin") /\ ~ Bears(varies, "allow-credentials") /\ ~ Bears(varies, "hsts")
        /\ request.origin # "none" /\ settings.cors # "*" => Bears(varies, "vary")
    BY <2>3, <2>4
  <2>6. Answer(varies) /\ (varies.reveals => settings.exposeErrors) /\ d \in 3 .. 7 /\ entered = EnteredTo(d)
    BY <2>1, <2>3, <2>4
  <2>7. Returns(IF allowed THEN Shared(varies) ELSE varies)
    BY <1>6
  <2> QED
    BY <1>3, <2>5, <2>6, <2>7
<1> QED
  BY <1>2, <1>4, <1>5, <1>6

LEMMA ProgramSound ==
  ASSUME RequestsInv, NEW n \in OfProgram, Program(n)
  PROVE  RequestsInv'
<1>1. at \in {4, 6} /\ at = n
  BY DEF Program, Layer, OfProgram
<1>2. \/ n # 6 /\ Passes
      \/ ~ inward /\ (Returns(response) \/ NextAgain)
      \/ \E error \in Thrown : Throw(error) /\ UNCHANGED <<pending, limit, jar, upgraded, taken>>
      \/ Returns(Plain(200))
  BY Zenon DEF Program
<1>3. CASE n # 6 /\ Passes
  BY <1>1, <1>3, PassesSound
<1>4. CASE ~ inward /\ Returns(response)
  BY <1>1, <1>4, HandedOn
<1>5. CASE NextAgain
  BY <1>1, <1>5, ThrownOut DEF NextAgain
<1>6. CASE \E error \in Thrown : Throw(error) /\ UNCHANGED <<pending, limit, jar, upgraded, taken>>
  BY <1>1, <1>6, ThrownOut
<1>7. CASE Returns(Plain(200))
  <2>1. Bare(settings, Plain(200))
    BY PlainBare
  <2> QED
    BY <1>1, <1>7, <2>1, BareOut DEF Returns
<1> QED
  BY <1>2, <1>3, <1>4, <1>5, <1>6, <1>7

LEMMA RouteSound ==
  ASSUME RequestsInv, RunRoute
  PROVE  RequestsInv'
<1>1. at = 5
  BY DEF RunRoute, Layer
<1>2. \/ Passes
      \/ ~ inward /\ Returns(response)
      \/ Returns(Plain(204))
      \/ \E error : Throw(error) /\ UNCHANGED <<pending, limit, jar, upgraded, taken>>
  BY Zenon DEF RunRoute
<1>3. CASE Passes
  BY <1>1, <1>3, PassesSound
<1>4. CASE ~ inward /\ Returns(response)
  BY <1>1, <1>4, HandedOn
<1>5. CASE Returns(Plain(204))
  <2>1. Bare(settings, Plain(204))
    BY PlainBare
  <2> QED
    BY <1>1, <1>5, <2>1, BareOut DEF Returns
<1>6. CASE \E error : Throw(error) /\ UNCHANGED <<pending, limit, jar, upgraded, taken>>
  BY <1>1, <1>6, ThrownOut
<1> QED
  BY <1>2, <1>3, <1>4, <1>5, <1>6

\* A step in which the layer in control keeps it.
LEMMA StaySound ==
  ASSUME RequestsInv, at \in 4 .. 7, UNCHANGED <<settings, request, at, inward, response, limit, upgraded, entered>>,
         jar' \subseteq {4, 6, 7}, taken' \in Nat, taken' <= MaxBody, taken' <= RouteLimit
  PROVE  RequestsInv'
<1>1. RequestsTypeOK'
  <2>1. Answer(response')
    BY DEF RequestsInv, RequestsTypeOK
  <2>2. /\ settings' \in Settings /\ request' \in Incoming \cup {NoIncoming} /\ at' \in 0 .. 8
        /\ limit' \in Nat /\ jar' \subseteq {4, 6, 7} /\ taken' \in Nat
    BY DEF RequestsInv, RequestsTypeOK
  <2>3. inward' \in BOOLEAN /\ upgraded' \in BOOLEAN
    BY DEF RequestsInv, RequestsTypeOK
  <2> QED
    BY <2>1, <2>2, <2>3 DEF RequestsTypeOK, Answer
<1>2. CASE inward
  <2>1. GoesIn
    BY <1>2, WhereAt
  <2>2. GoesIn'
    BY <2>1 DEF GoesIn, EnteredTo
  <2> QED
    BY <1>1, <2>2 DEF RequestsInv
<1>3. CASE ~ inward
  <2>1. GoesOut
    BY <1>3, WhereAt
  <2>2. PICK d \in at + 1 .. 7 : entered = EnteredTo(d) /\ Carries(settings, request, response, at, d)
    BY <2>1 DEF GoesOut
  <2>3. d \in at' + 1 .. 7 /\ entered' = EnteredTo(d) /\ Carries(settings', request', response', at', d)
    BY <2>2
  <2>4. request' \in Incoming /\ at' \in 0 .. 6 /\ ~ inward' /\ (upgraded' => isAllowedOrigin')
    BY <2>1 DEF GoesOut, isAllowedOrigin
  <2>5. GoesOut'
    BY <2>3, <2>4 DEF GoesOut
  <2> QED
    BY <1>1, <2>5 DEF RequestsInv
<1> QED
  BY <1>2, <1>3

LEMMA HandlingSound ==
  ASSUME RequestsInv, SetsCookie \/ Reads \/ Handle \/ Upgrade
  PROVE  RequestsInv'
<1>1. taken \in Nat /\ taken <= MaxBody /\ taken <= RouteLimit /\ jar \subseteq {4, 6, 7} /\ limit \in Nat
  BY DEF RequestsInv, RequestsTypeOK
<1>2. CASE SetsCookie
  <2>1. /\ at \in {4, 6, 7} /\ jar' = jar \cup {at}
        /\ UNCHANGED <<settings, request, at, inward, response, limit, upgraded, entered, taken>>
    BY <1>2 DEF SetsCookie, OfProgram, Handling
  <2>2. jar' \subseteq {4, 6, 7}
    BY <1>1, <2>1
  <2> QED
    BY <1>1, <2>1, <2>2, StaySound
<1>3. CASE Reads
  <2>1. at = 7 /\ GoesIn
    BY <1>3, WhereAt DEF Reads, Layer, Handling, GoesOut
  <2>2. UNCHANGED <<limit, jar, upgraded>>
    BY <1>3 DEF Reads
  <2>3. CASE Throw(HttpError(413)) /\ UNCHANGED taken
    BY <2>1, <2>2, <2>3, ThrownOut
  <2>4. CASE taken' \in readLimited /\ UNCHANGED <<settings, request, at, inward, response, entered>>
    <3>1. taken' = request.size /\ ~ request.size > limit /\ request.size \in Nat
      BY <2>1, <2>4, IncomingFacts DEF readLimited, GoesIn
    <3>2. limit <= MaxBody /\ limit <= RouteLimit
      BY <2>1 DEF GoesIn
    <3>3. taken' \in Nat /\ taken' <= MaxBody /\ taken' <= RouteLimit
      BY <1>1, <3>1, <3>2, IncomingFacts
    <3> QED
      BY <1>1, <2>1, <2>2, <2>4, <3>3, StaySound
  <2> QED
    BY <1>3, <2>3, <2>4 DEF Reads
<1>4. CASE Handle
  <2>1. at = 7 /\ UNCHANGED <<limit, jar, upgraded, taken>>
    BY <1>4 DEF Handle, Layer, Handling
  <2>2. CASE UNCHANGED <<settings, request, at, inward, response, entered>>
    BY <1>1, <2>1, <2>2, StaySound
  <2>3. CASE \E r \in HandlerReplies : Respond(r)
    <3>1. PICK r \in HandlerReplies : Respond(r)
      BY <2>3
    <3>2. Bare(settings, r)
      BY RepliesBare
    <3> QED
      BY <2>1, <3>1, <3>2, BareOut
  <2>4. CASE \E error \in Thrown : Throw(error)
    BY <2>1, <2>4, ThrownOut
  <2> QED
    BY <1>4, <2>2, <2>3, <2>4 DEF Handle
<1>5. CASE Upgrade
  <2>1. at = 7 /\ UNCHANGED <<limit, jar, taken>>
    BY <1>5 DEF Upgrade, Layer, Handling
  <2>2. \/ \E error : Throw(error) /\ UNCHANGED upgraded
        \/ isAllowedOrigin /\ upgraded' = TRUE /\ Respond(Plain(200))
    BY <1>5, ZenonT(40) DEF Upgrade
  <2>3. CASE \E error : Throw(error) /\ UNCHANGED upgraded
    BY <2>1, <2>3, ThrownOut
  <2>4. CASE isAllowedOrigin /\ upgraded' = TRUE /\ Respond(Plain(200))
    <3>1. Bare(settings, Plain(200))
      BY PlainBare
    <3>2. upgraded' \in BOOLEAN
      BY <2>4
    <3> QED
      BY <2>1, <2>4, <3>1, <3>2, BareOut
  <2> QED
    BY <2>2, <2>3, <2>4
<1> QED
  BY <1>2, <1>3, <1>4, <1>5

LEMMA FinishSound ==
  ASSUME RequestsInv, Finish
  PROVE  RequestsInv'
<1> DEFINE cookies == IF jar = {} THEN response ELSE withHeader(response, "set-cookie", jar)
           short == IF request.method = "HEAD" THEN [cookies EXCEPT !.body = FALSE] ELSE cookies
           full == withHeader(short, "x-request-id", "id")
<1>1. GoesOut /\ at = 0 /\ Answer(response)
  BY SevenLayers, IncomingFacts DEF Finish, RequestsInv, NotYet, GoesIn, GoesOut, IsOver, RequestsTypeOK
<1>2. PICK d \in 1 .. 7 : entered = EnteredTo(d) /\ Carries(settings, request, response, 0, d)
  BY <1>1 DEF GoesOut
<1>3. response' = (IF upgraded THEN NoResponse ELSE full) /\ at' = 8
  BY SevenLayers DEF Finish
<1>4. UNCHANGED <<settings, request, inward, pending, limit, jar, upgraded, entered, taken>>
  BY DEF Finish
<1>5. /\ Answer(cookies) /\ cookies.reveals = response.reveals
      /\ \A x : Bears(cookies, x) <=> (Bears(response, x) \/ (x = "set-cookie" /\ jar # {}))
      /\ \A x : Bears(response, x) /\ x # "set-cookie" => cookies.headers[x] = response.headers[x]
      /\ jar # {} => cookies.headers["set-cookie"] = jar
  BY <1>1, HeaderAdded
<1> HIDE DEF cookies
<1>6. /\ Answer(short) /\ short.reveals = cookies.reveals /\ short.headers = cookies.headers
      /\ request.method = "HEAD" => short.body = FALSE
  <2>1. CASE request.method = "HEAD"
    <3>1. short = [status |-> cookies.status, headers |-> cookies.headers, body |-> FALSE, reveals |-> cookies.reveals]
      BY <1>5, <2>1 DEF Answer
    <3> HIDE DEF short
    <3> QED
      BY <1>5, <3>1 DEF Answer
  <2>2. CASE request.method # "HEAD"
    BY <1>5, <2>2
  <2> QED
    BY <2>1, <2>2
<1> HIDE DEF short
<1>7. /\ Answer(full) /\ full.reveals = short.reveals /\ full.body = short.body
      /\ \A x : Bears(full, x) <=> (Bears(short, x) \/ x = "x-request-id")
      /\ \A x : Bears(short, x) /\ x # "x-request-id" => full.headers[x] = short.headers[x]
  BY <1>6, HeaderAdded
<1> HIDE DEF full
<1>8. /\ \A x : Bears(full, x) <=>
           (Bears(response, x) \/ (x = "set-cookie" /\ jar # {}) \/ x = "x-request-id")
      /\ \A x : Bears(response, x) /\ x \notin {"set-cookie", "x-request-id"} => full.headers[x] = response.headers[x]
      /\ jar # {} => full.headers["set-cookie"] = jar
  <2>1. \A x : Bears(short, x) <=> Bears(cookies, x)
    BY <1>6 DEF Bears
  <2>2. \A x : Bears(full, x) <=> (Bears(response, x) \/ (x = "set-cookie" /\ jar # {}) \/ x = "x-request-id")
    BY <1>5, <1>7, <2>1
  <2>3. ASSUME NEW x, Bears(response, x), x \notin {"set-cookie", "x-request-id"}
        PROVE  full.headers[x] = response.headers[x]
    BY <1>5, <1>6, <1>7, <2>1, <2>3
  <2>4. jar # {} => full.headers["set-cookie"] = jar
    <3>1. jar # {} => Bears(short, "set-cookie") /\ "set-cookie" # "x-request-id"
      BY <1>5, <2>1
    <3> QED
      BY <1>5, <1>6, <1>7, <3>1
  <2> QED
    BY <2>2, <2>3, <2>4
<1>9. Carries(settings, request, full, 0, d)
  <2>1. /\ Bears(full, "allow-origin") <=> Bears(response, "allow-origin")
        /\ Bears(full, "allow-credentials") <=> Bears(response, "allow-credentials")
        /\ Bears(full, "vary") <=> Bears(response, "vary")
        /\ Bears(full, "hsts") <=> Bears(response, "hsts")
        /\ Bears(full, "csp") <=> Bears(response, "csp")
    BY <1>8
  <2>2. Bears(response, "allow-origin") => full.headers["allow-origin"] = response.headers["allow-origin"]
    BY <1>8
  <2>3. full.reveals = response.reveals
    BY <1>5, <1>6, <1>7
  <2> QED
    BY <1>2, <2>1, <2>2, <2>3 DEF Carries
<1>10. Answer(NoResponse) /\ NoResponse.reveals = FALSE
  <2>1. DOMAIN <<>> = {} /\ <<>> = [x \in DOMAIN <<>> |-> <<>>[x]]
    OBVIOUS
  <2>2. NoResponse = [status |-> 0, headers |-> <<>>, body |-> FALSE, reveals |-> FALSE]
    BY DEF NoResponse
  <2> QED
    BY <2>1, <2>2 DEF Answer
<1>11. Answer(response') /\ (response'.reveals => settings'.exposeErrors)
  <2>1. full.reveals => settings.exposeErrors
    BY <1>9 DEF Carries
  <2> QED
    BY <1>3, <1>4, <1>7, <1>10, <2>1
<1>12. InFull'
  <2>1. CASE upgraded
    <3>1. response' = NoResponse /\ isAllowedOrigin' /\ upgraded'
      BY <1>1, <1>3, <1>4, <2>1 DEF GoesOut, isAllowedOrigin
    <3> QED
      BY <3>1 DEF InFull
  <2>2. CASE ~ upgraded
    <3>1. response' = full /\ ~ upgraded'
      BY <1>3, <1>4, <2>2
    <3>2. Bears(full, "x-request-id") /\ (jar # {} => full.headers["set-cookie"] = jar)
      BY <1>8
    <3>3. request.method = "HEAD" => ~ full.body
      BY <1>6, <1>7
    <3> QED
      BY <1>4, <3>1, <3>2, <3>3 DEF InFull, Has, Bears
  <2> QED
    BY <2>1, <2>2
<1>13. IsOver'
  <2>1. ~ upgraded' => Carries(settings', request', response', 0, d)
    BY <1>3, <1>4, <1>9
  <2>2. request' \in Incoming /\ at' = 8 /\ entered' = EnteredTo(d)
    BY <1>1, <1>2, <1>3, <1>4 DEF GoesOut
  <2> QED
    BY <1>11, <1>12, <2>1, <2>2 DEF IsOver
<1>14. RequestsTypeOK'
  <2>1. /\ settings' \in Settings /\ request' \in Incoming \cup {NoIncoming} /\ at' \in 0 .. 8
        /\ limit' \in Nat /\ jar' \subseteq {4, 6, 7} /\ taken' \in Nat
    BY <1>3, <1>4 DEF RequestsInv, RequestsTypeOK
  <2>2. inward' \in BOOLEAN /\ upgraded' \in BOOLEAN
    BY <1>4 DEF RequestsInv, RequestsTypeOK
  <2> QED
    BY <1>11, <2>1, <2>2 DEF RequestsTypeOK, Answer
<1> QED
  BY <1>4, <1>13, <1>14 DEF RequestsInv

LEMMA RequestsStart == RequestsInit => RequestsInv
<1> SUFFICES ASSUME RequestsInit PROVE RequestsInv
  OBVIOUS
<1>1. entered = EnteredTo(0)
  <2>1. entered = [n \in 1 .. 7 |-> 0]
    BY SevenLayers DEF RequestsInit
  <2>2. \A n \in 1 .. 7 : (IF n <= 0 THEN 1 ELSE 0) = 0
    OBVIOUS
  <2> QED
    BY <2>1, <2>2 DEF EnteredTo
<1>2. Answer(NoResponse)
  <2>1. DOMAIN <<>> = {} /\ <<>> = [x \in DOMAIN <<>> |-> <<>>[x]]
    OBVIOUS
  <2>2. NoResponse = [status |-> 0, headers |-> <<>>, body |-> FALSE, reveals |-> FALSE]
    BY DEF NoResponse
  <2> QED
    BY <2>1, <2>2 DEF Answer
<1>3. Answer(response) /\ response = NoResponse
  BY <1>2 DEF RequestsInit
<1>4. /\ settings \in Settings /\ request \in Incoming \cup {NoIncoming} /\ at \in 0 .. 8
      /\ limit \in Nat /\ jar \subseteq {4, 6, 7} /\ taken \in Nat /\ taken <= MaxBody /\ taken <= RouteLimit
  BY IncomingFacts DEF RequestsInit, Unbounded
<1>5. inward \in BOOLEAN /\ upgraded \in BOOLEAN
  BY DEF RequestsInit
<1>6. NotYet
  BY <1>1, <1>3 DEF RequestsInit, NotYet
<1> QED
  BY <1>3, <1>4, <1>5, <1>6 DEF RequestsInv, RequestsTypeOK

LEMMA RequestsQuiet ==
  ASSUME RequestsInv, UNCHANGED requestVars
  PROVE  RequestsInv'
<1>1. UNCHANGED <<settings, request, at, inward, response, pending, limit, jar, upgraded, entered, taken>>
  BY DEF requestVars
<1>2. RequestsTypeOK'
  BY <1>1 DEF RequestsInv, RequestsTypeOK
<1>3. (NotYet \/ GoesIn \/ GoesOut \/ IsOver)'
  BY <1>1 DEF RequestsInv, NotYet, GoesIn, GoesOut, IsOver, EnteredTo, InFull, Has, isAllowedOrigin, Responded
<1> QED
  BY <1>1, <1>2, <1>3 DEF RequestsInv

LEMMA RequestsStep == RequestsInv /\ [RequestsNext]_requestVars => RequestsInv'
<1> SUFFICES ASSUME RequestsInv, [RequestsNext]_requestVars PROVE RequestsInv'
  OBVIOUS
<1>1. CASE UNCHANGED requestVars
  BY <1>1, RequestsQuiet
<1>2. CASE \E q \in Incoming : Receive(q)
  BY <1>2, ReceiveSound
<1>3. CASE LimitBody(1, MaxBody) \/ LimitBody(6, RouteLimit)
  BY <1>3, LimitSound, LimitPassed
<1>4. CASE Layer(1) /\ ~ inward /\ Returns(response)
  BY <1>4, HandedOn DEF Layer
<1>5. CASE SecurityHeaders \/ Cors \/ RunRoute \/ Finish
  BY <1>5, SecuritySound, CorsSound, RouteSound, FinishSound
<1>6. CASE SetsCookie \/ Reads \/ Handle \/ Upgrade
  BY <1>6, HandlingSound
<1>7. CASE \E n \in OfProgram : Program(n)
  BY <1>7, ProgramSound
<1> QED
  BY <1>1, <1>2, <1>3, <1>4, <1>5, <1>6, <1>7 DEF RequestsNext

-----------------------------------------------------------------------------
\* What the invariant says of answers.
LEMMA EnteredOnce ==
  ASSUME NEW d \in 0 .. 7, entered = EnteredTo(d)
  PROVE  OnlyOnce /\ \A n \in 1 .. 7 : entered[n] = 1 <=> n <= d
<1>1. \A n \in 1 .. 7 : entered[n] = IF n <= d THEN 1 ELSE 0
  BY DEF EnteredTo
<1> QED
  BY <1>1, SevenLayers DEF OnlyOnce

LEMMA RequestsMean == RequestsInv => OnlyOnce /\ InFull /\ Decorated /\ Hidden /\ WithinLimit
<1> SUFFICES ASSUME RequestsInv PROVE OnlyOnce /\ InFull /\ Decorated /\ Hidden /\ WithinLimit
  OBVIOUS
<1>1. OnlyOnce
  <2>1. \E d \in 0 .. 7 : entered = EnteredTo(d)
    BY DEF RequestsInv, NotYet, GoesIn, GoesOut, IsOver
  <2> QED
    BY <2>1, EnteredOnce
<1>2. WithinLimit
  BY DEF RequestsInv, WithinLimit
<1>3. Hidden
  <2>1. CASE NotYet \/ GoesIn
    <3>1. response.reveals = FALSE
      BY <2>1 DEF NotYet, GoesIn, NoResponse
    <3> QED
      BY <3>1 DEF Hidden
  <2>2. CASE GoesOut
    BY <2>2 DEF GoesOut, Carries, Hidden
  <2>3. CASE IsOver
    BY <2>3 DEF IsOver, Hidden
  <2> QED
    BY <2>1, <2>2, <2>3 DEF RequestsInv
<1>4. CASE ~ Responded
  BY <1>1, <1>2, <1>3, <1>4 DEF InFull, Decorated
<1>5. CASE Responded
  <2>1. IsOver
    BY <1>5, SevenLayers DEF Responded, RequestsInv, NotYet, GoesIn, GoesOut
  <2>2. InFull
    BY <2>1 DEF IsOver
  <2>3. Decorated
    <3>1. SUFFICES ASSUME ~ upgraded
                   PROVE  /\ entered[2] = 1 => Has("csp") /\ (Has("hsts") <=> request.secure)
                          /\ entered[2] = 0 => request.declared /\ request.size > MaxBody
                          /\ Has("allow-origin") => isAllowed(request.origin) /\ entered[3] = 1
                          /\ Has("allow-credentials") => Has("allow-origin") /\ response.headers["allow-origin"] # "*"
                          /\ entered[3] = 1 /\ request.origin # "none" /\ settings.cors # "*" => Has("vary")
      BY DEF Decorated
    <3>2. PICK d \in 1 .. 7 : entered = EnteredTo(d) /\ Carries(settings, request, response, 0, d)
      BY <2>1, <3>1 DEF IsOver
    <3>3. (entered[2] = 1 <=> d >= 2) /\ (entered[3] = 1 <=> d >= 3) /\ (entered[2] = 0 => d = 1)
      BY <3>2, EnteredOnce
    <3> QED
      BY <3>2, <3>3 DEF Carries, Has, Bears, isAllowed
  <2> QED
    BY <1>1, <1>2, <1>3, <2>2, <2>3
<1> QED
  BY <1>4, <1>5

-----------------------------------------------------------------------------
\* All hops behind p are trusted, and name the one before them; p is not.
Stranger(trust, chain, p) ==
  /\ \A j \in p + 1 .. Len(chain) : isTrustedHop(trust, chain[j], Len(chain) - j) /\ chain[j - 1].version # 0
  /\ ~ isTrustedHop(trust, chain[p], Len(chain) - p)

\* The proxies are trusted, and the client is not.
Knows(trust, client, proxies, n) ==
  /\ client.version # 0 /\ ~ isTrustedHop(trust, client, n)
  /\ \A i \in 1 .. n : proxies[i].version # 0 /\ \A d \in 0 .. n - 1 : isTrustedHop(trust, proxies[i], d)

\* What the client claims, the client, and the proxies that the request came through.
Chains(chain, claimed, client, proxies, n) ==
  /\ Len(chain) = Len(claimed) + 1 + n
  /\ chain[Len(claimed) + 1] = client
  /\ \A i \in 1 .. n : chain[Len(claimed) + 1 + i] = proxies[i]

\* Lists, as they are put together.
Ends(chain, before, last) == chain = Append(before, last)
Joins(chain, near, far) == chain = near \o far
IsCut(t, s, n) == t = SubSeq(s, 1, n)

\* The client is found, by its neighbour or behind n proxies.
Seen(chain, claimed, client, n, trust) ==
  IF n = 0 THEN resolveClient(client, claimed, trust) = client
  ELSE resolveClient(Last(chain), Front(chain), trust) = client

LEMMA Resolved ==
  ASSUME NEW S, NEW peer \in S, NEW forwarded \in Seq(S), NEW trust, NEW chain, Ends(chain, forwarded, peer),
         NEW p \in DOMAIN chain, Stranger(trust, chain, p)
  PROVE  resolveClient(peer, forwarded, trust) = chain[p]
<1> DEFINE V(i) == \A j \in i + 1 .. Len(chain) :
                      isTrustedHop(trust, chain[j], Len(chain) - j) /\ chain[j - 1].version # 0
           First(i) == V(i) /\ \A j \in 1 .. i - 1 : ~ V(j)
<1>1. Len(chain) = Len(forwarded) + 1 /\ DOMAIN chain = 1 .. Len(chain) /\ Len(forwarded) \in Nat
  BY DEF Ends
<1>2. V(p)
  BY DEF Stranger
<1>3. \A i \in 1 .. p - 1 : ~ V(i)
  <2>1. \A i \in 1 .. p - 1 : p \in i + 1 .. Len(chain)
    BY <1>1
  <2> QED
    BY <2>1 DEF Stranger
<1>4. resolveClient(peer, forwarded, trust) = chain[CHOOSE i \in DOMAIN chain : First(i)]
  BY DEF resolveClient, Ends
<1> HIDE DEF V
<1>5. p \in DOMAIN chain /\ First(p)
  BY <1>1, <1>2, <1>3
<1>6. \A i \in DOMAIN chain : First(i) => i = p
  BY <1>1, <1>2, <1>3
<1>7. (CHOOSE i \in DOMAIN chain : First(i)) = p
  <2> HIDE DEF First
  <2> QED
    BY <1>5, <1>6
<1> QED
  BY <1>4, <1>7

LEMMA FirstOnes ==
  ASSUME NEW S, NEW s, NEW n \in Nat, \A i \in 1 .. n : s[i] \in S, NEW t, IsCut(t, s, n)
  PROVE  t \in Seq(S) /\ Len(t) = n /\ \A i \in 1 .. n : t[i] = s[i]
<1>1. t \in Seq(S)
  BY DEF IsCut
<1>2. Len(t) = n
  BY DEF IsCut
<1>3. \A i \in 1 .. n : t[i] = s[i]
  BY DEF IsCut
<1> QED
  BY <1>1, <1>2, <1>3

LEMMA Joined ==
  ASSUME NEW S, NEW near \in Seq(S), NEW far \in Seq(S), NEW chain, Joins(chain, near, far)
  PROVE  /\ chain \in Seq(S) /\ Len(chain) = Len(near) + Len(far)
         /\ \A i \in 1 .. Len(near) : chain[i] = near[i]
         /\ \A i \in 1 .. Len(far) : chain[Len(near) + i] = far[i]
<1>1. chain \in Seq(S) /\ Len(chain) = Len(near) + Len(far)
  BY ConcatProperties DEF Joins
<1>2. \A i \in 1 .. Len(near) : chain[i] = near[i]
  BY DEF Joins
<1>3. \A i \in 1 .. Len(far) : chain[Len(near) + i] = far[i]
  BY DEF Joins
<1> QED
  BY <1>1, <1>2, <1>3

LEMMA Chained ==
  ASSUME NEW S, NEW client \in S, NEW claimed \in Seq(S), NEW proxies \in Seq(S), NEW n \in 0 .. Len(proxies),
         NEW near, Ends(near, claimed, client), NEW far, IsCut(far, proxies, n), NEW chain, Joins(chain, near, far)
  PROVE  chain \in Seq(S) /\ Chains(chain, claimed, client, proxies, n)
<1>1. /\ near \in Seq(S) /\ Len(near) = Len(claimed) + 1 /\ near[Len(claimed) + 1] = client
      /\ Len(claimed) \in Nat /\ n \in Nat /\ \A i \in 1 .. n : proxies[i] \in S
  BY DEF Ends
<1>2. far \in Seq(S) /\ Len(far) = n /\ \A i \in 1 .. n : far[i] = proxies[i]
  BY <1>1, FirstOnes, SMTT(30)
<1>3. /\ chain \in Seq(S) /\ Len(chain) = Len(near) + Len(far)
      /\ \A i \in 1 .. Len(near) : chain[i] = near[i]
      /\ \A i \in 1 .. Len(far) : chain[Len(near) + i] = far[i]
  <2>1. near \in Seq(S) /\ far \in Seq(S) /\ Joins(chain, near, far)
    BY <1>1, <1>2
  <2>2. chain \in Seq(S) /\ Len(chain) = Len(near) + Len(far)
    BY <2>1, Joined
  <2>3. \A i \in 1 .. Len(near) : chain[i] = near[i]
    BY <2>1, Joined
  <2>4. \A i \in 1 .. Len(far) : chain[Len(near) + i] = far[i]
    BY <2>1 DEF Joins
  <2> QED
    BY <2>2, <2>3, <2>4
<1>4. Len(chain) = Len(claimed) + 1 + n
  BY <1>1, <1>2, <1>3
<1>5. chain[Len(claimed) + 1] = client
  BY <1>1, <1>3
<1>6. ASSUME NEW i \in 1 .. n
      PROVE  chain[Len(claimed) + 1 + i] = proxies[i]
  BY <1>1, <1>2, <1>3
<1>7. Chains(chain, claimed, client, proxies, n)
  BY <1>4, <1>5, <1>6 DEF Chains
<1> QED
  BY <1>3, <1>7

LEMMA Trusted ==
  ASSUME NEW n, NEW address, NEW d
  PROVE  /\ isTrustedHop([kind |-> "hops", hops |-> n, ranges |-> {}], address, d) <=> d < n
         /\ isTrustedHop([kind |-> "list", hops |-> 0, ranges |-> {[version |-> 4, value |-> 2, prefix |-> 1]}], address, d)
              <=> address.version = 4 /\ address.value \div 2 = 1
<1>1. isTrustedHop([kind |-> "hops", hops |-> n, ranges |-> {}], address, d) <=> d < n
  BY DEF isTrustedHop
<1>2. 2 ^ (2 - 1) = 2 /\ 2 \div 2 = 1
  OBVIOUS
<1>3. ipMatcher({[version |-> 4, value |-> 2, prefix |-> 1]}, address)
        <=> 4 = address.version /\ address.value \div 2 ^ (2 - 1) = 2 \div 2 ^ (2 - 1)
  BY DEF ipMatcher, Width
<1>4. isTrustedHop([kind |-> "list", hops |-> 0, ranges |-> {[version |-> 4, value |-> 2, prefix |-> 1]}], address, d)
        <=> ipMatcher({[version |-> 4, value |-> 2, prefix |-> 1]}, address)
  BY DEF isTrustedHop
<1> QED
  BY <1>1, <1>2, <1>3, <1>4

LEMMA ClientFound ==
  ASSUME NEW S, NEW client \in S, NEW claimed \in Seq(S), NEW proxies, NEW n \in Nat, NEW trust,
         Knows(trust, client, proxies, n), NEW chain \in Seq(S), Chains(chain, claimed, client, proxies, n)
  PROVE  Stranger(trust, chain, Len(claimed) + 1)
<1> DEFINE p == Len(claimed) + 1
<1>1. /\ Len(claimed) \in Nat /\ Len(chain) - p = n /\ chain[p] = client /\ Len(chain) = p + n
      /\ \A i \in 1 .. n : chain[p + i] = proxies[i]
  BY DEF Chains
<1>2. ASSUME NEW j \in p + 1 .. Len(chain)
      PROVE  isTrustedHop(trust, chain[j], Len(chain) - j) /\ chain[j - 1].version # 0
  <2>1. PICK i \in 1 .. n : j = p + i
    <3>1. j - p \in 1 .. n /\ j = p + (j - p)
      BY <1>1
    <3> QED
      BY <3>1
  <2>2. chain[j] = proxies[i] /\ Len(chain) - j \in 0 .. n - 1
    BY <1>1, <2>1
  <2>3. isTrustedHop(trust, chain[j], Len(chain) - j)
    BY <2>2 DEF Knows
  <2>4. CASE i = 1
    <3>1. j - 1 = p
      BY <1>1, <2>1, <2>4
    <3> QED
      BY <1>1, <2>3, <3>1 DEF Knows
  <2>5. CASE i # 1
    <3>1. i - 1 \in 1 .. n /\ j - 1 = p + (i - 1)
      BY <1>1, <2>1, <2>5
    <3>2. chain[j - 1] = proxies[i - 1]
      BY <1>1, <3>1
    <3> QED
      BY <2>3, <3>1, <3>2 DEF Knows
  <2> QED
    BY <2>4, <2>5
<1>3. ~ isTrustedHop(trust, chain[p], Len(chain) - p)
  BY <1>1 DEF Knows
<1> QED
  BY <1>2, <1>3 DEF Stranger

\* A list is what is before its last element, and that.
LEMMA FrontAndLast ==
  ASSUME NEW S, NEW chain \in Seq(S), Len(chain) # 0
  PROVE  /\ Front(chain) \in Seq(S) /\ Len(Front(chain)) = Len(chain) - 1 /\ Last(chain) \in S
         /\ Ends(chain, Front(chain), Last(chain))
<1>1. Len(chain) - 1 \in Nat /\ Len(chain) \in 1 .. Len(chain) /\ \A i \in 1 .. Len(chain) - 1 : chain[i] \in S
  OBVIOUS
<1> DEFINE m == Len(chain) - 1
<1>a. IsCut(Front(chain), chain, m) /\ m \in Nat /\ \A i \in 1 .. m : chain[i] \in S
  BY <1>1 DEF Front, IsCut
<1>b. m = Len(chain) - 1
  OBVIOUS
<1> HIDE DEF m
<1>2. /\ Front(chain) \in Seq(S) /\ Len(Front(chain)) = m
      /\ \A i \in 1 .. m : Front(chain)[i] = chain[i]
  <2>1. PICK first : first = Front(chain)
    OBVIOUS
  <2>2. IsCut(first, chain, m)
    BY <1>a, <2>1
  <2>3. first \in Seq(S) /\ Len(first) = m /\ \A i \in 1 .. m : first[i] = chain[i]
    BY <1>a, <2>2, FirstOnes
  <2> QED
    BY <2>1, <2>3
<1>3. Last(chain) = chain[Len(chain)] /\ Last(chain) \in S
  <2>1. Last(chain) = chain[Len(chain)]
    BY DEF Last
  <2>2. chain[Len(chain)] \in S
    BY <1>1
  <2> QED
    BY <2>1, <2>2
<1>4. Ends(chain, Front(chain), Last(chain))
  <2> DEFINE f == Front(chain)
             l == Last(chain)
  <2>1. f \in Seq(S) /\ Len(f) + 1 = Len(chain) /\ l = chain[Len(chain)] /\ \A i \in 1 .. Len(f) : f[i] = chain[i]
    BY <1>1, <1>a, <1>b, <1>2, <1>3
  <2> HIDE DEF f, l
  <2>2. chain = Append(f, l)
    BY <2>1
  <2> QED
    BY <2>2 DEF Ends, f, l
<1> QED
  BY <1>b, <1>2, <1>3, <1>4

LEMMA ClientNamed ==
  ASSUME NEW S, NEW client \in S, NEW claimed \in Seq(S), NEW proxies \in Seq(S), NEW n \in 0 .. Len(proxies), NEW trust,
         Knows(trust, client, proxies, n),
         NEW chain \in Seq(S), Chains(chain, claimed, client, proxies, n), n = 0 => Ends(chain, claimed, client)
  PROVE  Seen(chain, claimed, client, n, trust)
<1> DEFINE p == Len(claimed) + 1
<1>1. /\ Len(claimed) \in Nat /\ n \in Nat /\ Len(chain) = p + n /\ chain[p] = client /\ p \in DOMAIN chain
  BY DEF Chains
<1>2. Stranger(trust, chain, p)
  BY <1>1, ClientFound
<1> HIDE DEF p
<1>3. CASE n = 0
  <2>1. Ends(chain, claimed, client)
    BY <1>3
  <2>2. resolveClient(client, claimed, trust) = chain[p]
    BY <1>1, <1>2, <2>1, Resolved
  <2> QED
    BY <1>1, <1>3, <2>2 DEF Seen
<1>4. CASE n # 0
  <2>1. Len(chain) # 0
    BY <1>1
  <2>2. /\ Front(chain) \in Seq(S) /\ Last(chain) \in S
        /\ Ends(chain, Front(chain), Last(chain))
    BY <2>1, FrontAndLast
  <2>3. resolveClient(Last(chain), Front(chain), trust) = chain[p]
    BY <1>1, <1>2, <2>2, Resolved
  <2> QED
    BY <1>1, <1>4, <2>3 DEF Seen
<1> QED
  BY <1>3, <1>4

LEMMA ClientSeen ==
  ASSUME NEW S, NEW client \in S, NEW claimed \in Seq(S), NEW proxies \in Seq(S), NEW n \in 0 .. Len(proxies), NEW trust,
         Knows(trust, client, proxies, n),
         NEW near, Ends(near, claimed, client), NEW far, IsCut(far, proxies, n), NEW chain, Joins(chain, near, far)
  PROVE  Seen(chain, claimed, client, n, trust)
<1>1. chain \in Seq(S) /\ Chains(chain, claimed, client, proxies, n)
  BY Chained
<1>2. ASSUME n = 0
      PROVE  Ends(chain, claimed, client)
  <2>1. far = <<>> /\ near \in Seq(S)
    BY <1>2 DEF IsCut, Ends
  <2>2. chain = near
    BY <2>1 DEF Joins
  <2> QED
    BY <2>2
<1> QED
  BY <1>1, <1>2, ClientNamed

LEMMA ClientTrue == ClientIsReal
<1> DEFINE From(v) == [version |-> 4, value |-> v]
           proxies == <<From(2), From(3)>>
           lists == [kind |-> "list", hops |-> 0, ranges |-> {[version |-> 4, value |-> 2, prefix |-> 1]}]
           any == {From(v) : v \in 0 .. 3} \cup {[version |-> 0, value |-> 0], [version |-> 6, value |-> 2]}
           clients == {From(0), From(1), [version |-> 6, value |-> 2]}
           hops(n) == [kind |-> "hops", hops |-> n, ranges |-> {}]
<1>1. SUFFICES ASSUME NEW n \in 0 .. 2, NEW client \in clients, NEW claimed \in UNION {[1 .. m -> any] : m \in 0 .. 2}
               PROVE  \A trust \in {lists, hops(n)} :
                        IF n = 0 THEN resolveClient(client, claimed, trust) = client
                        ELSE resolveClient(Last(claimed \o <<client>> \o SubSeq(proxies, 1, n)),
                                           Front(claimed \o <<client>> \o SubSeq(proxies, 1, n)), trust) = client
  BY DEF ClientIsReal
<1> SUFFICES ASSUME NEW trust \in {lists, hops(n)}
             PROVE  IF n = 0 THEN resolveClient(client, claimed, trust) = client
                    ELSE resolveClient(Last(claimed \o <<client>> \o SubSeq(proxies, 1, n)),
                                       Front(claimed \o <<client>> \o SubSeq(proxies, 1, n)), trust) = client
  OBVIOUS
<1>2. claimed \in Seq(any)
  <2> HIDE DEF any
  <2>1. PICK m \in 0 .. 2 : claimed \in [1 .. m -> any]
    OBVIOUS
  <2> QED
    BY <2>1
<1>3. /\ client.version # 0 /\ ~ (client.version = 4 /\ client.value \div 2 = 1)
      /\ \A i \in 1 .. 2 : proxies[i].version = 4 /\ proxies[i].value \div 2 = 1
      /\ client \in any /\ \A i \in 1 .. 2 : proxies[i] \in any
  OBVIOUS
<1>4. proxies \in Seq(any) /\ Len(proxies) = 2
  BY <1>3
<1>5. \/ \A a, d : isTrustedHop(trust, a, d) <=> a.version = 4 /\ a.value \div 2 = 1
      \/ \A a, d : isTrustedHop(trust, a, d) <=> d < n
  <2>1. CASE trust = lists
    BY <2>1, Trusted, Zenon
  <2>2. CASE trust = hops(n)
    BY <2>2, Trusted, Zenon
  <2> QED
    BY <2>1, <2>2
<1> HIDE DEF From, proxies, lists, any, clients, hops
<1>6. n \in 0 .. Len(proxies) /\ \A i \in 1 .. n : i \in 1 .. 2
  BY <1>4
<1>7. Knows(trust, client, proxies, n)
  BY <1>3, <1>5, <1>6 DEF Knows
<1>8. claimed \o <<client>> = Append(claimed, client)
  BY <1>2, <1>3
<1>9. PICK near, far, chain : Ends(near, claimed, client) /\ IsCut(far, proxies, n) /\ Joins(chain, near, far)
  BY DEF Ends, IsCut, Joins
<1>10. Seen(chain, claimed, client, n, trust)
  <2>1. client \in any /\ claimed \in Seq(any) /\ proxies \in Seq(any) /\ n \in 0 .. Len(proxies)
    BY <1>2, <1>3, <1>4, <1>6
  <2> QED
    BY <1>7, <1>9, <2>1, ClientSeen
<1>11. chain = claimed \o <<client>> \o SubSeq(proxies, 1, n)
  BY <1>8, <1>9, Zenon DEF Ends, IsCut, Joins
<1>12. CASE n = 0
  BY <1>10, <1>12 DEF Seen
<1>13. CASE n # 0
  <2>1. resolveClient(Last(chain), Front(chain), trust) = client
    BY <1>10, <1>13 DEF Seen
  <2>2. /\ Last(chain) = Last(claimed \o <<client>> \o SubSeq(proxies, 1, n))
        /\ Front(chain) = Front(claimed \o <<client>> \o SubSeq(proxies, 1, n))
    BY <1>11, Zenon
  <2> QED
    BY <1>13, <2>1, <2>2, Zenon
<1> QED
  BY <1>12, <1>13, Zenon

-----------------------------------------------------------------------------
\* Uploads.
LEMMA Sniffed ==
  ASSUME NEW file, NEW allowed, NEW t \in sniff(file, allowed)
  PROVE  t \in allowed /\ (file.shows \in SIGNATURES => t = file.shows) /\ (file.shows \in SIGNATURES \/ file.shows = "text")
BY DEF sniff

LEMMA UploadsTrue == UploadsFit
<1> SUFFICES ASSUME NEW types \in SUBSET {"png", "text/plain", "text/csv"}, NEW shows \in {"png", "pdf", "text", "none"},
                    NEW declared \in {"png", "text/csv"}, NEW size \in 1 .. 2, NEW count \in 0 .. 2
             PROVE  LET rules == [types |-> types, maxSize |-> 1, maxFiles |-> 1, required |-> TRUE]
                        files == [n \in 1 .. count |-> [size |-> size, shows |-> shows, declared |-> declared]]
                    IN \A a \in checkUploads(files, rules) :
                         count = 1 /\ size = 1 /\ a[1] \in types /\ (shows = "text" \/ a[1] = shows)
  BY DEF UploadsFit
<1> DEFINE rules == [types |-> types, maxSize |-> 1, maxFiles |-> 1, required |-> TRUE]
           file == [size |-> size, shows |-> shows, declared |-> declared]
           files == [n \in 1 .. count |-> file]
<1> SUFFICES ASSUME NEW a \in checkUploads(files, rules)
             PROVE  count = 1 /\ size = 1 /\ a[1] \in types /\ (shows = "text" \/ a[1] = shows)
  OBVIOUS
<1>1. file.size = size /\ file.shows = shows /\ files \in Seq({file}) /\ Len(files) = count
  OBVIOUS
<1> HIDE DEF file
<1>2. /\ ~ Len(files) > 1 /\ files # <<>>
      /\ \A n \in 1 .. count : ~ files[n].size > 1 /\ sniff(files[n], types) # {}
      /\ a = [n \in 1 .. count |-> CHOOSE t \in sniff(files[n], types) : TRUE]
  BY DEF checkUploads
<1>3. count = 1
  BY <1>1, <1>2
<1>4. size = 1 /\ a[1] \in sniff(file, types)
  BY <1>1, <1>2, <1>3
<1>5. /\ a[1] \in types /\ (shows \in SIGNATURES => a[1] = shows)
      /\ (shows \in SIGNATURES \/ shows = "text")
  BY <1>1, <1>4, Sniffed
<1> QED
  BY <1>3, <1>4, <1>5

-----------------------------------------------------------------------------
RequestsSpec == RequestsInit /\ [][RequestsNext]_requestVars

\* However the program's middleware and handlers pass, answer and throw, for any requests, options
\* and limits: nothing runs twice, every answer is complete and dressed by the layers it passed,
\* hides what it must, and no body is read beyond its limits (middleware.ts:27, app.ts:374).
THEOREM RequestsCorrect == RequestsSpec => []RequestsHold
<1>1. RequestsSpec => []RequestsInv
  BY RequestsStart, RequestsStep, PTL DEF RequestsSpec
<1>2. RequestsInv => RequestsHold
  BY RequestsMean, ClientTrue, UploadsTrue DEF RequestsHold
<1> QED
  BY <1>1, <1>2, PTL

-----------------------------------------------------------------------------
\* Cache.

Entry == [key : CacheKeys, value : Nat, expiresAt : Nat]
LoadSteps == {"loading", "storing", "settling", "failing"}
Remember == [pc : {"idle", "missed", "waiting"} \cup LoadSteps, key : CacheKeys, value : Nat, since : Nat, older : BOOLEAN]

\* A list of entries as a Map has them.
OnceEach(s) == \A i, j \in DOMAIN s : s[i].key = s[j].key => i = j
IsMap(s) == s \in Seq(Entry) /\ OnceEach(s)

CacheTypeOK ==
  /\ backend \in {"memory", "redis"} /\ IsMap(entries)
  /\ loads \in [CacheKeys -> Callers \cup {Nowhere}]
  /\ caller \in [Callers -> Remember]
  /\ source \in [CacheKeys -> Nat] /\ floor \in [CacheKeys -> Nat] /\ time \in Nat

\* A remember() began no later than now, and what its load read is not older than the last write
\* that met no load.
Since(q, least) == q.since <= least[q.key]
Holds(q, least) == q.pc \in {"storing", "settling"} => q.value >= least[q.key]

\* The map of loads knows who loads, and there is a load for everyone who waits.
Known(c, q, map) ==
  /\ \A k \in CacheKeys : map[k] = c <=> q.key = k /\ q.pc \in LoadSteps
  /\ q.pc = "waiting" => map[q.key] # Nowhere

RememberOK(c, q, map, least) == ~ q.older /\ Since(q, least) /\ Holds(q, least) /\ Known(c, q, map)

NoneOlder(s, least) == \A i \in DOMAIN s : s[i].value >= least[s[i].key]
FitsIn(s, store) == store = "memory" => Len(s) <= MaxEntries

CacheInv ==
  /\ CacheTypeOK
  /\ \A k \in CacheKeys : floor[k] <= source[k]
  /\ \A c \in Callers : RememberOK(c, caller[c], loads, floor)
  /\ NoneOlder(entries, floor) /\ FitsIn(entries, backend)

\* t has only what s has, and is a Map if s is.
Among(t, s) == Len(t) <= Len(s) /\ \A i \in DOMAIN t : \E j \in DOMAIN s : t[i] = s[j]

LEMMA CutOut ==
  ASSUME NEW s \in Seq(Entry), NEW p \in 1 .. Len(s), NEW t, t = RemoveAt(s, p)
  PROVE  /\ t \in Seq(Entry) /\ Len(t) = Len(s) - 1
         /\ \A n \in 1 .. Len(t) : t[n] = IF n < p THEN s[n] ELSE s[n + 1]
<1>1. t = SubSeq(s, 1, p - 1) \o SubSeq(s, p + 1, Len(s))
  BY DEF RemoveAt
<1>2. Len(s) \in Nat /\ \A n \in 1 .. Len(s) : s[n] \in Entry
  OBVIOUS
<1>3. /\ SubSeq(s, 1, p - 1) \in Seq(Entry) /\ Len(SubSeq(s, 1, p - 1)) = p - 1
      /\ \A n \in 1 .. p - 1 : SubSeq(s, 1, p - 1)[n] = s[n]
  BY <1>2
<1>4. /\ SubSeq(s, p + 1, Len(s)) \in Seq(Entry) /\ Len(SubSeq(s, p + 1, Len(s))) = Len(s) - p
      /\ \A n \in 1 .. Len(s) - p : SubSeq(s, p + 1, Len(s))[n] = s[p + n]
  BY <1>2
<1> DEFINE a == SubSeq(s, 1, p - 1)
           b == SubSeq(s, p + 1, Len(s))
<1>5. /\ t = a \o b /\ a \in Seq(Entry) /\ b \in Seq(Entry) /\ Len(a) = p - 1 /\ Len(b) = Len(s) - p
      /\ \A n \in 1 .. p - 1 : a[n] = s[n]
      /\ \A n \in 1 .. Len(s) - p : b[n] = s[p + n]
  BY <1>1, <1>3, <1>4, Zenon
<1> HIDE DEF a, b
<1>6. t \in Seq(Entry)
  BY <1>5
<1>7. Len(t) = Len(s) - 1
  BY <1>2, <1>5
<1>8. ASSUME NEW n \in 1 .. Len(t)
      PROVE  t[n] = IF n < p THEN s[n] ELSE s[n + 1]
  <2>1. CASE n < p
    <3>1. n \in 1 .. Len(a) /\ n \in 1 .. p - 1
      BY <1>2, <1>5, <1>7, <2>1
    <3>2. t[n] = a[n]
      BY <1>5, <3>1
    <3> QED
      BY <1>5, <2>1, <3>1, <3>2
  <2>2. CASE ~ n < p
    <3>1. n - (p - 1) \in 1 .. Len(s) - p /\ p + (n - (p - 1)) = n + 1
      BY <1>2, <1>5, <1>7, <2>2
    <3>2. t[n] = b[n - (p - 1)]
      BY <1>2, <1>5, <1>7, <2>2
    <3> QED
      BY <1>5, <2>2, <3>1, <3>2
  <2> QED
    BY <2>1, <2>2
<1> QED
  BY <1>6, <1>7, <1>8

LEMMA CutOutMap ==
  ASSUME NEW s, IsMap(s), NEW p \in DOMAIN s, NEW t, t = RemoveAt(s, p)
  PROVE  IsMap(t) /\ Among(t, s) /\ Len(t) < Len(s) /\ \A i \in DOMAIN t : t[i].key # s[p].key
<1>1. s \in Seq(Entry) /\ DOMAIN s = 1 .. Len(s) /\ Len(s) \in Nat /\ p \in 1 .. Len(s)
  BY DEF IsMap
<1>2. /\ t \in Seq(Entry) /\ Len(t) = Len(s) - 1
      /\ \A n \in 1 .. Len(t) : t[n] = IF n < p THEN s[n] ELSE s[n + 1]
  BY <1>1, CutOut
<1> DEFINE from(n) == IF n < p THEN n ELSE n + 1
<1>3. DOMAIN t = 1 .. Len(t) /\ \A n \in DOMAIN t : from(n) \in DOMAIN s /\ t[n] = s[from(n)] /\ from(n) # p
  BY <1>1, <1>2
<1>4. \A m, n \in DOMAIN t : from(m) = from(n) => m = n
  BY <1>1, <1>2, <1>3
<1> HIDE DEF from
<1>5. OnceEach(t) /\ Among(t, s)
  BY <1>1, <1>2, <1>3, <1>4 DEF IsMap, OnceEach, Among
<1>6. \A i \in DOMAIN t : t[i].key # s[p].key
  BY <1>3 DEF IsMap, OnceEach
<1> QED
  BY <1>1, <1>2, <1>5, <1>6 DEF IsMap

\* Without(k) is the Map without k.
LEMMA WithoutMap ==
  ASSUME IsMap(entries), NEW k
  PROVE  /\ IsMap(Without(k)) /\ Among(Without(k), entries)
         /\ \A i \in DOMAIN Without(k) : Without(k)[i].key # k
<1> DEFINE held == {i \in DOMAIN entries : entries[i].key = k}
<1>1. CASE held = {}
  <2>1. Without(k) = entries
    BY <1>1 DEF Without
  <2>2. Among(entries, entries)
    BY DEF IsMap, Among
  <2> QED
    BY <1>1, <2>1, <2>2
<1>2. CASE held # {}
  <2> DEFINE p == CHOOSE i \in held : TRUE
  <2>1. p \in held /\ Without(k) = RemoveAt(entries, p)
    BY <1>2 DEF Without
  <2> HIDE DEF p
  <2>2. p \in DOMAIN entries /\ entries[p].key = k
    BY <2>1
  <2>3. PICK t : t = Without(k)
    OBVIOUS
  <2>4. IsMap(t) /\ Among(t, entries) /\ \A i \in DOMAIN t : t[i].key # k
    BY <2>1, <2>2, <2>3, CutOutMap
  <2> QED
    BY <2>3, <2>4
<1> QED
  BY <1>1, <1>2

\* An entry put at the end of the rest.
IsPut(t, s, e) == t = Append(s, e)

LEMMA PutLast ==
  ASSUME NEW s, IsMap(s), NEW e \in Entry, \A i \in DOMAIN s : s[i].key # e.key, NEW t, IsPut(t, s, e)
  PROVE  /\ IsMap(t) /\ Len(t) = Len(s) + 1
         /\ \A i \in DOMAIN t : t[i] = e \/ \E j \in DOMAIN s : t[i] = s[j]
<1>1. s \in Seq(Entry) /\ DOMAIN s = 1 .. Len(s) /\ Len(s) \in Nat
  BY DEF IsMap
<1>2. /\ t \in Seq(Entry) /\ Len(t) = Len(s) + 1 /\ DOMAIN t = 1 .. Len(s) + 1
      /\ t[Len(s) + 1] = e /\ \A i \in 1 .. Len(s) : t[i] = s[i]
  BY <1>1 DEF IsPut
<1>3. OnceEach(t)
  <2> SUFFICES ASSUME NEW i \in DOMAIN t, NEW j \in DOMAIN t, t[i].key = t[j].key
               PROVE  i = j
    BY DEF OnceEach
  <2>1. CASE i \in 1 .. Len(s) /\ j \in 1 .. Len(s)
    BY <1>1, <1>2, <2>1 DEF IsMap, OnceEach
  <2>2. CASE i \notin 1 .. Len(s) \/ j \notin 1 .. Len(s)
    <3>1. (i \in 1 .. Len(s) => t[i].key # e.key) /\ (j \in 1 .. Len(s) => t[j].key # e.key)
      BY <1>1, <1>2
    <3>2. (i \notin 1 .. Len(s) => i = Len(s) + 1) /\ (j \notin 1 .. Len(s) => j = Len(s) + 1)
      BY <1>1, <1>2
    <3> QED
      BY <1>2, <2>2, <3>1, <3>2
  <2> QED
    BY <2>1, <2>2
<1>4. \A i \in DOMAIN t : t[i] = e \/ \E j \in DOMAIN s : t[i] = s[j]
  BY <1>1, <1>2
<1> QED
  BY <1>2, <1>3, <1>4 DEF IsMap

\* The last ones of a Map.
IsRest(t, s, m) == t = SubSeq(s, m + 1, Len(s))

LEMMA LastOnes ==
  ASSUME NEW s, IsMap(s), NEW m \in 0 .. Len(s), NEW t, IsRest(t, s, m)
  PROVE  IsMap(t) /\ Among(t, s) /\ Len(t) = Len(s) - m
<1>1. s \in Seq(Entry) /\ DOMAIN s = 1 .. Len(s) /\ Len(s) \in Nat /\ \A n \in 1 .. Len(s) : s[n] \in Entry
  BY DEF IsMap
<1>2. /\ t \in Seq(Entry) /\ Len(t) = Len(s) - m
      /\ \A n \in 1 .. Len(t) : t[n] = s[m + n]
  <2>1. t \in Seq(Entry)
    BY <1>1 DEF IsRest
  <2>2. Len(t) = Len(s) - m
    <3>1. m + 1 \in Int /\ Len(s) \in Int /\ \A n \in m + 1 .. Len(s) : s[n] \in Entry
      BY <1>1
    <3>2. Len(t) = IF m + 1 <= Len(s) THEN Len(s) - (m + 1) + 1 ELSE 0
      BY <3>1, SubSeqProperties DEF IsRest
    <3>3. CASE m + 1 <= Len(s)
      <4>1. Len(t) = Len(s) - (m + 1) + 1
        BY <3>2, <3>3
      <4> QED
        BY <1>1, <4>1
    <3>4. CASE ~ (m + 1 <= Len(s))
      <4>1. Len(t) = 0
        BY <3>2, <3>4
      <4>2. m \in Int /\ Len(s) \in Int /\ m <= Len(s)
        BY <1>1
      <4>3. m = Len(s)
        BY <3>4, <4>2
      <4> QED
        BY <1>1, <4>1, <4>3
    <3> QED
      BY <3>3, <3>4
  <2>3. \A n \in 1 .. Len(s) - m : t[n] = s[m + n]
    BY <1>1 DEF IsRest
  <2> QED
    BY <2>1, <2>2, <2>3
<1>3. DOMAIN t = 1 .. Len(t) /\ \A n \in DOMAIN t : m + n \in DOMAIN s /\ t[n] = s[m + n]
  <2>1. DOMAIN t = 1 .. Len(t)
    BY <1>2
  <2> QED
    BY <1>1, <1>2, <2>1
<1>4. OnceEach(t)
  <2> SUFFICES ASSUME NEW i \in DOMAIN t, NEW j \in DOMAIN t, t[i].key = t[j].key
               PROVE  i = j
    BY DEF OnceEach
  <2>1. m + i = m + j
    BY <1>3 DEF IsMap, OnceEach
  <2> QED
    BY <1>2, <1>3, <2>1
<1>5. Among(t, s)
  <2>1. \A i \in DOMAIN t : \E j \in DOMAIN s : t[i] = s[j]
    BY <1>3
  <2>2. Len(t) <= Len(s)
    BY <1>1, <1>2
  <2> QED
    BY <2>1, <2>2 DEF Among
<1> QED
  BY <1>2, <1>4, <1>5 DEF IsMap

\* What a call of the store leaves, with the entry of k that it puts there, if any.
Leaves(t, s) == IsMap(t) /\ \A i \in DOMAIN t : \E j \in DOMAIN s : t[i] = s[j]
LeavesWith(t, s, e) == IsMap(t) /\ \A i \in DOMAIN t : t[i] = e \/ \E j \in DOMAIN s : t[i] = s[j]

LEMMA StoredMap ==
  ASSUME CacheTypeOK, NEW k \in CacheKeys, NEW v \in Nat
  PROVE  /\ LeavesWith(Stored(k, v), Without(k), [key |-> k, value |-> v, expiresAt |-> time + Ttl])
         /\ FitsIn(Stored(k, v), backend)
<1> DEFINE e == [key |-> k, value |-> v, expiresAt |-> time + Ttl]
           rest == Without(k)
           all == Append(rest, e)
           over == Overfull(all)
<1>1. e \in Entry /\ e.key = k
  BY CacheAssumption DEF CacheTypeOK, Entry
<1>2. IsMap(rest) /\ \A i \in DOMAIN rest : rest[i].key # e.key
  BY <1>1, WithoutMap DEF CacheTypeOK
<1>3. Stored(k, v) = SubSeq(all, over + 1, Len(all))
  BY DEF Stored
<1> HIDE DEF e, rest
<1>4. /\ IsMap(all) /\ \A i \in DOMAIN all : all[i] = e \/ \E j \in DOMAIN rest : all[i] = rest[j]
  <2>1. IsPut(all, rest, e)
    BY DEF IsPut
  <2> HIDE DEF all
  <2> QED
    BY <1>1, <1>2, <2>1, PutLast
<1>5. Len(all) \in Nat
  BY <1>4 DEF IsMap
<1> HIDE DEF all
<1>6. over = IF backend = "memory" /\ Len(all) > MaxEntries THEN Len(all) - MaxEntries ELSE 0
  BY DEF Overfull
<1> HIDE DEF over
<1>7. over \in 0 .. Len(all) /\ (backend = "memory" => Len(all) - over <= MaxEntries)
  BY <1>5, <1>6, CacheAssumption
<1>8. PICK t : t = Stored(k, v)
  OBVIOUS
<1>9. IsRest(t, all, over)
  BY <1>3, <1>8 DEF IsRest
<1>10. IsMap(t) /\ Among(t, all) /\ Len(t) = Len(all) - over
  BY <1>4, <1>7, <1>9, LastOnes
<1>11. LeavesWith(t, rest, e)
  BY <1>4, <1>10 DEF LeavesWith, Among
<1>12. FitsIn(t, backend)
  BY <1>7, <1>10 DEF FitsIn
<1> QED
  BY <1>8, <1>11, <1>12 DEF e, rest

LEMMA TouchedMap ==
  ASSUME CacheTypeOK, FitsIn(entries, backend), NEW k
  PROVE  Leaves(Touched(k), entries) /\ FitsIn(Touched(k), backend)
<1> DEFINE rest == Without(k)
<1>1. IsMap(rest) /\ Among(rest, entries) /\ \A i \in DOMAIN rest : rest[i].key # k
  BY WithoutMap DEF CacheTypeOK
<1>2. Len(rest) \in Nat /\ Len(entries) \in Nat
  BY <1>1 DEF IsMap, CacheTypeOK
<1>3. CASE live(k) = {}
  <2>1. Touched(k) = rest
    BY <1>3 DEF Touched
  <2> HIDE DEF rest
  <2>2. Leaves(rest, entries) /\ FitsIn(rest, backend)
    BY <1>1, <1>2, CacheAssumption DEF Leaves, Among, FitsIn
  <2> QED
    BY <2>1, <2>2
<1>4. CASE live(k) # {}
  <2> DEFINE e == CHOOSE e \in live(k) : TRUE
  <2>1. e \in live(k)
    BY <1>4
  <2>2. Touched(k) = Append(rest, e)
    BY <1>4 DEF Touched
  <2> HIDE DEF e, rest
  <2>3. PICK p \in DOMAIN entries : e = entries[p] /\ entries[p].key = k
    BY <2>1 DEF live, Holding, ToSet
  <2>4. e \in Entry /\ e.key = k
    BY <2>3 DEF CacheTypeOK, IsMap
  <2>5. PICK t : t = Append(rest, e)
    OBVIOUS
  <2>6. IsMap(t) /\ Len(t) = Len(rest) + 1 /\ \A i \in DOMAIN t : t[i] = e \/ \E j \in DOMAIN rest : t[i] = rest[j]
    <3>1. IsPut(t, rest, e)
      BY <2>5 DEF IsPut
    <3> QED
      BY <1>1, <2>4, <3>1, PutLast DEF rest
  <2>7. Leaves(t, entries)
    BY <1>1, <2>3, <2>6 DEF Leaves, Among
  <2>8. Len(rest) < Len(entries)
    <3> DEFINE held == {i \in DOMAIN entries : entries[i].key = k}
    <3>1. held # {} /\ rest = RemoveAt(entries, CHOOSE i \in held : TRUE)
      BY <2>3 DEF Without, rest
    <3>2. (CHOOSE i \in held : TRUE) \in held
      BY <3>1
    <3> QED
      BY <3>1, <3>2, CutOutMap DEF CacheTypeOK
  <2>9. FitsIn(t, backend)
    BY <1>2, <2>6, <2>8, CacheAssumption DEF FitsIn
  <2> QED
    BY <2>2, <2>5, <2>7, <2>9
<1> QED
  BY <1>3, <1>4

LEMMA KeptMap ==
  ASSUME CacheTypeOK, FitsIn(entries, backend), NEW k
  PROVE  /\ Leaves(Without(k), entries) /\ FitsIn(Without(k), backend)
         /\ Leaves(Dropped(k), entries) /\ FitsIn(Dropped(k), backend)
<1>1. IsMap(Without(k)) /\ Among(Without(k), entries)
  BY WithoutMap DEF CacheTypeOK
<1>2. Len(Without(k)) \in Nat /\ Len(entries) \in Nat
  BY <1>1 DEF IsMap, CacheTypeOK
<1>3. Leaves(Without(k), entries) /\ FitsIn(Without(k), backend)
  BY <1>1, <1>2, CacheAssumption DEF Leaves, Among, FitsIn
<1>4. Leaves(entries, entries)
  BY DEF CacheTypeOK, Leaves
<1> QED
  BY <1>3, <1>4 DEF Dropped

LEMMA SweptMap ==
  ASSUME CacheTypeOK, FitsIn(entries, backend), sweep
  PROVE  Leaves(entries', entries) /\ FitsIn(entries', backend)
<1> DEFINE fresh == {i \in DOMAIN entries : Live(entries[i])}
           size == Cardinality(fresh)
<1>1. PICK kept \in [1 .. size -> fresh] :
        /\ \A m, n \in DOMAIN kept : m < n => kept[m] < kept[n]
        /\ entries' = [n \in DOMAIN kept |-> entries[kept[n]]]
  BY DEF sweep
<1>2. DOMAIN entries = 1 .. Len(entries) /\ Len(entries) \in Nat /\ \A i \in DOMAIN entries : entries[i] \in Entry
  BY DEF CacheTypeOK, IsMap
<1>3. size \in Nat /\ size <= Len(entries)
  <2>1. IsFiniteSet(1 .. Len(entries)) /\ Cardinality(1 .. Len(entries)) = Len(entries)
    <3>1. PICK n \in Nat : n = Len(entries)
      BY <1>2
    <3>2. IsFiniteSet(1 .. n) /\ Cardinality(1 .. n) = n
      BY FS_Interval
    <3> QED
      BY <3>1, <3>2
  <2>2. IsFiniteSet(fresh) /\ size <= Len(entries)
    BY <1>2, <2>1, FS_Subset
  <2> QED
    BY <2>2, FS_CardinalityType
<1>4. \A n \in 1 .. size : kept[n] \in DOMAIN entries
  OBVIOUS
<1> HIDE DEF size, fresh
<1>5. /\ entries' \in Seq(Entry) /\ Len(entries') = size
      /\ \A n \in 1 .. size : entries'[n] = entries[kept[n]]
  BY <1>1, <1>2, <1>3, <1>4
<1>6. \A m, n \in 1 .. size : kept[m] = kept[n] => m = n
  <2> SUFFICES ASSUME NEW m \in 1 .. size, NEW n \in 1 .. size, kept[m] = kept[n]
               PROVE  m = n
    OBVIOUS
  <2>1. kept[m] \in Int /\ kept[n] \in Int /\ ~ kept[m] < kept[n] /\ ~ kept[n] < kept[m]
    BY <1>2, <1>4
  <2>2. ~ m < n /\ ~ n < m
    BY <1>1, <2>1
  <2> QED
    BY <1>3, <2>2
<1>7. OnceEach(entries')
  <2> SUFFICES ASSUME NEW i \in DOMAIN entries', NEW j \in DOMAIN entries', entries'[i].key = entries'[j].key
               PROVE  i = j
    BY DEF OnceEach
  <2>1. i \in 1 .. size /\ j \in 1 .. size
    BY <1>3, <1>5
  <2>2. kept[i] = kept[j]
    BY <1>4, <1>5, <2>1 DEF CacheTypeOK, IsMap, OnceEach
  <2> QED
    BY <1>6, <2>1, <2>2
<1>8. \A i \in DOMAIN entries' : \E j \in DOMAIN entries : entries'[i] = entries[j]
  BY <1>3, <1>4, <1>5
<1>9. FitsIn(entries', backend)
  BY <1>2, <1>3, <1>5, CacheAssumption DEF FitsIn
<1> QED
  BY <1>5, <1>7, <1>8, <1>9 DEF Leaves, IsMap

LEMMA LeavesNoneOlder ==
  ASSUME CacheTypeOK, NEW t, Leaves(t, entries), NoneOlder(entries, floor)
  PROVE  IsMap(t) /\ NoneOlder(t, floor)
BY DEF Leaves, NoneOlder

LEMMA AwayOK ==
  /\ Away \in Remember /\ Away.pc = "idle" /\ ~ Away.older /\ Away.since = Absent /\ Away.key \in CacheKeys
<1> DEFINE first == CHOOSE k \in CacheKeys : TRUE
<1>1. first \in CacheKeys
  BY CacheAssumption
<1> HIDE DEF first
<1>2. Away = [pc |-> "idle", key |-> first, value |-> Absent, since |-> Absent, older |-> FALSE]
  BY DEF Away, first
<1> QED
  BY <1>1, <1>2 DEF Remember, Absent

\* A call that returns what is not older than its beginning leaves nothing behind.
LEMMA ReturnedAway ==
  ASSUME NEW v \in Nat, NEW since \in Nat, v # Absent => v >= since
  PROVE  Returned(v, since) = Away
<1> DEFINE old == v # Absent /\ v < since
<1>1. Returned(v, since) = [Away EXCEPT !.older = old]
  BY DEF Returned
<1>2. old = FALSE
  BY DEF Absent
<1> HIDE DEF old
<1>3. Returned(v, since) = [Away EXCEPT !.older = FALSE]
  BY <1>1, <1>2, Zenon
<1> QED
  BY <1>3 DEF Away

\* A step of one caller that leaves the map of loads, the source and the floor as they are.
LEMMA OneMoves ==
  ASSUME CacheInv, NEW c \in Callers, NEW q \in Remember, Go(c, q),
         RememberOK(c, q, loads, floor),
         IsMap(entries'), NoneOlder(entries', floor), FitsIn(entries', backend),
         UNCHANGED <<backend, loads, source, time, floor>>
  PROVE  CacheInv'
<1>1. caller' \in [Callers -> Remember]
  BY DEF CacheInv, CacheTypeOK, Go
<1>2. CacheTypeOK'
  BY <1>1 DEF CacheInv, CacheTypeOK
<1>3. ASSUME NEW d \in Callers
      PROVE  RememberOK(d, caller'[d], loads, floor)
  <2>1. caller'[d] = IF d = c THEN q ELSE caller[d]
    BY DEF CacheInv, CacheTypeOK, Go
  <2> QED
    BY <2>1 DEF CacheInv
<1> QED
  BY <1>2, <1>3 DEF CacheInv

LEMMA CacheInitHolds == CacheInit => CacheInv
<1> SUFFICES ASSUME CacheInit PROVE CacheInv
  OBVIOUS
<1>1. IsMap(entries) /\ NoneOlder(entries, floor) /\ FitsIn(entries, backend)
  BY CacheAssumption DEF CacheInit, IsMap, OnceEach, NoneOlder, FitsIn
<1>2. source \in [CacheKeys -> Nat] /\ floor = source
  BY DEF CacheInit, Absent
<1>3. caller \in [Callers -> Remember]
  BY AwayOK DEF CacheInit
<1>4. CacheTypeOK
  BY <1>1, <1>2, <1>3 DEF CacheInit, CacheTypeOK
<1>5. ASSUME NEW c \in Callers
      PROVE  RememberOK(c, caller[c], loads, floor)
  <2>1. caller[c] = Away /\ \A k \in CacheKeys : loads[k] = Nowhere
    BY DEF CacheInit
  <2>2. Nowhere # c
    BY CacheAssumption
  <2> QED
    BY <1>2, <2>1, <2>2, AwayOK DEF RememberOK, Since, Holds, Known, LoadSteps, Absent
<1>6. \A k \in CacheKeys : floor[k] <= source[k]
  BY <1>2
<1> QED
  BY <1>1, <1>4, <1>5, <1>6 DEF CacheInv

LEMMA LookupKeeps ==
  ASSUME CacheInv, NEW c \in Callers, NEW k \in CacheKeys, Lookup(c, k)
  PROVE  CacheInv'
<1>1. CacheTypeOK /\ NoneOlder(entries, floor) /\ FitsIn(entries, backend) /\ floor[k] \in Nat
  BY DEF CacheInv, CacheTypeOK
<1>2. Leaves(entries', entries) /\ FitsIn(entries', backend)
  BY <1>1, TouchedMap DEF Lookup
<1>3. IsMap(entries') /\ NoneOlder(entries', floor)
  BY <1>1, <1>2, LeavesNoneOlder
<1>4. RememberOK(c, caller[c], loads, floor) /\ caller[c].pc = "idle"
  BY DEF CacheInv, Lookup, At
<1>5. \A j \in CacheKeys : loads[j] # c
  BY <1>4 DEF RememberOK, Known, LoadSteps
<1>6. CASE live(k) = {}
  <2> DEFINE q == [Away EXCEPT !.pc = "missed", !.key = k, !.since = floor[k]]
  <2>1. q \in Remember /\ q.pc = "missed" /\ q.key = k /\ q.since = floor[k] /\ q.older = Away.older
    BY <1>1, AwayOK DEF Remember
  <2>2. Go(c, q)
    BY <1>6 DEF Lookup
  <2> HIDE DEF q
  <2>3. RememberOK(c, q, loads, floor)
    BY <1>1, <1>5, <2>1, AwayOK DEF RememberOK, Since, Holds, Known, LoadSteps
  <2>4. UNCHANGED <<backend, loads, source, time, floor>>
    BY DEF Lookup
  <2> QED
    BY <1>2, <1>3, <2>1, <2>2, <2>3, <2>4, OneMoves
<1>7. CASE live(k) # {}
  <2> DEFINE e == CHOOSE e \in live(k) : TRUE
             q == Returned(e.value, floor[k])
  <2>1. e \in live(k)
    BY <1>7
  <2>2. Go(c, q)
    BY <1>7 DEF Lookup
  <2> HIDE DEF e
  <2>3. PICK p \in DOMAIN entries : e = entries[p] /\ entries[p].key = k
    BY <2>1 DEF live, Holding, ToSet
  <2>4. e.value \in Nat /\ e.value >= floor[k]
    <3>1. entries[p] \in Entry
      BY <1>1 DEF CacheTypeOK, IsMap
    <3>2. entries[p].value >= floor[entries[p].key]
      BY <1>1 DEF NoneOlder
    <3>3. e \in Entry /\ e.value >= floor[k]
      BY <2>3, <3>1, <3>2
    <3> QED
      BY <3>3 DEF Entry
  <2>5. q \in Remember /\ q.pc = "idle" /\ ~ q.older /\ q.since = Absent /\ q.key \in CacheKeys
    BY <1>1, <2>4, ReturnedAway, AwayOK
  <2> HIDE DEF q
  <2>6. RememberOK(c, q, loads, floor)
    <3>1. floor[q.key] \in Nat
      BY <1>1, <2>5 DEF CacheTypeOK
    <3> QED
      BY <1>5, <2>5, <3>1 DEF RememberOK, Since, Holds, Known, LoadSteps, Absent
  <2>7. UNCHANGED <<backend, loads, source, time, floor>>
    BY DEF Lookup
  <2> QED
    BY <1>2, <1>3, <2>2, <2>5, <2>6, <2>7, OneMoves
<1> QED
  BY <1>6, <1>7

\* A step of one caller that leaves its key, its beginning and its answer as they are, and is still
\* loading if it was.
LEMMA GoesOn ==
  ASSUME CacheInv, NEW c \in Callers, NEW next \in Remember, Go(c, next),
         next.key = caller[c].key, next.since = caller[c].since, next.older = caller[c].older,
         next.pc \in LoadSteps <=> caller[c].pc \in LoadSteps,
         next.pc = "waiting" => Pending(caller[c].key), Holds(next, floor),
         UNCHANGED <<backend, loads, source, time, floor>>,
         IsMap(entries'), NoneOlder(entries', floor), FitsIn(entries', backend)
  PROVE  CacheInv'
<1>1. RememberOK(c, caller[c], loads, floor)
  BY DEF CacheInv
<1>2. RememberOK(c, next, loads, floor)
  BY <1>1 DEF RememberOK, Since, Known, Pending
<1> QED
  BY <1>2, OneMoves

LEMMA SameEntries ==
  ASSUME CacheInv, UNCHANGED entries
  PROVE  IsMap(entries') /\ NoneOlder(entries', floor) /\ FitsIn(entries', backend)
BY DEF CacheInv, CacheTypeOK

LEMMA ShareKeeps ==
  ASSUME CacheInv, NEW c \in Callers, Share(c)
  PROVE  CacheInv'
<1> DEFINE next == [caller[c] EXCEPT !.pc = "waiting"]
<1>1. caller[c] \in Remember /\ caller[c].pc = "missed" /\ Pending(caller[c].key)
  BY DEF CacheInv, CacheTypeOK, Share, At
<1>2. /\ next \in Remember /\ next.pc = "waiting" /\ next.key = caller[c].key
      /\ next.since = caller[c].since /\ next.older = caller[c].older
  BY <1>1 DEF Remember
<1>3. Go(c, next) /\ UNCHANGED <<backend, entries, loads, source, time, floor>>
  BY DEF Share
<1> HIDE DEF next
<1>4. next.pc \notin LoadSteps /\ caller[c].pc \notin LoadSteps /\ Holds(next, floor)
  BY <1>1, <1>2 DEF LoadSteps, Holds
<1> QED
  BY <1>1, <1>2, <1>3, <1>4, SameEntries, GoesOn

LEMMA LoadKeeps ==
  ASSUME CacheInv, NEW c \in Callers, Load(c)
  PROVE  CacheInv'
<1> DEFINE next == [caller[c] EXCEPT !.pc = "loading"]
           mine == caller[c].key
<1>1. caller[c] \in Remember /\ caller[c].pc = "missed" /\ mine \in CacheKeys /\ loads[mine] = Nowhere
  BY DEF CacheInv, CacheTypeOK, Load, At, Pending, Remember
<1>2. /\ next \in Remember /\ next.pc = "loading" /\ next.key = mine
      /\ next.since = caller[c].since /\ next.older = caller[c].older
  BY <1>1 DEF Remember, LoadSteps
<1> HIDE DEF next
<1>3. caller' \in [Callers -> Remember] /\ \A d \in Callers : caller'[d] = IF d = c THEN next ELSE caller[d]
  BY <1>2 DEF CacheInv, CacheTypeOK, Load, Go, next
<1>4. /\ loads' \in [CacheKeys -> Callers \cup {Nowhere}]
      /\ \A k \in CacheKeys : loads'[k] = IF k = mine THEN c ELSE loads[k]
  BY <1>1 DEF CacheInv, CacheTypeOK, Load
<1>5. UNCHANGED <<backend, entries, source, time, floor>>
  BY DEF Load
<1>6. CacheTypeOK'
  BY <1>3, <1>4, <1>5 DEF CacheInv, CacheTypeOK
<1>7. ASSUME NEW d \in Callers
      PROVE  RememberOK(d, caller'[d], loads', floor)
  <2>1. RememberOK(d, caller[d], loads, floor) /\ RememberOK(c, caller[c], loads, floor)
    BY DEF CacheInv
  <2>2. CASE d = c
    <3>1. \A k \in CacheKeys : loads[k] # c
      BY <1>1, <2>1, <2>2 DEF RememberOK, Known, LoadSteps
    <3>2. Known(c, next, loads')
      BY <1>2, <1>4, <3>1 DEF Known, LoadSteps
    <3> QED
      BY <1>2, <1>3, <2>1, <2>2, <3>2 DEF RememberOK, Since, Holds
  <2>3. CASE d # c
    <3>1. caller[d] \in Remember /\ caller[d].key \in CacheKeys
      BY DEF CacheInv, CacheTypeOK, Remember
    <3>2. c # Nowhere /\ d # Nowhere
      BY CacheAssumption
    <3>3. Known(d, caller[d], loads')
      BY <1>1, <1>4, <2>1, <2>3, <3>1, <3>2 DEF RememberOK, Known
    <3> QED
      BY <1>3, <2>1, <2>3, <3>3 DEF RememberOK
  <2> QED
    BY <2>2, <2>3
<1> QED
  BY <1>5, <1>6, <1>7 DEF CacheInv

LEMMA LoadedKeeps ==
  ASSUME CacheInv, NEW c \in Callers, Loaded(c)
  PROVE  CacheInv'
<1> DEFINE v == source[caller[c].key]
           next == [caller[c] EXCEPT !.pc = IF v = Absent THEN "settling" ELSE "storing", !.value = v]
<1>1. caller[c] \in Remember /\ caller[c].pc = "loading" /\ caller[c].key \in CacheKeys
  BY DEF CacheInv, CacheTypeOK, Loaded, At, Remember
<1>2. v \in Nat /\ floor[caller[c].key] <= v
  BY <1>1 DEF CacheInv, CacheTypeOK
<1>3. Go(c, next) /\ UNCHANGED <<backend, entries, loads, source, time, floor>>
  BY DEF Loaded
<1> HIDE DEF v
<1>4. /\ next \in Remember /\ next.pc \in {"storing", "settling"} /\ next.key = caller[c].key
      /\ next.value = v /\ next.since = caller[c].since /\ next.older = caller[c].older
  BY <1>1, <1>2 DEF Remember, LoadSteps
<1> HIDE DEF next
<1>5. /\ next.pc \in LoadSteps /\ caller[c].pc \in LoadSteps /\ next.pc # "waiting"
      /\ Holds(next, floor)
  BY <1>1, <1>2, <1>4 DEF LoadSteps, Holds
<1> QED
  BY <1>3, <1>4, <1>5, SameEntries, GoesOn

LEMMA LoadFailsKeeps ==
  ASSUME CacheInv, NEW c \in Callers, LoadFails(c)
  PROVE  CacheInv'
<1> DEFINE next == [caller[c] EXCEPT !.pc = "failing"]
<1>1. caller[c] \in Remember /\ caller[c].pc = "loading"
  BY DEF CacheInv, CacheTypeOK, LoadFails, At
<1>2. /\ next \in Remember /\ next.pc = "failing" /\ next.key = caller[c].key
      /\ next.since = caller[c].since /\ next.older = caller[c].older
  BY <1>1 DEF Remember, LoadSteps
<1>3. Go(c, next) /\ UNCHANGED <<backend, entries, loads, source, time, floor>>
  BY DEF LoadFails
<1> HIDE DEF next
<1>4. next.pc \in LoadSteps /\ caller[c].pc \in LoadSteps /\ Holds(next, floor)
  BY <1>1, <1>2 DEF LoadSteps, Holds
<1> QED
  BY <1>2, <1>3, <1>4, SameEntries, GoesOn

LEMMA WithoutNoneOlder ==
  ASSUME CacheTypeOK, NoneOlder(entries, floor), NEW k, NEW least,
         \A j \in CacheKeys : j # k => least[j] = floor[j]
  PROVE  IsMap(Without(k)) /\ NoneOlder(Without(k), least)
<1>1. /\ IsMap(Without(k)) /\ Among(Without(k), entries)
      /\ \A i \in DOMAIN Without(k) : Without(k)[i].key # k
  BY WithoutMap DEF CacheTypeOK
<1>2. ASSUME NEW i \in DOMAIN Without(k)
      PROVE  Without(k)[i].value >= least[Without(k)[i].key]
  <2>1. PICK j \in DOMAIN entries : Without(k)[i] = entries[j]
    BY <1>1 DEF Among
  <2>2. entries[j] \in Entry /\ entries[j].value >= floor[entries[j].key]
    BY DEF CacheTypeOK, IsMap, NoneOlder
  <2>3. entries[j].key \in CacheKeys /\ entries[j].key # k
    BY <1>1, <2>1, <2>2 DEF Entry
  <2> QED
    BY <2>1, <2>2, <2>3
<1> QED
  BY <1>1, <1>2 DEF NoneOlder

LEMMA StoredNoneOlder ==
  ASSUME CacheTypeOK, NoneOlder(entries, floor), NEW k \in CacheKeys, NEW v \in Nat, NEW least,
         \A j \in CacheKeys : j # k => least[j] = floor[j], v >= least[k]
  PROVE  IsMap(Stored(k, v)) /\ NoneOlder(Stored(k, v), least) /\ FitsIn(Stored(k, v), backend)
<1> DEFINE e == [key |-> k, value |-> v, expiresAt |-> time + Ttl]
<1>1. NoneOlder(Without(k), least)
  BY WithoutNoneOlder
<1>2. LeavesWith(Stored(k, v), Without(k), e) /\ FitsIn(Stored(k, v), backend)
  BY StoredMap
<1>3. e.value >= least[e.key]
  OBVIOUS
<1> HIDE DEF e
<1> QED
  BY <1>1, <1>2, <1>3 DEF LeavesWith, NoneOlder

\* A write raises the floor of its own key only, to the source, and only if no load of it is under way.
LEMMA RaiseKeeps ==
  ASSUME CacheInv, NEW k \in CacheKeys, Raise(k)
  PROVE  /\ floor' \in [CacheKeys -> Nat] /\ \A j \in CacheKeys : floor'[j] <= source[j]
         /\ \A j \in CacheKeys : j # k => floor'[j] = floor[j]
         /\ \A c \in Callers : RememberOK(c, caller[c], loads, floor')
<1>1. /\ floor \in [CacheKeys -> Nat] /\ source \in [CacheKeys -> Nat]
      /\ \A j \in CacheKeys : floor[j] <= source[j]
  BY DEF CacheInv, CacheTypeOK
<1>2. /\ floor' \in [CacheKeys -> Nat]
      /\ \A j \in CacheKeys : /\ floor[j] <= floor'[j] /\ floor'[j] <= source[j]
                              /\ (j # k \/ loads[k] # Nowhere) => floor'[j] = floor[j]
  BY <1>1 DEF Raise
<1>3. ASSUME NEW c \in Callers
      PROVE  RememberOK(c, caller[c], loads, floor')
  <2>1. RememberOK(c, caller[c], loads, floor)
    BY DEF CacheInv
  <2>2. caller[c] \in Remember /\ caller[c].key \in CacheKeys /\ caller[c].since \in Nat
    BY DEF CacheInv, CacheTypeOK, Remember
  <2>3. Since(caller[c], floor')
    BY <1>1, <1>2, <2>1, <2>2 DEF RememberOK, Since
  <2>4. Holds(caller[c], floor')
    <3>1. CASE caller[c].pc \in {"storing", "settling"}
      <4>1. loads[caller[c].key] = c /\ c # Nowhere
        BY <2>1, <2>2, <3>1, CacheAssumption DEF RememberOK, Known, LoadSteps
      <4>2. floor'[caller[c].key] = floor[caller[c].key]
        BY <1>2, <2>2, <4>1
      <4> QED
        BY <2>1, <4>2 DEF RememberOK, Holds
    <3> QED
      BY <3>1 DEF Holds
  <2> QED
    BY <2>1, <2>3, <2>4 DEF RememberOK
<1> QED
  BY <1>2, <1>3

LEMMA SaveKeeps ==
  ASSUME CacheInv, NEW c \in Callers, Save(c)
  PROVE  CacheInv'
<1> DEFINE k == caller[c].key
           v == caller[c].value
<1>1. caller[c] \in Remember /\ caller[c].pc = "storing" /\ k \in CacheKeys /\ v \in Nat
  BY DEF CacheInv, CacheTypeOK, Save, At, Remember
<1>2. RememberOK(c, caller[c], loads, floor)
  BY DEF CacheInv
<1>3. v >= floor[k]
  BY <1>1, <1>2 DEF RememberOK, Holds
<1>4. IsMap(Stored(k, v)) /\ NoneOlder(Stored(k, v), floor) /\ FitsIn(Stored(k, v), backend)
  BY <1>1, <1>3, StoredNoneOlder DEF CacheInv
<1>5. /\ entries' \in {entries, Stored(k, v)}
      /\ Go(c, [caller[c] EXCEPT !.pc = "settling"]) \/ Go(c, [caller[c] EXCEPT !.pc = "failing"])
      /\ UNCHANGED <<backend, loads, source, time, floor>>
  BY DEF Save
<1>6. IsMap(entries') /\ NoneOlder(entries', floor) /\ FitsIn(entries', backend)
  BY <1>4, <1>5 DEF CacheInv, CacheTypeOK
<1>7. ASSUME NEW to \in {"settling", "failing"}, Go(c, [caller[c] EXCEPT !.pc = to])
      PROVE  CacheInv'
  <2> DEFINE next == [caller[c] EXCEPT !.pc = to]
  <2>1. /\ next \in Remember /\ next.pc = to /\ next.key = k /\ next.value = v
        /\ next.since = caller[c].since /\ next.older = caller[c].older
    BY <1>1 DEF Remember, LoadSteps
  <2>2. Go(c, next)
    BY <1>7
  <2> HIDE DEF next
  <2>3. next.pc \in LoadSteps /\ caller[c].pc \in LoadSteps /\ next.pc # "waiting" /\ Holds(next, floor)
    BY <1>1, <1>3, <2>1 DEF LoadSteps, Holds
  <2> QED
    BY <1>5, <1>6, <2>1, <2>2, <2>3, GoesOn
<1> QED
  BY <1>5, <1>7

LEMMA SettleKeeps ==
  ASSUME CacheInv, NEW c \in Callers, Settle(c)
  PROVE  CacheInv'
<1> DEFINE mine == caller[c].key
           v == caller[c].value
           Goes(d) == d = c \/ (At(d, "waiting") /\ caller[d].key = mine)
           next(d) == IF At(c, "failing") THEN Away ELSE Returned(v, caller[d].since)
<1>1. caller[c] \in Remember /\ caller[c].pc \in {"settling", "failing"} /\ mine \in CacheKeys /\ v \in Nat
  BY DEF CacheInv, CacheTypeOK, Settle, Over, Remember
<1>2. \A d \in Callers : RememberOK(d, caller[d], loads, floor) /\ caller[d] \in Remember
  BY DEF CacheInv, CacheTypeOK
<1>3. c # Nowhere /\ loads[mine] = c
  BY <1>1, <1>2, CacheAssumption DEF RememberOK, Known, LoadSteps
<1>4. floor \in [CacheKeys -> Nat]
  BY DEF CacheInv, CacheTypeOK
<1>5. ASSUME NEW d \in Callers, Goes(d)
      PROVE  next(d) = Away
  <2>1. CASE At(c, "failing")
    BY <2>1
  <2>2. CASE ~ At(c, "failing")
    <3>1. v >= floor[mine]
      BY <1>1, <1>2, <2>2 DEF RememberOK, Holds, At
    <3>2. caller[d].key = mine /\ caller[d].since \in Nat /\ caller[d].since <= floor[mine]
      BY <1>2, <1>5 DEF RememberOK, Since, Remember
    <3>3. floor[mine] \in Nat /\ v >= caller[d].since
      BY <1>1, <1>4, <3>1, <3>2
    <3> QED
      BY <1>1, <2>2, <3>2, <3>3, ReturnedAway
  <2> QED
    BY <2>1, <2>2
<1>6. /\ caller' = [d \in Callers |-> IF Goes(d) THEN next(d) ELSE caller[d]]
      /\ loads' = [loads EXCEPT ![mine] = Nowhere] /\ UNCHANGED <<backend, entries, source, time, floor>>
  BY DEF Settle
<1> HIDE DEF next
<1>7. /\ caller' \in [Callers -> Remember]
      /\ \A d \in Callers : caller'[d] = IF Goes(d) THEN Away ELSE caller[d]
  BY <1>2, <1>5, <1>6, AwayOK
<1>8. /\ loads' \in [CacheKeys -> Callers \cup {Nowhere}]
      /\ \A k \in CacheKeys : loads'[k] = IF k = mine THEN Nowhere ELSE loads[k]
  BY <1>1, <1>6 DEF CacheInv, CacheTypeOK
<1>9. CacheTypeOK'
  BY <1>6, <1>7, <1>8 DEF CacheInv, CacheTypeOK
<1>10. ASSUME NEW d \in Callers
       PROVE  RememberOK(d, caller'[d], loads', floor)
  <2>1. d # Nowhere /\ caller[d].key \in CacheKeys
    BY <1>2, CacheAssumption DEF Remember
  <2>2. CASE Goes(d)
    <3>1. \A k \in CacheKeys : loads'[k] # d
      BY <1>1, <1>2, <1>3, <1>8, <2>1, <2>2 DEF RememberOK, Known, LoadSteps, At
    <3>2. floor[Away.key] \in Nat
      BY <1>4, AwayOK
    <3>3. RememberOK(d, Away, loads', floor)
      BY <3>1, <3>2, AwayOK DEF RememberOK, Since, Holds, Known, LoadSteps, Absent
    <3> QED
      BY <1>7, <2>2, <3>3
  <2>3. CASE ~ Goes(d)
    <3>1. d # c /\ ~ (caller[d].pc = "waiting" /\ caller[d].key = mine)
      BY <2>3 DEF At
    <3>2. Known(d, caller[d], loads')
      BY <1>2, <1>3, <1>8, <2>1, <3>1 DEF RememberOK, Known
    <3> QED
      BY <1>2, <1>7, <2>3, <3>2 DEF RememberOK
  <2> QED
    BY <2>2, <2>3
<1> QED
  BY <1>6, <1>9, <1>10 DEF CacheInv

LEMMA WriteKeeps ==
  ASSUME CacheInv, NEW k \in CacheKeys, Write(k)
  PROVE  CacheInv'
<1>1. /\ source' \in [CacheKeys -> Nat] /\ \A j \in CacheKeys : floor[j] <= source'[j]
      /\ UNCHANGED <<backend, entries, loads, caller, time, floor>>
  BY DEF CacheInv, CacheTypeOK, Write
<1> QED
  BY <1>1 DEF CacheInv, CacheTypeOK

LEMMA WritersKeep ==
  ASSUME CacheInv, NEW k \in CacheKeys, set(k) \/ delete(k)
  PROVE  CacheInv'
<1>1. Raise(k) /\ UNCHANGED <<backend, loads, caller, source, time>>
  BY DEF set, delete
<1>2. /\ floor' \in [CacheKeys -> Nat] /\ \A j \in CacheKeys : floor'[j] <= source[j]
      /\ \A j \in CacheKeys : j # k => floor'[j] = floor[j]
      /\ \A c \in Callers : RememberOK(c, caller[c], loads, floor')
  BY <1>1, RaiseKeeps
<1>3. CacheTypeOK /\ NoneOlder(entries, floor) /\ FitsIn(entries, backend) /\ source[k] \in Nat
  BY DEF CacheInv, CacheTypeOK
<1>4. IsMap(entries') /\ NoneOlder(entries', floor') /\ FitsIn(entries', backend)
  <2>1. CASE set(k)
    <3>1. IsMap(Stored(k, source[k])) /\ NoneOlder(Stored(k, source[k]), floor') /\ FitsIn(Stored(k, source[k]), backend)
      BY <1>2, <1>3, StoredNoneOlder
    <3> QED
      BY <2>1, <3>1 DEF set
  <2>2. CASE delete(k)
    <3>1. IsMap(Without(k)) /\ NoneOlder(Without(k), floor')
      BY <1>2, <1>3, WithoutNoneOlder
    <3>2. FitsIn(Without(k), backend)
      BY <1>3, KeptMap
    <3> QED
      BY <2>2, <3>1, <3>2 DEF delete
  <2> QED
    BY <2>1, <2>2
<1> QED
  BY <1>1, <1>2, <1>3, <1>4 DEF CacheInv, CacheTypeOK

LEMMA DropsKeep ==
  ASSUME CacheInv, sweep \/ \E k \in CacheKeys : has(k)
  PROVE  CacheInv'
<1>1. CacheTypeOK /\ NoneOlder(entries, floor) /\ FitsIn(entries, backend)
  BY DEF CacheInv
<1>2. UNCHANGED <<backend, loads, caller, source, time, floor>>
  BY DEF sweep, has
<1>3. Leaves(entries', entries) /\ FitsIn(entries', backend)
  BY <1>1, SweptMap, KeptMap DEF has
<1>4. IsMap(entries') /\ NoneOlder(entries', floor)
  BY <1>1, <1>3, LeavesNoneOlder
<1> QED
  BY <1>1, <1>2, <1>3, <1>4 DEF CacheInv, CacheTypeOK

LEMMA CacheTickKeeps == CacheInv /\ (CacheTick \/ UNCHANGED cacheVars) => CacheInv'
<1> SUFFICES ASSUME CacheInv, CacheTick \/ UNCHANGED cacheVars PROVE CacheInv'
  OBVIOUS
<1>1. time' \in Nat /\ UNCHANGED <<backend, entries, loads, caller, source, floor>>
  BY DEF CacheInv, CacheTypeOK, CacheTick, cacheVars
<1> QED
  BY <1>1 DEF CacheInv, CacheTypeOK

LEMMA CacheStep == CacheInv /\ [CacheNext]_cacheVars => CacheInv'
<1> SUFFICES ASSUME CacheInv, [CacheNext]_cacheVars PROVE CacheInv'
  OBVIOUS
<1>1. ASSUME NEW c \in Callers, NEW k \in CacheKeys, Lookup(c, k) PROVE CacheInv'
  BY <1>1, LookupKeeps
<1>2. ASSUME NEW c \in Callers, Continues(c) PROVE CacheInv'
  BY <1>2, ShareKeeps, LoadKeeps, SaveKeeps, SettleKeeps DEF Continues
<1>3. ASSUME NEW c \in Callers, Loads(c) PROVE CacheInv'
  BY <1>3, LoadedKeeps, LoadFailsKeeps DEF Loads
<1>4. ASSUME NEW k \in Written, Write(k) PROVE CacheInv'
  BY <1>4, CacheAssumption, WriteKeeps
<1>5. ASSUME NEW k \in CacheKeys, set(k) \/ delete(k) PROVE CacheInv'
  BY <1>5, WritersKeep
<1>6. CASE sweep \/ \E k \in CacheKeys : has(k)
  BY <1>6, DropsKeep
<1>7. CASE CacheTick \/ UNCHANGED cacheVars
  BY <1>7, CacheTickKeeps
<1> QED
  BY <1>1, <1>2, <1>3, <1>4, <1>5, <1>6, <1>7 DEF CacheNext

LEMMA CacheInvGives == CacheInv => OneLoadPerKey /\ WritesLast /\ WithinCapacity
<1> SUFFICES ASSUME CacheInv PROVE OneLoadPerKey /\ WritesLast /\ WithinCapacity
  OBVIOUS
<1>1. ASSUME NEW k \in CacheKeys
      PROVE  /\ {c \in Callers : caller[c].key = k /\ caller[c].pc \in LoadSteps}
                = IF loads[k] = Nowhere THEN {} ELSE {loads[k]}
             /\ loads[k] = Nowhere => {c \in Callers : caller[c].key = k /\ caller[c].pc \in {"waiting"}} = {}
  <2>1. \A c \in Callers : /\ loads[k] = c <=> caller[c].key = k /\ caller[c].pc \in LoadSteps
                           /\ c # Nowhere
                           /\ caller[c].pc = "waiting" => loads[caller[c].key] # Nowhere
    BY CacheAssumption DEF CacheInv, RememberOK, Known
  <2>2. loads[k] \in Callers \cup {Nowhere}
    BY DEF CacheInv, CacheTypeOK
  <2> QED
    BY <2>1, <2>2
<1>2. OneLoadPerKey
  BY <1>1 DEF OneLoadPerKey, LoadSteps
<1>3. \A c \in Callers : ~ caller[c].older
  BY DEF CacheInv, RememberOK
<1>4. \A e \in ToSet(entries) : e.value >= floor[e.key]
  BY DEF CacheInv, NoneOlder, ToSet
<1>5. WithinCapacity
  BY DEF CacheInv, CacheTypeOK, IsMap, OnceEach, FitsIn, WithinCapacity
<1> QED
  BY <1>2, <1>3, <1>4, <1>5 DEF WritesLast

CacheSpec == CacheInit /\ [][CacheNext]_cacheVars

\* One load per key, no older answer after a write that met no load, and the
\* Map within its capacity with every key once, whatever the callers do.
THEOREM CacheCorrect == CacheSpec => [](OneLoadPerKey /\ WritesLast /\ WithinCapacity)
<1>1. CacheInit => CacheInv
  BY CacheInitHolds
<1>2. CacheInv /\ [CacheNext]_cacheVars => CacheInv'
  BY CacheStep
<1>3. CacheInv => OneLoadPerKey /\ WritesLast /\ WithinCapacity
  BY CacheInvGives
<1> QED
  BY <1>1, <1>2, <1>3, PTL DEF CacheSpec

-----------------------------------------------------------------------------
\* Routes: what a recursive definition gives.

LEMMA Least ==
  ASSUME NEW T, T \subseteq Nat, T # {}
  PROVE  \E x \in T : \A y \in T : x <= y
<1>1. PICK x \in T : \A y \in T : ~ (<<y, x>> \in OpToRel(<, Nat))
  BY NatLessThanWellFounded, WFMin
<1>2. \A y \in T : ~ (y < x)
  BY <1>1 DEF OpToRel
<1> QED
  BY <1>2

\* A definition by recursion that looks at what has a lower rank only has a function that fulfils it.
WellFounded(S, V, rank, Body) ==
  /\ V # {} /\ rank \in [S -> Nat] /\ Body \in [[S -> V] -> [S -> V]]
  /\ \A f, g \in [S -> V], x \in S : (\A y \in S : rank[y] < rank[x] => f[y] = g[y]) => Body[f][x] = Body[g][x]

LEMMA RecursionHolds ==
  ASSUME NEW S, NEW V, NEW rank, NEW Body, WellFounded(S, V, rank, Body)
  PROVE  \E f \in [S -> V] : f = Body[f]
<1>0. /\ V # {} /\ rank \in [S -> Nat] /\ Body \in [[S -> V] -> [S -> V]]
      /\ \A f, g \in [S -> V], x \in S : (\A y \in S : rank[y] < rank[x] => f[y] = g[y]) => Body[f][x] = Body[g][x]
  BY DEF WellFounded
<1> USE <1>0
<1> DEFINE Upto(n, f) == \A x \in S : rank[x] < n => f[x] = Body[f][x]
<1>1. ASSUME NEW n \in Nat
      PROVE  \E f \in [S -> V] : Upto(n, f)
  <2> DEFINE Bad == {m \in Nat : ~ \E f \in [S -> V] : Upto(m, f)}
  <2>1. SUFFICES ASSUME Bad # {} PROVE FALSE
    OBVIOUS
  <2>2. PICK m \in Bad : \A k \in Bad : m <= k
    BY <2>1, Least
  <2>3. 0 \notin Bad
    <3>1. PICK v \in V : TRUE
      OBVIOUS
    <3>2. [x \in S |-> v] \in [S -> V] /\ Upto(0, [x \in S |-> v])
      OBVIOUS
    <3> QED
      BY <3>2
  <2>4. m - 1 \in Nat /\ m - 1 \notin Bad
    BY <2>2, <2>3
  <2>5. PICK f \in [S -> V] : Upto(m - 1, f)
    BY <2>4
  <2>6. PICK g \in [S -> V] : g = Body[f]
    OBVIOUS
  <2>7. ASSUME NEW x \in S, rank[x] < m
        PROVE  g[x] = Body[g][x]
    <3>1. ASSUME NEW y \in S, rank[y] < rank[x]
          PROVE  f[y] = g[y]
      <4>1. rank[y] < m - 1
        BY <2>2, <2>7, <3>1
      <4> QED
        BY <2>5, <2>6, <4>1
    <3>2. Body[f][x] = Body[g][x]
      BY <3>1
    <3> QED
      BY <2>6, <3>2
  <2>8. Upto(m, g)
    BY <2>7
  <2> QED
    BY <2>2, <2>8
<1>2. ASSUME NEW n \in Nat, NEW f \in [S -> V], NEW g \in [S -> V], Upto(n, f), Upto(n, g), NEW z \in S, rank[z] < n
      PROVE  f[z] = g[z]
  <2> DEFINE Differ == {rank[x] : x \in {x \in S : rank[x] < n /\ f[x] # g[x]}}
  <2> SUFFICES ASSUME f[z] # g[z] PROVE FALSE
    OBVIOUS
  <2>1. rank[z] \in Differ
    BY <1>2
  <2>2. Differ \subseteq Nat
    OBVIOUS
  <2>3. PICK m \in Differ : \A k \in Differ : m <= k
    BY <2>1, <2>2, Least
  <2>4. PICK x \in S : rank[x] = m /\ rank[x] < n /\ f[x] # g[x]
    BY <2>3
  <2>5. ASSUME NEW y \in S, rank[y] < rank[x]
        PROVE  f[y] = g[y]
    <3>1. rank[y] < n /\ ~ (m <= rank[y])
      BY <2>4, <2>5
    <3> QED
      BY <2>3, <3>1
  <2>6. Body[f][x] = Body[g][x]
    BY <2>5
  <2>7. f[x] = Body[f][x] /\ g[x] = Body[g][x]
    BY <1>2, <2>4
  <2> QED
    BY <2>4, <2>6, <2>7
<1> DEFINE Best(n) == CHOOSE f \in [S -> V] : Upto(n, f)
           F == [x \in S |-> Best(rank[x] + 1)[x]]
<1> HIDE DEF Upto
<1>3. \A n \in Nat : Best(n) \in [S -> V] /\ Upto(n, Best(n))
  BY <1>1
<1> HIDE DEF Best
<1>4. F \in [S -> V]
  BY <1>3
<1>5. ASSUME NEW x \in S
      PROVE  F[x] = Body[F][x]
  <2>1. PICK n, g : n = rank[x] + 1 /\ g = Best(n)
    OBVIOUS
  <2>2. n \in Nat /\ g \in [S -> V] /\ Upto(n, g) /\ F[x] = g[x] /\ rank[x] < n
    BY <1>3, <2>1
  <2>3. ASSUME NEW y \in S, rank[y] < rank[x]
        PROVE  g[y] = F[y]
    <3>1. PICK k, h : k = rank[y] + 1 /\ h = Best(k)
      OBVIOUS
    <3>2. k \in Nat /\ h \in [S -> V] /\ Upto(k, h) /\ F[y] = h[y] /\ rank[y] < k /\ k < n
      BY <1>3, <2>1, <2>3, <3>1
    <3>3. Upto(k, g)
      BY <2>2, <3>2 DEF Upto
    <3> QED
      BY <1>2, <2>2, <3>2, <3>3
  <2>4. Body[g][x] = Body[F][x]
    BY <1>4, <2>2, <2>3
  <2> QED
    BY <2>2, <2>4 DEF Upto
<1>6. F = Body[F]
  BY <1>4, <1>5
<1> QED
  BY <1>4, <1>6

\* Induction over the natural numbers of a set.
LEMMA Climb ==
  ASSUME NEW T, \A n \in Nat : (\A m \in Nat : m < n => m \in T) => n \in T
  PROVE  Nat \subseteq T
<1> SUFFICES ASSUME Nat \ T # {} PROVE FALSE
  OBVIOUS
<1>1. PICK n \in Nat \ T : \A m \in Nat \ T : n <= m
  BY Least
<1> QED
  BY <1>1

LEMMA FlattenIs ==
  ASSUME NEW X, NEW ss \in Seq(Seq(X)), ss # <<>>
  PROVE  \E F \in [1 .. Len(ss) -> Seq(X)] :
           /\ FlattenSeq(ss) = F[Len(ss)] /\ F[1] = ss[1]
           /\ \A i \in 1 .. Len(ss) - 1 : F[i + 1] = F[i] \o ss[i + 1]
<1>1. PICK size : size = Len(ss) /\ size \in Nat \ {0}
  BY LenProperties, SMTT(30)
<1> DEFINE S == 1 .. size
           V == Seq(X)
           Turn(f, i) == IF i = 1 THEN ss[i] ELSE f[i - 1] \o ss[i]
           Body == [f \in [S -> V] |-> [i \in S |-> Turn(f, i)]]
           rank == [i \in S |-> i]
<1>2. \A i \in S : ss[i] \in V
  BY <1>1, ElementOfSeq
<1>3. ASSUME NEW f \in [S -> V], NEW i \in S
      PROVE  Turn(f, i) \in V
  <2>1. CASE i = 1
    BY <1>2, <2>1
  <2>2. CASE i # 1
    <3>1. PICK before, here : before = f[i - 1] /\ here = ss[i]
      OBVIOUS
    <3>2. i - 1 \in S
      BY <1>1, <2>2
    <3>3. before \in Seq(X) /\ here \in Seq(X)
      BY <1>2, <3>1, <3>2
    <3>4. before \o here \in V
      BY <3>3, ConcatProperties
    <3> QED
      BY <2>2, <3>1, <3>4
  <2> QED
    BY <2>1, <2>2
<1>4. ASSUME NEW f \in [S -> V], NEW g \in [S -> V], NEW i \in S, \A j \in S : rank[j] < rank[i] => f[j] = g[j]
      PROVE  Turn(f, i) = Turn(g, i)
  <2>1. i # 1 => i - 1 \in S /\ f[i - 1] = g[i - 1]
    BY <1>1, <1>4
  <2> QED
    BY <2>1
<1> HIDE DEF Turn
<1>5. Body \in [[S -> V] -> [S -> V]] /\ rank \in [S -> Nat] /\ V # {}
  BY <1>1, <1>3, EmptySeq
<1>6. \A f, g \in [S -> V], i \in S : (\A j \in S : rank[j] < rank[i] => f[j] = g[j]) => Body[f][i] = Body[g][i]
  BY <1>4
<1>7. \E f \in [S -> V] : f = Body[f]
  <2>1. WellFounded(S, V, rank, Body)
    BY <1>5, <1>6 DEF WellFounded
  <2> HIDE DEF S, V, rank, Body
  <2> QED
    BY <2>1, RecursionHolds
<1>8. \E f : f = [i \in S |-> Turn(f, i)]
  BY <1>7
<1> DEFINE F == CHOOSE f : f = [i \in S |-> Turn(f, i)]
<1>9. F = [i \in S |-> Turn(F, i)]
  BY <1>8
<1>10. FlattenSeq(ss) = F[size]
  <2>1. Len(ss) # 0
    BY <1>1
  <2> QED
    BY <1>1, <2>1 DEF FlattenSeq, Turn
<1> HIDE DEF F
<1>11. PICK all : all = F /\ all = [i \in S |-> Turn(all, i)]
  BY <1>9
<1>12. all \in [S -> V]
  <2> DEFINE T == {i \in Nat : i \in S => all[i] \in V}
  <2>1. ASSUME NEW n \in Nat, \A m \in Nat : m < n => m \in T
        PROVE  n \in S => all[n] \in V
    <3> SUFFICES ASSUME n \in S PROVE all[n] \in V
      OBVIOUS
    <3>1. all[n] = IF n = 1 THEN ss[n] ELSE all[n - 1] \o ss[n]
      BY <1>11 DEF Turn
    <3>2. CASE n = 1
      BY <1>2, <3>1, <3>2
    <3>3. CASE n # 1
      <4>1. n - 1 \in Nat /\ n - 1 < n /\ n - 1 \in S
        BY <1>1, <3>3
      <4>2. n - 1 \in T
        BY <2>1, <4>1
      <4>3. PICK before, here : before = all[n - 1] /\ here = ss[n]
        OBVIOUS
      <4>4. before \in Seq(X) /\ here \in Seq(X)
        BY <1>2, <4>1, <4>2, <4>3
      <4>5. before \o here \in V
        BY <4>4, ConcatProperties
      <4> QED
        BY <3>1, <3>3, <4>3, <4>5
    <3> QED
      BY <3>2, <3>3
  <2>2. \A n \in Nat : (\A m \in Nat : m < n => m \in T) => n \in T
    BY <2>1
  <2>3. Nat \subseteq T
    <3> HIDE DEF T
    <3> QED
      BY <2>2, Climb
  <2>4. \A i \in S : all[i] \in V
    BY <1>1, <2>3
  <2> QED
    BY <1>11, <2>4
<1>13. all[1] = ss[1] /\ \A i \in 1 .. size - 1 : all[i + 1] = all[i] \o ss[i + 1]
  <2>1. \A i \in S : all[i] = Turn(all, i)
    BY <1>11
  <2>2. 1 \in S /\ all[1] = ss[1]
    BY <1>1, <2>1 DEF Turn
  <2>3. ASSUME NEW i \in 1 .. size - 1
        PROVE  all[i + 1] = all[i] \o ss[i + 1]
    <3>1. i + 1 \in S /\ i + 1 # 1 /\ (i + 1) - 1 = i
      BY <1>1
    <3> QED
      BY <2>1, <3>1 DEF Turn
  <2> QED
    BY <2>2, <2>3
<1> QED
  BY <1>1, <1>10, <1>11, <1>12, <1>13

\* What is in two lists joined is in one of them.
LEMMA ConcatRange ==
  ASSUME NEW X, NEW a \in Seq(X), NEW b \in Seq(X), NEW x \in ToSet(a \o b)
  PROVE  x \in ToSet(a) \/ x \in ToSet(b)
<1>1. PICK m, n : m = Len(a) /\ n = Len(b)
  OBVIOUS
<1>2. m \in Nat /\ n \in Nat /\ DOMAIN a = 1 .. m /\ DOMAIN b = 1 .. n
  BY <1>1, LenProperties
<1>3. PICK whole : whole = a \o b
  OBVIOUS
<1>4. whole \in Seq(X) /\ Len(whole) = m + n /\ \A k \in 1 .. m + n : whole[k] = IF k <= m THEN a[k] ELSE b[k - m]
  BY <1>1, <1>3, ConcatProperties
<1>5. PICK k \in 1 .. m + n : x = whole[k]
  BY <1>3, <1>4, LenProperties DEF ToSet
<1>6. CASE k <= m
  <2>1. k \in DOMAIN a /\ x = a[k]
    BY <1>2, <1>4, <1>5, <1>6
  <2> QED
    BY <2>1 DEF ToSet
<1>7. CASE m < k
  <2>1. k - m \in DOMAIN b /\ x = b[k - m]
    BY <1>2, <1>4, <1>5, <1>7
  <2> QED
    BY <2>1 DEF ToSet
<1>8. k <= m \/ m < k
  BY <1>2
<1> QED
  BY <1>6, <1>7, <1>8

\* What is in a list of lists flattened comes from one of them, and a first one comes first.
LEMMA FlattenRange ==
  ASSUME NEW X, NEW ss \in Seq(Seq(X))
  PROVE  FlattenSeq(ss) \in Seq(X) /\ \A x \in ToSet(FlattenSeq(ss)) : \E n \in DOMAIN ss : x \in ToSet(ss[n])
<1>1. CASE ss = <<>>
  <2>1. FlattenSeq(ss) = <<>>
    BY <1>1 DEF FlattenSeq
  <2> QED
    BY <2>1 DEF ToSet
<1>2. CASE ss # <<>>
  <2>1. PICK size : size = Len(ss) /\ size \in Nat \ {0} /\ DOMAIN ss = 1 .. size
    BY <1>2, LenProperties, SMTT(30)
  <2>2. PICK F \in [1 .. size -> Seq(X)] : /\ FlattenSeq(ss) = F[size] /\ F[1] = ss[1]
                                           /\ \A i \in 1 .. size - 1 : F[i + 1] = F[i] \o ss[i + 1]
    BY <1>2, <2>1, FlattenIs, ZenonT(40)
  <2>3. \A i \in 1 .. size : ss[i] \in Seq(X)
    BY <2>1, ElementOfSeq
  <2> DEFINE T == {i \in Nat : i \in 1 .. size => \A x \in ToSet(F[i]) : \E n \in 1 .. size : x \in ToSet(ss[n])}
  <2>4. ASSUME NEW i \in Nat, \A m \in Nat : m < i => m \in T, i \in 1 .. size, NEW x \in ToSet(F[i])
        PROVE  \E n \in 1 .. size : x \in ToSet(ss[n])
    <3>1. CASE i = 1
      BY <2>2, <2>4, <3>1
    <3>2. CASE i # 1
      <4>1. i - 1 \in 1 .. size - 1 /\ i - 1 \in 1 .. size /\ i - 1 < i /\ i - 1 \in Nat /\ (i - 1) + 1 = i
        BY <2>1, <2>4, <3>2
      <4>2. PICK before, here : before = F[i - 1] /\ here = ss[i] /\ F[i] = before \o here
        BY <2>2, <4>1
      <4>3. before \in Seq(X) /\ here \in Seq(X)
        BY <2>2, <2>3, <2>4, <4>1, <4>2
      <4>4. x \in ToSet(before) \/ x \in ToSet(here)
        <5>1. x \in ToSet(before \o here)
          BY <2>4, <4>2
        <5> QED
          BY <4>3, <5>1, ConcatRange
      <4>5. i - 1 \in T
        BY <2>4, <4>1
      <4> QED
        BY <2>4, <4>1, <4>2, <4>4, <4>5
    <3> QED
      BY <3>1, <3>2
  <2>5. \A n \in Nat : (\A m \in Nat : m < n => m \in T) => n \in T
    BY <2>4
  <2>6. Nat \subseteq T
    <3> HIDE DEF T
    <3> QED
      BY <2>5, Climb
  <2>7. \A x \in ToSet(F[size]) : \E n \in 1 .. size : x \in ToSet(ss[n])
    <3>1. size \in T /\ size \in 1 .. size
      <4> HIDE DEF T
      <4> QED
        BY <2>1, <2>6
    <3> QED
      BY <3>1
  <2>8. F[size] \in Seq(X)
    BY <2>1, <2>2
  <2> HIDE DEF T
  <2> QED
    BY <2>1, <2>2, <2>7, <2>8
<1> QED
  BY <1>1, <1>2

LEMMA FlattenCons ==
  ASSUME NEW X, NEW a \in Seq(X), NEW ss \in Seq(Seq(X))
  PROVE  FlattenSeq(<<a>> \o ss) = a \o FlattenSeq(ss)
<1>1. PICK whole : whole = <<a>> \o ss
  OBVIOUS
<1>2. PICK size : size = Len(ss) /\ size \in Nat /\ DOMAIN ss = 1 .. size
  BY LenProperties
<1>3. PICK first : first = <<a>>
  OBVIOUS
<1> DEFINE lists == Seq(X)
<1>30. first \in Seq(lists) /\ Len(first) = 1 /\ first[1] = a
  <2> HIDE DEF lists
  <2>1. a \in lists
    BY DEF lists
  <2> QED
    BY <1>3, <2>1
<1>4. /\ whole \in Seq(Seq(X)) /\ Len(whole) = size + 1 /\ whole[1] = a
      /\ \A i \in 1 .. size : whole[i + 1] = ss[i]
  <2>1. /\ whole \in Seq(Seq(X)) /\ Len(whole) = 1 + size
        /\ \A k \in 1 .. 1 + size : whole[k] = IF k <= 1 THEN first[k] ELSE ss[k - 1]
    BY <1>1, <1>2, <1>3, <1>30, ConcatProperties
  <2> QED
    BY <1>2, <1>30, <2>1
<1>5. PICK G \in [1 .. size + 1 -> Seq(X)] : /\ FlattenSeq(whole) = G[size + 1] /\ G[1] = a
                                             /\ \A i \in 1 .. size : G[i + 1] = G[i] \o whole[i + 1]
  <2>1. whole # <<>>
    BY <1>2, <1>4
  <2>2. PICK count : count = Len(whole) /\ count = size + 1
    BY <1>4
  <2>3. PICK G \in [1 .. count -> Seq(X)] : /\ FlattenSeq(whole) = G[count] /\ G[1] = whole[1]
                                           /\ \A i \in 1 .. count - 1 : G[i + 1] = G[i] \o whole[i + 1]
    <3>1. whole \in Seq(Seq(X))
      BY <1>4
    <3>2. \E G \in [1 .. Len(whole) -> Seq(X)] :
            /\ FlattenSeq(whole) = G[Len(whole)] /\ G[1] = whole[1]
            /\ \A i \in 1 .. Len(whole) - 1 : G[i + 1] = G[i] \o whole[i + 1]
      BY <2>1, <3>1, FlattenIs
    <3> QED
      BY <2>2, <3>2
  <2>4. count - 1 = size
    BY <1>2, <2>2
  <2> QED
    BY <1>4, <2>2, <2>3, <2>4
<1>6. CASE ss = <<>>
  <2>1. FlattenSeq(ss) = <<>> /\ size = 0
    BY <1>2, <1>6 DEF FlattenSeq
  <2>2. a \o <<>> = a
    BY ConcatEmptySeq
  <2> QED
    BY <1>1, <1>5, <2>1, <2>2
<1>7. CASE ss # <<>>
  <2>1. size \in Nat \ {0}
    BY <1>2, <1>7, LenProperties
  <2>2. PICK F \in [1 .. size -> Seq(X)] : /\ FlattenSeq(ss) = F[size] /\ F[1] = ss[1]
                                           /\ \A i \in 1 .. size - 1 : F[i + 1] = F[i] \o ss[i + 1]
    BY <1>2, <1>7, FlattenIs
  <2>3. \A i \in 1 .. size : ss[i] \in Seq(X)
    BY <1>2, ElementOfSeq
  <2> DEFINE T == {i \in Nat : i \in 1 .. size => G[i + 1] = a \o F[i]}
  <2>4. ASSUME NEW i \in Nat, \A m \in Nat : m < i => m \in T, i \in 1 .. size
        PROVE  G[i + 1] = a \o F[i]
    <3>1. G[i + 1] = G[i] \o ss[i]
      BY <1>4, <1>5, <2>4
    <3>2. CASE i = 1
      BY <1>5, <2>2, <3>1, <3>2
    <3>3. CASE i # 1
      <4>1. i - 1 \in 1 .. size - 1 /\ i - 1 \in 1 .. size /\ i - 1 < i /\ i - 1 \in Nat /\ (i - 1) + 1 = i
        BY <2>1, <2>4, <3>3
      <4>2. i - 1 \in T
        BY <2>4, <4>1
      <4>3. PICK before, here : before = F[i - 1] /\ here = ss[i]
        OBVIOUS
      <4>4. before \in Seq(X) /\ here \in Seq(X)
        BY <2>3, <2>4, <4>1, <4>3
      <4>5. G[i] = a \o before /\ F[i] = before \o here /\ G[i + 1] = (a \o before) \o here
        BY <2>2, <3>1, <4>1, <4>2, <4>3
      <4>6. (a \o before) \o here = a \o (before \o here)
        BY <4>4, ConcatAssociative
      <4> QED
        BY <4>5, <4>6
    <3> QED
      BY <3>2, <3>3
  <2>5. \A n \in Nat : (\A m \in Nat : m < n => m \in T) => n \in T
    BY <2>4
  <2>6. Nat \subseteq T
    <3> HIDE DEF T
    <3> QED
      BY <2>5, Climb
  <2>7. G[size + 1] = a \o F[size]
    BY <2>1, <2>6
  <2> QED
    BY <1>1, <1>5, <2>2, <2>7
<1> QED
  BY <1>6, <1>7

-----------------------------------------------------------------------------
\* Routes: the trie.

Segments == STRING \cup {"*"}
Text == Seq(Segments)

LEMMA TextLength ==
  ASSUME NEW p \in Text
  PROVE  Len(p) \in Nat /\ DOMAIN p = 1 .. Len(p) /\ \A i \in 1 .. Len(p) : p[i] \in Segments
BY LenProperties, ElementOfSeq DEF Text

LEMMA TextsEqual ==
  ASSUME NEW p \in Text, NEW q \in Text, Len(p) = Len(q), \A i \in 1 .. Len(p) : p[i] = q[i]
  PROVE  p = q
BY SeqEqual DEF Text

LEMMA Beginnings ==
  ASSUME NEW p \in Text, NEW n \in Nat, n <= Len(p)
  PROVE  SubSeq(p, 1, n) \in Text /\ Len(SubSeq(p, 1, n)) = n /\ \A i \in 1 .. n : SubSeq(p, 1, n)[i] = p[i]
<1>1. PICK s : s = SubSeq(p, 1, n)
  OBVIOUS
<1>2. 1 \in Int /\ n \in Int /\ \A i \in 1 .. n : p[i] \in Segments
  BY TextLength
<1>3. /\ s \in Seq(Segments) /\ Len(s) = IF 1 <= n THEN n - 1 + 1 ELSE 0
      /\ \A i \in 1 .. n - 1 + 1 : s[i] = p[1 + i - 1]
  BY <1>1, <1>2, SubSeqProperties
<1>4. Len(s) = n /\ \A i \in 1 .. n : s[i] = p[i]
  BY <1>3
<1> QED
  BY <1>1, <1>3, <1>4 DEF Text

LEMMA SameBeginning ==
  ASSUME NEW p \in Text, NEW q \in Text, NEW n \in Nat, n <= Len(p), n <= Len(q)
  PROVE  SubSeq(p, 1, n) = SubSeq(q, 1, n) <=> \A i \in 1 .. n : p[i] = q[i]
<1>1. PICK s, u : s = SubSeq(p, 1, n) /\ u = SubSeq(q, 1, n)
  OBVIOUS
<1>2. /\ s \in Text /\ Len(s) = n /\ \A i \in 1 .. n : s[i] = p[i]
      /\ u \in Text /\ Len(u) = n /\ \A i \in 1 .. n : u[i] = q[i]
  BY <1>1, Beginnings
<1>3. (\A i \in 1 .. n : p[i] = q[i]) => s = u
  BY <1>2, TextsEqual
<1>4. s = u => \A i \in 1 .. n : p[i] = q[i]
  BY <1>2
<1> QED
  BY <1>1, <1>3, <1>4

\* A node leads to the patterns that begin with it.
Leads(node, p) == Len(node) <= Len(p) /\ \A i \in 1 .. Len(node) : p[i] = node[i]

LEMMA LongerBy ==
  ASSUME NEW node \in Text, NEW s \in Segments
  PROVE  /\ Append(node, s) \in Text /\ Len(Append(node, s)) = Len(node) + 1 /\ Append(node, s)[Len(node) + 1] = s
         /\ \A i \in 1 .. Len(node) : Append(node, s)[i] = node[i]
<1>1. PICK c : c = Append(node, s)
  OBVIOUS
<1>2. c \in Seq(Segments) /\ Len(c) = Len(node) + 1 /\ c[Len(node) + 1] = s /\ \A i \in 1 .. Len(node) : c[i] = node[i]
  <2>1. node \in Seq(Segments)
    BY DEF Text
  <2> QED
    BY <1>1, <2>1, AppendProperties
<1> QED
  BY <1>1, <1>2 DEF Text

LEMMA LeadsOn ==
  ASSUME NEW node \in Text, NEW p \in Text, NEW s \in Segments
  PROVE  Leads(Append(node, s), p) <=> Leads(node, p) /\ Len(node) < Len(p) /\ p[Len(node) + 1] = s
<1>1. PICK n, m, c : n = Len(node) /\ m = Len(p) /\ c = Append(node, s)
  OBVIOUS
<1>2. n \in Nat /\ m \in Nat /\ c \in Text /\ Len(c) = n + 1 /\ c[n + 1] = s /\ \A i \in 1 .. n : c[i] = node[i]
  BY <1>1, TextLength, LongerBy
<1>3. Leads(c, p) <=> n + 1 <= m /\ \A i \in 1 .. n + 1 : p[i] = c[i]
  BY <1>2, <1>1 DEF Leads
<1>4. Leads(node, p) <=> n <= m /\ \A i \in 1 .. n : p[i] = node[i]
  BY <1>1 DEF Leads
<1>5. (\A i \in 1 .. n + 1 : p[i] = c[i]) <=> p[n + 1] = s /\ \A i \in 1 .. n : p[i] = node[i]
  <2>1. ASSUME \A i \in 1 .. n + 1 : p[i] = c[i]
        PROVE  p[n + 1] = s /\ \A i \in 1 .. n : p[i] = node[i]
    <3>1. n + 1 \in 1 .. n + 1 /\ \A i \in 1 .. n : i \in 1 .. n + 1
      BY <1>2
    <3> QED
      BY <1>2, <2>1, <3>1
  <2>2. ASSUME p[n + 1] = s, \A i \in 1 .. n : p[i] = node[i], NEW i \in 1 .. n + 1
        PROVE  p[i] = c[i]
    <3>1. i \in 1 .. n \/ i = n + 1
      BY <1>2
    <3> QED
      BY <1>2, <2>2, <3>1
  <2> QED
    BY <2>1, <2>2
<1>6. n + 1 <= m <=> n <= m /\ n < m
  BY <1>2
<1> QED
  BY <1>1, <1>3, <1>4, <1>5, <1>6

\* What add() accepts, as a table.
TableOK(t) ==
  /\ \A r \in t : r.path \in Text /\ \A i \in 1 .. Len(r.path) : r.path[i] = "*" => i = Len(r.path)
  /\ \A r, q \in t : \A i \in 1 .. Len(r.path) : i <= Len(q.path) /\ (\A j \in 1 .. i - 1 : r.path[j] = q.path[j])
                     /\ r.path[i] \in Params /\ q.path[i] \in Params => r.path[i] = q.path[i]
  /\ \A r, q \in t : r.path = q.path /\ r.method = q.method => r = q

LEMMA NodeLeads ==
  ASSUME NEW t, TableOK(t), NEW node \in Nodes(t)
  PROVE  node \in Text /\ (node = <<>> \/ \E r \in t : Leads(node, r.path))
<1>1. CASE node = <<>>
  BY <1>1 DEF Text
<1>2. CASE node # <<>>
  <2>1. PICK r \in t : \E i \in DOMAIN r.path : node = SubSeq(r.path, 1, i)
    BY <1>2 DEF Nodes
  <2>2. PICK p : p = r.path /\ p \in Text
    BY DEF TableOK
  <2>3. PICK i \in 1 .. Len(p) : node = SubSeq(p, 1, i)
    BY <2>1, <2>2, TextLength
  <2>4. i \in Nat /\ i <= Len(p)
    BY <2>2, <2>3, TextLength
  <2>5. node \in Text /\ Len(node) = i /\ \A j \in 1 .. i : node[j] = p[j]
    BY <2>2, <2>3, <2>4, Beginnings
  <2>6. Leads(node, p)
    BY <2>4, <2>5 DEF Leads
  <2> QED
    BY <2>2, <2>5, <2>6
<1> QED
  BY <1>1, <1>2

LEMMA LeadsNode ==
  ASSUME NEW t, TableOK(t), NEW r \in t, NEW node \in Text, Leads(node, r.path)
  PROVE  node \in Nodes(t)
<1>1. PICK p, n : p = r.path /\ p \in Text /\ n = Len(node)
  BY DEF TableOK
<1>2. n \in Nat /\ n <= Len(p) /\ Len(p) \in Nat /\ DOMAIN p = 1 .. Len(p) /\ \A i \in 1 .. n : p[i] = node[i]
  BY <1>1, TextLength DEF Leads
<1>3. CASE n = 0
  <2>1. PICK empty : empty = <<>>
    OBVIOUS
  <2>2. empty \in Text /\ Len(empty) = 0
    BY <2>1, EmptySeq DEF Text
  <2>3. node = empty
    <3>1. \A i \in 1 .. Len(node) : node[i] = empty[i]
      BY <1>1, <1>3
    <3> QED
      BY <1>1, <1>3, <2>2, <3>1, TextsEqual
  <2> QED
    BY <2>1, <2>3 DEF Nodes
<1>4. CASE n # 0
  <2>1. PICK s : s = SubSeq(p, 1, n)
    OBVIOUS
  <2>2. s \in Text /\ Len(s) = n /\ \A i \in 1 .. n : s[i] = p[i]
    BY <1>1, <1>2, <2>1, Beginnings
  <2>3. s = node
    BY <1>1, <1>2, <2>2, TextsEqual
  <2>4. n \in DOMAIN p
    BY <1>2, <1>4
  <2> QED
    BY <1>1, <2>1, <2>3, <2>4 DEF Nodes
<1> QED
  BY <1>3, <1>4

LEMMA FitsSo ==
  ASSUME NEW w \in Text, NEW path \in Text, \A i \in 1 .. Len(w) : w[i] = "*" => i = Len(w)
  PROVE  Fits(w, path) <=>
           \/ /\ Len(w) > 0 /\ w[Len(w)] = "*" /\ Len(w) - 1 <= Len(path)
              /\ \A i \in 1 .. Len(w) - 1 : w[i] \in Params \cup {path[i]}
           \/ /\ \A i \in 1 .. Len(w) : w[i] # "*" /\ w[i] \in Params \cup {path[i]}
              /\ Len(w) = Len(path)
<1>1. PICK n, k : n = Len(w) /\ k = Len(path) /\ n \in Nat /\ k \in Nat
  BY TextLength
<1>2. w # <<>> <=> n > 0
  <2>1. n > 0 => w # <<>>
    BY <1>1
  <2>2. w # <<>> => n > 0
    BY <1>1, EmptySeq DEF Text
  <2> QED
    BY <2>1, <2>2
<1>3. CASE n > 0 /\ w[n] = "*"
  <2>1. Fits(w, path) <=> n - 1 <= k /\ \A i \in 1 .. n - 1 : w[i] \in Params \cup {path[i]}
    BY <1>1, <1>2, <1>3 DEF Fits, Last
  <2>2. n \in 1 .. n
    BY <1>1, <1>3
  <2> QED
    BY <1>1, <1>3, <2>1, <2>2
<1>4. CASE ~ (n > 0 /\ w[n] = "*")
  <2>1. Fits(w, path) <=> n <= k /\ ~ (n < k) /\ \A i \in 1 .. n : w[i] \in Params \cup {path[i]}
    BY <1>1, <1>2, <1>4 DEF Fits, Last
  <2>2. \A i \in 1 .. n : w[i] # "*"
    BY <1>1, <1>4
  <2>3. n <= k /\ ~ (n < k) <=> n = k
    BY <1>1
  <2> QED
    BY <1>1, <1>4, <2>1, <2>2, <2>3
<1> QED
  BY <1>3, <1>4

\* Of two patterns that part after a node, one is better by the segments it goes on with.
LEMMA BetterAt ==
  ASSUME NEW node \in Text, NEW w \in Text, NEW q \in Text, Leads(node, w), Leads(node, q), Len(node) < Len(q),
         w = node \/ (Len(node) < Len(w) /\ Rank(w[Len(node) + 1]) > Rank(q[Len(node) + 1]))
  PROVE  Better(w, q)
<1>1. PICK n, m, k : n = Len(node) /\ m = Len(w) /\ k = Len(q) /\ n \in Nat /\ m \in Nat /\ k \in Nat /\ n < k /\ n <= m
  BY TextLength DEF Leads
<1>2. \A i \in 1 .. n : w[i] = q[i]
  BY <1>1 DEF Leads
<1>3. SubSeq(w, 1, n) = SubSeq(q, 1, n)
  <2>1. n <= Len(w) /\ n <= Len(q)
    BY <1>1
  <2> QED
    BY <1>1, <1>2, <2>1, SameBeginning
<1>4. PICK i : i = n + 1
  OBVIOUS
<1>5. i \in 1 .. Len(q) /\ i <= Len(w) + 1 /\ i - 1 = n
  BY <1>1, <1>4
<1>6. i > Len(w) \/ Rank(w[i]) > Rank(q[i])
  BY <1>1, <1>4
<1> QED
  BY <1>3, <1>5, <1>6 DEF Better

LEMMA RanksDiffer == ASSUME NEW s PROVE Rank(s) \in 1 .. 3 /\ (Rank(s) = 1 <=> s = "*") /\ (s # "*" => (Rank(s) = 2 <=> s \in Params))
BY DEF Rank

\* Neither of two patterns is better than the other if the other is better.
LEMMA BetterOnce ==
  ASSUME NEW p \in Text, NEW q \in Text, Better(p, q), Better(q, p)
  PROVE  FALSE
<1>1. PICK m, k : m = Len(p) /\ k = Len(q) /\ m \in Nat /\ k \in Nat
  BY TextLength
<1>2. PICK i \in 1 .. k : i <= m + 1 /\ SubSeq(p, 1, i - 1) = SubSeq(q, 1, i - 1) /\ (i > m \/ Rank(p[i]) > Rank(q[i]))
  BY <1>1 DEF Better
<1>3. PICK j \in 1 .. m : j <= k + 1 /\ SubSeq(q, 1, j - 1) = SubSeq(p, 1, j - 1) /\ (j > k \/ Rank(q[j]) > Rank(p[j]))
  BY <1>1 DEF Better
<1>4. \A n \in 1 .. i - 1 : p[n] = q[n]
  <2>1. i - 1 \in Nat /\ i - 1 <= Len(p) /\ i - 1 <= Len(q)
    BY <1>1, <1>2
  <2> QED
    BY <1>2, <2>1, SameBeginning
<1>5. \A n \in 1 .. j - 1 : q[n] = p[n]
  <2>1. j - 1 \in Nat /\ j - 1 <= Len(p) /\ j - 1 <= Len(q)
    BY <1>1, <1>3
  <2> QED
    BY <1>3, <2>1, SameBeginning
<1>6. PICK ours, theirs : ours = [n \in Nat |-> Rank(p[n])] /\ theirs = [n \in Nat |-> Rank(q[n])]
  OBVIOUS
<1>7. ours \in [Nat -> 1 .. 3] /\ theirs \in [Nat -> 1 .. 3]
  BY <1>6, RanksDiffer
<1>8. i > m \/ ours[i] > theirs[i]
  BY <1>1, <1>2, <1>6
<1>9. j > k \/ theirs[j] > ours[j]
  BY <1>1, <1>3, <1>6
<1>10. (\A n \in 1 .. i - 1 : ours[n] = theirs[n]) /\ \A n \in 1 .. j - 1 : ours[n] = theirs[n]
  BY <1>1, <1>2, <1>3, <1>4, <1>5, <1>6
<1> QED
  BY <1>1, <1>2, <1>3, <1>7, <1>8, <1>9, <1>10

\* What a path has used up at a node; the accepted patterns it may still lead to; and what is
\* to be found there: one that is better than all others, if there is any.
Sound(path, node) == Len(node) <= Len(path) /\ \A i \in 1 .. Len(node) : node[i] # "*" /\ node[i] \in Params \cup {path[i]}
Fitting(accepted, path, node) == {w \in accepted : Leads(node, w) /\ Fits(w, path)}
Right(accepted, path, node, found) ==
  /\ found \subseteq Fitting(accepted, path, node) /\ (Fitting(accepted, path, node) # {} => found # {})
  /\ \A w \in found, q \in Fitting(accepted, path, node) : q = w \/ Better(w, q)

Patterns(t) == {r.path : r \in t}

LEMMA PatternsAre ==
  ASSUME NEW t, TableOK(t), NEW w \in Patterns(t)
  PROVE  w \in Text /\ (\A i \in 1 .. Len(w) : w[i] = "*" => i = Len(w)) /\ \E r \in t : r.path = w
<1>1. PICK r \in t : r.path = w
  BY DEF Patterns
<1> QED
  BY <1>1 DEF TableOK

\* Where a pattern that fits goes on from a node.
LEMMA GoesOnTo ==
  ASSUME NEW t, TableOK(t), NEW accepted \in SUBSET Patterns(t), NEW path \in Text,
         NEW node \in Text, Sound(path, node), NEW w \in Fitting(accepted, path, node)
  PROVE  \/ w = node /\ Len(node) = Len(path)
         \/ w = Append(node, "*") /\ Len(node) < Len(w) /\ w[Len(node) + 1] = "*"
         \/ /\ Len(node) < Len(w) /\ Len(node) < Len(path) /\ w[Len(node) + 1] # "*" /\ w[Len(node) + 1] \in Segments
            /\ w[Len(node) + 1] \in Params \cup {path[Len(node) + 1]}
            /\ w \in Fitting(accepted, path, Append(node, w[Len(node) + 1]))
            /\ Append(node, w[Len(node) + 1]) \in Nodes(t) /\ Sound(path, Append(node, w[Len(node) + 1]))
<1>1. w \in accepted /\ Leads(node, w) /\ Fits(w, path)
  BY DEF Fitting
<1>2. w \in Text /\ (\A i \in 1 .. Len(w) : w[i] = "*" => i = Len(w)) /\ \E r \in t : r.path = w
  BY <1>1, PatternsAre
<1>3. PICK n, m, k : n = Len(node) /\ m = Len(w) /\ k = Len(path) /\ n \in Nat /\ m \in Nat /\ k \in Nat
  BY <1>2, TextLength
<1>4. n <= m /\ (\A i \in 1 .. n : w[i] = node[i]) /\ n <= k /\ \A i \in 1 .. n : node[i] # "*" /\ node[i] \in Params \cup {path[i]}
  BY <1>1, <1>3 DEF Leads, Sound
<1>5. \/ m > 0 /\ w[m] = "*" /\ m - 1 <= k /\ \A i \in 1 .. m - 1 : w[i] \in Params \cup {path[i]}
      \/ m = k /\ \A i \in 1 .. m : w[i] # "*" /\ w[i] \in Params \cup {path[i]}
  BY <1>1, <1>2, <1>3, FitsSo
<1>6. CASE n = m
  <2>1. w = node
    BY <1>2, <1>3, <1>4, <1>6, TextsEqual
  <2>2. m = k
    <3>1. m > 0 => w[m] # "*"
      BY <1>3, <1>4, <1>6
    <3> QED
      BY <1>5, <3>1
  <2> QED
    BY <1>3, <1>6, <2>1, <2>2
<1>7. CASE n < m /\ w[n + 1] = "*"
  <2>1. n + 1 = m
    BY <1>2, <1>3, <1>7
  <2>2. "*" \in Segments
    BY DEF Segments
  <2>3. PICK c : c = Append(node, "*")
    OBVIOUS
  <2>4. c \in Text /\ Len(c) = n + 1 /\ c[n + 1] = "*" /\ \A i \in 1 .. n : c[i] = node[i]
    BY <1>3, <2>2, <2>3, LongerBy
  <2>5. \A i \in 1 .. n + 1 : w[i] = c[i]
    <3>1. \A i \in 1 .. n + 1 : i \in 1 .. n \/ i = n + 1
      BY <1>3
    <3> QED
      BY <1>4, <1>7, <2>4, <3>1
  <2>6. w = c
    BY <1>2, <1>3, <2>1, <2>4, <2>5, TextsEqual
  <2> QED
    BY <1>3, <1>7, <2>3, <2>6
<1>8. CASE n < m /\ w[n + 1] # "*"
  <2>1. PICK s : s = w[n + 1]
    OBVIOUS
  <2>2. n + 1 \in 1 .. m /\ s \in Segments /\ s # "*"
    BY <1>2, <1>3, <1>8, <2>1, TextLength
  <2>3. n + 1 <= k /\ s \in Params \cup {path[n + 1]}
    <3>1. CASE m > 0 /\ w[m] = "*" /\ m - 1 <= k /\ \A i \in 1 .. m - 1 : w[i] \in Params \cup {path[i]}
      <4>1. n + 1 # m
        BY <2>1, <2>2, <3>1
      <4>2. n + 1 \in 1 .. m - 1
        BY <1>3, <2>2, <4>1
      <4> QED
        BY <1>3, <2>1, <3>1, <4>2
    <3>2. CASE m = k /\ \A i \in 1 .. m : w[i] # "*" /\ w[i] \in Params \cup {path[i]}
      BY <1>3, <2>1, <2>2, <3>2
    <3> QED
      BY <1>5, <3>1, <3>2
  <2>4. PICK c : c = Append(node, s)
    OBVIOUS
  <2>5. c \in Text /\ Len(c) = n + 1 /\ c[n + 1] = s /\ \A i \in 1 .. n : c[i] = node[i]
    BY <1>3, <2>2, <2>4, LongerBy
  <2>6. Leads(c, w)
    BY <1>1, <1>2, <1>3, <1>8, <2>1, <2>2, <2>4, LeadsOn
  <2>7. c \in Nodes(t)
    BY <1>2, <2>5, <2>6, LeadsNode
  <2>8. Sound(path, c)
    <3>1. \A i \in 1 .. n + 1 : i \in 1 .. n \/ i = n + 1
      BY <1>3
    <3> QED
      BY <1>3, <1>4, <2>2, <2>3, <2>5, <3>1 DEF Sound
  <2>9. w \in Fitting(accepted, path, c)
    BY <1>1, <2>6 DEF Fitting
  <2> QED
    BY <1>3, <1>8, <2>1, <2>2, <2>3, <2>4, <2>7, <2>8, <2>9
<1> QED
  BY <1>3, <1>4, <1>6, <1>7, <1>8

\* What ends at a node, or goes on from it as "*", fits.
LEMMA EndsFit ==
  ASSUME NEW path \in Text, NEW node \in Text, Sound(path, node)
  PROVE  /\ Len(node) = Len(path) => Leads(node, node) /\ Fits(node, path)
         /\ Leads(node, Append(node, "*")) /\ Fits(Append(node, "*"), path)
<1>1. PICK n, k : n = Len(node) /\ k = Len(path) /\ n \in Nat /\ k \in Nat
  BY TextLength
<1>2. n <= k /\ \A i \in 1 .. n : node[i] # "*" /\ node[i] \in Params \cup {path[i]}
  BY <1>1 DEF Sound
<1>3. PICK c : c = Append(node, "*")
  OBVIOUS
<1>4. "*" \in Segments
  BY DEF Segments
<1>5. c \in Text /\ Len(c) = n + 1 /\ c[n + 1] = "*" /\ \A i \in 1 .. n : c[i] = node[i]
  BY <1>1, <1>3, <1>4, LongerBy
<1>6. Leads(node, c) /\ Leads(node, node)
  BY <1>1, <1>5 DEF Leads
<1>7. Fits(c, path)
  <2>1. \A i \in 1 .. Len(c) : c[i] = "*" => i = Len(c)
    <3>1. \A i \in 1 .. n + 1 : i \in 1 .. n \/ i = n + 1
      BY <1>1
    <3> QED
      BY <1>2, <1>5, <3>1
  <2>2. (n + 1) - 1 = n /\ n + 1 > 0
    BY <1>1
  <2> QED
    BY <1>1, <1>2, <1>5, <2>1, <2>2, FitsSo
<1>8. n = k => Fits(node, path)
  <2>1. \A i \in 1 .. Len(node) : node[i] = "*" => i = Len(node)
    BY <1>1, <1>2
  <2> QED
    BY <1>1, <1>2, <2>1, FitsSo
<1> QED
  BY <1>1, <1>3, <1>6, <1>7, <1>8

LEMMA SoundOn ==
  ASSUME NEW path \in Text, NEW node \in Text, Sound(path, node), Len(node) < Len(path),
         NEW s \in Segments, s # "*", s \in Params \cup {path[Len(node) + 1]}
  PROVE  Sound(path, Append(node, s))
<1>1. PICK n, k : n = Len(node) /\ k = Len(path) /\ n \in Nat /\ k \in Nat /\ n < k
  BY TextLength
<1>2. PICK c : c = Append(node, s)
  OBVIOUS
<1>3. Len(c) = n + 1 /\ c[n + 1] = s /\ \A i \in 1 .. n : c[i] = node[i]
  BY <1>1, <1>2, LongerBy
<1>4. \A i \in 1 .. n + 1 : i \in 1 .. n \/ i = n + 1
  BY <1>1
<1> QED
  BY <1>1, <1>2, <1>3, <1>4 DEF Sound

LEMMA ParamsAre == Params \subseteq Segments /\ "*" \notin Params
BY RoutesAssumption DEF Segments

\* If what is found beneath a node is right, what is found at it is.
LEMMA VisitFinds ==
  ASSUME NEW t, TableOK(t), NEW accepted \in SUBSET Patterns(t), NEW path \in Text, NEW node \in Text, Sound(path, node), NEW f,
         \A s \in Segments : Append(node, s) \in Nodes(t) /\ Sound(path, Append(node, s)) /\ Len(node) < Len(path)
                             => Right(accepted, path, Append(node, s), f[Append(node, s)])
  PROVE  Right(accepted, path, node, visit(t, accepted, path, f, node))
<1>1. PICK n, k : n = Len(node) /\ k = Len(path) /\ n \in Nat /\ k \in Nat
  BY TextLength
<1> DEFINE static == IF n < k /\ path[n + 1] \notin Params \cup {"*"} THEN {path[n + 1]} ELSE {}
           param == IF n < k THEN Params ELSE {}
           Through(segments) == UNION {f[Append(node, s)] : s \in {s \in segments : Append(node, s) \in Nodes(t)}}
           Here == Fitting(accepted, path, node)
<1>2. visit(t, accepted, path, f, node) =
        IF n = k /\ node \in accepted THEN {node}
        ELSE IF Through(static) # {} THEN Through(static)
        ELSE IF Through(param) # {} THEN Through(param)
        ELSE {Append(node, "*")} \cap accepted
  BY <1>1 DEF visit
<1>3. ASSUME NEW s, s \in static \/ s \in param
      PROVE  n < k /\ s \in Segments /\ s # "*" /\ s \in Params \cup {path[n + 1]} /\ Sound(path, Append(node, s))
  <2>1. n < k /\ s \in Params \cup {path[n + 1]} /\ s # "*"
    BY <1>3, ParamsAre
  <2>2. path[n + 1] \in Segments
    BY <1>1, <2>1, TextLength
  <2>3. s \in Segments
    BY <2>1, <2>2, ParamsAre
  <2> QED
    BY <1>1, <2>1, <2>3, SoundOn
\* What is found through a segment, and what is not better.
<1>4. ASSUME NEW s, s \in static \/ s \in param, Append(node, s) \in Nodes(t), NEW w \in f[Append(node, s)]
      PROVE  /\ w \in Here /\ w \in Text /\ Leads(node, w) /\ n < Len(w) /\ w[n + 1] = s
             /\ \A q \in Fitting(accepted, path, Append(node, s)) : q = w \/ Better(w, q)
  <2>1. Right(accepted, path, Append(node, s), f[Append(node, s)]) /\ s \in Segments
    BY <1>1, <1>3, <1>4
  <2>2. w \in Fitting(accepted, path, Append(node, s))
    BY <1>4, <2>1 DEF Right
  <2>3. w \in accepted /\ Leads(Append(node, s), w) /\ Fits(w, path)
    BY <2>2 DEF Fitting
  <2>4. w \in Text
    BY <2>3, PatternsAre
  <2>5. Leads(node, w) /\ n < Len(w) /\ w[n + 1] = s
    BY <1>1, <2>1, <2>3, <2>4, LeadsOn
  <2> QED
    BY <1>4, <2>1, <2>3, <2>4, <2>5 DEF Right, Fitting
<1>5. ASSUME NEW s, s \in static \/ s \in param, Append(node, s) \in Nodes(t), Fitting(accepted, path, Append(node, s)) # {}
      PROVE  f[Append(node, s)] # {}
  <2>1. Right(accepted, path, Append(node, s), f[Append(node, s)])
    BY <1>1, <1>3, <1>5
  <2> QED
    BY <1>5, <2>1 DEF Right
<1>6. ASSUME NEW q \in Here
      PROVE  /\ q \in Text /\ Leads(node, q) /\ q \in accepted
             /\ \/ q = node /\ n = k
                \/ q = Append(node, "*") /\ n < Len(q) /\ q[n + 1] = "*"
                \/ /\ n < Len(q) /\ n < k /\ (q[n + 1] \in static \/ q[n + 1] \in param)
                   /\ q \in Fitting(accepted, path, Append(node, q[n + 1])) /\ Append(node, q[n + 1]) \in Nodes(t)
  <2>1. q \in accepted /\ Leads(node, q) /\ q \in Text
    BY <1>6, PatternsAre DEF Fitting
  <2>2. \/ q = node /\ n = k
        \/ q = Append(node, "*") /\ n < Len(q) /\ q[n + 1] = "*"
        \/ /\ n < Len(q) /\ n < k /\ q[n + 1] # "*" /\ q[n + 1] \in Params \cup {path[n + 1]}
           /\ q \in Fitting(accepted, path, Append(node, q[n + 1])) /\ Append(node, q[n + 1]) \in Nodes(t)
    <3>1. \/ q = node /\ Len(node) = Len(path)
          \/ q = Append(node, "*") /\ Len(node) < Len(q) /\ q[Len(node) + 1] = "*"
          \/ /\ Len(node) < Len(q) /\ Len(node) < Len(path) /\ q[Len(node) + 1] # "*" /\ q[Len(node) + 1] \in Segments
             /\ q[Len(node) + 1] \in Params \cup {path[Len(node) + 1]}
             /\ q \in Fitting(accepted, path, Append(node, q[Len(node) + 1]))
             /\ Append(node, q[Len(node) + 1]) \in Nodes(t) /\ Sound(path, Append(node, q[Len(node) + 1]))
      BY <1>6, GoesOnTo
    <3> HIDE DEF Here
    <3> QED
      BY <1>1, <3>1
  <2>3. n < k /\ q[n + 1] # "*" /\ q[n + 1] \in Params \cup {path[n + 1]} => q[n + 1] \in static \/ q[n + 1] \in param
    OBVIOUS
  <2> QED
    BY <2>1, <2>2, <2>3
<1>7. ASSUME NEW w \in Text, Leads(node, w), NEW q \in Text, Leads(node, q), n < Len(w), n < Len(q), Rank(w[n + 1]) > Rank(q[n + 1])
      PROVE  Better(w, q)
  BY <1>1, <1>7, BetterAt
<1>8. CASE n = k /\ node \in accepted
  <2>1. node \in Here
    BY <1>1, <1>8, EndsFit DEF Fitting
  <2>2. ASSUME NEW q \in Here
        PROVE  q = node \/ Better(node, q)
    <3>1. q = node \/ n < Len(q)
      BY <1>6
    <3>2. q \in Text /\ Leads(node, q) /\ Leads(node, node)
      BY <1>1, <1>6, <1>8, EndsFit
    <3> QED
      BY <1>1, <3>1, <3>2, BetterAt
  <2> QED
    BY <1>2, <1>8, <2>1, <2>2 DEF Right
<1>9. CASE ~ (n = k /\ node \in accepted) /\ Through(static) # {}
  <2>1. visit(t, accepted, path, f, node) = Through(static)
    BY <1>2, <1>9
  <2>2. ASSUME NEW w \in Through(static)
        PROVE  w \in Here /\ \A q \in Here : q = w \/ Better(w, q)
    <3>1. PICK s \in static : Append(node, s) \in Nodes(t) /\ w \in f[Append(node, s)]
      BY <2>2
    <3>2. /\ w \in Here /\ w \in Text /\ Leads(node, w) /\ n < Len(w) /\ w[n + 1] = s
          /\ \A q \in Fitting(accepted, path, Append(node, s)) : q = w \/ Better(w, q)
      BY <1>4, <3>1
    <3>3. n < k /\ s = path[n + 1] /\ s \notin Params /\ s # "*"
      BY <3>1
    <3>4. ASSUME NEW q \in Here
          PROVE  q = w \/ Better(w, q)
      <4>1. q \in Text /\ Leads(node, q)
        BY <1>6
      <4>2. Rank(s) = 3
        BY <3>3 DEF Rank
      <4>3. CASE n < Len(q) /\ q[n + 1] = "*"
        <5>1. Rank(w[n + 1]) > Rank(q[n + 1])
          BY <3>2, <4>2, <4>3 DEF Rank
        <5> QED
          BY <1>7, <3>2, <4>1, <4>3, <5>1
      <4>4. CASE n < Len(q) /\ q[n + 1] \in param
        <5>1. q[n + 1] \in Params /\ q[n + 1] # "*"
          BY <4>4, ParamsAre
        <5>2. Rank(w[n + 1]) > Rank(q[n + 1])
          BY <3>2, <4>2, <5>1 DEF Rank
        <5> QED
          BY <1>7, <3>2, <4>1, <4>4, <5>2
      <4>5. CASE q[n + 1] \in static /\ q \in Fitting(accepted, path, Append(node, q[n + 1]))
        <5>1. q[n + 1] = s
          BY <3>3, <4>5
        <5> QED
          BY <3>2, <4>5, <5>1
      <4>6. ~ (q = node /\ n = k)
        BY <1>1, <3>3
      <4> QED
        BY <1>6, <4>3, <4>4, <4>5, <4>6
    <3> QED
      BY <3>2, <3>4
  <2> QED
    BY <1>9, <2>1, <2>2 DEF Right
<1>10. CASE ~ (n = k /\ node \in accepted) /\ Through(static) = {} /\ Through(param) # {}
  <2>1. visit(t, accepted, path, f, node) = Through(param)
    BY <1>2, <1>10
  <2>2. ASSUME NEW w \in Through(param)
        PROVE  w \in Here /\ \A q \in Here : q = w \/ Better(w, q)
    <3>1. PICK s \in param : Append(node, s) \in Nodes(t) /\ w \in f[Append(node, s)]
      BY <2>2
    <3>2. /\ w \in Here /\ w \in Text /\ Leads(node, w) /\ n < Len(w) /\ w[n + 1] = s
          /\ \A q \in Fitting(accepted, path, Append(node, s)) : q = w \/ Better(w, q)
      BY <1>4, <3>1
    <3>3. n < k /\ s \in Params /\ s # "*"
      BY <3>1, ParamsAre
    <3>4. ASSUME NEW q \in Here
          PROVE  q = w \/ Better(w, q)
      <4>1. q \in Text /\ Leads(node, q) /\ q \in accepted
        BY <1>6
      <4>2. CASE n < Len(q) /\ q[n + 1] = "*"
        <5>1. Rank(w[n + 1]) > Rank(q[n + 1])
          BY <3>2, <3>3, <4>2 DEF Rank
        <5> QED
          BY <1>7, <3>2, <4>1, <4>2, <5>1
      <4>3. CASE n < Len(q) /\ q[n + 1] \in param /\ q \in Fitting(accepted, path, Append(node, q[n + 1]))
        <5>1. w \in accepted
          BY <3>2 DEF Fitting
        <5>2. PICK r \in t, o \in t : r.path = w /\ o.path = q
          BY <4>1, <5>1, PatternsAre
        <5>3. PICK i : i = n + 1
          OBVIOUS
        <5>4. i \in 1 .. Len(w) /\ i <= Len(q) /\ \A j \in 1 .. i - 1 : w[j] = q[j]
          <6>1. Len(w) \in Nat /\ Len(q) \in Nat
            BY <3>2, <4>1, TextLength
          <6>2. i - 1 = n
            BY <1>1, <5>3
          <6>3. \A j \in 1 .. n : w[j] = q[j]
            BY <1>1, <3>2, <4>1 DEF Leads
          <6> QED
            BY <1>1, <3>2, <4>3, <5>3, <6>1, <6>2, <6>3
        <5>5. w[i] \in Params /\ q[i] \in Params
          BY <3>2, <3>3, <4>3, <5>3
        <5>6. w[i] = q[i]
          BY <5>2, <5>4, <5>5 DEF TableOK
        <5> QED
          BY <3>2, <4>3, <5>3, <5>6
      <4>4. ~ (q[n + 1] \in static /\ Append(node, q[n + 1]) \in Nodes(t) /\ q \in Fitting(accepted, path, Append(node, q[n + 1])))
        <5>1. SUFFICES ASSUME q[n + 1] \in static, Append(node, q[n + 1]) \in Nodes(t), q \in Fitting(accepted, path, Append(node, q[n + 1]))
                       PROVE  FALSE
          OBVIOUS
        <5>2. f[Append(node, q[n + 1])] # {}
          BY <1>5, <5>1
        <5> QED
          BY <1>10, <5>1, <5>2
      <4>5. ~ (q = node /\ n = k)
        BY <1>1, <3>3
      <4> QED
        BY <1>6, <4>2, <4>3, <4>4, <4>5
    <3> QED
      BY <3>2, <3>4
  <2> QED
    BY <1>10, <2>1, <2>2 DEF Right
<1>11. CASE ~ (n = k /\ node \in accepted) /\ Through(static) = {} /\ Through(param) = {}
  <2>1. visit(t, accepted, path, f, node) = {Append(node, "*")} \cap accepted
    BY <1>2, <1>11
  <2>2. \A q \in Here : q = Append(node, "*")
    <3>1. ASSUME NEW q \in Here, q[n + 1] \in static \/ q[n + 1] \in param, Append(node, q[n + 1]) \in Nodes(t),
                 q \in Fitting(accepted, path, Append(node, q[n + 1]))
          PROVE  FALSE
      <4>1. f[Append(node, q[n + 1])] # {}
        BY <1>5, <3>1
      <4> QED
        BY <1>11, <3>1, <4>1
    <3> QED
      BY <1>6, <1>11, <3>1
  <2>3. Append(node, "*") \in accepted => Append(node, "*") \in Here
    BY EndsFit DEF Fitting
  <2>4. \A q \in Here : q \in accepted
    BY DEF Fitting
  <2> QED
    BY <2>1, <2>2, <2>3, <2>4 DEF Right
<1> QED
  BY <1>8, <1>9, <1>10, <1>11

\* A node looks at the next ones only.
LEMMA VisitLooks ==
  ASSUME NEW t, NEW accepted, NEW path \in Text, NEW node \in Text, NEW f, NEW g,
         \A s \in Segments : Append(node, s) \in Nodes(t) /\ Len(node) < Len(path) => f[Append(node, s)] = g[Append(node, s)]
  PROVE  visit(t, accepted, path, f, node) = visit(t, accepted, path, g, node)
<1> DEFINE static == IF Len(node) < Len(path) /\ path[Len(node) + 1] \notin Params \cup {"*"} THEN {path[Len(node) + 1]} ELSE {}
           param == IF Len(node) < Len(path) THEN Params ELSE {}
           Through(h, segments) == UNION {h[Append(node, s)] : s \in {s \in segments : Append(node, s) \in Nodes(t)}}
<1>1. ASSUME NEW s, s \in static \/ s \in param
      PROVE  s \in Segments /\ Len(node) < Len(path)
  <2>1. Len(node) < Len(path)
    BY <1>1
  <2>2. path[Len(node) + 1] \in Segments
    BY <2>1, TextLength
  <2> QED
    BY <1>1, <2>1, <2>2, ParamsAre
<1>2. Through(f, static) = Through(g, static) /\ Through(f, param) = Through(g, param)
  <2> HIDE DEF static, param
  <2>1. \A s \in static : Append(node, s) \in Nodes(t) => f[Append(node, s)] = g[Append(node, s)]
    BY <1>1
  <2>2. \A s \in param : Append(node, s) \in Nodes(t) => f[Append(node, s)] = g[Append(node, s)]
    BY <1>1
  <2>3. ASSUME NEW all, \A s \in all : Append(node, s) \in Nodes(t) => f[Append(node, s)] = g[Append(node, s)]
        PROVE  Through(f, all) = Through(g, all)
    <3>1. PICK beyond : beyond = {s \in all : Append(node, s) \in Nodes(t)}
      OBVIOUS
    <3>2. \A s \in beyond : f[Append(node, s)] = g[Append(node, s)]
      BY <2>3, <3>1
    <3> QED
      BY <3>1, <3>2
  <2> QED
    BY <2>1, <2>2, <2>3
<1>3. visit(t, accepted, path, f, node) =
        IF Len(node) = Len(path) /\ node \in accepted THEN {node}
        ELSE IF Through(f, static) # {} THEN Through(f, static)
        ELSE IF Through(f, param) # {} THEN Through(f, param)
        ELSE {Append(node, "*")} \cap accepted
  BY DEF visit
<1>4. visit(t, accepted, path, g, node) =
        IF Len(node) = Len(path) /\ node \in accepted THEN {node}
        ELSE IF Through(g, static) # {} THEN Through(g, static)
        ELSE IF Through(g, param) # {} THEN Through(g, param)
        ELSE {Append(node, "*")} \cap accepted
  BY DEF visit
<1> HIDE DEF static, param, Through
<1> QED
  BY <1>2, <1>3, <1>4

\* The search ends, at every node with what visit() makes of the nodes beneath.
LEMMA SearchHolds ==
  ASSUME NEW t, TableOK(t), NEW accepted, NEW path \in Text
  PROVE  \E f : f = [node \in Nodes(t) |-> visit(t, accepted, path, f, node)]
<1>1. PICK k : k = Len(path) /\ k \in Nat
  BY TextLength
<1>2. \A node \in Nodes(t) : node \in Text /\ Len(node) \in Nat
  BY NodeLeads, TextLength
<1> DEFINE S == Nodes(t)
           V == SUBSET accepted
           Body == [f \in [S -> V] |-> [node \in S |-> visit(t, accepted, path, f, node)]]
           rank == [node \in S |-> IF Len(node) <= k THEN k + 1 - Len(node) ELSE 0]
<1>3. rank \in [S -> Nat] /\ V # {}
  BY <1>1, <1>2, SMTT(30)
<1>4. ASSUME NEW f \in [S -> V], NEW node \in S
      PROVE  visit(t, accepted, path, f, node) \in V
  <2> DEFINE Through(segments) == UNION {f[Append(node, s)] : s \in {s \in segments : Append(node, s) \in Nodes(t)}}
             static == IF Len(node) < Len(path) /\ path[Len(node) + 1] \notin Params \cup {"*"} THEN {path[Len(node) + 1]} ELSE {}
             param == IF Len(node) < Len(path) THEN Params ELSE {}
  <2>1. \A all : Through(all) \subseteq accepted
    OBVIOUS
  <2>2. visit(t, accepted, path, f, node) =
          IF Len(node) = Len(path) /\ node \in accepted THEN {node}
          ELSE IF Through(static) # {} THEN Through(static)
          ELSE IF Through(param) # {} THEN Through(param)
          ELSE {Append(node, "*")} \cap accepted
    BY DEF visit
  <2> HIDE DEF Through, static, param
  <2> QED
    BY <2>1, <2>2
<1>5. ASSUME NEW f \in [S -> V], NEW g \in [S -> V], NEW node \in S, \A y \in S : rank[y] < rank[node] => f[y] = g[y]
      PROVE  Body[f][node] = Body[g][node]
  <2>1. ASSUME NEW s \in Segments, Append(node, s) \in Nodes(t), Len(node) < Len(path)
        PROVE  f[Append(node, s)] = g[Append(node, s)]
    <3>1. PICK c, n : c = Append(node, s) /\ n = Len(node)
      OBVIOUS
    <3>2. n \in Nat /\ Len(c) = n + 1 /\ n < k /\ c \in S
      BY <1>1, <1>2, <2>1, <3>1, LongerBy
    <3>3. rank[c] < rank[node]
      BY <1>1, <3>1, <3>2
    <3> QED
      BY <1>5, <3>1, <3>2, <3>3
  <2>2. visit(t, accepted, path, f, node) = visit(t, accepted, path, g, node)
    BY <1>2, <2>1, VisitLooks
  <2> QED
    BY <2>2
<1>6. Body \in [[S -> V] -> [S -> V]]
  BY <1>4
<1>7. WellFounded(S, V, rank, Body)
  BY <1>3, <1>5, <1>6 DEF WellFounded
<1>8. \E f \in [S -> V] : f = Body[f]
  <2> HIDE DEF S, V, rank, Body
  <2> QED
    BY <1>7, RecursionHolds
<1> QED
  BY <1>8

\* What find() finds: the best of the accepted patterns that fit, if there is any.
LEMMA FindFinds ==
  ASSUME NEW t, TableOK(t), NEW accepted \in SUBSET Patterns(t), NEW path \in Text
  PROVE  Right(accepted, path, <<>>, find(t, accepted, path))
<1> DEFINE F == CHOOSE f : f = [node \in Nodes(t) |-> visit(t, accepted, path, f, node)]
<1>1. F = [node \in Nodes(t) |-> visit(t, accepted, path, F, node)]
  BY SearchHolds
<1>2. find(t, accepted, path) = F[<<>>]
  BY DEF find
<1> HIDE DEF F
<1>3. PICK found : found = F
  OBVIOUS
<1>4. \A node \in Nodes(t) : found[node] = visit(t, accepted, path, found, node)
  BY <1>1, <1>3
<1>5. PICK k : k = Len(path) /\ k \in Nat
  BY TextLength
<1> DEFINE T == {m \in Nat : \A node \in Nodes(t) : Sound(path, node) /\ k - Len(node) = m => Right(accepted, path, node, found[node])}
<1>6. ASSUME NEW m \in Nat, \A i \in Nat : i < m => i \in T, NEW node \in Nodes(t), Sound(path, node), k - Len(node) = m
      PROVE  Right(accepted, path, node, found[node])
  <2>1. node \in Text
    BY NodeLeads
  <2>2. ASSUME NEW s \in Segments, Append(node, s) \in Nodes(t), Sound(path, Append(node, s)), Len(node) < Len(path)
        PROVE  Right(accepted, path, Append(node, s), found[Append(node, s)])
    <3>1. PICK c, n : c = Append(node, s) /\ n = Len(node) /\ n \in Nat
      BY <2>1, TextLength
    <3>2. Len(c) = n + 1 /\ n < k
      BY <1>5, <2>1, <2>2, <3>1, LongerBy
    <3>3. k - Len(c) \in Nat /\ k - Len(c) < m
      BY <1>5, <1>6, <3>1, <3>2
    <3>4. k - Len(c) \in T
      BY <1>6, <3>3
    <3> QED
      BY <2>2, <3>1, <3>4
  <2>3. Right(accepted, path, node, visit(t, accepted, path, found, node))
    BY <1>6, <2>1, <2>2, VisitFinds
  <2> QED
    BY <1>4, <2>3
<1>7. \A m \in Nat : (\A i \in Nat : i < m => i \in T) => m \in T
  BY <1>6
<1>8. Nat \subseteq T
  <2> HIDE DEF T
  <2> QED
    BY <1>7, Climb
<1>9. PICK root : root = <<>> /\ root \in Nodes(t) /\ Len(root) = 0
  BY DEF Nodes
<1>10. Sound(path, root)
  BY <1>5, <1>9 DEF Sound
<1>11. k - Len(root) = k /\ k \in T
  BY <1>5, <1>8, <1>9
<1>12. Right(accepted, path, root, found[root])
  BY <1>9, <1>10, <1>11
<1> QED
  BY <1>2, <1>3, <1>9, <1>12

Takes(r, method) == r.method \in {method, ANY_METHOD} \/ (method = "HEAD" /\ r.method = "GET")
AcceptedFor(t, method) == {p \in Patterns(t) : pickHandler(Handlers(t, p), method) # {}}

LEMMA Picks ==
  ASSUME NEW hs, NEW method
  PROVE  /\ pickHandler(hs, method) \subseteq {h \in hs : Takes(h, method)}
         /\ pickHandler(hs, method) # {} <=> \E h \in hs : Takes(h, method)
         /\ pickHandler(hs, method) = pickHandler({h \in hs : Takes(h, method)}, method)
         /\ \A h, o \in pickHandler(hs, method) : h.method = o.method
<1> DEFINE For(all, m) == {h \in all : h.method = m}
           taking == {h \in hs : Takes(h, method)}
<1>1. \A all : pickHandler(all, method) =
        IF For(all, method) # {} THEN For(all, method)
        ELSE IF method = "HEAD" /\ For(all, "GET") # {} THEN For(all, "GET") ELSE For(all, ANY_METHOD)
  BY DEF pickHandler
<1>2. /\ For(taking, method) = For(hs, method) /\ For(taking, ANY_METHOD) = For(hs, ANY_METHOD)
      /\ method = "HEAD" => For(taking, "GET") = For(hs, "GET")
  BY DEF Takes
<1>3. pickHandler(hs, method) = pickHandler(taking, method)
  <2> HIDE DEF For, taking
  <2> QED
    BY <1>1, <1>2
<1>4. \/ pickHandler(hs, method) = For(hs, method) \/ pickHandler(hs, method) = For(hs, ANY_METHOD)
      \/ method = "HEAD" /\ pickHandler(hs, method) = For(hs, "GET")
  BY <1>1
<1>5. pickHandler(hs, method) \subseteq taking /\ \A h, o \in pickHandler(hs, method) : h.method = o.method
  BY <1>4 DEF Takes
<1>6. ASSUME NEW h \in hs, Takes(h, method)
      PROVE  pickHandler(hs, method) # {}
  <2>1. For(hs, method) # {} \/ For(hs, ANY_METHOD) # {} \/ (method = "HEAD" /\ For(hs, "GET") # {})
    BY <1>6 DEF Takes
  <2> QED
    BY <1>1, <2>1
<1> QED
  BY <1>3, <1>5, <1>6

\* The pattern whose handlers a request gets is the best of those that fit and take its method.
LEMMA Finds ==
  ASSUME NEW t, TableOK(t), NEW accepted \in SUBSET Patterns(t), NEW path \in Text
  PROVE  \E found : /\ found = find(t, accepted, path)
                    /\ found \subseteq {p \in accepted : Fits(p, path)}
                    /\ {p \in accepted : Fits(p, path)} # {} => found # {}
                    /\ \A w \in found, q \in accepted : Fits(q, path) => q = w \/ Better(w, q)
                    /\ \A w, v \in found : w = v
<1>1. PICK found : found = find(t, accepted, path) /\ Right(accepted, path, <<>>, found)
  BY FindFinds
<1>2. PICK root : root = <<>> /\ Len(root) = 0
  OBVIOUS
<1>3. \A w \in accepted : Leads(root, w)
  <2>1. \A w \in accepted : Len(w) \in Nat
    BY PatternsAre, TextLength
  <2> QED
    BY <1>2, <2>1 DEF Leads
<1>4. Fitting(accepted, path, <<>>) = {p \in accepted : Fits(p, path)}
  BY <1>2, <1>3 DEF Fitting
<1>5. /\ found \subseteq {p \in accepted : Fits(p, path)} /\ ({p \in accepted : Fits(p, path)} # {} => found # {})
      /\ \A w \in found, q \in accepted : Fits(q, path) => q = w \/ Better(w, q)
  BY <1>1, <1>4 DEF Right
<1>6. ASSUME NEW w \in found, NEW v \in found, w # v
      PROVE  FALSE
  <2>1. w \in Text /\ v \in Text
    BY <1>5, PatternsAre
  <2>2. Better(w, v) /\ Better(v, w)
    BY <1>5, <1>6
  <2> QED
    BY <2>1, <2>2, BetterOnce
<1> QED
  BY <1>1, <1>5, <1>6

LEMMA MatchIs ==
  ASSUME NEW t, NEW method, NEW path, Malformed \notin ToSet(path)
  PROVE  LET exact == find(t, AcceptedFor(t, method), path)
             anyMethod == find(t, Patterns(t), path)
         IN /\ match(t, method, path).kind = IF exact # {} THEN "found" ELSE IF anyMethod # {} THEN "method-not-allowed" ELSE "not-found"
            /\ exact # {} => match(t, method, path).route = UNION {pickHandler(Handlers(t, n), method) : n \in exact}
            /\ match(t, method, path).allowed = IF exact = {} /\ anyMethod # {} THEN UNION {allowedMethods(Handlers(t, n)) : n \in anyMethod} ELSE {}
<1>1. PICK exact, anyMethod : exact = find(t, AcceptedFor(t, method), path) /\ anyMethod = find(t, Patterns(t), path)
  OBVIOUS
<1>2. PICK picked, allowed : /\ picked = UNION {pickHandler(Handlers(t, n), method) : n \in exact}
                             /\ allowed = UNION {allowedMethods(Handlers(t, n)) : n \in anyMethod}
  OBVIOUS
<1>3. match(t, method, path) =
        IF exact # {} THEN [kind |-> "found", route |-> picked, allowed |-> {}]
        ELSE IF anyMethod # {} THEN [kind |-> "method-not-allowed", route |-> {}, allowed |-> allowed]
        ELSE [kind |-> "not-found", route |-> {}, allowed |-> {}]
  BY <1>1, <1>2 DEF match, AcceptedFor, Patterns
<1>4. CASE exact # {}
  BY <1>1, <1>2, <1>3, <1>4
<1>5. CASE exact = {} /\ anyMethod # {}
  BY <1>1, <1>2, <1>3, <1>5
<1>6. CASE exact = {} /\ anyMethod = {}
  BY <1>1, <1>2, <1>3, <1>6
<1> QED
  BY <1>4, <1>5, <1>6

\* The trie finds the right route, in any table add() accepts and for any path.
THEOREM TrieFindsBest ==
  ASSUME NEW t, TableOK(t), NEW method, NEW path \in Text, Malformed \notin ToSet(path)
  PROVE  RightRoute(t, method, path)
<1> DEFINE Accepted == AcceptedFor(t, method)
           fitting == {r \in t : Fits(r.path, path) /\ Takes(r, method)}
           best == {r \in fitting : \A q \in fitting : q.path # r.path => Better(r.path, q.path)}
<1>1. Accepted \in SUBSET Patterns(t)
  BY DEF AcceptedFor
<1>2. PICK exact : /\ exact = find(t, Accepted, path) /\ exact \subseteq {p \in Accepted : Fits(p, path)}
                   /\ {p \in Accepted : Fits(p, path)} # {} => exact # {}
                   /\ \A w \in exact, q \in Accepted : Fits(q, path) => q = w \/ Better(w, q)
                   /\ \A w, v \in exact : w = v
  BY <1>1, Finds, SMTT(30)
<1>3. PICK anyMethod : /\ anyMethod = find(t, Patterns(t), path) /\ anyMethod \subseteq {p \in Patterns(t) : Fits(p, path)}
                       /\ {p \in Patterns(t) : Fits(p, path)} # {} => anyMethod # {}
  BY Finds
<1>4. PICK found : /\ found = match(t, method, path)
                   /\ found.kind = IF exact # {} THEN "found" ELSE IF anyMethod # {} THEN "method-not-allowed" ELSE "not-found"
                   /\ exact # {} => found.route = UNION {pickHandler(Handlers(t, n), method) : n \in exact}
                   /\ found.allowed = IF exact = {} /\ anyMethod # {} THEN UNION {allowedMethods(Handlers(t, n)) : n \in anyMethod} ELSE {}
  BY <1>2, <1>3, MatchIs, ZenonT(40)
<1>5. Wanted(t, method, path) = pickHandler(best, method)
  BY DEF Wanted, Takes
<1>6. \A r \in t : r.path \in Patterns(t) /\ r \in Handlers(t, r.path)
  BY DEF Patterns, Handlers
<1>7. \A r \in fitting : r.path \in Accepted
  BY <1>6, Picks DEF AcceptedFor
<1>8. found.kind = "not-found" <=> \A r \in t : ~ Fits(r.path, path)
  <2>1. ASSUME anyMethod = {} PROVE \A r \in t : ~ Fits(r.path, path)
    BY <1>3, <1>6, <2>1
  <2>2. ASSUME \A r \in t : ~ Fits(r.path, path) PROVE exact = {} /\ anyMethod = {}
    <3>1. \A p \in Patterns(t) : ~ Fits(p, path)
      BY <2>2 DEF Patterns
    <3> QED
      BY <1>1, <1>2, <1>3, <3>1
  <2>3. anyMethod = {} => exact = {}
    <3>1. \A p \in Patterns(t) : \E r \in t : r.path = p
      BY DEF Patterns
    <3> QED
      BY <1>1, <1>2, <2>1, <3>1
  <2> QED
    BY <1>4, <2>1, <2>2, <2>3
<1>9. ASSUME NEW m \in found.allowed \ {"OPTIONS"}
      PROVE  match(t, m, path).kind = "found"
  <2>1. PICK n \in anyMethod : m \in allowedMethods(Handlers(t, n))
    BY <1>4, <1>9
  <2>2. \E h \in Handlers(t, n) : Takes(h, m)
    BY <1>9, <2>1 DEF allowedMethods, Takes
  <2>3. n \in AcceptedFor(t, m) /\ Fits(n, path)
    BY <1>3, <2>1, <2>2, Picks DEF AcceptedFor
  <2>4. AcceptedFor(t, m) \in SUBSET Patterns(t)
    BY DEF AcceptedFor
  <2>5. PICK other : other = find(t, AcceptedFor(t, m), path) /\ other # {}
    <3>0. PICK all : all = AcceptedFor(t, m)
      OBVIOUS
    <3>1. PICK other : /\ other = find(t, all, path)
                       /\ {p \in all : Fits(p, path)} # {} => other # {}
      <4>1. all \in SUBSET Patterns(t)
        BY <2>4, <3>0
      <4> QED
        BY <4>1, Finds
    <3> QED
      BY <2>3, <3>0, <3>1
  <2> QED
    BY <2>5, MatchIs
<1>10. CASE exact = {}
  <2>1. fitting = {}
    BY <1>2, <1>7, <1>10
  <2>2. Wanted(t, method, path) = {}
    BY <1>5, <2>1, Picks
  <2>3. found.kind # "found"
    BY <1>4, <1>10
  <2> QED
    BY <1>4, <1>8, <1>9, <2>2, <2>3 DEF RightRoute
<1>11. CASE exact # {}
  <2>1. PICK w \in exact : exact = {w}
    BY <1>2, <1>11
  <2>2. /\ w \in Accepted /\ Fits(w, path) /\ \A q \in Accepted : Fits(q, path) => q = w \/ Better(w, q)
    BY <1>2, <2>1
  <2>3. PICK picked : picked = pickHandler(Handlers(t, w), method)
    OBVIOUS
  <2>4. found.kind = "found" /\ found.route = picked
    BY <1>4, <1>11, <2>1, <2>3
  <2>5. picked # {}
    BY <2>2, <2>3 DEF AcceptedFor
  <2>6. best = {h \in Handlers(t, w) : Takes(h, method)}
    <3>1. ASSUME NEW h \in Handlers(t, w), Takes(h, method)
          PROVE  h \in best
      <4>1. h \in fitting /\ h.path = w
        BY <2>2, <3>1 DEF Handlers
      <4>2. \A q \in fitting : q.path # w => Better(w, q.path)
        BY <1>7, <2>2
      <4> QED
        BY <4>1, <4>2
    <3>2. ASSUME NEW r \in best
          PROVE  r \in Handlers(t, w) /\ Takes(r, method)
      <4>1. r \in fitting /\ r.path \in Accepted
        BY <1>7, <3>2
      <4>2. CASE r.path = w
        BY <4>1, <4>2 DEF Handlers
      <4>3. CASE r.path # w
        <5>1. PICK h \in Handlers(t, w) : Takes(h, method)
          BY <2>3, <2>5, Picks
        <5>2. h \in fitting /\ h.path = w
          BY <2>2, <5>1 DEF Handlers
        <5>3. Better(r.path, w) /\ Better(w, r.path)
          BY <2>2, <3>2, <4>1, <4>3, <5>2
        <5>4. r.path \in Text /\ w \in Text
          BY <1>1, <2>2, <4>1, PatternsAre
        <5> QED
          BY <5>3, <5>4, BetterOnce
      <4> QED
        BY <4>2, <4>3
    <3> HIDE DEF best
    <3> QED
      BY <3>1, <3>2
  <2>7. Wanted(t, method, path) = picked
    BY <1>5, <2>3, <2>6, Picks
  <2>8. Cardinality(picked) = 1
    <3>1. ASSUME NEW h \in picked, NEW o \in picked
          PROVE  h = o
      <4>1. h \in Handlers(t, w) /\ o \in Handlers(t, w) /\ h.method = o.method
        <5>1. PICK all : all = Handlers(t, w)
          OBVIOUS
        <5>2. picked = pickHandler(all, method)
          BY <2>3, <5>1
        <5>3. pickHandler(all, method) \subseteq {x \in all : Takes(x, method)}
          BY Picks
        <5>4. \A x, y \in pickHandler(all, method) : x.method = y.method
          BY Picks
        <5> QED
          BY <3>1, <5>1, <5>2, <5>3, <5>4
      <4> QED
        BY <4>1 DEF Handlers, TableOK
    <3>2. PICK h \in picked : picked = {h}
      BY <2>5, <3>1
    <3> QED
      BY <3>2, FS_Singleton
  <2>9. \E r \in Wanted(t, method, path) : TRUE
    BY <2>5, <2>7
  <2> HIDE DEF best, fitting, Accepted
  <2> QED
    BY <1>4, <1>8, <1>9, <2>4, <2>7, <2>8, <2>9 DEF RightRoute
<1> QED
  BY <1>10, <1>11

\* What add() does not refuse is a table.
LEMMA NoConflicts ==
  ASSUME NEW routes, \A n \in DOMAIN routes : routes[n].path \in Text, ~ Conflicts(routes)
  PROVE  TableOK(ToSet(routes))
<1>1. ASSUME NEW m \in DOMAIN routes, NEW n \in DOMAIN routes, NEW p, NEW q, p = routes[m].path, q = routes[n].path
      PROVE  /\ p \in Text /\ \A i \in 1 .. Len(p) : p[i] = "*" => i = Len(p)
             /\ \A i \in 1 .. Len(p) : i <= Len(q) /\ (\A j \in 1 .. i - 1 : p[j] = q[j]) /\ p[i] \in Params /\ q[i] \in Params => p[i] = q[i]
             /\ p = q /\ routes[m].method = routes[n].method => routes[m] = routes[n]
  <2>1. p \in Text /\ q \in Text
    BY <1>1
  <2>2. PICK k, l : k = Len(p) /\ l = Len(q) /\ k \in Nat /\ l \in Nat /\ DOMAIN p = 1 .. k /\ DOMAIN q = 1 .. l
    BY <2>1, TextLength
  <2>3. /\ \A i \in 1 .. k : ~ (p[i] = "*" /\ i # k)
        /\ \A i \in 1 .. k \cap 1 .. l : ~ (SubSeq(p, 1, i - 1) = SubSeq(q, 1, i - 1) /\ p[i] # q[i] /\ {p[i], q[i]} \subseteq Params)
        /\ ~ (m # n /\ p = q /\ routes[m].method = routes[n].method)
    <3> DEFINE Crossed(a, b) ==
                 \/ \E i \in DOMAIN a : a[i] = "*" /\ i # Len(a)
                 \/ \E i \in DOMAIN a \cap DOMAIN b : /\ SubSeq(a, 1, i - 1) = SubSeq(b, 1, i - 1)
                                                     /\ a[i] # b[i] /\ {a[i], b[i]} \subseteq Params
    <3>1. ~ (Crossed(routes[m].path, routes[n].path) \/ (m # n /\ routes[m].path = routes[n].path /\ routes[m].method = routes[n].method))
      BY Zenon DEF Conflicts
    <3> HIDE DEF Crossed
    <3>2. ~ Crossed(p, q) /\ ~ (m # n /\ p = q /\ routes[m].method = routes[n].method)
      BY <1>1, <3>1
    <3>3. /\ ~ \E i \in 1 .. k : p[i] = "*" /\ i # k
          /\ ~ \E i \in 1 .. k \cap 1 .. l :
                 SubSeq(p, 1, i - 1) = SubSeq(q, 1, i - 1) /\ p[i] # q[i] /\ {p[i], q[i]} \subseteq Params
      BY <2>2, <3>2, Zenon DEF Crossed
    <3> QED
      BY <3>2, <3>3
  <2>4. ASSUME NEW i \in 1 .. k, i <= l, \A j \in 1 .. i - 1 : p[j] = q[j], p[i] \in Params, q[i] \in Params
        PROVE  p[i] = q[i]
    <3>1. i - 1 \in Nat /\ i - 1 <= Len(p) /\ i - 1 <= Len(q) /\ i \in 1 .. k \cap 1 .. l
      BY <2>2, <2>4
    <3>2. SubSeq(p, 1, i - 1) = SubSeq(q, 1, i - 1)
      BY <2>1, <2>4, <3>1, SameBeginning
    <3> QED
      BY <2>3, <2>4, <3>1, <3>2
  <2> QED
    BY <2>1, <2>2, <2>3, <2>4
<1>2. \A r \in ToSet(routes) : \E n \in DOMAIN routes : r = routes[n]
  BY DEF ToSet
<1>3. \A r \in ToSet(routes) : r.path \in Text /\ \A i \in 1 .. Len(r.path) : r.path[i] = "*" => i = Len(r.path)
  BY <1>1, <1>2
<1>4. ASSUME NEW r \in ToSet(routes), NEW q \in ToSet(routes)
      PROVE  /\ \A i \in 1 .. Len(r.path) : i <= Len(q.path) /\ (\A j \in 1 .. i - 1 : r.path[j] = q.path[j])
                  /\ r.path[i] \in Params /\ q.path[i] \in Params => r.path[i] = q.path[i]
             /\ r.path = q.path /\ r.method = q.method => r = q
  <2>1. PICK m \in DOMAIN routes, n \in DOMAIN routes : r = routes[m] /\ q = routes[n]
    BY <1>2
  <2>2. PICK a, b : a = r.path /\ b = q.path
    OBVIOUS
  <2>3. /\ \A i \in 1 .. Len(a) : i <= Len(b) /\ (\A j \in 1 .. i - 1 : a[j] = b[j]) /\ a[i] \in Params /\ b[i] \in Params => a[i] = b[i]
        /\ a = b /\ routes[m].method = routes[n].method => routes[m] = routes[n]
    BY <1>1, <2>1, <2>2
  <2> QED
    BY <2>1, <2>2, <2>3
<1> QED
  BY <1>3, <1>4 DEF TableOK

LEMMA StringsAreText == Seq(STRING) \subseteq Text
<1>1. ASSUME NEW p \in Seq(STRING)
      PROVE  p \in Text
  <2>1. PICK n : n = Len(p) /\ n \in Nat /\ DOMAIN p = 1 .. n /\ p = [i \in DOMAIN p |-> p[i]]
    BY LenProperties
  <2>2. \A i \in 1 .. n : p[i] \in STRING
    BY <2>1, ElementOfSeq
  <2>3. \A i \in 1 .. n : p[i] \in Segments
    BY <2>2 DEF Segments
  <2>4. p \in [1 .. n -> Segments]
    BY <2>1, <2>3
  <2>5. p \in Seq(Segments)
    BY <2>1, <2>4
  <2> QED
    BY <2>5 DEF Text
<1> QED
  BY <1>1

LEMMA TheTrieFinds == TrieFinds
<1>1. ASSUME NEW size \in 1 .. 3, NEW chosen \in [1 .. size -> Offered], NEW q \in Asked, Malformed \notin ToSet(q.path), NEW routes,
             routes = [n \in 1 .. size |-> [method |-> chosen[n].method, path |-> chosen[n].path, chain |-> <<>>, by |-> Root]],
             ~ Conflicts(routes)
      PROVE  RightRoute(ToSet(routes), q.method, q.path)
  <2>1. \A n \in DOMAIN routes : routes[n].path \in Text
    <3>1. ASSUME NEW n \in 1 .. size
          PROVE  routes[n].path \in Text
      <4>1. chosen[n] \in Offered /\ routes[n].path = chosen[n].path
        BY <1>1
      <4>2. chosen[n].path \in Seq(STRING)
        BY <4>1, RoutesAssumption
      <4> QED
        BY <4>1, <4>2, StringsAreText
    <3> QED
      BY <1>1, <3>1
  <2>2. TableOK(ToSet(routes))
    BY <1>1, <2>1, NoConflicts
  <2>3. q.path \in Text
    <3>1. q.path \in Seq(STRING)
      BY RoutesAssumption
    <3> QED
      BY <3>1, StringsAreText
  <2> QED
    BY <1>1, <2>2, <2>3, TrieFindsBest
<1> QED
  BY <1>1 DEF TrieFinds

-----------------------------------------------------------------------------
\* Routes: what the routers return.

Calls == Routers \X Nat
Registered == [method : STRING, path : Text, chain : Seq(Calls), by : Routers]
Mounted == [prefix : Text, router : Routers]

NestedBy(k, mount, routes) ==
  [n \in DOMAIN routes |-> [routes[n] EXCEPT !.path = mount.prefix \o @, !.chain = k[mount.router] \o @]]
GatheredBy(d, k, m, f, r) == d[r] \o FlattenSeq([n \in DOMAIN m[r] |-> NestedBy(k, m[r][n], f[m[r][n].router])])
CollectedBy(d, k, m) ==
  LET collected == CHOOSE f : f = [r \in Routers |-> GatheredBy(d, k, m, f, r)] IN collected[Root]
MountsBy(m, p, r) == \E x \in ToSet(m[p]) : x.router = r
Typed(d, k, m) == d \in [Routers -> Seq(Registered)] /\ k \in [Routers -> Seq(Calls)] /\ m \in [Routers -> Seq(Mounted)]

Behind(a, b) == a \o b

LEMMA NestedTyped ==
  ASSUME NEW k \in [Routers -> Seq(Calls)], NEW mount \in Mounted, NEW routes \in Seq(Registered)
  PROVE  /\ NestedBy(k, mount, routes) \in Seq(Registered)
         /\ \A x \in ToSet(NestedBy(k, mount, routes)) : \E y \in ToSet(routes) : x.by = y.by /\ x.chain = Behind(k[mount.router], y.chain)
<1>1. PICK size : size = Len(routes) /\ size \in Nat /\ DOMAIN routes = 1 .. size
  BY LenProperties
<1>2. PICK all : all = NestedBy(k, mount, routes)
  OBVIOUS
<1>3. ASSUME NEW n \in 1 .. size
      PROVE  /\ all[n] \in Registered /\ routes[n] \in ToSet(routes)
             /\ all[n].by = routes[n].by /\ all[n].chain = k[mount.router] \o routes[n].chain
  <2>1. PICK y : y = routes[n] /\ y \in Registered
    BY <1>1, ElementOfSeq
  <2>2. PICK p, c : p = mount.prefix \o y.path /\ c = k[mount.router] \o y.chain
    OBVIOUS
  <2>3. p \in Text
    <3>1. PICK a, b : a = mount.prefix /\ b = y.path /\ a \in Seq(Segments) /\ b \in Seq(Segments)
      BY <2>1 DEF Mounted, Registered, Text
    <3>2. a \o b \in Seq(Segments)
      BY <3>1, ConcatProperties
    <3> QED
      BY <2>2, <3>1, <3>2 DEF Text
  <2>4. c \in Seq(Calls)
    <3>1. PICK a, b : a = k[mount.router] /\ b = y.chain /\ a \in Seq(Calls) /\ b \in Seq(Calls)
      BY <2>1 DEF Mounted, Registered
    <3>2. a \o b \in Seq(Calls)
      BY <3>1, ConcatProperties
    <3> QED
      BY <2>2, <3>1, <3>2
  <2>5. all[n] = [y EXCEPT !.path = p, !.chain = c]
    BY <1>1, <1>2, <2>1, <2>2 DEF NestedBy
  <2>6. all[n] \in Registered /\ all[n].by = y.by /\ all[n].chain = c
    BY <2>1, <2>3, <2>4, <2>5 DEF Registered
  <2>7. routes[n] \in ToSet(routes)
    BY <1>1 DEF ToSet
  <2> QED
    BY <2>1, <2>2, <2>6, <2>7
<1>4. all = [n \in 1 .. size |-> all[n]] /\ DOMAIN all = 1 .. size
  BY <1>1, <1>2 DEF NestedBy
<1>5. all \in Seq(Registered)
  <2>1. \A n \in 1 .. size : all[n] \in Registered
    BY <1>3
  <2> QED
    BY <1>1, <1>4, <2>1
<1>6. ASSUME NEW x \in ToSet(all)
      PROVE  \E y \in ToSet(routes) : x.by = y.by /\ x.chain = Behind(k[mount.router], y.chain)
  <2>1. PICK n \in 1 .. size : x = all[n]
    BY <1>4, <1>6 DEF ToSet
  <2> QED
    BY <1>3, <2>1 DEF Behind
<1> QED
  BY <1>2, <1>5, <1>6

\* Whatever the routers mounted on r return is typed, so is what r returns; it is r's own or from one of them.
LEMMA GatheredTyped ==
  ASSUME NEW d, NEW k, NEW m, Typed(d, k, m), NEW f, NEW r \in Routers, \A s \in Routers : MountsBy(m, r, s) => f[s] \in Seq(Registered)
  PROVE  /\ GatheredBy(d, k, m, f, r) \in Seq(Registered)
         /\ \A x \in ToSet(GatheredBy(d, k, m, f, r)) :
              \/ x \in ToSet(d[r])
              \/ \E s \in Routers : MountsBy(m, r, s) /\ \E y \in ToSet(f[s]) : x.by = y.by /\ x.chain = Behind(k[s], y.chain)
<1>1. PICK ms, own : ms = m[r] /\ ms \in Seq(Mounted) /\ own = d[r] /\ own \in Seq(Registered)
  BY DEF Typed
<1>2. PICK size : size = Len(ms) /\ size \in Nat /\ DOMAIN ms = 1 .. size
  BY <1>1, LenProperties
<1>3. PICK lists : lists = [n \in DOMAIN ms |-> NestedBy(k, ms[n], f[ms[n].router])]
  OBVIOUS
<1>4. ASSUME NEW n \in 1 .. size
      PROVE  /\ ms[n].router \in Routers /\ MountsBy(m, r, ms[n].router) /\ lists[n] \in Seq(Registered)
             /\ \A x \in ToSet(lists[n]) : \E y \in ToSet(f[ms[n].router]) : x.by = y.by /\ x.chain = Behind(k[ms[n].router], y.chain)
  <2>1. PICK mount : mount = ms[n] /\ mount \in Mounted /\ mount \in ToSet(ms)
    BY <1>1, <1>2, ElementOfSeq DEF ToSet
  <2>2. mount.router \in Routers /\ MountsBy(m, r, mount.router)
    BY <1>1, <2>1 DEF Mounted, MountsBy
  <2>3. f[mount.router] \in Seq(Registered)
    BY <2>2
  <2>4. k \in [Routers -> Seq(Calls)]
    BY DEF Typed
  <2>5. lists[n] = NestedBy(k, mount, f[mount.router])
    BY <1>2, <1>3, <2>1
  <2>6. /\ NestedBy(k, mount, f[mount.router]) \in Seq(Registered)
        /\ \A x \in ToSet(NestedBy(k, mount, f[mount.router])) :
             \E y \in ToSet(f[mount.router]) : x.by = y.by /\ x.chain = Behind(k[mount.router], y.chain)
    BY <2>1, <2>3, <2>4, NestedTyped
  <2> QED
    BY <2>1, <2>2, <2>5, <2>6
<1>5. lists \in Seq(Seq(Registered)) /\ DOMAIN lists = 1 .. size
  <2> DEFINE S == Seq(Registered)
  <2>1. \A n \in 1 .. size : lists[n] \in S
    BY <1>4
  <2>2. lists = [n \in 1 .. size |-> lists[n]]
    BY <1>2, <1>3
  <2> HIDE DEF S
  <2>3. lists \in Seq(S) /\ DOMAIN lists = 1 .. size
    BY <1>2, <2>1, <2>2
  <2> QED
    BY <2>3 DEF S
<1>6. PICK flat : flat = FlattenSeq(lists) /\ flat \in Seq(Registered) /\ \A x \in ToSet(flat) : \E n \in DOMAIN lists : x \in ToSet(lists[n])
  BY <1>5, FlattenRange
<1>7. PICK whole : whole = own \o flat
  OBVIOUS
<1>8. GatheredBy(d, k, m, f, r) = whole
  BY <1>1, <1>3, <1>6, <1>7 DEF GatheredBy
<1>9. whole \in Seq(Registered)
  BY <1>1, <1>6, <1>7, ConcatProperties
<1>10. ASSUME NEW x \in ToSet(whole)
       PROVE  \/ x \in ToSet(own)
              \/ \E s \in Routers : MountsBy(m, r, s) /\ \E y \in ToSet(f[s]) : x.by = y.by /\ x.chain = Behind(k[s], y.chain)
  <2>1. x \in ToSet(own) \/ x \in ToSet(flat)
    <3>1. x \in ToSet(own \o flat)
      BY <1>7, <1>10
    <3> QED
      BY <1>1, <1>6, <3>1, ConcatRange
  <2>2. ASSUME x \in ToSet(flat)
        PROVE  \E s \in Routers : MountsBy(m, r, s) /\ \E y \in ToSet(f[s]) : x.by = y.by /\ x.chain = Behind(k[s], y.chain)
    <3>1. PICK n \in 1 .. size : x \in ToSet(lists[n])
      BY <1>5, <1>6, <2>2
    <3> QED
      BY <1>4, <3>1
  <2> QED
    BY <2>1, <2>2
<1> QED
  BY <1>1, <1>8, <1>9, <1>10

\* What r returns depends on itself, on the middleware of the routers mounted on it and on what these return.
LEMMA GatheredLooks ==
  ASSUME NEW d, NEW k, NEW m, NEW e, NEW l, NEW o, Typed(d, k, m), NEW f, NEW g, NEW r \in Routers, d[r] = e[r], m[r] = o[r],
         \A s \in Routers : MountsBy(m, r, s) => f[s] = g[s] /\ k[s] = l[s]
  PROVE  GatheredBy(d, k, m, f, r) = GatheredBy(e, l, o, g, r)
<1>1. PICK ms, own : ms = m[r] /\ ms = o[r] /\ ms \in Seq(Mounted) /\ own = d[r] /\ own = e[r]
  BY DEF Typed
<1>2. PICK size : size = Len(ms) /\ size \in Nat /\ DOMAIN ms = 1 .. size
  BY <1>1, LenProperties
<1>3. ASSUME NEW n \in 1 .. size
      PROVE  NestedBy(k, ms[n], f[ms[n].router]) = NestedBy(l, ms[n], g[ms[n].router])
  <2>1. PICK mount : mount = ms[n] /\ mount \in Mounted /\ mount \in ToSet(ms)
    BY <1>1, <1>2, ElementOfSeq DEF ToSet
  <2>2. mount.router \in Routers /\ MountsBy(m, r, mount.router)
    BY <1>1, <2>1 DEF Mounted, MountsBy
  <2>3. PICK routes, calls : routes = f[mount.router] /\ routes = g[mount.router] /\ calls = k[mount.router] /\ calls = l[mount.router]
    BY <2>2
  <2> QED
    BY <2>1, <2>3 DEF NestedBy
<1>4. PICK lists : lists = [n \in DOMAIN ms |-> NestedBy(k, ms[n], f[ms[n].router])]
  OBVIOUS
<1>5. lists = [n \in DOMAIN ms |-> NestedBy(l, ms[n], g[ms[n].router])]
  BY <1>2, <1>3, <1>4
<1>6. GatheredBy(d, k, m, f, r) = own \o FlattenSeq(lists)
  BY <1>1, <1>4 DEF GatheredBy
<1>7. GatheredBy(e, l, o, g, r) = own \o FlattenSeq(lists)
  BY <1>1, <1>5 DEF GatheredBy
<1> QED
  BY <1>6, <1>7

\* Mounts go down: there is a rank that falls with each.
RankedBy(m, rank) == rank \in [Routers -> Nat] /\ \A p, r \in Routers : MountsBy(m, p, r) => rank[r] < rank[p]

\* The recursion ends, and what a router returns is typed.
LEMMA CollectedHolds ==
  ASSUME NEW d, NEW k, NEW m, Typed(d, k, m), NEW rank, RankedBy(m, rank)
  PROVE  \E f \in [Routers -> Seq(Registered)] : f = [r \in Routers |-> GatheredBy(d, k, m, f, r)] /\ CollectedBy(d, k, m) = f[Root]
<1> DEFINE V == Seq(Registered)
           Body == [f \in [Routers -> V] |-> [r \in Routers |-> GatheredBy(d, k, m, f, r)]]
<1>1. rank \in [Routers -> Nat] /\ \A p, r \in Routers : MountsBy(m, p, r) => rank[r] < rank[p]
  BY DEF RankedBy
<1>2. V # {}
  BY EmptySeq
<1>3. Body \in [[Routers -> V] -> [Routers -> V]]
  <2>1. ASSUME NEW f \in [Routers -> V], NEW r \in Routers PROVE GatheredBy(d, k, m, f, r) \in V
    <3>1. \A s \in Routers : MountsBy(m, r, s) => f[s] \in Seq(Registered)
      OBVIOUS
    <3> QED
      BY <3>1, GatheredTyped
  <2> HIDE DEF V
  <2> QED
    BY <2>1
<1>4. ASSUME NEW f \in [Routers -> V], NEW g \in [Routers -> V], NEW r \in Routers, \A s \in Routers : rank[s] < rank[r] => f[s] = g[s]
      PROVE  Body[f][r] = Body[g][r]
  <2>1. PICK e, l, o : e = d /\ l = k /\ o = m
    OBVIOUS
  <2>2. e[r] = d[r] /\ o[r] = m[r] /\ \A s \in Routers : MountsBy(m, r, s) => f[s] = g[s] /\ k[s] = l[s]
    BY <1>1, <1>4, <2>1
  <2>3. GatheredBy(d, k, m, f, r) = GatheredBy(e, l, o, g, r)
    <3> HIDE DEF V
    <3> QED
      BY <2>2, GatheredLooks
  <2> QED
    BY <2>1, <2>3
<1>5. WellFounded(Routers, V, rank, Body)
  <2> HIDE DEF V, Body
  <2> QED
    BY <1>1, <1>2, <1>3, <1>4 DEF WellFounded
<1>6. \E f \in [Routers -> V] : f = Body[f]
  <2> HIDE DEF V, Body
  <2> QED
    BY <1>5, RecursionHolds
<1>7. \E f : f = [r \in Routers |-> GatheredBy(d, k, m, f, r)]
  BY <1>6
<1> DEFINE F == CHOOSE f : f = [r \in Routers |-> GatheredBy(d, k, m, f, r)]
<1>8. F = [r \in Routers |-> GatheredBy(d, k, m, F, r)]
  BY <1>7
<1>9. CollectedBy(d, k, m) = F[Root]
  BY DEF CollectedBy
<1> HIDE DEF F
<1>10. PICK f : f = F /\ f = [r \in Routers |-> GatheredBy(d, k, m, f, r)]
  BY <1>8
<1> DEFINE T == {n \in Nat : \A r \in Routers : rank[r] = n => f[r] \in Seq(Registered)}
<1>11. ASSUME NEW n \in Nat, \A i \in Nat : i < n => i \in T, NEW r \in Routers, rank[r] = n
       PROVE  f[r] \in Seq(Registered)
  <2>1. \A s \in Routers : MountsBy(m, r, s) => f[s] \in Seq(Registered)
    <3>1. \A s \in Routers : MountsBy(m, r, s) => rank[s] \in Nat /\ rank[s] < n
      BY <1>1, <1>11
    <3> QED
      BY <1>11, <3>1
  <2>2. f[r] = GatheredBy(d, k, m, f, r)
    BY <1>10
  <2>3. GatheredBy(d, k, m, f, r) \in Seq(Registered)
    <3> HIDE DEF T, V
    <3> QED
      BY <2>1, GatheredTyped
  <2> QED
    BY <2>2, <2>3
<1>12. \A n \in Nat : (\A i \in Nat : i < n => i \in T) => n \in T
  BY <1>11
<1>13. Nat \subseteq T
  <2> HIDE DEF T
  <2> QED
    BY <1>12, Climb
<1>14. \A r \in Routers : f[r] \in Seq(Registered)
  BY <1>1, <1>13
<1>15. f \in [Routers -> Seq(Registered)]
  BY <1>10, <1>14
<1> QED
  BY <1>9, <1>10, <1>15

\* The routers r is mounted on, and r.
AboveBy(m, r) ==
  {q \in Routers : \A all \in SUBSET Routers :
     r \in all /\ (\A p \in Routers, s \in all : MountsBy(m, p, s) => p \in all) => q \in all}

LEMMA AboveIs ==
  ASSUME NEW m, NEW r \in Routers
  PROVE  r \in AboveBy(m, r) /\ \A p \in Routers, s \in AboveBy(m, r) : MountsBy(m, p, s) => p \in AboveBy(m, r)
<1>1. r \in AboveBy(m, r)
  BY DEF AboveBy
<1>2. ASSUME NEW p \in Routers, NEW s \in AboveBy(m, r), MountsBy(m, p, s)
      PROVE  p \in AboveBy(m, r)
  <2> SUFFICES ASSUME NEW all \in SUBSET Routers, r \in all, \A q \in Routers, x \in all : MountsBy(m, q, x) => q \in all
               PROVE  p \in all
    BY DEF AboveBy
  <2>1. s \in all
    BY DEF AboveBy
  <2> QED
    BY <1>2, <2>1
<1> QED
  BY <1>1, <1>2

\* A change of r is none for the routers it is not mounted on.
LEMMA CollectedStays ==
  ASSUME NEW d, NEW k, NEW m, Typed(d, k, m), NEW rank, RankedBy(m, rank),
         NEW e, NEW l, NEW o, Typed(e, l, o), NEW order, RankedBy(o, order),
         NEW r \in Routers, \A q \in Routers \ {r} : e[q] = d[q] /\ l[q] = k[q] /\ o[q] = m[q], Root \notin AboveBy(m, r)
  PROVE  CollectedBy(e, l, o) = CollectedBy(d, k, m)
<1> DEFINE CollectedSo(a, b, c) ==
             \E f \in [Routers -> Seq(Registered)] : f = [q \in Routers |-> GatheredBy(a, b, c, f, q)] /\ CollectedBy(a, b, c) = f[Root]
<1>0. \A a, b, c, x : Typed(a, b, c) /\ RankedBy(c, x) => CollectedSo(a, b, c)
  BY CollectedHolds
<1>1. PICK f \in [Routers -> Seq(Registered)] : f = [q \in Routers |-> GatheredBy(d, k, m, f, q)] /\ CollectedBy(d, k, m) = f[Root]
  <2>1. CollectedSo(d, k, m)
    <3> HIDE DEF CollectedSo
    <3> QED
      BY <1>0
  <2> QED
    BY <2>1
<1>2. PICK g \in [Routers -> Seq(Registered)] : g = [q \in Routers |-> GatheredBy(e, l, o, g, q)] /\ CollectedBy(e, l, o) = g[Root]
  <2>1. CollectedSo(e, l, o)
    <3> HIDE DEF CollectedSo
    <3> QED
      BY <1>0
  <2> QED
    BY <2>1
<1> HIDE DEF CollectedSo
<1>3. rank \in [Routers -> Nat] /\ \A p, s \in Routers : MountsBy(m, p, s) => rank[s] < rank[p]
  BY DEF RankedBy
<1>4. r \in AboveBy(m, r) /\ \A p \in Routers, s \in AboveBy(m, r) : MountsBy(m, p, s) => p \in AboveBy(m, r)
  BY AboveIs
<1> DEFINE T == {n \in Nat : \A q \in Routers : q \notin AboveBy(m, r) /\ rank[q] = n => f[q] = g[q]}
<1>5. ASSUME NEW n \in Nat, \A i \in Nat : i < n => i \in T, NEW q \in Routers, q \notin AboveBy(m, r), rank[q] = n
      PROVE  f[q] = g[q]
  <2>1. q # r /\ d[q] = e[q] /\ m[q] = o[q]
    BY <1>4, <1>5
  <2>2. ASSUME NEW s \in Routers, MountsBy(m, q, s)
        PROVE  f[s] = g[s] /\ k[s] = l[s]
    <3>1. s \notin AboveBy(m, r) /\ s # r
      BY <1>4, <1>5, <2>2
    <3>2. rank[s] \in Nat /\ rank[s] < n
      BY <1>3, <1>5, <2>2
    <3> QED
      BY <1>5, <3>1, <3>2
  <2>3. GatheredBy(d, k, m, f, q) = GatheredBy(e, l, o, g, q)
    BY <2>1, <2>2, GatheredLooks
  <2>4. f[q] = GatheredBy(d, k, m, f, q) /\ g[q] = GatheredBy(e, l, o, g, q)
    BY <1>1, <1>2
  <2> QED
    BY <2>3, <2>4
<1>6. \A n \in Nat : (\A i \in Nat : i < n => i \in T) => n \in T
  BY <1>5
<1>7. Nat \subseteq T
  <2> HIDE DEF T
  <2> QED
    BY <1>6, Climb
<1>8. Root \in Routers /\ rank[Root] \in Nat
  BY <1>3, RoutesAssumption
<1>9. f[Root] = g[Root]
  BY <1>7, <1>8
<1> QED
  BY <1>1, <1>2, <1>9

OneMore(X, a, ss, whole) ==
  /\ whole = <<a>> \o ss /\ whole \in Seq(X) /\ Len(whole) = Len(ss) + 1 /\ DOMAIN whole = 1 .. Len(ss) + 1
  /\ whole[1] = a /\ \A i \in 1 .. Len(ss) : whole[i + 1] = ss[i]

LEMMA Prepended ==
  ASSUME NEW X, NEW a \in X, NEW ss \in Seq(X)
  PROVE  \E whole : OneMore(X, a, ss, whole)
<1>1. PICK whole : whole = <<a>> \o ss
  OBVIOUS
<1>2. PICK size : size = Len(ss) /\ size \in Nat /\ DOMAIN ss = 1 .. size
  BY LenProperties
<1>3. PICK first : first = <<a>>
  OBVIOUS
<1>4. first \in Seq(X) /\ Len(first) = 1 /\ first[1] = a
  BY <1>3
<1>5. /\ whole \in Seq(X) /\ Len(whole) = 1 + size
      /\ \A i \in 1 .. 1 + size : whole[i] = IF i <= 1 THEN first[i] ELSE ss[i - 1]
  BY <1>1, <1>2, <1>3, <1>4, ConcatProperties
<1>6. Len(whole) = size + 1 /\ whole[1] = a /\ \A i \in 1 .. size : whole[i + 1] = ss[i]
  BY <1>2, <1>4, <1>5
<1>7. DOMAIN whole = 1 .. size + 1
  BY <1>5, <1>6, LenProperties
<1> QED
  BY <1>1, <1>2, <1>5, <1>6, <1>7 DEF OneMore

\* A line of mounts from q down to r.
LineTo(m, rank, q, line, r) ==
  /\ line \in Seq(Routers) /\ (Len(line) = 0 => r = q) /\ (Len(line) # 0 => MountsBy(m, q, line[1]) /\ line[Len(line)] = r)
  /\ \A n \in 1 .. Len(line) - 1 : MountsBy(m, line[n], line[n + 1])
  /\ \A n \in 1 .. Len(line) : rank[line[n]] < rank[q]
  /\ \A n, i \in 1 .. Len(line) : line[n] = line[i] => n = i
CallsAlong(k, line) == [n \in DOMAIN line |-> k[line[n]]]

LEMMA LineLonger ==
  ASSUME NEW d, NEW k, NEW m, Typed(d, k, m), NEW rank, RankedBy(m, rank), NEW q \in Routers, NEW s \in Routers, MountsBy(m, q, s),
         NEW r \in Routers, NEW line, LineTo(m, rank, s, line, r)
  PROVE  \E longer : LineTo(m, rank, q, longer, r) /\ FlattenSeq(CallsAlong(k, longer)) = Behind(k[s], FlattenSeq(CallsAlong(k, line)))
<1>1. rank \in [Routers -> Nat] /\ \A p, x \in Routers : MountsBy(m, p, x) => rank[x] < rank[p]
  BY DEF RankedBy
<1>2. PICK size : size = Len(line) /\ size \in Nat /\ line \in Seq(Routers) /\ DOMAIN line = 1 .. size /\ \A n \in 1 .. size : line[n] \in Routers
  BY LenProperties, ElementOfSeq DEF LineTo
<1>5. PICK longer : /\ longer \in Seq(Routers) /\ Len(longer) = size + 1 /\ DOMAIN longer = 1 .. size + 1 /\ longer[1] = s
                    /\ \A n \in 1 .. size : longer[n + 1] = line[n]
  <2>1. line \in Seq(Routers)
    BY <1>2
  <2>2. PICK longer : OneMore(Routers, s, line, longer)
    BY <2>1, Prepended
  <2> QED
    BY <1>2, <2>2 DEF OneMore
<1>6. /\ (size = 0 => r = s) /\ (size # 0 => MountsBy(m, s, line[1]) /\ line[size] = r)
      /\ (\A n \in 1 .. size - 1 : MountsBy(m, line[n], line[n + 1]))
      /\ (\A n \in 1 .. size : rank[line[n]] < rank[s]) /\ \A n, i \in 1 .. size : line[n] = line[i] => n = i
  BY <1>2 DEF LineTo
<1>7. \A n \in 1 .. size + 1 : n = 1 \/ (n - 1 \in 1 .. size /\ longer[n] = line[n - 1])
  <2>1. ASSUME NEW n \in 1 .. size + 1, n # 1 PROVE n - 1 \in 1 .. size /\ longer[n] = line[n - 1]
    <3>1. n - 1 \in 1 .. size /\ (n - 1) + 1 = n
      BY <1>2, <2>1
    <3> QED
      BY <1>5, <3>1
  <2> QED
    BY <2>1
<1>8. MountsBy(m, q, longer[1]) /\ longer[size + 1] = r
  <2>1. CASE size = 0
    BY <1>5, <1>6, <2>1
  <2>2. CASE size # 0
    <3>1. size \in 1 .. size
      BY <1>2, <2>2
    <3> QED
      BY <1>5, <1>6, <2>2, <3>1
  <2> QED
    BY <2>1, <2>2
<1>9. \A n \in 1 .. size : MountsBy(m, longer[n], longer[n + 1])
  <2>1. ASSUME NEW n \in 1 .. size PROVE MountsBy(m, longer[n], longer[n + 1])
    <3>1. CASE n = 1
      BY <1>2, <1>5, <1>6, <2>1, <3>1
    <3>2. CASE n # 1
      <4>1. n - 1 \in 1 .. size - 1 /\ n \in 1 .. size + 1 /\ (n - 1) + 1 = n
        BY <1>2, <3>2
      <4>2. longer[n] = line[n - 1] /\ longer[n + 1] = line[n]
        BY <1>5, <1>7, <3>2, <4>1
      <4> QED
        BY <1>6, <4>1, <4>2
    <3> QED
      BY <3>1, <3>2
  <2> QED
    BY <2>1
<1>10. \A n \in 1 .. size + 1 : rank[longer[n]] < rank[q]
  <2>1. rank[s] \in Nat /\ rank[q] \in Nat /\ rank[s] < rank[q]
    BY <1>1
  <2>2. \A n \in 1 .. size : rank[line[n]] \in Nat /\ rank[line[n]] < rank[q]
    BY <1>1, <1>2, <1>6, <2>1
  <2> QED
    BY <1>5, <1>7, <2>1, <2>2
<1>11. \A n, i \in 1 .. size + 1 : longer[n] = longer[i] => n = i
  <2>1. \A n \in 1 .. size : line[n] # s
    BY <1>1, <1>2, <1>6
  <2>2. \A n, i \in 1 .. size + 1 : n - 1 = i - 1 => n = i
    BY <1>2
  <2> QED
    BY <1>5, <1>6, <1>7, <2>1, <2>2
<1>12. LineTo(m, rank, q, longer, r)
  <2>1. (size + 1) - 1 = size /\ size + 1 # 0
    BY <1>2
  <2> QED
    BY <1>5, <1>8, <1>9, <1>10, <1>11, <2>1 DEF LineTo
<1>13. FlattenSeq(CallsAlong(k, longer)) = Behind(k[s], FlattenSeq(CallsAlong(k, line)))
  <2> DEFINE S == Seq(Calls)
  <2>1. k \in [Routers -> S]
    BY DEF Typed
  <2>2. PICK ss : ss = CallsAlong(k, line)
    OBVIOUS
  <2>3. ss = [n \in 1 .. size |-> k[line[n]]]
    BY <1>2, <2>2 DEF CallsAlong
  <2>4. \A n \in 1 .. size : k[line[n]] \in S
    <3> HIDE DEF S
    <3> QED
      BY <1>2, <2>1
  <2>5. ss \in Seq(S) /\ Len(ss) = size
    <3> HIDE DEF S
    <3> QED
      BY <1>2, <2>3, <2>4
  <2>6. PICK a : a = k[s] /\ a \in S
    BY <2>1
  <2>9. PICK joined : /\ joined = <<a>> \o ss /\ joined \in Seq(S) /\ Len(joined) = size + 1 /\ joined[1] = a
                      /\ \A n \in 1 .. size : joined[n + 1] = ss[n]
    <3> HIDE DEF S
    <3>1. ss \in Seq(S) /\ a \in S
      BY <2>5, <2>6
    <3>2. PICK joined : OneMore(S, a, ss, joined)
      BY <3>1, Prepended
    <3> QED
      BY <2>5, <3>2 DEF OneMore
  <2>10. CallsAlong(k, longer) = [n \in 1 .. size + 1 |-> k[longer[n]]]
    BY <1>5 DEF CallsAlong
  <2>11. \A n \in 1 .. size + 1 : joined[n] = k[longer[n]]
    <3>1. ASSUME NEW n \in 1 .. size + 1 PROVE joined[n] = k[longer[n]]
      <4>1. CASE n = 1
        BY <1>5, <2>6, <2>9, <4>1
      <4>2. CASE n # 1
        <5>1. n - 1 \in 1 .. size /\ longer[n] = line[n - 1]
          BY <1>7, <4>2
        <5>2. ss[n - 1] = k[line[n - 1]]
          BY <2>3, <5>1
        <5>3. joined[n] = ss[n - 1]
          <6>1. (n - 1) + 1 = n
            OBVIOUS
          <6> QED
            BY <2>9, <5>1, <6>1
        <5> QED
          BY <5>1, <5>2, <5>3
      <4> QED
        BY <4>1, <4>2
    <3> QED
      BY <3>1
  <2>12. joined = CallsAlong(k, longer)
    <3>1. joined = [n \in 1 .. size + 1 |-> joined[n]]
      <4> HIDE DEF S
      <4>1. DOMAIN joined = 1 .. size + 1
        BY <1>2, <2>9, LenProperties
      <4>2. joined = [n \in DOMAIN joined |-> joined[n]]
        BY <2>9, LenProperties
      <4> QED
        BY <4>1, <4>2
    <3> QED
      BY <2>10, <2>11, <3>1
  <2>13. FlattenSeq(<<a>> \o ss) = a \o FlattenSeq(ss)
    BY <2>5, <2>6, FlattenCons
  <2> QED
    BY <2>2, <2>6, <2>9, <2>12, <2>13 DEF Behind
<1> QED
  BY <1>12, <1>13

LEMMA LinesFound ==
  ASSUME NEW d, NEW k, NEW m, Typed(d, k, m), NEW rank, RankedBy(m, rank),
         \A r \in Routers : \A x \in ToSet(d[r]) : x.chain = <<>> /\ x.by = r
  PROVE  \A x \in ToSet(CollectedBy(d, k, m)) :
           x.by \in Routers /\ \E line : LineTo(m, rank, Root, line, x.by) /\ x.chain = FlattenSeq(CallsAlong(k, line))
<1>1. PICK f \in [Routers -> Seq(Registered)] : f = [r \in Routers |-> GatheredBy(d, k, m, f, r)] /\ CollectedBy(d, k, m) = f[Root]
  BY CollectedHolds
<1>2. rank \in [Routers -> Nat] /\ \A p, r \in Routers : MountsBy(m, p, r) => rank[r] < rank[p]
  BY DEF RankedBy
<1>3. \A r \in Routers : \A x \in ToSet(f[r]) : x.by \in Routers
  <2>1. ASSUME NEW r \in Routers, NEW x \in ToSet(f[r]) PROVE x.by \in Routers
    <3>1. PICK xs : xs = f[r] /\ xs \in Seq(Registered)
      OBVIOUS
    <3>2. PICK n \in 1 .. Len(xs) : x = xs[n]
      BY <2>1, <3>1, LenProperties DEF ToSet
    <3>3. x \in Registered
      BY <3>1, <3>2, ElementOfSeq
    <3> QED
      BY <3>3 DEF Registered
  <2> QED
    BY <2>1
<1> DEFINE Along(q, x) == \E line : LineTo(m, rank, q, line, x.by) /\ x.chain = FlattenSeq(CallsAlong(k, line))
           T == {n \in Nat : \A q \in Routers : rank[q] = n => \A x \in ToSet(f[q]) : Along(q, x)}
<1>4. ASSUME NEW n \in Nat, \A i \in Nat : i < n => i \in T, NEW q \in Routers, rank[q] = n, NEW x \in ToSet(f[q])
      PROVE  Along(q, x)
  <2>1. \A s \in Routers : MountsBy(m, q, s) => f[s] \in Seq(Registered)
    BY <1>1
  <2>2. f[q] = GatheredBy(d, k, m, f, q)
    BY <1>1
  <2>3. \A y \in ToSet(GatheredBy(d, k, m, f, q)) :
          \/ y \in ToSet(d[q])
          \/ \E s \in Routers : MountsBy(m, q, s) /\ \E z \in ToSet(f[s]) : y.by = z.by /\ y.chain = Behind(k[s], z.chain)
    <3> HIDE DEF T, Along
    <3> QED
      BY <2>1, GatheredTyped
  <2>4. x \in ToSet(GatheredBy(d, k, m, f, q))
    BY <1>4, <2>2
  <2>5. CASE x \in ToSet(d[q])
    <3>1. x.chain = <<>> /\ x.by = q
      BY <2>5
    <3>0. PICK line : line = <<>>
      OBVIOUS
    <3>2. line = <<>> /\ line \in Seq(Routers) /\ Len(line) = 0
      BY <3>0
    <3>3. LineTo(m, rank, q, line, x.by)
      BY <3>1, <3>2 DEF LineTo
    <3>4. FlattenSeq(CallsAlong(k, line)) = <<>>
      <4>1. CallsAlong(k, line) = <<>>
        BY <3>2 DEF CallsAlong
      <4> QED
        BY <4>1 DEF FlattenSeq
    <3> QED
      BY <3>1, <3>3, <3>4
  <2>6. CASE \E s \in Routers : MountsBy(m, q, s) /\ \E z \in ToSet(f[s]) : x.by = z.by /\ x.chain = Behind(k[s], z.chain)
    <3>1. PICK s \in Routers : MountsBy(m, q, s) /\ \E z \in ToSet(f[s]) : x.by = z.by /\ x.chain = Behind(k[s], z.chain)
      BY <2>6
    <3>10. PICK z \in ToSet(f[s]) : x.by = z.by /\ x.chain = Behind(k[s], z.chain)
      BY <3>1
    <3>2. rank[s] \in Nat /\ rank[s] < n
      BY <1>2, <1>4, <3>1
    <3>3. Along(s, z)
      BY <1>4, <3>1, <3>10, <3>2
    <3>4. PICK line : LineTo(m, rank, s, line, z.by) /\ z.chain = FlattenSeq(CallsAlong(k, line))
      BY <3>3
    <3>5. z.by \in Routers
      BY <1>3, <3>10
    <3>6. PICK longer : LineTo(m, rank, q, longer, z.by) /\ FlattenSeq(CallsAlong(k, longer)) = Behind(k[s], FlattenSeq(CallsAlong(k, line)))
      BY <3>1, <3>4, <3>5, LineLonger
    <3> QED
      BY <3>10, <3>4, <3>6
  <2> QED
    BY <2>3, <2>4, <2>5, <2>6
<1>5. \A n \in Nat : (\A i \in Nat : i < n => i \in T) => n \in T
  <2> HIDE DEF Along
  <2> QED
    BY <1>4
<1>6. Nat \subseteq T
  <2> HIDE DEF T
  <2> QED
    BY <1>5, Climb
<1>7. Root \in Routers /\ rank[Root] \in Nat
  BY <1>2, RoutesAssumption
<1>8. \A x \in ToSet(f[Root]) : Along(Root, x)
  <2> HIDE DEF Along
  <2> QED
    BY <1>6, <1>7
<1> QED
  BY <1>1, <1>3, <1>7, <1>8

LinesBy(m, r) ==
  {line \in UNION {[1 .. n -> Routers] : n \in 0 .. Cardinality(Routers)} :
     /\ Last(<<Root>> \o line) = r
     /\ \A n \in DOMAIN line : MountsBy(m, (<<Root>> \o line)[n], line[n])}

\* A line meets no router twice: it is one of those that are looked through.
LEMMA LineIn ==
  ASSUME NEW m, NEW rank, RankedBy(m, rank), NEW r \in Routers, NEW line, LineTo(m, rank, Root, line, r)
  PROVE  line \in LinesBy(m, r)
<1>1. PICK size : size = Len(line) /\ size \in Nat /\ line \in Seq(Routers) /\ DOMAIN line = 1 .. size /\ \A n \in 1 .. size : line[n] \in Routers
  BY LenProperties, ElementOfSeq DEF LineTo
<1>2. /\ (size = 0 => r = Root) /\ (size # 0 => MountsBy(m, Root, line[1]) /\ line[size] = r)
      /\ (\A n \in 1 .. size - 1 : MountsBy(m, line[n], line[n + 1])) /\ \A n, i \in 1 .. size : line[n] = line[i] => n = i
  BY <1>1 DEF LineTo
<1>3. IsFiniteSet(Routers) /\ Root \in Routers
  BY RoutesAssumption
<1>4. line \in [1 .. size -> Routers]
  <2>1. line = [n \in DOMAIN line |-> line[n]]
    BY <1>1, LenProperties
  <2> QED
    BY <1>1, <2>1
<1>5. size <= Cardinality(Routers) /\ Cardinality(Routers) \in Nat
  <2>1. Cardinality(Routers) \in Nat
    BY <1>3, FS_CardinalityType
  <2>2. IsFiniteSet(1 .. size) /\ Cardinality(1 .. size) = size
    <3>1. 1 \in Int /\ size \in Int
      BY <1>1
    <3>2. IsFiniteSet(1 .. size) /\ Cardinality(1 .. size) = IF 1 > size THEN 0 ELSE size - 1 + 1
      BY <3>1, FS_Interval
    <3> QED
      BY <1>1, <3>2
  <2>3. ~ (Cardinality(Routers) < Cardinality(1 .. size))
    <3>1. SUFFICES ASSUME Cardinality(Routers) < Cardinality(1 .. size) PROVE FALSE
      OBVIOUS
    <3>2. \E n, i \in 1 .. size : n # i /\ line[n] = line[i]
      BY <1>3, <1>4, <2>2, <3>1, FS_PigeonHole
    <3> QED
      BY <1>2, <3>2
  <2> QED
    BY <1>1, <2>1, <2>2, <2>3
<1>6. PICK whole : OneMore(Routers, Root, line, whole)
  BY <1>1, <1>3, Prepended
<1>7. whole = <<Root>> \o line /\ Len(whole) = size + 1 /\ whole[1] = Root /\ \A n \in 1 .. size : whole[n + 1] = line[n]
  BY <1>1, <1>6 DEF OneMore
<1>8. Last(whole) = r
  <2>1. CASE size = 0
    BY <1>2, <1>7, <2>1 DEF Last
  <2>2. CASE size # 0
    <3>1. size \in 1 .. size
      BY <1>1, <2>2
    <3> QED
      BY <1>2, <1>7, <2>2, <3>1 DEF Last
  <2> QED
    BY <2>1, <2>2
<1>9. ASSUME NEW n \in 1 .. size
      PROVE  MountsBy(m, whole[n], line[n])
  <2>1. CASE n = 1
    BY <1>2, <1>7, <1>9, <2>1
  <2>2. CASE n # 1
    <3>1. n - 1 \in 1 .. size /\ n - 1 \in 1 .. size - 1 /\ (n - 1) + 1 = n
      BY <1>1, <1>9, <2>2
    <3>2. whole[n] = line[n - 1]
      BY <1>7, <3>1
    <3> QED
      BY <1>2, <3>1, <3>2
  <2> QED
    BY <2>1, <2>2
<1>10. line \in UNION {[1 .. n -> Routers] : n \in 0 .. Cardinality(Routers)}
  <2>1. size \in 0 .. Cardinality(Routers)
    BY <1>1, <1>5
  <2> QED
    BY <1>4, <2>1
<1>11. \A n \in DOMAIN line : MountsBy(m, whole[n], line[n])
  BY <1>1, <1>9
<1>12. PICK extended : extended = <<Root>> \o line /\ extended = whole
  BY <1>7
<1> QED
  BY <1>8, <1>10, <1>11, <1>12 DEF LinesBy

OwnIs(d) == \A r \in Routers : \A x \in ToSet(d[r]) : x.chain = <<>> /\ x.by = r

\* The inductive invariant of the routers and the App's table of their routes.
RoutesInv ==
  /\ Typed(definitions, middleware, mounts) /\ OwnIs(definitions) /\ \E rank : RankedBy(mounts, rank)
  /\ revision \in [Routers -> Nat] /\ compiled.revision \in Nat /\ compiled.revision <= revision[Root] /\ compiled.valid
  /\ compiled.revision = revision[Root] => ~ Conflicts(collectRoutes) /\ compiled.table = ToSet(collectRoutes)
  /\ SeesEveryChange

LEMMA SameOperators ==
  /\ collectRoutes = CollectedBy(definitions, middleware, mounts) /\ collectRoutes' = CollectedBy(definitions', middleware', mounts')
  /\ \A r : Above(r) = AboveBy(mounts, r) /\ Lines(r) = LinesBy(mounts, r) /\ Lines(r)' = LinesBy(mounts', r)
<1>1. collectRoutes = CollectedBy(definitions, middleware, mounts)
  BY DEF collectRoutes, nested, CollectedBy, GatheredBy, NestedBy
<1>2. collectRoutes' = CollectedBy(definitions', middleware', mounts')
  BY DEF collectRoutes, nested, CollectedBy, GatheredBy, NestedBy
<1>3. ASSUME NEW r PROVE Above(r) = AboveBy(mounts, r)
  BY DEF Above, AboveBy, Mounts, MountsBy
<1>4. ASSUME NEW r PROVE Lines(r) = LinesBy(mounts, r) /\ Lines(r)' = LinesBy(mounts', r)
  BY DEF Lines, LinesBy, Mounts, MountsBy
<1> QED
  BY <1>1, <1>2, <1>3, <1>4

\* A change either concerns the App, and its revision is a new one, or leaves its routes as they are.
LEMMA ChangeKeeps ==
  ASSUME RoutesInv, NEW r \in Routers, Changed(r), compiled' = compiled,
         Typed(definitions', middleware', mounts'), OwnIs(definitions'), NEW order, RankedBy(mounts', order),
         \A q \in Routers \ {r} : definitions'[q] = definitions[q] /\ middleware'[q] = middleware[q] /\ mounts'[q] = mounts[q]
  PROVE  RoutesInv'
<1>1. Root \in Routers
  BY RoutesAssumption
<1>2. revision' = [q \in Routers |-> IF q \in Above(r) THEN revision[q] + 1 ELSE revision[q]] /\ answer' = NoRequest
  BY DEF Changed
<1>3. PICK now, next : now = revision[Root] /\ next = revision'[Root] /\ now \in Nat /\ next = IF Root \in Above(r) THEN now + 1 ELSE now
  BY <1>1, <1>2 DEF RoutesInv
<1>4. revision' \in [Routers -> Nat]
  BY <1>2 DEF RoutesInv
<1>5. compiled'.revision \in Nat /\ compiled'.revision <= next /\ compiled'.valid
  BY <1>3 DEF RoutesInv
<1>6. compiled'.revision = next => ~ Conflicts(collectRoutes') /\ compiled'.table = ToSet(collectRoutes')
  <2>1. CASE Root \in Above(r)
    BY <1>3, <2>1 DEF RoutesInv
  <2>2. CASE Root \notin Above(r)
    <3>1. PICK rank : RankedBy(mounts, rank)
      BY DEF RoutesInv
    <3>2. Root \notin AboveBy(mounts, r)
      BY <2>2, SameOperators
    <3>3. Typed(definitions, middleware, mounts)
      BY DEF RoutesInv
    <3>4. PICK d, k, m, e, l, o : /\ d = definitions /\ k = middleware /\ m = mounts
                                  /\ e = definitions' /\ l = middleware' /\ o = mounts'
      OBVIOUS
    <3>5. /\ Typed(d, k, m) /\ RankedBy(m, rank) /\ Typed(e, l, o) /\ RankedBy(o, order)
          /\ (\A q \in Routers \ {r} : e[q] = d[q] /\ l[q] = k[q] /\ o[q] = m[q]) /\ Root \notin AboveBy(m, r)
      BY <3>1, <3>2, <3>3, <3>4
    <3>6. CollectedBy(e, l, o) = CollectedBy(d, k, m)
      BY <3>5, CollectedStays
    <3>7. collectRoutes' = collectRoutes
      BY <3>4, <3>6, SameOperators
    <3> QED
      BY <1>3, <2>2, <3>7 DEF RoutesInv
  <2> QED
    BY <2>1, <2>2
<1>7. SeesEveryChange'
  BY <1>2 DEF SeesEveryChange
<1>8. \E rank : RankedBy(mounts', rank)
  OBVIOUS
<1> QED
  BY <1>3, <1>4, <1>5, <1>6, <1>7, <1>8 DEF RoutesInv

LEMMA RoutesInitially == RoutesInit => RoutesInv
<1> SUFFICES ASSUME RoutesInit PROVE RoutesInv
  OBVIOUS
<1>1. /\ definitions = [r \in Routers |-> <<>>] /\ middleware = [r \in Routers |-> <<>>]
      /\ revision = [r \in Routers |-> 1] /\ compiled = [revision |-> 0, valid |-> TRUE, table |-> {}] /\ answer = NoRequest
      /\ Root \in Routers
  BY RoutesAssumption DEF RoutesInit
<1>2. definitions \in [Routers -> Seq(Registered)] /\ middleware \in [Routers -> Seq(Calls)] /\ OwnIs(definitions)
  BY <1>1 DEF OwnIs, ToSet
<1>3. mounts \in [Routers -> Seq(Mounted)] /\ \E rank : RankedBy(mounts, rank)
  <2>1. CASE mounts = [r \in Routers |-> <<>>]
    <3>1. RankedBy(mounts, [r \in Routers |-> 0])
      BY <2>1 DEF RankedBy, MountsBy, ToSet
    <3> QED
      BY <2>1, <3>1
  <2>2. ASSUME NEW p \in MountPaths, NEW s \in Routers \ {Root}, NEW q \in Routers \ {Root}, s # q,
               mounts = [r \in Routers |-> CASE r = Root -> <<[prefix |-> p, router |-> s]>>
                                             [] r = s -> <<[prefix |-> p, router |-> q]>> [] OTHER -> <<>>]
        PROVE  mounts \in [Routers -> Seq(Mounted)] /\ \E rank : RankedBy(mounts, rank)
    <3>1. PICK x, y : x = [prefix |-> p, router |-> s] /\ y = [prefix |-> p, router |-> q]
      OBVIOUS
    <3>2. x \in Mounted /\ y \in Mounted /\ x.router = s /\ y.router = q
      <4>1. p \in Text
        BY RoutesAssumption, StringsAreText
      <4> QED
        BY <3>1, <4>1 DEF Mounted
    <3>3. \A r \in Routers : mounts[r] = IF r = Root THEN <<x>> ELSE IF r = s THEN <<y>> ELSE <<>>
      BY <2>2, <3>1
    <3>4. mounts \in [Routers -> Seq(Mounted)]
      <4>0. <<x>> \in Seq(Mounted) /\ <<y>> \in Seq(Mounted) /\ <<>> \in Seq(Mounted)
        BY <3>2
      <4>1. \A r \in Routers : mounts[r] \in Seq(Mounted)
        <5> PICK lists : lists = Seq(Mounted)
          OBVIOUS
        <5>1. <<x>> \in lists /\ <<y>> \in lists /\ <<>> \in lists
          BY <4>0
        <5> QED
          BY <3>3, <5>1, Zenon
      <4> QED
        BY <2>2, <4>1
    <3> DEFINE rank == [r \in Routers |-> IF r = Root THEN 2 ELSE IF r = s THEN 1 ELSE 0]
    <3>5. \A a, b \in Routers : MountsBy(mounts, a, b) => (a = Root /\ b = s) \/ (a = s /\ b = q)
      <4>1. \A z \in ToSet(<<x>>) : z = x
        BY DEF ToSet
      <4>2. \A z \in ToSet(<<y>>) : z = y
        BY DEF ToSet
      <4>3. ToSet(<<>>) = {}
        BY DEF ToSet
      <4> QED
        BY <3>2, <3>3, <4>1, <4>2, <4>3 DEF MountsBy
    <3>6. RankedBy(mounts, rank)
      BY <1>1, <2>2, <3>5 DEF RankedBy
    <3> QED
      BY <3>4, <3>6
  <2> QED
    BY <2>1, <2>2 DEF RoutesInit
<1>4. revision \in [Routers -> Nat] /\ revision[Root] = 1 /\ compiled.revision = 0 /\ compiled.valid
  BY <1>1
<1>5. SeesEveryChange
  BY <1>1 DEF SeesEveryChange
<1> QED
  BY <1>2, <1>3, <1>4, <1>5 DEF RoutesInv, Typed

Added(X, a, x, longer) == longer = Append(a, x) /\ longer \in Seq(X) /\ \A y \in ToSet(longer) : y \in ToSet(a) \/ y = x

LEMMA AppendIs ==
  ASSUME NEW X, NEW a \in Seq(X), NEW x \in X
  PROVE  \E longer : Added(X, a, x, longer)
<1>1. PICK longer, size : longer = Append(a, x) /\ size = Len(a) /\ size \in Nat /\ DOMAIN a = 1 .. size
  BY LenProperties
<1>2. /\ longer \in Seq(X) /\ Len(longer) = size + 1 /\ longer[size + 1] = x /\ \A i \in 1 .. size : longer[i] = a[i]
  BY <1>1, AppendProperties
<1>3. DOMAIN longer = 1 .. size + 1
  BY <1>1, <1>2, LenProperties
<1>4. ASSUME NEW y \in ToSet(longer) PROVE y \in ToSet(a) \/ y = x
  <2>1. PICK i \in 1 .. size + 1 : y = longer[i]
    BY <1>3, <1>4 DEF ToSet
  <2>2. i \in 1 .. size \/ i = size + 1
    BY <1>1
  <2>3. i \in 1 .. size => y \in ToSet(a)
    BY <1>1, <1>2, <2>1 DEF ToSet
  <2> QED
    BY <1>2, <2>1, <2>2, <2>3
<1> QED
  BY <1>1, <1>2, <1>4 DEF Added

LEMMA UseKeeps ==
  ASSUME RoutesInv, NEW r \in Routers, use(r)
  PROVE  RoutesInv'
<1>1. /\ middleware' = [middleware EXCEPT ![r] = Append(@, <<r, Len(@) + 1>>)]
      /\ definitions' = definitions /\ mounts' = mounts /\ compiled' = compiled /\ Changed(r)
  BY DEF use
<1>2. Typed(definitions, middleware, mounts) /\ OwnIs(definitions)
  BY DEF RoutesInv
<1>3. PICK rank : RankedBy(mounts, rank)
  BY DEF RoutesInv
<1>4. middleware' \in [Routers -> Seq(Calls)]
  <2>1. PICK own : own = middleware[r] /\ own \in Seq(Calls)
    BY <1>2 DEF Typed
  <2>20. PICK call : call = <<r, Len(own) + 1>>
    OBVIOUS
  <2>2. call = <<r, Len(own) + 1>> /\ call \in Calls
    BY <2>1, <2>20, LenProperties DEF Calls
  <2>3. PICK longer : longer = Append(own, call) /\ longer \in Seq(Calls)
    <3>1. PICK longer : Added(Calls, own, call, longer)
      BY <2>1, <2>2, AppendIs
    <3> QED
      BY <3>1 DEF Added
  <2>4. middleware' = [middleware EXCEPT ![r] = longer]
    BY <1>1, <2>1, <2>2, <2>3
  <2> QED
    BY <1>2, <2>3, <2>4 DEF Typed
<1>5. Typed(definitions', middleware', mounts') /\ OwnIs(definitions') /\ RankedBy(mounts', rank)
  BY <1>1, <1>2, <1>3, <1>4 DEF Typed
<1>6. \A q \in Routers \ {r} : definitions'[q] = definitions[q] /\ middleware'[q] = middleware[q] /\ mounts'[q] = mounts[q]
  BY <1>1, <1>2 DEF Typed
<1> QED
  BY <1>1, <1>5, <1>6, ChangeKeeps

LEMMA AddKeeps ==
  ASSUME RoutesInv, NEW r \in Routers, NEW method \in STRING, NEW path \in Text, add(r, method, path)
  PROVE  RoutesInv'
<1>1. PICK new : new = [method |-> method, path |-> path, chain |-> <<>>, by |-> r]
  OBVIOUS
<1>2. /\ definitions' = [definitions EXCEPT ![r] = Append(@, new)]
      /\ middleware' = middleware /\ mounts' = mounts /\ compiled' = compiled /\ Changed(r)
  BY <1>1 DEF add
<1>3. Typed(definitions, middleware, mounts) /\ OwnIs(definitions)
  BY DEF RoutesInv
<1>4. PICK rank : RankedBy(mounts, rank)
  BY DEF RoutesInv
<1>5. PICK own : own = definitions[r] /\ own \in Seq(Registered)
  BY <1>3 DEF Typed
<1>6. new \in Registered /\ new.chain = <<>> /\ new.by = r
  BY <1>1 DEF Registered
<1>7. PICK longer : longer = Append(own, new) /\ longer \in Seq(Registered) /\ \A x \in ToSet(longer) : x \in ToSet(own) \/ x = new
  <2>1. PICK longer : Added(Registered, own, new, longer)
    BY <1>5, <1>6, AppendIs
  <2> QED
    BY <2>1 DEF Added
<1>8. definitions' = [definitions EXCEPT ![r] = longer]
  BY <1>2, <1>5, <1>7
<1>9. Typed(definitions', middleware', mounts')
  BY <1>2, <1>3, <1>7, <1>8 DEF Typed
<1>10. OwnIs(definitions')
  <2>1. \A q \in Routers : definitions'[q] = IF q = r THEN longer ELSE definitions[q]
    BY <1>3, <1>8 DEF Typed
  <2> QED
    BY <1>3, <1>5, <1>6, <1>7, <2>1 DEF OwnIs
<1>11. \A q \in Routers \ {r} : definitions'[q] = definitions[q] /\ middleware'[q] = middleware[q] /\ mounts'[q] = mounts[q]
  BY <1>2, <1>3, <1>8 DEF Typed
<1>12. RankedBy(mounts', rank)
  BY <1>2, <1>4
<1> QED
  BY <1>2, <1>9, <1>10, <1>11, <1>12, ChangeKeeps

\* A router mounted on one that is not above it leaves the mounts going down.
LEMMA RouteKeeps ==
  ASSUME RoutesInv, NEW r \in Routers, NEW prefix \in Text, NEW s \in Routers, route(r, prefix, s)
  PROVE  RoutesInv'
<1>0. PICK new : new = [prefix |-> prefix, router |-> s]
  OBVIOUS
<1>1. new = [prefix |-> prefix, router |-> s] /\ new \in Mounted /\ new.router = s
  BY <1>0 DEF Mounted
<1>2. /\ s # r /\ s \notin AboveBy(mounts, r) /\ mounts' = [mounts EXCEPT ![r] = Append(@, new)]
      /\ definitions' = definitions /\ middleware' = middleware /\ compiled' = compiled /\ Changed(r)
  BY <1>1, SameOperators DEF route
<1>3. Typed(definitions, middleware, mounts) /\ OwnIs(definitions)
  BY DEF RoutesInv
<1>4. PICK rank : RankedBy(mounts, rank)
  BY DEF RoutesInv
<1>5. PICK own : own = mounts[r] /\ own \in Seq(Mounted)
  BY <1>3 DEF Typed
<1>7. PICK longer : longer = Append(own, new) /\ longer \in Seq(Mounted) /\ \A x \in ToSet(longer) : x \in ToSet(own) \/ x = new
  <2>1. PICK longer : Added(Mounted, own, new, longer)
    BY <1>1, <1>5, AppendIs
  <2> QED
    BY <2>1 DEF Added
<1>8. mounts' = [mounts EXCEPT ![r] = longer]
  BY <1>2, <1>5, <1>7
<1>9. Typed(definitions', middleware', mounts')
  BY <1>2, <1>3, <1>7, <1>8 DEF Typed
<1>10. \A p \in Routers : mounts'[p] = IF p = r THEN longer ELSE mounts[p]
  BY <1>3, <1>8 DEF Typed
<1>11. \A p, x \in Routers : MountsBy(mounts', p, x) => MountsBy(mounts, p, x) \/ (p = r /\ x = s)
  BY <1>1, <1>5, <1>7, <1>10 DEF MountsBy
<1> DEFINE order == [q \in Routers |-> IF q \in AboveBy(mounts, r) THEN rank[q] + rank[s] + 1 ELSE rank[q]]
<1>12. RankedBy(mounts', order)
  <2>1. rank \in [Routers -> Nat] /\ \A p, x \in Routers : MountsBy(mounts, p, x) => rank[x] < rank[p]
    BY <1>4 DEF RankedBy
  <2>2. r \in AboveBy(mounts, r) /\ \A p \in Routers, x \in AboveBy(mounts, r) : MountsBy(mounts, p, x) => p \in AboveBy(mounts, r)
    BY AboveIs
  <2>3. order \in [Routers -> Nat]
    BY <2>1
  <2>4. ASSUME NEW p \in Routers, NEW x \in Routers, MountsBy(mounts', p, x)
        PROVE  order[x] < order[p]
    <3>1. rank[p] \in Nat /\ rank[x] \in Nat /\ rank[s] \in Nat
      BY <2>1
    <3>2. CASE MountsBy(mounts, p, x)
      <4>1. rank[x] < rank[p] /\ (x \in AboveBy(mounts, r) => p \in AboveBy(mounts, r))
        BY <2>1, <2>2, <3>2
      <4> QED
        BY <3>1, <4>1
    <3>3. CASE p = r /\ x = s
      BY <1>2, <2>2, <3>1, <3>3
    <3> QED
      BY <1>11, <2>4, <3>2, <3>3
  <2> HIDE DEF order
  <2> QED
    BY <2>3, <2>4 DEF RankedBy
<1>13. \A q \in Routers \ {r} : definitions'[q] = definitions[q] /\ middleware'[q] = middleware[q] /\ mounts'[q] = mounts[q]
  BY <1>2, <1>10
<1>14. OwnIs(definitions')
  BY <1>2, <1>3
<1>15. \E o : RankedBy(mounts', o)
  BY <1>12
<1> QED
  BY <1>2, <1>9, <1>13, <1>14, <1>15, ChangeKeeps

LEMMA RequestKeeps ==
  ASSUME RoutesInv, NEW method, NEW path \in Text, Request(method, path)
  PROVE  RoutesInv'
<1>1. PICK current : current = IF compiled.revision = revision[Root] THEN compiled ELSE routeTable
  OBVIOUS
<1>2. PICK dispatch : dispatch = IF current.valid THEN match(current.table, method, path) ELSE [kind |-> "error", route |-> {}, allowed |-> {}]
  OBVIOUS
<1>3. /\ compiled' = IF current.valid THEN current ELSE compiled
      /\ answer' = [method |-> method, path |-> path, kind |-> dispatch.kind, route |-> dispatch.route,
                    allowed |-> dispatch.allowed, status |-> runRoute(dispatch.kind, method)]
      /\ definitions' = definitions /\ middleware' = middleware /\ mounts' = mounts /\ revision' = revision
  BY <1>1, <1>2 DEF Request
<1>4. /\ Typed(definitions, middleware, mounts) /\ OwnIs(definitions)
      /\ revision \in [Routers -> Nat] /\ compiled.revision \in Nat /\ compiled.revision <= revision[Root] /\ compiled.valid
      /\ compiled.revision = revision[Root] => ~ Conflicts(collectRoutes) /\ compiled.table = ToSet(collectRoutes)
  BY DEF RoutesInv
<1>5. PICK rank : RankedBy(mounts, rank)
  BY DEF RoutesInv
<1>6. Root \in Routers /\ revision[Root] \in Nat
  BY <1>4, RoutesAssumption
<1>7. PICK routes : routes = collectRoutes /\ routes = collectRoutes'
  BY <1>3, SameOperators
<1>8. routeTable.revision = revision[Root] /\ (routeTable.valid <=> ~ Conflicts(routes)) /\ routeTable.table = ToSet(routes)
  BY <1>7 DEF routeTable
<1>9. current.revision = revision[Root] /\ (current.valid <=> ~ Conflicts(routes)) /\ (current.valid => current.table = ToSet(routes))
  <2>1. CASE compiled.revision = revision[Root]
    BY <1>1, <1>4, <1>7, <2>1
  <2>2. CASE compiled.revision # revision[Root]
    BY <1>1, <1>8, <2>2
  <2> QED
    BY <2>1, <2>2
<1>10. /\ compiled'.revision \in Nat /\ compiled'.revision <= revision[Root] /\ compiled'.valid
       /\ compiled'.revision = revision[Root] => ~ Conflicts(routes) /\ compiled'.table = ToSet(routes)
  <2>1. CASE current.valid
    BY <1>3, <1>6, <1>9, <2>1
  <2>2. CASE ~ current.valid
    BY <1>3, <1>4, <1>7, <2>2
  <2> QED
    BY <2>1, <2>2
<1>11. answer'.kind = dispatch.kind /\ answer'.route = dispatch.route /\ answer'.method = method /\ answer'.path = path
  BY <1>3
\* The routes are typed, and each has a line of mounts down to the router it is of.
<1>12. routes \in Seq(Registered) /\ \A x \in ToSet(routes) : \E line \in Lines(x.by)' : x.chain = FlattenSeq(CallsAlong(middleware, line))
  <2>1. PICK d, k, m : d = definitions /\ k = middleware /\ m = mounts
    OBVIOUS
  <2>2. routes = CollectedBy(d, k, m)
    BY <1>7, <2>1, SameOperators
  <2>3. Typed(d, k, m) /\ RankedBy(m, rank) /\ \A r \in Routers : \A x \in ToSet(d[r]) : x.chain = <<>> /\ x.by = r
    BY <1>4, <1>5, <2>1 DEF OwnIs
  <2>4. PICK f \in [Routers -> Seq(Registered)] : CollectedBy(d, k, m) = f[Root]
    BY <2>3, CollectedHolds
  <2>5. routes \in Seq(Registered)
    BY <1>6, <2>2, <2>4
  <2>6. \A x \in ToSet(CollectedBy(d, k, m)) :
          x.by \in Routers /\ \E line : LineTo(m, rank, Root, line, x.by) /\ x.chain = FlattenSeq(CallsAlong(k, line))
    BY <2>3, LinesFound
  <2>7. ASSUME NEW x \in ToSet(routes)
        PROVE  \E line \in Lines(x.by)' : x.chain = FlattenSeq(CallsAlong(k, line))
    <3>1. PICK line : x.by \in Routers /\ LineTo(m, rank, Root, line, x.by) /\ x.chain = FlattenSeq(CallsAlong(k, line))
      BY <2>2, <2>6, <2>7
    <3>2. line \in LinesBy(m, x.by)
      BY <2>3, <3>1, LineIn
    <3>3. Lines(x.by)' = LinesBy(mounts', x.by)
      BY SameOperators
    <3>4. line \in Lines(x.by)'
      BY <1>3, <2>1, <3>2, <3>3
    <3> QED
      BY <3>1, <3>4
  <2> QED
    BY <2>1, <2>5, <2>7
<1>13. CASE Conflicts(routes)
  <2>1. answer'.kind = "error"
    BY <1>2, <1>9, <1>11, <1>13
  <2>2. SeesEveryChange'
    BY <1>7, <1>13, <2>1 DEF SeesEveryChange
  <2> QED
    BY <1>3, <1>4, <1>5, <1>7, <1>10, <2>2 DEF RoutesInv
<1>14. CASE ~ Conflicts(routes)
  <2>1. dispatch = match(ToSet(routes), method, path)
    BY <1>2, <1>9, <1>14
  <2>2. TableOK(ToSet(routes))
    <3>1. \A n \in DOMAIN routes : routes[n].path \in Text
      <4>1. \A n \in DOMAIN routes : routes[n] \in Registered
        BY <1>12, LenProperties, ElementOfSeq
      <4> QED
        BY <4>1 DEF Registered
    <3> QED
      BY <1>14, <3>1, NoConflicts
  <2>3. answer'.kind = "found" => answer'.route = Wanted(ToSet(routes), method, path)
    <3>1. SUFFICES ASSUME dispatch.kind = "found" PROVE dispatch.route = Wanted(ToSet(routes), method, path)
      BY <1>11
    <3>2. Malformed \notin ToSet(path)
      BY <2>1, <3>1 DEF match
    <3>3. RightRoute(ToSet(routes), method, path)
      BY <2>2, <3>2, TrieFindsBest
    <3> QED
      BY <2>1, <3>1, <3>3 DEF RightRoute
  <2>4. Wanted(ToSet(routes), method, path) \subseteq ToSet(routes)
    <3>1. \A all : pickHandler(all, method) \subseteq all
      BY Picks
    <3> QED
      BY <3>1 DEF Wanted
  <2>5. SeesEveryChange'
    <3>1. ASSUME NEW x \in answer'.route, answer'.kind = "found"
          PROVE  \E line \in Lines(x.by)' : x.chain = FlattenSeq([n \in DOMAIN line |-> middleware'[line[n]]])
      <4>1. x \in ToSet(routes)
        BY <2>3, <2>4, <3>1
      <4> QED
        BY <1>3, <1>12, <4>1 DEF CallsAlong
    <3>2. answer'.kind = match(ToSet(routes), answer'.method, answer'.path).kind
      BY <1>11, <2>1
    <3>3. answer'.kind = "found" => answer'.route = Wanted(ToSet(routes), answer'.method, answer'.path)
      BY <1>11, <2>3
    <3> QED
      BY <1>7, <1>14, <3>1, <3>2, <3>3 DEF SeesEveryChange
  <2> QED
    BY <1>3, <1>4, <1>5, <1>7, <1>10, <2>5 DEF RoutesInv
<1> QED
  BY <1>13, <1>14

\* The routing table of the App and what requests are answered from it.
THEOREM RoutesInvariant == RoutesSpec => []RoutesInv
<1>1. RoutesInit => RoutesInv
  BY RoutesInitially
<1>2. ASSUME RoutesInv, [RoutesNext]_routeVars
      PROVE  RoutesInv'
  <2>1. ASSUME NEW r \in Routers, use(r) PROVE RoutesInv'
    BY <1>2, <2>1, UseKeeps
  <2>2. ASSUME NEW r \in Routers, NEW o \in Offered, add(r, o.method, o.path) PROVE RoutesInv'
    <3>1. o.method \in STRING /\ o.path \in Text
      BY RoutesAssumption, StringsAreText
    <3> QED
      BY <1>2, <2>2, <3>1, AddKeeps
  <2>3. ASSUME NEW r \in Routers, NEW s \in Routers \ {Root}, NEW p \in MountPaths, route(r, p, s) PROVE RoutesInv'
    <3>1. p \in Text /\ s \in Routers
      BY RoutesAssumption, StringsAreText
    <3> QED
      BY <1>2, <2>3, <3>1, RouteKeeps
  <2>4. ASSUME NEW q \in Asked, Request(q.method, q.path) PROVE RoutesInv'
    <3>1. q.path \in Text
      BY RoutesAssumption, StringsAreText
    <3> QED
      BY <1>2, <2>4, <3>1, RequestKeeps
  <2>5. ASSUME answer' = NoRequest, UNCHANGED <<definitions, middleware, mounts, revision, compiled, changes>> PROVE RoutesInv'
    <3>1. collectRoutes' = collectRoutes
      BY <2>5, SameOperators
    <3>2. SeesEveryChange'
      BY <2>5 DEF SeesEveryChange
    <3> QED
      BY <1>2, <2>5, <3>1, <3>2 DEF RoutesInv
  <2>6. ASSUME UNCHANGED routeVars PROVE RoutesInv'
    <3>1. collectRoutes' = collectRoutes /\ \A r : Lines(r)' = Lines(r)
      <4>1. definitions' = definitions /\ middleware' = middleware /\ mounts' = mounts
        BY <2>6 DEF routeVars
      <4> QED
        BY <4>1, SameOperators
    <3>2. SeesEveryChange'
      BY <1>2, <2>6, <3>1 DEF SeesEveryChange, RoutesInv, routeVars
    <3> QED
      BY <1>2, <2>6, <3>1, <3>2 DEF RoutesInv, routeVars
  <2> QED
    BY <1>2, <2>1, <2>2, <2>3, <2>4, <2>5, <2>6 DEF RoutesNext
<1> QED
  BY <1>1, <1>2, PTL DEF RoutesSpec

\* However routes are registered the trie finds the right one, and every request meets the routers
\* as they are: no hypothesis but what kinds of values the constants are.
THEOREM RoutesCorrect == RoutesSpec => []RoutesHold
<1>1. RoutesInv => RoutesHold
  BY TheTrieFinds DEF RoutesInv, RoutesHold
<1> QED
  BY <1>1, RoutesInvariant, PTL

-----------------------------------------------------------------------------
\* Auth: the invariant.

Pcs == {"idle", "discovering", "fetching", "receiving", "verifying", "finding", "touching"} \cup Decided
Visit == [pc : Pcs, kid : KeyIds \cup {Junk}, apiKey : ApiKeyIds \cup {Junk}, got : SUBSET ever,
          refreshes : BOOLEAN, at : Int, revoked : BOOLEAN, current : BOOLEAN, alone : BOOLEAN]

AuthTypeOK ==
  /\ published \subseteq ever /\ keys \subseteq ever
  /\ {clock, lastRefresh} \subseteq Int
  /\ apiKeys \in [ApiKeyIds -> [exists : BOOLEAN, revoked : BOOLEAN, lastUsedAt : Int]]
  /\ visitor \in [Visitors -> Visit]
  /\ rotations \in Nat

\* What a visit with a token may count on at each await: the keys that the provider publishes, has
\* answered with and that were stored hold its own, as long as it is published and
\* nobody else's answer is stored.
BearerOK(q) ==
  /\ q.pc \in {"discovering", "fetching", "receiving", "verifying"} => q.apiKey = Junk /\ q.refreshes
  /\ q.pc \in {"discovering", "fetching"} /\ q.current => q.kid \in published
  /\ q.pc = "receiving" /\ q.current => q.kid \in q.got
  /\ q.pc = "verifying" /\ q.current /\ q.alone => q.kid \in keys
  /\ q.apiKey = Junk =>
       /\ q.pc = "200" => q.kid \in ever
       /\ q.pc = "401" /\ q.refreshes => ~ q.current \/ ~ q.alone
       /\ q.pc = "503" => q.refreshes

\* A key that was revoked is so in the table, and was presented before that by whoever found it.
ApiKeyOK(q) ==
  /\ q.pc \in {"finding", "touching"} => q.apiKey \in ApiKeyIds
  /\ q.revoked => q.apiKey \in ended
  /\ q.pc \in {"touching", "200"} /\ q.apiKey # Junk => ~ q.revoked

AuthInv ==
  /\ AuthTypeOK
  /\ begun = lastRefresh /\ ~ hasty
  /\ \A v \in Visitors : BearerOK(visitor[v]) /\ ApiKeyOK(visitor[v])
  /\ \A k \in ended : k \in ApiKeyIds => apiKeys[k].exists /\ apiKeys[k].revoked

LEMMA AuthInitInv == AuthInit => AuthInv
<1> SUFFICES ASSUME AuthInit PROVE AuthInv
  OBVIOUS
<1>1. Never \in Int /\ Refresh \in Nat
  BY AuthAssumption DEF Never
<1>2. PICK key : published = {key} /\ ever = {key}
  BY DEF AuthInit
<1>3. /\ NoVisit \in Visit /\ NoVisit.pc = "idle" /\ NoVisit.apiKey = Junk /\ ~ NoVisit.revoked
  BY DEF NoVisit, Visit, Pcs
<1>4. visitor \in [Visitors -> Visit] /\ \A v \in Visitors : visitor[v] = NoVisit
  BY <1>3 DEF AuthInit
<1>5. apiKeys \in [ApiKeyIds -> [exists : BOOLEAN, revoked : BOOLEAN, lastUsedAt : Int]]
  <2>1. apiKeys \in [ApiKeyIds -> {[exists |-> e, revoked |-> FALSE, lastUsedAt |-> Never] : e \in BOOLEAN}]
    BY DEF AuthInit
  <2>2. ASSUME NEW k \in ApiKeyIds
        PROVE  apiKeys[k] \in [exists : BOOLEAN, revoked : BOOLEAN, lastUsedAt : Int]
    <3>1. PICK e \in BOOLEAN : apiKeys[k] = [exists |-> e, revoked |-> FALSE, lastUsedAt |-> Never]
      BY <2>1
    <3>2. [exists |-> e, revoked |-> FALSE, lastUsedAt |-> Never] \in [exists : BOOLEAN, revoked : BOOLEAN, lastUsedAt : Int]
      BY <1>1
    <3> QED
      BY <3>1, <3>2
  <2>3. apiKeys = [k \in ApiKeyIds |-> apiKeys[k]]
    BY <2>1
  <2> QED
    BY <2>2, <2>3
<1>6. AuthTypeOK
  BY <1>1, <1>2, <1>4, <1>5 DEF AuthInit, AuthTypeOK
<1>7. BearerOK(NoVisit) /\ ApiKeyOK(NoVisit)
  BY <1>3 DEF BearerOK, ApiKeyOK
<1>8. begun = lastRefresh /\ ~ hasty /\ ended = {}
  BY DEF AuthInit
<1> QED
  BY <1>4, <1>6, <1>7, <1>8 DEF AuthInv

\* A step of one visitor, or of none: the others' visits only lose what they count on with a claim to it.
LEMMA VisitorsMove ==
  ASSUME AuthTypeOK, NEW v \in Visitors, NEW q \in Visit, Becomes(v, q)
  PROVE  visitor' \in [Visitors -> Visit] /\ \A u \in Visitors : visitor'[u] = IF u = v THEN q ELSE visitor[u]
BY DEF AuthTypeOK, Becomes

\* A step that leaves the provider, the keys and the table as they are.
LEMMA OneVisit ==
  ASSUME AuthInv, NEW v \in Visitors, NEW q \in Visit, Becomes(v, q), BearerOK(q), ApiKeyOK(q),
         UNCHANGED <<published, keys, lastRefresh, apiKeys, clock, rotations, seen>>
  PROVE  AuthInv'
<1>1. visitor' \in [Visitors -> Visit] /\ \A u \in Visitors : visitor'[u] = IF u = v THEN q ELSE visitor[u]
  BY VisitorsMove DEF AuthInv
<1>2. AuthTypeOK'
  BY <1>1 DEF AuthInv, AuthTypeOK, Visit, seen
<1>3. ASSUME NEW u \in Visitors
      PROVE  BearerOK(visitor[u])' /\ ApiKeyOK(visitor[u])'
  <2>1. PICK now : now = visitor'[u]
    OBVIOUS
  <2>2. BearerOK(now) /\ ApiKeyOK(now)
    BY <1>1, <2>1 DEF AuthInv
  <2> QED
    BY <2>1, <2>2 DEF BearerOK, ApiKeyOK, seen
<1> QED
  BY <1>2, <1>3 DEF AuthInv, seen

LEMMA BearerKeeps ==
  ASSUME AuthInv, NEW v \in Visitors, NEW kid \in KeyIds \cup {Junk}, Bearer(v, kid)
  PROVE  AuthInv'
<1>1. PICK refreshes : refreshes = (unknownKey(kid) /\ clock - lastRefresh >= Refresh)
  OBVIOUS
<1>2. refreshes \in BOOLEAN
  BY <1>1
<1>3. PICK pc : pc = IF ~ refreshes THEN Verdict(kid) ELSE IF jwksUri = "known" THEN "fetching" ELSE "discovering"
  OBVIOUS
<1>4. PICK current, alone : current = (kid \in published) /\ alone = (Refreshing = {})
  OBVIOUS
<1>5. PICK q : q = [NoVisit EXCEPT !.kid = kid, !.refreshes = refreshes, !.current = current, !.alone = alone, !.pc = pc]
  OBVIOUS
<1>6. /\ Becomes(v, q) /\ UNCHANGED <<published, keys, apiKeys, clock, rotations, ever, ended>>
      /\ lastRefresh' = IF refreshes THEN clock ELSE lastRefresh
      /\ begun' = IF refreshes THEN clock ELSE begun
      /\ hasty' = (hasty \/ (refreshes /\ clock - begun < Refresh))
  BY <1>1, <1>3, <1>4, <1>5 DEF Bearer
<1>7. /\ q \in Visit /\ q.kid = kid /\ q.pc = pc /\ q.apiKey = Junk /\ ~ q.revoked
      /\ q.refreshes = refreshes /\ q.current = current
  <2>1. pc \in Pcs /\ current \in BOOLEAN /\ alone \in BOOLEAN
    BY <1>3, <1>4 DEF Pcs, Decided, Verdict
  <2>2. NoVisit \in Visit /\ NoVisit.apiKey = Junk /\ ~ NoVisit.revoked
    BY DEF NoVisit, Visit, Pcs
  <2> QED
    BY <1>2, <1>5, <2>1, <2>2, ZenonT(40) DEF Visit
<1>8. visitor' \in [Visitors -> Visit] /\ \A u \in Visitors : visitor'[u] = IF u = v THEN q ELSE visitor[u]
  BY <1>6, <1>7, VisitorsMove DEF AuthInv
<1>9. AuthTypeOK'
  BY <1>6, <1>8 DEF AuthInv, AuthTypeOK, Visit
<1>10. begun' = lastRefresh' /\ ~ hasty'
  <2>1. refreshes => ~ (clock - begun < Refresh)
    <3>1. clock \in Int /\ lastRefresh \in Int /\ begun = lastRefresh /\ Refresh \in Int
      BY AuthAssumption DEF AuthInv, AuthTypeOK
    <3>2. ASSUME refreshes
          PROVE  clock - lastRefresh >= Refresh
      BY <1>1, <3>2
    <3> QED
      BY <3>1, <3>2
  <2> QED
    BY <1>6, <2>1 DEF AuthInv
<1>11. BearerOK(q) /\ ApiKeyOK(q)
  <2>1. CASE refreshes
    <3>1. pc \in {"fetching", "discovering"}
      BY <1>3, <2>1
    <3> QED
      BY <1>4, <1>7, <2>1, <3>1 DEF BearerOK, ApiKeyOK
  <2>2. CASE ~ refreshes
    <3>1. pc \in {"200", "401"} /\ (pc = "200" => kid \in ever)
      BY <1>3, <2>2 DEF Verdict, AuthInv, AuthTypeOK
    <3> QED
      BY <1>7, <2>2, <3>1 DEF BearerOK, ApiKeyOK
  <2> QED
    BY <2>1, <2>2
<1>12. ASSUME NEW u \in Visitors
       PROVE  BearerOK(visitor[u])' /\ ApiKeyOK(visitor[u])'
  <2>1. PICK now : now = visitor'[u]
    OBVIOUS
  <2>2. BearerOK(now) /\ ApiKeyOK(now)
    BY <1>8, <1>11, <2>1 DEF AuthInv
  <2> QED
    BY <1>6, <2>1, <2>2 DEF BearerOK, ApiKeyOK
<1> QED
  BY <1>6, <1>9, <1>10, <1>12 DEF AuthInv

LEMMA VisitOf ==
  ASSUME AuthInv, NEW v \in Visitors
  PROVE  visitor[v] \in Visit /\ BearerOK(visitor[v]) /\ ApiKeyOK(visitor[v])
BY DEF AuthInv, AuthTypeOK

LEMMA DiscoveredKeeps ==
  ASSUME AuthInv, NEW ok \in BOOLEAN, Discovered(ok)
  PROVE  AuthInv'
<1>1. UNCHANGED <<published, keys, lastRefresh, apiKeys, clock, rotations, ever, ended, begun, hasty>>
  BY DEF Discovered, seen
<1>2. PICK pc : pc = IF ok THEN "fetching" ELSE "503"
  OBVIOUS
<1>3. visitor' = [v \in Visitors |-> IF Comes(v, "discovering") THEN [visitor[v] EXCEPT !.pc = pc] ELSE visitor[v]]
  BY <1>2 DEF Discovered
<1>4. ASSUME NEW v \in Visitors
      PROVE  visitor'[v] \in Visit /\ BearerOK(visitor'[v]) /\ ApiKeyOK(visitor'[v])
  <2>1. PICK was : was = visitor[v]
    OBVIOUS
  <2>2. was \in Visit /\ BearerOK(was) /\ ApiKeyOK(was)
    BY <2>1, VisitOf
  <2>3. CASE was.pc = "discovering"
    <3>1. PICK q : q = [was EXCEPT !.pc = pc]
      OBVIOUS
    <3>2. /\ q \in Visit /\ q.pc = pc /\ q.kid = was.kid /\ q.apiKey = was.apiKey /\ q.refreshes = was.refreshes
          /\ q.current = was.current /\ q.revoked = was.revoked
      BY <1>2, <2>2, <3>1 DEF Visit, Pcs, Decided
    <3>3. BearerOK(q) /\ ApiKeyOK(q)
      BY <1>2, <2>2, <2>3, <3>2 DEF BearerOK, ApiKeyOK
    <3> QED
      BY <1>3, <2>1, <2>3, <3>1, <3>2, <3>3 DEF Comes
  <2>4. CASE was.pc # "discovering"
    BY <1>3, <2>1, <2>2, <2>4 DEF Comes
  <2> QED
    BY <2>3, <2>4
<1>5. visitor' \in [Visitors -> Visit]
  BY <1>3, <1>4
<1>6. AuthTypeOK'
  BY <1>1, <1>5 DEF AuthInv, AuthTypeOK, Visit
<1>7. \A v \in Visitors : BearerOK(visitor[v])' /\ ApiKeyOK(visitor[v])'
  BY <1>1, <1>4 DEF BearerOK, ApiKeyOK
<1> QED
  BY <1>1, <1>6, <1>7 DEF AuthInv

LEMMA PublishesKeeps ==
  ASSUME AuthInv, NEW v \in Visitors, Publishes(v)
  PROVE  AuthInv'
<1>1. PICK was : was = visitor[v]
  OBVIOUS
<1>2. was \in Visit /\ BearerOK(was) /\ ApiKeyOK(was) /\ was.pc = "fetching"
  BY <1>1, VisitOf DEF Publishes, Comes
<1>3. PICK q : Becomes(v, q) /\ q \in {[was EXCEPT !.pc = "receiving", !.got = published], [was EXCEPT !.pc = "503"]}
  BY <1>1 DEF Publishes, Onto
<1>4. /\ q \in Visit /\ q.pc \in {"receiving", "503"} /\ (q.pc = "receiving" => q.got = published)
      /\ q.kid = was.kid /\ q.apiKey = was.apiKey /\ q.refreshes = was.refreshes /\ q.current = was.current /\ q.revoked = was.revoked
  <2>1. published \in SUBSET ever
    BY DEF AuthInv, AuthTypeOK
  <2> QED
    BY <1>2, <1>3, <2>1, ZenonT(40) DEF Visit, Pcs, Decided
<1>5. BearerOK(q) /\ ApiKeyOK(q)
  BY <1>2, <1>4 DEF BearerOK, ApiKeyOK
<1> QED
  BY <1>3, <1>4, <1>5, OneVisit DEF Publishes

\* Whoever is verifying while another's answer is stored is no longer alone.
LEMMA RefreshKeysKeeps ==
  ASSUME AuthInv, NEW v \in Visitors, RefreshKeys(v)
  PROVE  AuthInv'
<1>1. UNCHANGED <<published, lastRefresh, apiKeys, clock, rotations, ever, ended, begun, hasty>> /\ keys' = visitor[v].got
  BY DEF RefreshKeys, seen
<1>2. visitor' = [u \in Visitors |-> IF u = v THEN [visitor[v] EXCEPT !.pc = "verifying"]
                                     ELSE IF Comes(u, "verifying") THEN [visitor[u] EXCEPT !.alone = FALSE] ELSE visitor[u]]
  BY DEF RefreshKeys
<1>3. visitor[v] \in Visit /\ BearerOK(visitor[v]) /\ visitor[v].pc = "receiving" /\ visitor[v].got \subseteq ever
  BY VisitOf DEF RefreshKeys, Comes, Visit
<1>4. ASSUME NEW u \in Visitors
      PROVE  visitor'[u] \in Visit /\ BearerOK(visitor[u])' /\ ApiKeyOK(visitor[u])'
  <2>1. PICK was, now, stored : was = visitor[u] /\ now = visitor'[u] /\ stored = visitor[v].got
    OBVIOUS
  <2>2. was \in Visit /\ BearerOK(was) /\ ApiKeyOK(was)
    BY <2>1, VisitOf
  <2>3. CASE u = v
    <3>1. now = [was EXCEPT !.pc = "verifying"] /\ was.pc = "receiving" /\ was.got = stored
      BY <1>2, <1>3, <2>1, <2>3
    <3>2. /\ now \in Visit /\ now.pc = "verifying" /\ now.kid = was.kid /\ now.apiKey = was.apiKey
          /\ now.refreshes = was.refreshes /\ now.current = was.current /\ now.revoked = was.revoked
      BY <2>2, <3>1 DEF Visit, Pcs
    <3>3. now.current => now.kid \in stored
      BY <2>2, <3>1, <3>2 DEF BearerOK
    <3>4. now.apiKey = Junk /\ now.refreshes
      BY <2>2, <3>1, <3>2 DEF BearerOK
    <3> QED
      BY <1>1, <2>1, <2>2, <3>1, <3>2, <3>3, <3>4 DEF BearerOK, ApiKeyOK
  <2>4. CASE u # v /\ was.pc = "verifying"
    <3>1. now = [was EXCEPT !.alone = FALSE]
      BY <1>2, <2>1, <2>4 DEF Comes
    <3>2. /\ now \in Visit /\ now.pc = "verifying" /\ ~ now.alone /\ now.kid = was.kid /\ now.apiKey = was.apiKey
          /\ now.refreshes = was.refreshes /\ now.current = was.current /\ now.revoked = was.revoked
      BY <2>2, <2>4, <3>1 DEF Visit
    <3> QED
      BY <1>1, <2>1, <2>2, <2>4, <3>2 DEF BearerOK, ApiKeyOK
  <2>5. CASE u # v /\ was.pc # "verifying"
    <3>1. now = was
      BY <1>2, <2>1, <2>5 DEF Comes
    <3> QED
      BY <1>1, <2>1, <2>2, <2>5, <3>1 DEF BearerOK, ApiKeyOK
  <2> QED
    BY <2>3, <2>4, <2>5
<1>5. visitor' \in [Visitors -> Visit]
  BY <1>2, <1>4
<1>6. AuthTypeOK'
  BY <1>1, <1>3, <1>5 DEF AuthInv, AuthTypeOK, Visit
<1> QED
  BY <1>1, <1>4, <1>6 DEF AuthInv

LEMMA VerifyKeeps ==
  ASSUME AuthInv, NEW v \in Visitors, Verify(v)
  PROVE  AuthInv'
<1>1. PICK was : was = visitor[v]
  OBVIOUS
<1>2. was \in Visit /\ BearerOK(was) /\ ApiKeyOK(was) /\ was.pc = "verifying"
  BY <1>1, VisitOf DEF Verify, Comes
<1>3. PICK pc : pc = Verdict(was.kid)
  OBVIOUS
<1>4. PICK q : q = [was EXCEPT !.pc = pc]
  OBVIOUS
<1>5. Becomes(v, q)
  BY <1>1, <1>3, <1>4 DEF Verify, Onto
<1>6. /\ pc \in {"200", "401"} /\ (pc = "200" => was.kid \in ever) /\ (pc = "401" => was.kid \notin keys)
  BY <1>3 DEF Verdict, AuthInv, AuthTypeOK
<1>7. /\ q \in Visit /\ q.pc = pc /\ q.kid = was.kid /\ q.apiKey = was.apiKey /\ q.refreshes = was.refreshes
      /\ q.current = was.current /\ q.revoked = was.revoked /\ q.alone = was.alone
  BY <1>2, <1>4, <1>6 DEF Visit, Pcs, Decided
<1>8. BearerOK(q) /\ ApiKeyOK(q)
  BY <1>2, <1>6, <1>7 DEF BearerOK, ApiKeyOK
<1> QED
  BY <1>5, <1>7, <1>8, OneVisit DEF Verify

LEMMA RotateKeeps ==
  ASSUME AuthInv, Rotate
  PROVE  AuthInv'
<1>1. UNCHANGED <<keys, lastRefresh, apiKeys, clock, begun, hasty, ended>> /\ rotations' = rotations + 1
  BY DEF Rotate
<1>2. published' \subseteq ever' /\ ever \subseteq ever'
  BY DEF Rotate, AuthInv, AuthTypeOK
<1>3. visitor' = [v \in Visitors |-> [visitor[v] EXCEPT !.current = @ /\ visitor[v].kid \in published']]
  BY DEF Rotate
<1>4. PICK now, offered : now = visitor' /\ offered = published'
  OBVIOUS
<1>5. ASSUME NEW v \in Visitors
      PROVE  now[v] \in [pc : Pcs, kid : KeyIds \cup {Junk}, apiKey : ApiKeyIds \cup {Junk}, got : SUBSET ever,
                         refreshes : BOOLEAN, at : Int, revoked : BOOLEAN, current : BOOLEAN, alone : BOOLEAN]
             /\ BearerOK(visitor[v])' /\ ApiKeyOK(visitor[v])'
  <2>1. PICK was, still, q : was = visitor[v] /\ still = (was.current /\ was.kid \in offered) /\ q = [was EXCEPT !.current = still]
    OBVIOUS
  <2>2. was \in Visit /\ BearerOK(was) /\ ApiKeyOK(was)
    BY <2>1, VisitOf
  <2>3. now[v] = q
    BY <1>3, <1>4, <2>1
  <2>4. /\ q \in Visit /\ q.pc = was.pc /\ q.kid = was.kid /\ q.apiKey = was.apiKey /\ q.refreshes = was.refreshes
        /\ q.current = still /\ q.revoked = was.revoked /\ q.alone = was.alone /\ q.got = was.got
    BY <2>1, <2>2 DEF Visit
  <2>5. /\ q.pc \in {"discovering", "fetching", "receiving", "verifying"} => q.apiKey = Junk /\ q.refreshes
        /\ q.pc \in {"discovering", "fetching"} /\ q.current => q.kid \in offered
        /\ q.pc = "receiving" /\ q.current => q.kid \in q.got
        /\ q.pc = "verifying" /\ q.current /\ q.alone => q.kid \in keys
    BY <2>1, <2>2, <2>4 DEF BearerOK
  <2>6. q.apiKey = Junk => /\ q.pc = "200" => q.kid \in ever
                           /\ q.pc = "401" /\ q.refreshes => ~ q.current \/ ~ q.alone
                           /\ q.pc = "503" => q.refreshes
    BY <2>1, <2>2, <2>4 DEF BearerOK
  <2>7. BearerOK(visitor[v])'
    BY <1>1, <1>2, <1>4, <2>3, <2>5, <2>6 DEF BearerOK
  <2>8. ApiKeyOK(visitor[v])'
    BY <1>1, <1>4, <2>2, <2>3, <2>4 DEF ApiKeyOK
  <2> QED
    BY <2>3, <2>4, <2>7, <2>8 DEF Visit
<1>6. now \in [Visitors -> [pc : Pcs, kid : KeyIds \cup {Junk}, apiKey : ApiKeyIds \cup {Junk}, got : SUBSET ever,
                            refreshes : BOOLEAN, at : Int, revoked : BOOLEAN, current : BOOLEAN, alone : BOOLEAN]]
  BY <1>3, <1>4, <1>5
<1>7. visitor' \in [Visitors -> Visit]'
  BY <1>2, <1>4, <1>6 DEF Visit
<1>8. rotations' \in Nat
  BY <1>1 DEF AuthInv, AuthTypeOK
<1>9. AuthTypeOK'
  BY <1>1, <1>2, <1>7, <1>8 DEF AuthInv, AuthTypeOK
<1> QED
  BY <1>1, <1>5, <1>9 DEF AuthInv

\* A step that leaves what the visits with a token count on, and does not bring a revoked key back.
LEMMA TableStep ==
  ASSUME AuthInv, UNCHANGED <<published, keys, lastRefresh, clock, rotations, ever, begun, hasty>>, ended \subseteq ended',
         apiKeys' \in [ApiKeyIds -> [exists : BOOLEAN, revoked : BOOLEAN, lastUsedAt : Int]],
         \A k \in ended' : k \in ApiKeyIds => apiKeys'[k].exists /\ apiKeys'[k].revoked,
         visitor' \in [Visitors -> Visit], \A v \in Visitors : BearerOK(visitor'[v]) /\ ApiKeyOK(visitor'[v])
  PROVE  AuthInv'
<1>1. AuthTypeOK'
  BY DEF AuthInv, AuthTypeOK, Visit
<1>2. ASSUME NEW v \in Visitors
      PROVE  BearerOK(visitor[v])' /\ ApiKeyOK(visitor[v])'
  <2>1. PICK now : now = visitor'[v] /\ BearerOK(now) /\ ApiKeyOK(now)
    OBVIOUS
  <2> QED
    BY <2>1 DEF BearerOK, ApiKeyOK
<1> QED
  BY <1>1, <1>2 DEF AuthInv

LEMMA ManageKeeps ==
  ASSUME AuthInv, NEW k \in ApiKeyIds, Manage(k)
  PROVE  AuthInv'
<1>1. UNCHANGED <<published, keys, lastRefresh, clock, rotations, ever, begun, hasty>> /\ visitor' = visitor
  BY DEF Manage
<1>2. PICK table : table = apiKeys /\ table \in [ApiKeyIds -> [exists : BOOLEAN, revoked : BOOLEAN, lastUsedAt : Int]]
  BY DEF AuthInv, AuthTypeOK
<1>3. \A i \in ended : i \in ApiKeyIds => table[i].exists /\ table[i].revoked
  BY <1>2 DEF AuthInv
<1>4. CASE insert(k)
  <2>1. apiKeys' = [table EXCEPT ![k].exists = TRUE] /\ ended' = ended
    BY <1>2, <1>4 DEF insert
  <2>2. apiKeys' \in [ApiKeyIds -> [exists : BOOLEAN, revoked : BOOLEAN, lastUsedAt : Int]]
    BY <1>2, <2>1
  <2>3. \A i \in ended' : i \in ApiKeyIds => apiKeys'[i].exists /\ apiKeys'[i].revoked
    BY <1>2, <1>3, <2>1
  <2> QED
    BY <1>1, <2>1, <2>2, <2>3, VisitOf, TableStep DEF AuthInv, AuthTypeOK
<1>5. CASE revoke(k)
  <2>1. apiKeys' = [table EXCEPT ![k].revoked = TRUE] /\ ended' = ended \cup {k} /\ table[k].exists
    BY <1>2, <1>5 DEF revoke
  <2>2. apiKeys' \in [ApiKeyIds -> [exists : BOOLEAN, revoked : BOOLEAN, lastUsedAt : Int]]
    BY <1>2, <2>1
  <2>3. \A i \in ended' : i \in ApiKeyIds => apiKeys'[i].exists /\ apiKeys'[i].revoked
    BY <1>2, <1>3, <2>1
  <2> QED
    BY <1>1, <2>1, <2>2, <2>3, VisitOf, TableStep DEF AuthInv, AuthTypeOK
<1> QED
  BY <1>4, <1>5 DEF Manage

LEMMA PresentsKeeps ==
  ASSUME AuthInv, NEW v \in Visitors, NEW k \in ApiKeyIds, Presents(v, k)
  PROVE  AuthInv'
<1>1. PICK late \in BOOLEAN : late <=> k \in ended
  OBVIOUS
<1>2. PICK q : q = [NoVisit EXCEPT !.pc = "finding", !.apiKey = k, !.revoked = late]
  OBVIOUS
<1>3. Becomes(v, q)
  <2>1. (k \in ended) = late
    BY <1>1
  <2> QED
    BY <1>2, <2>1 DEF Presents
<1>4. q \in Visit /\ q.pc = "finding" /\ q.apiKey = k /\ (q.revoked => k \in ended)
  <2>1. NoVisit \in Visit
    BY DEF NoVisit, Visit, Pcs
  <2> QED
    BY <1>1, <1>2, <2>1 DEF Visit, Pcs
<1>5. BearerOK(q) /\ ApiKeyOK(q)
  BY <1>4, AuthAssumption DEF BearerOK, ApiKeyOK
<1> QED
  BY <1>3, <1>4, <1>5, OneVisit DEF Presents

LEMMA FindKeeps ==
  ASSUME AuthInv, NEW v \in Visitors, Find(v)
  PROVE  AuthInv'
<1>1. PICK was : was = visitor[v]
  OBVIOUS
<1>2. was \in Visit /\ BearerOK(was) /\ ApiKeyOK(was) /\ was.pc = "finding" /\ was.apiKey \in ApiKeyIds
  <2>1. was \in Visit /\ BearerOK(was) /\ ApiKeyOK(was) /\ was.pc = "finding"
    BY <1>1, VisitOf DEF Find, Comes
  <2> QED
    BY <2>1 DEF ApiKeyOK
<1>3. PICK record : record = apiKeys[was.apiKey]
  OBVIOUS
<1>4. PICK pc : pc = IF ~ record.exists \/ record.revoked THEN "401"
                     ELSE IF record.lastUsedAt = Never \/ clock - record.lastUsedAt >= TouchAfter THEN "touching" ELSE "200"
  OBVIOUS
<1>5. PICK q, now : now = clock /\ q = [was EXCEPT !.at = now, !.pc = pc]
  OBVIOUS
<1>6. Becomes(v, q)
  BY <1>1, <1>3, <1>4, <1>5 DEF Find
<1>7. pc \in {"200", "401", "touching"} /\ (pc # "401" => ~ (record.exists /\ record.revoked))
  BY <1>4
<1>8. was.revoked => pc = "401"
  BY <1>2, <1>3, <1>7 DEF ApiKeyOK, AuthInv
<1>9. q \in Visit /\ q.pc = pc /\ q.apiKey = was.apiKey /\ q.revoked = was.revoked
  <2>1. now \in Int
    BY <1>5 DEF AuthInv, AuthTypeOK
  <2> QED
    BY <1>2, <1>5, <1>7, <2>1 DEF Visit, Pcs, Decided
<1>10. BearerOK(q) /\ ApiKeyOK(q)
  BY <1>2, <1>7, <1>8, <1>9, AuthAssumption DEF BearerOK, ApiKeyOK
<1> QED
  BY <1>6, <1>9, <1>10, OneVisit DEF Find

\* The write touches the time alone: whoever revoked the key since is not undone.
LEMMA TouchKeeps ==
  ASSUME AuthInv, NEW v \in Visitors, touch(v)
  PROVE  AuthInv'
<1>1. PICK was : was = visitor[v]
  OBVIOUS
<1>2. was \in Visit /\ BearerOK(was) /\ ApiKeyOK(was) /\ was.pc = "touching"
  BY <1>1, VisitOf DEF touch, Comes
<1>3. was.apiKey \in ApiKeyIds /\ ~ was.revoked /\ was.at \in Int
  BY <1>2, AuthAssumption DEF ApiKeyOK, Visit
<1>4. PICK q : q = [was EXCEPT !.pc = "200"]
  OBVIOUS
<1>5. Becomes(v, q) /\ UNCHANGED <<published, keys, lastRefresh, clock, rotations, ever, begun, hasty, ended>>
  BY <1>1, <1>4 DEF touch, Onto, seen
<1>6. q \in Visit /\ q.pc = "200" /\ q.apiKey = was.apiKey /\ ~ q.revoked
  BY <1>2, <1>3, <1>4 DEF Visit, Pcs, Decided
<1>7. BearerOK(q) /\ ApiKeyOK(q)
  BY <1>3, <1>6, AuthAssumption DEF BearerOK, ApiKeyOK
<1>8. visitor' \in [Visitors -> Visit] /\ \A u \in Visitors : BearerOK(visitor'[u]) /\ ApiKeyOK(visitor'[u])
  <2>1. visitor' \in [Visitors -> Visit] /\ \A u \in Visitors : visitor'[u] = IF u = v THEN q ELSE visitor[u]
    BY <1>5, <1>6, VisitorsMove DEF AuthInv
  <2> QED
    BY <1>7, <2>1, VisitOf
<1>9. PICK table, k, now : table = apiKeys /\ k = was.apiKey /\ now = was.at
  OBVIOUS
<1>10. apiKeys' = [table EXCEPT ![k].lastUsedAt = now]
  BY <1>1, <1>9 DEF touch
<1>11. /\ table \in [ApiKeyIds -> [exists : BOOLEAN, revoked : BOOLEAN, lastUsedAt : Int]] /\ k \in ApiKeyIds /\ now \in Int
       /\ \A i \in ended : i \in ApiKeyIds => table[i].exists /\ table[i].revoked
  BY <1>3, <1>9 DEF AuthInv, AuthTypeOK
<1>12. apiKeys' \in [ApiKeyIds -> [exists : BOOLEAN, revoked : BOOLEAN, lastUsedAt : Int]]
  BY <1>10, <1>11
<1>13. \A i \in ended : i \in ApiKeyIds => apiKeys'[i].exists /\ apiKeys'[i].revoked
  BY <1>10, <1>11
<1> QED
  BY <1>5, <1>8, <1>12, <1>13, TableStep

LEMMA GoesAwayKeeps ==
  ASSUME AuthInv, NEW v \in Visitors, GoesAway(v)
  PROVE  AuthInv'
<1>1. NoVisit \in Visit /\ BearerOK(NoVisit) /\ ApiKeyOK(NoVisit)
  BY DEF NoVisit, Visit, Pcs, BearerOK, ApiKeyOK
<1> QED
  BY <1>1, OneVisit DEF GoesAway

\* Every visit may count, at each of its awaits, on what the answer it gets in the end rests on,
\* whoever else comes, rotates, revokes or touches meanwhile.
THEOREM AuthInvariant == AuthSpec => []AuthInv
<1>1. ASSUME AuthInv, AuthNext
      PROVE  AuthInv'
  <2>1. ASSUME NEW v \in Visitors, NEW kid \in KeyIds \cup {Junk}, Bearer(v, kid)
        PROVE  AuthInv'
    BY <1>1, <2>1, BearerKeeps
  <2>2. ASSUME NEW v \in Visitors, NEW k \in ApiKeyIds, Presents(v, k)
        PROVE  AuthInv'
    BY <1>1, <2>2, PresentsKeeps
  <2>3. ASSUME NEW v \in Visitors, Publishes(v) \/ RefreshKeys(v) \/ Verify(v) \/ Find(v) \/ touch(v) \/ GoesAway(v)
        PROVE  AuthInv'
    BY <1>1, <2>3, PublishesKeeps, RefreshKeysKeeps, VerifyKeeps, FindKeeps, TouchKeeps, GoesAwayKeeps
  <2>4. ASSUME NEW ok \in BOOLEAN, Discovered(ok)
        PROVE  AuthInv'
    BY <1>1, <2>4, DiscoveredKeeps
  <2>5. ASSUME NEW k \in ApiKeyIds, Manage(k)
        PROVE  AuthInv'
    BY <1>1, <2>5, ManageKeeps
  <2>6. CASE Rotate
    BY <1>1, <2>6, RotateKeeps
  <2>7. CASE Ticks
    <3>1. clock' \in Int /\ UNCHANGED <<published, keys, lastRefresh, apiKeys, visitor, rotations, ever, ended, begun, hasty>>
      BY <1>1, <2>7 DEF Ticks, AuthInv, AuthTypeOK, seen
    <3>2. AuthTypeOK'
      BY <1>1, <3>1 DEF AuthInv, AuthTypeOK, Visit
    <3> QED
      BY <1>1, <3>1, <3>2 DEF AuthInv, BearerOK, ApiKeyOK
  <2> QED
    BY <1>1, <2>1, <2>2, <2>3, <2>4, <2>5, <2>6, <2>7 DEF AuthNext
<1>2. ASSUME AuthInv, UNCHANGED authVars
      PROVE  AuthInv'
  BY <1>2 DEF authVars, seen, AuthInv, AuthTypeOK, Visit, BearerOK, ApiKeyOK
<1> QED
  BY <1>1, <1>2, AuthInitInv, PTL DEF AuthSpec

-----------------------------------------------------------------------------
\* Auth: keys, tokens and permissions, for any input.

LEMMA LeastOf ==
  ASSUME NEW T, T \subseteq Nat, T # {}
  PROVE  Min(T) \in T /\ \A y \in T : Min(T) <= y
<1>1. PICK x \in T : \A y \in T : ~ (<<y, x>> \in OpToRel(<, Nat))
  BY NatLessThanWellFounded, WFMin
<1>2. \A y \in T : ~ (y < x)
  BY <1>1 DEF OpToRel
<1>3. \A y \in T : x <= y
  BY <1>2
<1> QED
  BY <1>3 DEF Min

\* The key chosen among however many: the first of the algorithm with the name, or without any, and one if there is one.
LEMMA KeyChosen ==
  ASSUME NEW held, DOMAIN held \subseteq Nat, NEW alg, NEW kid
  PROVE  /\ \A k \in selectKey(held, alg, kid) : k.alg = alg /\ (kid # NoKid => k.kid \in {kid, NoKid})
         /\ selectKey(held, alg, kid) = {} => \A n \in DOMAIN held : ~ (held[n].alg = alg /\ held[n].kid \in {kid, NoKid})
<1> DEFINE candidates == {n \in DOMAIN held : held[n].alg = alg}
           With(name) == {n \in candidates : held[n].kid = name}
           choice == IF kid = NoKid THEN candidates ELSE IF With(kid) # {} THEN With(kid) ELSE With(NoKid)
<1>1. selectKey(held, alg, kid) = IF choice = {} THEN {} ELSE {held[Min(choice)]}
  BY DEF selectKey
<1>2. choice \subseteq Nat /\ choice \subseteq candidates
  OBVIOUS
<1>3. CASE choice = {}
  BY <1>1, <1>3
<1>4. CASE choice # {}
  <2>1. Min(choice) \in choice
    BY <1>2, <1>4, LeastOf
  <2> QED
    BY <1>1, <1>4, <2>1
<1> QED
  BY <1>3, <1>4

LEMMA KeysFit == KeyFits
<1>1. ASSUME NEW S, NEW held \in S \X S \X S
      PROVE  DOMAIN held \subseteq Nat
  OBVIOUS
<1> QED
  BY <1>1, KeyChosen DEF KeyFits

\* A token signed at any time and of any life is good for that life, and as long as the skew allows.
LEMMA TokenLives ==
  ASSUME NEW kid, NEW now \in Nat, NEW ttl \in Nat, NEW later \in Nat, NEW skew \in Nat
  PROVE  LET valid == checkClaims(signJwt(kid, ttl, now), skew, later)
         IN /\ later \in now - skew * PerSecond .. (floorSeconds(now) + floorSeconds(ttl) + skew) * PerSecond => valid
            /\ valid => later \in now - PerSecond - skew * PerSecond .. now + ttl + skew * PerSecond
<1>1. PICK signed, life : signed = floorSeconds(now) /\ life = floorSeconds(ttl)
  OBVIOUS
<1>2. /\ signed \in Nat /\ 2 * signed <= now /\ now < 2 * signed + 2
      /\ life \in Nat /\ 2 * life <= ttl /\ ttl < 2 * life + 2
  BY <1>1 DEF floorSeconds, PerSecond
<1>3. checkClaims(signJwt(kid, ttl, now), skew, later)
      <=> later <= (signed + life + skew) * 2 /\ signed * 2 <= later + skew * 2
  BY <1>1 DEF checkClaims, signJwt, PerSecond
<1> HIDE <1>1
<1> QED
  BY <1>1, <1>2, <1>3 DEF PerSecond

LEMMA TokensDoExpire == TokensExpire
<1> SUFFICES ASSUME NEW now \in 4 .. 7, NEW ttl \in 0 .. 5, NEW later \in 0 .. 16, NEW skew \in {0, 1}
             PROVE  LET valid == checkClaims(signJwt(Junk, ttl, now), skew, later)
                    IN /\ later \in now - skew * PerSecond .. (floorSeconds(now) + floorSeconds(ttl) + skew) * PerSecond => valid
                       /\ valid => later \in now - PerSecond - skew * PerSecond .. now + ttl + skew * PerSecond
  BY DEF TokensExpire
<1>1. now \in Nat /\ ttl \in Nat /\ later \in Nat /\ skew \in Nat
  OBVIOUS
<1> QED
  BY <1>1, TokenLives

\* Claims under a reserved name are the subject's, whatever a caller adds.
LEMMA IssuedClaims ==
  ASSUME NEW subject, NEW extra
  PROVE  {c \in issue(subject, extra) : c.name \in Reserved} = {[name |-> n, value |-> subject] : n \in Reserved}
BY DEF issue

\* <<"users", "*">> grants what lies below "users".
LEMMA BelowUsers ==
  ASSUME NEW n \in 1 .. 3, NEW p \in [1 .. n -> {"users", "read"}]
  PROVE  Grants(<<"users", "*">>, p) <=> n > 1 /\ p[1] = "users"
<1>1. p \in Seq({"users", "read"}) /\ n \in Nat
  OBVIOUS
<1>2. PICK size : size = Len(p) /\ size = n
  BY <1>1, LenProperties
<1>3. PICK g : g = <<"users", "*">>
  OBVIOUS
<1>4. g \in Seq({"users", "*"}) /\ Len(g) = 2 /\ g[1] = "users" /\ g[2] = "*"
  BY <1>3
<1>5. Last(g) = "*" /\ Front(g) = SubSeq(g, 1, 1)
  BY <1>4 DEF Last, Front
<1>6. SubSeq(g, 1, 1) = <<"users">>
  <2>1. PICK s : s = SubSeq(g, 1, 1)
    OBVIOUS
  <2>2. g[1] \in {"users"} /\ 1 \in Int
    BY <1>4
  <2>3. s \in Seq({"users"}) /\ Len(s) = 1
    BY <2>1, <2>2, SubSeqProperties
  <2>4. s = <<"users">>
    BY <2>3, SMTT(30)
  <2> QED
    BY <2>1, <2>4
<1>7. g # p
  <2>1. CASE n = 2
    BY <1>4, <2>1
  <2>2. CASE n # 2
    BY <1>1, <1>2, <1>4, <2>2
  <2> QED
    BY <2>1, <2>2
<1>8. ASSUME n > 1
      PROVE  SubSeq(p, 1, 1) = <<"users">> <=> p[1] = "users"
  <2>1. PICK s : s = SubSeq(p, 1, 1)
    OBVIOUS
  <2>2. p[1] \in {"users", "read"} /\ 1 \in Int
    BY <1>8
  <2>3. s \in Seq({"users", "read"}) /\ Len(s) = 1 /\ s[1] = p[1]
    BY <2>1, <2>2, SubSeqProperties
  <2>4. s = <<"users">> <=> s[1] = "users"
    BY <2>3
  <2> QED
    BY <2>1, <2>3, <2>4
<1>9. 2 <= size <=> n > 1
  BY <1>2
<1> QED
  BY <1>2, <1>3, <1>4, <1>5, <1>6, <1>7, <1>8, <1>9 DEF Grants

LEMMA NobodyGrants == NobodyGrantsMore
<1>1. ASSUME NEW p \in UNION {[1 .. n -> {"users", "read"}] : n \in 1 .. 3}
      PROVE  /\ requirePermission(Anonymous, {<<"*">>}, {p}) = 401
             /\ requirePermission(Principal("jwt"), {<<"users", "*">>}, {p}) = IF Len(p) > 1 /\ p[1] = "users" THEN 200 ELSE 403
  <2>1. PICK n \in 1 .. 3 : p \in [1 .. n -> {"users", "read"}]
    OBVIOUS
  <2>2. p \in Seq({"users", "read"}) /\ Len(p) = n
    BY <2>1, LenProperties
  <2>3. PICK below \in BOOLEAN : (below <=> Grants(<<"users", "*">>, p)) /\ (below <=> Len(p) > 1 /\ p[1] = "users")
    BY <2>1, <2>2, BelowUsers
  <2>4. Principal("jwt") # Anonymous
    BY DEF Principal, Anonymous
  <2>5. requirePermission(Principal("jwt"), {<<"users", "*">>}, {p}) = IF below THEN 200 ELSE 403
    BY <2>3, <2>4 DEF requirePermission
  <2>6. requirePermission(Anonymous, {<<"*">>}, {p}) = 401
    BY DEF requirePermission
  <2> QED
    BY <2>3, <2>5, <2>6
<1>2. ASSUME NEW extra \in SUBSET [name : {"sub", "exp", "email"}, value : {"me", "you"}]
      PROVE  {c.value : c \in {c \in issue("me", extra) : c.name \in Reserved}} = {"me"}
  <2>1. PICK claims : claims = {c \in issue("me", extra) : c.name \in Reserved} /\ claims = {[name |-> n, value |-> "me"] : n \in Reserved}
    BY IssuedClaims
  <2>2. [name |-> "sub", value |-> "me"] \in claims
    BY <2>1 DEF Reserved
  <2>3. \A c \in claims : c.value = "me"
    BY <2>1
  <2>4. {c.value : c \in claims} = {"me"}
    BY <2>2, <2>3
  <2> QED
    BY <2>1, <2>4
<1> QED
  BY <1>1, <1>2 DEF NobodyGrantsMore

\* Whatever strategies an app has, in any order: a request is anonymous only if it carries nothing, or a
\* stale cookie, that any of them recognises.
LEMMA NobodyUnheard ==
  ASSUME NEW strategies, DOMAIN strategies \subseteq Nat, NEW carried,
         \A n \in DOMAIN strategies : /\ strategies[n] \in {"session", "jwt", "apiKey"}
                                      /\ carried[Strategies[strategies[n]].credential] \in {"none", "valid", "bad"},
         authenticate(strategies, carried) = Anonymous
  PROVE  \A n \in DOMAIN strategies :
           carried[Strategies[strategies[n]].credential] \in IF strategies[n] = "session" THEN {"none", "bad"} ELSE {"none"}
<1> DEFINE tried == [n \in DOMAIN strategies |-> Tries(strategies[n], carried)]
           decisive == {n \in DOMAIN strategies : tried[n] # Anonymous}
<1>1. authenticate(strategies, carried) = IF decisive = {} THEN Anonymous ELSE tried[Min(decisive)]
  BY DEF authenticate
<1>2. decisive = {}
  <2>1. SUFFICES ASSUME decisive # {} PROVE FALSE
    OBVIOUS
  <2>2. Min(decisive) \in decisive
    BY <2>1, LeastOf
  <2> QED
    BY <1>1, <2>1, <2>2
<1>3. ASSUME NEW n \in DOMAIN strategies
      PROVE  carried[Strategies[strategies[n]].credential] \in IF strategies[n] = "session" THEN {"none", "bad"} ELSE {"none"}
  <2>1. Tries(strategies[n], carried) = Anonymous
    BY <1>2
  <2>2. PICK name, value : name = strategies[n] /\ value = carried[Strategies[name].credential]
    OBVIOUS
  <2>3. name \in {"session", "jwt", "apiKey"} /\ value \in {"none", "valid", "bad"}
    BY <2>2
  <2>4. value = "valid" => FALSE
    BY <2>1, <2>2, <2>3 DEF Tries, Principal, Anonymous
  <2>5. value = "bad" => Strategies[name].bad = Anonymous
    BY <2>1, <2>2 DEF Tries
  <2>6. name # "session" => Strategies[name].bad # Anonymous
    BY <2>3 DEF Strategies, Refused, Anonymous, Principal
  <2> QED
    BY <2>2, <2>3, <2>4, <2>5, <2>6
<1> QED
  BY <1>3

-----------------------------------------------------------------------------
\* Auth: features are placed one after the other, each behind what it needs.

Once(s) == \A m, n \in DOMAIN s : s[m] = s[n] => m = n
NeedsFirst(needs, s) ==
  \A n \in DOMAIN s, need \in DOMAIN needs : need \in ToSet(needs[s[n]]) => \E m \in DOMAIN s : m < n /\ s[m] = need
Extended(s, t) == DOMAIN s \subseteq DOMAIN t /\ \A n \in DOMAIN s : t[n] = s[n]

\* A set of ids with all that they need.
Whole(needs, all) == \A id \in all, need \in DOMAIN needs : need \in ToSet(needs[id]) => need \in all
Wants(needs, list, k) == {list[i] : i \in 1 .. k} \cap DOMAIN needs

\* What placing a list adds to what was placed before: all that is listed, of what is under way nothing,
\* and before the k-th of the list only what the first k need.
Adds(needs, list, visiting, old, new) ==
  /\ Once(new) /\ NeedsFirst(needs, new) /\ Extended(old, new)
  /\ ToSet(list) \cap DOMAIN needs \subseteq ToSet(new)
  /\ ToSet(new) \cap visiting \subseteq ToSet(old)
  /\ \A all : Whole(needs, all) /\ ToSet(list) \cap DOMAIN needs \subseteq all => ToSet(new) \subseteq ToSet(old) \cup all
  /\ \A all : \A k \in DOMAIN list : Whole(needs, all) /\ Wants(needs, list, k) \subseteq all /\ list[k] \in DOMAIN needs =>
       \A m, n \in DOMAIN new : new[n] = list[k] /\ m <= n => new[m] \in ToSet(old) \cup all

\* A list with one more at its end.
LastAdded(t, s, x) ==
  \E n \in Nat : DOMAIN s = 1 .. n /\ DOMAIN t = 1 .. n + 1 /\ t[n + 1] = x /\ \A i \in 1 .. n : t[i] = s[i]

LEMMA LastAddedHolds ==
  ASSUME NEW t, NEW s, NEW x, LastAdded(t, s, x)
  PROVE  ToSet(t) = ToSet(s) \cup {x} /\ Extended(s, t)
<1>1. PICK n \in Nat : DOMAIN s = 1 .. n /\ DOMAIN t = 1 .. n + 1 /\ t[n + 1] = x /\ \A i \in 1 .. n : t[i] = s[i]
  BY DEF LastAdded
<1>2. \A i \in 1 .. n + 1 : i \in 1 .. n \/ i = n + 1
  BY <1>1
<1>3. n + 1 \in 1 .. n + 1 /\ \A i \in 1 .. n : i \in 1 .. n + 1
  BY <1>1
<1> QED
  BY <1>1, <1>2, <1>3 DEF ToSet, Extended

LEMMA NothingPlaced ==
  ASSUME NEW needs, NEW list, DOMAIN list = {}, NEW visiting, NEW old, Once(old), NeedsFirst(needs, old)
  PROVE  Adds(needs, list, visiting, old, old)
<1>1. Extended(old, old) /\ ToSet(list) = {}
  BY DEF Extended, ToSet
<1> QED
  BY <1>1 DEF Adds

LEMMA PlacedBefore ==
  ASSUME NEW needs, NEW list, NEW front, NEW id, LastAdded(list, front, id), NEW visiting, NEW old, NEW new,
         Adds(needs, front, visiting, old, new), id \in ToSet(new) \/ id \notin DOMAIN needs
  PROVE  Adds(needs, list, visiting, old, new)
<1>1. PICK n \in Nat : DOMAIN front = 1 .. n /\ DOMAIN list = 1 .. n + 1 /\ list[n + 1] = id /\ \A i \in 1 .. n : list[i] = front[i]
  BY DEF LastAdded
<1>2. ToSet(list) = ToSet(front) \cup {id}
  BY LastAddedHolds
<1>3. ToSet(list) \cap DOMAIN needs \subseteq ToSet(new)
  BY <1>2 DEF Adds
<1>4. ASSUME NEW all, Whole(needs, all), ToSet(list) \cap DOMAIN needs \subseteq all
      PROVE  ToSet(new) \subseteq ToSet(old) \cup all
  <2>1. ToSet(front) \cap DOMAIN needs \subseteq all
    BY <1>2, <1>4
  <2> QED
    BY <1>4, <2>1 DEF Adds
<1>5. ASSUME NEW k \in DOMAIN list, NEW all, Whole(needs, all), Wants(needs, list, k) \subseteq all, list[k] \in DOMAIN needs,
             NEW i \in DOMAIN new, NEW j \in DOMAIN new, new[j] = list[k], i <= j
      PROVE  new[i] \in ToSet(old) \cup all
  <2>1. CASE k \in 1 .. n
    <3>1. list[k] = front[k] /\ \A h \in 1 .. k : list[h] = front[h]
      BY <1>1, <2>1
    <3>2. Wants(needs, front, k) \subseteq all
      BY <1>5, <3>1 DEF Wants
    <3> QED
      BY <1>1, <1>5, <2>1, <3>1, <3>2 DEF Adds
  <2>2. CASE k = n + 1
    <3>1. ToSet(list) \cap DOMAIN needs \subseteq all
      BY <1>1, <1>5, <2>2 DEF Wants, ToSet
    <3>2. new[i] \in ToSet(new)
      BY DEF ToSet
    <3> QED
      BY <1>4, <1>5, <3>1, <3>2
  <2> QED
    BY <1>1, <2>1, <2>2
<1> QED
  BY <1>3, <1>4, <1>5 DEF Adds

LEMMA PlacedNow ==
  ASSUME NEW needs, NEW list, NEW front, NEW id, LastAdded(list, front, id), NEW visiting, NEW old, NEW mid, NEW last, NEW new, NEW y \in Nat, DOMAIN mid = 1 .. y,
         Adds(needs, front, visiting, old, mid), Adds(needs, needs[id], visiting \cup {id}, mid, last),
         id \in DOMAIN needs, id \notin ToSet(mid), id \notin visiting, LastAdded(new, last, id)
  PROVE  Adds(needs, list, visiting, old, new)
<1>1. PICK n \in Nat : DOMAIN front = 1 .. n /\ DOMAIN list = 1 .. n + 1 /\ list[n + 1] = id /\ \A i \in 1 .. n : list[i] = front[i]
  BY DEF LastAdded
<1>2. PICK z \in Nat : DOMAIN last = 1 .. z /\ DOMAIN new = 1 .. z + 1 /\ new[z + 1] = id /\ \A i \in 1 .. z : new[i] = last[i]
  BY DEF LastAdded
<1>3. /\ ToSet(list) = ToSet(front) \cup {id}
      /\ ToSet(new) = ToSet(last) \cup {id} /\ Extended(last, new)
  BY LastAddedHolds
<1>4. /\ Once(mid) /\ Extended(old, mid) /\ Once(last) /\ NeedsFirst(needs, last) /\ Extended(mid, last)
      /\ ToSet(needs[id]) \cap DOMAIN needs \subseteq ToSet(last)
      /\ ToSet(last) \cap (visiting \cup {id}) \subseteq ToSet(mid)
      /\ ToSet(mid) \cap visiting \subseteq ToSet(old)
      /\ ToSet(front) \cap DOMAIN needs \subseteq ToSet(mid)
  BY DEF Adds
<1>5. id \notin ToSet(last)
  BY <1>4
<1>6. Once(new)
  <2> SUFFICES ASSUME NEW i \in 1 .. z + 1, NEW j \in 1 .. z + 1, new[i] = new[j], i < j PROVE FALSE
    BY <1>2 DEF Once
  <2>1. i \in 1 .. z
    BY <1>2
  <2>2. last[i] \in ToSet(last)
    BY <1>2, <2>1 DEF ToSet
  <2>3. j \in 1 .. z
    BY <1>2, <1>5, <2>1, <2>2
  <2> QED
    BY <1>2, <1>4, <2>1, <2>3 DEF Once
<1>7. NeedsFirst(needs, new)
  <2> SUFFICES ASSUME NEW i \in 1 .. z + 1, NEW need \in DOMAIN needs, need \in ToSet(needs[new[i]])
               PROVE  \E m \in 1 .. z + 1 : m < i /\ new[m] = need
    BY <1>2 DEF NeedsFirst
  <2>1. CASE i \in 1 .. z
    <3>1. PICK m \in 1 .. z : m < i /\ last[m] = need
      BY <1>2, <1>4, <2>1 DEF NeedsFirst
    <3> QED
      BY <1>2, <3>1
  <2>2. CASE i = z + 1
    <3>1. need \in ToSet(last)
      BY <1>2, <1>4, <2>2
    <3>2. PICK m \in 1 .. z : last[m] = need
      BY <1>2, <3>1 DEF ToSet
    <3> QED
      BY <1>2, <2>2, <3>2
  <2> QED
    BY <1>2, <2>1, <2>2
<1>8. Extended(old, new) /\ Extended(mid, new) /\ ToSet(mid) \subseteq ToSet(new)
  BY <1>3, <1>4 DEF Extended, ToSet
<1>9. ToSet(list) \cap DOMAIN needs \subseteq ToSet(new)
  BY <1>3, <1>4, <1>8
<1>10. ToSet(new) \cap visiting \subseteq ToSet(old)
  BY <1>3, <1>4
<1>11. ASSUME NEW all, Whole(needs, all), ToSet(list) \cap DOMAIN needs \subseteq all
       PROVE  ToSet(new) \subseteq ToSet(old) \cup all
  <2>1. ToSet(front) \cap DOMAIN needs \subseteq all /\ id \in all
    BY <1>3, <1>11
  <2>2. ToSet(needs[id]) \cap DOMAIN needs \subseteq all
    BY <1>11, <2>1 DEF Whole
  <2>3. ToSet(mid) \subseteq ToSet(old) \cup all
    BY <1>11, <2>1 DEF Adds
  <2>4. ToSet(last) \subseteq ToSet(mid) \cup all
    BY <1>11, <2>2 DEF Adds
  <2> QED
    BY <1>3, <2>1, <2>3, <2>4
<1>12. ASSUME NEW k \in DOMAIN list, NEW all, Whole(needs, all), Wants(needs, list, k) \subseteq all, list[k] \in DOMAIN needs,
              NEW i \in DOMAIN new, NEW j \in DOMAIN new, new[j] = list[k], i <= j
       PROVE  new[i] \in ToSet(old) \cup all
  <2>1. CASE k \in 1 .. n
    <3>1. list[k] = front[k] /\ \A h \in 1 .. k : list[h] = front[h]
      BY <1>1, <2>1
    <3>2. Wants(needs, front, k) \subseteq all
      BY <1>12, <3>1 DEF Wants
    <3>3. front[k] \in ToSet(mid)
      BY <1>1, <1>4, <1>12, <2>1, <3>1 DEF ToSet
    <3>4. PICK h \in DOMAIN mid : mid[h] = front[k]
      BY <3>3 DEF ToSet
    <3>5. h = j
      BY <1>6, <1>8, <1>12, <3>1, <3>4 DEF Once, Extended
    <3>6. i \in DOMAIN mid /\ mid[i] = new[i]
      <4> QED
        BY <1>2, <1>8, <1>12, <3>4, <3>5 DEF Extended
    <3>7. mid[i] \in ToSet(old) \cup all
      BY <1>1, <1>12, <2>1, <3>2, <3>1, <3>4, <3>5, <3>6 DEF Adds
    <3> QED
      BY <3>6, <3>7
  <2>2. CASE k = n + 1
    <3>1. ToSet(list) \cap DOMAIN needs \subseteq all
      BY <1>1, <1>12, <2>2 DEF Wants, ToSet
    <3>2. new[i] \in ToSet(new)
      BY DEF ToSet
    <3> QED
      BY <1>11, <1>12, <3>1, <3>2
  <2> QED
    BY <1>1, <2>1, <2>2
<1> QED
  BY <1>6, <1>7, <1>8, <1>9, <1>10, <1>11, <1>12 DEF Adds

Shorter(w) == [w EXCEPT !.list = Front(@)]
Under(needs, w, id, done) == [list |-> needs[id], visiting |-> w.visiting \cup {id}, done |-> done]

\* Each id is under way once at most, and needs b others at most.
Burden(ids, b, w) == Cardinality(ids \ w.visiting) * (b + 1) + Len(w.list)
Limited(ids, names, needs, b) ==
  /\ IsFiniteSet(ids) /\ ids \subseteq names /\ needs \in [ids -> Seq(names)]
  /\ b \in Nat /\ \A id \in ids : Len(needs[id]) <= b

LEMMA Fronted ==
  ASSUME NEW S, NEW s \in Seq(S), s # <<>>
  PROVE  Last(s) \in S /\ Front(s) \in Seq(S) /\ Len(Front(s)) = Len(s) - 1 /\ Len(s) \in Nat /\ LastAdded(s, Front(s), Last(s))
<1>1. Len(s) \in Nat \ {0} /\ Last(s) = s[Len(s)] /\ s[Len(s)] \in S
  BY DEF Last
<1>2. PICK k : k = Len(s) - 1
  OBVIOUS
<1>3. k \in Nat /\ 1 \in Int /\ k \in Int /\ \A i \in 1 .. k : s[i] \in S
  BY <1>1, <1>2
<1>4. PICK front : front = Front(s) /\ front = SubSeq(s, 1, k)
  BY <1>2 DEF Front
<1>5. front \in Seq(S) /\ Len(front) = k /\ \A n \in 1 .. k : front[n] = s[n]
  <2>1. /\ SubSeq(s, 1, k) \in Seq(S)
        /\ Len(SubSeq(s, 1, k)) = IF 1 <= k THEN k - 1 + 1 ELSE 0
        /\ \A i \in 1 .. k - 1 + 1 : SubSeq(s, 1, k)[i] = s[1 + i - 1]
    BY <1>3, SubSeqProperties
  <2>2. \A i \in 1 .. k : front[i] = s[1 + i - 1] /\ 1 + i - 1 = i
    BY <1>3, <1>4, <2>1
  <2>3. Len(front) = k
    BY <1>3, <1>4, <2>1
  <2> QED
    BY <1>4, <2>1, <2>2, <2>3
<1>6. DOMAIN front = 1 .. k /\ DOMAIN s = 1 .. k + 1 /\ Len(s) = k + 1
  BY <1>1, <1>2, <1>3, <1>5, LenProperties
<1>7. LastAdded(s, front, s[k + 1])
  BY <1>3, <1>5, <1>6 DEF LastAdded
<1> QED
  BY <1>1, <1>2, <1>4, <1>5, <1>6, <1>7

LEMMA Appended ==
  ASSUME NEW S, NEW s \in Seq(S), NEW x \in S
  PROVE  Append(s, x) \in Seq(S) /\ LastAdded(Append(s, x), s, x)
<1>1. PICK t, n : t = Append(s, x) /\ n = Len(s)
  OBVIOUS
<1>2. t \in Seq(S) /\ Len(t) = n + 1 /\ (\A i \in 1 .. n : t[i] = s[i]) /\ t[n + 1] = x
  BY <1>1, AppendProperties
<1>3. n \in Nat /\ DOMAIN s = 1 .. n /\ DOMAIN t = 1 .. n + 1
  BY <1>1, <1>2, LenProperties
<1> QED
  BY <1>1, <1>2, <1>3 DEF LastAdded

\* Both recursive calls are closer to the end.
LEMMA ShorterIs ==
  ASSUME NEW ids, NEW names, NEW needs, NEW b, Limited(ids, names, needs, b), NEW w \in Work(ids, names), w.list # <<>>
  PROVE  /\ Shorter(w) \in Work(ids, names) /\ Burden(ids, b, Shorter(w)) < Burden(ids, b, w)
         /\ Shorter(w).list = Front(w.list) /\ Shorter(w).visiting = w.visiting /\ Shorter(w).done = w.done
<1>1. /\ w.list \in Seq(names) /\ w.visiting \in SUBSET ids /\ w.done \in Places(ids)
      /\ w = [list |-> w.list, visiting |-> w.visiting, done |-> w.done]
  BY DEF Work
<1>2. PICK front : front = Front(w.list) /\ front \in Seq(names) /\ Len(front) = Len(w.list) - 1 /\ Len(w.list) \in Nat
  BY <1>1, Fronted
<1>3. PICK v : v = Shorter(w)
  OBVIOUS
<1>4. v = [list |-> front, visiting |-> w.visiting, done |-> w.done]
  BY <1>1, <1>2, <1>3 DEF Shorter
<1>5. v \in Work(ids, names) /\ v.list = front /\ v.visiting = w.visiting /\ v.done = w.done
  BY <1>1, <1>2, <1>4 DEF Work
<1>6. Burden(ids, b, v) < Burden(ids, b, w)
  <2>1. PICK c : c = Cardinality(ids \ w.visiting) * (b + 1)
    OBVIOUS
  <2>2. PICK n : n = Cardinality(ids \ w.visiting) /\ n \in Nat /\ b \in Nat
    BY <1>1, FS_CardinalityType, FS_Difference DEF Limited
  <2>3. c \in Int
    BY <2>1, <2>2
  <2> QED
    BY <1>2, <1>5, <2>1, <2>3 DEF Burden
<1> QED
  BY <1>2, <1>3, <1>5, <1>6

LEMMA UnderIs ==
  ASSUME NEW ids, NEW names, NEW needs, NEW b, Limited(ids, names, needs, b), NEW w \in Work(ids, names), NEW id \in ids, id \notin w.visiting, w.list # <<>>,
         NEW done \in Places(ids)
  PROVE  /\ Under(needs, w, id, done) \in Work(ids, names) /\ Burden(ids, b, Under(needs, w, id, done)) < Burden(ids, b, w)
         /\ Under(needs, w, id, done).list = needs[id] /\ Under(needs, w, id, done).visiting = w.visiting \cup {id}
         /\ Under(needs, w, id, done).done = done
<1>1. /\ w.list \in Seq(names) /\ w.visiting \in SUBSET ids /\ w.visiting \cup {id} \in SUBSET ids
  BY DEF Work
<1>2. needs[id] \in Seq(names) /\ Len(needs[id]) <= b /\ b \in Nat /\ IsFiniteSet(ids)
  BY DEF Limited
<1>3. PICK v : v = Under(needs, w, id, done)
  OBVIOUS
<1>4. v = [list |-> needs[id], visiting |-> w.visiting \cup {id}, done |-> done]
  BY <1>3 DEF Under
<1>5. v \in Work(ids, names) /\ v.list = needs[id] /\ v.visiting = w.visiting \cup {id} /\ v.done = done
  BY <1>1, <1>2, <1>4 DEF Work
<1>6. Burden(ids, b, v) < Burden(ids, b, w)
  <2>1. PICK n, m : n = Cardinality(ids \ w.visiting) /\ m = Cardinality(ids \ v.visiting)
    OBVIOUS
  <2>2. IsFiniteSet(ids \ w.visiting) /\ ids \ v.visiting = (ids \ w.visiting) \ {id} /\ id \in ids \ w.visiting
    BY <1>2, <1>5, FS_Difference
  <2>3. n \in Nat /\ m = n - 1
    <3>1. PICK rest : rest = ids \ w.visiting
      OBVIOUS
    <3>2. IsFiniteSet(rest) /\ id \in rest /\ n = Cardinality(rest) /\ m = Cardinality(rest \ {id})
      BY <2>1, <2>2, <3>1
    <3>3. Cardinality(rest \ {id}) = Cardinality(rest) - 1
      BY <3>2, FS_RemoveElement
    <3>4. Cardinality(rest) \in Nat
      BY <3>2, FS_CardinalityType
    <3> QED
      BY <3>2, <3>3, <3>4
  <2>4. m * (b + 1) = n * (b + 1) - (b + 1) /\ n * (b + 1) \in Int
    BY <1>2, <2>3, SMTT(30)
  <2>5. PICK now, then, long, short : now = n * (b + 1) /\ then = m * (b + 1) /\ long = Len(w.list) /\ short = Len(needs[id])
    OBVIOUS
  <2>6. long \in Nat \ {0} /\ short \in Nat
    BY <1>1, <1>2, <2>5, LenProperties, EmptySeq
  <2>7. Burden(ids, b, w) = now + long /\ Burden(ids, b, v) = then + short
    BY <1>5, <2>1, <2>5 DEF Burden
  <2>8. then = now - (b + 1) /\ now \in Int /\ short <= b /\ b \in Nat
    BY <1>2, <2>4, <2>5
  <2> QED
    BY <2>6, <2>7, <2>8
<1> QED
  BY <1>3, <1>5, <1>6

LEMMA PlaceIs ==
  ASSUME NEW needs, NEW f, NEW w
  PROVE  LET id == Last(w.list)
             before == f[Shorter(w)]
             after == f[Under(needs, w, id, before)]
         IN place(needs, f, w) =
              IF w.list = <<>> THEN w.done
              ELSE IF ~ before.ok \/ id \notin DOMAIN needs \/ id \in ToSet(before.ordered) THEN before
              ELSE IF id \in w.visiting THEN [before EXCEPT !.ok = FALSE]
              ELSE IF after.ok THEN [after EXCEPT !.ordered = Append(@, id)] ELSE after
BY DEF place, Shorter, Under

\* What placing w comes to.
Fulfils(ids, needs, w, r) ==
  /\ r \in Places(ids) /\ (r.ok => w.done.ok)
  /\ r.ok /\ Once(w.done.ordered) /\ NeedsFirst(needs, w.done.ordered) => Adds(needs, w.list, w.visiting, w.done.ordered, r.ordered)

\* Whoever keeps to it for what is closer to the end keeps to it for w.
LEMMA PlaceFulfils ==
  ASSUME NEW ids, NEW names, NEW needs, NEW b, Limited(ids, names, needs, b), NEW f, NEW w \in Work(ids, names),
         \A u \in Work(ids, names) : Burden(ids, b, u) < Burden(ids, b, w) => Fulfils(ids, needs, u, f[u])
  PROVE  Fulfils(ids, needs, w, place(needs, f, w))
<1> DEFINE id == Last(w.list)
           before == f[Shorter(w)]
           after == f[Under(needs, w, id, before)]
<1>0. place(needs, f, w) =
              IF w.list = <<>> THEN w.done
              ELSE IF ~ before.ok \/ id \notin DOMAIN needs \/ id \in ToSet(before.ordered) THEN before
              ELSE IF id \in w.visiting THEN [before EXCEPT !.ok = FALSE]
              ELSE IF after.ok THEN [after EXCEPT !.ordered = Append(@, id)] ELSE after
  BY PlaceIs
<1>1. PICK r : r = place(needs, f, w)
  OBVIOUS
<1>2. DOMAIN needs = ids /\ w.list \in Seq(names) /\ w.done \in Places(ids)
  BY DEF Limited, Work
<1>3. CASE w.list = <<>>
  <2>1. r = w.done /\ DOMAIN w.list = {}
    BY <1>0, <1>1, <1>3
  <2>2. Fulfils(ids, needs, w, w.done)
    BY <1>2, <2>1, NothingPlaced DEF Fulfils
  <2> QED
    BY <1>1, <2>1, <2>2
<1>4. CASE w.list # <<>>
  <2>1. PICK x, list, front : x = id /\ list = w.list /\ front = Front(list)
    OBVIOUS
  <2>2. LastAdded(list, front, x)
    BY <1>2, <1>4, <2>1, Fronted
  <2>3. PICK mid : mid = before
    OBVIOUS
  <2>4. /\ mid \in Places(ids) /\ (mid.ok => w.done.ok)
        /\ mid.ok /\ Once(w.done.ordered) /\ NeedsFirst(needs, w.done.ordered) => Adds(needs, front, w.visiting, w.done.ordered, mid.ordered)
    <3>1. PICK u : u = Shorter(w) /\ mid = f[u]
      BY <2>3
    <3>2. u \in Work(ids, names) /\ Burden(ids, b, u) < Burden(ids, b, w) /\ u.list = front /\ u.visiting = w.visiting /\ u.done = w.done
      BY <1>4, <2>1, <3>1, ShorterIs
    <3>3. Fulfils(ids, needs, u, mid)
      BY <3>1, <3>2
    <3> QED
      BY <3>2, <3>3 DEF Fulfils
  <2>5. r = IF ~ mid.ok \/ x \notin ids \/ x \in ToSet(mid.ordered) THEN mid
            ELSE IF x \in w.visiting THEN [mid EXCEPT !.ok = FALSE]
            ELSE IF after.ok THEN [after EXCEPT !.ordered = Append(@, x)] ELSE after
    BY <1>0, <1>1, <1>2, <1>4, <2>1, <2>3
  <2>6. CASE ~ mid.ok \/ x \notin ids \/ x \in ToSet(mid.ordered)
    <3>1. r = mid
      BY <2>5, <2>6
    <3>2. ASSUME mid.ok, Once(w.done.ordered), NeedsFirst(needs, w.done.ordered)
          PROVE  Adds(needs, list, w.visiting, w.done.ordered, mid.ordered)
      BY <1>2, <2>2, <2>4, <2>6, <3>2, PlacedBefore
    <3>3. Fulfils(ids, needs, w, mid)
      BY <2>1, <2>4, <3>2 DEF Fulfils
    <3> QED
      BY <1>1, <3>1, <3>3
  <2>7. CASE mid.ok /\ x \in ids /\ x \notin ToSet(mid.ordered) /\ x \in w.visiting
    <3>1. r = [mid EXCEPT !.ok = FALSE]
      BY <2>5, <2>7
    <3>2. r \in Places(ids) /\ ~ r.ok
      BY <2>4, <3>1 DEF Places
    <3> QED
      BY <1>1, <3>2 DEF Fulfils
  <2>8. CASE mid.ok /\ x \in ids /\ x \notin ToSet(mid.ordered) /\ x \notin w.visiting
    <3>1. PICK last : last = after
      OBVIOUS
    <3>2. /\ last \in Places(ids)
          /\ last.ok /\ Once(mid.ordered) /\ NeedsFirst(needs, mid.ordered) => Adds(needs, needs[x], w.visiting \cup {x}, mid.ordered, last.ordered)
      <4>1. PICK u : u = Under(needs, w, x, mid) /\ last = f[u]
        BY <2>1, <2>3, <3>1
      <4>2. u \in Work(ids, names) /\ Burden(ids, b, u) < Burden(ids, b, w) /\ u.list = needs[x] /\ u.visiting = w.visiting \cup {x} /\ u.done = mid
        BY <1>4, <2>4, <2>8, <4>1, UnderIs
      <4>3. Fulfils(ids, needs, u, last)
        BY <4>1, <4>2
      <4> QED
        BY <4>2, <4>3 DEF Fulfils
    <3>3. r = IF last.ok THEN [last EXCEPT !.ordered = Append(@, x)] ELSE last
      BY <2>5, <2>8, <3>1
    <3>4. CASE ~ last.ok
      <4>1. r = last
        BY <3>3, <3>4
      <4>2. Fulfils(ids, needs, w, last)
        BY <3>2, <3>4 DEF Fulfils
      <4> QED
        BY <1>1, <4>1, <4>2
    <3>5. CASE last.ok
      <4>1. PICK s, t : s = last.ordered /\ t = Append(s, x)
        OBVIOUS
      <4>2. s \in Seq(ids) /\ t \in Seq(ids) /\ LastAdded(t, s, x)
        <5>1. s \in Seq(ids)
          BY <3>2, <4>1 DEF Places
        <5> QED
          BY <2>8, <4>1, <5>1, Appended
      <4>3. r = [last EXCEPT !.ordered = t]
        BY <3>3, <3>5, <4>1
      <4>4. r \in Places(ids) /\ r.ok = last.ok /\ r.ordered = t
        BY <3>2, <4>2, <4>3 DEF Places
      <4>5. ASSUME Once(w.done.ordered), NeedsFirst(needs, w.done.ordered)
            PROVE  Adds(needs, list, w.visiting, w.done.ordered, t)
        <5>1. Adds(needs, front, w.visiting, w.done.ordered, mid.ordered)
          BY <2>4, <2>8, <4>5
        <5>2. Adds(needs, needs[x], w.visiting \cup {x}, mid.ordered, s)
          BY <3>2, <3>5, <4>1, <5>1 DEF Adds
        <5>3. PICK y \in Nat : DOMAIN mid.ordered = 1 .. y
          <6>1. mid.ordered \in Seq(ids)
            BY <2>4 DEF Places
          <6> QED
            BY <6>1, LenProperties
        <5> QED
          BY <1>2, <2>2, <2>8, <4>2, <5>1, <5>2, <5>3, PlacedNow
      <4> QED
        BY <1>1, <2>1, <2>4, <2>8, <4>4, <4>5 DEF Fulfils
    <3> QED
      BY <3>4, <3>5
  <2> QED
    BY <2>6, <2>7, <2>8
<1> QED
  BY <1>3, <1>4

LEMMA BurdenNatural ==
  ASSUME NEW ids, NEW names, NEW needs, NEW b, Limited(ids, names, needs, b), NEW w \in Work(ids, names)
  PROVE  Burden(ids, b, w) \in Nat
<1>1. PICK n, m : n = Cardinality(ids \ w.visiting) /\ m = Len(w.list)
  OBVIOUS
<1>2. n \in Nat /\ m \in Nat /\ b \in Nat
  <2>1. w.list \in Seq(names) /\ IsFiniteSet(ids \ w.visiting)
    BY FS_Difference DEF Work, Limited
  <2> QED
    BY <1>1, <2>1, FS_CardinalityType, LenProperties DEF Limited
<1>3. n * (b + 1) + m \in Nat
  BY <1>2
<1> QED
  BY <1>1, <1>3 DEF Burden

\* Placing w asks for what is closer to the end only, and gives a list of places.
LEMMA PlaceLooks ==
  ASSUME NEW ids, NEW names, NEW needs, NEW b, Limited(ids, names, needs, b), NEW w \in Work(ids, names),
         NEW f \in [Work(ids, names) -> Places(ids)], NEW g \in [Work(ids, names) -> Places(ids)],
         \A u \in Work(ids, names) : Burden(ids, b, u) < Burden(ids, b, w) => f[u] = g[u]
  PROVE  place(needs, f, w) \in Places(ids) /\ place(needs, f, w) = place(needs, g, w)
<1> DEFINE By(h) == place(needs, h, w) =
              IF w.list = <<>> THEN w.done
              ELSE IF ~ h[Shorter(w)].ok \/ Last(w.list) \notin ids \/ Last(w.list) \in ToSet(h[Shorter(w)].ordered) THEN h[Shorter(w)]
              ELSE IF Last(w.list) \in w.visiting THEN [h[Shorter(w)] EXCEPT !.ok = FALSE]
              ELSE IF h[Under(needs, w, Last(w.list), h[Shorter(w)])].ok
                   THEN [h[Under(needs, w, Last(w.list), h[Shorter(w)])] EXCEPT !.ordered = Append(@, Last(w.list))]
                   ELSE h[Under(needs, w, Last(w.list), h[Shorter(w)])]
<1>1. DOMAIN needs = ids /\ w.done \in Places(ids)
  BY DEF Limited, Work
<1>2. By(f) /\ By(g)
  BY <1>1, PlaceIs
<1>3. CASE w.list = <<>>
  BY <1>1, <1>2, <1>3
<1>4. CASE w.list # <<>>
  <2>1. PICK x, mid : x = Last(w.list) /\ mid = f[Shorter(w)]
    OBVIOUS
  <2>2. mid = g[Shorter(w)] /\ mid \in Places(ids)
    <3>1. PICK u : u = Shorter(w)
      OBVIOUS
    <3>2. u \in Work(ids, names) /\ Burden(ids, b, u) < Burden(ids, b, w)
      BY <1>4, <3>1, ShorterIs
    <3> QED
      BY <2>1, <3>1, <3>2
  <2>3. PICK last, other : last = f[Under(needs, w, x, mid)] /\ other = g[Under(needs, w, x, mid)]
    OBVIOUS
  <2>4. x \in ids /\ x \notin w.visiting => last = other /\ last \in Places(ids)
    <3> SUFFICES ASSUME x \in ids, x \notin w.visiting PROVE last = other /\ last \in Places(ids)
      OBVIOUS
    <3>1. PICK u : u = Under(needs, w, x, mid)
      OBVIOUS
    <3>2. u \in Work(ids, names) /\ Burden(ids, b, u) < Burden(ids, b, w)
      BY <1>4, <2>2, <3>1, UnderIs
    <3> QED
      BY <2>3, <3>1, <3>2
  <2> DEFINE Result(after) ==
        IF ~ mid.ok \/ x \notin ids \/ x \in ToSet(mid.ordered) THEN mid
        ELSE IF x \in w.visiting THEN [mid EXCEPT !.ok = FALSE]
        ELSE IF after.ok THEN [after EXCEPT !.ordered = Append(@, x)] ELSE after
  <2>5. place(needs, f, w) = Result(last)
    BY <1>2, <1>4, <2>1, <2>3
  <2>6. place(needs, g, w) = Result(other)
    BY <1>2, <1>4, <2>1, <2>2, <2>3
  <2>7. Result(last) = Result(other)
    BY <2>4
  <2>8. Result(last) \in Places(ids)
    <3>1. [mid EXCEPT !.ok = FALSE] \in Places(ids)
      BY <2>2 DEF Places
    <3>2. CASE x \in ids /\ x \notin w.visiting
      <4>1. PICK s, t : s = last.ordered /\ t = Append(s, x)
        OBVIOUS
      <4>2. s \in Seq(ids)
        BY <2>4, <3>2, <4>1 DEF Places
      <4>3. t \in Seq(ids)
        BY <3>2, <4>1, <4>2, Appended
      <4>4. [last EXCEPT !.ordered = t] \in Places(ids)
        BY <2>4, <3>2, <4>3 DEF Places
      <4> QED
        BY <2>2, <2>4, <3>1, <3>2, <4>1, <4>4
    <3>3. CASE ~ (x \in ids /\ x \notin w.visiting)
      BY <2>2, <3>1, <3>3
    <3> QED
      BY <3>2, <3>3
  <2> HIDE DEF Result
  <2> QED
    BY <2>5, <2>6, <2>7, <2>8
<1> QED
  BY <1>3, <1>4

\* The recursion of placing has a function that fulfils it.
LEMMA PlacingHolds ==
  ASSUME NEW ids, NEW names, NEW needs, NEW b, Limited(ids, names, needs, b)
  PROVE  \E f : f = [w \in Work(ids, names) |-> place(needs, f, w)]
<1> DEFINE S == Work(ids, names)
           V == Places(ids)
           Body == [f \in [S -> V] |-> [w \in S |-> place(needs, f, w)]]
           rank == [w \in S |-> Burden(ids, b, w)]
<1>1. V # {}
  <2>1. <<>> \in Seq(ids)
    BY EmptySeq
  <2>2. [ok |-> TRUE, ordered |-> <<>>] \in V
    BY <2>1 DEF Places
  <2> QED
    BY <2>2
<1>2. rank \in [S -> Nat]
  BY BurdenNatural
<1>3. ASSUME NEW f \in [S -> V], NEW g \in [S -> V], NEW w \in S, \A u \in S : rank[u] < rank[w] => f[u] = g[u]
      PROVE  Body[f][w] = Body[g][w]
  <2>1. \A u \in S : Burden(ids, b, u) < Burden(ids, b, w) => f[u] = g[u]
    BY <1>3
  <2>2. place(needs, f, w) = place(needs, g, w)
    BY <2>1, PlaceLooks
  <2> QED
    BY <2>2
<1>4. Body \in [[S -> V] -> [S -> V]]
  <2>1. ASSUME NEW f \in [S -> V], NEW w \in S PROVE place(needs, f, w) \in V
    BY PlaceLooks
  <2> QED
    BY <2>1
<1>5. WellFounded(S, V, rank, Body)
  BY <1>1, <1>2, <1>3, <1>4 DEF WellFounded
<1>6. \E f \in [S -> V] : f = Body[f]
  <2> HIDE DEF S, V, rank, Body
  <2> QED
    BY <1>5, RecursionHolds
<1> QED
  BY <1>6

\* Whatever is placed is placed so.
LEMMA PlacingFulfils ==
  ASSUME NEW ids, NEW names, NEW needs, NEW b, Limited(ids, names, needs, b), NEW f, f = [w \in Work(ids, names) |-> place(needs, f, w)]
  PROVE  \A w \in Work(ids, names) : Fulfils(ids, needs, w, f[w])
<1>1. \A w \in Work(ids, names) : Burden(ids, b, w) \in Nat
  BY BurdenNatural
<1> DEFINE T == {n \in Nat : \A w \in Work(ids, names) : Burden(ids, b, w) = n => Fulfils(ids, needs, w, f[w])}
<1>2. ASSUME NEW n \in Nat, \A m \in Nat : m < n => m \in T, NEW w \in Work(ids, names), Burden(ids, b, w) = n
      PROVE  Fulfils(ids, needs, w, f[w])
  <2>1. \A u \in Work(ids, names) : Burden(ids, b, u) < Burden(ids, b, w) => Fulfils(ids, needs, u, f[u])
    BY <1>1, <1>2
  <2>2. PICK r : r = place(needs, f, w)
    OBVIOUS
  <2>3. Fulfils(ids, needs, w, r)
    <3> HIDE DEF T
    <3>1. Fulfils(ids, needs, w, place(needs, f, w))
      BY <2>1, PlaceFulfils
    <3> QED
      BY <2>2, <3>1
  <2> QED
    BY <2>2, <2>3
<1>3. \A n \in Nat : (\A m \in Nat : m < n => m \in T) => n \in T
  BY <1>2
<1>4. Nat \subseteq T
  <2> HIDE DEF T
  <2> QED
    BY <1>3, Climb
<1> QED
  BY <1>1, <1>4

FeatureSet(X) == [id : X, requires : Seq(Seq(X)), strategies : Seq(X), guarded : BOOLEAN]
IdsOf(features) == {features[n].id : n \in DOMAIN features}
NeedsOf(features) == [id \in IdsOf(features) |-> FlattenSeq(Named(features, id).requires)]
NamesIn(features) == IdsOf(features) \cup UNION {ToSet(NeedsOf(features)[id]) : id \in IdsOf(features)}
Given(features) == [n \in DOMAIN features |-> features[n].id]

\* A list has as many members as it is long just when it has each once.
LEMMA AsManyAsLong ==
  ASSUME NEW s, NEW n \in Nat, DOMAIN s = 1 .. n, s = [i \in 1 .. n |-> s[i]]
  PROVE  IsFiniteSet(ToSet(s)) /\ (Cardinality(ToSet(s)) = n <=> Once(s))
<1>1. IsFiniteSet(1 .. n) /\ Cardinality(1 .. n) = n
  BY FS_Interval
<1>2. s \in Surjection(1 .. n, ToSet(s))
  BY DEF Surjection, ToSet
<1>3. IsFiniteSet(ToSet(s)) /\ (Cardinality(ToSet(s)) = n <=> s \in Injection(1 .. n, ToSet(s)))
  BY <1>1, <1>2, FS_Surjection
<1>4. s \in Injection(1 .. n, ToSet(s)) <=> Once(s)
  BY DEF Injection, IsInjective, Once, ToSet
<1> QED
  BY <1>3, <1>4

LEMMA Within ==
  ASSUME NEW X, NEW s \in Seq(X), NEW Y, ToSet(s) \subseteq Y
  PROVE  s \in Seq(Y)
<1>1. PICK n : n = Len(s) /\ n \in Nat /\ s \in [1 .. n -> X]
  BY LenProperties
<1>2. s \in [1 .. n -> Y]
  BY <1>1 DEF ToSet
<1> QED
  BY <1>1, <1>2

\* Finitely many numbers have a bound.
LEMMA Bounded ==
  ASSUME NEW n \in Nat, NEW g \in [1 .. n -> Nat]
  PROVE  \E b \in Nat : \A i \in 1 .. n : g[i] <= b
<1> DEFINE T == {m \in Nat : m <= n => \E b \in Nat : \A i \in 1 .. m : g[i] <= b}
<1>1. ASSUME NEW m \in Nat, \A k \in Nat : k < m => k \in T, m <= n
      PROVE  \E b \in Nat : \A i \in 1 .. m : g[i] <= b
  <2>1. CASE m = 0
    BY <2>1
  <2>2. CASE m # 0
    <3>0. m - 1 \in Nat /\ m - 1 < m /\ m - 1 <= n /\ m \in 1 .. n
      BY <1>1, <2>2
    <3>1. m - 1 \in T
      BY <1>1, <3>0
    <3>2. PICK b \in Nat : \A i \in 1 .. m - 1 : g[i] <= b
      BY <3>0, <3>1
    <3>3. PICK c \in Nat : c >= b /\ c >= g[m]
      <4>1. g[m] \in Nat
        BY <3>0
      <4>2. b >= g[m] \/ g[m] >= b
        BY <4>1
      <4> QED
        BY <4>1, <4>2
    <3>4. \A i \in 1 .. m : g[i] <= c
      <4>1. ASSUME NEW i \in 1 .. m PROVE g[i] <= c
        <5>1. g[i] \in Nat /\ (i \in 1 .. m - 1 \/ i = m)
          BY <1>1
        <5> QED
          BY <3>2, <3>3, <5>1
      <4> QED
        BY <4>1
    <3> QED
      BY <3>4
  <2> QED
    BY <2>1, <2>2
<1>2. \A m \in Nat : (\A k \in Nat : k < m => k \in T) => m \in T
  BY <1>1
<1>3. Nat \subseteq T
  <2> HIDE DEF T
  <2> QED
    BY <1>2, Climb
<1>4. n \in T
  BY <1>3
<1> QED
  BY <1>4

LEMMA NamedIs ==
  ASSUME NEW X, NEW features \in Seq(FeatureSet(X)), NEW id \in IdsOf(features)
  PROVE  Named(features, id) \in FeatureSet(X) /\ Named(features, id).id = id /\ \E n \in DOMAIN features : Named(features, id) = features[n]
<1>1. PICK n : n = CHOOSE i \in DOMAIN features : features[i].id = id
  OBVIOUS
<1>2. n \in DOMAIN features /\ features[n].id = id
  BY <1>1 DEF IdsOf
<1>3. Named(features, id) = features[n]
  BY <1>1 DEF Named
<1>4. features[n] \in FeatureSet(X)
  BY <1>2, LenProperties, ElementOfSeq
<1> QED
  BY <1>2, <1>3, <1>4

\* What any list of features needs is limited.
LEMMA NeedsLimited ==
  ASSUME NEW X, NEW features \in Seq(FeatureSet(X))
  PROVE  \E b : Limited(IdsOf(features), NamesIn(features), NeedsOf(features), b)
<1>1. PICK n : n = Len(features) /\ n \in Nat /\ DOMAIN features = 1 .. n
  BY LenProperties
<1>2. \A i \in 1 .. n : features[i] \in FeatureSet(X)
  BY <1>1, ElementOfSeq
<1>3. PICK given : given = Given(features) /\ given = [i \in 1 .. n |-> features[i].id]
  BY <1>1 DEF Given
<1>4. ToSet(given) = IdsOf(features)
  BY <1>1, <1>3 DEF ToSet, IdsOf
<1>5. IsFiniteSet(IdsOf(features)) /\ IdsOf(features) \subseteq NamesIn(features)
  <2>1. IsFiniteSet(ToSet(given))
    <3>1. DOMAIN given = 1 .. n /\ given = [i \in 1 .. n |-> given[i]]
      BY <1>3
    <3> QED
      BY <1>1, <3>1, AsManyAsLong
  <2> QED
    BY <1>4, <2>1 DEF NamesIn
<1>6. \A i \in 1 .. n : FlattenSeq(features[i].requires) \in Seq(X)
  <2>1. \A i \in 1 .. n : features[i].requires \in Seq(Seq(X))
    BY <1>2 DEF FeatureSet
  <2> QED
    BY <2>1, FlattenRange
<1>7. PICK b \in Nat : \A i \in 1 .. n : Len(FlattenSeq(features[i].requires)) <= b
  <2> DEFINE g == [i \in 1 .. n |-> Len(FlattenSeq(features[i].requires))]
  <2>1. g \in [1 .. n -> Nat]
    BY <1>6, LenProperties
  <2>2. \E b \in Nat : \A i \in 1 .. n : g[i] <= b
    <3> HIDE DEF g
    <3> QED
      BY <1>1, <2>1, Bounded
  <2> QED
    BY <2>2
<1>8. \A id \in IdsOf(features) : NeedsOf(features)[id] \in Seq(NamesIn(features)) /\ Len(NeedsOf(features)[id]) <= b
  <2>1. ASSUME NEW id \in IdsOf(features)
        PROVE  NeedsOf(features)[id] \in Seq(NamesIn(features)) /\ Len(NeedsOf(features)[id]) <= b
    <3>1. PICK i \in 1 .. n : Named(features, id) = features[i]
      BY <1>1, NamedIs
    <3>2. NeedsOf(features)[id] = FlattenSeq(features[i].requires)
      BY <3>1 DEF NeedsOf
    <3>3. ToSet(NeedsOf(features)[id]) \subseteq NamesIn(features)
      BY DEF NamesIn
    <3>4. PICK list : list = NeedsOf(features)[id]
      OBVIOUS
    <3>5. list \in Seq(X) /\ Len(list) <= b
      BY <1>6, <1>7, <3>2, <3>4
    <3>6. list \in Seq(NamesIn(features))
      BY <3>3, <3>4, <3>5, Within
    <3> QED
      BY <3>4, <3>5, <3>6
  <2> QED
    BY <2>1
<1>9. NeedsOf(features) \in [IdsOf(features) -> Seq(NamesIn(features))]
  BY <1>8 DEF NeedsOf
<1> QED
  BY <1>5, <1>7, <1>8, <1>9 DEF Limited

\* Features are placed, whatever the app lists: each once, behind what it needs; in front of one come
\* only what it and those listed before it need, and what that needs.
THEOREM FeaturesPlaced ==
  ASSUME NEW X, NEW features \in Seq(FeatureSet(X)), orderFeatures(features).ok
  PROVE  LET needs == NeedsOf(features)
             given == Given(features)
             ordered == orderFeatures(features).ordered
         IN /\ ordered \in Seq(IdsOf(features)) /\ Len(ordered) = Len(features) /\ ToSet(ordered) = IdsOf(features)
            /\ Once(given) /\ Once(ordered) /\ NeedsFirst(needs, ordered)
            /\ \A all : \A k \in DOMAIN features : Whole(needs, all) /\ Wants(needs, given, k) \subseteq all =>
                 \A m, n \in DOMAIN ordered : ordered[n] = given[k] /\ m <= n => ordered[m] \in all
<1> DEFINE ids == {features[n].id : n \in DOMAIN features}
           needs == [id \in ids |-> FlattenSeq(Named(features, id).requires)]
           names == ids \cup UNION {ToSet(needs[id]) : id \in ids}
           F == CHOOSE f : f = [w \in Work(ids, names) |-> place(needs, f, w)]
           listed == /\ Cardinality(ids) = Len(features)
                     /\ \A f \in ToSet(features) : \A options \in ToSet(f.requires) : ToSet(options) \cap ids # {}
           nothing == [ok |-> TRUE, ordered |-> <<>>]
           all == [list |-> [n \in DOMAIN features |-> features[n].id], visiting |-> {}, done |-> nothing]
<1>1. orderFeatures(features) = IF listed THEN F[all] ELSE [nothing EXCEPT !.ok = FALSE]
  BY DEF orderFeatures
<1>2. listed
  BY <1>1
<1>3. PICK result : result = F[all] /\ result = orderFeatures(features)
  BY <1>1, <1>2
<1>4. PICK I, N, M, G : I = IdsOf(features) /\ N = NeedsOf(features) /\ M = NamesIn(features) /\ G = Given(features)
  OBVIOUS
<1>5. ids = I /\ needs = N /\ names = M /\ [n \in DOMAIN features |-> features[n].id] = G
  BY <1>4 DEF IdsOf, NeedsOf, NamesIn, Given
<1>6. PICK z : z = Len(features) /\ z \in Nat /\ DOMAIN features = 1 .. z
  BY LenProperties
<1>7. PICK b : Limited(I, M, N, b)
  BY <1>4, NeedsLimited
<1>8. PICK f : f = F /\ f = [w \in Work(I, M) |-> place(N, f, w)]
  <2> DEFINE H == CHOOSE f : f = [w \in Work(I, M) |-> place(N, f, w)]
  <2>1. F = H
    BY <1>5
  <2>2. \E f : f = [w \in Work(I, M) |-> place(N, f, w)]
    BY <1>7, PlacingHolds
  <2>3. H = [w \in Work(I, M) |-> place(N, H, w)]
    BY <2>2
  <2> HIDE DEF F, H
  <2> QED
    BY <2>1, <2>3
<1>9. PICK w : w = [list |-> G, visiting |-> {}, done |-> [ok |-> TRUE, ordered |-> <<>>]] /\ result = f[w]
  BY <1>3, <1>5, <1>8
<1> HIDE DEF ids, needs, names, F, listed, all, nothing
<1>10. Cardinality(I) = z
  BY <1>2, <1>5, <1>6 DEF listed
<1>11. G \in Seq(M) /\ DOMAIN G = 1 .. z /\ G = [n \in 1 .. z |-> G[n]] /\ ToSet(G) = I
  <2>1. G = [n \in 1 .. z |-> features[n].id]
    BY <1>4, <1>6 DEF Given
  <2>2. \A n \in 1 .. z : features[n].id \in M
    BY <1>4, <1>6 DEF NamesIn, IdsOf
  <2>3. ToSet(G) = I
    BY <1>4, <1>6, <2>1 DEF ToSet, IdsOf
  <2> QED
    BY <1>6, <2>1, <2>2, <2>3
<1>12. Once(G)
  BY <1>6, <1>10, <1>11, AsManyAsLong
<1>13. PICK old : old = <<>>
  OBVIOUS
<1>14. old \in Seq(I) /\ DOMAIN old = {} /\ ToSet(old) = {} /\ Once(old) /\ NeedsFirst(N, old)
  <2>1. old \in Seq(I) /\ DOMAIN old = {}
    BY <1>13
  <2> QED
    BY <2>1 DEF ToSet, Once, NeedsFirst
<1>15. PICK done : done \in Places(I) /\ done = [ok |-> TRUE, ordered |-> old] /\ done.ok /\ done.ordered = old
  <2>1. [ok |-> TRUE, ordered |-> old] \in Places(I)
    BY <1>14 DEF Places
  <2> QED
    BY <2>1
<1>16. w \in Work(I, M) /\ w.list = G /\ w.visiting = {} /\ w.done = done
  BY <1>9, <1>11, <1>13, <1>15 DEF Work
<1>17. Fulfils(I, N, w, result)
  BY <1>7, <1>8, <1>9, <1>16, PlacingFulfils
<1>18. PICK ordered : ordered = result.ordered
  OBVIOUS
<1>19. result.ok /\ ordered \in Seq(I) /\ Adds(N, G, {}, old, ordered)
  BY <1>3, <1>14, <1>15, <1>16, <1>17, <1>18 DEF Fulfils, Places
<1>20. DOMAIN N = I
  BY <1>4 DEF NeedsOf
<1>21. PICK len : len = Len(ordered) /\ len \in Nat /\ DOMAIN ordered = 1 .. len
  BY <1>19, LenProperties
<1>22. ToSet(ordered) = I
  <2>1. ToSet(ordered) \subseteq I
    BY <1>19, <1>21, ElementOfSeq DEF ToSet
  <2> QED
    BY <1>11, <1>19, <1>20, <2>1 DEF Adds
<1>23. Once(ordered) /\ NeedsFirst(N, ordered)
  BY <1>19 DEF Adds
<1>24. len = z
  <2>1. ordered = [i \in 1 .. len |-> ordered[i]]
    BY <1>19, <1>21
  <2> QED
    BY <1>10, <1>21, <1>22, <1>23, <2>1, AsManyAsLong
<1>25. ASSUME NEW k \in DOMAIN features, NEW C, Whole(N, C), Wants(N, G, k) \subseteq C,
              NEW i \in DOMAIN ordered, NEW j \in DOMAIN ordered, ordered[j] = G[k], i <= j
       PROVE  ordered[i] \in C
  <2>1. k \in DOMAIN G /\ G[k] \in DOMAIN N
    BY <1>6, <1>11, <1>20, <1>25 DEF ToSet
  <2> QED
    BY <1>14, <1>19, <1>25, <2>1 DEF Adds
<1> QED
  BY <1>3, <1>4, <1>6, <1>12, <1>18, <1>19, <1>21, <1>22, <1>23, <1>24, <1>25

\* The permutations of the subsets of a finite set of features are lists of features.
LEMMA PermutationIs ==
  ASSUME NEW X, NEW all \in SUBSET FeatureSet(X), IsFiniteSet(all), NEW features \in SetToAllKPermutations(all)
  PROVE  features \in Seq(FeatureSet(X)) /\ ToSet(features) \subseteq all
<1>1. PICK some \in SUBSET all : features \in SetToSeqs(some)
  BY DEF SetToAllKPermutations
<1>2. PICK n : n = Cardinality(some) /\ n \in Nat
  BY <1>1, FS_Subset, FS_CardinalityType
<1>3. features \in [1 .. n -> some]
  BY <1>1, <1>2 DEF SetToSeqs
<1> QED
  BY <1>1, <1>2, <1>3 DEF ToSet

LEMMA ListOfOne ==
  ASSUME NEW X, NEW x \in X
  PROVE  <<x>> \in Seq(X) /\ <<x>> # <<>> /\ Len(<<x>>) = 1 /\ DOMAIN <<x>> = 1 .. 1 /\ <<x>>[1] = x /\ ToSet(<<x>>) = {x}
<1>1. PICK s : s = <<x>>
  OBVIOUS
<1>2. s \in Seq(X) /\ s # <<>> /\ Len(s) = 1 /\ s[1] = x
  BY <1>1
<1>3. DOMAIN s = 1 .. 1
  BY <1>2, LenProperties
<1>4. ToSet(s) = {x}
  BY <1>2, <1>3 DEF ToSet
<1> QED
  BY <1>1, <1>2, <1>3, <1>4

LEMMA ListOfTwo ==
  ASSUME NEW X, NEW x \in X, NEW y \in X
  PROVE  /\ <<x, y>> \in Seq(X) /\ <<x, y>> # <<>> /\ Len(<<x, y>>) = 2 /\ DOMAIN <<x, y>> = 1 .. 2
         /\ <<x, y>>[1] = x /\ <<x, y>>[2] = y /\ ToSet(<<x, y>>) = {x, y}
<1>1. PICK s : s = <<x, y>>
  OBVIOUS
<1>2. s \in Seq(X) /\ s # <<>> /\ Len(s) = 2 /\ s[1] = x /\ s[2] = y
  BY <1>1
<1>3. DOMAIN s = 1 .. 2
  BY <1>2, LenProperties
<1>4. ToSet(s) = {x, y}
  BY <1>2, <1>3 DEF ToSet
<1> QED
  BY <1>1, <1>2, <1>3, <1>4

LEMMA FlattenedOne ==
  ASSUME NEW Y, NEW a \in Seq(Y)
  PROVE  <<a>> \in Seq(Seq(Y)) /\ FlattenSeq(<<a>>) = a
<1>1. PICK ss : ss = <<a>>
  OBVIOUS
<1>2. ss \in Seq(Seq(Y)) /\ ss # <<>> /\ Len(ss) = 1 /\ ss[1] = a
  <2> DEFINE X == Seq(Y)
  <2> HIDE DEF X
  <2>1. a \in X
    BY DEF X
  <2>2. ss \in Seq(X) /\ ss # <<>> /\ Len(ss) = 1 /\ ss[1] = a
    BY <1>1, <2>1, ListOfOne
  <2> QED
    BY <2>2 DEF X
<1>3. PICK F : FlattenSeq(ss) = F[Len(ss)] /\ F[1] = ss[1]
  BY <1>2, FlattenIs
<1> QED
  BY <1>1, <1>2, <1>3

LEMMA FlattenedTwo ==
  ASSUME NEW Y, NEW a \in Seq(Y), NEW b \in Seq(Y)
  PROVE  <<a, b>> \in Seq(Seq(Y)) /\ ToSet(FlattenSeq(<<a, b>>)) \subseteq ToSet(a) \cup ToSet(b)
<1>1. PICK ss : ss = <<a, b>>
  OBVIOUS
<1>2. ss \in Seq(Seq(Y)) /\ DOMAIN ss = 1 .. 2 /\ ss[1] = a /\ ss[2] = b
  <2> DEFINE X == Seq(Y)
  <2> HIDE DEF X
  <2>1. a \in X /\ b \in X
    BY DEF X
  <2>2. ss \in Seq(X) /\ DOMAIN ss = 1 .. 2 /\ ss[1] = a /\ ss[2] = b
    BY <1>1, <2>1, ListOfTwo
  <2> QED
    BY <2>2 DEF X
<1>3. \A x \in ToSet(FlattenSeq(ss)) : \E n \in 1 .. 2 : x \in ToSet(ss[n])
  BY <1>2, FlattenRange
<1> QED
  BY <1>1, <1>2, <1>3

\* What a feature names, and the features of this project, or like them, that name each other.
NamesOf(f) == ToSet(FlattenSeq(f.requires))
Other(id, requires) == Feature(id, requires, <<>>, FALSE)
Login == Other("login", <<<<"core">>, <<"sessions", "jwt">>>>)
Names == {"core", "sessions", "jwt", "apiKeys", "login", "own", "odd", "session", "apiKey"}

LEMMA NamesAre ==
  /\ "core" \in Names /\ "sessions" \in Names /\ "jwt" \in Names /\ "apiKeys" \in Names /\ "login" \in Names
  /\ "own" \in Names /\ "odd" \in Names /\ "session" \in Names /\ "apiKey" \in Names
BY DEF Names

OnCore(f) == f \in FeatureSet(Names) /\ NamesOf(f) = {"core"}

LEMMA OnCoreIs ==
  ASSUME NEW id \in Names, NEW strategies \in Seq(Names), NEW guarded \in BOOLEAN
  PROVE  OnCore(Feature(id, <<<<"core">>>>, strategies, guarded))
<1>1. PICK core, f : core = <<"core">> /\ f = Feature(id, <<core>>, strategies, guarded)
  OBVIOUS
<1>2. core \in Seq(Names) /\ ToSet(core) = {"core"}
  <2>1. "core" \in Names
    BY DEF Names
  <2> QED
    BY <1>1, <2>1, ListOfOne
<1>3. f \in FeatureSet(Names) /\ f.requires = <<core>> /\ f.id = id
  BY <1>1, <1>2, FlattenedOne DEF Feature, FeatureSet
<1>4. NamesOf(f) = {"core"}
  BY <1>2, <1>3, FlattenedOne DEF NamesOf
<1> QED
  BY <1>1, <1>3, <1>4 DEF OnCore

\* The names of the features that FeaturesInOrder lists.
Familiar(f) ==
  /\ f \in FeatureSet(Names)
  /\ \/ f.id = "core" /\ NamesOf(f) = {}
     \/ f.id \in {"sessions", "jwt"} /\ NamesOf(f) = {"core"}
     \/ f.id = "login" /\ NamesOf(f) \subseteq {"core", "sessions", "jwt"}
     \/ f.id = "own" /\ NamesOf(f) = {"odd"}
     \/ f.id = "odd" /\ NamesOf(f) = {"own", "core"}

LEMMA ListsOfNames ==
  /\ <<"odd">> \in Seq(Names) /\ ToSet(<<"odd">>) = {"odd"}
  /\ <<"own", "core">> \in Seq(Names) /\ ToSet(<<"own", "core">>) = {"own", "core"}
  /\ <<"core">> \in Seq(Names) /\ ToSet(<<"core">>) = {"core"}
  /\ <<"sessions", "jwt">> \in Seq(Names) /\ ToSet(<<"sessions", "jwt">>) = {"sessions", "jwt"}
<1>1. PICK a, b, c, d : a = "odd" /\ b = "core" /\ c = "own" /\ d = "sessions"
  OBVIOUS
<1>2. <<a>> \in Seq(Names) /\ ToSet(<<a>>) = {a}
  BY <1>1, NamesAre, ListOfOne
<1>3. <<c, b>> \in Seq(Names) /\ ToSet(<<c, b>>) = {c, b}
  BY <1>1, NamesAre, ListOfTwo
<1>4. <<b>> \in Seq(Names) /\ ToSet(<<b>>) = {b}
  BY <1>1, NamesAre, ListOfOne
<1>5. PICK e : e = "jwt"
  OBVIOUS
<1>6. <<d, e>> \in Seq(Names) /\ ToSet(<<d, e>>) = {d, e}
  BY <1>1, <1>5, NamesAre, ListOfTwo
<1> QED
  BY <1>1, <1>2, <1>3, <1>4, <1>5, <1>6

LEMMA FeatureIs ==
  ASSUME NEW X, NEW id \in X, NEW requires \in Seq(Seq(X)), NEW strategies \in Seq(X), NEW guarded \in BOOLEAN
  PROVE  /\ Feature(id, requires, strategies, guarded) \in FeatureSet(X)
         /\ Feature(id, requires, strategies, guarded).id = id
         /\ Feature(id, requires, strategies, guarded).requires = requires
         /\ Feature(id, requires, strategies, guarded).strategies = strategies
         /\ Feature(id, requires, strategies, guarded).guarded = guarded
BY DEF Feature, FeatureSet

Shaped(f, id, requires) == f \in FeatureSet(Names) /\ f.id = id /\ f.requires = requires
ListOfLists(requires) == requires \in Seq(Seq(Names))

LEMMA OtherIs ==
  ASSUME NEW id \in Names, NEW requires, ListOfLists(requires)
  PROVE  Shaped(Other(id, requires), id, requires)
<1>1. PICK f, none : none = <<>> /\ f = [id |-> id, requires |-> requires, strategies |-> none, guarded |-> FALSE]
  OBVIOUS
<1>2. none \in Seq(Names)
  BY <1>1, EmptySeq
<1>3. Shaped(f, id, requires)
  BY <1>1, <1>2 DEF FeatureSet, Shaped, ListOfLists
<1> QED
  BY <1>1, <1>3 DEF Other, Feature

LEMMA PackagedFamiliar ==
  /\ Familiar(Other("core", <<>>)) /\ Familiar(sessionsFeature) /\ Familiar(jwtFeature) /\ Familiar(Login)
  /\ Familiar(Other("own", <<<<"odd">>>>)) /\ Familiar(Other("odd", <<<<"own", "core">>>>))
<1>2. Familiar(Other("core", <<>>))
  <2>1. PICK f, none, id : none = <<>> /\ id = "core" /\ f = Other(id, none)
    OBVIOUS
  <2>2. f \in FeatureSet(Names) /\ f.id = id /\ f.requires = none
    <3>1. ListOfLists(none) /\ id \in Names
      BY <2>1, EmptySeq, NamesAre DEF ListOfLists
    <3>2. Shaped(f, id, none)
      BY <2>1, <3>1, OtherIs
    <3> QED
      BY <3>2 DEF Shaped
  <2>3. FlattenSeq(none) = none /\ ToSet(none) = {}
    BY <2>1 DEF FlattenSeq, ToSet
  <2>4. NamesOf(f) = {}
    BY <2>2, <2>3 DEF NamesOf
  <2> QED
    BY <2>1, <2>2, <2>4 DEF Familiar
<1>3. ASSUME NEW id \in {"sessions", "jwt"}, NEW strategy \in Names, NEW guarded \in BOOLEAN
      PROVE  Familiar(Feature(id, <<<<"core">>>>, <<strategy>>, guarded))
  <2>1. PICK f, one : one = <<strategy>> /\ f = Feature(id, <<<<"core">>>>, one, guarded)
    OBVIOUS
  <2>2. one \in Seq(Names) /\ id \in Names
    BY <2>1, ListOfOne, NamesAre
  <2>3. OnCore(f)
    BY <2>1, <2>2, OnCoreIs
  <2>4. f.id = id
    BY <2>1 DEF Feature
  <2> QED
    BY <2>1, <2>3, <2>4 DEF Familiar, OnCore
<1>4. Familiar(sessionsFeature) /\ Familiar(jwtFeature)
  <2>1. PICK a, b, s, j : a = "session" /\ b = "jwt" /\ s = "sessions" /\ j = "jwt"
    OBVIOUS
  <2>2. a \in Names /\ b \in Names /\ s \in {"sessions", "jwt"} /\ j \in {"sessions", "jwt"}
    BY <2>1, NamesAre
  <2>3. Familiar(Feature(s, <<<<"core">>>>, <<a>>, TRUE))
    BY <1>3, <2>2
  <2>4. Familiar(Feature(j, <<<<"core">>>>, <<b>>, FALSE))
    BY <1>3, <2>2
  <2> QED
    BY <2>1, <2>3, <2>4 DEF sessionsFeature, jwtFeature
<1>5. Familiar(Login)
  <2>1. PICK a, b : a = <<"core">> /\ b = <<"sessions", "jwt">>
    OBVIOUS
  <2>2. a \in Seq(Names) /\ b \in Seq(Names) /\ ToSet(a) = {"core"} /\ ToSet(b) = {"sessions", "jwt"}
    BY <2>1, ListsOfNames
  <2>3. PICK f, both, id : both = <<a, b>> /\ id = "login" /\ f = Other(id, both)
    OBVIOUS
  <2>4. both \in Seq(Seq(Names)) /\ ToSet(FlattenSeq(both)) \subseteq ToSet(a) \cup ToSet(b)
    BY <2>2, <2>3, FlattenedTwo
  <2>5. f \in FeatureSet(Names) /\ f.id = id /\ f.requires = both
    <3>1. ListOfLists(both) /\ id \in Names
      BY <2>3, <2>4, NamesAre DEF ListOfLists
    <3>2. Shaped(f, id, both)
      BY <2>3, <3>1, OtherIs
    <3> QED
      BY <3>2 DEF Shaped
  <2>6. NamesOf(f) \subseteq {"core", "sessions", "jwt"}
    BY <2>2, <2>4, <2>5 DEF NamesOf
  <2> QED
    BY <2>1, <2>3, <2>5, <2>6 DEF Familiar, Login
<1>6. ASSUME NEW id \in Names, NEW a \in Seq(Names)
      PROVE  Other(id, <<a>>) \in FeatureSet(Names) /\ Other(id, <<a>>).id = id /\ NamesOf(Other(id, <<a>>)) = ToSet(a)
  <2>1. PICK f, one : one = <<a>> /\ f = Other(id, one)
    OBVIOUS
  <2>2. one \in Seq(Seq(Names)) /\ FlattenSeq(one) = a
    BY <2>1, FlattenedOne
  <2>3. f \in FeatureSet(Names) /\ f.id = id /\ f.requires = one
    <3>1. ListOfLists(one)
      BY <2>2 DEF ListOfLists
    <3>2. Shaped(f, id, one)
      BY <2>1, <3>1, OtherIs
    <3> QED
      BY <3>2 DEF Shaped
  <2>4. NamesOf(f) = ToSet(a)
    BY <2>2, <2>3 DEF NamesOf
  <2> QED
    BY <2>1, <2>3, <2>4
<1>7. ASSUME NEW id \in Names, NEW a \in Seq(Names),
             \/ id = "own" /\ ToSet(a) = {"odd"}
             \/ id = "odd" /\ ToSet(a) = {"own", "core"}
      PROVE  Familiar(Other(id, <<a>>))
  BY <1>6, <1>7 DEF Familiar
<1>8. Familiar(Other("own", <<<<"odd">>>>))
  <2>1. PICK id, a : id = "own" /\ a = <<"odd">>
    OBVIOUS
  <2>2. Familiar(Other(id, <<a>>))
    <3>1. id \in Names /\ a \in Seq(Names) /\ ToSet(a) = IF id = "own" THEN {"odd"} ELSE {"own", "core"}
      BY <2>1, ListsOfNames, NamesAre
    <3> QED
      BY <1>7, <2>1, <3>1
  <2> QED
    BY <2>1, <2>2
<1>9. Familiar(Other("odd", <<<<"own", "core">>>>))
  <2>1. PICK id, a : id = "odd" /\ a = <<"own", "core">>
    OBVIOUS
  <2>2. Familiar(Other(id, <<a>>))
    <3>1. id \in Names /\ a \in Seq(Names) /\ ToSet(a) = IF id = "own" THEN {"odd"} ELSE {"own", "core"}
      BY <2>1, ListsOfNames, NamesAre
    <3> QED
      BY <1>7, <2>1, <3>1
  <2> QED
    BY <2>1, <2>2
<1> QED
  BY <1>2, <1>4, <1>5, <1>8, <1>9

\* Three steps of needs lead no further than two.
LEMMA TwoStepsDo ==
  ASSUME NEW f, Familiar(f), NEW g, Familiar(g), NEW h, Familiar(h), g.id \in NamesOf(f), h.id \in NamesOf(g), NEW need \in NamesOf(h)
  PROVE  need \in NamesOf(f)
BY DEF Familiar

LEMMA PlaceOf ==
  ASSUME NEW list, Once(list), NEW n \in DOMAIN list
  PROVE  (CHOOSE i \in DOMAIN list : list[i] = list[n]) = n
BY DEF Once

LEMMA PackagedIs == IsFiniteSet(Packaged) /\ \A f \in Packaged : Familiar(f)
<1>1. PICK a, b, c, d, e, f : /\ a = Other("core", <<>>) /\ b = sessionsFeature /\ c = jwtFeature /\ d = Login
                              /\ e = Other("own", <<<<"odd">>>>) /\ f = Other("odd", <<<<"own", "core">>>>)
  OBVIOUS
<1>2. Packaged = {a, b, c, d, e, f}
  BY <1>1 DEF Packaged, Other, Login
<1>3. \A x \in Packaged : Familiar(x)
  BY <1>1, <1>2, PackagedFamiliar
<1>4. IsFiniteSet({a, b, c, d, e, f})
  <2>1. IsFiniteSet({a})
    BY FS_Singleton
  <2>2. IsFiniteSet({a} \cup {b})
    BY <2>1, FS_AddElement
  <2>3. IsFiniteSet({a} \cup {b} \cup {c})
    BY <2>2, FS_AddElement
  <2>4. IsFiniteSet({a} \cup {b} \cup {c} \cup {d})
    BY <2>3, FS_AddElement
  <2>5. IsFiniteSet({a} \cup {b} \cup {c} \cup {d} \cup {e})
    BY <2>4, FS_AddElement
  <2>6. IsFiniteSet({a} \cup {b} \cup {c} \cup {d} \cup {e} \cup {f})
    BY <2>5, FS_AddElement
  <2>7. {a, b, c, d, e, f} = {a} \cup {b} \cup {c} \cup {d} \cup {e} \cup {f}
    OBVIOUS
  <2> QED
    BY <2>6, <2>7
<1> QED
  BY <1>2, <1>3, <1>4

\* What an app lists once is found again by its id.
LEMMA ListedNeeds ==
  ASSUME NEW X, NEW features \in Seq(FeatureSet(X)), Once(Given(features)), NEW f \in ToSet(features)
  PROVE  /\ f.id \in IdsOf(features) /\ NeedsOf(features)[f.id] = FlattenSeq(f.requires)
         /\ Needs(features, f) = NamesOf(f) \cap IdsOf(features)
<1>1. PICK n \in DOMAIN features : f = features[n]
  BY DEF ToSet
<1>2. f.id \in IdsOf(features)
  BY <1>1 DEF IdsOf
<1>3. PICK m \in DOMAIN features : Named(features, f.id) = features[m] /\ features[m].id = f.id
  BY <1>2, NamedIs
<1>4. m = n
  BY <1>1, <1>3 DEF Once, Given
<1>5. NeedsOf(features)[f.id] = FlattenSeq(f.requires)
  BY <1>1, <1>2, <1>3, <1>4 DEF NeedsOf
<1>6. {g.id : g \in ToSet(features)} = IdsOf(features)
  BY DEF ToSet, IdsOf
<1> QED
  BY <1>2, <1>5, <1>6 DEF Needs, NamesOf

LEMMA PositionIs ==
  ASSUME NEW list, Once(list), NEW n \in DOMAIN list
  PROVE  Position(list, list[n]) = n
BY PlaceOf DEF Position

LEMMA FeaturesDoOrder == FeaturesInOrder
<1> SUFFICES ASSUME NEW features \in SetToAllKPermutations(Packaged) PROVE BehindNeeds(features)
  BY DEF FeaturesInOrder
<1>1. features \in Seq(FeatureSet(Names)) /\ ToSet(features) \subseteq Packaged
  <2>1. Packaged \in SUBSET FeatureSet(Names)
    BY PackagedIs DEF Familiar
  <2> QED
    BY <2>1, PackagedIs, PermutationIs
<1>2. \A f \in ToSet(features) : Familiar(f)
  BY <1>1, PackagedIs
<1>3. PICK result, ids, given : /\ result = orderFeatures(features) /\ given = Given(features)
                                /\ ids = {f.id : f \in ToSet(features)}
  OBVIOUS
<1>4. ids = IdsOf(features) /\ \A id \in ids : \E f \in ToSet(features) : f.id = id
  BY <1>3 DEF ToSet, IdsOf
<1>5. given = [n \in DOMAIN features |-> features[n].id]
  BY <1>3 DEF Given
<1>6. PICK z \in Nat : DOMAIN features = 1 .. z
  BY <1>1, LenProperties
<1>7. ASSUME result.ok
      PROVE  /\ ToSet(result.ordered) = ids /\ Len(result.ordered) = Len(features)
             /\ \A f \in ToSet(features), need \in ids :
                  need \in Needs(features, f) => Position(result.ordered, need) < Position(result.ordered, f.id)
             /\ \A a, b \in ids : Position(given, a) < Position(given, b) /\ Position(result.ordered, b) < Position(result.ordered, a) =>
                  \E f, g \in ToSet(features) :
                    Position(given, f.id) <= Position(given, a) /\ (g = f \/ g.id \in Needs(features, f)) /\ b \in Needs(features, g)
             /\ ~ {"own", "odd"} \subseteq ids
  <2>1. PICK ordered, N : ordered = result.ordered /\ N = NeedsOf(features)
    OBVIOUS
  <2>2. /\ ordered \in Seq(ids) /\ Len(ordered) = Len(features) /\ ToSet(ordered) = ids
        /\ Once(given) /\ Once(ordered) /\ NeedsFirst(N, ordered)
        /\ \A all : \A k \in DOMAIN features : Whole(N, all) /\ Wants(N, given, k) \subseteq all =>
             \A m, n \in DOMAIN ordered : ordered[n] = given[k] /\ m <= n => ordered[m] \in all
    BY <1>1, <1>3, <1>4, <1>7, <2>1, FeaturesPlaced, ZenonT(40)
  <2>3. PICK y \in Nat : DOMAIN ordered = 1 .. y
    BY <2>2, LenProperties
  <2>4. DOMAIN N = ids
    BY <1>4, <2>1 DEF NeedsOf
  <2>5. \A f \in ToSet(features) : f.id \in ids /\ N[f.id] = FlattenSeq(f.requires) /\ Needs(features, f) = NamesOf(f) \cap ids
    BY <1>1, <1>3, <1>4, <2>1, <2>2, ListedNeeds
  <2>6. \A n \in DOMAIN ordered : Position(ordered, ordered[n]) = n
    BY <2>2, PositionIs
  <2>7. \A n \in DOMAIN features : Position(given, features[n].id) = n
    BY <1>5, <2>2, PositionIs
  <2>8. ASSUME NEW f \in ToSet(features), NEW need \in ids, need \in Needs(features, f)
        PROVE  Position(ordered, need) \in Nat /\ Position(ordered, f.id) \in Nat /\ Position(ordered, need) < Position(ordered, f.id)
    <3>1. PICK n \in DOMAIN ordered : ordered[n] = f.id
      BY <2>2, <2>5 DEF ToSet
    <3>2. need \in ToSet(N[ordered[n]]) /\ need \in DOMAIN N
      BY <2>4, <2>5, <2>8, <3>1 DEF NamesOf
    <3>3. PICK m \in DOMAIN ordered : m < n /\ ordered[m] = need
      BY <2>2, <3>2 DEF NeedsFirst
    <3> QED
      BY <2>3, <2>6, <3>1, <3>3
  <2>9. ASSUME NEW a \in ids, NEW b \in ids, Position(given, a) < Position(given, b), Position(ordered, b) < Position(ordered, a)
        PROVE  \E f, g \in ToSet(features) :
                 Position(given, f.id) <= Position(given, a) /\ (g = f \/ g.id \in Needs(features, f)) /\ b \in Needs(features, g)
    <3>1. PICK k \in DOMAIN features : features[k].id = a
      BY <1>4 DEF IdsOf
    <3>2. PICK l \in DOMAIN features : features[l].id = b
      BY <1>4 DEF IdsOf
    <3>3. Position(given, a) = k /\ Position(given, b) = l /\ k < l
      BY <2>7, <2>9, <3>1, <3>2
    <3>4. PICK n \in DOMAIN ordered : ordered[n] = a
      BY <2>2 DEF ToSet
    <3>5. PICK m \in DOMAIN ordered : ordered[m] = b
      BY <2>2 DEF ToSet
    <3>6. m < n
      BY <2>6, <2>9, <3>4, <3>5
    <3>7. PICK Reach : Reach = [i \in 1 .. z |-> {id \in ids : \/ id = features[i].id \/ id \in Needs(features, features[i])
                                                 \/ \E g \in ToSet(features) : g.id \in Needs(features, features[i]) /\ id \in Needs(features, g)}]
      OBVIOUS
    <3>8. PICK all : all = {id \in ids : \E i \in 1 .. k : id \in Reach[i]}
      OBVIOUS
    <3>9. 1 .. k \subseteq 1 .. z /\ k \in Nat /\ l \in Nat
      BY <1>6
    <3>10. \A i \in 1 .. z : features[i] \in ToSet(features) /\ Familiar(features[i])
      BY <1>2, <1>6 DEF ToSet
    <3>11. Whole(N, all)
      <4> SUFFICES ASSUME NEW id \in all, NEW need \in ids, need \in ToSet(N[id]) PROVE need \in all
        BY <2>4 DEF Whole
      <4>1. PICK i \in 1 .. k : id \in Reach[i] /\ i \in 1 .. z
        BY <3>8, <3>9
      <4>2. PICK f : f = features[i] /\ f \in ToSet(features) /\ Familiar(f)
        BY <3>10, <4>1
      <4>3. PICK h \in ToSet(features) : h.id = id
        BY <1>4, <3>8
      <4>4. Familiar(h) /\ need \in Needs(features, h) /\ need \in NamesOf(h)
        BY <1>2, <2>5, <4>3 DEF NamesOf
      <4>5. \/ id = f.id \/ id \in Needs(features, f)
            \/ \E g \in ToSet(features) : g.id \in Needs(features, f) /\ id \in Needs(features, g)
        BY <3>7, <4>1, <4>2
      <4>6. need \in Needs(features, f) \/ \E g \in ToSet(features) : g.id \in Needs(features, f) /\ need \in Needs(features, g)
        <5>1. CASE id = f.id
          BY <2>5, <4>2, <5>1 DEF NamesOf
        <5>2. CASE id \in Needs(features, f)
          BY <4>3, <4>4, <5>2
        <5>3. CASE \E g \in ToSet(features) : g.id \in Needs(features, f) /\ id \in Needs(features, g)
          <6>1. PICK g \in ToSet(features) : g.id \in Needs(features, f) /\ id \in Needs(features, g)
            BY <5>3
          <6>2. Familiar(g) /\ g.id \in NamesOf(f) /\ h.id \in NamesOf(g)
            BY <1>2, <2>5, <4>2, <4>3, <6>1
          <6>3. need \in NamesOf(f)
            BY <4>2, <4>4, <6>2, TwoStepsDo
          <6> QED
            BY <2>5, <4>2, <6>3
        <5> QED
          BY <4>5, <5>1, <5>2, <5>3
      <4>7. need \in Reach[i]
        BY <3>7, <4>1, <4>2, <4>6
      <4> QED
        BY <3>8, <4>1, <4>7
    <3>12. Wants(N, given, k) \subseteq all
      <4> SUFFICES ASSUME NEW i \in 1 .. k, given[i] \in ids PROVE given[i] \in all
        BY <2>4 DEF Wants
      <4>1. i \in 1 .. z /\ given[i] = features[i].id
        BY <1>5, <1>6, <3>9
      <4> QED
        BY <3>7, <3>8, <4>1
    <3>13. b \in all
      <4>1. given[k] = a /\ m <= n
        BY <1>5, <2>3, <3>1, <3>6
      <4> QED
        BY <2>2, <3>4, <3>5, <3>11, <3>12, <4>1
    <3>14. PICK i \in 1 .. k : i \in 1 .. z /\ b \in Reach[i]
      BY <3>8, <3>9, <3>13
    <3>15. PICK f : f = features[i] /\ f \in ToSet(features)
      BY <3>10, <3>14
    <3>16. Position(given, f.id) = i /\ i <= k
      BY <1>6, <2>7, <3>9, <3>14, <3>15
    <3>17. b # f.id
      <4>1. SUFFICES ASSUME b = f.id PROVE FALSE
        OBVIOUS
      <4>2. l = i
        BY <3>3, <3>16, <4>1
      <4> QED
        BY <3>3, <3>9, <3>16, <4>2
    <3>18. b \in Needs(features, f) \/ \E g \in ToSet(features) : g.id \in Needs(features, f) /\ b \in Needs(features, g)
      BY <3>7, <3>14, <3>15, <3>17
    <3> QED
      BY <3>3, <3>15, <3>16, <3>18
  <2>10. ~ {"own", "odd"} \subseteq ids
    <3>1. SUFFICES ASSUME "own" \in ids, "odd" \in ids PROVE FALSE
      OBVIOUS
    <3>2. PICK f \in ToSet(features) : f.id = "own"
      BY <1>4, <3>1
    <3>3. PICK g \in ToSet(features) : g.id = "odd"
      BY <1>4, <3>1
    <3>4. "odd" \in NamesOf(f) /\ "own" \in NamesOf(g)
      BY <1>2, <3>2, <3>3 DEF Familiar
    <3>5. g.id \in Needs(features, f) /\ f.id \in Needs(features, g)
      BY <2>5, <3>1, <3>2, <3>3, <3>4
    <3>6. /\ Position(ordered, f.id) \in Nat /\ Position(ordered, g.id) \in Nat
          /\ Position(ordered, f.id) < Position(ordered, g.id) /\ Position(ordered, g.id) < Position(ordered, f.id)
      BY <2>5, <2>8, <3>5
    <3> QED
      BY <3>6
  <2> QED
    BY <2>1, <2>2, <2>8, <2>9, <2>10
<1> QED
  BY <1>3, <1>5, <1>7 DEF BehindNeeds

\* Whoever a session has let in, the app tries sessions.
LEMMA SessionFound ==
  ASSUME NEW strategies, DOMAIN strategies \subseteq Nat, NEW carried,
         \A n \in DOMAIN strategies : /\ strategies[n] \in {"session", "jwt", "apiKey"}
                                      /\ carried[Strategies[strategies[n]].credential] \in {"none", "valid", "bad"},
         authenticate(strategies, carried).via = "session"
  PROVE  \E n \in DOMAIN strategies : strategies[n] = "session"
<1> DEFINE tried == [n \in DOMAIN strategies |-> Tries(strategies[n], carried)]
           decisive == {n \in DOMAIN strategies : tried[n] # Anonymous}
<1>1. authenticate(strategies, carried) = IF decisive = {} THEN Anonymous ELSE tried[Min(decisive)]
  BY DEF authenticate
<1>2. decisive # {}
  <2>1. Anonymous.via # "session"
    BY DEF Anonymous, Principal
  <2> QED
    BY <1>1, <2>1
<1>3. PICK n : n = Min(decisive) /\ n \in decisive
  BY <1>2, LeastOf
<1>4. Tries(strategies[n], carried).via = "session"
  BY <1>1, <1>2, <1>3
<1>5. PICK name, value : name = strategies[n] /\ value = carried[Strategies[name].credential]
  OBVIOUS
<1>6. name \in {"session", "jwt", "apiKey"} /\ value \in {"none", "valid", "bad"}
  BY <1>3, <1>5
<1>7. Tries(name, carried) = IF value = "none" THEN Anonymous ELSE IF value = "valid" THEN Principal(name) ELSE Strategies[name].bad
  BY <1>5, <1>6 DEF Tries
<1>8. Anonymous.via = "nobody" /\ Strategies[name].bad.via \in {"nobody", "401"} /\ Principal(name).via = name
  BY <1>6 DEF Strategies, Refused, Anonymous, Principal
<1>9. name = "session"
  BY <1>4, <1>5, <1>7, <1>8
<1> QED
  BY <1>3, <1>5, <1>9

LEMMA OthersRefused == \A h \in Forged : ~ csrf("POST", "session", h)
<1> SUFFICES ASSUME NEW h \in Forged PROVE ~ csrf("POST", "session", h)
  OBVIOUS
<1>1. \/ h.site = "cross-site" /\ h.origin = "other"
      \/ h.site = "none" /\ h.origin \in {"none", "other"} /\ h.referer = "other"
      \/ h.site = "none" /\ h.origin = "none" /\ h.referer = "none" /\ h.cookie = TRUE
  BY DEF Forged
<1> QED
  BY <1>1 DEF csrf

\* The features that authenticate: what each of them tries, and that sessions are guarded.
Heard == {"session", "jwt", "apiKey"}
Tried(f) == /\ f \in FeatureSet(Names) /\ f.strategies \in Seq(Heard)
            /\ "session" \in ToSet(f.strategies) => f.guarded

LEMMA HeardAre == Heard \subseteq Names /\ "session" \in Heard /\ "jwt" \in Heard /\ "apiKey" \in Heard
BY DEF Heard, Names

LEMMA TriedIs ==
  ASSUME NEW id \in Names, NEW requires, ListOfLists(requires), NEW strategies \in Seq(Heard), NEW guarded \in BOOLEAN,
         "session" \in ToSet(strategies) => guarded
  PROVE  Tried(Feature(id, requires, strategies, guarded))
<1>1. PICK f : f = [id |-> id, requires |-> requires, strategies |-> strategies, guarded |-> guarded]
  OBVIOUS
<1>2. strategies \in Seq(Names)
  BY HeardAre
<1>3. f \in FeatureSet(Names) /\ f.strategies = strategies /\ f.guarded = guarded
  BY <1>1, <1>2 DEF FeatureSet, ListOfLists
<1> QED
  BY <1>1, <1>3 DEF Tried, Feature

LEMMA AuthenticatingIs == IsFiniteSet(Authenticating) /\ \A f \in Authenticating : Tried(f)
<1>1. PICK a, b, c, d : a = Feature("core", <<>>, <<>>, FALSE) /\ b = sessionsFeature /\ c = jwtFeature /\ d = apiKeysFeature
  OBVIOUS
<1>2. Authenticating = {a, b, c, d}
  BY <1>1 DEF Authenticating
<1>3. ListOfLists(<<<<"core">>>>)
  <2>1. PICK core, one : core = <<"core">> /\ one = <<core>>
    OBVIOUS
  <2>2. core \in Seq(Names)
    BY <2>1, ListsOfNames
  <2>3. one \in Seq(Seq(Names))
    BY <2>1, <2>2, FlattenedOne
  <2> QED
    BY <2>1, <2>3 DEF ListOfLists
<1>4. PICK on : on = <<<<"core">>>> /\ ListOfLists(on)
  BY <1>3
<1>5. ASSUME NEW id \in Names, NEW name \in Heard, NEW guarded \in BOOLEAN, name = "session" => guarded
      PROVE  Tried(Feature(id, on, <<name>>, guarded))
  <2>1. PICK strategies : strategies = <<name>> /\ strategies \in Seq(Heard) /\ ToSet(strategies) = {name}
    BY ListOfOne
  <2> QED
    BY <1>4, <1>5, <2>1, TriedIs
<1>6. Tried(a)
  <2>1. PICK none, core : none = <<>> /\ core = "core" /\ a = Feature(core, none, none, FALSE)
    BY <1>1
  <2>2. none \in Seq(Heard) /\ ListOfLists(none) /\ ToSet(none) = {} /\ core \in Names
    <3>1. ToSet(none) = {}
      BY <2>1 DEF ToSet
    <3> QED
      BY <2>1, <3>1, EmptySeq, NamesAre DEF ListOfLists
  <2> QED
    BY <2>1, <2>2, TriedIs
<1>7. Tried(b) /\ Tried(c) /\ Tried(d)
  <2>1. PICK s, j, k, session, jwt, apiKey : /\ s = "sessions" /\ j = "jwt" /\ k = "apiKeys"
                                            /\ session = "session" /\ jwt = "jwt" /\ apiKey = "apiKey"
    OBVIOUS
  <2>2. s \in Names /\ j \in Names /\ k \in Names /\ session \in Heard /\ jwt \in Heard /\ apiKey \in Heard
    BY <2>1, NamesAre, HeardAre
  <2>3. jwt # "session" /\ apiKey # "session"
    BY <2>1
  <2>4. Tried(Feature(s, on, <<session>>, TRUE)) /\ Tried(Feature(j, on, <<jwt>>, FALSE)) /\ Tried(Feature(k, on, <<apiKey>>, FALSE))
    BY <1>5, <2>2, <2>3
  <2> QED
    BY <1>1, <1>4, <2>1, <2>4 DEF sessionsFeature, jwtFeature, apiKeysFeature
<1>8. IsFiniteSet({a, b, c, d})
  <2>1. IsFiniteSet({a})
    BY FS_Singleton
  <2>2. IsFiniteSet({a} \cup {b})
    BY <2>1, FS_AddElement
  <2>3. IsFiniteSet({a} \cup {b} \cup {c})
    BY <2>2, FS_AddElement
  <2>4. IsFiniteSet({a} \cup {b} \cup {c} \cup {d})
    BY <2>3, FS_AddElement
  <2>5. {a, b, c, d} = {a} \cup {b} \cup {c} \cup {d}
    OBVIOUS
  <2> QED
    BY <2>4, <2>5
<1> QED
  BY <1>2, <1>6, <1>7, <1>8

\* What an app of these features tries, and that it guards the session it tries.
LEMMA InstalledTries ==
  ASSUME NEW features \in Seq(FeatureSet(Names)), \A f \in ToSet(features) : Tried(f), orderFeatures(features).ok
  PROVE  /\ install(features).strategies \in Seq(Heard)
         /\ "session" \in ToSet(install(features).strategies) => install(features).guarded
<1>1. PICK order, result : order = orderFeatures(features).ordered /\ result = install(features)
  OBVIOUS
<1>2. order \in Seq(IdsOf(features))
  BY <1>1, FeaturesPlaced
<1>3. PICK z : z = Len(order) /\ z \in Nat /\ DOMAIN order = 1 .. z
  BY <1>2, LenProperties
<1>4. PICK ordered : ordered = [n \in DOMAIN order |-> Named(features, order[n])]
  OBVIOUS
<1>5. PICK lists : lists = [n \in DOMAIN ordered |-> ordered[n].strategies]
  OBVIOUS
<1>6. result.strategies = FlattenSeq(lists) /\ (result.guarded <=> \E n \in DOMAIN ordered : ordered[n].guarded)
  BY <1>1, <1>4, <1>5 DEF install
<1>7. DOMAIN ordered = 1 .. z /\ \A n \in 1 .. z : Tried(ordered[n])
  <2>1. ASSUME NEW n \in 1 .. z
        PROVE  Tried(ordered[n])
    <3>1. order[n] \in IdsOf(features)
      BY <1>2, <1>3, ElementOfSeq
    <3>2. PICK m \in DOMAIN features : Named(features, order[n]) = features[m]
      BY <3>1, NamedIs
    <3> QED
      BY <1>3, <1>4, <3>2 DEF ToSet
  <2> QED
    BY <1>3, <1>4, <2>1
<1>8. lists = [n \in 1 .. z |-> ordered[n].strategies] /\ \A n \in 1 .. z : lists[n] \in Seq(Heard)
  BY <1>5, <1>7 DEF Tried
<1>9. lists \in Seq(Seq(Heard)) /\ DOMAIN lists = 1 .. z
  <2> DEFINE Y == Seq(Heard)
  <2> HIDE DEF Y
  <2>1. \A n \in 1 .. z : lists[n] \in Y
    BY <1>8 DEF Y
  <2>2. lists \in [1 .. z -> Y]
    BY <1>8, <2>1
  <2>3. lists \in Seq(Y)
    BY <1>3, <2>2
  <2> QED
    BY <1>8, <2>3 DEF Y
<1>10. FlattenSeq(lists) \in Seq(Heard) /\ \A x \in ToSet(FlattenSeq(lists)) : \E n \in 1 .. z : x \in ToSet(lists[n])
  BY <1>9, FlattenRange
<1>11. "session" \in ToSet(FlattenSeq(lists)) => \E n \in DOMAIN ordered : ordered[n].guarded
  <2>1. SUFFICES ASSUME "session" \in ToSet(FlattenSeq(lists)) PROVE \E n \in DOMAIN ordered : ordered[n].guarded
    OBVIOUS
  <2>2. PICK n \in 1 .. z : "session" \in ToSet(lists[n])
    BY <1>10, <2>1
  <2>3. "session" \in ToSet(ordered[n].strategies)
    BY <1>8, <2>2
  <2>4. ordered[n].guarded
    BY <1>7, <2>3 DEF Tried
  <2> QED
    BY <1>7, <2>4
<1> QED
  BY <1>1, <1>6, <1>10, <1>11

LEMMA NobodySlips == NobodySlipsIn
<1> SUFFICES ASSUME NEW features \in SetToAllKPermutations(Authenticating), NEW carried \in Carried, orderFeatures(features).ok
             PROVE  Heeds(install(features), carried)
  BY DEF NobodySlipsIn
<1>1. features \in Seq(FeatureSet(Names)) /\ ToSet(features) \subseteq Authenticating
  <2>1. Authenticating \in SUBSET FeatureSet(Names)
    BY AuthenticatingIs DEF Tried
  <2> QED
    BY <2>1, AuthenticatingIs, PermutationIs
<1>2. \A c \in {"cookie", "bearer", "apiKey"} : carried[c] \in {"none", "valid", "bad"}
  BY DEF Carried
<1>3. PICK installed : installed = install(features)
  OBVIOUS
<1>4. PICK strategies, found : strategies = installed.strategies /\ found = authenticate(strategies, carried)
  OBVIOUS
<1>5. strategies \in Seq(Heard) /\ ("session" \in ToSet(strategies) => installed.guarded)
  <2>1. \A f \in ToSet(features) : Tried(f)
    BY <1>1, AuthenticatingIs
  <2> QED
    BY <1>1, <1>3, <1>4, <2>1, InstalledTries
<1>6. PICK z : z \in Nat /\ DOMAIN strategies = 1 .. z
  BY <1>5, LenProperties
<1>7. \A n \in DOMAIN strategies : strategies[n] \in {"session", "jwt", "apiKey"}
  BY <1>5, <1>6, ElementOfSeq, LenProperties DEF Heard
<1>8. DOMAIN strategies \subseteq Nat
  BY <1>6
<1>9. \A n \in DOMAIN strategies : carried[Strategies[strategies[n]].credential] \in {"none", "valid", "bad"}
  <2>1. ASSUME NEW name \in {"session", "jwt", "apiKey"}
        PROVE  carried[Strategies[name].credential] \in {"none", "valid", "bad"}
    <3>1. Strategies[name].credential \in {"cookie", "bearer", "apiKey"}
      BY <2>1 DEF Strategies
    <3> QED
      BY <1>2, <3>1
  <2> QED
    BY <1>7, <2>1
<1>10. found = Anonymous => \A n \in DOMAIN strategies :
          carried[Strategies[strategies[n]].credential] \in IF strategies[n] = "session" THEN {"none", "bad"} ELSE {"none"}
  BY <1>4, <1>7, <1>8, <1>9, NobodyUnheard
<1>11. ASSUME found.via = "session"
       PROVE  installed.guarded /\ \A h \in Forged : ~ csrf("POST", found.via, h)
  <2>1. \E n \in DOMAIN strategies : strategies[n] = "session"
    BY <1>4, <1>7, <1>8, <1>9, <1>11, SessionFound
  <2>2. installed.guarded
    BY <1>5, <2>1 DEF ToSet
  <2> QED
    BY <1>11, <2>2, OthersRefused
<1> QED
  BY <1>3, <1>4, <1>10, <1>11 DEF Heeds

\* Keys rotate, revoked keys stay revoked, tokens expire, the key fits the token, nobody slips in, in
\* whatever order the features are listed, nobody is granted or issued more, and features come behind
\* what they require: in every state, for any visitors, keys, intervals and bounds.
THEOREM AuthCorrect == AuthSpec => []AuthHolds
<1>1. AuthInv => KeysRotate /\ RevokedStays
  <2>1. ASSUME AuthInv, NEW v \in Visitors, visitor[v].pc = "200", visitor[v].apiKey # Junk
        PROVE  ~ visitor[v].revoked
    BY <2>1, VisitOf DEF ApiKeyOK
  <2>2. ASSUME AuthInv, NEW v \in Visitors, visitor[v].apiKey = Junk
        PROVE  /\ visitor[v].pc = "200" => visitor[v].kid \in ever
               /\ visitor[v].pc = "401" /\ visitor[v].refreshes => ~ visitor[v].current \/ ~ visitor[v].alone
               /\ visitor[v].pc = "503" => visitor[v].refreshes
    BY <2>2, VisitOf DEF BearerOK
  <2> QED
    BY <2>1, <2>2 DEF AuthInv, AuthTypeOK, KeysRotate, RevokedStays
<1>2. AuthInv => AuthHolds
  BY <1>1, KeysFit, TokensDoExpire, NobodySlips, NobodyGrants, FeaturesDoOrder DEF AuthHolds
<1> QED
  BY <1>2, AuthInvariant, PTL
=============================================================================
