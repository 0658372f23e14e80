------------------------------ MODULE EventBus ------------------------------
(***************************************************************************)
(* EventBus (packages/events/src/events.ts): listeners that come and go,   *)
(* in code between two tasks or in the synchronous part of a listener;     *)
(* emit() to durable listeners (jobs, which a queue may defer to the       *)
(* commit) and then, after the commit, to the local ones; broadcast() over *)
(* a transport to every listen() call.  A program awaits its emit() before *)
(* its transaction ends.                                                   *)
(* The buses share one thread: a delivery's loop is interrupted by nothing *)
(* but the listeners it starts.                                            *)
(***************************************************************************)
EXTENDS Naturals, Sequences, FiniteSets, SequencesExt

CONSTANTS
  Buses,
  LocalOn,      \* [local registrations -> the bus each is made on]
  DurableOn,    \* [durable registrations, all of one name -> the bus each is made on]
  ListensOn,    \* [listen() calls under way at once -> the bus each is made on]
  Sends,        \* the events emitted or broadcast
  NoListener    \* a deleted entry of a Map

VARIABLES
  setup,        \* what the program configured: whether the bus has `db`, and its kind of queue
  local,        \* [Buses -> Registered.local, the array]
  durable,      \* [Buses -> Registered.durable, a Map: entries in insertion order, deleted ones as NoListener]
  offs,         \* [registrations made -> times its unsubscribe function was called]
  sent,         \* [Sends -> how far each is]
  delivery,     \* the deliver() under way, if any
  listening,    \* the transport's listeners: listen() calls
  inbox,        \* messages published and not yet received: <<listen() call, send>>
  ran,          \* history: [Ears \X Sends -> the listeners started, in order]
  deliveries    \* history: the deliver() calls, as a sequence of pairs <<ear, send>>

busVars == <<setup, local, durable, offs, sent, delivery, listening, inbox, ran, deliveries>>

\* A registration is local or durable, and none is a deleted entry.
ASSUME RegistrationsAssumption ==
  /\ \A r \in DOMAIN LocalOn : LocalOn[r] \in Buses /\ r \notin DOMAIN DurableOn
  /\ \A r \in DOMAIN DurableOn : DurableOn[r] \in Buses
  /\ NoListener \notin DOMAIN DurableOn
  /\ \A c \in DOMAIN ListensOn : ListensOn[c] \in Buses /\ c \notin Buses

\* The unsubscribe functions a program calls, at most twice.
MaxOffs == 2

\* An adapter that enqueues in the caller's transaction, one that does not with a queue that
\* defers it (`db`), and one without.
Queues == {"transactional", "deferring", "at once"}

\* Where an event reaches a bus from: the bus itself, or one of its listen() calls.
Ears == Buses \cup DOMAIN ListensOn
BusOf(ear) == IF ear \in Buses THEN ear ELSE ListensOn[ear]

\* `tx` is the transaction around an emit(), `deferred` the dispatches that wait for its commit,
\* `lost` those whose callback threw.
NotSent == [pc |-> "new", bus |-> NoListener, at |-> 1, had |-> {}, jobs |-> {},
            tx |-> "none", deferred |-> <<>>, lost |-> {}]
LiveDurable(b) == ToSet(durable[b]) \ {NoListener}
Made == DOMAIN offs
AtRest == delivery = <<>>

\* The synchronous part of a listener belongs to the loop that started it.
InCode == \A now \in ToSet(delivery) : now.at > 1

BusInit ==
  /\ setup \in [aware : BOOLEAN, queue : Queues]
  /\ local = [b \in Buses |-> <<>>] /\ durable = [b \in Buses |-> <<>>]
  /\ offs = [r \in {} |-> 0]
  /\ sent = [s \in Sends |-> NotSent]
  /\ delivery = <<>> /\ listening = {} /\ inbox = {}
  /\ ran = [p \in Ears \X Sends |-> <<>>] /\ deliveries = <<>>

-----------------------------------------------------------------------------
\* on(), and the functions it returns.

Registers(r) == InCode /\ r \notin Made /\ offs' = [x \in Made \cup {r} |-> IF x = r THEN 0 ELSE offs[x]]

onLocal(r) ==
  /\ Registers(r)
  /\ local' = [local EXCEPT ![LocalOn[r]] = Append(@, r)]
  /\ UNCHANGED <<setup, durable, sent, delivery, listening, inbox, ran, deliveries>>

\* A name that is taken is refused.
onDurable(r) ==
  /\ Registers(r) /\ LiveDurable(DurableOn[r]) = {}
  /\ durable' = [durable EXCEPT ![DurableOn[r]] = Append(@, r)]
  /\ UNCHANGED <<setup, local, sent, delivery, listening, inbox, ran, deliveries>>

CallsOff(r) == InCode /\ r \in Made /\ offs[r] < MaxOffs /\ offs' = [offs EXCEPT ![r] = @ + 1]

\* splice(indexOf(listener), 1): of an index -1, the last one.
Spliced(list, r) == IF Contains(list, r) THEN RemoveFirst(list, r) ELSE Front(list)

offLocal(r) ==
  LET b == LocalOn[r]
      at == IF Contains(local[b], r) THEN SelectInSeq(local[b], LAMBDA x : x = r) ELSE Len(local[b])
  IN /\ CallsOff(r)
     /\ local' = [local EXCEPT ![b] = IF @ = <<>> THEN @ ELSE Spliced(@, r)]
     /\ delivery' = [n \in DOMAIN delivery |->
                       IF delivery[n].bus = b /\ at < delivery[n].at THEN [delivery[n] EXCEPT !.shifted = TRUE] ELSE delivery[n]]
     /\ UNCHANGED <<setup, durable, sent, listening, inbox, ran, deliveries>>

\* delete(options.name): the entry of that name, whoever made it.
offDurable(r) ==
  /\ CallsOff(r)
  /\ durable' = [durable EXCEPT ![DurableOn[r]] = [n \in DOMAIN @ |-> NoListener]]
  /\ UNCHANGED <<setup, local, sent, delivery, listening, inbox, ran, deliveries>>

-----------------------------------------------------------------------------
\* emit() and broadcast(); a payload that is not valid is refused first.

To(s, pc) == sent' = [sent EXCEPT ![s].pc = pc]

Sending(s, b, pc, tx) ==
  /\ AtRest /\ sent[s].pc = "new"
  /\ sent' = [sent EXCEPT ![s] = [NotSent EXCEPT !.pc = pc, !.bus = b, !.had = LiveDurable(b), !.tx = tx]]

emit(s, b) ==
  /\ Sending(s, b, "refused", "none") \/ \E tx \in {"none", "open"} : Sending(s, b, "dispatching", tx)
  /\ UNCHANGED <<setup, local, durable, offs, delivery, listening, inbox, ran, deliveries>>

Remaining(s) == {n \in sent[s].at .. Len(durable[sent[s].bus]) : durable[sent[s].bus][n] # NoListener}

\* A dispatch in a transaction that the adapter does not share waits for the commit.
Defers(s) == setup.queue = "deferring" /\ sent[s].tx = "open"

\* The loop over the Map, which sees what is added and deleted while a dispatch is
\* awaited; a dispatch that rejects rejects the emit.
Dispatch(s) ==
  /\ AtRest /\ sent[s].pc = "dispatching" /\ Remaining(s) # {}
  /\ LET n == CHOOSE n \in Remaining(s) : \A m \in Remaining(s) : n <= m
         r == durable[sent[s].bus][n]
     IN \/ Defers(s) /\ sent' = [sent EXCEPT ![s].at = n + 1, ![s].deferred = Append(@, r)]
        \/ ~ Defers(s) /\ sent' = [sent EXCEPT ![s].at = n + 1, ![s].jobs = @ \cup {r}]
        \/ To(s, "failed")
  /\ UNCHANGED <<setup, local, durable, offs, delivery, listening, inbox, ran, deliveries>>

\* deliver(): the loop begins.
Deliver(ear, s) ==
  /\ delivery' = <<[bus |-> BusOf(ear), ear |-> ear, send |-> s, at |-> 1,
                    had |-> ToSet(local[BusOf(ear)]), shifted |-> FALSE]>>
  /\ deliveries' = Append(deliveries, <<ear, s>>)
  /\ UNCHANGED <<setup, local, durable, offs, listening, ran>>

\* Every durable listener was dispatched to: afterCommit() waits for the transaction, if there is one.
Dispatched(s) ==
  /\ AtRest /\ sent[s].pc = "dispatching" /\ Remaining(s) = {} /\ UNCHANGED inbox
  /\ IF setup.aware /\ sent[s].tx = "open"
     THEN To(s, "waiting") /\ UNCHANGED <<setup, local, durable, offs, delivery, listening, ran, deliveries>>
     ELSE To(s, "delivered") /\ Deliver(sent[s].bus, s)

\* The transaction ends once its emit() has.
Ends(s) == AtRest /\ sent[s].tx = "open" /\ sent[s].pc \in {"failed", "waiting", "delivered"}

Committed(s) ==
  /\ Ends(s) /\ sent' = [sent EXCEPT ![s].tx = "committed"]
  /\ UNCHANGED <<setup, local, durable, offs, delivery, listening, inbox, ran, deliveries>>

\* The callbacks of the commit, one after the other: a dispatch that waited, whose error is
\* reported to onAfterCommitError and to nobody else.
StoreDeferred(s) ==
  /\ AtRest /\ sent[s].tx = "committed" /\ sent[s].deferred # <<>>
  /\ LET r == Head(sent[s].deferred)
         rest == [sent[s] EXCEPT !.deferred = Tail(@)]
     IN \/ sent' = [sent EXCEPT ![s] = [rest EXCEPT !.jobs = @ \cup {r}]]
        \/ sent' = [sent EXCEPT ![s] = [rest EXCEPT !.lost = @ \cup {r}]]
  /\ UNCHANGED <<setup, local, durable, offs, delivery, listening, inbox, ran, deliveries>>

\* Mutant: the callbacks are all started at once.
DeliverAtOnce(s) ==
  /\ AtRest /\ sent[s].pc = "waiting" /\ sent[s].tx = "committed" /\ UNCHANGED inbox
  /\ To(s, "delivered") /\ Deliver(sent[s].bus, s)

\* The callback behind those.
DeliverLater(s) ==
  /\ AtRest /\ sent[s].pc = "waiting" /\ sent[s].tx = "committed" /\ sent[s].deferred = <<>>
  /\ UNCHANGED inbox /\ To(s, "delivered") /\ Deliver(sent[s].bus, s)

\* The callbacks are dropped, and the jobs that were rows of the transaction are undone.
RolledBack(s) ==
  /\ Ends(s)
  /\ sent' = [sent EXCEPT ![s].tx = "rolled back", ![s].deferred = <<>>,
                          ![s].pc = IF @ = "waiting" THEN "dropped" ELSE @,
                          ![s].jobs = IF setup.queue = "transactional" THEN {} ELSE @]
  /\ UNCHANGED <<setup, local, durable, offs, delivery, listening, inbox, ran, deliveries>>

\* publish(): a message to each that listens now.
broadcast(s, b) ==
  /\ \/ Sending(s, b, "published", "none") /\ inbox' = inbox \cup (listening \X {s})
     \/ Sending(s, b, "refused", "none") /\ UNCHANGED inbox
  /\ UNCHANGED <<setup, local, durable, offs, delivery, listening, ran, deliveries>>

\* Without a transport only the bus itself hears it.
BroadcastAtHome(s, b) == listening = {} /\ Sending(s, b, "home", "none") /\ Deliver(b, s) /\ UNCHANGED inbox

\* A bus may listen more than once, and hears a broadcast with each.
listen(c) ==
  /\ AtRest /\ c \notin listening /\ listening' = listening \cup {c}
  /\ UNCHANGED <<setup, local, durable, offs, sent, delivery, inbox, ran, deliveries>>

StopListening(c) ==
  /\ AtRest /\ c \in listening /\ listening' = listening \ {c}
  /\ UNCHANGED <<setup, local, durable, offs, sent, delivery, inbox, ran, deliveries>>

\* A message that cannot be read, or whose payload this instance finds invalid, is dropped.
receive(c, s) ==
  /\ AtRest /\ <<c, s>> \in inbox /\ inbox' = inbox \ {<<c, s>>}
  /\ UNCHANGED sent
  /\ Deliver(c, s) \/ UNCHANGED <<setup, local, durable, offs, delivery, listening, ran, deliveries>>

\* The loop over the live array: run() starts a listener, its error is caught.
run ==
  /\ ~ AtRest
  /\ LET now == Head(delivery)
     IN /\ now.at <= Len(local[now.bus])
        /\ ran' = [ran EXCEPT ![<<now.ear, now.send>>] = Append(@, local[now.bus][now.at])]
        /\ delivery' = <<[now EXCEPT !.at = @ + 1]>>
  /\ UNCHANGED <<setup, local, durable, offs, sent, listening, inbox, deliveries>>

LoopEnds ==
  /\ ~ AtRest /\ Head(delivery).at > Len(local[Head(delivery).bus])
  /\ delivery' = <<>>
  /\ UNCHANGED <<setup, local, durable, offs, sent, listening, inbox, ran, deliveries>>

BusNext ==
  \/ \E r \in DOMAIN LocalOn : onLocal(r) \/ offLocal(r)
  \/ \E r \in DOMAIN DurableOn : onDurable(r) \/ offDurable(r)
  \/ \E s \in Sends, b \in Buses : emit(s, b) \/ broadcast(s, b) \/ BroadcastAtHome(s, b)
  \/ \E s \in Sends : \/ Dispatch(s) \/ Dispatched(s) \/ Committed(s) \/ RolledBack(s)
                     \/ StoreDeferred(s) \/ DeliverLater(s)
  \/ \E c \in DOMAIN ListensOn : listen(c) \/ StopListening(c) \/ \E s \in Sends : receive(c, s)
  \/ run \/ LoopEnds

-----------------------------------------------------------------------------
\* Properties.

\* A delivery starts no listener twice, although the array changes under its loop, and
\* a bus delivers an emitted event once, and a broadcast once for each listen() call
\* (events.ts, deliver, receive, listen).
OnceEach ==
  /\ \A p \in DOMAIN ran : IsInjective(ran[p])
  /\ IsInjective(deliveries)

\* Who was registered throughout a delivery hears it, unless one in front of it was removed
\* while the loop ran, which makes the loop skip one (events.ts, deliver).
EveryoneHears ==
  \A now \in ToSet(delivery) :
    now.at > Len(local[now.bus]) /\ ~ now.shifted
    => now.had \cap ToSet(local[now.bus]) \subseteq ToSet(ran[<<now.ear, now.send>>])

\* The listeners an emit() has dealt with: their jobs are in the store or reported as lost, and
\* only a bus that does not know of the transaction leaves some to its commit.
DealtWith(s) == sent[s].jobs \cup sent[s].lost \cup (IF setup.aware THEN {} ELSE ToSet(sent[s].deferred))

\* When local listeners get an emitted event, every durable listener that was there from
\* the start of the emit was dealt with; an emit that failed or was rolled back reaches no
\* local listener (events.ts, emit).
JobsComeFirst ==
  /\ \A now \in ToSet(delivery) :
       now.at = 1 /\ sent[now.send].pc = "delivered"
       => sent[now.send].had \cap LiveDurable(now.bus) \subseteq DealtWith(now.send)
  /\ \A s \in Sends : sent[s].pc \in {"dispatching", "waiting", "failed", "dropped", "refused"} =>
       \A ear \in Ears : ran[<<ear, s>>] = <<>> /\ <<ear, s>> \notin ToSet(deliveries)

\* What is deferred to a commit is neither stored nor lost before it, nor after a rollback; rows
\* of the transaction go with it; and a bus that knows of the transaction is silent until the
\* commit (queue.ts, dispatch; database.ts, transaction, afterCommit; events.ts, emit).
FateOfTheTransaction ==
  \A s \in Sends :
    /\ sent[s].tx \in {"open", "rolled back"} =>
         /\ setup.queue = "deferring" => sent[s].jobs = {}
         /\ sent[s].lost = {}
         /\ setup.aware => \A ear \in Ears : <<ear, s>> \notin ToSet(deliveries)
    /\ sent[s].tx = "rolled back" =>
         sent[s].deferred = <<>> /\ (setup.queue = "transactional" => sent[s].jobs = {})
    /\ sent[s].lost # {} => setup.queue = "deferring"

\* The registrations on b whose function nobody called but that are gone from what is registered,
\* and those whose function was called again.
Missing(On, b, registered) == {r \in Made \cap DOMAIN On : On[r] = b /\ offs[r] = 0 /\ r \notin registered}
CalledAgain(On, b) == {r \in Made \cap DOMAIN On : On[r] = b /\ offs[r] = MaxOffs}

\* A listener is removed by its own function.  A function called again removes another
\* (events.ts:171: indexOf is -1 then; events.ts:165: whoever has the name now), but no
\* more than one for each such call.
OthersStay ==
  \A b \in Buses :
    /\ Cardinality(Missing(LocalOn, b, ToSet(local[b]))) <= Cardinality(CalledAgain(LocalOn, b))
    /\ Cardinality(Missing(DurableOn, b, LiveDurable(b))) <= Cardinality(CalledAgain(DurableOn, b))

\* What a bus promises to those who register.
BusHolds == OnceEach /\ EveryoneHears /\ JobsComeFirst /\ FateOfTheTransaction /\ OthersStay
=============================================================================
