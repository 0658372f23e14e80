------------------------------- MODULE Cache -------------------------------
(***************************************************************************)
(* KeyValueCache (packages/cache/src/cache.ts) over one of its stores: the *)
(* LRU map of memory.ts or the Redis of redis.ts.  Callers of remember()   *)
(* interleave with writers that change the source and then set or delete   *)
(* the entry.  remember() is split at its awaits: the lookup, the load,    *)
(* the store's set and the finally.  A key is a full key: namespaces share *)
(* the store and the map of loads, and differ in a prefix only.  Values    *)
(* are versions of the source, Absent being null.                          *)
(***************************************************************************)
EXTENDS Integers, Sequences, SequencesExt, FiniteSets

CONSTANTS
  CacheKeys, Callers, Nowhere,  \* full keys, callers of remember(), no caller
  MaxEntries,                   \* capacity of the memory store
  Ttl,                          \* the ttl that remember() is called with
  Written, Versions, CacheEnd   \* bounds: keys whose source changes, how often, the clock

ASSUME CacheAssumption ==
  /\ CacheKeys # {} /\ Written \subseteq CacheKeys /\ Nowhere \notin Callers
  /\ MaxEntries \in Nat /\ Ttl \in Nat

VARIABLES
  backend,    \* "memory" or "redis"
  entries,    \* the Map, in insertion order (for Redis the order means nothing)
  loads,      \* the inflight Map: [CacheKeys -> its loading caller or Nowhere]
  caller,     \* [Callers -> where its remember() is]
  source,     \* [CacheKeys -> version of what load() would read]
  time,
  floor       \* history: version that the last write not met by a load left

cacheVars == <<backend, entries, loads, caller, source, time, floor>>

Absent == 0
Live(e) == e.expiresAt > time
Without(k) ==
  LET held == {i \in DOMAIN entries : entries[i].key = k}
  IN IF held = {} THEN entries ELSE RemoveAt(entries, CHOOSE i \in held : TRUE)
Holding(k) == {e \in ToSet(entries) : e.key = k}
Away == [pc |-> "idle", key |-> CHOOSE k \in CacheKeys : TRUE, value |-> Absent,
         since |-> Absent, older |-> FALSE]

\* MemoryStore.live: the entry of k, and the Map without it when it has expired.
live(k) == {e \in Holding(k) : Live(e)}
Dropped(k) == IF live(k) = {} THEN Without(k) ELSE entries

\* get: a hit moves to the end of the Map.
Touched(k) == IF live(k) = {} THEN Without(k)
              ELSE Append(Without(k), CHOOSE e \in live(k) : TRUE)

\* How many entries an insertion pushes out.
Overfull(all) == IF backend = "memory" /\ Len(all) > MaxEntries THEN Len(all) - MaxEntries ELSE 0

\* set: the entry goes to the end, the first ones go beyond the capacity.
Stored(k, v) ==
  LET all == Append(Without(k), [key |-> k, value |-> v, expiresAt |-> time + Ttl])
  IN SubSeq(all, Overfull(all) + 1, Len(all))

\* A write that no load of its key overlaps: nothing older may be read later.
Raise(k) == floor' = IF loads[k] = Nowhere THEN [floor EXCEPT ![k] = source[k]] ELSE floor

-----------------------------------------------------------------------------
CacheInit ==
  /\ backend \in {"memory", "redis"}
  /\ entries = <<>>
  /\ loads = [k \in CacheKeys |-> Nowhere]
  /\ caller = [c \in Callers |-> Away]
  /\ source \in [CacheKeys -> {Absent, 1}]
  /\ time = 0
  /\ floor = source

Go(c, next) == caller' = [caller EXCEPT ![c] = next]
At(c, pc) == caller[c].pc = pc

\* A call that began when floor was `since` returns v: `older` is history.
Returned(v, since) == [Away EXCEPT !.older = v # Absent /\ v < since]

\* remember(): get() reads the store at once; a hit is returned.
Lookup(c, k) ==
  /\ At(c, "idle")
  /\ entries' = Touched(k)
  /\ Go(c, IF live(k) = {} THEN [Away EXCEPT !.pc = "missed", !.key = k, !.since = floor[k]]
           ELSE Returned((CHOOSE e \in live(k) : TRUE).value, floor[k]))
  /\ UNCHANGED <<backend, loads, source, time, floor>>

\* A load of this key is under way.
Pending(k) == loads[k] # Nowhere

\* After the await of get(): share the load of this key, or start one.
Share(c) ==
  /\ At(c, "missed") /\ Pending(caller[c].key)
  /\ Go(c, [caller[c] EXCEPT !.pc = "waiting"])
  /\ UNCHANGED <<backend, entries, loads, source, time, floor>>

Load(c) ==
  /\ At(c, "missed") /\ ~ Pending(caller[c].key)
  /\ loads' = [loads EXCEPT ![caller[c].key] = c]
  /\ Go(c, [caller[c] EXCEPT !.pc = "loading"])
  /\ UNCHANGED <<backend, entries, source, time, floor>>

\* load() read the source, and answers: only what is not null will be cached.
Loaded(c) ==
  /\ At(c, "loading")
  /\ LET v == source[caller[c].key]
     IN Go(c, [caller[c] EXCEPT !.pc = IF v = Absent THEN "settling" ELSE "storing", !.value = v])
  /\ UNCHANGED <<backend, entries, loads, source, time, floor>>

LoadFails(c) ==
  /\ At(c, "loading")
  /\ Go(c, [caller[c] EXCEPT !.pc = "failing"])
  /\ UNCHANGED <<backend, entries, loads, source, time, floor>>

\* set() inside remember(); Redis may refuse or lose the
\* reply, and then remember() rejects.
Save(c) ==
  /\ At(c, "storing")
  /\ \/ entries' = Stored(caller[c].key, caller[c].value) /\ Go(c, [caller[c] EXCEPT !.pc = "settling"])
     \/ backend = "redis" /\ Go(c, [caller[c] EXCEPT !.pc = "failing"])
        /\ entries' \in {entries, Stored(caller[c].key, caller[c].value)}
  /\ UNCHANGED <<backend, loads, source, time, floor>>

\* Mutant: the load is forgotten on success only (then instead of finally).
OverWell == {"settling"}
Over == {"settling", "failing"}

\* finally: the load is forgotten, and everyone who shares it goes on.
Settle(c) ==
  /\ caller[c].pc \in Over
  /\ loads' = [loads EXCEPT ![caller[c].key] = Nowhere]
  /\ caller' = [d \in Callers |->
       IF d = c \/ (At(d, "waiting") /\ caller[d].key = caller[c].key)
       THEN IF At(c, "failing") THEN Away ELSE Returned(caller[c].value, caller[d].since)
       ELSE caller[d]]
  /\ UNCHANGED <<backend, entries, source, time, floor>>

\* Writers: the source changes, and afterwards set() or delete() is called.
Write(k) ==
  /\ source[k] < Versions
  /\ source' = [source EXCEPT ![k] = @ + 1]
  /\ UNCHANGED <<backend, entries, loads, caller, time, floor>>

set(k) ==
  /\ source[k] # Absent
  /\ entries' = Stored(k, source[k])
  /\ Raise(k)
  /\ UNCHANGED <<backend, loads, caller, source, time>>

delete(k) ==
  /\ entries' = Without(k)
  /\ Raise(k)
  /\ UNCHANGED <<backend, loads, caller, source, time>>

\* has(), and the sweep of the memory store: what has expired is dropped.
has(k) == entries' = Dropped(k) /\ UNCHANGED <<backend, loads, caller, source, time, floor>>

sweep ==
  /\ backend = "memory"
  /\ LET fresh == {i \in DOMAIN entries : Live(entries[i])}
     IN \E kept \in [1 .. Cardinality(fresh) -> fresh] : \* those, in their order
          /\ \A m, n \in DOMAIN kept : m < n => kept[m] < kept[n]
          /\ entries' = [n \in DOMAIN kept |-> entries[kept[n]]]
  /\ UNCHANGED <<backend, loads, caller, source, time, floor>>

CacheTick == time < CacheEnd /\ time' = time + 1 /\ UNCHANGED <<backend, entries, loads, caller, source, floor>>

Continues(c) == Share(c) \/ Load(c) \/ Save(c) \/ Settle(c)
Loads(c) == Loaded(c) \/ LoadFails(c)

CacheNext ==
  \/ \E c \in Callers : \/ \E k \in CacheKeys : Lookup(c, k)
                        \/ Continues(c) \/ Loads(c)
  \/ \E k \in Written : Write(k)
  \/ \E k \in CacheKeys : set(k) \/ delete(k) \/ has(k)
  \/ sweep \/ CacheTick

-----------------------------------------------------------------------------
\* Properties.

\* One load per key is under way, whoever asks and through whichever namespace
\* (cache.ts:8, "Concurrent misses share one load"), the map of loads knows it,
\* and nobody waits for a load that is over.
OneLoadPerKey ==
  \A k \in CacheKeys :
    LET AtStep(pcs) == {c \in Callers : caller[c].key = k /\ caller[c].pc \in pcs}
        loaders == AtStep({"loading", "storing", "settling", "failing"})
    IN /\ loaders = IF loads[k] = Nowhere THEN {} ELSE {loads[k]}
       /\ loads[k] = Nowhere => AtStep({"waiting"}) = {}

\* A set or delete that meets no load of its key is final: no remember() that
\* starts later returns something older, and no older entry is stored.  (One that
\* meets a load is undone by it: the load stores what it read before.)
WritesLast ==
  /\ \A c \in Callers : ~ caller[c].older
  /\ \A e \in ToSet(entries) : e.value >= floor[e.key]

\* The Map never holds a key twice, nor more than its capacity between two
\* calls (memory.ts:133, the loop after the insertion).
WithinCapacity ==
  /\ \A i, j \in DOMAIN entries : entries[i].key = entries[j].key => i = j
  /\ backend = "memory" => Len(entries) <= MaxEntries

\* Every remember() ends, also those sharing a load that fails, when loads end.
RememberEnds == \A c \in Callers : caller[c].pc # "idle" ~> caller[c].pc = "idle"

\* What a cache promises its callers.
CacheCoherent == [][OneLoadPerKey' /\ WritesLast' /\ WithinCapacity']_cacheVars /\ RememberEnds
=============================================================================
