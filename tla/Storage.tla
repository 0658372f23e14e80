------------------------------ MODULE Storage ------------------------------
(***************************************************************************)
(* LocalStorage and MemoryStorage (packages/storage/src/): put, get,       *)
(* delete and list of clients that overlap, each step on the file system   *)
(* its own; a file and its sidecar (content type and etag) change one      *)
(* after the other.  Also the signed URLs and byte ranges of               *)
(* storageRoutes().  A body stands for its etag, keys are their order.     *)
(***************************************************************************)
EXTENDS Integers, Sequences, SequencesExt, FiniteSetsExt

CONSTANTS
  Clients, StorageKeys,
  Bodies, Nothing,
  PageSize,
  Second,             \* milliseconds of a second
  MaxOps, MaxErrors   \* bounds: operations; failed steps and crashes

ASSUME StorageAssumption ==
  /\ StorageKeys \subseteq Nat \ {0} /\ IsFiniteSet(StorageKeys)
  /\ Nothing \notin Bodies
  /\ PageSize \in Nat \ {0} /\ Second \in Nat \ {0} /\ MaxErrors \in Nat

VARIABLES
  adapter,    \* "local" or "memory"
  content,    \* [StorageKeys -> the file's body or Nothing]
  sidecar,    \* [StorageKeys -> the etag under .meta or Nothing]
  temps,      \* clients with a file under .tmp
  client,     \* [Clients -> where its operation is]
  ops, errors,
  tangled     \* history: keys whose file and sidecar stem from different operations

storageVars == <<adapter, content, sidecar, temps, client, ops, errors, tangled>>

\* dirty: another operation has changed the key meanwhile, or the key was tangled;
\* steady: keys that were there all the time.
Unkeyed == 0
NoOp == [pc |-> "idle", op |-> "none", key |-> Unkeyed, body |-> Nothing, info |-> Nothing, dirty |-> FALSE,
         keys |-> <<>>, page |-> <<>>, more |-> FALSE, listed |-> <<>>, steady |-> {}]

StorageInit ==
  /\ adapter \in {"local", "memory"}
  /\ \E b \in Bodies : content \in {[k \in StorageKeys |-> b], [k \in StorageKeys |-> Nothing]}
  /\ sidecar = content
  /\ temps = {} /\ client = [c \in Clients |-> NoOp]
  /\ ops = 0 /\ errors = 0 /\ tangled = {}

At(c, pc) == client[c].pc = pc
Key(c) == client[c].key

\* A put between sidecar and rename, a delete between file and sidecar.
Between(c) == At(c, "rename") \/ At(c, "unlink sidecar")
Others(c, k) == {o \in Clients \ {c} : k # Unkeyed /\ Key(o) = k}

Begin(c, op, k, b, pc) ==
  /\ At(c, "idle") /\ ops < MaxOps /\ ops' = ops + 1
  /\ client' = [client EXCEPT ![c] = [NoOp EXCEPT
       !.pc = pc, !.op = op, !.key = k, !.body = b,
       !.dirty = op = "get" /\ (k \in tangled \/ \E o \in Others(c, k) : Between(o)),
       !.steady = IF op = "list" THEN {x \in StorageKeys : content[x] # Nothing} ELSE {}]]

\* c goes on with q; what it changes dirties the others' operations on that key.
Proceed(c, q, changed) ==
  client' = [o \in Clients |->
    IF o = c THEN q
    ELSE IF o \in Others(c, changed) THEN [client[o] EXCEPT !.dirty = TRUE]
    ELSE [client[o] EXCEPT !.steady = {k \in @ : content'[k] # Nothing}]]

Onward(c, pc) == [client[c] EXCEPT !.pc = pc]
-----------------------------------------------------------------------------
\* write()

\* The body goes to a temp file.
WriteFile(c) ==
  /\ At(c, "write") /\ temps' = temps \cup {c}
  /\ UNCHANGED <<adapter, content, sidecar, ops, errors, tangled>>
  /\ Proceed(c, Onward(c, "sidecar"), Unkeyed)

WriteSidecar(c) ==
  /\ At(c, "sidecar") /\ sidecar' = [sidecar EXCEPT ![Key(c)] = client[c].body]
  /\ UNCHANGED <<adapter, content, temps, ops, errors, tangled>>
  /\ Proceed(c, [Onward(c, "rename") EXCEPT !.dirty = FALSE], Key(c))

\* What a key is after an operation was through with both.
Settled(c) == IF client[c].dirty THEN tangled \cup {Key(c)} ELSE tangled \ {Key(c)}

Rename(c) ==
  /\ At(c, "rename") /\ temps' = temps \ {c}
  /\ content' = [content EXCEPT ![Key(c)] = client[c].body]
  /\ tangled' = Settled(c)
  /\ UNCHANGED <<adapter, sidecar, ops, errors>>
  /\ Proceed(c, Onward(c, "stat"), Key(c))

\* A step fails: the temp file is removed, the sidecar stays as it is.
PutFails(c) ==
  /\ client[c].pc \in {"write", "sidecar", "rename"} /\ errors < MaxErrors /\ errors' = errors + 1
  /\ temps' = temps \ {c}
  /\ tangled' = IF At(c, "rename") THEN tangled \cup {Key(c)} ELSE tangled
  /\ UNCHANGED <<adapter, content, sidecar, ops>>
  /\ Proceed(c, NoOp, Unkeyed)

-----------------------------------------------------------------------------
\* stat(), which ends a put and begins a get; read(); remove().

Stat(c) ==
  /\ At(c, "stat") /\ UNCHANGED <<adapter, content, sidecar, temps, ops, errors, tangled>>
  /\ Proceed(c, Onward(c, IF content[Key(c)] = Nothing THEN "done" ELSE "read sidecar"), Unkeyed)

ReadSidecar(c) ==
  /\ At(c, "read sidecar") /\ UNCHANGED <<adapter, content, sidecar, temps, ops, errors, tangled>>
  /\ Proceed(c, [Onward(c, IF client[c].op = "get" THEN "read" ELSE "done") EXCEPT !.info = sidecar[Key(c)]], Unkeyed)

\* The body is read when it is asked for.
ReadBody(c) ==
  /\ At(c, "read") /\ UNCHANGED <<adapter, content, sidecar, temps, ops, errors, tangled>>
  /\ Proceed(c, [Onward(c, "done") EXCEPT !.body = content[Key(c)]], Unkeyed)

RemoveFile(c) ==
  /\ At(c, "unlink") /\ content' = [content EXCEPT ![Key(c)] = Nothing]
  /\ UNCHANGED <<adapter, sidecar, temps, ops, errors, tangled>>
  /\ Proceed(c, [Onward(c, "unlink sidecar") EXCEPT !.dirty = FALSE], Key(c))

\* Mutant: the sidecar stays.
RemoveSidecarNever(c) ==
  /\ At(c, "unlink sidecar") /\ tangled' = Settled(c)
  /\ UNCHANGED <<adapter, content, sidecar, temps, ops, errors>>
  /\ Proceed(c, Onward(c, "done"), Key(c))

RemoveSidecar(c) ==
  /\ At(c, "unlink sidecar") /\ sidecar' = [sidecar EXCEPT ![Key(c)] = Nothing]
  /\ tangled' = Settled(c)
  /\ UNCHANGED <<adapter, content, temps, ops, errors>>
  /\ Proceed(c, Onward(c, "done"), Key(c))

-----------------------------------------------------------------------------
\* listKeys(): one page after another, each from the last key listed.

Cursor(c) == IF client[c].listed = <<>> THEN 0 ELSE Last(client[c].listed)

Ascending(keys) == \A m, n \in DOMAIN keys : m < n => keys[m] < keys[n]
Found(c) == {k \in StorageKeys : content[k] # Nothing /\ k > Cursor(c)}
FirstOf(found) == {k \in found : Cardinality({j \in found : j < k}) < PageSize}

Walk(c) ==
  LET first == FirstOf(Found(c))
      atOnce == adapter = "memory"
  IN /\ At(c, "walk") /\ UNCHANGED <<adapter, content, sidecar, temps, ops, errors, tangled>>
     /\ \E sorted \in [1 .. Cardinality(first) -> first] :
          /\ Ascending(sorted)
          /\ Proceed(c, [Onward(c, "stat page") EXCEPT !.keys = IF atOnce THEN <<>> ELSE sorted,
                                                    !.page = IF atOnce THEN sorted ELSE <<>>,
                                                    !.more = Found(c) # first], Unkeyed)

\* A key that is gone by now is left out.
PageOf(q) == IF content[Head(q.keys)] = Nothing THEN q.page ELSE Append(q.page, Head(q.keys))

StatListed(c) ==
  /\ At(c, "stat page") /\ client[c].keys # <<>>
  /\ UNCHANGED <<adapter, content, sidecar, temps, ops, errors, tangled>>
  /\ Proceed(c, [client[c] EXCEPT !.keys = Tail(@), !.page = PageOf(client[c])], Unkeyed)

\* nextCursor: of a full page whose keys were all deleted meanwhile there is no last
\* one, and the call throws.
PageEnds(c) ==
  /\ At(c, "stat page") /\ client[c].keys = <<>>
  /\ UNCHANGED <<adapter, content, sidecar, temps, ops, errors, tangled>>
  /\ Proceed(c, IF client[c].more /\ client[c].page = <<>> THEN NoOp
             ELSE [Onward(c, IF client[c].more THEN "walk" ELSE "done") EXCEPT !.listed = @ \o client[c].page], Unkeyed)

-----------------------------------------------------------------------------
\* MemoryStorage: the object, or a page, in one step.

Memory(c) ==
  /\ adapter = "memory" /\ client[c].pc \in {"write", "stat", "unlink"}
  /\ LET q == client[c]
     IN /\ content' = IF q.op = "get" THEN content ELSE [content EXCEPT ![q.key] = q.body]
        /\ sidecar' = content'
        /\ UNCHANGED <<adapter, temps, ops, errors, tangled>>
        /\ Proceed(c, [Onward(c, "done") EXCEPT !.info = content'[q.key], !.body = content'[q.key]], IF q.op = "get" THEN Unkeyed ELSE q.key)

Local(c) == adapter = "local" /\ (WriteFile(c) \/ WriteSidecar(c) \/ Rename(c) \/ PutFails(c) \/ Stat(c)
                                 \/ ReadSidecar(c) \/ ReadBody(c) \/ RemoveFile(c) \/ RemoveSidecar(c))

Answers(c) ==
  /\ At(c, "done") /\ UNCHANGED <<adapter, content, sidecar, temps, ops, errors, tangled>>
  /\ Proceed(c, NoOp, Unkeyed)

\* The process dies: its temp files stay, no start removes them.
StorageDies ==
  /\ errors < MaxErrors /\ errors' = errors + 1
  /\ client' = [c \in Clients |-> NoOp]
  /\ tangled' = tangled \cup {Key(c) : c \in {c \in Clients : Between(c)}}
  /\ IF adapter = "memory" THEN content' = [k \in StorageKeys |-> Nothing] /\ sidecar' = content'
     ELSE UNCHANGED <<content, sidecar>>
  /\ UNCHANGED <<adapter, temps, ops>>

Begins(c) ==
  /\ UNCHANGED <<adapter, content, sidecar, temps, errors, tangled>>
  /\ \/ \E k \in StorageKeys : \/ \E b \in Bodies : Begin(c, "put", k, b, "write")
                               \/ Begin(c, "get", k, Nothing, "stat")
                               \/ Begin(c, "delete", k, Nothing, "unlink")
     \/ Begin(c, "list", Unkeyed, Nothing, "walk")

StorageNext ==
  \/ \E c \in Clients : \/ Begins(c) \/ Local(c) \/ Memory(c) \/ Answers(c)
                        \/ Walk(c) \/ StatListed(c) \/ PageEnds(c)
  \/ StorageDies

-----------------------------------------------------------------------------
\* Signed URLs, with the clock in milliseconds, and ranges.

sign(key, now, expiresIn, download) ==
  LET expires == (now + expiresIn) \div Second
  IN [key |-> key, expires |-> expires, download |-> download, sig |-> <<key, expires, download>>]

verify(url, now) ==
  IF url.sig # <<url.key, url.expires, url.download>> THEN "invalid"
  ELSE IF url.expires * Second < now THEN "expired" ELSE "valid"

\* "bytes=from-to", either of them possibly left out (-1): the first and last byte, or none.
parseRange(from, to, size) ==
  LET start == IF from = -1 THEN Max({0, size - to}) ELSE from
      end == IF from = -1 \/ to = -1 THEN size - 1 ELSE Min({to, size - 1})
  IN IF (from = -1 /\ to = -1) \/ start > end \/ start >= size THEN <<>> ELSE <<start, end>>

-----------------------------------------------------------------------------
\* Properties.

\* A file has the type and etag it was put with, none has those of another body, unless two
\* operations on its key overlapped or one was cut off (local.ts:71); the next one that
\* is not disturbed mends it.
Paired ==
  \A k \in StorageKeys :
    k \notin tangled /\ (\A c \in Clients : Key(c) = k => ~ Between(c)) => sidecar[k] = content[k]

\* What a put returns describes what it wrote, and what a get returns its body, if nothing else
\* happened to the key meanwhile (local.ts:77, 83).
Described ==
  \A c \in Clients :
    At(c, "done") /\ client[c].op \in {"put", "get"} /\ ~ client[c].dirty => client[c].info = client[c].body

\* Pages leave no key out that was there all the time and list none twice, although files come
\* and go between the walk, the stats and the pages (local.ts:118).
ListsAll ==
  \A c \in Clients :
    /\ Ascending(client[c].listed)
    /\ At(c, "done") /\ client[c].op = "list" => client[c].steady \subseteq ToSet(client[c].listed)

\* A temp file is a put's that is under way, or a dead process left it.
TempsGo == errors = 0 => \A c \in temps : client[c].pc \in {"sidecar", "rename"}

\* A signed URL holds for its key and download name only, never longer than it was signed for,
\* and less than a second shorter (local.ts:122, 134).
UrlsExpire ==
  \A now, expiresIn, later \in 0 .. 3 * Second :
    LET url == sign(1, now, expiresIn, "none")
        valid == verify(url, later) = "valid"
    IN /\ valid => later <= now + expiresIn
       /\ later + Second <= now + expiresIn => valid
       /\ verify([url EXCEPT !.key = 2], later) = "invalid" /\ verify([url EXCEPT !.expires = @ + 1], later) = "invalid"

\* A range selects what it names of the bytes there are (routes.ts:69).
RangesFit ==
  \A size \in 0 .. 4, from, to \in -1 .. 5 :
    LET range == parseRange(from, to, size)
        named == {n \in 0 .. size - 1 : IF from = -1 THEN n >= size - to /\ to # -1 ELSE n >= from /\ (to = -1 \/ n <= to)}
    IN named = IF range = <<>> THEN {} ELSE range[1] .. range[2]

StorageHolds == Paired /\ Described /\ ListsAll /\ TempsGo /\ UrlsExpire /\ RangesFit
=============================================================================
