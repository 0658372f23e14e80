------------------------------- MODULE Routes -------------------------------
(***************************************************************************)
(* Router (packages/core/src/router.ts), the trie its routes are compiled  *)
(* to (route-trie.ts) and the table App keeps of them (app.ts).  Routes    *)
(* and middleware are added and routers mounted between the requests that  *)
(* are matched.  A path is the sequence of its decoded segments, a segment *)
(* of a pattern a name, a member of Params or "*".                         *)
(***************************************************************************)
EXTENDS Naturals, Sequences, SequencesExt, FiniteSets

CONSTANTS
  Routers, Root,             \* all routers; the App, which is one of them
  Params, Malformed,         \* parameter segments; a segment that does not decode
  Offered, Asked, MountPaths,  \* bounds: [method, path] of routes and of requests, mount prefixes
  MaxChanges

ASSUME RoutesAssumption ==
  /\ IsFiniteSet(Routers) /\ Root \in Routers /\ Params \subseteq STRING \ {"*"}
  /\ Offered \subseteq [method : STRING, path : Seq(STRING)] /\ Asked \subseteq [method : STRING, path : Seq(STRING)]
  /\ MountPaths \subseteq Seq(STRING)

VARIABLES
  definitions,  \* [Routers -> Seq of routes]
  middleware,   \* [Routers -> Seq of <<router, n>>]
  mounts,       \* [Routers -> Seq of [prefix, router]]
  revision,     \* [Routers -> Nat]
  compiled,     \* App's table and the revision it was compiled at
  answer,       \* the request just matched, its dispatch and status
  changes

routeVars == <<definitions, middleware, mounts, revision, compiled, answer, changes>>

ANY_METHOD == "*"
NoRequest == [method |-> "none", path |-> <<>>, kind |-> "none", route |-> {}, allowed |-> {}, status |-> 0]

-----------------------------------------------------------------------------
\* The trie: a node is the pattern that leads to it.

Nodes(t) == {<<>>} \cup UNION {{SubSeq(r.path, 1, i) : i \in DOMAIN r.path} : r \in t}
Handlers(t, node) == {r \in t : r.path = node}

pickHandler(handlers, method) ==
  LET For(m) == {h \in handlers : h.method = m}
  IN IF For(method) # {} THEN For(method)
     ELSE IF method = "HEAD" /\ For("GET") # {} THEN For("GET") ELSE For(ANY_METHOD)

\* What is found at a node, given what is found beneath; its depth is how much of the path is used up.
visit(t, accepted, path, beneath, node) ==
  LET here == Len(node)
      static == IF here < Len(path) /\ path[here + 1] \notin Params \cup {"*"} THEN {path[here + 1]} ELSE {}
      param == IF here < Len(path) THEN Params ELSE {}
      Through(segments) == UNION {beneath[Append(node, s)] : s \in {s \in segments : Append(node, s) \in Nodes(t)}}
  IN IF here = Len(path) /\ node \in accepted THEN {node}
     ELSE IF Through(static) # {} THEN Through(static)
     ELSE IF Through(param) # {} THEN Through(param)
     ELSE {Append(node, "*")} \cap accepted

\* The accepted node that the path leads to, if any.
find(t, accepted, path) ==
  LET found[node \in Nodes(t)] == visit(t, accepted, path, found, node) IN found[<<>>]

allowedMethods(handlers) ==
  LET own == {h.method : h \in handlers} IN own \cup {"OPTIONS"} \cup IF "GET" \in own THEN {"HEAD"} ELSE {}

match(t, method, path) ==
  LET Dispatch(kind, route, allowed) == [kind |-> kind, route |-> route, allowed |-> allowed]
      patterns == {r.path : r \in t}
      exact == find(t, {p \in patterns : pickHandler(Handlers(t, p), method) # {}}, path)
      anyMethod == find(t, patterns, path)
  IN IF Malformed \in ToSet(path) THEN Dispatch("malformed", {}, {})
     ELSE IF exact # {} THEN Dispatch("found", UNION {pickHandler(Handlers(t, n), method) : n \in exact}, {})
     ELSE IF anyMethod # {} THEN Dispatch("method-not-allowed", {}, UNION {allowedMethods(Handlers(t, n)) : n \in anyMethod})
     ELSE Dispatch("not-found", {}, {})

\* add() throws: a wildcard before the end, two names for one parameter, a route twice.
Conflicts(routes) ==
  \E m, n \in DOMAIN routes :
    LET p == routes[m].path  q == routes[n].path
    IN \/ \E i \in DOMAIN p : p[i] = "*" /\ i # Len(p)
       \/ \E i \in DOMAIN p \cap DOMAIN q : /\ SubSeq(p, 1, i - 1) = SubSeq(q, 1, i - 1)
                                           /\ p[i] # q[i] /\ {p[i], q[i]} \subseteq Params
       \/ m # n /\ p = q /\ routes[m].method = routes[n].method

-----------------------------------------------------------------------------
\* Router.

\* What a mounted router is called with, its prefix and the middleware so far, comes before all it returns.
nested(mount, routes) ==
  [n \in DOMAIN routes |-> [routes[n] EXCEPT !.path = mount.prefix \o @, !.chain = middleware[mount.router] \o @]]

collectRoutes ==
  LET collected[r \in Routers] ==
        definitions[r] \o FlattenSeq([n \in DOMAIN mounts[r] |-> nested(mounts[r][n], collected[mounts[r][n].router])])
  IN collected[Root]

Mounts(p, r) == \E m \in ToSet(mounts[p]) : m.router = r

\* The routers that r is mounted on, however far up, and r.
Above(r) ==
  {q \in Routers : \A all \in SUBSET Routers :
     r \in all /\ (\A p \in Routers, s \in all : Mounts(p, s) => p \in all) => q \in all}

\* Mutant: a change is told to the routers r is mounted on only.
ChangedParents(r) ==
  /\ changes < MaxChanges /\ changes' = changes + 1 /\ answer' = NoRequest
  /\ revision' = [q \in Routers |-> IF q = r \/ Mounts(q, r) THEN revision[q] + 1 ELSE revision[q]]

\* Only whether revisions differ matters: a router reached along two mounts counts once.
Changed(r) ==
  /\ changes < MaxChanges /\ changes' = changes + 1 /\ answer' = NoRequest
  /\ revision' = [q \in Routers |-> IF q \in Above(r) THEN revision[q] + 1 ELSE revision[q]]

use(r) ==
  /\ middleware' = [middleware EXCEPT ![r] = Append(@, <<r, Len(@) + 1>>)]
  /\ UNCHANGED <<definitions, mounts, compiled>> /\ Changed(r)

add(r, method, path) ==
  /\ definitions' = [definitions EXCEPT ![r] = Append(@, [method |-> method, path |-> path, chain |-> <<>>, by |-> r])]
  /\ UNCHANGED <<middleware, mounts, compiled>> /\ Changed(r)

\* Routers mounted in a circle are no program: changed() would not end.
route(r, prefix, s) ==
  /\ s # r /\ s \notin Above(r)
  /\ mounts' = [mounts EXCEPT ![r] = Append(@, [prefix |-> prefix, router |-> s])]
  /\ UNCHANGED <<definitions, middleware, compiled>> /\ Changed(r)

-----------------------------------------------------------------------------
\* App: the table is compiled when a request finds it out of date.

routeTable == [revision |-> revision[Root], valid |-> ~ Conflicts(collectRoutes), table |-> ToSet(collectRoutes)]

runRoute(kind, method) ==
  CASE kind = "found" -> 200
    [] kind = "method-not-allowed" -> IF method = "OPTIONS" THEN 204 ELSE 405
    [] kind = "not-found" -> 404
    [] kind = "malformed" -> 400
    [] kind = "error" -> 500

\* A table that cannot be compiled is not kept: the next request tries again.
Request(method, path) ==
  LET current == IF compiled.revision = revision[Root] THEN compiled ELSE routeTable
      dispatch == IF current.valid THEN match(current.table, method, path)
                  ELSE [kind |-> "error", route |-> {}, allowed |-> {}]
  IN /\ answer = NoRequest
     /\ compiled' = IF current.valid THEN current ELSE compiled
     /\ answer' = [method |-> method, path |-> path, kind |-> dispatch.kind, route |-> dispatch.route,
                   allowed |-> dispatch.allowed, status |-> runRoute(dispatch.kind, method)]
     /\ UNCHANGED <<definitions, middleware, mounts, revision, changes>>

\* Routers are mounted already, one on the other, or not yet.
RoutesInit ==
  /\ definitions = [r \in Routers |-> <<>>] /\ middleware = definitions
  /\ \/ mounts = [r \in Routers |-> <<>>]
     \/ \E p \in MountPaths, s, q \in Routers \ {Root} :
          /\ s # q
          /\ mounts = [r \in Routers |-> CASE r = Root -> <<[prefix |-> p, router |-> s]>>
                                           [] r = s -> <<[prefix |-> p, router |-> q]>> [] OTHER -> <<>>]
  /\ revision = [r \in Routers |-> 1]
  /\ compiled = [revision |-> 0, valid |-> TRUE, table |-> {}]
  /\ answer = NoRequest /\ changes = 0

RoutesNext ==
  \/ \E r \in Routers : \/ use(r)
                        \/ \E o \in Offered : add(r, o.method, o.path)
                        \/ \E s \in Routers \ {Root}, p \in MountPaths : route(r, p, s)
  \/ \E q \in Asked : Request(q.method, q.path)
  \/ answer # NoRequest /\ answer' = NoRequest /\ UNCHANGED <<definitions, middleware, mounts, revision, compiled, changes>>

RoutesSpec == RoutesInit /\ [][RoutesNext]_routeVars

-----------------------------------------------------------------------------
\* Properties.

Fits(pattern, path) ==
  LET wild == pattern # <<>> /\ Last(pattern) = "*"
      named == IF wild THEN Len(pattern) - 1 ELSE Len(pattern)
  IN /\ named <= Len(path) /\ (named < Len(path) => wild)
     /\ \A i \in 1 .. named : pattern[i] \in Params \cup {path[i]}

\* The better of two patterns that fit one path: where they part, a name is better than a
\* parameter, a parameter or the path's end than "*".
Rank(s) == IF s = "*" THEN 1 ELSE IF s \in Params THEN 2 ELSE 3
Better(p, q) ==
  \E i \in 1 .. Len(q) : /\ i <= Len(p) + 1 /\ SubSeq(p, 1, i - 1) = SubSeq(q, 1, i - 1)
                         /\ i > Len(p) \/ Rank(p[i]) > Rank(q[i])

\* Which route a request gets, said without the trie and whatever the order of the routes
\* (route-trie.ts:30): of those that fit and take its method, the best pattern's, and of those
\* the one for the method itself, then GET's for HEAD, then the one for all methods.
Wanted(t, method, path) ==
  LET Takes(r) == r.method \in {method, ANY_METHOD} \/ (method = "HEAD" /\ r.method = "GET")
      fitting == {r \in t : Fits(r.path, path) /\ Takes(r)}
      best == {r \in fitting : \A q \in fitting : q.path # r.path => Better(r.path, q.path)}
  IN pickHandler(best, method)

RightRoute(t, method, path) ==
  LET found == match(t, method, path)
  IN /\ found.kind = "found" <=> \E r \in Wanted(t, method, path) : TRUE
     /\ found.kind = "found" => found.route = Wanted(t, method, path) /\ Cardinality(found.route) = 1
     /\ found.kind = "not-found" <=> \A r \in t : ~ Fits(r.path, path)
     /\ \A m \in found.allowed \ {"OPTIONS"} : match(t, m, path).kind = "found"

\* However routes are registered, up to three of those offered: no dead end is taken although
\* another branch would match (route-trie.ts:82), and Allow names nothing that is then refused.
TrieFinds ==
  \A size \in 1 .. 3 : \A chosen \in [1 .. size -> Offered] :
    LET routes == [n \in 1 .. size |-> [method |-> chosen[n].method, path |-> chosen[n].path, chain |-> <<>>, by |-> Root]]
    IN ~ Conflicts(routes) => \A q \in Asked : Malformed \notin ToSet(q.path) => RightRoute(ToSet(routes), q.method, q.path)

\* The routers below the App down to r, along one line of mounts each.
Lines(r) ==
  {line \in UNION {[1 .. n -> Routers] : n \in 0 .. Cardinality(Routers)} :
     /\ Last(<<Root>> \o line) = r
     /\ \A n \in DOMAIN line : Mounts((<<Root>> \o line)[n], line[n])}

\* A request meets the routers as they are now, also those mounted on mounted ones, and not
\* as they were when the table was compiled (app.ts:406, router.ts:122): the right route, behind
\* the middleware of the routers it is mounted through and of no other, or an error if what is
\* registered now is in conflict.
SeesEveryChange ==
  LET routes == collectRoutes
  IN answer # NoRequest =>
       IF Conflicts(routes) THEN answer.kind = "error"
       ELSE /\ answer.kind = match(ToSet(routes), answer.method, answer.path).kind
            /\ answer.kind = "found" =>
                 /\ answer.route = Wanted(ToSet(routes), answer.method, answer.path)
                 /\ \A r \in answer.route : \E line \in Lines(r.by) :
                      r.chain = FlattenSeq([n \in DOMAIN line |-> middleware[line[n]]])

RoutesHold == TrieFinds /\ SeesEveryChange
=============================================================================
