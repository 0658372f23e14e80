------------------------------- MODULE MCApp -------------------------------
(* The app going up and down, and what it serves its requests with, one     *)
(* part per behaviour: the cache, the routes of its routers, and the way of *)
(* a request through the layers.                                            *)
EXTENDS AppLifecycle, Cache, Routes, Requests

CONSTANTS c1, c2, none, app, r1, r2

\* Exact and wildcard segments, parameters of two names, a catch-all, and a method of "*".
R(m, p) == [method |-> m, path |-> p]
MCOffered == {R("GET", <<"a">>), R("POST", <<"a">>), R("GET", <<":x">>), R("GET", <<":x", "b">>),
              R("*", <<"a", "*">>), R("GET", <<"a", "a">>), R("GET", <<":y">>)}
MCAsked == {R(m, p) : m \in {"GET", "HEAD"}, p \in {<<"a">>, <<"a", "b">>, <<"b", "a", "a">>}}
           \cup {R("POST", <<"a", "b">>), R("OPTIONS", <<"a">>), R("GET", <<"%">>)}
MCMountPaths == {<<"a">>, <<>>}

\* Bodies below, at and over the limits, declared or not; preflights and plain requests of
\* origins the app lists or not; upgrades.
Q(m, o, sec, size, decl, pre, r, u) ==
  [method |-> m, origin |-> o, secure |-> sec, size |-> size, declared |-> decl, preflight |-> pre, route |-> r, upgrade |-> u]
MCIncoming ==
  {Q("GET", "none", TRUE, 0, FALSE, FALSE, "plain", FALSE), Q("HEAD", "listed", FALSE, 0, FALSE, FALSE, "plain", FALSE),
   Q("POST", "listed", TRUE, 3, TRUE, FALSE, "plain", FALSE), Q("POST", "other", FALSE, 3, FALSE, FALSE, "plain", FALSE),
   Q("POST", "none", FALSE, 2, FALSE, FALSE, "plain", FALSE), Q("POST", "none", FALSE, 4, TRUE, FALSE, "plain", FALSE),
   Q("OPTIONS", "listed", TRUE, 0, FALSE, TRUE, "other method", FALSE),
   Q("OPTIONS", "none", TRUE, 0, FALSE, FALSE, "other method", FALSE),
   Q("PUT", "listed", TRUE, 0, FALSE, FALSE, "other method", FALSE), Q("GET", "other", TRUE, 0, FALSE, FALSE, "no route", FALSE),
   Q("GET", "other", TRUE, 0, FALSE, FALSE, "socket", TRUE), Q("GET", "own", TRUE, 0, FALSE, FALSE, "socket", TRUE),
   Q("GET", "none", FALSE, 0, FALSE, FALSE, "socket", FALSE)}
MCSettings == {[exposeErrors |-> e, errorHandler |-> e, cors |-> c] : e \in BOOLEAN, c \in {"*", "list", "credentials"}}

\* The part that moves in this behaviour; the others stay as they began.
VARIABLE part

MCInit ==
  /\ part \in {"lifecycle", "cache", "routes", "requests"}
  /\ Init
  /\ CacheInit /\ (part # "cache" => backend = "memory" /\ \A k \in CacheKeys : source[k] = Absent)
  /\ RoutesInit /\ (part # "routes" => \A r \in Routers : mounts[r] = <<>>)
  /\ RequestsInit /\ (part # "requests" => settings = CHOOSE s \in Settings : TRUE)

MCNext ==
  /\ UNCHANGED part
  /\ \/ part = "lifecycle" /\ Next /\ UNCHANGED <<cacheVars, routeVars, requestVars>>
     \/ part = "cache" /\ CacheNext /\ UNCHANGED <<vars, routeVars, requestVars>>
     \/ part = "routes" /\ RoutesNext /\ UNCHANGED <<vars, cacheVars, requestVars>>
     \/ part = "requests" /\ RequestsNext /\ UNCHANGED <<vars, cacheVars, routeVars>>

\* What FairSpec asks, and of the cache that continuations run and loads end.
MCFairness ==
  /\ WF_vars(part = "lifecycle" /\ StartStep) /\ WF_vars(part = "lifecycle" /\ StopStep)
  /\ \A c \in Callers : /\ WF_cacheVars(part = "cache" /\ Continues(c))
                        /\ WF_cacheVars(part = "cache" /\ Loads(c))

MCSpec == MCInit /\ [][MCNext]_<<part, vars, cacheVars, routeVars, requestVars>> /\ MCFairness
=============================================================================
