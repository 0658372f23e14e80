-------------------------------- MODULE Auth --------------------------------
(***************************************************************************)
(* Who a request comes from (packages/auth/src/): the OIDC strategy with   *)
(* its cached keys and rate-limited refreshes (oidc.ts), API keys and      *)
(* their table (api-keys.ts), tokens the app signs (jwt.ts), and what is   *)
(* composed of the strategies: authenticate(), csrf(), permissions and the *)
(* order of features.  Visits are requests that overlap at their awaits.   *)
(***************************************************************************)
EXTENDS Integers, Sequences, SequencesExt, FiniteSets, FiniteSetsExt

CONSTANTS
  Visitors,
  KeyIds, Junk,         \* kids of the provider's keys; a kid it never has
  ApiKeyIds,
  Refresh, TouchAfter,  \* refreshInterval and touchInterval
  AuthEnd, MaxVisits, MaxRotations  \* bounds: the clock, visits, changes of keys

ASSUME AuthAssumption == Junk \notin KeyIds \cup ApiKeyIds /\ Refresh \in Nat

VARIABLES
  published,    \* kids in the provider's JWKS
  keys,         \* the strategy's keys
  lastRefresh,
  jwksUri,      \* the shared promise: "none", "pending" or "known"
  apiKeys,      \* [ApiKeyIds -> [exists, revoked, lastUsedAt]]
  visitor,        \* [Visitors -> where its authenticate() is]
  clock, visits, rotations,
  ever, ended,  \* history: kids ever published, API keys ever revoked
  begun, hasty  \* history: when the last refresh began, and whether one was too soon after another

seen == <<ever, ended, begun, hasty>>
authVars == <<published, keys, lastRefresh, jwksUri, apiKeys, visitor, clock, visits, rotations, seen>>

\* at: when the API key was found; revoked: whether it was revoked when it was presented;
\* current: its kid has been published all the time; alone: no other refresh was under way.
NoVisit == [pc |-> "idle", kid |-> Junk, apiKey |-> Junk, got |-> {}, refreshes |-> FALSE, at |-> 0,
            revoked |-> FALSE, current |-> FALSE, alone |-> FALSE]
Never == 0 - Refresh

AuthInit ==
  /\ published = {CHOOSE k \in KeyIds : TRUE} /\ ever = published
  /\ keys = {} /\ lastRefresh = Never /\ jwksUri = "none"
  /\ apiKeys \in [ApiKeyIds -> {[exists |-> e, revoked |-> FALSE, lastUsedAt |-> Never] : e \in BOOLEAN}]
  /\ visitor = [v \in Visitors |-> NoVisit]
  /\ clock = 0 /\ visits = 0 /\ rotations = 0 /\ hasty = FALSE
  /\ ended = {} /\ begun = Never

Comes(v, pc) == visitor[v].pc = pc
Becomes(v, q) == visitor' = [visitor EXCEPT ![v] = q]
Onto(v, pc) == Becomes(v, [visitor[v] EXCEPT !.pc = pc])
Refreshing == {v \in Visitors : visitor[v].pc \in {"discovering", "fetching", "receiving"}}
Enters == visits < MaxVisits /\ visits' = visits + 1

-----------------------------------------------------------------------------
\* oidcStrategy(): authenticate() up to its first await.

unknownKey(kid) == keys = {} \/ kid \notin keys

\* verifyJwt() picks the key before it awaits; a token is signed with the key it names.
Verdict(kid) == IF kid \in keys THEN "200" ELSE "401"

Bearer(v, kid) ==
  LET refreshes == unknownKey(kid) /\ clock - lastRefresh >= Refresh
  IN /\ Comes(v, "idle") /\ Enters
     /\ lastRefresh' = IF refreshes THEN clock ELSE lastRefresh
     /\ begun' = IF refreshes THEN clock ELSE begun
     /\ hasty' = (hasty \/ (refreshes /\ clock - begun < Refresh))
     /\ jwksUri' = IF refreshes /\ jwksUri = "none" THEN "pending" ELSE jwksUri
     /\ Becomes(v, [NoVisit EXCEPT !.kid = kid, !.refreshes = refreshes,
                      !.current = kid \in published, !.alone = Refreshing = {},
                      !.pc = IF ~ refreshes THEN Verdict(kid) ELSE IF jwksUri = "known" THEN "fetching" ELSE "discovering"])
     /\ UNCHANGED <<published, keys, apiKeys, clock, rotations, ever, ended>>

\* discover(): one promise for all; a failure is forgotten.
Discovered(ok) ==
  /\ jwksUri = "pending" /\ jwksUri' = IF ok THEN "known" ELSE "none"
  /\ visitor' = [v \in Visitors |-> IF Comes(v, "discovering") THEN [visitor[v] EXCEPT !.pc = IF ok THEN "fetching" ELSE "503"]
                                  ELSE visitor[v]]
  /\ UNCHANGED <<published, keys, lastRefresh, apiKeys, clock, visits, rotations, seen>>

\* The provider answers with what it publishes now, or fails.
Publishes(v) ==
  /\ Comes(v, "fetching")
  /\ Becomes(v, [visitor[v] EXCEPT !.pc = "receiving", !.got = published]) \/ Onto(v, "503")
  /\ UNCHANGED <<published, keys, lastRefresh, jwksUri, apiKeys, clock, visits, rotations, seen>>

RefreshKeys(v) ==
  /\ Comes(v, "receiving") /\ keys' = visitor[v].got
  /\ visitor' = [u \in Visitors |-> IF u = v THEN [visitor[v] EXCEPT !.pc = "verifying"]
                                  ELSE IF Comes(u, "verifying") THEN [visitor[u] EXCEPT !.alone = FALSE] ELSE visitor[u]]
  /\ UNCHANGED <<published, lastRefresh, jwksUri, apiKeys, clock, visits, rotations, seen>>

Verify(v) ==
  /\ Comes(v, "verifying") /\ Onto(v, Verdict(visitor[v].kid))
  /\ UNCHANGED <<published, keys, lastRefresh, jwksUri, apiKeys, clock, visits, rotations, seen>>

Rotate ==
  /\ rotations < MaxRotations /\ rotations' = rotations + 1
  /\ \E k \in KeyIds, kept \in {{}, published} : published' = {k} \cup kept /\ ever' = ever \cup {k}
  /\ visitor' = [v \in Visitors |-> [visitor[v] EXCEPT !.current = @ /\ visitor[v].kid \in published']]
  /\ UNCHANGED <<keys, lastRefresh, jwksUri, apiKeys, clock, visits, begun, hasty, ended>>

-----------------------------------------------------------------------------
\* apiKeyStrategy() and its store.

insert(k) == /\ ~ apiKeys[k].exists
             /\ apiKeys' = [apiKeys EXCEPT ![k].exists = TRUE] /\ UNCHANGED ended
revoke(k) == /\ apiKeys[k].exists
             /\ apiKeys' = [apiKeys EXCEPT ![k].revoked = TRUE] /\ ended' = ended \cup {k}

\* createApiKey() and revokeApiKey().
Manage(k) == (insert(k) \/ revoke(k))
             /\ UNCHANGED <<published, keys, lastRefresh, jwksUri, visitor, clock, visits, rotations, ever, begun, hasty>>

Presents(v, k) ==
  /\ Comes(v, "idle") /\ Enters
  /\ Becomes(v, [NoVisit EXCEPT !.pc = "finding", !.apiKey = k, !.revoked = k \in ended])
  /\ UNCHANGED <<published, keys, lastRefresh, jwksUri, apiKeys, clock, rotations, seen>>

\* The record found decides; the time it was last used is written once an interval.
Find(v) ==
  LET record == apiKeys[visitor[v].apiKey]
  IN /\ Comes(v, "finding")
     /\ Becomes(v, [visitor[v] EXCEPT !.at = clock,
          !.pc = IF ~ record.exists \/ record.revoked THEN "401"
                 ELSE IF record.lastUsedAt = Never \/ clock - record.lastUsedAt >= TouchAfter THEN "touching" ELSE "200"])
     /\ UNCHANGED <<published, keys, lastRefresh, jwksUri, apiKeys, clock, visits, rotations, seen>>

\* Mutant: the record found is written back.
touchRecord(v) ==
  /\ Comes(v, "touching") /\ Onto(v, "200")
  /\ apiKeys' = [apiKeys EXCEPT ![visitor[v].apiKey] = [exists |-> TRUE, revoked |-> FALSE, lastUsedAt |-> visitor[v].at]]
  /\ UNCHANGED <<published, keys, lastRefresh, jwksUri, clock, visits, rotations, seen>>

touch(v) ==
  /\ Comes(v, "touching") /\ Onto(v, "200")
  /\ apiKeys' = [apiKeys EXCEPT ![visitor[v].apiKey].lastUsedAt = visitor[v].at]
  /\ UNCHANGED <<published, keys, lastRefresh, jwksUri, clock, visits, rotations, seen>>

Decided == {"200", "401", "503"}

GoesAway(v) ==
  /\ visitor[v].pc \in Decided /\ Becomes(v, NoVisit)
  /\ UNCHANGED <<published, keys, lastRefresh, jwksUri, apiKeys, clock, visits, rotations, seen>>

Ticks == /\ clock < AuthEnd /\ clock' = clock + 1
         /\ UNCHANGED <<published, keys, lastRefresh, jwksUri, apiKeys, visitor, visits, rotations, seen>>

AuthNext ==
  \/ \E v \in Visitors : \/ \E kid \in KeyIds \cup {Junk} : Bearer(v, kid)
                         \/ \E k \in ApiKeyIds : Presents(v, k)
                         \/ Publishes(v) \/ RefreshKeys(v) \/ Verify(v) \/ Find(v) \/ touch(v) \/ GoesAway(v)
  \/ \E ok \in BOOLEAN : Discovered(ok)
  \/ \E k \in ApiKeyIds : Manage(k)
  \/ Rotate \/ Ticks

AuthSpec == AuthInit /\ [][AuthNext]_authVars

-----------------------------------------------------------------------------
\* Tokens the app signs (jwt.ts); times in parts of a second.

PerSecond == 2
floorSeconds(t) == t \div PerSecond

signJwt(kid, ttl, now) ==
  [kid |-> kid, iat |-> floorSeconds(now), exp |-> floorSeconds(now) + floorSeconds(ttl)]

checkClaims(token, skew, now) ==
  /\ now <= (token.exp + skew) * PerSecond
  /\ token.iat * PerSecond <= now + skew * PerSecond

\* The key of a token among keys [kid, alg], a kid of NoKid being none.
NoKid == "none"
selectKey(held, alg, kid) ==
  LET candidates == {n \in DOMAIN held : held[n].alg = alg}
      With(name) == {n \in candidates : held[n].kid = name}
      choice == IF kid = NoKid THEN candidates ELSE IF With(kid) # {} THEN With(kid) ELSE With(NoKid)
  IN IF choice = {} THEN {} ELSE {held[Min(choice)]}

-----------------------------------------------------------------------------
\* authenticate(): a request carries [cookie, bearer, apiKey], each "none", "valid" or "bad"; an API
\* key in the Authorization header counts as an apiKey (jwt.ts:178).

Principal(via) == [via |-> via]
Anonymous == Principal("nobody")
Refused == Principal("401")

\* A stale session cookie is cleared and ignored, what else is presented and bad is refused.
Strategies ==
  [session |-> [credential |-> "cookie", bad |-> Anonymous],
   jwt     |-> [credential |-> "bearer", bad |-> Refused],
   apiKey  |-> [credential |-> "apiKey", bad |-> Refused]]

Tries(name, carried) ==
  LET value == carried[Strategies[name].credential]
  IN CASE value = "none" -> Anonymous [] value = "valid" -> Principal(name) [] value = "bad" -> Strategies[name].bad

\* The first strategy that recognises a credential, or throws at one, decides.
authenticate(strategies, carried) ==
  LET tried == [n \in DOMAIN strategies |-> Tries(strategies[n], carried)]
      decisive == {n \in DOMAIN tried : tried[n] # Anonymous}
  IN IF decisive = {} THEN Anonymous ELSE tried[Min(decisive)]

\* A granted permission is exact, or ends in a wildcard that covers all below.
Grants(g, p) == g = p \/ (Last(g) = "*" /\ Len(g) <= Len(p) /\ Front(g) = SubSeq(p, 1, Len(g) - 1))

requirePermission(principal, held, required) ==
  IF principal = Anonymous THEN 401
  ELSE IF \A p \in required : \E g \in held : Grants(g, p) THEN 200 ELSE 403

\* csrf(): headers [site, origin, referer, cookie]; an origin or referer is "own", "other" or "none".
csrf(method, via, h) ==
  \/ method \in {"GET", "HEAD", "OPTIONS"} \/ via \in {"jwt", "apiKey"}
  \/ IF h.site # "none" THEN h.site = "same-origin" \/ h.origin = "own"
     ELSE IF h.origin # "none" THEN h.origin = "own"
     ELSE IF h.referer # "none" THEN h.referer = "own" ELSE ~ h.cookie

-----------------------------------------------------------------------------
\* createAuth(): features are [id, requires, strategies, guarded], a requirement a sequence of which
\* one will do; guarded: it adds csrf().

Feature(id, requires, strategies, guarded) ==
  [id |-> id, requires |-> requires, strategies |-> strategies, guarded |-> guarded]

sessionsFeature == Feature("sessions", <<<<"core">>>>, <<"session">>, TRUE)
jwtFeature == Feature("jwt", <<<<"core">>>>, <<"jwt">>, FALSE)
apiKeysFeature == Feature("apiKeys", <<<<"core">>>>, <<"apiKey">>, FALSE)

Named(features, id) == features[CHOOSE n \in DOMAIN features : features[n].id = id]

\* A list of ids to place in turn, with those in visiting under way; done: [ok, ordered], ok turning
\* FALSE in a cycle.
Places(ids) == [ok : BOOLEAN, ordered : Seq(ids)]
Work(ids, names) == [list : Seq(names), visiting : SUBSET ids, done : Places(ids)]

\* What has been placed when the last of the list is, where placed[u] is what u comes to.
place(needs, placed, w) ==
  LET id == Last(w.list)
      before == placed[[w EXCEPT !.list = Front(@)]]
      after == placed[[list |-> needs[id], visiting |-> w.visiting \cup {id}, done |-> before]]
  IN IF w.list = <<>> THEN w.done
     ELSE IF ~ before.ok \/ id \notin DOMAIN needs \/ id \in ToSet(before.ordered) THEN before
     ELSE IF id \in w.visiting THEN [before EXCEPT !.ok = FALSE]
     ELSE IF after.ok THEN [after EXCEPT !.ordered = Append(@, id)] ELSE after

orderFeatures(features) ==
  LET ids == {features[n].id : n \in DOMAIN features}
      needs == [id \in ids |-> FlattenSeq(Named(features, id).requires)]
      names == ids \cup UNION {ToSet(needs[id]) : id \in ids}
      listed == /\ Cardinality(ids) = Len(features)
                /\ \A f \in ToSet(features) : \A options \in ToSet(f.requires) : ToSet(options) \cap ids # {}
      nothing == [ok |-> TRUE, ordered |-> <<>>]
      placed[w \in Work(ids, names)] == place(needs, placed, w)
  IN IF listed THEN placed[[list |-> [n \in DOMAIN features |-> features[n].id], visiting |-> {}, done |-> nothing]]
     ELSE [nothing EXCEPT !.ok = FALSE]

\* What the app runs a request through: the strategies in the order of the features, then the rest.
install(features) ==
  LET order == orderFeatures(features).ordered
      ordered == [n \in DOMAIN order |-> Named(features, order[n])]
  IN [strategies |-> FlattenSeq([n \in DOMAIN ordered |-> ordered[n].strategies]),
      guarded |-> \E n \in DOMAIN ordered : ordered[n].guarded]

\* JwtIssuer.issue(): claims a caller adds, as [name, value], and those of its subject.
Reserved == {"sub", "exp", "roles"}
issue(subject, extra) == {c \in extra : c.name \notin Reserved} \cup {[name |-> n, value |-> subject] : n \in Reserved}

-----------------------------------------------------------------------------
\* Properties.

\* The provider is asked at most once an interval, however many requests come with keys nobody
\* knows while it answers (oidc.ts:65); what is accepted was signed with a key it published, and
\* who asked it is refused only if it no longer, or not yet, publishes the key, or a slower
\* answer to another request has put older keys back.
KeysRotate ==
  /\ ~ hasty /\ keys \subseteq ever
  /\ \A v \in Visitors : LET q == visitor[v] IN q.apiKey = Junk =>
       /\ q.pc = "200" => q.kid \in ever
       /\ q.pc = "401" /\ q.refreshes => ~ q.current \/ ~ q.alone
       /\ q.pc = "503" => q.refreshes

\* A revoked key is refused for good, whoever is writing down the time it was used
\* (api-keys.ts:76), and at most the requests that found it before still pass.
RevokedStays == \A v \in Visitors : visitor[v].pc = "200" /\ visitor[v].apiKey # Junk => ~ visitor[v].revoked

\* A token holds from its signing for its time to live, rounded to seconds, on every instance
\* whose clock is within the skew, and no longer than the skew allows (jwt.ts:143).
TokensExpire ==
  \A now \in 4 .. 7, ttl \in 0 .. 5, later \in 0 .. 16, skew \in {0, 1} :
    LET valid == checkClaims(signJwt(Junk, ttl, now), skew, later)
    IN /\ later \in now - skew * PerSecond .. (floorSeconds(now) + floorSeconds(ttl) + skew) * PerSecond => valid
       /\ valid => later \in now - PerSecond - skew * PerSecond .. now + ttl + skew * PerSecond

\* The key has the algorithm of the token, and another one's name only if it has none.
KeyFits ==
  LET all == {[kid |-> kid, alg |-> alg] : kid \in {"a", "b", NoKid}, alg \in {"HS256", "RS256"}}
  IN \A held \in all \X all \X all, alg \in {"HS256", "RS256"}, kid \in {"a", "b", NoKid} :
       LET key == selectKey(held, alg, kid)
       IN /\ \A k \in key : k.alg = alg /\ (kid # NoKid => k.kid \in {kid, NoKid})
          /\ key = {} => \A n \in DOMAIN held : ~ (held[n].alg = alg /\ held[n].kid \in {kid, NoKid})

Authenticating == {Feature("core", <<>>, <<>>, FALSE), sessionsFeature, jwtFeature, apiKeysFeature}
Carried == LET Value == {"none", "valid", "bad"} IN [cookie : Value, bearer : Value, apiKey : Value]

\* Headers that browsers send, by what they know of, when a page of another site makes them.
Forged ==
  {[site |-> "cross-site", origin |-> "other", referer |-> r, cookie |-> TRUE] : r \in {"none", "other"}}
  \cup {[site |-> "none", origin |-> o, referer |-> "other", cookie |-> TRUE] : o \in {"none", "other"}}
  \cup {[site |-> "none", origin |-> "none", referer |-> "none", cookie |-> TRUE]}

Heeds(installed, carried) ==
  LET strategies == installed.strategies
      found == authenticate(strategies, carried)
  IN /\ found = Anonymous => \A n \in DOMAIN strategies :
          carried[Strategies[strategies[n]].credential] \in IF strategies[n] = "session" THEN {"none", "bad"} ELSE {"none"}
     /\ found.via = "session" => installed.guarded /\ \A h \in Forged : ~ csrf("POST", found.via, h)

\* A bad token never makes a request anonymous, in whatever order the features are listed
\* (authenticate.ts:9); an app with sessions refuses the forms and scripts of other sites that
\* act with the cookie of a user, whichever of the headers the browser knows (csrf.ts:38).
NobodySlipsIn ==
  \A features \in SetToAllKPermutations(Authenticating), carried \in Carried :
    orderFeatures(features).ok => Heeds(install(features), carried)

\* A wildcard grants what lies below it and nothing else, to nobody who is not known
\* (permissions.ts:19), and a caller cannot issue itself more than its subject has.
NobodyGrantsMore ==
  /\ \A p \in UNION {[1 .. n -> {"users", "read"}] : n \in 1 .. 3} :
       /\ requirePermission(Anonymous, {<<"*">>}, {p}) = 401
       /\ requirePermission(Principal("jwt"), {<<"users", "*">>}, {p}) = IF Len(p) > 1 /\ p[1] = "users" THEN 200 ELSE 403
  /\ \A extra \in SUBSET [name : {"sub", "exp", "email"}, value : {"me", "you"}] :
       {c.value : c \in {c \in issue("me", extra) : c.name \in Reserved}} = {"me"}

Packaged ==
  LET Other(id, requires) == Feature(id, requires, <<>>, FALSE)
  IN {Other("core", <<>>), sessionsFeature, jwtFeature, Other("login", <<<<"core">>, <<"sessions", "jwt">>>>),
      Other("own", <<<<"odd">>>>), Other("odd", <<<<"own", "core">>>>)}
Needs(features, f) == ToSet(FlattenSeq(f.requires)) \cap {g.id : g \in ToSet(features)}
Position(list, id) == CHOOSE n \in DOMAIN list : list[n] = id

\* Features come after all that they require and that is listed, each once, and one moves behind
\* another only if that one, or one before it, needs the other (compose.ts:88).
BehindNeeds(features) ==
  LET result == orderFeatures(features)
      ids == {f.id : f \in ToSet(features)}
      given == [n \in DOMAIN features |-> features[n].id]
  IN /\ result.ok => /\ ToSet(result.ordered) = ids /\ Len(result.ordered) = Len(features)
                     /\ \A f \in ToSet(features), need \in ids :
                          need \in Needs(features, f) => Position(result.ordered, need) < Position(result.ordered, f.id)
                     /\ \A a, b \in ids : Position(given, a) < Position(given, b) /\ Position(result.ordered, b) < Position(result.ordered, a) =>
                          \E f, g \in ToSet(features) :
                            Position(given, f.id) <= Position(given, a) /\ (g = f \/ g.id \in Needs(features, f)) /\ b \in Needs(features, g)
     /\ {"own", "odd"} \subseteq ids => ~ result.ok

FeaturesInOrder == \A features \in SetToAllKPermutations(Packaged) : BehindNeeds(features)

AuthHolds == KeysRotate /\ RevokedStays /\ TokensExpire /\ KeyFits /\ NobodySlipsIn /\ NobodyGrantsMore /\ FeaturesInOrder
=============================================================================
