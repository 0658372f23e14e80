------------------------------ MODULE Requests ------------------------------
(***************************************************************************)
(* One request through an App (packages/core/src/app.ts process and        *)
(* middleware.ts compose): inwards through the app's middleware, the       *)
(* router and the route's own to the handler, and the answer outwards      *)
(* again.  "outer" and "inner" are middleware of the program, which may do *)
(* anything a middleware can; "limit", "security" and "cors" are the       *)
(* framework's.  Also what is known of the client (client-ip.ts) and which *)
(* uploads are accepted (upload.ts).                                       *)
(***************************************************************************)
EXTENDS Integers, Sequences, SequencesExt, FiniteSets

CONSTANTS
  Incoming,   \* bound: requests, as records of what is looked at in them
  Settings,   \* bound: options of the app
  MaxBody,    \* maxBodySize
  RouteLimit  \* the bodyLimit() of the inner middleware

ASSUME RequestsAssumption ==
  /\ MaxBody \in Nat /\ RouteLimit \in Nat
  /\ Settings \subseteq [exposeErrors : BOOLEAN, errorHandler : BOOLEAN, cors : {"*", "list", "credentials"}]
  /\ Incoming \subseteq [method : STRING \ {"none"}, origin : STRING, secure : BOOLEAN, size : Nat,
                         declared : BOOLEAN, preflight : BOOLEAN, route : STRING, upgrade : BOOLEAN]

VARIABLES
  settings,   \* options of the app
  request,
  at, inward, \* the layer in control, and whether it has yet to call next()
  response,   \* what the layer below answered
  pending,    \* ctx.status(), or 0
  limit,      \* ctx.bodyLimitBytes
  jar,        \* layers that set a cookie
  upgraded,   \* the socket is open
  entered,    \* history: [layers -> how often each was entered]
  taken       \* history: bytes that a reader of the body got

requestVars == <<settings, request, at, inward, response, pending, limit, jar, upgraded, entered, taken>>

Layers == <<"limit", "security", "cors", "outer", "router", "inner", "handler">>
Layer(n) == n \in DOMAIN Layers /\ at = n
OfProgram == {4, 6}
Handling == 7
Unbounded == MaxBody + 1
NoResponse == [status |-> 0, headers |-> <<>>, body |-> FALSE, reveals |-> FALSE]
NoIncoming == [method |-> "none", origin |-> "none", secure |-> FALSE, size |-> 0, declared |-> FALSE,
               preflight |-> FALSE, route |-> "none", upgrade |-> FALSE]

-----------------------------------------------------------------------------
\* Responses.

withHeader(r, name, value) ==
  [r EXCEPT !.headers = [x \in {name} \cup DOMAIN r.headers |-> IF x = name THEN value ELSE r.headers[x]]]
Plain(status) == [status |-> status, headers |-> <<>>, body |-> status # 204, reveals |-> FALSE]

\* respond(): an explicit status, else that of ctx.status(), else the builder's own.
BuiltFrom(explicit, fallback) ==
  Plain(IF explicit # 0 THEN explicit ELSE IF pending # 0 THEN pending ELSE fallback)

\* toResponse(): a handler's own Response stays as it is.
HandlerReplies == {withHeader(Plain(200), "csp", "own"), BuiltFrom(0, 204), BuiltFrom(0, 200), BuiltFrom(404, 200)}

\* What may be thrown: HttpErrors, with their own headers, and anything else.
Thrown == {[status |-> 403, http |-> TRUE], [status |-> 503, http |-> TRUE], [status |-> 500, http |-> FALSE]}
HttpError(status) == [status |-> status, http |-> TRUE]

errorResponse(error) ==
  [Plain(error.status) EXCEPT !.reveals = error.status >= 500 /\ settings.exposeErrors]

\* The program's onError() answers, declines, or throws itself.
handleError(error) ==
  {errorResponse(error)} \cup IF settings.errorHandler THEN {BuiltFrom(0, 200), BuiltFrom(error.status, 200)} ELSE {}

-----------------------------------------------------------------------------
\* compose().

Inwards ==
  /\ at' = at + 1 /\ inward' = TRUE /\ entered' = [entered EXCEPT ![at + 1] = @ + 1]
  /\ UNCHANGED <<settings, request, response, upgraded>>

Respond(r) ==
  /\ at' = at - 1 /\ inward' = FALSE /\ response' = r
  /\ UNCHANGED <<settings, request, entered>>

\* What is thrown in a layer is a response when the layer above sees it.
Throw(error) == \E r \in handleError(error) : Respond(r)

\* Mutant: next() may be called again.
CallNextAgain == at \in OfProgram /\ ~ inward /\ Inwards /\ UNCHANGED <<pending, limit, jar, taken>>

NextAgain ==
  /\ at \in OfProgram /\ ~ inward
  /\ Throw([status |-> 500, http |-> FALSE]) /\ UNCHANGED <<pending, limit, jar, upgraded, taken>>

Receive(q) ==
  /\ at = 0 /\ request = NoIncoming
  /\ request' = q /\ at' = 1 /\ inward' = TRUE /\ response' = NoResponse
  /\ entered' = [n \in DOMAIN Layers |-> IF n = 1 THEN 1 ELSE 0]
  /\ pending' = 0 /\ limit' = Unbounded /\ jar' = {} /\ upgraded' = FALSE /\ taken' = 0
  /\ UNCHANGED settings

\* enforceBodyLimit(), of the app and of bodyLimit().
Lowered(bytes) == limit' = IF bytes < limit THEN bytes ELSE limit
LimitBody(n, bytes) ==
  /\ Layer(n) /\ inward /\ Lowered(bytes) /\ UNCHANGED <<pending, jar, taken>>
  /\ IF request.declared /\ request.size > bytes THEN Throw(HttpError(413)) /\ UNCHANGED upgraded ELSE Inwards

Passes == inward /\ Inwards /\ UNCHANGED <<pending, limit, jar, taken>>
Returns(r) == Respond(r) /\ UNCHANGED <<pending, limit, jar, upgraded, taken>>

-----------------------------------------------------------------------------
\* securityHeaders() and cors(), on the way out.

Unless(r, name, value) == IF name \in DOMAIN r.headers THEN r ELSE withHeader(r, name, value)

SecurityHeaders ==
  /\ Layer(2)
  /\ \/ Passes
     \/ ~ inward /\ LET r == Unless(response, "csp", "default")
                    IN Returns(IF request.secure THEN Unless(r, "hsts", "default") ELSE r)

isAllowed(origin) == settings.cors = "*" \/ origin = "listed"

\* The origin a response is shared with, and whether with credentials.
Shared(r) ==
  LET to == withHeader(r, "allow-origin", IF settings.cors = "*" THEN "*" ELSE request.origin)
  IN IF settings.cors = "credentials" THEN withHeader(to, "allow-credentials", "true") ELSE to

Cors ==
  /\ Layer(3)
  /\ LET allowed == request.origin # "none" /\ isAllowed(request.origin)
         varies == IF request.origin # "none" /\ settings.cors # "*" THEN withHeader(response, "vary", "origin") ELSE response
         asked == request.method = "OPTIONS" /\ request.origin # "none" /\ request.preflight
         reply == withHeader(Plain(204), "vary", "origin")
     IN \/ ~ asked /\ Passes
        \/ asked /\ inward /\ Returns(IF allowed THEN Shared(reply) ELSE reply)
        \/ ~ inward /\ Returns(IF allowed THEN Shared(varies) ELSE varies)

-----------------------------------------------------------------------------
\* Middleware of the program, the router, the handler.

SetsCookie == jar' = jar \cup {at} /\ at \in OfProgram \cup {Handling} /\ inward
              /\ UNCHANGED <<settings, request, at, inward, response, pending, limit, upgraded, entered, taken>>

Program(n) ==
  /\ Layer(n)
  /\ \/ n # 6 /\ Passes                                     \* the inner one calls bodyLimit() instead
     \/ ~ inward /\ (Returns(response) \/ NextAgain)
     \/ \E error \in Thrown : Throw(error) /\ UNCHANGED <<pending, limit, jar, upgraded, taken>>
     \/ Returns(Plain(200))

\* runRoute(): what the route table found.
RunRoute ==
  /\ Layer(5)
  /\ \/ request.route \in {"plain", "socket"} /\ Passes
     \/ ~ inward /\ Returns(response)
     \/ /\ inward /\ request.route = "other method"
        /\ IF request.method = "OPTIONS" THEN Returns(Plain(204))
           ELSE Throw(HttpError(405)) /\ UNCHANGED <<pending, limit, jar, upgraded, taken>>
     \/ inward /\ request.route = "no route" /\ Throw(HttpError(404)) /\ UNCHANGED <<pending, limit, jar, upgraded, taken>>

\* The bytes read, or none at all: a reader stops at the limit, declared or not.
readLimited == IF request.size > limit THEN {} ELSE {request.size}

\* RequestBody: a body is read once.
Reads ==
  /\ Layer(Handling) /\ request.route = "plain" /\ request.size > 0 /\ taken = 0
  /\ UNCHANGED <<pending, limit, jar, upgraded>>
  /\ \/ readLimited = {} /\ Throw(HttpError(413)) /\ UNCHANGED taken
     \/ taken' \in readLimited /\ UNCHANGED <<settings, request, at, inward, response, entered>>

Handle ==
  /\ Layer(Handling) /\ request.route = "plain" /\ UNCHANGED <<limit, jar, upgraded, taken>>
  /\ \/ pending' = 201 /\ UNCHANGED <<settings, request, at, inward, response, entered>>
     \/ UNCHANGED pending /\ \/ \E r \in HandlerReplies : Respond(r)
                             \/ \E error \in Thrown : Throw(error)

isAllowedOrigin == request.origin \in {"none", "own", "listed"}

\* websocket(): refused, failed, or the server has taken the connection over.
Upgrade ==
  /\ Layer(Handling) /\ request.route = "socket" /\ UNCHANGED <<pending, limit, jar, taken>>
  /\ \/ Throw(HttpError(503)) /\ UNCHANGED upgraded            \* the app is going down
     \/ IF ~ isAllowedOrigin THEN Throw(HttpError(403)) /\ UNCHANGED upgraded
        ELSE IF ~ request.upgrade THEN Throw(HttpError(426)) /\ UNCHANGED upgraded
        ELSE \/ \E error \in {HttpError(400)} \cup Thrown : Throw(error) /\ UNCHANGED upgraded
             \/ upgraded' = TRUE /\ Respond(Plain(200))

\* process(): cookies, HEAD and the request id; an upgraded request has no answer.
Finish ==
  /\ at = 0 /\ request # NoIncoming /\ response # NoResponse
  /\ LET cookies == IF jar = {} THEN response ELSE withHeader(response, "set-cookie", jar)
         short == IF request.method = "HEAD" THEN [cookies EXCEPT !.body = FALSE] ELSE cookies
     IN response' = IF upgraded THEN NoResponse ELSE withHeader(short, "x-request-id", "id")
  /\ at' = Len(Layers) + 1
  /\ UNCHANGED <<settings, request, inward, pending, limit, jar, upgraded, entered, taken>>

RequestsInit ==
  /\ settings \in Settings
  /\ request = NoIncoming /\ at = 0 /\ inward = TRUE /\ response = NoResponse
  /\ pending = 0 /\ limit = Unbounded /\ jar = {} /\ upgraded = FALSE
  /\ entered = [n \in DOMAIN Layers |-> 0] /\ taken = 0

RequestsNext ==
  \/ \E q \in Incoming : Receive(q)
  \/ LimitBody(1, MaxBody) \/ LimitBody(6, RouteLimit)
  \/ Layer(1) /\ ~ inward /\ Returns(response)
  \/ SecurityHeaders \/ Cors \/ SetsCookie \/ RunRoute \/ Reads \/ Handle \/ Upgrade \/ Finish
  \/ \E n \in OfProgram : Program(n)
-----------------------------------------------------------------------------
\* The client's address (client-ip.ts): [version, value] with Width bits, version 0 not parsing.

Width == 2

\* An address is in one of the ranges [version, value, prefix].
ipMatcher(ranges, address) ==
  \E r \in ranges : LET hosts == 2 ^ (Width - r.prefix)
                   IN r.version = address.version /\ address.value \div hosts = r.value \div hosts

\* trustProxy: a set of ranges, or so many hops.
isTrustedHop(trust, address, hops) ==
  IF trust.kind = "hops" THEN hops < trust.hops ELSE ipMatcher(trust.ranges, address)

\* From the server outwards: a hop counts if all those nearer to the server are trusted and no
\* entry up to it fails to parse.
resolveClient(peer, forwarded, trust) ==
  LET chain == Append(forwarded, peer)
      Vouched(i) == \A j \in i + 1 .. Len(chain) :
                      isTrustedHop(trust, chain[j], Len(chain) - j) /\ chain[j - 1].version # 0
  IN chain[CHOOSE i \in DOMAIN chain : Vouched(i) /\ \A j \in 1 .. i - 1 : ~ Vouched(j)]

-----------------------------------------------------------------------------
\* Uploads (upload.ts): a file is [size, shows, declared]; it shows a binary type, "text" or nothing.

SIGNATURES == {"png", "pdf"}
TEXT_TYPES == {"text/plain", "text/csv"}

sniff(file, allowed) ==
  LET texts == allowed \cap TEXT_TYPES
  IN IF file.shows \in SIGNATURES THEN {file.shows} \cap allowed
     ELSE IF file.shows # "text" THEN {}
     ELSE IF file.declared \in texts THEN {file.declared} ELSE texts

\* The types of the files accepted, or none at all.
checkUploads(files, rules) ==
  IF \/ Len(files) > rules.maxFiles
     \/ rules.required /\ files = <<>>
     \/ \E n \in DOMAIN files : files[n].size > rules.maxSize \/ sniff(files[n], rules.types) = {}
  THEN {} ELSE {[n \in DOMAIN files |-> CHOOSE t \in sniff(files[n], rules.types) : TRUE]}

-----------------------------------------------------------------------------
\* Properties.

Responded == at = Len(Layers) + 1
Has(name) == name \in DOMAIN response.headers

\* However middleware calls next(), answers itself or throws, nothing in a chain runs twice and
\* nothing runs behind a layer that did not let the request through (middleware.ts:27).
OnlyOnce == \A n \in DOMAIN Layers : entered[n] <= 1 /\ (n > 1 => entered[n] <= entered[n - 1])

\* Every answer has the request's id and the cookies set by anything that ran, whatever was
\* thrown or replaced after that (app.ts:374); a socket that is open gets none.
InFull ==
  Responded => IF upgraded THEN response = NoResponse /\ isAllowedOrigin
              ELSE /\ Has("x-request-id") /\ (jar # {} => response.headers["set-cookie"] = jar)
                   /\ request.method = "HEAD" => ~ response.body

\* Errors and answers of middleware have the security headers, too, and those for other origins;
\* only what the app's body limit refuses has not (app.ts:119), as it runs first.
Decorated ==
  Responded /\ ~ upgraded =>
    /\ entered[2] = 1 => Has("csp") /\ (Has("hsts") <=> request.secure)
    /\ entered[2] = 0 => request.declared /\ request.size > MaxBody
    /\ Has("allow-origin") => isAllowed(request.origin) /\ entered[3] = 1
    /\ Has("allow-credentials") => Has("allow-origin") /\ response.headers["allow-origin"] # "*"
    /\ entered[3] = 1 /\ request.origin # "none" /\ settings.cors # "*" => Has("vary")

\* Only a server that is told to shows the inside of an error.
Hidden == response.reveals => settings.exposeErrors

\* A body is never read beyond the app's limit, nor the route's once it is lowered, whether its
\* length was declared or not.
WithinLimit == taken <= MaxBody /\ (entered[Handling] = 1 => taken <= RouteLimit)

\* Whatever a client writes into X-Forwarded-For, its address is the one the proxy next to it
\* saw (client-ip.ts:92).
ClientIsReal ==
  LET At(v) == [version |-> 4, value |-> v]
      proxies == <<At(2), At(3)>>
      lists == [kind |-> "list", hops |-> 0, ranges |-> {[version |-> 4, value |-> 2, prefix |-> 1]}]
      any == {At(v) : v \in 0 .. 3} \cup {[version |-> 0, value |-> 0], [version |-> 6, value |-> 2]}
  IN \A n \in 0 .. 2, client \in {At(0), At(1), [version |-> 6, value |-> 2]}, claimed \in UNION {[1 .. k -> any] : k \in 0 .. 2} :
       LET hops == [kind |-> "hops", hops |-> n, ranges |-> {}]
           chain == claimed \o <<client>> \o SubSeq(proxies, 1, n)
       IN \A trust \in {lists, hops} :
            IF n = 0 THEN resolveClient(client, claimed, trust) = client
            ELSE resolveClient(Last(chain), Front(chain), trust) = client

\* What is accepted shows one of the types that are allowed, and no binary file passes as text.
UploadsFit ==
  \A types \in SUBSET {"png", "text/plain", "text/csv"}, shows \in {"png", "pdf", "text", "none"},
    declared \in {"png", "text/csv"}, size \in 1 .. 2, count \in 0 .. 2 :
      LET rules == [types |-> types, maxSize |-> 1, maxFiles |-> 1, required |-> TRUE]
          accepted == checkUploads([n \in 1 .. count |-> [size |-> size, shows |-> shows, declared |-> declared]], rules)
      IN \A a \in accepted :
           count = 1 /\ size = 1 /\ a[1] \in types /\ (shows = "text" \/ a[1] = shows)

RequestsHold == OnlyOnce /\ InFull /\ Decorated /\ Hidden /\ WithinLimit /\ ClientIsReal /\ UploadsFit
=============================================================================
