------------------------------ MODULE HTTPEdge ------------------------------
(***************************************************************************)
(* The way of a request to its handler: JWTAuth, the layers of RateLimit,  *)
(* the middleware of its route group.  Requests are served concurrently    *)
(* and share the buckets of the rate limiter.                              *)
(***************************************************************************)
EXTENDS Integers, Sequences, FiniteSets, FiniteSetsExt

CONSTANTS
    Requests,       \* requests, each made once
    MaxKeys,        \* entries of the LRU of buckets
    RPS,            \* the rate of each layer
    Configurations, \* the configurations, some of Confs
    Offered,        \* by the kind of limiter: what requests may be, some of HTTPCalls
    MaxSeconds      \* bound: seconds that pass

Limiters == {"off", "memory", "redis"}
Groups == {"system", "client", "admin", "login", "internal"}

\* A token: of the access or of the refresh type, expired, or signed with another
\* key; "basic" is a header that is no bearer token.
Tokens == {"none", "basic", "access", "refresh", "expired", "forged"}

\* wireHTTP and NewHTTPServer: the JWT manager is there if there is a secret, and
\* then the admin group requires a token.
Confs == [jwt : BOOLEAN, serviceKey : BOOLEAN, skip : SUBSET {"admin", "internal"},
          limit : Limiters]

HTTPCalls == Requests \X Groups \X Tokens \X BOOLEAN

\* NewMemoryRateLimitStore replaces a number of keys that is not positive by its own.
ASSUME EdgeAssumption ==
    /\ RPS \in [{"global", "ip", "user"} -> Nat] /\ MaxKeys \in Nat \ {0}
    /\ Configurations \subseteq Confs /\ Offered \in [Limiters -> SUBSET HTTPCalls]

VARIABLES
    conf,           \* the part of the configuration that is about this
    request,        \* of each request: where it is, what it carries, its claims
    bucket,         \* the token buckets that were made, by number
    lru,            \* keys of the LRU, the most recently used last, with their bucket
    passed,         \* history: what each key let through in this second
    spoilt,         \* history: keys that lost their bucket, or whose store failed
    second          \* seconds passed

edgeVars == <<conf, request, bucket, lru, passed, spoilt, second>>

Layers == <<"global", "ip", "user">>
NoClaims == "no claims"

EdgeTypeOK ==
    /\ \A r \in Requests :
        /\ request[r].at \in {"new", "jwt", "limit", "get", "add", "reserve", "cancel", "group",
                              "handler", "refused", "limited"}
        /\ request[r].layer \in DOMAIN Layers
        /\ request[r].claims \in {NoClaims, "access", "refresh"}
    /\ Len(lru) <= MaxKeys /\ second \in 0 .. MaxSeconds
    /\ \A i \in DOMAIN lru : lru[i].bucket \in DOMAIN bucket
    /\ \A k \in DOMAIN passed : passed[k] \in Nat

EdgeInit ==
    /\ conf \in Configurations
    /\ request = [r \in Requests |->
                    [at |-> "new", group |-> "system", token |-> "none", key |-> FALSE,
                     claims |-> NoClaims, layer |-> 1, bucket |-> 0, due |-> 0]]
    /\ bucket = <<>> /\ lru = <<>> /\ second = 0
    /\ passed = [k \in DOMAIN RPS |-> 0] /\ spoilt = {}

\* A request goes on, and is what it was when it came.
Moved(r, at, claims, layer, b, due) ==
    request' = [request EXCEPT ![r] =
        [at |-> at, group |-> request[r].group, token |-> request[r].token,
         key |-> request[r].key, claims |-> claims, layer |-> layer, bucket |-> b, due |-> due]]
Goes(r, at) ==
    Moved(r, at, request[r].claims, request[r].layer, request[r].bucket, request[r].due)
Ended(r, at) == Moved(r, at, NoClaims, 1, 0, 0)
EdgeSame == UNCHANGED <<conf, bucket, lru, passed, spoilt, second>>

\* A request arrives.
Arrive(r, group, token, key) ==
    /\ request[r].at = "new"
    /\ request' = [request EXCEPT ![r] =
        [at |-> IF conf.jwt THEN "jwt" ELSE "limit", group |-> group, token |-> token,
         key |-> key, claims |-> NoClaims, layer |-> 1, bucket |-> 0, due |-> 0]]
    /\ EdgeSame

----------------------------------------------------------------------------
(* JWTAuth and the groups.                                                 *)

\* DefaultJWTSkipPaths, and what jwt.skip_paths adds.
MergeJWTSkipPaths == {"system", "client", "login", "internal"} \cup conf.skip
pathSkipped(group) == group \in MergeJWTSkipPaths

\* ParseToken: the claims, whatever the type of the token.
ParseToken(token) == IF token \in {"access", "refresh"} THEN token ELSE NoClaims

\* On a path that is skipped a good token is still read; elsewhere it is required.
JWTAuth(r) ==
    LET claims == ParseToken(request[r].token) IN
    /\ request[r].at = "jwt"
    /\ Moved(r, IF claims = NoClaims /\ ~ pathSkipped(request[r].group) THEN "refused" ELSE "limit",
             claims, 1, 0, 0)
    /\ EdgeSame

\* Mutant: any token will do.
RequireAuthAny(r) == request[r].claims # NoClaims

RequireAuth(r) == request[r].claims = "access"

InternalServiceAuth(r) == IF conf.serviceKey THEN request[r].key ELSE RequireAuth(r)

\* The group's middleware, then the handler.  (The sample registers no handler of
\* the admin group; an application does.)
Route(r) ==
    LET group == request[r].group
        ok == CASE group = "admin" -> conf.jwt => RequireAuth(r)
                [] group = "internal" -> InternalServiceAuth(r)
                [] OTHER -> TRUE IN
    /\ request[r].at = "group"
    /\ Ended(r, IF ok THEN "handler" ELSE "refused")
    /\ EdgeSame

----------------------------------------------------------------------------
(* RateLimit and its stores.                                               *)

RateLimitSkipPaths == {"system"}
Key(r) == Layers[request[r].layer]

\* The layers are taken in turn, those with a rate; the user's needs claims.
Applies(r, l) == RPS[Layers[l]] > 0 /\ (Layers[l] = "user" => request[r].claims # NoClaims)

AfterLayer(r, done) ==
    LET rest == {l \in DOMAIN Layers : l > done /\ Applies(r, l)} IN
    IF rest = {} THEN Goes(r, "group")
    ELSE Moved(r, IF conf.limit = "memory" THEN "get" ELSE "reserve", request[r].claims,
               Min(rest), 0, 0)

RateLimit(r) ==
    /\ request[r].at = "limit"
    /\ IF conf.limit = "off" \/ request[r].group \in RateLimitSkipPaths
       THEN Goes(r, "group") ELSE AfterLayer(r, 0)
    /\ EdgeSame

InLRU(k) == \E i \in DOMAIN lru : lru[i].key = k
IndexOf(k) == CHOOSE i \in DOMAIN lru : lru[i].key = k
Used(i) == [j \in DOMAIN lru |-> IF j < i THEN lru[j]
                                 ELSE IF j < Len(lru) THEN lru[j + 1] ELSE lru[i]]

\* The bucket that is found for the key is the one the request will take from.
Takes(r, b) == Moved(r, "reserve", request[r].claims, request[r].layer, b, 0)

\* getLimiter under the read lock; a Get also makes the key the last used.
GetLimiter(r) ==
    /\ request[r].at = "get"
    /\ IF InLRU(Key(r))
       THEN LET i == IndexOf(Key(r)) IN
            /\ lru' = Used(i)
            /\ Takes(r, lru[i].bucket)
       ELSE Goes(r, "add") /\ UNCHANGED lru
    /\ UNCHANGED <<conf, bucket, passed, spoilt, second>>

\* A bucket of x/time/rate; its time, last, is counted in tokens.
Full(k) == [rate |-> RPS[k], tokens |-> RPS[k], last |-> 0]
Added(r) == [key |-> Key(r), bucket |-> Len(bucket) + 1]

\* Mutant: what was found under the read lock is not looked up again.
AddLimiterBlindly(r) ==
    /\ request[r].at = "add"
    /\ lru' = SelectSeq(lru, LAMBDA e : e.key # Key(r)) \o <<Added(r)>>
    /\ bucket' = Append(bucket, Full(Key(r)))
    /\ Takes(r, Len(bucket) + 1)
    /\ UNCHANGED <<conf, passed, spoilt, second>>

\* getLimiter under the write lock: looked up again, or made; the least recently
\* used key may have to go.
AddLimiter(r) ==
    /\ request[r].at = "add"
    /\ IF InLRU(Key(r))
       THEN LET i == IndexOf(Key(r)) IN
            /\ lru' = Used(i)
            /\ Takes(r, lru[i].bucket)
            /\ UNCHANGED <<bucket, spoilt>>
       ELSE /\ IF Len(lru) = MaxKeys
               THEN lru' = Tail(lru) \o <<Added(r)>> /\ spoilt' = spoilt \cup {lru[1].key}
               ELSE lru' = lru \o <<Added(r)>> /\ UNCHANGED spoilt
            /\ bucket' = Append(bucket, Full(Key(r)))
            /\ Takes(r, Len(bucket) + 1)
    /\ UNCHANGED <<conf, passed, second>>

Holding(b, n) == [rate |-> b.rate, tokens |-> n, last |-> b.last]

\* Reserve: a token now, or one that is to come, at a time it is told.  (Its delay
\* is read at once.)
Reserve(r) ==
    /\ request[r].at = "reserve" /\ conf.limit = "memory"
    /\ LET b == request[r].bucket
           left == bucket[b].tokens - 1 IN
        /\ bucket' = [bucket EXCEPT ![b] = Holding(bucket[b], left)]
        /\ IF left >= 0
           THEN AfterLayer(r, request[r].layer) /\ passed' = [passed EXCEPT ![Key(r)] = @ + 1]
           ELSE /\ Moved(r, "cancel", request[r].claims, request[r].layer, b, bucket[b].last - left)
                /\ UNCHANGED passed
    /\ UNCHANGED <<conf, lru, spoilt, second>>

\* CancelAt gives the token back unless its time has passed, or another was reserved
\* after it: the debt of the bucket is then not what it was.
GivesBack(r) ==
    LET b == bucket[request[r].bucket]
        owed == request[r].due - b.last IN
    owed >= 0 /\ b.tokens = - owed

Cancel(r) ==
    /\ request[r].at = "cancel"
    /\ LET b == request[r].bucket IN
        bucket' = [bucket EXCEPT ![b] =
                    Holding(bucket[b], bucket[b].tokens + (IF GivesBack(r) THEN 1 ELSE 0))]
    /\ Ended(r, "limited")
    /\ UNCHANGED <<conf, lru, passed, spoilt, second>>

\* Redis counts by itself; if it fails the request is let through.
RedisAllow(r) ==
    /\ request[r].at = "reserve" /\ conf.limit = "redis"
    /\ IF passed[Key(r)] < RPS[Key(r)]
       THEN AfterLayer(r, request[r].layer) /\ passed' = [passed EXCEPT ![Key(r)] = @ + 1]
       ELSE Ended(r, "limited") /\ UNCHANGED passed
    /\ UNCHANGED <<conf, bucket, lru, spoilt, second>>

RedisFails(r) ==
    /\ request[r].at = "reserve" /\ conf.limit = "redis"
    /\ AfterLayer(r, request[r].layer) /\ passed' = [passed EXCEPT ![Key(r)] = @ + 1]
    /\ spoilt' = spoilt \cup {Key(r)}
    /\ UNCHANGED <<conf, bucket, lru, second>>

Smaller(m, n) == IF m < n THEN m ELSE n

\* A second passes: every bucket gets its rate back, no more than it holds.
Second ==
    /\ second < MaxSeconds /\ second' = second + 1
    /\ bucket' = [b \in DOMAIN bucket |->
                    [rate |-> bucket[b].rate, last |-> bucket[b].last + bucket[b].rate,
                     tokens |-> bucket[b].rate + Smaller(bucket[b].tokens, 0)]]
    /\ passed' = [k \in DOMAIN RPS |-> 0]
    /\ UNCHANGED <<conf, request, lru, spoilt>>

EdgeNext ==
    \/ \E r \in Requests :
        \/ \E g \in Groups, t \in Tokens, key \in BOOLEAN :
            <<r, g, t, key>> \in Offered[conf.limit] /\ Arrive(r, g, t, key)
        \/ JWTAuth(r) \/ RateLimit(r)
        \/ GetLimiter(r) \/ AddLimiter(r) \/ Reserve(r) \/ Cancel(r)
        \/ RedisAllow(r) \/ RedisFails(r) \/ Route(r)
    \/ Second

EdgeSpec == EdgeInit /\ [][EdgeNext]_edgeVars

----------------------------------------------------------------------------
(* Properties.                                                             *)

\* The skip lists open no door by themselves: whatever paths the configuration
\* adds to them, and whether a JWT secret or a service key is set, a handler of the
\* admin group runs only for an access token while there is a secret, and one of
\* the internal group only for the service key or, without one, an access token;
\* a refresh token is good for neither (auth.go 29-186, paths.go 34-82, app/http.go 28-30).
HandlerNeedsCredentials ==
    \A r \in Requests : request[r].at = "handler" =>
        /\ request[r].group = "admin" /\ conf.jwt => request[r].token = "access"
        /\ request[r].group = "internal" =>
            IF conf.serviceKey THEN request[r].key ELSE conf.jwt /\ request[r].token = "access"

\* Between two refills no key lets more requests through than its rate, however
\* many of them make its bucket at the same time or give tokens back, as long as
\* the bucket was not evicted and the store did not fail (ratelimit.go 46-100).
RateHolds == \A k \in DOMAIN RPS \ spoilt : RPS[k] > 0 => passed[k] <= RPS[k]
=============================================================================
