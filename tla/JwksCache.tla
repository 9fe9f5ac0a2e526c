------------------------------ MODULE JwksCache ------------------------------
(***************************************************************************)
(* The key cache of the remote MCP endpoint (mcp/auth.py, _JwksCache).     *)
(*                                                                         *)
(* Tokens name the key that signed them.  A lock makes refreshes single    *)
(* flight: the request that holds it refetches an expired key set, and     *)
(* once per interval a set that lacks its key.  The provider rotates its   *)
(* keys.  Time is counted in ticks; a fetch answers or fails within one.   *)
(***************************************************************************)
EXTENDS Naturals, FiniteSets, Sequences

CONSTANTS Requests,
          Kids,       \* keys the provider may publish
          Unknown,    \* a key id nobody publishes
          TTL,        \* jwks_cache_seconds
          INTERVAL,   \* _FORCED_REFETCH_INTERVAL
          Nothing

\* What is asked of the cache: a key id, and whether it was published all along.
Calls ==
    [kid : Kids \cup {Unknown}, known : BOOLEAN,
     pc : {"wait", "fetch", "look", "forced", "last look"}]

ASSUME JwksAssumption ==
    /\ TTL \in Nat \ {0} /\ INTERVAL \in Nat \ {0}
    /\ Unknown \notin Kids
    /\ Nothing \notin Calls /\ \A S \in SUBSET Kids : Nothing # S

VARIABLES
    published,   \* the provider's keys
    withdrawn,   \* key -> ticks since it was withdrawn, at most TTL
    keys,        \* _keys, or Nothing
    expires,     \* ticks to _expires_at
    forced,      \* ticks since _last_forced, at most INTERVAL
    queue,       \* requests waiting for the lock, its holder first
    request,     \* request -> [kid, pc, known], or Nothing
    calm         \* history: ticks since the server booted or forced a refetch

provider == <<published, withdrawn>>
cache == <<keys, expires, forced, calm>>
jwksvars == <<provider, cache, queue, request>>

Holds(r) == queue # <<>> /\ Head(queue) = r
At(r, pc) == request[r] # Nothing /\ request[r].pc = pc
Fetching(r) == Holds(r) /\ (At(r, "fetch") \/ At(r, "forced"))
Looking(r) == Holds(r) /\ (At(r, "look") \/ At(r, "last look"))
to(r, pc) == request' = [request EXCEPT ![r].pc = pc]

------------------------------------------------------------------------------
\* signing_key begins with the lock, which is fair.
signing_key(r, kid) ==
    /\ request[r] = Nothing
    /\ request' = [request EXCEPT ![r] = [kid |-> kid, pc |-> "wait", known |-> kid \in published]]
    /\ queue' = Append(queue, r)
    /\ UNCHANGED <<provider, cache>>

\* mutant: the time to live is not looked at
never_expires == keys = Nothing

expired == keys = Nothing \/ expires = 0

locked(r) ==
    /\ Holds(r) /\ At(r, "wait")
    /\ to(r, IF expired THEN "fetch" ELSE "look")
    /\ UNCHANGED <<provider, cache, queue>>

\* mutant: a malformed document replaces the keys
fetched_anything(r) ==
    /\ Fetching(r)
    /\ keys' \in {published, {Unknown}} /\ expires' = TTL
    /\ to(r, IF At(r, "fetch") THEN "look" ELSE "last look")
    /\ UNCHANGED <<provider, forced, calm, queue>>

\* The answer becomes the key set; a bad one would have raised.
fetched(r) ==
    /\ Fetching(r)
    /\ keys' = published /\ expires' = TTL
    /\ to(r, IF At(r, "fetch") THEN "look" ELSE "last look")
    /\ UNCHANGED <<provider, forced, calm, queue>>

\* The lock is released with the answer to the request.
answered(r) ==
    /\ queue' = Tail(queue)
    /\ request' = [request EXCEPT ![r] = Nothing]
    /\ UNCHANGED <<provider, cache>>

\* mutant: the lock is kept when the fetch raises
fetch_fails_locked(r) ==
    /\ Fetching(r)
    /\ request' = [request EXCEPT ![r] = Nothing]
    /\ UNCHANGED <<provider, cache, queue>>

\* Timeout, HTTP error or a malformed document: the request is refused and the
\* keys stay as they are.
fetch_fails(r) == Fetching(r) /\ answered(r)

found(r) == Looking(r) /\ request[r].kid \in keys /\ answered(r)

\* mutant: a forced refetch waits for the other interval
limited_by_ttl == forced < TTL

limited == forced < INTERVAL

not_found(r) ==
    /\ Looking(r) /\ request[r].kid \notin keys
    /\ At(r, "last look") \/ limited
    /\ answered(r)

\* mutant: a refetch is recorded only when it has succeeded
force_unrecorded(r) ==
    /\ Looking(r) /\ At(r, "look") /\ request[r].kid \notin keys /\ ~limited
    /\ calm' = 0 /\ to(r, "forced")
    /\ UNCHANGED <<provider, keys, expires, forced, queue>>

\* A key that is missing forces a refetch, recorded before it is made.
force(r) ==
    /\ Looking(r) /\ At(r, "look") /\ request[r].kid \notin keys /\ ~limited
    /\ forced' = 0 /\ calm' = 0 /\ to(r, "forced")
    /\ UNCHANGED <<provider, keys, expires, queue>>

jwks_step(r) ==
    locked(r) \/ fetched(r) \/ fetch_fails(r) \/ found(r) \/ not_found(r) \/ force(r)

------------------------------------------------------------------------------
publish(k) ==
    /\ k \notin published
    /\ published' = published \cup {k} /\ withdrawn' = [withdrawn EXCEPT ![k] = 0]
    /\ UNCHANGED <<cache, queue, request>>

withdraw(k) ==
    /\ k \in published /\ published' = published \ {k}
    /\ request' = [r \in Requests |->
           IF request[r] # Nothing /\ request[r].kid = k
           THEN [request[r] EXCEPT !.known = FALSE] ELSE request[r]]
    /\ UNCHANGED <<withdrawn, cache, queue>>

Later(n, most) == IF n < most THEN n + 1 ELSE n

\* The clock.  No time passes between a fetch and the look that follows it.
jwks_tick ==
    /\ ~\E r \in Requests : Looking(r)
    /\ expires' = IF expires > 0 THEN expires - 1 ELSE 0
    /\ forced' = Later(forced, INTERVAL) /\ calm' = Later(calm, INTERVAL)
    /\ withdrawn' = [k \in Kids |->
           IF k \in published THEN 0 ELSE Later(withdrawn[k], TTL)]
    /\ <<expires, forced, calm, withdrawn>>' # <<expires, forced, calm, withdrawn>>
    /\ UNCHANGED <<published, keys, queue, request>>

\* _last_forced begins at 0 on a clock that counts from the boot of the host.
JwksInit ==
    /\ published \in SUBSET Kids
    /\ withdrawn = [k \in Kids |-> IF k \in published THEN 0 ELSE TTL]
    /\ keys = Nothing /\ expires = 0
    /\ forced \in 0 .. INTERVAL /\ calm = forced
    /\ queue = <<>> /\ request = [r \in Requests |-> Nothing]

JwksNext ==
    \/ \E r \in Requests : jwks_step(r) \/ \E k \in Kids \cup {Unknown} : signing_key(r, k)
    \/ \E k \in Kids : publish(k) \/ withdraw(k)
    \/ jwks_tick

\* A fetch answers or times out, and the lock is fair.
JwksFairness == \A r \in Requests : WF_jwksvars(jwks_step(r))

------------------------------------------------------------------------------
(* Properties.                                                              *)

JwksTypeOK ==
    /\ published \subseteq Kids /\ withdrawn \in [Kids -> 0 .. TTL]
    /\ keys = Nothing \/ keys \subseteq Kids
    /\ expires \in 0 .. TTL /\ forced \in 0 .. INTERVAL /\ calm \in 0 .. INTERVAL
    /\ queue \in Seq(Requests)
    /\ request \in [Requests -> Calls \cup {Nothing}]

\* The step in which the look of r ends it, with or without its key.
Accepts(r) == Looking(r) /\ request'[r] = Nothing /\ request[r].kid \in keys
Refuses(r) == Looking(r) /\ request'[r] = Nothing /\ request[r].kid \notin keys

\* mcp/auth.py: a key the provider has withdrawn is accepted for less than the
\* cache's time to live, also when the provider cannot be reached.
WithdrawnKeyDies ==
    [][\A r \in Requests : Accepts(r) => withdrawn[request[r].kid] < TTL]_jwksvars

\* mcp/auth.py: a key that was published all through a request is refused by a
\* look only if a refetch was forced, or the host booted, within the interval.
NewKeyRefusedBriefly ==
    [][\A r \in Requests : Refuses(r) /\ request[r].known => calm < INTERVAL]_jwksvars

\* mcp/auth.py: unknown keys make the server ask the provider at most once per
\* interval, whether the provider answers or not.
RefetchesSpaced ==
    [][\A r \in Requests : ~At(r, "forced") /\ At(r, "forced")' => calm >= INTERVAL]_jwksvars

\* mcp/auth.py: every request gets its answer, however fetches end.
RequestsAnswered == \A r \in Requests : request[r] # Nothing ~> request[r] = Nothing
=============================================================================
