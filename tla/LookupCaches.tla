---------------------------- MODULE LookupCaches ----------------------------
(***************************************************************************)
(* The broker's in-process caches of what a request is allowed to do: the  *)
(* identity behind a token, an agent's toolkits for an API, a toolkit's    *)
(* permission rules.  The first stamps an entry with the time its load     *)
(* began and coalesces nothing; the others stamp it when it is stored and  *)
(* coalesce concurrent misses (SingleFlight).  A value is known by its     *)
(* age: the time since the database was read for it, or since the first of *)
(* its reads where there are two.  One key of one cache is modelled.       *)
(***************************************************************************)
EXTENDS Naturals

CONSTANTS
    Lookups,  \* requests that may be in the cache at the same time
    Ttl,      \* cache_ttl_seconds, in ticks
    MaxLoad   \* the longest a load takes; the statement timeouts bound it

ASSUME CachesOK == Ttl \in Nat /\ MaxLoad \in Nat

CacheKinds == {"tokens", "toolkits", "rules"}

VARIABLES
    cache,   \* which cache this is; it never changes
    entry,   \* the cached entry: [held, read, stamp], two ages
    lookup,  \* each request: [at, began, read]
    flight   \* the in-flight future: "none", "open", or "cancelled" by a waiter

lookupCaches == <<cache, entry, lookup, flight>>

NoEntry == [held |-> FALSE, read |-> 0, stamp |-> 0]
NoLookup == [at |-> "idle", began |-> 0, read |-> 0]

LookupCachesInit ==
    /\ cache \in CacheKinds
    /\ entry = NoEntry
    /\ lookup = [w \in Lookups |-> NoLookup]
    /\ flight = "none"

Coalesces == cache # "tokens"
Loading == {"begun", "half", "read"}

\* The entry is younger than the TTL by its stamp.
Fresh == entry.held /\ entry.stamp < Ttl

At(w, at) == lookup' = [lookup EXCEPT ![w].at = at]

Hit(w) ==
    /\ lookup[w].at = "idle" /\ Fresh
    /\ lookup' = [lookup EXCEPT ![w] = [at |-> "served", began |-> 0, read |-> entry.read]]
    /\ UNCHANGED <<cache, entry, flight>>

\* A miss: the first of coalescing callers loads, the others await its future; one that
\* finds a future already cancelled is cancelled too.
Miss(w) ==
    /\ lookup[w].at = "idle" /\ ~Fresh
    /\ CASE ~Coalesces -> At(w, "begun") /\ UNCHANGED flight
         [] Coalesces /\ flight = "none" -> At(w, "begun") /\ flight' = "open"
         [] Coalesces /\ flight = "open" -> At(w, "waiting") /\ UNCHANGED flight
         [] OTHER -> UNCHANGED <<lookup, flight>>
    /\ UNCHANGED <<cache, entry>>

\* The database is read; derive_toolkits reads the admin database and then the control one.
Read(w) ==
    /\ \/ lookup[w].at = "begun" /\ cache = "toolkits" /\ At(w, "half")
       \/ lookup[w].at = "begun" /\ cache # "toolkits" /\ At(w, "read")
       \/ lookup[w].at = "half" /\ At(w, "read")
    /\ UNCHANGED <<cache, entry, flight>>

\* The loader and, unless the future was cancelled, its waiters get the value.
Delivered(w) ==
    [v \in Lookups |->
        IF v = w THEN IF flight = "cancelled" THEN NoLookup
                      ELSE [at |-> "served", began |-> 0, read |-> lookup[w].read]
        ELSE IF lookup[v].at = "waiting"
             THEN [at |-> "served", began |-> 0, read |-> lookup[w].read]
        ELSE lookup[v]]

\* Wrong variant: every cache stamps its entries when they are stored.
StoreStampedNow(w) ==
    /\ lookup[w].at = "read"
    /\ entry' = [held |-> TRUE, read |-> lookup[w].read, stamp |-> 0]
    /\ lookup' = Delivered(w)
    /\ flight' = IF Coalesces THEN "none" ELSE flight
    /\ UNCHANGED cache

\* The entry is stored, then the future is resolved: set_result raises if it was
\* cancelled, with the entry in the cache.
Store(w) ==
    /\ lookup[w].at = "read"
    /\ entry' = [held |-> TRUE, read |-> lookup[w].read,
                 stamp |-> IF Coalesces THEN 0 ELSE lookup[w].began]
    /\ lookup' = Delivered(w)
    /\ flight' = IF Coalesces THEN "none" ELSE flight
    /\ UNCHANGED cache

\* A load that raises or is cancelled fails its waiters with it and pins nothing.
Fail(w) ==
    /\ lookup[w].at \in Loading
    /\ lookup' = [v \in Lookups |->
                    IF v = w \/ (Coalesces /\ lookup[v].at = "waiting") THEN NoLookup ELSE lookup[v]]
    /\ flight' = IF Coalesces THEN "none" ELSE flight
    /\ UNCHANGED <<cache, entry>>

\* A cancelled waiter cancels the future it awaits, and with it every other waiter.
CancelWaiter(w) ==
    /\ lookup[w].at = "waiting"
    /\ flight' = "cancelled"
    /\ lookup' = [v \in Lookups |-> IF lookup[v].at = "waiting" THEN NoLookup ELSE lookup[v]]
    /\ UNCHANGED <<cache, entry>>

Use(w) == lookup[w].at = "served" /\ lookup' = [lookup EXCEPT ![w] = NoLookup]
          /\ UNCHANGED <<cache, entry, flight>>

\* The LRU bound evicts the entry.
Evict == entry.held /\ entry' = NoEntry /\ UNCHANGED <<cache, lookup, flight>>

\* Time passes: served values are used at once, and loads end in time.  Ages beyond the
\* TTL and a load are all alike.
Older(age) == IF age > Ttl + MaxLoad THEN age ELSE age + 1

Tick ==
    /\ \A w \in Lookups : lookup[w].at # "served"
    /\ \A w \in Lookups : lookup[w].at \in Loading => lookup[w].began < MaxLoad
    /\ entry' = IF entry.held
                THEN [entry EXCEPT !.read = Older(@), !.stamp = Older(@)] ELSE entry
    /\ lookup' = [w \in Lookups |->
                    [at |-> lookup[w].at,
                     began |-> IF lookup[w].at \in Loading THEN lookup[w].began + 1 ELSE 0,
                     read |-> IF lookup[w].at \in {"half", "read"} THEN lookup[w].read + 1 ELSE 0]]
    /\ UNCHANGED <<cache, flight>>

LookupNext ==
    \/ \E w \in Lookups : Hit(w) \/ Miss(w) \/ Read(w) \/ Store(w) \/ Fail(w) \/ CancelWaiter(w)
                              \/ Use(w)
    \/ Evict \/ Tick

\* Types; waiters wait on an open future, and an open future has its one loader.
LookupCachesTypeOK ==
    /\ cache \in CacheKinds
    /\ entry \in [held : BOOLEAN, read : 0..Ttl + MaxLoad + 1, stamp : 0..Ttl + MaxLoad + 1]
    /\ lookup \in [Lookups -> [at : {"idle", "waiting", "served"} \cup Loading,
                               began : 0..MaxLoad, read : 0..Ttl + MaxLoad]]
    /\ flight \in {"none", "open", "cancelled"}
    /\ \A w \in Lookups : lookup[w].at = "waiting" => flight = "open"
    /\ Coalesces => (flight # "none") = (\E w \in Lookups : lookup[w].at \in Loading)

\* How old a decision may be when a request uses it.  The token cache is exact: less than
\* the TTL, or one load; the others stamp late and add the length of a load to the TTL.
Staleness ==
    IF Coalesces /\ Ttl > 0 THEN Ttl + MaxLoad - 1
    ELSE IF MaxLoad < Ttl THEN Ttl - 1 ELSE MaxLoad

\* No request is served a decision older than that, whether from the cache, from its own
\* load or from another's (CachedTokenValidator, CachingToolkitDeriver, RuleEvaluator).
StaleBounded == \A w \in Lookups : lookup[w].at = "served" => lookup[w].read <= Staleness
=============================================================================
