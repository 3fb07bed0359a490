------------------------------- MODULE Cache -------------------------------
(***************************************************************************)
(* Stage 4 of the lab: the read cache in front of a KV client              *)
(* (04-caching/cache.go).  Goroutines call Get, Put and Append; other      *)
(* clients write to the store without going through this cache.            *)
(*                                                                         *)
(* Each section under c.mu is one action.  The store is called without it, *)
(* so a call is a state of its own, and it takes effect at one moment in   *)
(* between.  A value is the number of the write to its key that made it.   *)
(***************************************************************************)
EXTENDS Integers, Sequences, FiniteSets

CONSTANTS
    Key,
    Caller,       \* goroutines that share the cache
    Capacity,     \* Options.Capacity
    TTL,          \* Options.TTL in ticks; 0: entries never expire
    None,
    Written,      \* bound: the keys that are written
    MaxWrites,    \* bound: writes through the cache
    MaxForeign,   \* bound: writes by other clients
    MaxClock,     \* bound: ticks
    MaxPanics     \* bound: fetches in which the store panics

ASSUME CacheAssumption ==
    /\ Capacity \in Nat \ {0} /\ TTL \in Nat
    /\ MaxClock \in Nat /\ MaxWrites \in Nat /\ MaxForeign \in Nat /\ MaxPanics \in Nat
    /\ Written \subseteq Key /\ None \notin Key /\ None \notin Caller
    /\ None \notin [value : Nat, expires : Nat]

VARIABLES
    policy,     \* Options.WritePolicy
    landed,     \* the store: per key, the times its writes took effect
    clock,
    writeMu,    \* who holds it, or None
    order,      \* the keys of the cached entries, most recently used first
    entries,    \* per key: its entry, or None
    inflight,   \* per key: the goroutine whose fetch a miss would join, or None
    stale,      \* goroutines whose fetch must not be cached
    pc,         \* per goroutine: where it is
    op,         \* per goroutine: the call it is in
    floor,      \* history: the last write to each key that has returned
    foreign,    \* history: whether another client has written
    writes, panics

cacheVars == <<order, entries, inflight, stale>>
boundVars == <<foreign, writes, panics>>
vars == <<policy, landed, clock, writeMu, cacheVars, pc, op, floor, boundVars>>

Version(k) == Len(landed[k])
Idle == [key |-> None, start |-> 0, value |-> 0, since |-> 0, on |-> None]

\* New, with either policy, in front of a store that holds nothing.
Init ==
    /\ policy \in {"WriteInvalidate", "WriteThrough"}
    /\ landed = [k \in Key |-> <<>>]
    /\ clock = 0
    /\ writeMu = None
    /\ order = <<>>
    /\ entries = [k \in Key |-> None]
    /\ inflight = [k \in Key |-> None]
    /\ stale = {}
    /\ pc = [c \in Caller |-> "idle"]
    /\ op = [c \in Caller |-> Idle]
    /\ floor = [k \in Key |-> 0]
    /\ foreign = 0 /\ writes = 0 /\ panics = 0

Tick ==
    /\ clock < MaxClock
    /\ clock' = clock + 1
    /\ UNCHANGED <<policy, landed, writeMu, cacheVars, pc, op, floor, boundVars>>

\* Another client's write.
ForeignWrite(k) ==
    /\ foreign < MaxForeign
    /\ foreign' = foreign + 1
    /\ landed' = [landed EXCEPT ![k] = Append(@, clock)]
    /\ UNCHANGED <<policy, clock, writeMu, cacheVars, pc, op, floor, writes, panics>>

(***************************************************************************)
(* The recency list and the map.                                           *)
(***************************************************************************)

\* The list without the node of key k, if there is one.
Without(k) ==
    LET at == {i \in DOMAIN order : order[i] = k}
        i  == CHOOSE i \in at : TRUE
    IN IF at = {} THEN order
       ELSE SubSeq(order, 1, i - 1) \o SubSeq(order, i + 1, Len(order))
now == IF TTL = 0 THEN 0 ELSE clock

expiredLocked(k) == TTL # 0 /\ clock >= entries[k].expires

\* Mutant: one entry too many before the last one is pushed out.
insertLocked_overfull(k, v, start) ==
    LET list   == <<k>> \o Without(k)
        kept   == IF Len(list) > Capacity + 1 THEN SubSeq(list, 1, Capacity) ELSE list
        entry  == [value |-> v, expires |-> IF TTL = 0 THEN 0 ELSE start + TTL]
    IN /\ order' = kept
       /\ entries' = [x \in Key |->
              IF x = k THEN entry
              ELSE IF \E i \in DOMAIN kept : kept[i] = x THEN entries[x] ELSE None]

\* Mutant: the deadline counts from the insertion.
insertLocked_late(k, v, start) ==
    /\ order' = SubSeq(<<k>> \o Without(k), 1, Capacity)
    /\ entries' = [entries EXCEPT ![k] = [value |-> v, expires |-> clock + TTL]]

\* The entry goes to the front; a new one may push the last one out.
insertLocked(k, v, start) ==
    LET list   == <<k>> \o Without(k)
        kept   == IF Len(list) > Capacity THEN SubSeq(list, 1, Capacity) ELSE list
        entry  == [value |-> v, expires |-> IF TTL = 0 THEN 0 ELSE start + TTL]
    IN /\ order' = kept
       /\ entries' = [x \in Key |->
              IF x = k THEN entry
              ELSE IF \E i \in DOMAIN kept : kept[i] = x THEN entries[x] ELSE None]

invalidateLocked(k) ==
    /\ order' = Without(k)
    /\ entries' = [entries EXCEPT ![k] = None]

\* Mutant: the fetch will not be cached but can still be joined.
markStaleLocked_joinable(k) ==
    /\ stale' = stale \cup ({inflight[k]} \ {None})
    /\ UNCHANGED inflight

\* The write's key has no fetch to join any more, and the one there was will
\* not be cached.
markStaleLocked(k) ==
    /\ stale' = stale \cup ({inflight[k]} \ {None})
    /\ inflight' = [inflight EXCEPT ![k] = None]

(***************************************************************************)
(* Get.                                                                    *)
(***************************************************************************)

Goto(c, where) == pc' = [pc EXCEPT ![c] = where]
Calling(c, k) == pc[c] = "idle" \/ (pc[c] = "retry" /\ op[c].key = k)
Since(c, k) == IF pc[c] = "retry" THEN op[c].since ELSE floor[k]

Joinable(k) == inflight[k] # None

hit(c, k) ==
    /\ Calling(c, k)
    /\ entries[k] # None
    /\ ~expiredLocked(k)
    /\ order' = <<k>> \o Without(k)
    /\ op' = [op EXCEPT ![c] = [key |-> k, start |-> 0, value |-> entries[k].value,
                                since |-> Since(c, k), on |-> None]]
    /\ Goto(c, "return")
    /\ UNCHANGED <<policy, landed, clock, writeMu, entries, inflight, stale, floor, boundVars>>

\* A miss, of an absent or an expired entry, joins the fetch under way or
\* registers one.
miss(c, k) ==
    /\ Calling(c, k)
    /\ entries[k] # None => expiredLocked(k)
    /\ invalidateLocked(k)
    /\ op' = [op EXCEPT ![c] = [key |-> k, value |-> 0, since |-> Since(c, k),
                                start |-> IF Joinable(k) THEN 0 ELSE now,
                                on |-> IF Joinable(k) THEN inflight[k] ELSE None]]
    /\ \/ /\ Joinable(k)
          /\ Goto(c, "wait")
          /\ UNCHANGED inflight
       \/ /\ ~Joinable(k)
          /\ Goto(c, "fetch")
          /\ inflight' = [inflight EXCEPT ![k] = c]
    /\ UNCHANGED <<policy, landed, clock, writeMu, stale, floor, boundVars>>

\* The store reads the key.
fetch(c) ==
    /\ pc[c] = "fetch"
    /\ op' = [op EXCEPT ![c].value = Version(op[c].key)]
    /\ Goto(c, "fetched")
    /\ UNCHANGED <<policy, landed, clock, writeMu, cacheVars, floor, boundVars>>

fetchPanics(c) ==
    /\ pc[c] = "fetch"
    /\ panics < MaxPanics
    /\ panics' = panics + 1
    /\ Goto(c, "panicked")
    /\ UNCHANGED <<policy, landed, clock, writeMu, cacheVars, op, floor, foreign, writes>>

\* lead: the result is cached unless a write has marked it.
lead(c) ==
    /\ pc[c] = "fetched"
    /\ IF c \in stale THEN UNCHANGED <<order, entries>>
       ELSE insertLocked(op[c].key, op[c].value, op[c].start)
    /\ op' = [op EXCEPT ![c].start = 0]
    /\ Goto(c, "filled")
    /\ UNCHANGED <<policy, landed, clock, writeMu, inflight, stale, floor, boundVars>>

\* Mutant: the waiters are woken on the normal path only.
Waiting_ifFilled(c) == {d \in Caller : pc[d] = "wait" /\ op[d].on = c /\ pc[c] = "filled"}
Waiting(c) == {d \in Caller : pc[d] = "wait" /\ op[d].on = c}

\* The call of a waiter d when c's fetch is over: it has its value, or none.
Woken(d, c) ==
    [op[d] EXCEPT !.on = None, !.value = IF pc[c] = "filled" THEN op[c].value ELSE 0]

\* lead's deferred function: the fetch is no longer joinable and its waiters
\* are woken, to return its value or, after a panic, to start over.
cleanup(c) ==
    LET k == op[c].key
        after == IF pc[c] = "filled" THEN "return" ELSE "retry"
    IN /\ pc[c] \in {"filled", "panicked"}
       /\ inflight' = IF inflight[k] = c THEN [inflight EXCEPT ![k] = None] ELSE inflight
       /\ stale' = stale \ {c}
       /\ pc' = [d \in Caller |->
              IF d \in Waiting(c) THEN after
              ELSE IF d # c THEN pc[d]
              ELSE IF pc[c] = "filled" THEN "return" ELSE "idle"]
       /\ op' = [d \in Caller |->
              IF d \in Waiting(c) THEN Woken(d, c)
              ELSE IF d = c /\ pc[c] = "panicked" THEN Idle ELSE op[d]]
       /\ UNCHANGED <<policy, landed, clock, writeMu, order, entries, floor, boundVars>>

\* Get is back in its caller.
getReturn(c) ==
    /\ pc[c] = "return"
    /\ Goto(c, "idle")
    /\ op' = [op EXCEPT ![c] = Idle]
    /\ UNCHANGED <<policy, landed, clock, writeMu, cacheVars, floor, boundVars>>

(***************************************************************************)
(* Put and Append.                                                         *)
(***************************************************************************)

\* Mutant: writers are not serialized.
MayWrite_always == TRUE
MayWrite == writeMu = None

\* Put and Append take writeMu and read the clock.
lockWrite(c, k, kind) ==
    /\ pc[c] = "idle"
    /\ writes < MaxWrites
    /\ writes' = writes + 1
    /\ MayWrite
    /\ writeMu' = c
    /\ op' = [op EXCEPT ![c] = [Idle EXCEPT !.key = k, !.start = now]]
    /\ Goto(c, kind)
    /\ UNCHANGED <<policy, landed, clock, cacheVars, floor, foreign, panics>>

\* The write takes effect in the store.
storeWrite(c) ==
    LET k == op[c].key
    IN /\ pc[c] \in {"Put", "Append"}
       /\ landed' = [landed EXCEPT ![k] = Append(@, clock)]
       /\ op' = [op EXCEPT ![c].value = Version(k) + 1]
       /\ Goto(c, IF pc[c] = "Put" THEN "PutStored" ELSE "AppendStored")
       /\ UNCHANGED <<policy, clock, writeMu, cacheVars, floor, boundVars>>

\* Then the cache learns of it.
updateCache(c) ==
    LET k == op[c].key
    IN /\ pc[c] \in {"PutStored", "AppendStored"}
       /\ markStaleLocked(k)
       /\ IF pc[c] = "PutStored" /\ policy = "WriteThrough"
          THEN insertLocked(k, op[c].value, op[c].start)
          ELSE invalidateLocked(k)
       /\ floor' = [floor EXCEPT ![k] = IF op[c].value > @ THEN op[c].value ELSE @]
       /\ writeMu' = None
       /\ op' = [op EXCEPT ![c] = Idle]
       /\ Goto(c, "idle")
       /\ UNCHANGED <<policy, landed, clock, boundVars>>

Next ==
    \/ Tick
    \/ \E k \in Written : ForeignWrite(k)
    \/ \E c \in Caller :
          \/ \E k \in Key : hit(c, k) \/ miss(c, k)
          \/ \E k \in Written, kind \in {"Put", "Append"} : lockWrite(c, k, kind)
          \/ fetch(c) \/ fetchPanics(c) \/ lead(c) \/ cleanup(c) \/ getReturn(c)
          \/ storeWrite(c) \/ updateCache(c)

Spec == Init /\ [][Next]_vars

\* A call that has begun goes on; the store answers every call.
resume(c) == pc[c] = "retry" /\ \E k \in Key : hit(c, k) \/ miss(c, k)

Fairness ==
    \A c \in Caller :
        /\ WF_vars(resume(c))
        /\ WF_vars(fetch(c) \/ fetchPanics(c))
        /\ WF_vars(lead(c))
        /\ WF_vars(cleanup(c))
        /\ WF_vars(getReturn(c))
        /\ WF_vars(storeWrite(c))
        /\ WF_vars(updateCache(c))

LiveSpec == Spec /\ Fairness

(***************************************************************************)
(* Properties.                                                             *)
(***************************************************************************)

Value == 0 .. MaxWrites + MaxForeign
Where == {"idle", "fetch", "fetched", "filled", "panicked", "wait", "retry", "return",
          "Put", "Append", "PutStored", "AppendStored"}
Entry == [value : Value, expires : Nat]

\* Types; the list and the map hold the same keys, each once and at most
\* Capacity of them (eviction deletes from the map by the key of the node).
TypeOK ==
    /\ policy \in {"WriteInvalidate", "WriteThrough"}
    /\ landed \in [Key -> Seq(0 .. MaxClock)]
    /\ clock \in 0 .. MaxClock
    /\ writeMu \in Caller \cup {None}
    /\ order \in Seq(Key) /\ Len(order) <= Capacity
    /\ \A i, j \in DOMAIN order : order[i] = order[j] => i = j
    /\ \A k \in Key : entries[k] # None <=> \E i \in DOMAIN order : order[i] = k
    /\ entries \in [Key -> Entry \cup {None}]
    /\ inflight \in [Key -> Caller \cup {None}]
    /\ stale \subseteq Caller
    /\ pc \in [Caller -> Where]
    /\ op \in [Caller -> [key : Key \cup {None}, start : 0 .. MaxClock, value : Value,
                          since : Value, on : Caller \cup {None}]]
    /\ floor \in [Key -> Value]
    /\ foreign \in 0 .. MaxForeign /\ writes \in 0 .. MaxWrites /\ panics \in 0 .. MaxPanics

\* Read your writes: a Get never returns a value older than a write through
\* this cache that had returned before the Get was called, whether it hits,
\* fetches or is handed the result of a fetch somebody else began.
ReadsOwnWrites ==
    \A c \in Caller : pc[c] = "return" => op[c].value >= op[c].since

\* A hit is never staler than TTL: the value it would return was the store's
\* at some moment less than TTL ago, whoever has overwritten it since.
HitsFresh ==
    \A k \in Key : TTL # 0 /\ entries[k] # None /\ ~expiredLocked(k) =>
        LET v == entries[k].value
        IN v = Version(k) \/ landed[k][v + 1] > clock - TTL

\* While nobody else writes, the cache agrees with the store whenever no
\* write is under way: no old value is filled in behind a write, and writes
\* reach cache and store in one order.
CacheAgrees ==
    foreign = 0 /\ writeMu = None =>
        \A k \in Key : entries[k] # None => entries[k].value = Version(k)

\* Every call returns (or panics with the store); nobody waits for a fetch
\* that has ended.
CallsReturn == \A c \in Caller : pc[c] # "idle" ~> pc[c] = "idle"
=============================================================================
