----------------------------- MODULE CacheProofs -----------------------------
(***************************************************************************)
(* The read cache returns what its callers may see, for any number of      *)
(* goroutines, keys and writes, any capacity and any TTL.                  *)
(*                                                                         *)
(* The argument.  floor[k] is the last write to k that has returned.  Every *)
(* cached value is at least that new (KeyOK), because a fetch that began   *)
(* before the write returned is marked stale and no longer joinable by the *)
(* very section that raises floor[k]: a fetch that is not stale is the one *)
(* registered for its key (CallerOK), and the registered one, once it has  *)
(* read the store, has read floor[k] or newer (KeyOK).  A goroutine that   *)
(* joined a fetch did so while it was registered, so it gets a value no    *)
(* older than floor[k] was when it called, even if the fetch has become    *)
(* stale since.  Writers hold writeMu from the store to the cache, so at   *)
(* most one write is in the store and not yet in floor.                    *)
(***************************************************************************)
EXTENDS Cache, SequenceTheorems, TLAPS

Writing  == {"Put", "Append", "PutStored", "AppendStored"}
Stored   == {"PutStored", "AppendStored"}
Fetching == {"fetch", "fetched", "filled", "panicked"}
HasRead  == {"fetched", "filled"}

\* Value v of a key written at these times was current at some moment not
\* before time t.
Valid(times, v, t) == v = Len(times) \/ times[v + 1] >= t

KeyOK(k) ==
    /\ floor[k] <= Version(k)
    /\ entries[k] # None =>
          /\ floor[k] <= entries[k].value /\ entries[k].value <= Version(k)
          /\ TTL # 0 => /\ entries[k].expires <= clock + TTL
                         /\ Valid(landed[k], entries[k].value, entries[k].expires - TTL)
    /\ inflight[k] # None =>
          /\ pc[inflight[k]] \in Fetching /\ op[inflight[k]].key = k
          /\ pc[inflight[k]] \in HasRead => floor[k] <= op[inflight[k]].value
    /\ foreign = 0 =>
          \/ Version(k) = floor[k]
          \/ /\ Version(k) = floor[k] + 1 /\ writeMu # None
             /\ pc[writeMu] \in Stored /\ op[writeMu].key = k /\ op[writeMu].value = Version(k)

CallerOK(c) ==
    /\ pc[c] \in Writing <=> writeMu = c
    /\ pc[c] # "idle" =>
          /\ op[c].key \in Key
          /\ op[c].value <= Version(op[c].key) /\ op[c].since <= floor[op[c].key]
    /\ pc[c] \in Fetching /\ c \notin stale => inflight[op[c].key] = c
    /\ pc[c] \in HasRead \cup {"return"} => op[c].since <= op[c].value
    /\ pc[c] = "wait" =>
          /\ op[c].on # None /\ pc[op[c].on] \in Fetching /\ op[op[c].on].key = op[c].key
          /\ pc[op[c].on] \in HasRead => op[c].since <= op[op[c].on].value
    /\ pc[c] \in Stored => floor[op[c].key] < op[c].value
    /\ pc[c] \in {"fetch", "fetched"} \cup Writing => op[c].start <= clock
    /\ pc[c] \in {"fetched"} \cup Stored => Valid(landed[op[c].key], op[c].value, op[c].start)

\* A write that has begun is counted before it reaches the store.
Pending == IF writeMu # None /\ pc[writeMu] \in {"Put", "Append"} THEN 1 ELSE 0
Counted == \A k \in Key : Version(k) + Pending <= writes + foreign

CacheInv ==
    /\ TypeOK /\ Counted
    /\ \A k \in Key : KeyOK(k)
    /\ \A c \in Caller : CallerOK(c)

(***************************************************************************)
(* The recency list.                                                       *)
(***************************************************************************)
In(q, x) == \E i \in DOMAIN q : q[i] = x
Distinct(q) == \A i, j \in DOMAIN q : q[i] = q[j] => i = j
ListOK(q) == q \in Seq(Key) /\ Distinct(q)

\* w is q without its element at i.
TakenFrom(w, q, i, n) ==
    q \in Seq(Key) /\ n = Len(q) /\ w = SubSeq(q, 1, i - 1) \o SubSeq(q, i + 1, Len(q))

\* What is at which place then.
LEMMA TakenOut ==
    ASSUME NEW n \in Nat, NEW i \in 1 .. n, NEW q, NEW w, TakenFrom(w, q, i, n)
    PROVE  /\ w \in Seq(Key) /\ Len(w) = n - 1
           /\ \A j \in 1 .. n - 1 : w[j] = IF j < i THEN q[j] ELSE q[j + 1]
<1>1. q \in Seq(Key) /\ n = Len(q)
  BY DEF TakenFrom
<1>2. PICK a, b : a = SubSeq(q, 1, i - 1) /\ b = SubSeq(q, i + 1, n)
  OBVIOUS
<1>3. w = a \o b
  BY <1>2 DEF TakenFrom
<1>4. \A j \in 1 .. n : q[j] \in Key
  BY <1>1
<1>5. a \in Seq(Key) /\ Len(a) = i - 1 /\ \A j \in 1 .. i - 1 : a[j] = q[j]
  <2>1. /\ a \in Seq(Key) /\ Len(a) = (IF 1 <= i - 1 THEN (i - 1) - 1 + 1 ELSE 0)
        /\ \A j \in 1 .. (i - 1) - 1 + 1 : a[j] = q[1 + j - 1]
    <3>1. \A j \in 1 .. i - 1 : q[j] \in Key
      BY <1>4
    <3>2. 1 \in Int /\ i - 1 \in Int
      OBVIOUS
    <3> QED BY <1>1, <1>2, <3>1, <3>2, SubSeqProperties
  <2>2. /\ (IF 1 <= i - 1 THEN (i - 1) - 1 + 1 ELSE 0) = i - 1 /\ (i - 1) - 1 + 1 = i - 1
        /\ \A j \in 1 .. i - 1 : 1 + j - 1 = j
    OBVIOUS
  <2> QED BY <2>1, <2>2
<1>6. b \in Seq(Key) /\ Len(b) = n - i /\ \A j \in 1 .. n - i : b[j] = q[j + i]
  <2>1. /\ b \in Seq(Key) /\ Len(b) = (IF i + 1 <= n THEN n - (i + 1) + 1 ELSE 0)
        /\ \A j \in 1 .. n - (i + 1) + 1 : b[j] = q[(i + 1) + j - 1]
    <3>1. \A j \in i + 1 .. n : q[j] \in Key
      BY <1>4
    <3>2. i + 1 \in Int /\ n \in Int
      OBVIOUS
    <3> QED BY <1>1, <1>2, <3>1, <3>2, SubSeqProperties
  <2>2. /\ (IF i + 1 <= n THEN n - (i + 1) + 1 ELSE 0) = n - i /\ n - (i + 1) + 1 = n - i
        /\ \A j \in 1 .. n - i : (i + 1) + j - 1 = j + i
    OBVIOUS
  <2> QED BY <2>1, <2>2
<1>7. /\ w \in Seq(Key) /\ Len(w) = Len(a) + Len(b)
      /\ \A j \in 1 .. Len(a) + Len(b) : w[j] = IF j <= Len(a) THEN a[j] ELSE b[j - Len(a)]
  BY <1>3, <1>5, <1>6, ConcatProperties
<1>8. (i - 1) + (n - i) = n - 1
  OBVIOUS
<1>9. /\ w \in Seq(Key) /\ Len(w) = n - 1
      /\ \A j \in 1 .. n - 1 : w[j] = IF j <= i - 1 THEN a[j] ELSE b[j - (i - 1)]
  BY <1>5, <1>6, <1>7, <1>8
<1>10. ASSUME NEW j \in 1 .. n - 1 PROVE w[j] = IF j < i THEN q[j] ELSE q[j + 1]
  <2>1. CASE j < i
    <3>1. j <= i - 1 /\ j \in 1 .. i - 1
      BY <2>1
    <3> QED BY <1>5, <1>9, <2>1, <3>1
  <2>2. CASE ~(j < i)
    <3>1. ~(j <= i - 1) /\ j - (i - 1) \in 1 .. n - i /\ (j - (i - 1)) + i = j + 1
      BY <2>2
    <3> QED BY <1>6, <1>9, <2>2, <3>1
  <2> QED BY <2>1, <2>2
<1> QED BY <1>9, <1>10

\* Without takes out k, if it is there, and nothing else.
LEMMA WithoutIs ==
    ASSUME ListOK(order), NEW k \in Key
    PROVE  /\ ListOK(Without(k))
           /\ Len(Without(k)) = IF In(order, k) THEN Len(order) - 1 ELSE Len(order)
           /\ \A x : In(Without(k), x) <=> In(order, x) /\ x # k
<1>1. PICK q, n : q = order /\ n = Len(q) /\ q \in Seq(Key) /\ n \in Nat /\ DOMAIN q = 1 .. n
  BY DEF ListOK
<1>2. CASE ~In(order, k)
  <2>1. {i \in DOMAIN order : order[i] = k} = {}
    BY <1>2 DEF In
  <2>2. Without(k) = order
    BY <2>1 DEF Without
  <2> QED BY <1>2, <2>2 DEF In
<1>3. CASE In(order, k)
  <2> DEFINE at == {i \in DOMAIN order : order[i] = k}
  <2>1. PICK i : i = CHOOSE x \in at : TRUE
    OBVIOUS
  <2>2. at # {}
    BY <1>3 DEF In
  <2>3. i \in at
    BY <2>1, <2>2
  <2>4. i \in 1 .. n /\ q[i] = k
    BY <1>1, <2>3
  <2>5. PICK w : w = Without(k)
    OBVIOUS
  <2>6. TakenFrom(w, q, i, n)
    BY <1>1, <2>1, <2>2, <2>5 DEF Without, TakenFrom
  <2>7. /\ w \in Seq(Key) /\ Len(w) = n - 1
        /\ \A j \in 1 .. n - 1 : w[j] = IF j < i THEN q[j] ELSE q[j + 1]
    <3>1. n \in Nat /\ i \in 1 .. n
      BY <1>1, <2>4
    <3> QED BY <2>6, <3>1, TakenOut
  <2>8. DOMAIN w = 1 .. n - 1
    BY <2>7
  <2>9. \A a, b \in 1 .. n : q[a] = q[b] => a = b
    BY <1>1 DEF ListOK, Distinct
  <2>10. Distinct(w)
    <3> SUFFICES ASSUME NEW a \in 1 .. n - 1, NEW b \in 1 .. n - 1, w[a] = w[b] PROVE a = b
      BY <2>8 DEF Distinct
    <3>1. PICK u \in 1 .. n : u = (IF a < i THEN a ELSE a + 1) /\ w[a] = q[u]
      BY <1>1, <2>7
    <3>2. PICK v \in 1 .. n : v = (IF b < i THEN b ELSE b + 1) /\ w[b] = q[v]
      BY <1>1, <2>7
    <3>3. u = v
      BY <2>9, <3>1, <3>2
    <3> QED BY <1>1, <2>4, <3>1, <3>2, <3>3
  <2>11. ASSUME NEW x PROVE In(w, x) <=> In(q, x) /\ x # k
    <3>1. ASSUME NEW j \in 1 .. n - 1, w[j] = x PROVE In(q, x) /\ x # k
      <4>1. PICK u \in 1 .. n : u = (IF j < i THEN j ELSE j + 1) /\ w[j] = q[u]
        BY <1>1, <2>7
      <4>2. u # i
        BY <1>1, <2>4, <4>1
      <4> QED BY <1>1, <2>4, <2>9, <3>1, <4>1, <4>2 DEF In
    <3>2. ASSUME NEW u \in 1 .. n, q[u] = x, x # k PROVE In(w, x)
      <4>1. u # i
        BY <2>4, <3>2
      <4>2. PICK j \in 1 .. n - 1 : u = IF j < i THEN j ELSE j + 1
        <5>1. CASE u < i
          BY <1>1, <2>4, <5>1
        <5>2. CASE u > i
          <6>1. u - 1 \in 1 .. n - 1 /\ ~(u - 1 < i) /\ u = (u - 1) + 1
            BY <1>1, <2>4, <5>2
          <6> QED BY <6>1
        <5> QED BY <1>1, <2>4, <4>1, <5>1, <5>2
      <4>3. w[j] = q[u]
        BY <2>7, <4>2
      <4> QED BY <2>8, <3>2, <4>3 DEF In
    <3> QED BY <1>1, <2>8, <3>1, <3>2 DEF In
  <2> QED BY <1>1, <1>3, <2>5, <2>7, <2>10, <2>11 DEF ListOK
<1> QED BY <1>2, <1>3

\* Putting k in front of a list that does not have it.
LEMMA InFront ==
    ASSUME NEW w, ListOK(w), NEW k \in Key, ~In(w, k), NEW r, r = <<k>> \o w
    PROVE  /\ ListOK(r) /\ Len(r) = Len(w) + 1 /\ r[1] = k
           /\ \A x : In(r, x) <=> x = k \/ In(w, x)
<1>1. PICK n \in Nat : n = Len(w) /\ w \in Seq(Key) /\ DOMAIN w = 1 .. n
  BY DEF ListOK
<1>2. <<k>> \in Seq(Key) /\ Len(<<k>>) = 1 /\ <<k>>[1] = k
  OBVIOUS
<1>3. r \in Seq(Key) /\ Len(r) = n + 1 /\ DOMAIN r = 1 .. n + 1
  BY <1>1, <1>2
<1>4. r[1] = k
  BY <1>1
<1>5. \A j \in 1 .. n : r[j + 1] = w[j]
  BY <1>1
<1>6. \A j \in 2 .. n + 1 : j - 1 \in 1 .. n /\ r[j] = w[j - 1]
  <2> SUFFICES ASSUME NEW j \in 2 .. n + 1 PROVE j - 1 \in 1 .. n /\ r[j] = w[j - 1]
    OBVIOUS
  <2>1. j - 1 \in 1 .. n /\ (j - 1) + 1 = j
    BY <1>1
  <2> QED BY <1>5, <2>1
<1>7. \A j \in 1 .. n : w[j] # k
  BY <1>1 DEF In
<1>8. \A i, j \in 1 .. n : w[i] = w[j] => i = j
  BY <1>1 DEF ListOK, Distinct
<1>9. Distinct(r)
  <2> SUFFICES ASSUME NEW i \in 1 .. n + 1, NEW j \in 1 .. n + 1, r[i] = r[j] PROVE i = j
    BY <1>3 DEF Distinct
  <2>1. CASE i = 1 /\ j = 1
    BY <2>1
  <2>2. CASE i = 1 /\ j # 1
    <3>1. j \in 2 .. n + 1
      BY <1>1, <2>2
    <3> QED BY <1>4, <1>6, <1>7, <2>2, <3>1
  <2>3. CASE i # 1 /\ j = 1
    <3>1. i \in 2 .. n + 1
      BY <1>1, <2>3
    <3> QED BY <1>4, <1>6, <1>7, <2>3, <3>1
  <2>4. CASE i # 1 /\ j # 1
    <3>1. i \in 2 .. n + 1 /\ j \in 2 .. n + 1
      BY <1>1, <2>4
    <3>2. i - 1 = j - 1
      BY <1>6, <1>8, <3>1
    <3> QED BY <3>2, <1>1
  <2> QED BY <2>1, <2>2, <2>3, <2>4
<1>10. ASSUME NEW x PROVE In(r, x) <=> x = k \/ In(w, x)
  <2>1. ASSUME NEW j \in 1 .. n + 1, r[j] = x PROVE x = k \/ In(w, x)
    <3>1. j = 1 \/ j \in 2 .. n + 1
      BY <1>1
    <3> QED BY <1>1, <1>4, <1>6, <2>1, <3>1 DEF In
  <2>2. In(w, x) => In(r, x)
    <3>1. \A j \in 1 .. n : j + 1 \in 1 .. n + 1
      BY <1>1
    <3> QED BY <1>1, <1>3, <1>5, <3>1 DEF In
  <2>3. In(r, k)
    <3>1. 1 \in 1 .. n + 1
      BY <1>1
    <3> QED BY <1>3, <1>4, <3>1 DEF In
  <2> QED BY <1>3, <2>1, <2>2, <2>3 DEF In
<1> QED BY <1>1, <1>3, <1>4, <1>9, <1>10 DEF ListOK

\* The first n of a list.
LEMMA FirstOf ==
    ASSUME NEW r, ListOK(r), NEW n \in Nat \ {0}, n < Len(r), NEW t, t = SubSeq(r, 1, n)
    PROVE  /\ ListOK(t) /\ Len(t) = n /\ t[1] = r[1] /\ \A x : In(t, x) => In(r, x)
<1>1. PICK z \in Nat : z = Len(r) /\ r \in Seq(Key) /\ DOMAIN r = 1 .. z
  BY DEF ListOK
<1>2. t \in Seq(Key) /\ Len(t) = n /\ DOMAIN t = 1 .. n
  BY <1>1
<1>3. \A j \in 1 .. n : j \in 1 .. z /\ t[j] = r[j]
  <2>1. \A j \in 1 .. n : j \in 1 .. z
    BY <1>1
  <2>2. \A j \in 1 .. n : t[j] = r[j]
    BY <1>1
  <2> QED BY <2>1, <2>2
<1>4. Distinct(t)
  BY <1>1, <1>2, <1>3 DEF ListOK, Distinct
<1>5. 1 \in 1 .. n
  OBVIOUS
<1> QED BY <1>1, <1>2, <1>3, <1>4, <1>5 DEF ListOK, In

(***************************************************************************)
(* The list and the map hold the same keys.                                *)
(***************************************************************************)
ListMap ==
    /\ ListOK(order) /\ Len(order) <= Capacity
    /\ entries \in [Key -> Entry \cup {None}]
    /\ \A k \in Key : entries[k] # None <=> In(order, k)

\* The rest of TypeOK.
OpType == [key : Key \cup {None}, start : 0 .. MaxClock, value : Value,
           since : Value, on : Caller \cup {None}]
CallTypes ==
    /\ pc \in [Caller -> Where] /\ op \in [Caller -> OpType]
    /\ writeMu \in Caller \cup {None} /\ stale \subseteq Caller
    /\ inflight \in [Key -> Caller \cup {None}]
StoreTypes ==
    /\ policy \in {"WriteInvalidate", "WriteThrough"}
    /\ landed \in [Key -> Seq(0 .. MaxClock)] /\ clock \in 0 .. MaxClock
    /\ floor \in [Key -> Value]
    /\ foreign \in 0 .. MaxForeign /\ writes \in 0 .. MaxWrites /\ panics \in 0 .. MaxPanics

\* TypeOK in three parts.
LEMMA TypeParts == TypeOK <=> ListMap /\ CallTypes /\ StoreTypes
BY DEF TypeOK, ListMap, CallTypes, StoreTypes, OpType, ListOK, Distinct, In

\* No entry is None.
LEMMA EntryIsSome ==
    ASSUME NEW e \in Entry
    PROVE  e # None /\ e.value \in Value /\ e.value \in Nat /\ e.expires \in Nat
<1>1. Value \subseteq Nat
  BY CacheAssumption DEF Value
<1>2. e \in [value : Nat, expires : Nat]
  BY <1>1 DEF Entry
<1> QED BY <1>1, <1>2, CacheAssumption DEF Entry

\* invalidateLocked.
LEMMA Invalidated ==
    ASSUME ListMap, NEW k \in Key, invalidateLocked(k)
    PROVE  ListMap' /\ entries'[k] = None /\ \A x \in Key : x # k => entries'[x] = entries[x]
<1>1. order' = Without(k) /\ entries' = [entries EXCEPT ![k] = None]
  BY DEF invalidateLocked
<1>2. entries \in [Key -> Entry \cup {None}]
  BY DEF ListMap
<1>3. /\ entries' \in [Key -> Entry \cup {None}] /\ entries'[k] = None
      /\ \A x \in Key : x # k => entries'[x] = entries[x]
  BY <1>1, <1>2
<1>4. PICK w : w = Without(k)
  OBVIOUS
<1>5. /\ ListOK(w) /\ Len(w) = (IF In(order, k) THEN Len(order) - 1 ELSE Len(order))
      /\ \A x : In(w, x) <=> In(order, x) /\ x # k
  BY <1>4, WithoutIs DEF ListMap
<1>6. Len(w) <= Capacity
  <2>1. PICK n \in Nat, c \in Nat : n = Len(order) /\ c = Capacity /\ n <= c
    BY CacheAssumption DEF ListMap, ListOK
  <2>2. Len(w) = n - 1 \/ Len(w) = n
    BY <1>5, <2>1
  <2> QED BY <2>1, <2>2
<1>7. ListOK(order)'
  BY <1>1, <1>4, <1>5 DEF ListOK, Distinct
<1>8. \A x \in Key : entries'[x] # None <=> In(w, x)
  BY <1>3, <1>5 DEF ListMap
<1> QED BY <1>1, <1>3, <1>4, <1>6, <1>7, <1>8 DEF ListMap, In

\* The key goes to the front, from wherever it was.
LEMMA MovedToFront ==
    ASSUME ListMap, NEW k \in Key, NEW r, r = <<k>> \o Without(k)
    PROVE  /\ ListOK(r) /\ r[1] = k
           /\ Len(r) = IF In(order, k) THEN Len(order) ELSE Len(order) + 1
           /\ \A x : In(r, x) <=> x = k \/ In(order, x)
<1>1. PICK w : w = Without(k)
  OBVIOUS
<1>2. /\ ListOK(w) /\ Len(w) = (IF In(order, k) THEN Len(order) - 1 ELSE Len(order))
      /\ \A x : In(w, x) <=> In(order, x) /\ x # k
  BY <1>1, WithoutIs DEF ListMap
<1>3. /\ ListOK(r) /\ Len(r) = Len(w) + 1 /\ r[1] = k /\ \A x : In(r, x) <=> x = k \/ In(w, x)
  BY <1>1, <1>2, InFront
<1>4. PICK n \in Nat : n = Len(order)
  BY DEF ListMap, ListOK
<1>5. Len(r) = IF In(order, k) THEN Len(order) ELSE Len(order) + 1
  <2>1. CASE In(order, k)
    <3>1. Len(w) = n - 1
      BY <1>2, <1>4, <2>1
    <3>2. (n - 1) + 1 = n
      BY <1>4
    <3> QED BY <1>3, <1>4, <2>1, <3>1, <3>2
  <2>2. CASE ~In(order, k)
    BY <1>2, <1>3, <1>4, <2>2
  <2> QED BY <2>1, <2>2
<1> QED BY <1>2, <1>3, <1>5

\* A hit.
LEMMA Touched ==
    ASSUME ListMap, NEW k \in Key, entries[k] # None, order' = <<k>> \o Without(k), UNCHANGED entries
    PROVE  ListMap'
<1>1. In(order, k)
  BY DEF ListMap
<1>2. PICK r : r = <<k>> \o Without(k)
  OBVIOUS
<1>3. /\ ListOK(r) /\ Len(r) = Len(order) /\ \A x : In(r, x) <=> x = k \/ In(order, x)
  BY <1>1, <1>2, MovedToFront
<1>4. ListOK(order)'
  BY <1>2, <1>3 DEF ListOK, Distinct
<1>5. \A x \in Key : entries[x] # None <=> In(r, x)
  BY <1>1, <1>3 DEF ListMap
<1> QED BY <1>2, <1>3, <1>4, <1>5 DEF ListMap, In

\* insertLocked.
LEMMA Inserted ==
    ASSUME ListMap, NEW k \in Key, NEW v \in Value, NEW start \in Nat, insertLocked(k, v, start)
    PROVE  /\ ListMap'
           /\ entries'[k] # None /\ entries'[k].value = v
           /\ TTL # 0 => entries'[k].expires = start + TTL
           /\ \A x \in Key : x # k => entries'[x] = entries[x] \/ entries'[x] = None
<1>1. PICK r : r = <<k>> \o Without(k)
  OBVIOUS
<1>2. PICK t : t = IF Len(r) > Capacity THEN SubSeq(r, 1, Capacity) ELSE r
  OBVIOUS
<1>3. PICK e : e = [value |-> v, expires |-> IF TTL = 0 THEN 0 ELSE start + TTL]
  OBVIOUS
<1>4. /\ order' = t
      /\ entries' = [x \in Key |-> IF x = k THEN e ELSE IF In(t, x) THEN entries[x] ELSE None]
  BY <1>1, <1>2, <1>3 DEF insertLocked, In
<1>5. /\ ListOK(r) /\ r[1] = k /\ Len(r) = (IF In(order, k) THEN Len(order) ELSE Len(order) + 1)
      /\ \A x : In(r, x) <=> x = k \/ In(order, x)
  BY <1>1, MovedToFront
<1>6. PICK c \in Nat \ {0} : c = Capacity
  BY CacheAssumption
<1>7. Len(r) \in Nat /\ (Len(r) > c \/ Len(r) <= c)
  BY <1>5, <1>6 DEF ListOK
<1>8. ListOK(t) /\ Len(t) <= c /\ t[1] = k /\ \A x : In(t, x) => In(r, x)
  <2>1. CASE Len(r) > c
    <3>1. t = SubSeq(r, 1, c) /\ c < Len(r)
      BY <1>2, <1>6, <1>7, <2>1
    <3>2. ListOK(t) /\ Len(t) = c /\ t[1] = r[1] /\ \A x : In(t, x) => In(r, x)
      BY <1>5, <3>1, FirstOf
    <3> QED BY <1>5, <1>6, <3>2
  <2>2. CASE Len(r) <= c
    <3>1. ~(Len(r) > c)
      BY <1>7, <2>2
    <3> QED BY <1>2, <1>5, <1>6, <2>2, <3>1
  <2> QED BY <1>7, <2>1, <2>2
<1>9. In(t, k)
  <2>1. 1 \in DOMAIN t
    <3>1. t # <<>>
      <4>1. CASE Len(r) > c
        <5>1. t = SubSeq(r, 1, c) /\ c < Len(r)
          BY <1>2, <1>6, <1>7, <4>1
        <5>2. Len(t) = c
          BY <1>5, <5>1, FirstOf
        <5>3. Len(t) # 0
          BY <1>6, <5>2
        <5> QED BY <5>3
      <4>2. CASE Len(r) <= c
        <5>1. t = r
          BY <1>2, <1>6, <1>7, <4>2
        <5>2. In(t, k)
          BY <1>5, <5>1
        <5> QED BY <5>2 DEF In
      <4> QED BY <1>7, <4>1, <4>2
    <3> QED BY <1>8, <3>1 DEF ListOK
  <2> QED BY <1>8, <2>1 DEF In
<1>10. e \in Entry /\ e.value = v /\ (TTL # 0 => e.expires = start + TTL)
  BY <1>3, CacheAssumption DEF Entry
<1>11. e # None
  BY <1>10, EntryIsSome
<1>12. entries \in [Key -> Entry \cup {None}] /\ \A x \in Key : entries[x] # None <=> In(order, x)
  BY DEF ListMap
<1>13. /\ entries' \in [Key -> Entry \cup {None}] /\ entries'[k] = e
       /\ \A x \in Key : x # k => entries'[x] = IF In(t, x) THEN entries[x] ELSE None
  BY <1>4, <1>10, <1>12
<1>14. \A x \in Key : entries'[x] # None <=> In(t, x)
  <2> SUFFICES ASSUME NEW x \in Key PROVE entries'[x] # None <=> In(t, x)
    OBVIOUS
  <2>1. CASE x = k
    BY <1>9, <1>11, <1>13, <2>1
  <2>2. CASE x # k
    BY <1>5, <1>8, <1>12, <1>13, <2>2
  <2> QED BY <2>1, <2>2
<1>15. ListOK(order)'
  BY <1>4, <1>8 DEF ListOK, Distinct
<1>16. ListMap'
  BY <1>4, <1>6, <1>8, <1>13, <1>14, <1>15 DEF ListMap, In
<1> QED BY <1>10, <1>11, <1>13, <1>16

(***************************************************************************)
(* What the invariant says, in numbers.                                    *)
(***************************************************************************)

\* The parts of the invariant.
LEMMA InvParts ==
    ASSUME CacheInv
    PROVE  /\ ListMap /\ CallTypes /\ StoreTypes /\ Counted
           /\ \A k \in Key : KeyOK(k)
           /\ \A c \in Caller : CallerOK(c)
BY TypeParts DEF CacheInv

\* A call's fields.
LEMMA CallFacts ==
    ASSUME CallTypes, NEW c \in Caller
    PROVE  /\ pc[c] \in Where /\ op[c] \in OpType
           /\ op[c].key \in Key \cup {None} /\ op[c].on \in Caller \cup {None}
           /\ op[c].start \in 0 .. MaxClock /\ op[c].value \in Value /\ op[c].since \in Value
           /\ op[c].start \in Nat /\ op[c].value \in Nat /\ op[c].since \in Nat
<1>1. pc[c] \in Where /\ op[c] \in OpType
  BY DEF CallTypes
<1>2. /\ op[c].key \in Key \cup {None} /\ op[c].on \in Caller \cup {None}
      /\ op[c].start \in 0 .. MaxClock /\ op[c].value \in Value /\ op[c].since \in Value
  BY <1>1 DEF OpType
<1>3. Value \subseteq Nat /\ 0 .. MaxClock \subseteq Nat
  BY CacheAssumption DEF Value
<1> QED BY <1>1, <1>2, <1>3

\* A key's numbers.
LEMMA KeyFacts ==
    ASSUME ListMap, CallTypes, StoreTypes, NEW k \in Key
    PROVE  /\ landed[k] \in Seq(0 .. MaxClock) /\ Version(k) \in Nat /\ clock \in Nat
           /\ floor[k] \in Nat /\ floor[k] \in Value
           /\ entries[k] # None => /\ entries[k].value \in Nat /\ entries[k].expires \in Nat
                                   /\ entries[k].value \in Value
           /\ inflight[k] \in Caller \cup {None}
<1>1. landed[k] \in Seq(0 .. MaxClock) /\ Version(k) \in Nat
  BY DEF StoreTypes, Version
<1>2. Value \subseteq Nat /\ 0 .. MaxClock \subseteq Nat
  BY CacheAssumption DEF Value
<1>3. floor[k] \in Value /\ clock \in 0 .. MaxClock
  BY DEF StoreTypes
<1>4. entries[k] # None => entries[k] \in Entry
  BY DEF ListMap
<1>5. inflight[k] \in Caller \cup {None}
  BY DEF CallTypes
<1> QED BY <1>1, <1>2, <1>3, <1>4, <1>5, EntryIsSome

\* A value stays valid when its key is written once more.
LEMMA StaysValid ==
    ASSUME NEW s \in Seq(0 .. MaxClock), NEW z \in 0 .. MaxClock, NEW v \in Nat, NEW t \in Int,
           v <= Len(s), t <= z, Valid(s, v, t)
    PROVE  Valid(Append(s, z), v, t)
<1>1. PICK n \in Nat : n = Len(s)
  OBVIOUS
<1>2. PICK r : r = Append(s, z)
  OBVIOUS
<1>3. Len(r) = n + 1 /\ r[n + 1] = z /\ \A i \in 1 .. n : r[i] = s[i]
  BY <1>1, <1>2
<1>4. CASE v = n
  BY <1>2, <1>3, <1>4 DEF Valid
<1>5. CASE v # n
  <2>1. v + 1 \in 1 .. n
    BY <1>1, <1>5
  <2> QED BY <1>1, <1>2, <1>3, <1>5, <2>1 DEF Valid
<1> QED BY <1>4, <1>5

\* What a step does to a key that it leaves alone, save that its entry may go
\* and its fetch may move on.
KeyKept(k) ==
    /\ landed'[k] = landed[k] /\ floor'[k] = floor[k] /\ foreign' = foreign
    /\ clock' \in Nat /\ clock <= clock'
    /\ entries'[k] = entries[k] \/ entries'[k] = None
    /\ inflight'[k] # None =>
          /\ inflight'[k] = inflight[k]
          /\ pc'[inflight[k]] \in Fetching /\ op'[inflight[k]].key = k
          /\ pc'[inflight[k]] \in HasRead => floor[k] <= op'[inflight[k]].value
    /\ writeMu # None /\ pc[writeMu] \in Stored /\ op[writeMu].key = k =>
          writeMu' = writeMu /\ pc'[writeMu] = pc[writeMu] /\ op'[writeMu] = op[writeMu]

\* It stays in order.
LEMMA KeptKey ==
    ASSUME ListMap, CallTypes, StoreTypes, NEW k \in Key, KeyOK(k), KeyKept(k)
    PROVE  KeyOK(k)'
<1>1. /\ Version(k) \in Nat /\ floor[k] \in Nat /\ clock \in Nat /\ TTL \in Nat
      /\ entries[k] # None => entries[k].value \in Nat /\ entries[k].expires \in Nat
  BY KeyFacts, CacheAssumption
<1>2. Version(k)' = Version(k) /\ floor'[k] = floor[k]
  BY DEF KeyKept, Version
<1>3. floor'[k] <= Version(k)'
  BY <1>2 DEF KeyOK
<1>4. entries'[k] # None =>
          /\ floor'[k] <= entries'[k].value /\ entries'[k].value <= Version(k)'
          /\ TTL # 0 => /\ entries'[k].expires <= clock' + TTL
                         /\ Valid(landed'[k], entries'[k].value, entries'[k].expires - TTL)
  <2> SUFFICES ASSUME entries'[k] # None
      PROVE  /\ floor'[k] <= entries'[k].value /\ entries'[k].value <= Version(k)'
             /\ TTL # 0 => /\ entries'[k].expires <= clock' + TTL
                            /\ Valid(landed'[k], entries'[k].value, entries'[k].expires - TTL)
    OBVIOUS
  <2>1. entries'[k] = entries[k] /\ entries[k] # None /\ landed'[k] = landed[k]
    BY DEF KeyKept
  <2>2. floor'[k] <= entries'[k].value /\ entries'[k].value <= Version(k)'
    BY <1>2, <2>1 DEF KeyOK
  <2>3. TTL # 0 => Valid(landed'[k], entries'[k].value, entries'[k].expires - TTL)
    BY <2>1 DEF KeyOK
  <2>4. TTL # 0 => entries'[k].expires <= clock' + TTL
    <3>1. TTL # 0 => entries[k].expires <= clock + TTL
      BY <2>1 DEF KeyOK
    <3>2. clock' \in Nat /\ clock <= clock'
      BY DEF KeyKept
    <3> QED BY <1>1, <2>1, <3>1, <3>2
  <2> QED BY <2>2, <2>3, <2>4
<1>5. inflight'[k] # None =>
          /\ pc'[inflight'[k]] \in Fetching /\ op'[inflight'[k]].key = k
          /\ pc'[inflight'[k]] \in HasRead => floor'[k] <= op'[inflight'[k]].value
  BY DEF KeyKept
<1>6. foreign' = 0 =>
          \/ Version(k)' = floor'[k]
          \/ /\ Version(k)' = floor'[k] + 1 /\ writeMu' # None
             /\ pc'[writeMu'] \in Stored /\ op'[writeMu'].key = k /\ op'[writeMu'].value = Version(k)'
  BY <1>2 DEF KeyOK, KeyKept
<1> QED BY <1>3, <1>4, <1>5, <1>6 DEF KeyOK, Fetching, HasRead, Stored, Valid

\* What a step does to a goroutine that does not take it.
CallerKept(c) ==
    /\ pc'[c] = pc[c] /\ op'[c] = op[c]
    /\ writeMu' = c <=> writeMu = c
    /\ clock' \in Nat /\ clock <= clock'
    /\ op[c].key \in Key =>
          /\ landed'[op[c].key] \in {landed[op[c].key], Append(landed[op[c].key], clock)}
          /\ floor'[op[c].key] \in Nat /\ floor[op[c].key] <= floor'[op[c].key]
          /\ pc[c] \in Stored => floor'[op[c].key] = floor[op[c].key]
    /\ pc[c] \in Fetching /\ c \notin stale' =>
          c \notin stale /\ inflight'[op[c].key] = inflight[op[c].key]
    /\ pc[c] = "wait" =>
          /\ pc'[op[c].on] \in Fetching /\ op'[op[c].on].key = op[c].key
          /\ pc'[op[c].on] \in HasRead => op[c].since <= op'[op[c].on].value

\* It stays in order.
LEMMA KeptCaller ==
    ASSUME ListMap, CallTypes, StoreTypes, NEW c \in Caller, CallerOK(c), CallerKept(c)
    PROVE  CallerOK(c)'
<1>1. pc'[c] = pc[c] /\ op'[c] = op[c] /\ (writeMu' = c <=> writeMu = c)
  BY DEF CallerKept
<1>2. /\ op[c].start \in Nat /\ op[c].value \in Nat /\ op[c].since \in Nat
      /\ clock' \in Nat /\ clock <= clock' /\ clock \in Nat /\ clock \in 0 .. MaxClock
  BY CallFacts, CacheAssumption DEF CallerKept, StoreTypes
<1>3. pc'[c] \in Writing <=> writeMu' = c
  BY <1>1 DEF CallerOK
<1>4. ASSUME pc[c] # "idle"
      PROVE  /\ op'[c].key \in Key
             /\ op'[c].value <= Version(op[c].key)' /\ op'[c].since <= floor'[op'[c].key]
             /\ pc[c] \in {"fetched"} \cup Stored =>
                   Valid(landed'[op'[c].key], op'[c].value, op'[c].start)
  <2>1. PICK k \in Key : k = op[c].key /\ op'[c].key = k
    BY <1>1, <1>4 DEF CallerOK
  <2>2. op[c].value <= Version(k) /\ op[c].since <= floor[k]
    BY <1>4, <2>1 DEF CallerOK
  <2>3. /\ landed'[k] \in {landed[k], Append(landed[k], clock)}
        /\ floor'[k] \in Nat /\ floor[k] <= floor'[k]
    BY <2>1 DEF CallerKept
  <2>4. landed[k] \in Seq(0 .. MaxClock) /\ Version(k) \in Nat /\ floor[k] \in Nat
    BY KeyFacts
  <2>5. Version(k)' = Version(k) \/ Version(k)' = Version(k) + 1
    BY <1>2, <2>3, <2>4 DEF Version
  <2>6. op[c].value <= Version(k)' /\ op[c].since <= floor'[k]
    <3>1. PICK n \in Nat, z \in Nat, f \in Nat, g \in Nat :
              n = Version(k) /\ z = Version(k)' /\ f = floor[k] /\ g = floor'[k]
      <4>1. Version(k) \in Nat /\ floor[k] \in Nat /\ floor'[k] \in Nat
        BY <2>3, <2>4
      <4>2. Version(k)' \in Nat
        BY <2>5, <4>1
      <4> QED BY <4>1, <4>2
    <3>2. z = n \/ z = n + 1
      BY <2>5, <3>1
    <3>3. PICK v \in Nat, s \in Nat : v = op[c].value /\ s = op[c].since /\ v <= n /\ s <= f
      BY <1>2, <2>2, <3>1
    <3>4. v <= z
      BY <3>2, <3>3
    <3>5. s <= g
      BY <2>3, <3>1, <3>3
    <3> QED BY <3>1, <3>3, <3>4, <3>5
  <2>7. ASSUME pc[c] \in {"fetched"} \cup Stored PROVE Valid(landed'[k], op[c].value, op[c].start)
    <3>1. pc[c] \in {"fetch", "fetched"} \cup Writing
      BY <2>7 DEF Stored, Writing
    <3>2. op[c].start <= clock
      BY <3>1 DEF CallerOK
    <3>3. Valid(landed[k], op[c].value, op[c].start)
      BY <2>1, <2>7 DEF CallerOK
    <3>4. op[c].value <= Len(landed[k]) /\ op[c].start \in Int
      BY <1>2, <2>2 DEF Version
    <3> QED BY <1>2, <2>3, <2>4, <3>2, <3>3, <3>4, StaysValid
  <2> QED BY <1>1, <2>1, <2>6, <2>7
<1>5. pc'[c] \in Fetching /\ c \notin stale' => inflight'[op'[c].key] = c
  BY <1>1 DEF CallerOK, CallerKept
<1>6. pc'[c] \in HasRead \cup {"return"} => op'[c].since <= op'[c].value
  BY <1>1 DEF CallerOK
<1>7. pc'[c] = "wait" =>
          /\ op'[c].on # None /\ pc'[op'[c].on] \in Fetching /\ op'[op'[c].on].key = op'[c].key
          /\ pc'[op'[c].on] \in HasRead => op'[c].since <= op'[op'[c].on].value
  BY <1>1 DEF CallerOK, CallerKept
<1>8. pc'[c] \in Stored => floor'[op'[c].key] < op'[c].value
  <2> SUFFICES ASSUME pc[c] \in Stored PROVE floor'[op[c].key] < op[c].value
    BY <1>1
  <2>1. pc[c] # "idle"
    BY DEF Stored
  <2>2. floor'[op[c].key] = floor[op[c].key]
    BY <2>1 DEF CallerOK, CallerKept
  <2> QED BY <2>2 DEF CallerOK
<1>9. pc'[c] \in {"fetch", "fetched"} \cup Writing => op'[c].start <= clock'
  BY <1>1, <1>2 DEF CallerOK
<1>10. pc'[c] # "idle" =>
          /\ op'[c].key \in Key
          /\ op'[c].value <= Version(op[c].key)' /\ op'[c].since <= floor'[op'[c].key]
  BY <1>1, <1>4
<1>11. pc'[c] # "idle" => Version(op[c].key)' = Len(landed'[op'[c].key])
  BY <1>1 DEF Version
<1>12. pc'[c] \in {"fetched"} \cup Stored => Valid(landed'[op'[c].key], op'[c].value, op'[c].start)
  BY <1>1, <1>4 DEF Stored
<1> QED
  BY <1>3, <1>5, <1>6, <1>7, <1>8, <1>9, <1>10, <1>11, <1>12
  DEF CallerOK, Version, Fetching, HasRead, Stored, Writing, Valid

\* Nothing is written and no write begins.
LEMMA KeptCount ==
    ASSUME Counted, landed' = landed, writes' = writes, foreign' = foreign, writeMu' = writeMu,
           writeMu # None => pc'[writeMu] = pc[writeMu]
    PROVE  Counted'
BY DEF Counted, Pending, Version

\* One goroutine goes on to w with its call at r.
LEMMA CallSet ==
    ASSUME CallTypes, NEW c \in Caller, NEW r \in OpType, NEW w \in Where,
           op' = [op EXCEPT ![c] = r], pc' = [pc EXCEPT ![c] = w]
    PROVE  /\ op' \in [Caller -> OpType] /\ pc' \in [Caller -> Where]
           /\ op'[c] = r /\ pc'[c] = w
           /\ \A d \in Caller : d # c => op'[d] = op[d] /\ pc'[d] = pc[d]
BY DEF CallTypes

\* The invariant after a step, from its parts.
LEMMA InvFrom ==
    ASSUME ListMap', CallTypes', StoreTypes', Counted',
           \A k \in Key : KeyOK(k)', \A c \in Caller : CallerOK(c)'
    PROVE  CacheInv'
<1>1. TypeOK'
  BY TypeParts, PTL
<1> QED BY <1>1 DEF CacheInv

(***************************************************************************)
(* Every step keeps the invariant.                                         *)
(***************************************************************************)

\* Time passes.
LEMMA TickKeeps ==
    ASSUME CacheInv, Tick
    PROVE  CacheInv'
<1>1. /\ ListMap /\ CallTypes /\ StoreTypes /\ Counted
      /\ \A k \in Key : KeyOK(k)
      /\ \A c \in Caller : CallerOK(c)
  BY InvParts
<1>2. /\ clock \in Nat /\ clock' \in Nat /\ clock <= clock' /\ clock' \in 0 .. MaxClock
      /\ UNCHANGED <<policy, landed, writeMu, order, entries, inflight, stale, pc, op, floor,
                     foreign, writes, panics>>
  BY <1>1, CacheAssumption DEF Tick, StoreTypes, cacheVars, boundVars
<1>3. ListMap'
  BY <1>1, <1>2 DEF ListMap, ListOK, Distinct, In
<1>4. CallTypes'
  BY <1>1, <1>2 DEF CallTypes
<1>5. StoreTypes'
  BY <1>1, <1>2 DEF StoreTypes
<1>6. Counted'
  BY <1>1, <1>2, KeptCount
<1>7. ASSUME NEW k \in Key PROVE KeyOK(k)'
  <2>1. KeyKept(k)
    BY <1>1, <1>2 DEF KeyKept, KeyOK
  <2> QED BY <1>1, <2>1, KeptKey
<1>8. ASSUME NEW c \in Caller PROVE CallerOK(c)'
  <2>1. op[c].key \in Key => floor[op[c].key] \in Nat
    BY <1>1, KeyFacts
  <2>2. CallerKept(c)
    BY <1>1, <1>2, <2>1 DEF CallerKept, CallerOK
  <2> QED BY <1>1, <2>2, KeptCaller
<1> QED BY <1>3, <1>4, <1>5, <1>6, <1>7, <1>8, InvFrom

\* Another client writes.
LEMMA ForeignWriteKeeps ==
    ASSUME CacheInv, NEW k \in Written, ForeignWrite(k)
    PROVE  CacheInv'
<1>1. /\ ListMap /\ CallTypes /\ StoreTypes /\ Counted
      /\ \A x \in Key : KeyOK(x)
      /\ \A c \in Caller : CallerOK(c)
  BY InvParts
<1>2. /\ foreign' = foreign + 1 /\ foreign < MaxForeign
      /\ landed' = [landed EXCEPT ![k] = Append(@, clock)]
      /\ UNCHANGED <<policy, clock, writeMu, order, entries, inflight, stale, pc, op, floor,
                     writes, panics>>
  BY DEF ForeignWrite, cacheVars
<1>3. /\ k \in Key /\ clock \in 0 .. MaxClock /\ clock \in Nat /\ foreign \in Nat /\ writes \in Nat
      /\ foreign \in 0 .. MaxForeign
  BY <1>1, CacheAssumption DEF StoreTypes
<1>4. landed \in [Key -> Seq(0 .. MaxClock)]
  BY <1>1 DEF StoreTypes
<1>5. landed[k] \in Seq(0 .. MaxClock)
  BY <1>3, <1>4
<1>6. PICK s : s = Append(landed[k], clock) /\ s \in Seq(0 .. MaxClock) /\ Len(s) = Version(k) + 1
  <2>1. PICK q \in Seq(0 .. MaxClock), z \in 0 .. MaxClock : q = landed[k] /\ z = clock
    BY <1>3, <1>5
  <2>2. PICK s : s = Append(q, z)
    OBVIOUS
  <2>3. s \in Seq(0 .. MaxClock) /\ Len(s) = Len(q) + 1
    BY <2>1, <2>2
  <2> QED BY <2>1, <2>2, <2>3 DEF Version
<1>7. /\ landed' \in [Key -> Seq(0 .. MaxClock)] /\ landed'[k] = s
      /\ \A x \in Key : x # k => landed'[x] = landed[x]
  BY <1>2, <1>3, <1>4, <1>6
<1>8. \A x \in Key : Version(x) \in Nat
  BY <1>1, KeyFacts
<1>9. Version(k)' = Version(k) + 1 /\ \A x \in Key : x # k => Version(x)' = Version(x)
  BY <1>6, <1>7 DEF Version
<1>10. foreign' # 0 /\ foreign' \in 0 .. MaxForeign
  BY <1>2, <1>3, CacheAssumption
<1>11. ListMap'
  BY <1>1, <1>2 DEF ListMap, ListOK, Distinct, In
<1>12. CallTypes'
  BY <1>1, <1>2 DEF CallTypes
<1>13. StoreTypes'
  BY <1>1, <1>2, <1>7, <1>10 DEF StoreTypes
<1>14. Counted'
  <2>1. Pending' = Pending /\ Pending \in Nat
    BY <1>2 DEF Pending
  <2>2. ASSUME NEW x \in Key PROVE Version(x)' + Pending' <= writes' + foreign'
    <3>1. PICK v \in Nat, z \in Nat, p \in Nat, a \in Nat, b \in Nat :
            v = Version(x) /\ z = Version(x)' /\ p = Pending /\ a = writes /\ b = foreign
      <4>1. Version(x)' = Version(x) \/ Version(x)' = Version(x) + 1
        BY <1>9
      <4>2. Version(x)' \in Nat
        BY <1>8, <4>1
      <4> QED BY <1>3, <1>8, <2>1, <4>2
    <3>2. v + p <= a + b
      BY <1>1, <3>1 DEF Counted
    <3>3. z = v \/ z = v + 1
      BY <1>9, <3>1
    <3>4. z + p <= a + (b + 1)
      BY <3>2, <3>3
    <3> QED BY <1>2, <2>1, <3>1, <3>4
  <2> QED BY <2>2 DEF Counted
<1>15. ASSUME NEW x \in Key PROVE KeyOK(x)'
  <2>1. KeyOK(x)
    BY <1>1
  <2>2. /\ floor[x] \in Nat /\ Version(x) \in Nat /\ TTL \in Nat /\ landed[x] \in Seq(0 .. MaxClock)
        /\ entries[x] # None => entries[x].value \in Nat /\ entries[x].expires \in Nat
    BY <1>1, KeyFacts, CacheAssumption
  <2>3. Version(x)' = Version(x) \/ Version(x)' = Version(x) + 1
    BY <1>9
  <2>4. PICK v \in Nat, f \in Nat : v = Version(x) /\ f = floor[x] /\ f <= v
    BY <2>1, <2>2 DEF KeyOK
  <2>5. floor'[x] <= Version(x)'
    <3>1. f <= v /\ f <= v + 1
      BY <2>4
    <3> QED BY <1>2, <2>3, <2>4, <3>1
  <2>6. ASSUME entries'[x] # None
        PROVE  /\ floor'[x] <= entries'[x].value /\ entries'[x].value <= Version(x)'
               /\ TTL # 0 => /\ entries'[x].expires <= clock' + TTL
                              /\ Valid(landed'[x], entries'[x].value, entries'[x].expires - TTL)
    <3>1. PICK e \in Nat, t \in Nat : /\ entries'[x] = entries[x] /\ entries[x] # None
                                      /\ e = entries[x].value /\ t = entries[x].expires
      BY <1>2, <2>2, <2>6
    <3>2. /\ floor[x] <= e /\ e <= v
          /\ TTL # 0 => t <= clock + TTL /\ Valid(landed[x], e, t - TTL)
      BY <2>1, <2>4, <3>1 DEF KeyOK
    <3>3. e <= v /\ e <= v + 1
      BY <3>2
    <3>4. e <= Version(x)'
      BY <2>3, <2>4, <3>3
    <3>5. TTL # 0 => Valid(landed'[x], e, t - TTL)
      <4>1. CASE x = k
        <5> SUFFICES ASSUME TTL # 0 PROVE Valid(s, e, t - TTL)
          BY <1>7, <4>1
        <5>1. t - TTL \in Int /\ t - TTL <= clock
          BY <1>3, <2>2, <3>2
        <5>2. e <= Len(landed[k]) /\ Valid(landed[k], e, t - TTL)
          BY <2>4, <3>2, <4>1 DEF Version
        <5> QED BY <1>3, <1>5, <1>6, <5>1, <5>2, StaysValid
      <4>2. CASE x # k
        BY <1>7, <3>2, <4>2
      <4> QED BY <4>1, <4>2
    <3> QED BY <1>2, <3>1, <3>2, <3>4, <3>5
  <2>7. inflight'[x] # None =>
          /\ pc'[inflight'[x]] \in Fetching /\ op'[inflight'[x]].key = x
          /\ pc'[inflight'[x]] \in HasRead => floor'[x] <= op'[inflight'[x]].value
    BY <1>2, <2>1 DEF KeyOK
  <2> QED BY <1>10, <2>5, <2>6, <2>7 DEF KeyOK, Fetching, HasRead, Valid
<1>16. ASSUME NEW c \in Caller PROVE CallerOK(c)'
  <2>1. op[c].key \in Key => floor[op[c].key] \in Nat
    BY <1>1, KeyFacts
  <2>2. op[c].key \in Key => landed'[op[c].key] \in {landed[op[c].key], Append(landed[op[c].key], clock)}
    BY <1>6, <1>7
  <2>3. CallerKept(c)
    BY <1>1, <1>2, <1>3, <2>1, <2>2 DEF CallerKept, CallerOK
  <2> QED BY <1>1, <2>3, KeptCaller
<1> QED BY <1>11, <1>12, <1>13, <1>14, <1>15, <1>16, InvFrom

\* Since is the floor of the key when the Get was called.
LEMMA SinceFacts ==
    ASSUME CacheInv, NEW c \in Caller, NEW k \in Key, Calling(c, k)
    PROVE  /\ pc[c] \notin Fetching /\ pc[c] # "wait" /\ pc[c] \notin Writing
           /\ Since(c, k) \in Value /\ Since(c, k) <= floor[k] /\ Since(c, k) \in Nat
<1>1. /\ CallTypes /\ StoreTypes /\ ListMap /\ CallerOK(c)
  BY InvParts
<1>2. pc[c] \notin Fetching /\ pc[c] # "wait" /\ pc[c] \notin Writing
  BY DEF Calling, Fetching, Writing
<1>3. op[c].since \in Value /\ op[c].since \in Nat /\ floor[k] \in Value /\ floor[k] \in Nat
  BY <1>1, CallFacts, KeyFacts
<1>4. CASE pc[c] = "retry"
  <2>1. op[c].key = k /\ Since(c, k) = op[c].since
    BY <1>4 DEF Calling, Since
  <2>2. op[c].since <= floor[k]
    BY <1>1, <1>4, <2>1 DEF CallerOK
  <2> QED BY <1>2, <1>3, <2>1, <2>2
<1>5. CASE pc[c] # "retry"
  <2>1. Since(c, k) = floor[k]
    BY <1>5 DEF Since
  <2> QED BY <1>2, <1>3, <2>1
<1> QED BY <1>4, <1>5

\* A goroutine that neither fetches nor writes leads no fetch, is waited for by
\* nobody and does not hold writeMu.
LEMMA Outsider ==
    ASSUME CacheInv, NEW c \in Caller, pc[c] \notin Fetching, pc[c] \notin Writing
    PROVE  /\ writeMu # c
           /\ \A x \in Key : inflight[x] # c
           /\ \A d \in Caller : pc[d] = "wait" => op[d].on # c
<1>1. c # None /\ CallerOK(c) /\ (\A x \in Key : KeyOK(x)) /\ (\A d \in Caller : CallerOK(d))
  BY InvParts, CacheAssumption
<1>2. writeMu # c
  BY <1>1 DEF CallerOK
<1>3. ASSUME NEW x \in Key, inflight[x] = c PROVE FALSE
  <2>1. KeyOK(x)
    BY <1>1
  <2> QED BY <1>1, <1>3, <2>1 DEF KeyOK
<1>4. ASSUME NEW d \in Caller, pc[d] = "wait", op[d].on = c PROVE FALSE
  <2>1. CallerOK(d)
    BY <1>1
  <2> QED BY <1>4, <2>1 DEF CallerOK
<1> QED BY <1>2, <1>3, <1>4

\* Where a wait leads.
LEMMA WaitsOn ==
    ASSUME CacheInv, NEW d \in Caller, pc[d] = "wait"
    PROVE  op[d].on \in Caller /\ pc[op[d].on] \in Fetching /\ op[op[d].on].key = op[d].key
BY InvParts, CallFacts DEF CallerOK

\* The fetch registered for a key, and who holds writeMu.
LEMMA Registered ==
    ASSUME CacheInv
    PROVE  /\ writeMu # None => writeMu \in Caller /\ pc[writeMu] \in Writing
           /\ \A x \in Key : inflight[x] # None =>
                 inflight[x] \in Caller /\ pc[inflight[x]] \in Fetching /\ op[inflight[x]].key = x
<1>1. /\ CallTypes /\ (\A x \in Key : KeyOK(x)) /\ \A d \in Caller : CallerOK(d)
  BY InvParts
<1>2. writeMu \in Caller \cup {None} /\ \A x \in Key : inflight[x] \in Caller \cup {None}
  BY <1>1 DEF CallTypes
<1>3. writeMu \in Caller => pc[writeMu] \in Writing
  BY <1>1 DEF CallerOK
<1>4. ASSUME NEW x \in Key, inflight[x] # None
      PROVE  inflight[x] \in Caller /\ pc[inflight[x]] \in Fetching /\ op[inflight[x]].key = x
  <2>1. KeyOK(x)
    BY <1>1
  <2> QED BY <1>2, <1>4, <2>1 DEF KeyOK
<1> QED BY <1>2, <1>3, <1>4

\* A step of c alone that leaves the store, the clock, writeMu and floor: for
\* every other goroutine, and for every key that c is not registered for.
OnlyCaller(c) ==
    /\ landed' = landed /\ clock' = clock /\ writeMu' = writeMu /\ floor' = floor /\ foreign' = foreign
    /\ \A d \in Caller : d # c => op'[d] = op[d] /\ pc'[d] = pc[d]

\* The others are kept, when c's fetch goes on being one for its key.
LEMMA OthersKept ==
    ASSUME CacheInv, NEW c \in Caller, OnlyCaller(c), NEW d \in Caller, d # c,
           stale' = stale,
           pc[d] \in Fetching => inflight'[op[d].key] = inflight[op[d].key] \/ d \in stale,
           pc[d] = "wait" /\ op[d].on = c =>
               /\ pc'[c] \in Fetching /\ op'[c].key = op[c].key
               /\ pc'[c] \in HasRead => op[d].since <= op'[c].value
    PROVE  CallerOK(d)'
<1>1. ListMap /\ CallTypes /\ StoreTypes /\ CallerOK(d)
  BY InvParts
<1>2. pc'[d] = pc[d] /\ op'[d] = op[d]
  BY DEF OnlyCaller
<1>3. op[d].key \in Key => floor[op[d].key] \in Nat
  BY <1>1, KeyFacts
<1>4. clock \in Nat
  BY <1>1, CacheAssumption DEF StoreTypes
<1>5. pc[d] = "wait" =>
          /\ pc'[op[d].on] \in Fetching /\ op'[op[d].on].key = op[d].key
          /\ pc'[op[d].on] \in HasRead => op[d].since <= op'[op[d].on].value
  <2> SUFFICES ASSUME pc[d] = "wait"
      PROVE  /\ pc'[op[d].on] \in Fetching /\ op'[op[d].on].key = op[d].key
             /\ pc'[op[d].on] \in HasRead => op[d].since <= op'[op[d].on].value
    OBVIOUS
  <2>1. op[d].on \in Caller /\ pc[op[d].on] \in Fetching /\ op[op[d].on].key = op[d].key
    BY WaitsOn
  <2>2. CASE op[d].on = c
    BY <2>1, <2>2
  <2>3. CASE op[d].on # c
    <3>1. pc'[op[d].on] = pc[op[d].on] /\ op'[op[d].on] = op[op[d].on]
      BY <2>1, <2>3 DEF OnlyCaller
    <3> QED BY <1>1, <2>1, <3>1 DEF CallerOK
  <2> QED BY <2>2, <2>3
<1>6. CallerKept(d)
  BY <1>2, <1>3, <1>4, <1>5 DEF CallerKept, OnlyCaller
<1> QED BY <1>1, <1>6, KeptCaller

\* A key is kept when c does not write and, if c leads the key's fetch, goes on
\* leading it.
LEMMA OthersKeys ==
    ASSUME CacheInv, NEW c \in Caller, OnlyCaller(c), NEW k \in Key, pc[c] \notin Writing,
           entries'[k] = entries[k] \/ entries'[k] = None,
           inflight'[k] # None => inflight'[k] = inflight[k],
           inflight'[k] = c => /\ pc'[c] \in Fetching /\ op'[c].key = k
                               /\ pc'[c] \in HasRead => floor[k] <= op'[c].value
    PROVE  KeyOK(k)'
<1>1. ListMap /\ CallTypes /\ StoreTypes /\ KeyOK(k)
  BY InvParts
<1>2. clock \in Nat
  BY <1>1, CacheAssumption DEF StoreTypes
<1>3. inflight'[k] # None =>
          /\ pc'[inflight[k]] \in Fetching /\ op'[inflight[k]].key = k
          /\ pc'[inflight[k]] \in HasRead => floor[k] <= op'[inflight[k]].value
  <2> SUFFICES ASSUME inflight'[k] # None
      PROVE  /\ pc'[inflight[k]] \in Fetching /\ op'[inflight[k]].key = k
             /\ pc'[inflight[k]] \in HasRead => floor[k] <= op'[inflight[k]].value
    OBVIOUS
  <2>1. inflight'[k] = inflight[k] /\ inflight[k] \in Caller
    BY Registered
  <2>2. CASE inflight[k] = c
    BY <2>1, <2>2
  <2>3. CASE inflight[k] # c
    <3>1. pc'[inflight[k]] = pc[inflight[k]] /\ op'[inflight[k]] = op[inflight[k]]
      BY <2>1, <2>3 DEF OnlyCaller
    <3> QED BY <1>1, <2>1, <3>1 DEF KeyOK
  <2> QED BY <2>2, <2>3
<1>4. writeMu # None => pc'[writeMu] = pc[writeMu] /\ op'[writeMu] = op[writeMu]
  BY Registered DEF OnlyCaller
<1>5. KeyKept(k)
  BY <1>2, <1>3, <1>4 DEF KeyKept, OnlyCaller
<1> QED BY <1>1, <1>5, KeptKey

\* Nor does c change what is counted.
LEMMA OthersCount ==
    ASSUME CacheInv, NEW c \in Caller, OnlyCaller(c), pc[c] \notin Writing, writes' = writes
    PROVE  Counted'
<1>1. Counted
  BY InvParts
<1>2. writeMu # None => pc'[writeMu] = pc[writeMu]
  BY Registered DEF OnlyCaller
<1> QED BY <1>1, <1>2, KeptCount DEF OnlyCaller

\* A Get that finds its entry.
LEMMA HitKeeps ==
    ASSUME CacheInv, NEW c \in Caller, NEW k \in Key, hit(c, k)
    PROVE  CacheInv'
<1>1. /\ ListMap /\ CallTypes /\ StoreTypes /\ KeyOK(k) /\ CallerOK(c)
  BY InvParts
<1>2. /\ Calling(c, k) /\ entries[k] # None /\ order' = <<k>> \o Without(k)
      /\ pc' = [pc EXCEPT ![c] = "return"]
      /\ UNCHANGED <<policy, landed, clock, writeMu, entries, inflight, stale, floor,
                     foreign, writes, panics>>
  BY DEF hit, Goto, boundVars
<1>3. PICK r : /\ r = [key |-> k, start |-> 0, value |-> entries[k].value,
                       since |-> Since(c, k), on |-> None]
               /\ op' = [op EXCEPT ![c] = r]
  BY DEF hit
<1>4. /\ pc[c] \notin Fetching /\ pc[c] # "wait" /\ pc[c] \notin Writing
      /\ Since(c, k) \in Value /\ Since(c, k) <= floor[k] /\ Since(c, k) \in Nat
  BY <1>2, SinceFacts
<1>5. entries[k].value \in Value /\ entries[k].value \in Nat /\ floor[k] \in Nat /\ Version(k) \in Nat
  BY <1>1, <1>2, KeyFacts
<1>6. r \in OpType /\ r.key = k /\ r.value = entries[k].value /\ r.since = Since(c, k)
  BY <1>3, <1>4, <1>5, CacheAssumption DEF OpType
<1>7. "return" \in Where
  BY DEF Where
<1>8. /\ op' \in [Caller -> OpType] /\ pc' \in [Caller -> Where] /\ op'[c] = r /\ pc'[c] = "return"
      /\ \A d \in Caller : d # c => op'[d] = op[d] /\ pc'[d] = pc[d]
  BY <1>1, <1>2, <1>3, <1>6, <1>7, CallSet
<1>9. OnlyCaller(c)
  BY <1>2, <1>8 DEF OnlyCaller
<1>10. /\ writeMu # c /\ \A x \in Key : inflight[x] # c
       /\ \A d \in Caller : pc[d] = "wait" => op[d].on # c
  BY <1>4, Outsider
<1>11. ListMap'
  BY <1>1, <1>2, Touched
<1>12. CallTypes'
  BY <1>1, <1>2, <1>8 DEF CallTypes
<1>13. StoreTypes'
  BY <1>1, <1>2 DEF StoreTypes
<1>14. Counted'
  BY <1>2, <1>4, <1>9, OthersCount
<1>15. ASSUME NEW x \in Key PROVE KeyOK(x)'
  BY <1>2, <1>4, <1>9, <1>10, OthersKeys
<1>16. ASSUME NEW d \in Caller, d # c PROVE CallerOK(d)'
  BY <1>2, <1>9, <1>10, <1>16, OthersKept
<1>17. CallerOK(c)'
  <2>1. /\ r.value <= Version(k) /\ r.since <= floor[k] /\ r.since <= r.value
    <3>1. floor[k] <= entries[k].value /\ entries[k].value <= Version(k)
      BY <1>1, <1>2 DEF KeyOK
    <3> QED BY <1>4, <1>5, <1>6, <3>1
  <2>2. Version(k)' = Version(k) /\ floor'[k] = floor[k] /\ writeMu' # c
    BY <1>2, <1>10 DEF Version
  <2> QED BY <1>6, <1>8, <2>1, <2>2 DEF CallerOK, Version, Writing, Fetching, HasRead, Stored
<1> QED BY <1>11, <1>12, <1>13, <1>14, <1>15, <1>16, <1>17, InvFrom

\* A Get that does not.
LEMMA MissKeeps ==
    ASSUME CacheInv, NEW c \in Caller, NEW k \in Key, miss(c, k)
    PROVE  CacheInv'
<1>1. /\ ListMap /\ CallTypes /\ StoreTypes /\ KeyOK(k) /\ CallerOK(c)
  BY InvParts
<1>2. /\ Calling(c, k) /\ invalidateLocked(k)
      /\ UNCHANGED <<policy, landed, clock, writeMu, stale, floor, foreign, writes, panics>>
  BY DEF miss, boundVars
<1>3. PICK w : /\ w = (IF Joinable(k) THEN "wait" ELSE "fetch")
               /\ pc' = [pc EXCEPT ![c] = w]
               /\ inflight' = IF Joinable(k) THEN inflight ELSE [inflight EXCEPT ![k] = c]
  BY DEF miss, Goto
<1>4. PICK r : /\ r = [key |-> k, value |-> 0, since |-> Since(c, k),
                       start |-> IF Joinable(k) THEN 0 ELSE now,
                       on |-> IF Joinable(k) THEN inflight[k] ELSE None]
               /\ op' = [op EXCEPT ![c] = r]
  BY DEF miss
<1>5. /\ pc[c] \notin Fetching /\ pc[c] # "wait" /\ pc[c] \notin Writing
      /\ Since(c, k) \in Value /\ Since(c, k) <= floor[k] /\ Since(c, k) \in Nat
  BY <1>2, SinceFacts
<1>6. /\ floor[k] \in Nat /\ Version(k) \in Nat /\ clock \in Nat /\ clock \in 0 .. MaxClock
      /\ inflight[k] \in Caller \cup {None}
  BY <1>1, KeyFacts DEF StoreTypes
<1>7. 0 \in Value /\ 0 \in 0 .. MaxClock /\ now \in 0 .. MaxClock /\ now <= clock
  BY <1>6, CacheAssumption DEF Value, now
<1>8. /\ r \in OpType /\ r.key = k /\ r.value = 0 /\ r.since = Since(c, k)
      /\ r.start <= clock /\ r.on = IF Joinable(k) THEN inflight[k] ELSE None
  <2>1. PICK s \in 0 .. MaxClock : s = (IF Joinable(k) THEN 0 ELSE now) /\ s <= clock
    BY <1>6, <1>7
  <2>2. PICK o \in Caller \cup {None} : o = (IF Joinable(k) THEN inflight[k] ELSE None)
    BY <1>6
  <2>3. r = [key |-> k, value |-> 0, since |-> Since(c, k), start |-> s, on |-> o]
    BY <1>4, <2>1, <2>2
  <2>4. r \in OpType /\ r.start = s /\ r.on = o /\ r.key = k /\ r.value = 0 /\ r.since = Since(c, k)
    BY <1>5, <1>7, <2>3 DEF OpType
  <2> QED BY <2>1, <2>2, <2>4
<1>9. w \in Where
  BY <1>3 DEF Where
<1>10. /\ op' \in [Caller -> OpType] /\ pc' \in [Caller -> Where] /\ op'[c] = r /\ pc'[c] = w
       /\ \A d \in Caller : d # c => op'[d] = op[d] /\ pc'[d] = pc[d]
  BY <1>1, <1>3, <1>4, <1>8, <1>9, CallSet
<1>11. OnlyCaller(c)
  BY <1>2, <1>10 DEF OnlyCaller
<1>12. /\ writeMu # c /\ \A x \in Key : inflight[x] # c
       /\ \A d \in Caller : pc[d] = "wait" => op[d].on # c
  BY <1>5, Outsider
<1>13. ListMap' /\ entries'[k] = None /\ \A x \in Key : x # k => entries'[x] = entries[x]
  BY <1>1, <1>2, Invalidated
<1>14. /\ inflight' \in [Key -> Caller \cup {None}]
       /\ \A x \in Key : x # k => inflight'[x] = inflight[x]
       /\ inflight'[k] = (IF Joinable(k) THEN inflight[k] ELSE c)
  BY <1>1, <1>3 DEF CallTypes
<1>15. CallTypes'
  BY <1>1, <1>2, <1>10, <1>14 DEF CallTypes
<1>16. StoreTypes'
  BY <1>1, <1>2 DEF StoreTypes
<1>17. Counted'
  BY <1>2, <1>5, <1>11, OthersCount
<1>18. ASSUME NEW x \in Key, x # k \/ Joinable(k) PROVE KeyOK(x)'
  BY <1>5, <1>11, <1>12, <1>13, <1>14, <1>18, OthersKeys
<1>19. ASSUME ~Joinable(k) PROVE KeyOK(k)'
  <2>1. pc'[c] = "fetch" /\ op'[c].key = k /\ inflight'[k] = c /\ entries'[k] = None
    BY <1>3, <1>8, <1>10, <1>13, <1>14, <1>19
  <2>2. Version(k)' = Version(k) /\ floor' = floor /\ foreign' = foreign /\ writeMu' = writeMu
    BY <1>2 DEF Version
  <2>3. writeMu # None => pc'[writeMu] = pc[writeMu] /\ op'[writeMu] = op[writeMu]
    BY <1>10, <1>12, Registered
  <2> QED BY <1>1, <2>1, <2>2, <2>3 DEF KeyOK, Fetching, HasRead, Stored
<1>20. ASSUME NEW d \in Caller, d # c PROVE CallerOK(d)'
  <2>1. pc[d] \in Fetching => inflight'[op[d].key] = inflight[op[d].key] \/ d \in stale
    <3> SUFFICES ASSUME pc[d] \in Fetching, d \notin stale
        PROVE  inflight'[op[d].key] = inflight[op[d].key]
      OBVIOUS
    <3>1. op[d].key \in Key /\ inflight[op[d].key] = d
      BY InvParts DEF CallerOK, Fetching
    <3>2. op[d].key = k => Joinable(k)
      BY <3>1, CacheAssumption DEF Joinable
    <3> QED BY <1>14, <3>1, <3>2
  <2> QED BY <1>2, <1>11, <1>12, <1>20, <2>1, OthersKept
<1>21. CallerOK(c)'
  <2>1. Version(k)' = Version(k) /\ floor'[k] = floor[k] /\ writeMu' # c /\ clock' = clock
    BY <1>2, <1>12 DEF Version
  <2>2. r.value <= Version(k) /\ r.since <= floor[k]
    BY <1>5, <1>6, <1>8
  <2>3. CASE Joinable(k)
    <3>1. pc'[c] = "wait" /\ r.on = inflight[k] /\ inflight[k] # None
      BY <1>3, <1>8, <1>10, <2>3 DEF Joinable
    <3>2. /\ inflight[k] \in Caller /\ inflight[k] # c
          /\ pc[inflight[k]] \in Fetching /\ op[inflight[k]].key = k
          /\ pc[inflight[k]] \in HasRead => floor[k] <= op[inflight[k]].value
      BY <1>1, <1>6, <1>12, <3>1 DEF KeyOK
    <3>3. op[inflight[k]].value \in Nat
      BY <1>1, <3>2, CallFacts
    <3>4. pc[inflight[k]] \in HasRead => r.since <= op[inflight[k]].value
      BY <1>5, <1>6, <1>8, <3>2, <3>3
    <3>5. pc'[inflight[k]] = pc[inflight[k]] /\ op'[inflight[k]] = op[inflight[k]]
      BY <1>10, <3>2
    <3> QED BY <1>8, <1>10, <2>1, <2>2, <3>1, <3>2, <3>4, <3>5
            DEF CallerOK, Version, Writing, Fetching, HasRead, Stored
  <2>4. CASE ~Joinable(k)
    <3>1. pc'[c] = "fetch" /\ inflight'[k] = c
      BY <1>3, <1>10, <1>14, <2>4
    <3> QED BY <1>8, <1>10, <2>1, <2>2, <3>1 DEF CallerOK, Version, Writing, Fetching, HasRead, Stored
  <2> QED BY <2>3, <2>4
<1> QED BY <1>13, <1>15, <1>16, <1>17, <1>18, <1>19, <1>20, <1>21, InvFrom

\* The store answers a fetch.
LEMMA FetchKeeps ==
    ASSUME CacheInv, NEW c \in Caller, fetch(c)
    PROVE  CacheInv'
<1>1. /\ ListMap /\ CallTypes /\ StoreTypes /\ CallerOK(c) /\ \A d \in Caller : CallerOK(d)
  BY InvParts
<1>2. /\ pc[c] = "fetch" /\ pc' = [pc EXCEPT ![c] = "fetched"]
      /\ UNCHANGED <<policy, landed, clock, writeMu, order, entries, inflight, stale, floor,
                     foreign, writes, panics>>
  BY DEF fetch, Goto, boundVars, cacheVars
<1>3. PICK k \in Key : k = op[c].key
  BY <1>1, <1>2 DEF CallerOK
<1>4. PICK r : r = [op[c] EXCEPT !.value = Version(k)] /\ op' = [op EXCEPT ![c] = r]
  BY <1>3 DEF fetch
<1>5. /\ floor[k] \in Nat /\ Version(k) \in Nat /\ floor[k] <= Version(k)
      /\ op[c] \in OpType /\ op[c].since \in Nat
  BY <1>1, <1>3, KeyFacts, CallFacts, InvParts DEF KeyOK
<1>6. Version(k) \in Value
  <2>1. Version(k) + Pending <= writes + foreign
    BY InvParts DEF Counted
  <2>2. Pending \in Nat /\ writes \in 0 .. MaxWrites /\ foreign \in 0 .. MaxForeign
    BY <1>1 DEF Pending, StoreTypes
  <2> QED BY <1>5, <2>1, <2>2, CacheAssumption DEF Value
<1>7. /\ r \in OpType /\ r.key = k /\ r.value = Version(k) /\ r.since = op[c].since
      /\ r.start = op[c].start
  BY <1>3, <1>4, <1>5, <1>6 DEF OpType
<1>8. "fetched" \in Where
  BY DEF Where
<1>9. /\ op' \in [Caller -> OpType] /\ pc' \in [Caller -> Where] /\ op'[c] = r /\ pc'[c] = "fetched"
      /\ \A d \in Caller : d # c => op'[d] = op[d] /\ pc'[d] = pc[d]
  BY <1>1, <1>2, <1>4, <1>7, <1>8, CallSet
<1>10. OnlyCaller(c)
  BY <1>2, <1>9 DEF OnlyCaller
<1>11. pc[c] \notin Writing /\ pc[c] \in Fetching /\ pc'[c] \in Fetching
  BY <1>2, <1>9 DEF Writing, Fetching
<1>12. ListMap'
  BY <1>1, <1>2 DEF ListMap, ListOK, Distinct, In
<1>13. CallTypes'
  BY <1>1, <1>2, <1>9 DEF CallTypes
<1>14. StoreTypes'
  BY <1>1, <1>2 DEF StoreTypes
<1>15. Counted'
  BY <1>2, <1>10, <1>11, OthersCount
<1>16. ASSUME NEW x \in Key PROVE KeyOK(x)'
  <2>1. inflight[x] = c => x = k
    BY <1>3, Registered, CacheAssumption
  <2>2. inflight'[x] = c => /\ pc'[c] \in Fetching /\ op'[c].key = x
                            /\ pc'[c] \in HasRead => floor[x] <= op'[c].value
    BY <1>2, <1>5, <1>7, <1>9, <1>11, <2>1
  <2> QED BY <1>2, <1>10, <1>11, <2>2, OthersKeys
<1>17. ASSUME NEW d \in Caller, d # c PROVE CallerOK(d)'
  <2>1. pc[d] = "wait" /\ op[d].on = c =>
            /\ pc'[c] \in Fetching /\ op'[c].key = op[c].key
            /\ pc'[c] \in HasRead => op[d].since <= op'[c].value
    <3> SUFFICES ASSUME pc[d] = "wait", op[d].on = c PROVE op[d].since <= Version(k)
      BY <1>3, <1>7, <1>9, <1>11
    <3>1. op[d].key = k /\ op[d].since <= floor[k]
      BY <1>1, <1>3 DEF CallerOK
    <3>2. op[d].since \in Nat
      BY <1>1, CallFacts
    <3> QED BY <1>5, <3>1, <3>2
  <2> QED BY <1>2, <1>10, <1>17, <2>1, OthersKept
<1>18. CallerOK(c)'
  <2>1. /\ Version(k)' = Version(k) /\ floor'[k] = floor[k] /\ clock' = clock /\ landed'[k] = landed[k]
        /\ writeMu' = writeMu /\ inflight'[k] = inflight[k] /\ stale' = stale
    BY <1>2 DEF Version
  <2>2. /\ op[c].since <= floor[k] /\ op[c].start <= clock /\ writeMu # c
        /\ c \notin stale => inflight[k] = c
    BY <1>1, <1>2, <1>3 DEF CallerOK, Writing, Fetching
  <2>3. r.value <= Version(k) /\ r.since <= floor[k] /\ r.since <= r.value
    BY <1>5, <1>7, <2>2
  <2>4. Valid(landed[k], r.value, r.start)
    BY <1>7 DEF Valid, Version
  <2> QED BY <1>7, <1>9, <2>1, <2>2, <2>3, <2>4
          DEF CallerOK, Version, Writing, Fetching, HasRead, Stored, Valid
<1> QED BY <1>12, <1>13, <1>14, <1>15, <1>16, <1>17, <1>18, InvFrom

\* The store panics in it.
LEMMA FetchPanicsKeeps ==
    ASSUME CacheInv, NEW c \in Caller, fetchPanics(c)
    PROVE  CacheInv'
<1>1. /\ ListMap /\ CallTypes /\ StoreTypes /\ CallerOK(c)
  BY InvParts
<1>2. /\ pc[c] = "fetch" /\ pc' = [pc EXCEPT ![c] = "panicked"] /\ panics < MaxPanics
      /\ panics' = panics + 1
      /\ UNCHANGED <<policy, landed, clock, writeMu, order, entries, inflight, stale, op, floor,
                     foreign, writes>>
  BY DEF fetchPanics, Goto, cacheVars
<1>3. PICK k \in Key : k = op[c].key
  BY <1>1, <1>2 DEF CallerOK
<1>4. pc' \in [Caller -> Where] /\ pc'[c] = "panicked" /\ \A d \in Caller : d # c => pc'[d] = pc[d]
  BY <1>1, <1>2 DEF CallTypes, Where
<1>5. OnlyCaller(c)
  BY <1>2, <1>4 DEF OnlyCaller
<1>6. pc[c] \notin Writing /\ pc[c] \in Fetching /\ pc'[c] \in Fetching /\ pc'[c] \notin HasRead
  BY <1>2, <1>4 DEF Writing, Fetching, HasRead
<1>7. ListMap'
  BY <1>1, <1>2 DEF ListMap, ListOK, Distinct, In
<1>8. CallTypes'
  BY <1>1, <1>2, <1>4 DEF CallTypes
<1>9. panics' \in 0 .. MaxPanics
  BY <1>1, <1>2, CacheAssumption DEF StoreTypes
<1>10. StoreTypes'
  BY <1>1, <1>2, <1>9 DEF StoreTypes
<1>11. Counted'
  BY <1>2, <1>5, <1>6, OthersCount
<1>12. ASSUME NEW x \in Key PROVE KeyOK(x)'
  <2>1. inflight[x] = c => x = k
    BY <1>3, Registered, CacheAssumption
  <2> QED BY <1>2, <1>3, <1>5, <1>6, <2>1, OthersKeys
<1>13. ASSUME NEW d \in Caller, d # c PROVE CallerOK(d)'
  BY <1>2, <1>5, <1>6, <1>13, OthersKept
<1>14. CallerOK(c)'
  <2>1. Version(k)' = Version(k)
    BY <1>2 DEF Version
  <2> QED BY <1>1, <1>2, <1>3, <1>4, <2>1 DEF CallerOK, Version, Writing, Fetching, HasRead, Stored
<1> QED BY <1>7, <1>8, <1>10, <1>11, <1>12, <1>13, <1>14, InvFrom

\* The fetched value is cached, unless a write has marked the fetch.
LEMMA LeadKeeps ==
    ASSUME CacheInv, NEW c \in Caller, lead(c)
    PROVE  CacheInv'
<1>1. /\ ListMap /\ CallTypes /\ StoreTypes /\ CallerOK(c)
  BY InvParts
<1>2. /\ pc[c] = "fetched" /\ pc' = [pc EXCEPT ![c] = "filled"]
      /\ UNCHANGED <<policy, landed, clock, writeMu, inflight, stale, floor, foreign, writes, panics>>
  BY DEF lead, Goto, boundVars
<1>3. PICK k \in Key : k = op[c].key
  BY <1>1, <1>2 DEF CallerOK
<1>4. PICK r : r = [op[c] EXCEPT !.start = 0] /\ op' = [op EXCEPT ![c] = r]
  BY DEF lead
<1>5. /\ floor[k] \in Nat /\ Version(k) \in Nat /\ clock \in Nat /\ op[c] \in OpType
      /\ op[c].start \in Nat /\ op[c].value \in Nat /\ op[c].value \in Value
  BY <1>1, <1>3, KeyFacts, CallFacts
<1>6. r \in OpType /\ r.key = k /\ r.value = op[c].value /\ r.since = op[c].since
  BY <1>3, <1>4, <1>5, CacheAssumption DEF OpType
<1>7. "filled" \in Where
  BY DEF Where
<1>8. /\ op' \in [Caller -> OpType] /\ pc' \in [Caller -> Where] /\ op'[c] = r /\ pc'[c] = "filled"
      /\ \A d \in Caller : d # c => op'[d] = op[d] /\ pc'[d] = pc[d]
  BY <1>1, <1>2, <1>4, <1>6, <1>7, CallSet
<1>9. OnlyCaller(c)
  BY <1>2, <1>8 DEF OnlyCaller
<1>10. /\ pc[c] \notin Writing /\ pc[c] \in Fetching /\ pc'[c] \in Fetching
       /\ pc[c] \in HasRead /\ pc'[c] \in HasRead
  BY <1>2, <1>8 DEF Writing, Fetching, HasRead
<1>11. /\ op[c].value <= Version(k) /\ op[c].since <= floor[k] /\ op[c].since <= op[c].value
       /\ op[c].start <= clock /\ Valid(landed[k], op[c].value, op[c].start)
       /\ c \notin stale => inflight[k] = c
  BY <1>1, <1>2, <1>3 DEF CallerOK, Fetching, HasRead, Writing
<1>12. /\ ListMap'
       /\ \A x \in Key : x # k => entries'[x] = entries[x] \/ entries'[x] = None
       /\ c \in stale => entries'[k] = entries[k]
       /\ c \notin stale => /\ entries'[k] # None /\ entries'[k].value = op[c].value
                            /\ TTL # 0 => entries'[k].expires = op[c].start + TTL
  <2>1. CASE c \in stale
    <3>1. UNCHANGED <<order, entries>>
      BY <2>1 DEF lead
    <3>2. ListMap'
      BY <1>1, <3>1 DEF ListMap, ListOK, Distinct, In
    <3> QED BY <2>1, <3>1, <3>2
  <2>2. CASE c \notin stale
    <3>1. insertLocked(k, op[c].value, op[c].start)
      BY <1>3, <2>2 DEF lead
    <3>2. PICK v \in Value, s \in Nat : v = op[c].value /\ s = op[c].start
      BY <1>5
    <3>3. insertLocked(k, v, s)
      BY <3>1, <3>2
    <3> QED BY <1>1, <2>2, <3>2, <3>3, Inserted
  <2> QED BY <2>1, <2>2
<1>13. CallTypes'
  BY <1>1, <1>2, <1>8 DEF CallTypes
<1>14. StoreTypes'
  BY <1>1, <1>2 DEF StoreTypes
<1>15. Counted'
  BY <1>2, <1>9, <1>10, OthersCount
<1>16. ASSUME NEW x \in Key
       PROVE  inflight'[x] = c => /\ pc'[c] \in Fetching /\ op'[c].key = x
                                  /\ pc'[c] \in HasRead => floor[x] <= op'[c].value
  <2> SUFFICES ASSUME inflight[x] = c PROVE x = k /\ floor[x] <= op[c].value
    BY <1>2, <1>6, <1>8, <1>10
  <2>1. x = k
    BY <1>3, Registered, CacheAssumption
  <2>2. KeyOK(x)
    BY InvParts
  <2> QED BY <1>10, <2>1, <2>2, CacheAssumption DEF KeyOK
<1>17. ASSUME NEW x \in Key, x # k \/ c \in stale PROVE KeyOK(x)'
  <2>1. entries'[x] = entries[x] \/ entries'[x] = None
    BY <1>12, <1>17
  <2> QED BY <1>2, <1>9, <1>10, <1>16, <2>1, OthersKeys
<1>18. ASSUME c \notin stale PROVE KeyOK(k)'
  <2>1. /\ Version(k)' = Version(k) /\ floor' = floor /\ foreign' = foreign /\ writeMu' = writeMu
        /\ clock' = clock /\ landed' = landed /\ inflight' = inflight
    BY <1>2 DEF Version
  <2>2. writeMu # None => pc'[writeMu] = pc[writeMu] /\ op'[writeMu] = op[writeMu]
    BY <1>8, <1>10, Registered
  <2>3. inflight[k] = c /\ KeyOK(k)
    BY <1>11, <1>18, InvParts
  <2>4. floor[k] <= op[c].value /\ floor[k] <= Version(k)
    BY <1>10, <2>3, CacheAssumption DEF KeyOK
  <2>5. TTL # 0 => /\ entries'[k].expires <= clock + TTL
                   /\ Valid(landed[k], entries'[k].value, entries'[k].expires - TTL)
    <3> SUFFICES ASSUME TTL # 0
        PROVE  /\ entries'[k].expires <= clock + TTL
               /\ Valid(landed[k], entries'[k].value, entries'[k].expires - TTL)
      OBVIOUS
    <3>1. PICK s \in Nat, t \in Nat, z \in Nat : s = op[c].start /\ t = TTL /\ z = clock /\ s <= z
      BY <1>5, <1>11, CacheAssumption
    <3>2. entries'[k].expires = s + t /\ entries'[k].value = op[c].value
      BY <1>12, <1>18, <3>1
    <3>3. s + t <= z + t /\ (s + t) - t = s
      BY <3>1
    <3> QED BY <1>11, <3>1, <3>2, <3>3
  <2>6. /\ pc'[inflight'[k]] \in Fetching /\ op'[inflight'[k]].key = k
        /\ pc'[inflight'[k]] \in HasRead => floor'[k] <= op'[inflight'[k]].value
    BY <1>16, <2>1, <2>3
  <2>7. foreign' = 0 =>
          \/ Version(k)' = floor'[k]
          \/ /\ Version(k)' = floor'[k] + 1 /\ writeMu' # None
             /\ pc'[writeMu'] \in Stored /\ op'[writeMu'].key = k /\ op'[writeMu'].value = Version(k)'
    BY <2>1, <2>2, <2>3 DEF KeyOK
  <2>8. floor'[k] <= entries'[k].value /\ entries'[k].value <= Version(k)'
    BY <1>11, <1>12, <1>18, <2>1, <2>4
  <2> QED BY <2>1, <2>4, <2>5, <2>6, <2>7, <2>8 DEF KeyOK, Fetching, HasRead, Stored, Valid
<1>19. ASSUME NEW d \in Caller, d # c PROVE CallerOK(d)'
  <2>1. pc[d] = "wait" /\ op[d].on = c =>
            /\ pc'[c] \in Fetching /\ op'[c].key = op[c].key
            /\ pc'[c] \in HasRead => op[d].since <= op'[c].value
    <3> SUFFICES ASSUME pc[d] = "wait", op[d].on = c PROVE op[d].since <= op[c].value
      BY <1>3, <1>6, <1>8, <1>10
    <3> QED BY <1>10, InvParts DEF CallerOK
  <2> QED BY <1>2, <1>9, <1>19, <2>1, OthersKept
<1>20. CallerOK(c)'
  <2>1. Version(k)' = Version(k) /\ writeMu # c
    BY <1>1, <1>2, <1>10 DEF Version, CallerOK
  <2> QED BY <1>2, <1>6, <1>8, <1>11, <2>1 DEF CallerOK, Version, Writing, Fetching, HasRead, Stored
<1> QED BY <1>12, <1>13, <1>14, <1>15, <1>17, <1>18, <1>19, <1>20, InvFrom

\* A Get returns.
LEMMA GetReturnKeeps ==
    ASSUME CacheInv, NEW c \in Caller, getReturn(c)
    PROVE  CacheInv'
<1>1. /\ ListMap /\ CallTypes /\ StoreTypes
  BY InvParts
<1>2. /\ pc[c] = "return" /\ pc' = [pc EXCEPT ![c] = "idle"] /\ op' = [op EXCEPT ![c] = Idle]
      /\ UNCHANGED <<policy, landed, clock, writeMu, order, entries, inflight, stale, floor,
                     foreign, writes, panics>>
  BY DEF getReturn, Goto, boundVars, cacheVars
<1>3. Idle \in OpType /\ "idle" \in Where
  BY CacheAssumption DEF Idle, OpType, Where, Value
<1>4. /\ op' \in [Caller -> OpType] /\ pc' \in [Caller -> Where] /\ op'[c] = Idle /\ pc'[c] = "idle"
      /\ \A d \in Caller : d # c => op'[d] = op[d] /\ pc'[d] = pc[d]
  BY <1>1, <1>2, <1>3, CallSet
<1>5. OnlyCaller(c)
  BY <1>2, <1>4 DEF OnlyCaller
<1>6. pc[c] \notin Fetching /\ pc[c] \notin Writing
  BY <1>2 DEF Fetching, Writing
<1>7. /\ writeMu # c /\ \A x \in Key : inflight[x] # c
      /\ \A d \in Caller : pc[d] = "wait" => op[d].on # c
  BY <1>6, Outsider
<1>8. ListMap'
  BY <1>1, <1>2 DEF ListMap, ListOK, Distinct, In
<1>9. CallTypes'
  BY <1>1, <1>2, <1>4 DEF CallTypes
<1>10. StoreTypes'
  BY <1>1, <1>2 DEF StoreTypes
<1>11. Counted'
  BY <1>2, <1>5, <1>6, OthersCount
<1>12. ASSUME NEW x \in Key PROVE KeyOK(x)'
  BY <1>2, <1>5, <1>6, <1>7, OthersKeys
<1>13. ASSUME NEW d \in Caller, d # c PROVE CallerOK(d)'
  BY <1>2, <1>5, <1>7, <1>13, OthersKept
<1>14. CallerOK(c)'
  BY <1>2, <1>4, <1>7 DEF CallerOK, Writing, Fetching, HasRead, Stored
<1> QED BY <1>8, <1>9, <1>10, <1>11, <1>12, <1>13, <1>14, InvFrom

\* The end of a fetch: its waiters are woken.
LEMMA CleanupKeeps ==
    ASSUME CacheInv, NEW c \in Caller, cleanup(c)
    PROVE  CacheInv'
<1>1. /\ ListMap /\ CallTypes /\ StoreTypes /\ Counted /\ CallerOK(c)
      /\ (\A x \in Key : KeyOK(x)) /\ \A d \in Caller : CallerOK(d)
  BY InvParts
<1>2. PICK after : after = IF pc[c] = "filled" THEN "return" ELSE "retry"
  OBVIOUS
<1>3. /\ pc[c] \in {"filled", "panicked"} /\ stale' = stale \ {c}
      /\ inflight' = IF inflight[op[c].key] = c THEN [inflight EXCEPT ![op[c].key] = None] ELSE inflight
      /\ UNCHANGED <<policy, landed, clock, writeMu, order, entries, floor, foreign, writes, panics>>
  BY DEF cleanup, boundVars
<1>4. /\ pc' = [d \in Caller |->
             IF d \in Waiting(c) THEN after
             ELSE IF d # c THEN pc[d]
             ELSE IF pc[c] = "filled" THEN "return" ELSE "idle"]
      /\ op' = [d \in Caller |->
             IF d \in Waiting(c) THEN Woken(d, c)
             ELSE IF d = c /\ pc[c] = "panicked" THEN Idle ELSE op[d]]
  BY <1>2 DEF cleanup
<1>5. PICK k \in Key : k = op[c].key
  BY <1>1, <1>3 DEF CallerOK
<1>6. \A d \in Caller : d \in Waiting(c) <=> pc[d] = "wait" /\ op[d].on = c
  BY DEF Waiting
<1>7. pc[c] \in Fetching /\ pc[c] \notin Writing /\ pc[c] # "wait" /\ c \notin Waiting(c)
  BY <1>3, <1>6 DEF Fetching, Writing
<1>8. ASSUME NEW d \in Caller, d \in Waiting(c)
      PROVE  /\ pc'[d] = after /\ op'[d] \in OpType /\ op'[d].key = op[d].key
             /\ op'[d].since = op[d].since
             /\ op'[d].value = IF pc[c] = "filled" THEN op[c].value ELSE 0
  <2>1. op[d] \in OpType /\ op[c].value \in Value /\ 0 \in Value
    BY <1>1, CallFacts, CacheAssumption DEF Value
  <2>2. PICK v \in Value : v = IF pc[c] = "filled" THEN op[c].value ELSE 0
    BY <2>1
  <2>3. PICK r, s : r = Woken(d, c) /\ s = [op[d] EXCEPT !.on = None]
    OBVIOUS
  <2>4. op'[d] = r /\ pc'[d] = after
    BY <1>4, <1>8, <2>3
  <2>5. s \in OpType /\ s.key = op[d].key /\ s.since = op[d].since
    BY <2>1, <2>3 DEF OpType
  <2>6. r = [s EXCEPT !.value = v]
    BY <2>2, <2>3 DEF Woken
  <2>7. r \in OpType /\ r.key = s.key /\ r.since = s.since /\ r.value = v
    BY <2>2, <2>5, <2>6 DEF OpType
  <2> QED BY <2>2, <2>4, <2>5, <2>7
<1>9. ASSUME NEW d \in Caller, d \notin Waiting(c), d # c PROVE pc'[d] = pc[d] /\ op'[d] = op[d]
  BY <1>4, <1>9
<1>10. /\ pc'[c] = IF pc[c] = "filled" THEN "return" ELSE "idle"
       /\ op'[c] = IF pc[c] = "filled" THEN op[c] ELSE Idle
  BY <1>3, <1>4, <1>7
<1>11. Idle \in OpType
  BY CacheAssumption DEF Idle, OpType, Value
<1>12. pc' \in [Caller -> Where] /\ op' \in [Caller -> OpType]
  <2>1. after \in Where /\ "return" \in Where /\ "idle" \in Where
    BY <1>2 DEF Where
  <2>2. ASSUME NEW d \in Caller PROVE pc'[d] \in Where /\ op'[d] \in OpType
    <3>1. pc[d] \in Where /\ op[d] \in OpType /\ op[c] \in OpType
      BY <1>1, CallFacts
    <3> QED BY <1>8, <1>9, <1>10, <1>11, <2>1, <3>1
  <2> QED BY <1>4, <2>2
<1>13. /\ inflight' \in [Key -> Caller \cup {None}]
       /\ \A x \in Key : inflight[x] = c => inflight'[x] = None
       /\ \A x \in Key : inflight[x] # c => inflight'[x] = inflight[x]
  <2>1. inflight \in [Key -> Caller \cup {None}]
    BY <1>1 DEF CallTypes
  <2>2. \A x \in Key : inflight[x] = c => x = k
    BY <1>5, Registered, CacheAssumption
  <2> QED BY <1>3, <1>5, <2>1, <2>2
<1>14. ListMap'
  BY <1>1, <1>3 DEF ListMap, ListOK, Distinct, In
<1>15. CallTypes'
  BY <1>1, <1>3, <1>12, <1>13 DEF CallTypes
<1>16. StoreTypes'
  BY <1>1, <1>3 DEF StoreTypes
<1>17. writeMu # c /\ \A d \in Caller : d \in Waiting(c) => writeMu # d
  BY <1>1, <1>6, <1>7 DEF CallerOK, Writing
<1>18. writeMu # None => writeMu \in Caller /\ pc'[writeMu] = pc[writeMu] /\ op'[writeMu] = op[writeMu]
  BY <1>9, <1>17, Registered
<1>19. Counted'
  BY <1>1, <1>3, <1>18, KeptCount
<1>20. clock \in Nat
  BY <1>1, CacheAssumption DEF StoreTypes
<1>21. ASSUME NEW x \in Key PROVE KeyOK(x)'
  <2>1. inflight'[x] # None =>
          /\ inflight'[x] = inflight[x]
          /\ pc'[inflight[x]] \in Fetching /\ op'[inflight[x]].key = x
          /\ pc'[inflight[x]] \in HasRead => floor[x] <= op'[inflight[x]].value
    <3> SUFFICES ASSUME inflight'[x] # None
        PROVE  /\ inflight'[x] = inflight[x]
               /\ pc'[inflight[x]] \in Fetching /\ op'[inflight[x]].key = x
               /\ pc'[inflight[x]] \in HasRead => floor[x] <= op'[inflight[x]].value
      OBVIOUS
    <3>1. inflight'[x] = inflight[x] /\ inflight[x] # c /\ inflight[x] # None
      BY <1>13
    <3>2. inflight[x] \in Caller /\ pc[inflight[x]] \in Fetching
      BY <3>1, Registered
    <3>3. inflight[x] \notin Waiting(c)
      BY <1>6, <3>2 DEF Fetching
    <3>4. pc'[inflight[x]] = pc[inflight[x]] /\ op'[inflight[x]] = op[inflight[x]]
      BY <1>9, <3>1, <3>2, <3>3
    <3>5. KeyOK(x)
      BY <1>1
    <3> QED BY <3>1, <3>4, <3>5 DEF KeyOK
  <2>2. KeyKept(x)
    BY <1>3, <1>18, <1>20, <2>1 DEF KeyKept
  <2> QED BY <1>1, <2>2, KeptKey
<1>22. ASSUME NEW d \in Caller, d \notin Waiting(c), d # c PROVE CallerOK(d)'
  <2>1. pc'[d] = pc[d] /\ op'[d] = op[d] /\ CallerOK(d)
    BY <1>1, <1>9, <1>22
  <2>2. op[d].key \in Key => floor[op[d].key] \in Nat
    BY <1>1, KeyFacts
  <2>3. pc[d] \in Fetching /\ d \notin stale' =>
            d \notin stale /\ inflight'[op[d].key] = inflight[op[d].key]
    <3> SUFFICES ASSUME pc[d] \in Fetching, d \notin stale'
        PROVE  d \notin stale /\ inflight'[op[d].key] = inflight[op[d].key]
      OBVIOUS
    <3>1. d \notin stale
      BY <1>3, <1>22
    <3>2. op[d].key \in Key /\ inflight[op[d].key] = d
      BY <2>1, <3>1 DEF CallerOK, Fetching
    <3> QED BY <1>13, <1>22, <3>1, <3>2
  <2>4. pc[d] = "wait" =>
          /\ pc'[op[d].on] \in Fetching /\ op'[op[d].on].key = op[d].key
          /\ pc'[op[d].on] \in HasRead => op[d].since <= op'[op[d].on].value
    <3> SUFFICES ASSUME pc[d] = "wait"
        PROVE  /\ pc'[op[d].on] \in Fetching /\ op'[op[d].on].key = op[d].key
               /\ pc'[op[d].on] \in HasRead => op[d].since <= op'[op[d].on].value
      OBVIOUS
    <3>1. op[d].on \in Caller /\ pc[op[d].on] \in Fetching /\ op[d].on # c
      BY <1>6, <1>22, WaitsOn
    <3>2. op[d].on \notin Waiting(c)
      BY <1>6, <3>1 DEF Fetching
    <3>3. pc'[op[d].on] = pc[op[d].on] /\ op'[op[d].on] = op[op[d].on]
      BY <1>9, <3>1, <3>2
    <3> QED BY <2>1, <3>3 DEF CallerOK
  <2>5. CallerKept(d)
    BY <1>3, <1>20, <2>1, <2>2, <2>3, <2>4 DEF CallerKept
  <2> QED BY <1>1, <2>5, KeptCaller
<1>23. ASSUME NEW d \in Caller, d \in Waiting(c) PROVE CallerOK(d)'
  <2>1. CallerOK(d) /\ pc[d] = "wait" /\ op[d].on = c
    BY <1>1, <1>6, <1>23
  <2>2. /\ op[d].key = k /\ op[d].since <= floor[k]
        /\ pc[c] \in HasRead => op[d].since <= op[c].value
    BY <1>5, <2>1 DEF CallerOK
  <2>3. /\ pc'[d] = after /\ op'[d].key = k /\ op'[d].since = op[d].since
        /\ op'[d].value = IF pc[c] = "filled" THEN op[c].value ELSE 0
    BY <1>8, <1>23, <2>2
  <2>4. op[c].value <= Version(k) /\ Version(k) \in Nat
    BY <1>1, <1>3, <1>5, KeyFacts DEF CallerOK
  <2>5. Version(k)' = Version(k) /\ floor'[k] = floor[k] /\ writeMu' # d
    BY <1>3, <1>17, <1>23 DEF Version
  <2>6. CASE pc[c] = "filled"
    <3>1. pc'[d] = "return" /\ op'[d].value = op[c].value /\ op[d].since <= op[c].value
      BY <1>2, <2>2, <2>3, <2>6 DEF HasRead
    <3> QED BY <2>2, <2>3, <2>4, <2>5, <3>1 DEF CallerOK, Version, Writing, Fetching, HasRead, Stored
  <2>7. CASE pc[c] # "filled"
    <3>1. pc'[d] = "retry" /\ op'[d].value = 0
      BY <1>2, <2>3, <2>7
    <3>2. 0 <= Version(k)
      BY <2>4
    <3> QED BY <2>2, <2>3, <2>5, <3>1, <3>2 DEF CallerOK, Version, Writing, Fetching, HasRead, Stored
  <2> QED BY <2>6, <2>7
<1>24. CallerOK(c)'
  <2>1. writeMu' # c /\ Version(k)' = Version(k) /\ floor' = floor
    BY <1>3, <1>17 DEF Version
  <2>2. CASE pc[c] = "filled"
    BY <1>1, <1>5, <1>10, <2>1, <2>2 DEF CallerOK, Version, Writing, Fetching, HasRead, Stored
  <2>3. CASE pc[c] # "filled"
    BY <1>10, <2>1, <2>3 DEF CallerOK, Writing, Fetching, HasRead, Stored
  <2> QED BY <2>2, <2>3
<1> QED BY <1>14, <1>15, <1>16, <1>19, <1>21, <1>22, <1>23, <1>24, InvFrom

\* A write begins.
LEMMA LockWriteKeeps ==
    ASSUME CacheInv, NEW c \in Caller, NEW k \in Written, NEW kind \in {"Put", "Append"},
           lockWrite(c, k, kind)
    PROVE  CacheInv'
<1>1. /\ ListMap /\ CallTypes /\ StoreTypes /\ Counted
      /\ (\A x \in Key : KeyOK(x)) /\ \A d \in Caller : CallerOK(d)
  BY InvParts
<1>2. /\ pc[c] = "idle" /\ writes < MaxWrites /\ writes' = writes + 1 /\ writeMu = None /\ writeMu' = c
      /\ pc' = [pc EXCEPT ![c] = kind]
      /\ UNCHANGED <<policy, landed, clock, order, entries, inflight, stale, floor, foreign, panics>>
  BY DEF lockWrite, MayWrite, Goto, cacheVars
<1>3. PICK r : r = [Idle EXCEPT !.key = k, !.start = now] /\ op' = [op EXCEPT ![c] = r]
  BY DEF lockWrite
<1>4. /\ k \in Key /\ clock \in 0 .. MaxClock /\ clock \in Nat /\ writes \in Nat /\ foreign \in Nat
      /\ writes \in 0 .. MaxWrites
  BY <1>1, CacheAssumption DEF StoreTypes
<1>5. floor[k] \in Nat /\ Version(k) \in Nat
  BY <1>1, <1>4, KeyFacts
<1>6. r \in OpType /\ r.key = k /\ r.start <= clock /\ r.value = 0 /\ r.since = 0
  <2>1. PICK s \in 0 .. MaxClock : s = now /\ s <= clock
    BY <1>4, CacheAssumption DEF now
  <2>2. r = [key |-> k, start |-> s, value |-> 0, since |-> 0, on |-> None]
    BY <1>3, <2>1 DEF Idle
  <2>3. 0 \in Value
    BY CacheAssumption DEF Value
  <2> QED BY <1>4, <2>1, <2>2, <2>3 DEF OpType
<1>7. kind \in Where
  BY DEF Where
<1>8. /\ op' \in [Caller -> OpType] /\ pc' \in [Caller -> Where] /\ op'[c] = r /\ pc'[c] = kind
      /\ \A d \in Caller : d # c => op'[d] = op[d] /\ pc'[d] = pc[d]
  BY <1>1, <1>2, <1>3, <1>6, <1>7, CallSet
<1>9. /\ \A x \in Key : inflight[x] # c
      /\ \A d \in Caller : pc[d] = "wait" => op[d].on # c
  <2>1. pc[c] \notin Fetching /\ pc[c] \notin Writing
    BY <1>2 DEF Fetching, Writing
  <2> QED BY <2>1, Outsider
<1>10. ListMap'
  BY <1>1, <1>2 DEF ListMap, ListOK, Distinct, In
<1>11. CallTypes'
  BY <1>1, <1>2, <1>8 DEF CallTypes
<1>12. writes' \in 0 .. MaxWrites
  BY <1>2, <1>4, CacheAssumption
<1>13. StoreTypes'
  BY <1>1, <1>2, <1>12 DEF StoreTypes
<1>14. Counted'
  <2>1. Pending = 0 /\ Pending' \in {0, 1}
    BY <1>2 DEF Pending
  <2>2. ASSUME NEW x \in Key PROVE Version(x)' + Pending' <= writes' + foreign'
    <3>1. PICK v \in Nat, a \in Nat, b \in Nat, p \in {0, 1} :
            v = Version(x) /\ a = writes /\ b = foreign /\ p = Pending'
      <4>1. Version(x) \in Nat
        BY <1>1, KeyFacts
      <4> QED BY <1>4, <2>1, <4>1
    <3>2. v + 0 <= a + b
      BY <1>1, <2>1, <3>1 DEF Counted
    <3>3. v + p <= (a + 1) + b
      BY <3>2
    <3>4. Version(x)' = v
      BY <1>2, <3>1 DEF Version
    <3> QED BY <1>2, <3>1, <3>3, <3>4
  <2> QED BY <2>2 DEF Counted
<1>15. ASSUME NEW x \in Key PROVE KeyOK(x)'
  <2>1. KeyOK(x)
    BY <1>1
  <2>2. inflight'[x] # None =>
          /\ inflight'[x] = inflight[x]
          /\ pc'[inflight[x]] \in Fetching /\ op'[inflight[x]].key = x
          /\ pc'[inflight[x]] \in HasRead => floor[x] <= op'[inflight[x]].value
    <3> SUFFICES ASSUME inflight[x] # None
        PROVE  /\ pc'[inflight[x]] \in Fetching /\ op'[inflight[x]].key = x
               /\ pc'[inflight[x]] \in HasRead => floor[x] <= op'[inflight[x]].value
      BY <1>2
    <3>1. inflight[x] \in Caller
      BY Registered
    <3>2. pc'[inflight[x]] = pc[inflight[x]] /\ op'[inflight[x]] = op[inflight[x]]
      BY <1>8, <1>9, <3>1
    <3> QED BY <2>1, <3>2 DEF KeyOK
  <2>3. KeyKept(x)
    BY <1>2, <1>4, <2>2 DEF KeyKept
  <2> QED BY <1>1, <2>1, <2>3, KeptKey
<1>16. ASSUME NEW d \in Caller, d # c PROVE CallerOK(d)'
  <2>1. CallerOK(d) /\ pc'[d] = pc[d] /\ op'[d] = op[d] /\ d # None
    BY <1>1, <1>8, <1>16, CacheAssumption
  <2>2. op[d].key \in Key => floor[op[d].key] \in Nat
    BY <1>1, KeyFacts
  <2>3. pc[d] = "wait" => pc'[op[d].on] = pc[op[d].on] /\ op'[op[d].on] = op[op[d].on]
    BY <1>8, <1>9, WaitsOn
  <2>4. CallerKept(d)
    BY <1>2, <1>4, <1>16, <2>1, <2>2, <2>3 DEF CallerKept, CallerOK
  <2> QED BY <1>1, <2>1, <2>4, KeptCaller
<1>17. CallerOK(c)'
  <2>1. kind \in Writing /\ kind # "idle" /\ kind \notin Fetching /\ kind \notin HasRead \cup {"return"}
        /\ kind # "wait" /\ kind \notin Stored /\ kind \notin {"fetched"} \cup Stored
    BY DEF Writing, Fetching, HasRead, Stored
  <2>2. r.value <= Version(k) /\ r.since <= floor[k]
    BY <1>5, <1>6
  <2>3. Version(k)' = Version(k) /\ floor'[k] = floor[k] /\ clock' = clock
    BY <1>2 DEF Version
  <2> QED BY <1>2, <1>4, <1>6, <1>8, <2>1, <2>2, <2>3
          DEF CallerOK, Version, Writing, Fetching, HasRead, Stored
<1> QED BY <1>10, <1>11, <1>13, <1>14, <1>15, <1>16, <1>17, InvFrom

\* A write reaches the store.
LEMMA StoreWriteKeeps ==
    ASSUME CacheInv, NEW c \in Caller, storeWrite(c)
    PROVE  CacheInv'
<1>1. /\ ListMap /\ CallTypes /\ StoreTypes /\ Counted /\ CallerOK(c)
      /\ (\A x \in Key : KeyOK(x)) /\ \A d \in Caller : CallerOK(d)
  BY InvParts
<1>2. /\ pc[c] \in {"Put", "Append"}
      /\ UNCHANGED <<policy, clock, writeMu, order, entries, inflight, stale, floor,
                     foreign, writes, panics>>
  BY DEF storeWrite, cacheVars, boundVars
<1>3. PICK k \in Key : k = op[c].key
  BY <1>1, <1>2 DEF CallerOK
<1>4. landed' = [landed EXCEPT ![k] = Append(@, clock)]
  BY <1>3 DEF storeWrite
<1>5. PICK r : r = [op[c] EXCEPT !.value = Version(k) + 1] /\ op' = [op EXCEPT ![c] = r]
  BY <1>3 DEF storeWrite
<1>6. PICK w : w = (IF pc[c] = "Put" THEN "PutStored" ELSE "AppendStored") /\ pc' = [pc EXCEPT ![c] = w]
  BY DEF storeWrite, Goto
<1>7. w \in Where /\ w \in Stored /\ w \in Writing /\ pc[c] \in Writing
  BY <1>2, <1>6 DEF Where, Stored, Writing
<1>8. writeMu = c /\ c # None
  BY <1>1, <1>7, CacheAssumption DEF CallerOK
<1>9. /\ clock \in 0 .. MaxClock /\ clock \in Nat /\ writes \in 0 .. MaxWrites /\ foreign \in 0 .. MaxForeign
      /\ writes \in Nat /\ foreign \in Nat /\ landed \in [Key -> Seq(0 .. MaxClock)]
  BY <1>1, CacheAssumption DEF StoreTypes
<1>10. landed[k] \in Seq(0 .. MaxClock)
  BY <1>9
<1>11. PICK s : s = Append(landed[k], clock) /\ s \in Seq(0 .. MaxClock) /\ Len(s) = Version(k) + 1
  <2>1. PICK q \in Seq(0 .. MaxClock), z \in 0 .. MaxClock : q = landed[k] /\ z = clock
    BY <1>9, <1>10
  <2>2. PICK s : s = Append(q, z)
    OBVIOUS
  <2>3. s \in Seq(0 .. MaxClock) /\ Len(s) = Len(q) + 1
    BY <2>1, <2>2
  <2> QED BY <2>1, <2>2, <2>3 DEF Version
<1>12. /\ landed' \in [Key -> Seq(0 .. MaxClock)] /\ landed'[k] = s
       /\ \A x \in Key : x # k => landed'[x] = landed[x]
  BY <1>4, <1>9, <1>11
<1>13. /\ Version(k)' = Version(k) + 1 /\ Len(s) = Version(k)'
       /\ \A x \in Key : x # k => Version(x)' = Version(x)
  BY <1>11, <1>12 DEF Version
<1>14. \A x \in Key : Version(x) \in Nat /\ Version(x) + 1 <= writes + foreign
  <2>1. Pending = 1
    BY <1>2, <1>8 DEF Pending
  <2> QED BY <1>1, <2>1, KeyFacts DEF Counted
<1>15. PICK n \in Nat : n = Version(k)
  BY <1>14
<1>16. n + 1 \in Value /\ Version(k)' = n + 1
  <2>1. n + 1 <= writes + foreign
    BY <1>14, <1>15
  <2>2. n + 1 \in Value
    BY <1>9, <2>1, CacheAssumption DEF Value
  <2> QED BY <1>13, <1>15, <2>2
<1>17. r \in OpType /\ r.key = k /\ r.value = n + 1 /\ r.since = op[c].since /\ r.start = op[c].start
  <2>1. op[c] \in OpType
    BY <1>1, CallFacts
  <2>2. r = [op[c] EXCEPT !.value = n + 1]
    BY <1>5, <1>15
  <2> QED BY <1>3, <1>16, <2>1, <2>2 DEF OpType
<1>18. /\ op' \in [Caller -> OpType] /\ pc' \in [Caller -> Where] /\ op'[c] = r /\ pc'[c] = w
       /\ \A d \in Caller : d # c => op'[d] = op[d] /\ pc'[d] = pc[d]
  BY <1>1, <1>5, <1>6, <1>7, <1>17, CallSet
<1>19. pc[c] \notin Fetching
  BY <1>2 DEF Fetching
<1>20. /\ \A x \in Key : inflight[x] # c
       /\ \A d \in Caller : pc[d] = "wait" => op[d].on # c
  BY <1>8, <1>19, Registered, WaitsOn
<1>21. ListMap'
  BY <1>1, <1>2 DEF ListMap, ListOK, Distinct, In
<1>22. CallTypes'
  BY <1>1, <1>2, <1>18 DEF CallTypes
<1>23. StoreTypes'
  BY <1>1, <1>2, <1>12 DEF StoreTypes
<1>24. Counted'
  <2>1. Pending' = 0
    BY <1>2, <1>7, <1>8, <1>18 DEF Pending, Stored
  <2>2. ASSUME NEW x \in Key PROVE Version(x)' + Pending' <= writes' + foreign'
    <3>1. PICK v \in Nat, a \in Nat, b \in Nat :
            v = Version(x) /\ a = writes /\ b = foreign /\ v + 1 <= a + b
      BY <1>9, <1>14
    <3>2. v + 0 <= a + b /\ (v + 1) + 0 <= a + b
      BY <3>1
    <3>3. Version(x)' = v \/ Version(x)' = v + 1
      BY <1>13, <3>1
    <3> QED BY <1>2, <2>1, <3>1, <3>2, <3>3
  <2> QED BY <2>2 DEF Counted
<1>25. ASSUME NEW x \in Key
       PROVE  inflight'[x] # None =>
                /\ inflight'[x] = inflight[x]
                /\ pc'[inflight[x]] \in Fetching /\ op'[inflight[x]].key = x
                /\ pc'[inflight[x]] \in HasRead => floor[x] <= op'[inflight[x]].value
  <2> SUFFICES ASSUME inflight[x] # None
      PROVE  /\ pc'[inflight[x]] \in Fetching /\ op'[inflight[x]].key = x
             /\ pc'[inflight[x]] \in HasRead => floor[x] <= op'[inflight[x]].value
    BY <1>2
  <2>1. inflight[x] \in Caller /\ KeyOK(x)
    BY <1>1, Registered
  <2>2. pc'[inflight[x]] = pc[inflight[x]] /\ op'[inflight[x]] = op[inflight[x]]
    BY <1>18, <1>20, <2>1
  <2> QED BY <2>1, <2>2 DEF KeyOK
<1>26. ASSUME NEW x \in Key, x # k PROVE KeyOK(x)'
  <2>1. KeyKept(x)
    BY <1>2, <1>3, <1>8, <1>9, <1>12, <1>25, <1>26 DEF KeyKept
  <2> QED BY <1>1, <2>1, KeptKey
<1>27. PICK f \in Nat : f = floor[k] /\ f <= n
  BY <1>1, <1>15, KeyFacts DEF KeyOK
<1>28. KeyOK(k)'
  <2>1. KeyOK(k)
    BY <1>1
  <2>2. f <= n + 1 /\ floor'[k] = f
    BY <1>2, <1>27
  <2>3. ASSUME entries'[k] # None
        PROVE  /\ floor'[k] <= entries'[k].value /\ entries'[k].value <= Version(k)'
               /\ TTL # 0 => /\ entries'[k].expires <= clock' + TTL
                              /\ Valid(landed'[k], entries'[k].value, entries'[k].expires - TTL)
    <3>1. /\ entries'[k] = entries[k] /\ entries[k] # None
          /\ entries[k].value \in Nat /\ entries[k].expires \in Nat
      BY <1>1, <1>2, <2>3, KeyFacts
    <3>2. PICK e \in Nat, t \in Nat : e = entries[k].value /\ t = entries[k].expires
      BY <3>1
    <3>3. f <= e /\ e <= n /\ (TTL # 0 => t <= clock + TTL /\ Valid(landed[k], e, t - TTL))
      BY <1>15, <1>27, <2>1, <3>1, <3>2 DEF KeyOK
    <3>4. e <= n + 1
      BY <3>3
    <3>5. TTL # 0 => Valid(s, e, t - TTL)
      <4> SUFFICES ASSUME TTL # 0 PROVE Valid(s, e, t - TTL)
        OBVIOUS
      <4>1. TTL \in Nat
        BY CacheAssumption
      <4>2. t - TTL \in Int /\ t - TTL <= clock
        BY <1>9, <3>3, <4>1
      <4>3. e <= Len(landed[k]) /\ Valid(landed[k], e, t - TTL)
        BY <1>15, <3>3 DEF Version
      <4> QED BY <1>9, <1>10, <1>11, <4>2, <4>3, StaysValid
    <3> QED BY <1>2, <1>12, <1>16, <2>2, <3>1, <3>2, <3>3, <3>4, <3>5
  <2>4. foreign' = 0 =>
          \/ Version(k)' = floor'[k]
          \/ /\ Version(k)' = floor'[k] + 1 /\ writeMu' # None
             /\ pc'[writeMu'] \in Stored /\ op'[writeMu'].key = k /\ op'[writeMu'].value = Version(k)'
    <3> SUFFICES ASSUME foreign = 0 PROVE n = f
      BY <1>2, <1>7, <1>8, <1>16, <1>17, <1>18, <2>2
    <3>1. pc[writeMu] \notin Stored
      BY <1>2, <1>8 DEF Stored
    <3> QED BY <1>15, <1>27, <2>1, <3>1 DEF KeyOK
  <2> QED BY <1>2, <1>16, <1>25, <2>2, <2>3, <2>4 DEF KeyOK, Fetching, HasRead, Stored, Valid
<1>29. ASSUME NEW d \in Caller, d # c PROVE CallerOK(d)'
  <2>1. CallerOK(d) /\ pc'[d] = pc[d] /\ op'[d] = op[d]
    BY <1>1, <1>18, <1>29
  <2>2. op[d].key \in Key => floor[op[d].key] \in Nat
    BY <1>1, KeyFacts
  <2>3. pc[d] = "wait" => pc'[op[d].on] = pc[op[d].on] /\ op'[op[d].on] = op[op[d].on]
    BY <1>18, <1>20, WaitsOn
  <2>4. op[d].key \in Key => landed'[op[d].key] \in {landed[op[d].key], Append(landed[op[d].key], clock)}
    BY <1>11, <1>12
  <2>5. CallerKept(d)
    BY <1>2, <1>9, <2>1, <2>2, <2>3, <2>4 DEF CallerKept, CallerOK
  <2> QED BY <1>1, <2>1, <2>5, KeptCaller
<1>30. CallerOK(c)'
  <2>1. w \notin Fetching /\ w \notin HasRead \cup {"return"} /\ w # "wait" /\ w # "idle"
    BY <1>7 DEF Fetching, HasRead, Stored
  <2>2. op[c].since <= floor[k] /\ op[c].start <= clock
    BY <1>1, <1>2, <1>3 DEF CallerOK, Writing
  <2>3. f < n + 1 /\ n + 1 <= n + 1
    BY <1>27
  <2>4. Valid(s, n + 1, r.start)
    BY <1>13, <1>16 DEF Valid
  <2>5. Len(landed'[k]) = n + 1
    BY <1>12, <1>13, <1>16
  <2> QED BY <1>2, <1>7, <1>8, <1>12, <1>17, <1>18, <1>27, <2>1, <2>2, <2>3, <2>4, <2>5
          DEF CallerOK, Version, Writing, Fetching, HasRead, Stored, Valid
<1> QED BY <1>21, <1>22, <1>23, <1>24, <1>26, <1>28, <1>29, <1>30, InvFrom

\* The cache learns of a write, and the write returns.
LEMMA UpdateCacheKeeps ==
    ASSUME CacheInv, NEW c \in Caller, updateCache(c)
    PROVE  CacheInv'
<1>1. /\ ListMap /\ CallTypes /\ StoreTypes /\ Counted /\ CallerOK(c)
      /\ (\A x \in Key : KeyOK(x)) /\ \A d \in Caller : CallerOK(d)
  BY InvParts
<1>2. /\ pc[c] \in Stored /\ writeMu' = None
      /\ pc' = [pc EXCEPT ![c] = "idle"] /\ op' = [op EXCEPT ![c] = Idle]
      /\ UNCHANGED <<policy, landed, clock, foreign, writes, panics>>
  BY DEF updateCache, Goto, boundVars, Stored
<1>3. PICK k \in Key : k = op[c].key
  BY <1>1, <1>2 DEF CallerOK, Stored
<1>4. /\ stale' = stale \cup ({inflight[k]} \ {None}) /\ inflight' = [inflight EXCEPT ![k] = None]
      /\ floor' = [floor EXCEPT ![k] = IF op[c].value > @ THEN op[c].value ELSE @]
  BY <1>3 DEF updateCache, markStaleLocked
<1>5. pc[c] \in Writing /\ pc[c] \notin Fetching /\ pc[c] # "idle"
  BY <1>2 DEF Stored, Writing, Fetching
<1>6. writeMu = c /\ c # None
  BY <1>1, <1>5, CacheAssumption DEF CallerOK
<1>7. PICK v \in Nat, n \in Nat, f \in Nat : /\ v = op[c].value /\ n = Version(k) /\ f = floor[k]
                                             /\ f < v /\ v <= n
  <2>1. op[c].value \in Nat /\ Version(k) \in Nat /\ floor[k] \in Nat
    BY <1>1, CallFacts, KeyFacts
  <2>2. floor[k] < op[c].value /\ op[c].value <= Version(k)
    BY <1>1, <1>2, <1>3, <1>5 DEF CallerOK
  <2> QED BY <2>1, <2>2
<1>8. v \in Value /\ clock \in Nat /\ op[c].start \in Nat
  BY <1>1, <1>7, CallFacts, CacheAssumption DEF StoreTypes
<1>9. /\ floor' \in [Key -> Value] /\ floor'[k] = v
      /\ \A x \in Key : x # k => floor'[x] = floor[x]
  <2>1. floor \in [Key -> Value]
    BY <1>1 DEF StoreTypes
  <2>2. op[c].value > floor[k]
    BY <1>7
  <2>3. floor' = [floor EXCEPT ![k] = v]
    BY <1>4, <1>7, <2>2
  <2> QED BY <1>8, <2>1, <2>3
<1>10. /\ inflight' \in [Key -> Caller \cup {None}] /\ inflight'[k] = None
       /\ \A x \in Key : x # k => inflight'[x] = inflight[x]
  BY <1>1, <1>4 DEF CallTypes
<1>11. stale' \subseteq Caller /\ stale \subseteq stale' /\ (inflight[k] # None => inflight[k] \in stale')
  BY <1>1, <1>4 DEF CallTypes
<1>12. Idle \in OpType /\ "idle" \in Where
  BY CacheAssumption DEF Idle, OpType, Where, Value
<1>13. /\ op' \in [Caller -> OpType] /\ pc' \in [Caller -> Where] /\ op'[c] = Idle /\ pc'[c] = "idle"
       /\ \A d \in Caller : d # c => op'[d] = op[d] /\ pc'[d] = pc[d]
  BY <1>1, <1>2, <1>12, CallSet
<1>14. /\ ListMap' /\ \A x \in Key : x # k => entries'[x] = entries[x] \/ entries'[x] = None
       /\ entries'[k] # None => /\ entries'[k].value = v
                                /\ TTL # 0 => entries'[k].expires = op[c].start + TTL
  <2>1. CASE pc[c] = "PutStored" /\ policy = "WriteThrough"
    <3>1. insertLocked(k, op[c].value, op[c].start)
      BY <1>3, <2>1 DEF updateCache
    <3>2. PICK u \in Value, s \in Nat : u = op[c].value /\ s = op[c].start
      BY <1>7, <1>8
    <3>3. insertLocked(k, u, s)
      BY <3>1, <3>2
    <3> QED BY <1>1, <1>7, <3>2, <3>3, Inserted
  <2>2. CASE ~(pc[c] = "PutStored" /\ policy = "WriteThrough")
    <3>1. invalidateLocked(k)
      BY <1>3, <2>2 DEF updateCache
    <3> QED BY <1>1, <3>1, Invalidated
  <2> QED BY <2>1, <2>2
<1>15. /\ \A x \in Key : inflight[x] # c
       /\ \A d \in Caller : pc[d] = "wait" => op[d].on # c
  BY <1>5, <1>6, Registered, WaitsOn
<1>16. CallTypes'
  BY <1>1, <1>2, <1>10, <1>11, <1>13 DEF CallTypes
<1>17. StoreTypes'
  BY <1>1, <1>2, <1>9 DEF StoreTypes
<1>18. Counted'
  <2>1. Pending' = 0 /\ Pending = 0
    BY <1>2, <1>6 DEF Pending, Stored
  <2> QED BY <1>1, <1>2, <2>1 DEF Counted, Version
<1>19. ASSUME NEW x \in Key, x # k PROVE KeyOK(x)'
  <2>1. KeyOK(x)
    BY <1>1
  <2>2. inflight'[x] # None =>
          /\ inflight'[x] = inflight[x]
          /\ pc'[inflight[x]] \in Fetching /\ op'[inflight[x]].key = x
          /\ pc'[inflight[x]] \in HasRead => floor[x] <= op'[inflight[x]].value
    <3> SUFFICES ASSUME inflight'[x] # None
        PROVE  /\ inflight'[x] = inflight[x]
               /\ pc'[inflight[x]] \in Fetching /\ op'[inflight[x]].key = x
               /\ pc'[inflight[x]] \in HasRead => floor[x] <= op'[inflight[x]].value
      OBVIOUS
    <3>1. inflight'[x] = inflight[x] /\ inflight[x] \in Caller
      BY <1>10, <1>19, Registered
    <3>2. pc'[inflight[x]] = pc[inflight[x]] /\ op'[inflight[x]] = op[inflight[x]]
      BY <1>13, <1>15, <3>1
    <3> QED BY <2>1, <3>1, <3>2 DEF KeyOK
  <2>3. op[writeMu].key # x
    BY <1>3, <1>6, <1>19
  <2>4. KeyKept(x)
    BY <1>2, <1>8, <1>9, <1>14, <1>19, <2>2, <2>3 DEF KeyKept
  <2> QED BY <1>1, <2>1, <2>4, KeptKey
<1>20. KeyOK(k)'
  <2>1. Version(k)' = n /\ floor'[k] = v /\ v <= n /\ v <= v
    BY <1>2, <1>7, <1>9 DEF Version
  <2>2. ASSUME entries'[k] # None, TTL # 0
        PROVE  /\ entries'[k].expires <= clock' + TTL
               /\ Valid(landed'[k], entries'[k].value, entries'[k].expires - TTL)
    <3>1. op[c].start <= clock /\ Valid(landed[k], op[c].value, op[c].start)
      BY <1>1, <1>2, <1>3, <1>5 DEF CallerOK
    <3>2. PICK s \in Nat, t \in Nat, z \in Nat : s = op[c].start /\ t = TTL /\ z = clock /\ s <= z
      BY <1>8, <3>1, CacheAssumption
    <3>3. entries'[k].expires = s + t /\ entries'[k].value = v
      BY <1>14, <2>2, <3>2
    <3>4. s + t <= z + t /\ (s + t) - t = s
      BY <3>2
    <3> QED BY <1>2, <1>7, <3>1, <3>2, <3>3, <3>4
  <2>3. foreign' = 0 => Version(k)' = floor'[k]
    <3> SUFFICES ASSUME foreign = 0 PROVE n = v
      BY <1>2, <2>1
    <3>1. n # f
      BY <1>7
    <3>2. op[c].value = Version(k)
      BY <1>1, <1>6, <1>7, <3>1 DEF KeyOK
    <3> QED BY <1>7, <3>2
  <2> QED BY <1>10, <1>14, <2>1, <2>2, <2>3 DEF KeyOK, Fetching, HasRead, Stored, Valid
<1>21. ASSUME NEW d \in Caller, d # c PROVE CallerOK(d)'
  <2>1. CallerOK(d) /\ pc'[d] = pc[d] /\ op'[d] = op[d] /\ d # None /\ pc[d] \notin Stored
    BY <1>1, <1>6, <1>13, <1>21, CacheAssumption DEF CallerOK, Stored, Writing
  <2>2. op[d].key \in Key => /\ floor'[op[d].key] \in Nat /\ floor[op[d].key] <= floor'[op[d].key]
    <3> SUFFICES ASSUME NEW x \in Key, x = op[d].key PROVE floor'[x] \in Nat /\ floor[x] <= floor'[x]
      OBVIOUS
    <3>1. floor[x] \in Nat
      BY <1>1, KeyFacts
    <3>2. f <= v
      BY <1>7
    <3> QED BY <1>7, <1>9, <3>1, <3>2
  <2>3. pc[d] = "wait" => pc'[op[d].on] = pc[op[d].on] /\ op'[op[d].on] = op[op[d].on]
    BY <1>13, <1>15, WaitsOn
  <2>4. pc[d] \in Fetching /\ d \notin stale' =>
            d \notin stale /\ inflight'[op[d].key] = inflight[op[d].key]
    <3> SUFFICES ASSUME pc[d] \in Fetching, d \notin stale'
        PROVE  d \notin stale /\ inflight'[op[d].key] = inflight[op[d].key]
      OBVIOUS
    <3>1. d \notin stale
      BY <1>11
    <3>2. op[d].key \in Key /\ inflight[op[d].key] = d
      BY <2>1, <3>1 DEF CallerOK, Fetching
    <3>3. op[d].key # k
      BY <1>11, <2>1, <3>2
    <3> QED BY <1>10, <3>1, <3>2, <3>3
  <2>5. writeMu' # d /\ writeMu # d
    BY <1>2, <1>6, <1>21, <2>1
  <2>6. CallerKept(d)
    BY <1>2, <1>8, <2>1, <2>2, <2>3, <2>4, <2>5 DEF CallerKept, CallerOK
  <2> QED BY <1>1, <2>1, <2>6, KeptCaller
<1>22. CallerOK(c)'
  BY <1>2, <1>6, <1>13 DEF CallerOK, Writing, Fetching, HasRead, Stored
<1> QED BY <1>14, <1>16, <1>17, <1>18, <1>19, <1>20, <1>21, <1>22, InvFrom

(***************************************************************************)
(* The theorems.                                                           *)
(***************************************************************************)

\* The invariant holds of a new cache.
LEMMA InitKeeps ==
    ASSUME Init
    PROVE  CacheInv
<1>1. order = <<>> /\ order \in Seq(Key) /\ Len(order) = 0 /\ DOMAIN order = {}
  BY DEF Init
<1>2. ListMap
  <2>1. ListOK(order) /\ \A x : ~In(order, x)
    BY <1>1 DEF ListOK, Distinct, In
  <2>2. Len(order) <= Capacity
    BY <1>1, CacheAssumption
  <2>3. entries \in [Key -> Entry \cup {None}] /\ \A k \in Key : entries[k] = None
    BY DEF Init
  <2> QED BY <2>1, <2>2, <2>3 DEF ListMap
<1>3. Idle \in OpType /\ 0 \in Value
  BY CacheAssumption DEF Idle, OpType, Value
<1>4. CallTypes
  BY <1>3 DEF Init, CallTypes, Where
<1>5. StoreTypes
  <2>1. landed \in [Key -> Seq(0 .. MaxClock)]
    BY DEF Init
  <2> QED BY <1>3, <2>1, CacheAssumption DEF Init, StoreTypes
<1>6. \A k \in Key : Version(k) = 0 /\ floor[k] = 0 /\ entries[k] = None /\ inflight[k] = None
  BY DEF Init, Version
<1>7. Counted
  <2>1. Pending = 0 /\ writes = 0 /\ foreign = 0
    BY DEF Init, Pending
  <2> QED BY <1>6, <2>1 DEF Counted
<1>8. \A k \in Key : KeyOK(k)
  BY <1>6 DEF KeyOK
<1>9. \A c \in Caller : CallerOK(c)
  <2> SUFFICES ASSUME NEW c \in Caller PROVE CallerOK(c)
    OBVIOUS
  <2>1. pc[c] = "idle" /\ writeMu # c
    BY CacheAssumption DEF Init
  <2> QED BY <2>1 DEF CallerOK, Writing, Fetching, HasRead, Stored
<1> QED BY <1>2, <1>4, <1>5, <1>7, <1>8, <1>9, TypeParts DEF CacheInv

\* Every step keeps it.
LEMMA NextKeeps ==
    ASSUME CacheInv, [Next]_vars
    PROVE  CacheInv'
<1>1. CASE Tick
  BY <1>1, TickKeeps
<1>2. ASSUME NEW k \in Written, ForeignWrite(k) PROVE CacheInv'
  BY <1>2, ForeignWriteKeeps
<1>3. ASSUME NEW c \in Caller, NEW k \in Key, hit(c, k) PROVE CacheInv'
  BY <1>3, HitKeeps
<1>4. ASSUME NEW c \in Caller, NEW k \in Key, miss(c, k) PROVE CacheInv'
  BY <1>4, MissKeeps
<1>5. ASSUME NEW c \in Caller, NEW k \in Written, NEW kind \in {"Put", "Append"}, lockWrite(c, k, kind)
      PROVE  CacheInv'
  BY <1>5, LockWriteKeeps
<1>6. ASSUME NEW c \in Caller, fetch(c) PROVE CacheInv'
  BY <1>6, FetchKeeps
<1>7. ASSUME NEW c \in Caller, fetchPanics(c) PROVE CacheInv'
  BY <1>7, FetchPanicsKeeps
<1>8. ASSUME NEW c \in Caller, lead(c) PROVE CacheInv'
  BY <1>8, LeadKeeps
<1>9. ASSUME NEW c \in Caller, cleanup(c) PROVE CacheInv'
  BY <1>9, CleanupKeeps
<1>10. ASSUME NEW c \in Caller, getReturn(c) PROVE CacheInv'
  BY <1>10, GetReturnKeeps
<1>11. ASSUME NEW c \in Caller, storeWrite(c) PROVE CacheInv'
  BY <1>11, StoreWriteKeeps
<1>12. ASSUME NEW c \in Caller, updateCache(c) PROVE CacheInv'
  BY <1>12, UpdateCacheKeeps
<1>13. CASE UNCHANGED vars
  <2>1. UNCHANGED <<policy, landed, clock, writeMu, order, entries, inflight, stale, pc, op, floor,
                    foreign, writes, panics>>
    BY <1>13 DEF vars, cacheVars, boundVars
  <2>2. TypeOK'
    BY <2>1 DEF CacheInv, TypeOK
  <2>3. Counted'
    BY <2>1 DEF CacheInv, Counted, Pending, Version
  <2>4. ASSUME NEW k \in Key PROVE KeyOK(k)'
    BY <2>1 DEF CacheInv, KeyOK, Version
  <2>5. ASSUME NEW c \in Caller PROVE CallerOK(c)'
    BY <2>1 DEF CacheInv, CallerOK, Version
  <2> QED BY <2>2, <2>3, <2>4, <2>5 DEF CacheInv
<1> QED
  BY <1>1, <1>2, <1>3, <1>4, <1>5, <1>6, <1>7, <1>8, <1>9, <1>10, <1>11, <1>12, <1>13 DEF Next

\* The invariant always holds.
LEMMA CacheInvariance == Spec => []CacheInv
<1>1. Init => CacheInv
  BY InitKeeps
<1>2. CacheInv /\ [Next]_vars => CacheInv'
  BY NextKeeps
<1> QED BY <1>1, <1>2, PTL DEF Spec

\* The recency list and the map hold the same keys, each once and never more
\* than Capacity of them, after any sequence of hits, fills, evictions,
\* expiries and invalidations.
THEOREM SoundList == Spec => []TypeOK
<1>1. CacheInv => TypeOK
  BY DEF CacheInv
<1> QED BY <1>1, CacheInvariance, PTL

\* A Get returns nothing older than the writes through this cache that had
\* returned when it was called, from the cache, from its own fetch or from
\* one it joined.
THEOREM OwnWritesRead == Spec => []ReadsOwnWrites
<1>1. ASSUME CacheInv PROVE ReadsOwnWrites
  <2> SUFFICES ASSUME NEW c \in Caller, pc[c] = "return" PROVE op[c].value >= op[c].since
    BY DEF ReadsOwnWrites
  <2>1. op[c].value \in Nat /\ op[c].since \in Nat /\ CallerOK(c)
    BY <1>1, InvParts, CallFacts
  <2>2. op[c].since <= op[c].value
    BY <2>1 DEF CallerOK
  <2> QED BY <2>1, <2>2
<1> QED BY <1>1, CacheInvariance, PTL

\* A hit is never staler than TTL, whoever has written meanwhile and however
\* long the fetch took.
THEOREM FreshHits == Spec => []HitsFresh
<1>1. ASSUME CacheInv PROVE HitsFresh
  <2> SUFFICES ASSUME NEW k \in Key, TTL # 0, entries[k] # None, ~expiredLocked(k)
      PROVE  \/ entries[k].value = Version(k)
             \/ landed[k][entries[k].value + 1] > clock - TTL
    BY DEF HitsFresh
  <2>1. ListMap /\ CallTypes /\ StoreTypes /\ KeyOK(k)
    BY <1>1, InvParts
  <2>2. PICK v \in Nat, t \in Nat, z \in Nat, l \in Nat :
            v = entries[k].value /\ t = entries[k].expires /\ z = clock /\ l = TTL
    BY <2>1, KeyFacts, CacheAssumption
  <2>3. z < t
    BY <2>2 DEF expiredLocked
  <2>4. v <= Version(k) /\ (v = Version(k) \/ landed[k][v + 1] >= t - l)
    BY <2>1, <2>2 DEF KeyOK, Valid, Version
  <2>5. CASE v # Version(k)
    <3>1. landed[k] \in Seq(0 .. MaxClock) /\ Version(k) \in Nat
      BY <2>1, KeyFacts
    <3>2. v + 1 \in 1 .. Len(landed[k])
      BY <2>4, <2>5, <3>1 DEF Version
    <3>3. PICK y \in 0 .. MaxClock : y = landed[k][v + 1]
      <4>1. landed[k][v + 1] \in 0 .. MaxClock
        BY <3>1, <3>2, ElementOfSeq
      <4> QED BY <4>1
    <3>4. y >= t - l
      BY <2>4, <2>5, <3>3
    <3>5. y \in Nat
      BY CacheAssumption
    <3>6. y > z - l
      BY <2>3, <3>4, <3>5
    <3> QED BY <2>2, <3>3, <3>6
  <2> QED BY <2>2, <2>5
<1> QED BY <1>1, CacheInvariance, PTL

\* As long as nobody else writes, what is cached is what the store holds
\* whenever no write is under way, under either write policy.
THEOREM AgreesWithStore == Spec => []CacheAgrees
<1>1. ASSUME CacheInv PROVE CacheAgrees
  <2> SUFFICES ASSUME foreign = 0, writeMu = None, NEW k \in Key, entries[k] # None
      PROVE  entries[k].value = Version(k)
    BY DEF CacheAgrees
  <2>1. ListMap /\ CallTypes /\ StoreTypes /\ KeyOK(k)
    BY <1>1, InvParts
  <2>2. PICK v \in Nat, n \in Nat : v = entries[k].value /\ n = Version(k)
    BY <2>1, KeyFacts
  <2>3. n = floor[k] /\ floor[k] <= v /\ v <= n
    BY <2>1, <2>2 DEF KeyOK
  <2> QED BY <2>2, <2>3
<1> QED BY <1>1, CacheInvariance, PTL
=============================================================================
