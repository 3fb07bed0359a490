--------------------------- MODULE KVServerProofs ---------------------------
(***************************************************************************)
(* The key-value service of stage 2: type correctness, replicas that are   *)
(* what the log says, fresh reads, and that the service implements the     *)
(* atomic store of module AtomicKV, for any number of servers and clerks   *)
(* and any bounds.  Inv is the inductive invariant.                        *)
(***************************************************************************)
EXTENDS KVServer, DataLemmas, FiniteSetTheorems, SequenceTheorems, TLAPS

(***************************************************************************)
(* The requests of a log.                                                  *)
(***************************************************************************)
Entry == [term : 0 .. MaxTerm, op : Op \cup {NoopOp}]

\* l's entry n is the first with its request.
IsFirst(l, n) == l[n].op # NoopOp /\ \A m \in 1 .. n - 1 : l[m].op # l[n].op

\* The recursion in Requests.
IsUpTo(f, l) ==
    f = [n \in 0 .. Len(l) |->
            IF n = 0 THEN <<>>
            ELSE IF IsFirst(l, n) THEN Append(f[n - 1], l[n].op) ELSE f[n - 1]]
UpTo(l) == CHOOSE f : IsUpTo(f, l)

LEMMA RequestsAreUpTo == \A l : Requests(l) = UpTo(l)[Len(l)]
BY DEF Requests, UpTo, IsUpTo, IsFirst

LEMMA EntryIs == \A e \in Entry : e.op \in Op \cup {NoopOp} /\ e.term \in 0 .. MaxTerm
BY DEF Entry

LEMMA NoopIsNoOp == NoopOp \notin Op
BY ServiceAssumption DEF NoopOp, Op

\* It has a solution: what follows reads it off entry by entry.
LEMMA UpToIs ==
    ASSUME NEW l \in Seq(Entry)
    PROVE  /\ UpTo(l) \in [0 .. Len(l) -> Seq(Op)]
           /\ UpTo(l)[0] = <<>>
           /\ \A n \in 1 .. Len(l) :
                 UpTo(l)[n] = IF IsFirst(l, n) THEN Append(UpTo(l)[n - 1], l[n].op)
                                               ELSE UpTo(l)[n - 1]
<1> DEFINE N == Len(l)
           G == [n \in 1 .. N |-> [v \in Seq(Op) |->
                   IF IsFirst(l, n) THEN Append(v, l[n].op) ELSE v]]
<1>1. N \in Nat
  OBVIOUS
<1>2. \A n \in 1 .. N : IsFirst(l, n) => l[n].op \in Op
  <2> SUFFICES ASSUME NEW n \in 1 .. N, IsFirst(l, n) PROVE l[n].op \in Op
    OBVIOUS
  <2>1. l[n] \in Entry
    OBVIOUS
  <2>2. l[n].op \in Op \cup {NoopOp} /\ l[n].op # NoopOp
    BY <2>1, EntryIs DEF IsFirst
  <2> QED BY <2>2
<1>3. \A n \in 1 .. N : \A v \in Seq(Op) : G[n][v] \in Seq(Op)
  BY <1>2
<1>4. <<>> \in Seq(Op)
  OBVIOUS
<1> HIDE DEF G
<1>5. PICK f \in [0 .. N -> Seq(Op)] : Follows(f, <<>>, G, N)
  BY <1>1, <1>3, <1>4, Recursion
<1>6. \A n \in 1 .. N : f[n] = IF IsFirst(l, n) THEN Append(f[n - 1], l[n].op) ELSE f[n - 1]
  <2> SUFFICES ASSUME NEW n \in 1 .. N
               PROVE  f[n] = IF IsFirst(l, n) THEN Append(f[n - 1], l[n].op) ELSE f[n - 1]
    OBVIOUS
  <2>1. f[n] = G[n][f[n - 1]]
    BY <1>5 DEF Follows
  <2>2. f[n - 1] \in Seq(Op)
    BY <1>1
  <2> QED BY <2>1, <2>2 DEF G
<1>7. IsUpTo(f, l)
  <2> DEFINE F(n) == IF n = 0 THEN <<>>
                     ELSE IF IsFirst(l, n) THEN Append(f[n - 1], l[n].op) ELSE f[n - 1]
  <2>1. f = [n \in 0 .. N |-> f[n]]
    OBVIOUS
  <2>2. f[0] = <<>>
    BY <1>5 DEF Follows
  <2>3. \A n \in 0 .. N : n = 0 \/ n \in 1 .. N
    BY <1>1
  <2>4. \A n \in 0 .. N : f[n] = F(n)
    BY <1>6, <2>2, <2>3
  <2>5. [n \in 0 .. N |-> f[n]] = [n \in 0 .. N |-> F(n)]
    BY <2>4
  <2> QED BY <2>1, <2>5 DEF IsUpTo
<1>8. IsUpTo(UpTo(l), l)
  BY <1>7 DEF UpTo
<1>9. DOMAIN UpTo(l) = 0 .. N /\ UpTo(l)[0] = <<>>
  BY <1>1, <1>8 DEF IsUpTo
<1>10. \A n \in 1 .. N : UpTo(l)[n] = IF IsFirst(l, n) THEN Append(UpTo(l)[n - 1], l[n].op)
                                                       ELSE UpTo(l)[n - 1]
  <2>1. PICK u : u = UpTo(l)
    OBVIOUS
  <2> DEFINE F(n) == IF n = 0 THEN <<>>
                     ELSE IF IsFirst(l, n) THEN Append(u[n - 1], l[n].op) ELSE u[n - 1]
  <2>2. u = [n \in 0 .. N |-> F(n)]
    BY <1>8, <2>1 DEF IsUpTo
  <2>3. \A n \in 1 .. N : n \in 0 .. N /\ n # 0
    BY <1>1
  <2>4. \A n \in 1 .. N : u[n] = F(n)
    <3> HIDE DEF F
    <3> QED BY <2>2, <2>3
  <2> QED BY <2>1, <2>3, <2>4
<1> DEFINE T == {n \in Nat : n <= N => UpTo(l)[n] \in Seq(Op)}
<1>11. T = Nat
  <2>1. 0 \in T
    BY <1>4, <1>9
  <2>2. \A n \in T : n + 1 \in T
    <3> SUFFICES ASSUME NEW n \in T, n + 1 <= N PROVE UpTo(l)[n + 1] \in Seq(Op)
      OBVIOUS
    <3>1. n \in Nat /\ n + 1 \in 1 .. N /\ (n + 1) - 1 = n /\ UpTo(l)[n] \in Seq(Op)
      OBVIOUS
    <3>2. UpTo(l)[n + 1] = IF IsFirst(l, n + 1) THEN Append(UpTo(l)[n], l[n + 1].op)
                                                ELSE UpTo(l)[n]
      BY <1>10, <3>1
    <3> QED BY <1>2, <3>1, <3>2
  <2> HIDE DEF T
  <2>3. T \in SUBSET Nat
    BY DEF T
  <2> QED BY <2>1, <2>2, <2>3, AllNaturals
<1>12. UpTo(l) \in [0 .. N -> Seq(Op)]
  <2>1. \A n \in 0 .. N : UpTo(l)[n] \in Seq(Op)
    BY <1>11
  <2>2. UpTo(l) = [n \in 0 .. N |-> UpTo(l)[n]]
    BY <1>8, <1>9 DEF IsUpTo
  <2> QED BY <2>1, <2>2
<1> QED BY <1>9, <1>10, <1>12

\* m begins with l.
Begins(l, m) == Len(l) <= Len(m) /\ \A i \in 1 .. Len(l) : l[i] = m[i]

LEMMA UpToOfPrefix ==
    ASSUME NEW l \in Seq(Entry), NEW m \in Seq(Entry), Begins(l, m)
    PROVE  \A n \in 0 .. Len(l) : UpTo(l)[n] = UpTo(m)[n]
<1> DEFINE T == {n \in Nat : n <= Len(l) => UpTo(l)[n] = UpTo(m)[n]}
<1>0. Len(l) \in Nat /\ Len(m) \in Nat /\ Len(l) <= Len(m)
  BY DEF Begins
<1>1. 0 \in T
  BY UpToIs
<1>2. \A n \in T : n + 1 \in T
  <2> SUFFICES ASSUME NEW n \in T, n + 1 <= Len(l) PROVE UpTo(l)[n + 1] = UpTo(m)[n + 1]
    OBVIOUS
  <2>1. n \in Nat /\ n + 1 \in 1 .. Len(l) /\ n + 1 \in 1 .. Len(m) /\ (n + 1) - 1 = n
    BY <1>0
  <2>2. UpTo(l)[n] = UpTo(m)[n]
    BY <2>1
  <2>3. l[n + 1] = m[n + 1] /\ \A i \in 1 .. n : l[i] = m[i]
    BY <2>1 DEF Begins
  <2>4. IsFirst(l, n + 1) <=> IsFirst(m, n + 1)
    BY <2>1, <2>3 DEF IsFirst
  <2>5. /\ UpTo(l)[n + 1] = IF IsFirst(l, n + 1) THEN Append(UpTo(l)[n], l[n + 1].op)
                                                 ELSE UpTo(l)[n]
        /\ UpTo(m)[n + 1] = IF IsFirst(m, n + 1) THEN Append(UpTo(m)[n], m[n + 1].op)
                                                 ELSE UpTo(m)[n]
    BY <2>1, UpToIs
  <2> QED BY <2>2, <2>3, <2>4, <2>5
<1>3. T = Nat
  <2> HIDE DEF T
  <2>1. T \in SUBSET Nat
    BY DEF T
  <2> QED BY <1>1, <1>2, <2>1, AllNaturals
<1> QED
  <2> SUFFICES ASSUME NEW n \in 0 .. Len(l) PROVE UpTo(l)[n] = UpTo(m)[n]
    OBVIOUS
  <2>1. n \in T /\ n <= Len(l)
    BY <1>0, <1>3
  <2> QED BY <2>1

LEMMA TypedAppend ==
    ASSUME NEW S, NEW q \in Seq(S), NEW o \in S
    PROVE  /\ Append(q, o) \in Seq(S) /\ Len(Append(q, o)) = Len(q) + 1
           /\ \A i \in 1 .. Len(q) : Append(q, o)[i] = q[i]
           /\ Append(q, o)[Len(q) + 1] = o
OBVIOUS

LEMMA UpToGrows ==
    ASSUME NEW l \in Seq(Entry)
    PROVE  \A n \in 0 .. Len(l) : \A k \in 0 .. n : Begins(UpTo(l)[k], UpTo(l)[n])
<1> DEFINE T == {n \in Nat : n <= Len(l) => \A k \in 0 .. n : Begins(UpTo(l)[k], UpTo(l)[n])}
<1>0. PICK u \in [0 .. Len(l) -> Seq(Op)] : u = UpTo(l)
  BY UpToIs
<1>1. 0 \in T
  <2>1. \A k \in 0 .. 0 : k = 0
    OBVIOUS
  <2>2. UpTo(l)[0] = <<>>
    BY UpToIs
  <2>3. Begins(<<>>, <<>>)
    BY DEF Begins
  <2> QED BY <2>1, <2>2, <2>3
<1>2. \A n \in T : n + 1 \in T
  <2> SUFFICES ASSUME NEW n \in T, n + 1 <= Len(l), NEW k \in 0 .. n + 1
               PROVE  Begins(u[k], u[n + 1])
    BY <1>0
  <2>1. n \in Nat /\ n + 1 \in 1 .. Len(l) /\ (n + 1) - 1 = n /\ n \in 0 .. Len(l)
    OBVIOUS
  <2>2. u[n] \in Seq(Op) /\ u[n + 1] \in Seq(Op) /\ u[k] \in Seq(Op)
    BY <2>1
  <2>3. CASE k = n + 1
    BY <2>2, <2>3 DEF Begins
  <2>4. CASE k \in 0 .. n
    <3>1. Begins(u[k], u[n])
      BY <1>0, <2>1, <2>4
    <3>2. u[n + 1] = IF IsFirst(l, n + 1) THEN Append(u[n], l[n + 1].op) ELSE u[n]
      BY <1>0, <2>1, UpToIs
    <3>3. CASE ~IsFirst(l, n + 1)
      BY <3>1, <3>2, <3>3
    <3>4. CASE IsFirst(l, n + 1)
      <4>1. l[n + 1] \in Entry
        BY <2>1
      <4>2. l[n + 1].op \in Op
        BY <3>4, <4>1, EntryIs DEF IsFirst
      <4>3. /\ Len(u[n + 1]) = Len(u[n]) + 1
            /\ \A i \in 1 .. Len(u[n]) : u[n + 1][i] = u[n][i]
        BY <2>2, <3>2, <3>4, <4>2, TypedAppend
      <4>4. Len(u[k]) \in Nat /\ Len(u[n]) \in Nat
        BY <2>2
      <4> QED BY <3>1, <4>3, <4>4 DEF Begins
    <3> QED BY <3>3, <3>4
  <2> QED BY <2>1, <2>3, <2>4
<1>3. T = Nat
  <2> HIDE DEF T
  <2>1. T \in SUBSET Nat
    BY DEF T
  <2> QED BY <1>1, <1>2, <2>1, AllNaturals
<1> QED BY <1>3

Carries(q, o) == \E i \in 1 .. Len(q) : q[i] = o
OnceEach(q) == \A i, j \in 1 .. Len(q) : q[i] = q[j] => i = j

\* The first n entries of l have the request o.
Asks(l, n, o) == o # NoopOp /\ \E i \in 1 .. n : l[i].op = o

\* The requests are those of the entries, each once.
LEMMA UpToHolds ==
    ASSUME NEW l \in Seq(Entry)
    PROVE  \A n \in 0 .. Len(l) : /\ \A o : Carries(UpTo(l)[n], o) <=> Asks(l, n, o)
                                  /\ OnceEach(UpTo(l)[n])
<1> DEFINE Good(n) == (\A o : Carries(UpTo(l)[n], o) <=> Asks(l, n, o)) /\ OnceEach(UpTo(l)[n])
           T == {n \in Nat : n <= Len(l) => Good(n)}
<1>0. PICK u \in [0 .. Len(l) -> Seq(Op)] : u = UpTo(l)
  BY UpToIs
<1>1. 0 \in T
  <2>1. UpTo(l)[0] = <<>>
    BY UpToIs
  <2> QED BY <2>1 DEF Carries, Asks, OnceEach
<1>2. \A n \in T : n + 1 \in T
  <2> SUFFICES ASSUME NEW n \in T, n + 1 <= Len(l)
               PROVE  (\A o : Carries(u[n + 1], o) <=> Asks(l, n + 1, o)) /\ OnceEach(u[n + 1])
    BY <1>0
  <2>1. n \in Nat /\ n + 1 \in 1 .. Len(l) /\ (n + 1) - 1 = n /\ n \in 0 .. Len(l)
    OBVIOUS
  <2>2. u[n] \in Seq(Op) /\ u[n + 1] \in Seq(Op)
    BY <2>1
  <2>3. (\A o : Carries(u[n], o) <=> Asks(l, n, o)) /\ OnceEach(u[n])
    BY <1>0, <2>1
  <2>4. u[n + 1] = IF IsFirst(l, n + 1) THEN Append(u[n], l[n + 1].op) ELSE u[n]
    BY <1>0, <2>1, UpToIs
  <2>5. \A i \in 1 .. n + 1 : i \in 1 .. n \/ i = n + 1
    BY <2>1
  <2>6. IsFirst(l, n + 1) <=> l[n + 1].op # NoopOp /\ ~Asks(l, n, l[n + 1].op)
    BY <2>1 DEF IsFirst, Asks
  <2>7. \A o : Asks(l, n + 1, o) <=> Asks(l, n, o) \/ (o # NoopOp /\ o = l[n + 1].op)
    BY <2>1, <2>5 DEF Asks
  <2>8. CASE ~IsFirst(l, n + 1)
    BY <2>3, <2>4, <2>6, <2>7, <2>8
  <2>9. CASE IsFirst(l, n + 1)
    <3>1. PICK o : o = l[n + 1].op
      OBVIOUS
    <3>2. l[n + 1] \in Entry
      BY <2>1
    <3>3. o \in Op
      BY <2>9, <3>1, <3>2, EntryIs DEF IsFirst
    <3>4. PICK k \in Nat : k = Len(u[n])
      BY <2>2
    <3>5. /\ Len(u[n + 1]) = k + 1 /\ u[n + 1][k + 1] = o
          /\ \A i \in 1 .. k : u[n + 1][i] = u[n][i]
      BY <2>2, <2>4, <2>9, <3>1, <3>3, <3>4, TypedAppend
    <3>6. \A i \in 1 .. k + 1 : i \in 1 .. k \/ i = k + 1
      OBVIOUS
    <3>7. \A p : Carries(u[n + 1], p) <=> Carries(u[n], p) \/ p = o
      <4>1. PICK q, r : q = u[n] /\ r = u[n + 1]
        OBVIOUS
      <4>2. Len(r) = k + 1 /\ Len(q) = k /\ r[k + 1] = o /\ \A i \in 1 .. k : r[i] = q[i]
        BY <3>4, <3>5, <4>1
      <4>3. ASSUME NEW p PROVE Carries(r, p) <=> Carries(q, p) \/ p = o
        <5>1. Carries(r, p) => Carries(q, p) \/ p = o
          BY <3>6, <4>2 DEF Carries
        <5>2. Carries(q, p) => Carries(r, p)
          BY <4>2 DEF Carries
        <5>3. p = o => Carries(r, p)
          <6>1. k + 1 \in 1 .. k + 1
            OBVIOUS
          <6> QED BY <4>2, <6>1 DEF Carries
        <5> QED BY <5>1, <5>2, <5>3
      <4> QED BY <4>1, <4>3
    <3>8. ~Carries(u[n], o)
      BY <2>3, <2>6, <2>9, <3>1
    <3>9. OnceEach(u[n + 1])
      BY <2>3, <3>4, <3>5, <3>6, <3>8 DEF OnceEach, Carries
    <3> QED BY <2>3, <2>6, <2>7, <2>9, <3>1, <3>7, <3>9
  <2> QED BY <2>8, <2>9
<1>3. T = Nat
  <2> HIDE DEF T
  <2>1. T \in SUBSET Nat
    BY DEF T
  <2> QED BY <1>1, <1>2, <2>1, AllNaturals
<1> QED BY <1>3

LEMMA RequestsHold ==
    ASSUME NEW l \in Seq(Entry)
    PROVE  /\ Requests(l) \in Seq(Op)
           /\ \A o : Carries(Requests(l), o) <=> Asks(l, Len(l), o)
           /\ OnceEach(Requests(l))
<1>1. Len(l) \in 0 .. Len(l)
  OBVIOUS
<1> QED BY <1>1, UpToIs, UpToHolds, RequestsAreUpTo

\* The requests of a log that goes on begin with those it had.
LEMMA RequestsGrow ==
    ASSUME NEW l \in Seq(Entry), NEW m \in Seq(Entry), Begins(l, m)
    PROVE  Begins(Requests(l), Requests(m))
<1>1. Len(l) \in 0 .. Len(l) /\ Len(m) \in 0 .. Len(m) /\ Len(l) \in 0 .. Len(m)
  BY DEF Begins
<1>2. Requests(l) = UpTo(m)[Len(l)]
  BY <1>1, UpToOfPrefix, RequestsAreUpTo
<1>3. Requests(m) = UpTo(m)[Len(m)]
  BY RequestsAreUpTo
<1>4. Begins(UpTo(m)[Len(l)], UpTo(m)[Len(m)])
  BY <1>1, UpToGrows
<1> QED BY <1>2, <1>3, <1>4

(***************************************************************************)
(* The value that writes produce.                                          *)
(***************************************************************************)
IsMade(f, q) ==
    f = [n \in 0 .. Len(q) |-> IF n = 0 THEN <<>> ELSE Execute(f[n - 1], q[n])]
Made(q) == CHOOSE f : IsMade(f, q)
Produced(q) == Made(q)[Len(q)]

LEMMA ValueIsProduced == \A l : Value(l) = Produced(Requests(l))
BY DEF Value, Produced, Made, IsMade

LEMMA ExecuteType == \A v \in Seq(Op), o \in Op : Execute(v, o) \in Seq(Op)
BY DEF Execute

LEMMA MadeIs ==
    ASSUME NEW q \in Seq(Op)
    PROVE  /\ Made(q) \in [0 .. Len(q) -> Seq(Op)]
           /\ Made(q)[0] = <<>>
           /\ \A n \in 1 .. Len(q) : Made(q)[n] = Execute(Made(q)[n - 1], q[n])
<1> DEFINE N == Len(q)
           G == [n \in 1 .. N |-> [v \in Seq(Op) |-> Execute(v, q[n])]]
<1>1. N \in Nat
  OBVIOUS
<1>2. \A n \in 1 .. N : q[n] \in Op
  OBVIOUS
<1>3. \A n \in 1 .. N : \A v \in Seq(Op) : G[n][v] \in Seq(Op)
  BY <1>2, ExecuteType
<1>4. <<>> \in Seq(Op)
  OBVIOUS
<1> HIDE DEF G
<1>5. PICK f \in [0 .. N -> Seq(Op)] : Follows(f, <<>>, G, N)
  BY <1>1, <1>3, <1>4, Recursion
<1>6. \A n \in 1 .. N : f[n] = Execute(f[n - 1], q[n])
  <2> SUFFICES ASSUME NEW n \in 1 .. N PROVE f[n] = Execute(f[n - 1], q[n])
    OBVIOUS
  <2>1. f[n] = G[n][f[n - 1]]
    BY <1>5 DEF Follows
  <2>2. f[n - 1] \in Seq(Op)
    BY <1>1
  <2> QED BY <2>1, <2>2 DEF G
<1>7. IsMade(f, q)
  <2> DEFINE F(n) == IF n = 0 THEN <<>> ELSE Execute(f[n - 1], q[n])
  <2>1. f = [n \in 0 .. N |-> f[n]]
    OBVIOUS
  <2>2. f[0] = <<>>
    BY <1>5 DEF Follows
  <2>3. \A n \in 0 .. N : n = 0 \/ n \in 1 .. N
    BY <1>1
  <2>4. \A n \in 0 .. N : f[n] = F(n)
    BY <1>6, <2>2, <2>3
  <2>5. [n \in 0 .. N |-> f[n]] = [n \in 0 .. N |-> F(n)]
    BY <2>4
  <2> QED BY <2>1, <2>5 DEF IsMade
<1>8. PICK u : u = Made(q)
  OBVIOUS
<1> DEFINE F(n) == IF n = 0 THEN <<>> ELSE Execute(u[n - 1], q[n])
<1>9. u = [n \in 0 .. N |-> F(n)]
  BY <1>7, <1>8 DEF Made, IsMade
<1>10. \A n \in 0 .. N : u[n] = F(n)
  <2> HIDE DEF F
  <2> QED BY <1>9
<1>11. u[0] = <<>> /\ \A n \in 1 .. N : u[n] = Execute(u[n - 1], q[n])
  <2>1. 0 \in 0 .. N /\ \A n \in 1 .. N : n \in 0 .. N /\ n # 0
    BY <1>1
  <2> QED BY <1>10, <2>1
<1> DEFINE T == {n \in Nat : n <= N => u[n] \in Seq(Op)}
<1>12. T = Nat
  <2>1. 0 \in T
    BY <1>4, <1>11
  <2>2. \A n \in T : n + 1 \in T
    <3> SUFFICES ASSUME NEW n \in T, n + 1 <= N PROVE u[n + 1] \in Seq(Op)
      OBVIOUS
    <3>1. n \in Nat /\ n + 1 \in 1 .. N /\ (n + 1) - 1 = n /\ u[n] \in Seq(Op)
      OBVIOUS
    <3>2. u[n + 1] = Execute(u[n], q[n + 1])
      BY <1>11, <3>1
    <3> QED BY <1>2, <3>1, <3>2, ExecuteType
  <2> HIDE DEF T
  <2>3. T \in SUBSET Nat
    BY DEF T
  <2> QED BY <2>1, <2>2, <2>3, AllNaturals
<1>13. u \in [0 .. N -> Seq(Op)]
  <2>1. \A n \in 0 .. N : u[n] \in Seq(Op)
    BY <1>12
  <2>2. u = [n \in 0 .. N |-> u[n]]
    BY <1>9
  <2> QED BY <2>1, <2>2
<1> QED BY <1>8, <1>11, <1>13

\* What a prefix of the writes produces is what they have produced by then.
LEMMA MadeOfPrefix ==
    ASSUME NEW p \in Seq(Op), NEW q \in Seq(Op), Begins(p, q)
    PROVE  \A n \in 0 .. Len(p) : Made(p)[n] = Made(q)[n]
<1> DEFINE T == {n \in Nat : n <= Len(p) => Made(p)[n] = Made(q)[n]}
<1>0. Len(p) \in Nat /\ Len(q) \in Nat /\ Len(p) <= Len(q)
  BY DEF Begins
<1>1. 0 \in T
  BY MadeIs
<1>2. \A n \in T : n + 1 \in T
  <2> SUFFICES ASSUME NEW n \in T, n + 1 <= Len(p) PROVE Made(p)[n + 1] = Made(q)[n + 1]
    OBVIOUS
  <2>1. n \in Nat /\ n + 1 \in 1 .. Len(p) /\ n + 1 \in 1 .. Len(q) /\ (n + 1) - 1 = n
    BY <1>0
  <2>2. Made(p)[n] = Made(q)[n] /\ p[n + 1] = q[n + 1]
    BY <2>1 DEF Begins
  <2>3. /\ Made(p)[n + 1] = Execute(Made(p)[n], p[n + 1])
        /\ Made(q)[n + 1] = Execute(Made(q)[n], q[n + 1])
    BY <2>1, MadeIs
  <2> QED BY <2>2, <2>3
<1>3. T = Nat
  <2> HIDE DEF T
  <2>1. T \in SUBSET Nat
    BY DEF T
  <2> QED BY <1>1, <1>2, <2>1, AllNaturals
<1> QED
  <2> SUFFICES ASSUME NEW n \in 0 .. Len(p) PROVE Made(p)[n] = Made(q)[n]
    OBVIOUS
  <2>1. n \in T /\ n <= Len(p)
    BY <1>0, <1>3
  <2> QED BY <2>1

LEMMA ProducedIs ==
    /\ Produced(<<>>) = <<>>
    /\ \A q \in Seq(Op) : Produced(q) \in Seq(Op)
    /\ \A q \in Seq(Op), o \in Op : Produced(Append(q, o)) = Execute(Produced(q), o)
<1>1. Produced(<<>>) = <<>>
  <2>1. <<>> \in Seq(Op) /\ Len(<<>>) = 0
    OBVIOUS
  <2> QED BY <2>1, MadeIs DEF Produced
<1>2. \A q \in Seq(Op) : Produced(q) \in Seq(Op)
  BY MadeIs DEF Produced
<1>3. ASSUME NEW q \in Seq(Op), NEW o \in Op
      PROVE  Produced(Append(q, o)) = Execute(Produced(q), o)
  <2>1. PICK r \in Seq(Op) : r = Append(q, o)
    BY TypedAppend
  <2>2. PICK n \in Nat : n = Len(q)
    OBVIOUS
  <2>3. Len(r) = n + 1 /\ r[n + 1] = o /\ \A i \in 1 .. n : r[i] = q[i]
    BY <2>1, <2>2, TypedAppend
  <2>4. n \in 0 .. n /\ n + 1 \in 1 .. n + 1 /\ (n + 1) - 1 = n /\ Begins(q, r)
    BY <2>2, <2>3 DEF Begins
  <2>5. Made(r)[n + 1] = Execute(Made(r)[n], o)
    BY <2>3, <2>4, MadeIs
  <2>6. Made(r)[n] = Made(q)[n]
    BY <2>2, <2>4, MadeOfPrefix
  <2> QED BY <2>1, <2>2, <2>3, <2>5, <2>6 DEF Produced
<1> QED BY <1>1, <1>2, <1>3

(***************************************************************************)
(* The invariant: types.                                                   *)
(***************************************************************************)
RaftTypes ==
    /\ term \in [Server -> 0 .. MaxTerm] /\ leads \in [Server -> BOOLEAN]
    /\ won \in 0 .. MaxTerm
    /\ log \in [Server -> Seq(Entry)] /\ chosen \in Seq(Entry)
    /\ chosenIn \in Seq(0 .. MaxTerm) /\ Len(chosenIn) = Len(chosen)
    /\ \A s \in Server : Len(log[s]) <= MaxLog
    /\ Len(chosen) <= MaxLog

Chans == UNION {[D -> Clerk] : D \in SUBSET Nat}
Msg == {Nil} \cup [op : Op \cup {NoopOp}]

LoopTypes ==
    /\ applied \in [Server -> Nat] /\ noopAppliedTerm \in [Server -> Nat]
    /\ lastNoopTerm \in [Server -> Nat]
    /\ notifyChans \in [Server -> Chans] /\ ch \in [Clerk -> Msg]

Writing == {"propose", "register", "wait"}
Reading == {"read", "readTerm", "readNoop", "readStore"}
Call == [pc : {"idle"} \cup Writing \cup Reading, op : Op \cup {Nil}, index : Nat, term : Nat]

ClerkTypes ==
    /\ call \in [Clerk -> Call] /\ lastKnown \in [Clerk -> Server]
    /\ acked \in Nat /\ floor \in [Clerk -> Nat]
    /\ calls \in [Clerk -> 0 .. MaxCalls] /\ got \in [Clerk -> Seq(Op)]

Dups == [Clerk -> 0 .. MaxCalls]
Snap == [index : Nat, store : Seq(Op), dup : Dups]

StoreTypes ==
    /\ store \in [Server -> Seq(Op)] /\ duplicateTable \in [Server -> Dups]
    /\ snapshot \in [Server -> Snap]

\* How far replicas have come.
Progress ==
    \A s \in Server : applied[s] <= Len(chosen) /\ snapshot[s].index <= applied[s]

TypeInv == RaftTypes /\ LoopTypes /\ ClerkTypes /\ StoreTypes /\ Progress

(***************************************************************************)
(* The steps, as the raft variables see them.                              *)
(***************************************************************************)
Proposes(s, op) ==
    /\ leads[s] /\ Len(log[s]) < MaxLog /\ op \in Op \cup {NoopOp}
    /\ log' = [log EXCEPT ![s] = Append(@, [term |-> term[s], op |-> op])]
    /\ UNCHANGED <<term, leads, won, chosen, chosenIn>>
Loses(s) ==
    /\ leads' = [leads EXCEPT ![s] = FALSE]
    /\ UNCHANGED <<term, log, won, chosen, chosenIn>>

RaftStep ==
    \/ UNCHANGED raftVars
    \/ \E s \in Server : Win(s) \/ StepDown(s) \/ Commit(s) \/ Loses(s)
    \/ \E s \in Server : Proposes(s, NoopOp)
    \/ \E s \in Server, c \in Clerk : call[c].pc = "propose" /\ Proposes(s, call[c].op)

LEMMA RaftSteps ==
    ASSUME TypeInv, [Next]_vars, \A c \in Clerk : call[c].pc = "propose" => call[c].op \in Op
    PROVE  RaftStep
<1> USE DEF RaftStep
<1>1. CASE UNCHANGED vars
  BY <1>1 DEF vars, serviceVars
<1>2. CASE RaftNext
  BY <1>2 DEF RaftNext
<1>3. ASSUME NEW s \in Server, noopLoop(s) PROVE RaftStep
  BY <1>3 DEF noopLoop, Propose, Proposes
<1>4. ASSUME NEW c \in Clerk, proposeCall(c) PROVE RaftStep
  <2>1. lastKnown[c] \in Server
    BY DEF TypeInv, ClerkTypes
  <2>2. CASE leads[lastKnown[c]] /\ Propose(lastKnown[c], call[c].op)
    <3>1. call[c].op \in Op
      BY <1>4 DEF proposeCall
    <3>2. Proposes(lastKnown[c], call[c].op)
      BY <2>2, <3>1 DEF Propose, Proposes
    <3> QED BY <1>4, <2>1, <3>2 DEF proposeCall
  <2>3. CASE UNCHANGED raftVars
    BY <2>3
  <2> QED BY <1>4, <2>2, <2>3 DEF proposeCall
<1>5. ASSUME NEW c \in Clerk,
             registerCall(c) \/ notified(c) \/ deadline(c) \/ leaderCheck(c)
             \/ readState(c) \/ readTerm(c) \/ putAppend(c) \/ Get(c) \/ readNoop(c) \/ readStore(c)
      PROVE  RaftStep
  BY <1>5 DEF registerCall, notified, deadline, leaderCheck, readState, readTerm, putAppend,
     Get, Begin, readNoop, readStore
<1>6. ASSUME NEW s \in Server, Restart(s) PROVE RaftStep
  BY <1>6 DEF Restart, Crash, Loses
<1>7. ASSUME NEW s \in Server, applyLoop(s) \/ \E p \in Server \ {s} : installSnapshot(s, p)
      PROVE  RaftStep
  BY <1>7 DEF applyLoop, Deliver, installSnapshot
<1> QED
  BY <1>1, <1>2, <1>3, <1>4, <1>5, <1>6, <1>7 DEF Next, ServiceNext, Handler

(***************************************************************************)
(* The invariant: terms and logs.                                          *)
(***************************************************************************)
Logs == {log[s] : s \in Server} \cup {chosen}

\* A term has one leader.
LeaderTerms ==
    /\ \A s \in Server : leads[s] => term[s] <= won
    /\ \A q, s \in Server : leads[q] /\ leads[s] /\ term[q] = term[s] => q = s

\* Terms do not fall along a log.
EntryTerms ==
    \A l \in Logs : /\ \A i \in 1 .. Len(l) : l[i].term <= won
                    /\ \A i, j \in 1 .. Len(l) : i <= j => l[i].term <= l[j].term

\* A leader has written the last of its term's entries.
LeaderLog ==
    \A s \in Server : leads[s] =>
        /\ \A i \in 1 .. Len(log[s]) : log[s][i].term <= term[s]
        /\ \A l \in Logs : \A i \in 1 .. Len(l) : l[i].term = term[s] => i <= Len(log[s])

\* No entry was committed before its term.
CommitTerms == \A i \in 1 .. Len(chosen) : chosen[i].term <= chosenIn[i]

\* The leader of the newest term has what is committed.
LeaderComplete == \A s \in Server : Leading(s) => Begins(chosen, log[s])

RaftInv == LeaderTerms /\ EntryTerms /\ LeaderLog /\ CommitTerms /\ LeaderComplete

LEMMA TypedSubSeq ==
    ASSUME NEW S, NEW l \in Seq(S), NEW n \in 0 .. Len(l)
    PROVE  /\ SubSeq(l, 1, n) \in Seq(S) /\ Len(SubSeq(l, 1, n)) = n
           /\ \A i \in 1 .. n : SubSeq(l, 1, n)[i] = l[i]
           /\ Begins(SubSeq(l, 1, n), l)
<1>1. \A i \in 1 .. n : l[i] \in S
  OBVIOUS
<1>2. PICK z \in Nat : z = n
  OBVIOUS
<1>3. PICK v : v = SubSeq(l, 1, n)
  OBVIOUS
<1>4. /\ v \in Seq(S) /\ Len(v) = (IF 1 <= n THEN n - 1 + 1 ELSE 0)
      /\ \A i \in 1 .. n - 1 + 1 : v[i] = l[1 + i - 1]
  BY <1>1, <1>3, SubSeqProperties
<1>5. (IF 1 <= n THEN n - 1 + 1 ELSE 0) = n /\ n - 1 + 1 = n /\ \A i \in 1 .. n : 1 + i - 1 = i
  BY <1>2
<1>6. v \in Seq(S) /\ Len(v) = n /\ \A i \in 1 .. n : v[i] = l[i]
  BY <1>4, <1>5
<1>7. Begins(v, l)
  BY <1>2, <1>6 DEF Begins
<1> QED BY <1>3, <1>6, <1>7

LEMMA LogsType == RaftTypes => \A l \in Logs : l \in Seq(Entry)
BY DEF RaftTypes, Logs

LEMMA ElectableIs ==
    ASSUME RaftTypes, NEW l \in Electable, Complete(l)
    PROVE  /\ l \in Seq(Entry) /\ Begins(chosen, l) /\ Len(l) <= MaxLog
           /\ \E m \in Logs : Begins(l, m)
<1>0. PICK m \in Logs : l \in {SubSeq(m, 1, n) : n \in Len(chosen) .. Len(m)}
  BY DEF Electable, Logs
<1>1. PICK n \in Len(chosen) .. Len(m) : l = SubSeq(m, 1, n)
  BY <1>0
<1>2. m \in Seq(Entry) /\ chosen \in Seq(Entry) /\ Len(m) <= MaxLog
  BY LogsType DEF RaftTypes, Logs
<1>3. PICK k \in Nat : k = Len(chosen)
  BY <1>2
<1>4. n \in 0 .. Len(m) /\ k \in 0 .. n /\ MaxLog \in Nat /\ Len(m) \in Nat
  BY <1>2, <1>3, ServiceAssumption
<1>5. l \in Seq(Entry) /\ Len(l) = n /\ Begins(l, m)
  BY <1>1, <1>2, <1>4, TypedSubSeq
<1>6. SubSeq(l, 1, k) = chosen /\ \A i \in 1 .. k : SubSeq(l, 1, k)[i] = l[i]
  BY <1>3, <1>4, <1>5, TypedSubSeq DEF Complete
<1>7. Begins(chosen, l)
  BY <1>3, <1>4, <1>5, <1>6 DEF Begins
<1> QED BY <1>2, <1>4, <1>5, <1>7

\* What holds of every entry of a log, and of every two, holds of its prefixes.
LEMMA PrefixTerms ==
    ASSUME NEW l \in Seq(Entry), NEW m \in Seq(Entry), Begins(l, m)
    PROVE  \A i \in 1 .. Len(l) : i \in 1 .. Len(m) /\ l[i] = m[i]
BY DEF Begins

LEMMA RaftInitInv == Init => RaftTypes /\ RaftInv
<1> SUFFICES ASSUME Init PROVE RaftTypes /\ RaftInv
  OBVIOUS
<1>1. 1 \in 0 .. MaxTerm /\ 0 <= MaxLog
  BY ServiceAssumption
<1>2. /\ term = [s \in Server |-> 1] /\ leads = [s \in Server |-> s = 0] /\ won = 1
      /\ log = [s \in Server |-> <<>>] /\ chosen = <<>> /\ chosenIn = <<>>
  BY DEF Init, ServiceInit
<1>3. RaftTypes
  BY <1>1, <1>2 DEF RaftTypes
<1>4. \A l \in Logs : l = <<>>
  BY <1>2 DEF Logs
<1>5. \A l \in Logs : Len(l) = 0
  BY <1>4
<1>6. \A i \in 1 .. 0 : FALSE
  OBVIOUS
<1>7. Len(chosen) = 0 /\ \A s \in Server : Len(log[s]) = 0
  BY <1>2
<1>8. LeaderTerms
  <2>1. \A s \in Server : term[s] = 1
    BY <1>2
  <2>2. \A s \in Server : leads[s] = (s = 0)
    BY <1>2, Zenon
  <2>3. \A s \in Server : leads[s] => s = 0
    BY <2>2, Zenon
  <2>4. \A s \in Server : term[s] <= won
    BY <1>2, <2>1
  <2> QED BY <2>3, <2>4, Zenon DEF LeaderTerms
<1>9. EntryTerms /\ CommitTerms
  BY <1>5, <1>6, <1>7 DEF EntryTerms, CommitTerms
<1>10. LeaderLog
  BY <1>5, <1>6, <1>7 DEF LeaderLog
<1>11. LeaderComplete
  BY <1>6, <1>7 DEF LeaderComplete, Begins
<1> QED BY <1>3, <1>8, <1>9, <1>10, <1>11 DEF RaftInv

\* What no step of Raft undoes.
Advances ==
    /\ Begins(chosen, chosen') /\ won <= won'
    /\ \A s \in Server : term[s] <= term'[s]

RaftNextInv == RaftTypes' /\ RaftInv' /\ Advances

\* Every log of the next state is the beginning of one there is.
NoNewEntries == \A l \in Logs' : \E m \in Logs : Begins(l, m)

LEMMA OldEntries ==
    ASSUME RaftTypes, RaftInv, RaftTypes', NoNewEntries, won <= won'
    PROVE  /\ EntryTerms'
           /\ \A l \in Logs' : \A i \in 1 .. Len(l) :
                 /\ l[i].term <= won /\ l[i].term \in Nat
                 /\ \E m \in Logs : i \in 1 .. Len(m) /\ m[i] = l[i]
<1>1. ASSUME NEW l \in Logs'
      PROVE  /\ \A i \in 1 .. Len(l) : l[i].term <= won' /\ l[i].term <= won /\ l[i].term \in Nat
             /\ \A i, j \in 1 .. Len(l) : i <= j => l[i].term <= l[j].term
             /\ \A i \in 1 .. Len(l) : \E m \in Logs : i \in 1 .. Len(m) /\ m[i] = l[i]
  <2>1. PICK m \in Logs : Begins(l, m)
    BY DEF NoNewEntries
  <2>2. l \in Seq(Entry) /\ m \in Seq(Entry)
    BY LogsType DEF RaftTypes, Logs
  <2>3. \A i \in 1 .. Len(l) : i \in 1 .. Len(m) /\ l[i] = m[i]
    BY <2>1, <2>2, PrefixTerms
  <2>4. \A i \in 1 .. Len(l) : l[i] \in Entry
    BY <2>2
  <2>5. \A i \in 1 .. Len(l) : l[i].term \in Nat
    BY <2>4, EntryIs, ServiceAssumption
  <2>6. won \in Nat /\ won' \in Nat
    BY ServiceAssumption DEF RaftTypes
  <2>7. /\ \A i \in 1 .. Len(m) : m[i].term <= won
        /\ \A i, j \in 1 .. Len(m) : i <= j => m[i].term <= m[j].term
    BY DEF RaftInv, EntryTerms
  <2>8. \A i, j \in 1 .. Len(l) : i <= j => l[i].term <= l[j].term
    BY <2>3, <2>7
  <2>9. \A i \in 1 .. Len(l) : l[i].term <= won
    BY <2>3, <2>7
  <2>10. \A i \in 1 .. Len(l) : l[i].term <= won'
    BY <2>5, <2>6, <2>9
  <2>11. \A i \in 1 .. Len(l) : \E k \in Logs : i \in 1 .. Len(k) /\ k[i] = l[i]
    BY <2>3
  <2> QED BY <2>5, <2>8, <2>9, <2>10, <2>11
<1> QED BY <1>1 DEF EntryTerms

LEMMA TermsAreNat ==
    RaftTypes => /\ won \in Nat /\ \A s \in Server : term[s] \in Nat
                 /\ Len(chosen) \in Nat /\ \A s \in Server : Len(log[s]) \in Nat
BY ServiceAssumption DEF RaftTypes

LEMMA BeginsItself == \A l : Len(l) \in Nat => Begins(l, l)
BY DEF Begins

LEMMA WinInv ==
    ASSUME RaftTypes, RaftInv, NEW s \in Server, Win(s)
    PROVE  RaftNextInv /\ NoNewEntries
<1>1. PICK t : t = Larger(term[s], won) + 1
  OBVIOUS
<1>2. /\ ~leads[s] /\ t <= MaxTerm
      /\ term' = [term EXCEPT ![s] = t] /\ leads' = [leads EXCEPT ![s] = TRUE] /\ won' = t
      /\ UNCHANGED <<chosen, chosenIn>>
  BY <1>1 DEF Win
<1>3. PICK l \in Electable : Complete(l) /\ log' = [log EXCEPT ![s] = l]
  BY DEF Win
<1>4. /\ l \in Seq(Entry) /\ Begins(chosen, l) /\ Len(l) <= MaxLog
      /\ \E m \in Logs : Begins(l, m)
  BY <1>3, ElectableIs
<1>5. t \in 0 .. MaxTerm /\ t > won /\ t > term[s] /\ t \in Nat
  <2>1. PICK v \in Nat, w \in Nat : v = term[s] /\ w = won
    BY TermsAreNat
  <2>2. t = (IF v > w THEN v ELSE w) + 1
    BY <1>1, <2>1 DEF Larger
  <2> QED BY <1>2, <2>1, <2>2, ServiceAssumption
<1>6. /\ log'[s] = l /\ term'[s] = t /\ \A q \in Server \ {s} : log'[q] = log[q] /\ term'[q] = term[q]
      /\ \A q \in Server \ {s} : leads'[q] = leads[q]
  BY <1>2, <1>3 DEF RaftTypes
<1>7. RaftTypes'
  BY <1>2, <1>3, <1>4, <1>5 DEF RaftTypes
<1>8. \A m \in Logs : Begins(m, m)
  BY LogsType, BeginsItself
<1>9. NoNewEntries
  BY <1>2, <1>4, <1>6, <1>8 DEF NoNewEntries, Logs
<1>10. LeaderTerms'
  BY <1>2, <1>5, <1>6, TermsAreNat DEF RaftInv, LeaderTerms
<1>11. EntryTerms' /\ \A k \in Logs' : \A i \in 1 .. Len(k) :
          /\ k[i].term <= won /\ k[i].term \in Nat
          /\ \E m \in Logs : i \in 1 .. Len(m) /\ m[i] = k[i]
  BY <1>2, <1>5, <1>7, <1>9, TermsAreNat, OldEntries
<1>12. LeaderLog'
  <2> SUFFICES ASSUME NEW q \in Server, leads'[q]
               PROVE  /\ \A i \in 1 .. Len(log'[q]) : log'[q][i].term <= term'[q]
                      /\ \A k \in Logs' : \A i \in 1 .. Len(k) :
                            k[i].term = term'[q] => i <= Len(log'[q])
    BY DEF LeaderLog
  <2>1. CASE q = s
    <3>1. log'[q] \in Logs'
      BY DEF Logs
    <3>2. \A k \in Logs' : \A i \in 1 .. Len(k) : k[i].term < term'[q] /\ k[i].term \in Nat
      BY <1>5, <1>6, <1>11, <2>1, TermsAreNat
    <3>3. PICK z \in Nat : z = term'[q]
      BY <1>5, <1>6, <2>1
    <3>4. \A k \in Logs' : \A i \in 1 .. Len(k) : k[i].term < z /\ k[i].term \in Nat
      BY <3>2, <3>3
    <3>5. \A k \in Logs' : \A i \in 1 .. Len(k) : k[i].term <= z /\ k[i].term # z
      BY <3>4
    <3> QED BY <3>1, <3>3, <3>5
  <2>2. CASE q # s
    BY <1>6, <1>11, <2>2 DEF RaftInv, LeaderLog
  <2> QED BY <2>1, <2>2
<1>13. CommitTerms'
  BY <1>2 DEF RaftInv, CommitTerms
<1>14. LeaderComplete'
  <2> SUFFICES ASSUME NEW q \in Server, Leading(q)' PROVE Begins(chosen, log'[q])
    BY <1>2 DEF LeaderComplete
  <2>1. q = s
    BY <1>2, <1>5, <1>6, TermsAreNat DEF RaftInv, LeaderTerms, Leading
  <2> QED BY <1>4, <1>6, <2>1
<1>15. Advances
  <2>1. Begins(chosen, chosen')
    BY <1>2, TermsAreNat, BeginsItself
  <2>2. \A q \in Server : term[q] <= term'[q]
    BY <1>5, <1>6, TermsAreNat
  <2> QED BY <1>2, <1>5, <2>1, <2>2, TermsAreNat DEF Advances
<1> QED BY <1>7, <1>9, <1>10, <1>11, <1>12, <1>13, <1>14, <1>15 DEF RaftNextInv, RaftInv

\* A replica that stops leading: StepDown, and a crash.
LEMMA DemotedInv ==
    ASSUME RaftTypes, RaftInv, NEW s \in Server, NEW t \in 0 .. MaxTerm, term[s] <= t,
           term' = [term EXCEPT ![s] = t], leads' = [leads EXCEPT ![s] = FALSE],
           UNCHANGED <<log, won, chosen, chosenIn>>
    PROVE  RaftNextInv
<1>1. \A q \in Server : leads'[q] => leads[q] /\ term'[q] = term[q] /\ log'[q] = log[q]
  BY DEF RaftTypes
<1>2. Logs' = Logs
  BY DEF Logs
<1>3. RaftTypes'
  BY DEF RaftTypes
<1>4. LeaderTerms'
  BY <1>1 DEF RaftInv, LeaderTerms
<1>5. EntryTerms' /\ CommitTerms'
  BY <1>2 DEF RaftInv, EntryTerms, CommitTerms
<1>6. LeaderLog'
  BY <1>1, <1>2 DEF RaftInv, LeaderLog
<1>7. LeaderComplete'
  BY <1>1 DEF RaftInv, LeaderComplete, Leading
<1>8. Advances
  <2>1. Begins(chosen, chosen')
    BY TermsAreNat, BeginsItself
  <2>2. \A q \in Server : term'[q] = term[q] \/ (q = s /\ term'[q] = t)
    BY DEF RaftTypes
  <2>3. \A q \in Server : term[q] <= term'[q]
    BY <2>2, TermsAreNat
  <2> QED BY <2>1, <2>3, TermsAreNat DEF Advances
<1> QED BY <1>3, <1>4, <1>5, <1>6, <1>7, <1>8 DEF RaftNextInv, RaftInv

LEMMA CommitInv ==
    ASSUME RaftTypes, RaftInv, NEW s \in Server, Commit(s)
    PROVE  RaftNextInv /\ NoNewEntries
<1>1. PICK n \in Len(chosen) + 1 .. Len(log[s]) :
         /\ chosen' = SubSeq(log[s], 1, n)
         /\ chosenIn' = chosenIn \o [i \in 1 .. n - Len(chosen) |-> term[s]]
  BY DEF Commit
<1>2. /\ Leading(s) /\ leads[s] /\ term[s] = won /\ Begins(chosen, log[s])
      /\ UNCHANGED <<term, leads, log, won>>
  BY DEF Commit, Leading, RaftInv, LeaderComplete
<1>3. PICK k \in Nat, z \in Nat : k = Len(chosen) /\ z = Len(log[s])
  BY TermsAreNat
<1>4. n \in k + 1 .. z /\ n \in 0 .. z /\ n - k \in Nat
  BY <1>3
<1>5. log[s] \in Seq(Entry) /\ z <= MaxLog /\ MaxLog \in Nat
  BY <1>3, ServiceAssumption DEF RaftTypes
<1>6. /\ chosen' \in Seq(Entry) /\ Len(chosen') = n /\ Begins(chosen', log[s])
      /\ \A i \in 1 .. n : chosen'[i] = log[s][i]
  BY <1>1, <1>3, <1>4, <1>5, TypedSubSeq
<1>7. PICK w : w = [i \in 1 .. n - k |-> term[s]]
  OBVIOUS
<1>8. /\ w \in Seq(0 .. MaxTerm) /\ Len(w) = n - k /\ \A i \in 1 .. n - k : w[i] = term[s]
  BY <1>4, <1>7 DEF RaftTypes
<1>9. chosenIn \in Seq(0 .. MaxTerm) /\ Len(chosenIn) = k /\ chosenIn' = chosenIn \o w
  BY <1>1, <1>3, <1>7 DEF RaftTypes
<1>10. chosenIn' \in Seq(0 .. MaxTerm) /\ Len(chosenIn') = n
  <2>1. PICK S : S = 0 .. MaxTerm
    OBVIOUS
  <2>2. chosenIn \in Seq(S) /\ w \in Seq(S)
    BY <1>8, <1>9, <2>1
  <2>3. chosenIn \o w \in Seq(S) /\ Len(chosenIn \o w) = Len(chosenIn) + Len(w)
    BY <2>2, ConcatProperties
  <2>4. k + (n - k) = n
    BY <1>4
  <2> QED BY <1>8, <1>9, <2>1, <2>3, <2>4
<1>11. \A i \in 1 .. n : IF i <= k THEN chosenIn'[i] = chosenIn[i] ELSE chosenIn'[i] = term[s]
  <2> SUFFICES ASSUME NEW i \in 1 .. n
               PROVE  IF i <= k THEN chosenIn'[i] = chosenIn[i] ELSE chosenIn'[i] = term[s]
    OBVIOUS
  <2>1. Len(chosenIn) + Len(w) = n
    BY <1>3, <1>4, <1>8, <1>9
  <2>2. chosenIn'[i] = IF i <= k THEN chosenIn[i] ELSE w[i - k]
    BY <1>8, <1>9, <2>1, ConcatProperties
  <2>3. i > k => i - k \in 1 .. n - k
    BY <1>3, <1>4
  <2> QED BY <1>3, <1>4, <1>8, <2>2, <2>3
<1>12. RaftTypes'
  BY <1>2, <1>3, <1>4, <1>5, <1>6, <1>10 DEF RaftTypes
<1>13. log[s] \in Logs /\ \A m \in Logs : Begins(m, m)
  BY LogsType, BeginsItself DEF Logs
<1>14. NoNewEntries
  BY <1>2, <1>6, <1>13 DEF NoNewEntries, Logs
<1>15. EntryTerms' /\ \A l \in Logs' : \A i \in 1 .. Len(l) :
          \E m \in Logs : i \in 1 .. Len(m) /\ m[i] = l[i]
  BY <1>2, <1>12, <1>14, TermsAreNat, OldEntries
<1>16. LeaderTerms'
  BY <1>2 DEF RaftInv, LeaderTerms
<1>17. LeaderLog'
  BY <1>2, <1>15 DEF RaftInv, LeaderLog
<1>18. CommitTerms'
  <2> SUFFICES ASSUME NEW i \in 1 .. n PROVE chosen'[i].term <= chosenIn'[i]
    BY <1>6 DEF CommitTerms
  <2>1. CASE i <= k
    <3>1. i \in 1 .. k /\ chosen'[i] = chosen[i]
      BY <1>2, <1>3, <1>4, <1>6, <2>1 DEF Begins
    <3> QED BY <1>3, <1>11, <2>1, <3>1 DEF RaftInv, CommitTerms
  <2>2. CASE ~(i <= k)
    <3>1. i \in 1 .. z /\ chosen'[i] = log[s][i]
      BY <1>4, <1>6
    <3>2. log[s][i].term <= term[s]
      BY <1>2, <1>3, <3>1 DEF RaftInv, LeaderLog
    <3> QED BY <1>11, <2>2, <3>1, <3>2
  <2> QED BY <2>1, <2>2
<1>19. LeaderComplete'
  <2> SUFFICES ASSUME NEW q \in Server, Leading(q) PROVE Begins(chosen', log[q])
    BY <1>2 DEF LeaderComplete, Leading
  <2>1. q = s
    BY <1>2 DEF Leading, RaftInv, LeaderTerms
  <2> QED BY <1>6, <2>1
<1>20. Advances
  <2>1. Begins(chosen, chosen')
    <3>1. \A i \in 1 .. k : i \in 1 .. n /\ chosen[i] = log[s][i]
      BY <1>2, <1>3, <1>4 DEF Begins
    <3> QED BY <1>3, <1>4, <1>6, <3>1 DEF Begins
  <2> QED BY <1>2, <2>1, TermsAreNat DEF Advances
<1> QED BY <1>12, <1>14, <1>15, <1>16, <1>17, <1>18, <1>19, <1>20 DEF RaftNextInv, RaftInv

\* A log of the next state is an old one, or the proposer's with its new entry.
LEMMA ProposesLogs ==
    ASSUME RaftTypes, NEW s \in Server, NEW op, Proposes(s, op),
           NEW e, e = [term |-> term[s], op |-> op]
    PROVE  /\ e \in Entry /\ log'[s] \in Seq(Entry) /\ Len(log'[s]) = Len(log[s]) + 1
           /\ \A i \in 1 .. Len(log[s]) : log'[s][i] = log[s][i]
           /\ log'[s][Len(log[s]) + 1] = e
           /\ \A q \in Server \ {s} : log'[q] = log[q]
           /\ \A l \in Logs' : l \in Logs \/ l = log'[s]
           /\ \A l \in Logs' : \A i \in 1 .. Len(l) :
                 (\E m \in Logs : i \in 1 .. Len(m) /\ m[i] = l[i]) \/ (l = log'[s] /\ i = Len(l))
<1>1. /\ leads[s] /\ Len(log[s]) < MaxLog /\ op \in Op \cup {NoopOp}
      /\ log' = [log EXCEPT ![s] = Append(log[s], e)] /\ chosen' = chosen
  BY DEF Proposes
<1>2. e \in Entry
  BY <1>1 DEF RaftTypes, Entry
<1>3. log[s] \in Seq(Entry)
  BY DEF RaftTypes
<1>4. /\ log'[s] = Append(log[s], e) /\ \A q \in Server \ {s} : log'[q] = log[q]
  BY <1>1 DEF RaftTypes
<1>5. /\ log'[s] \in Seq(Entry) /\ Len(log'[s]) = Len(log[s]) + 1
      /\ \A i \in 1 .. Len(log[s]) : log'[s][i] = log[s][i]
      /\ log'[s][Len(log[s]) + 1] = e
  BY <1>2, <1>3, <1>4, TypedAppend
<1>6. \A l \in Logs' : l \in Logs \/ l = log'[s]
  BY <1>1, <1>4 DEF Logs
<1>7. ASSUME NEW l \in Logs', NEW i \in 1 .. Len(l)
      PROVE  (\E m \in Logs : i \in 1 .. Len(m) /\ m[i] = l[i]) \/ (l = log'[s] /\ i = Len(l))
  <2>1. CASE l \in Logs
    BY <2>1
  <2>2. CASE l = log'[s]
    <3>1. PICK z \in Nat : z = Len(log[s])
      BY TermsAreNat
    <3>2. i \in 1 .. z \/ i = z + 1
      BY <1>5, <2>2, <3>1
    <3>3. log[s] \in Logs
      BY DEF Logs
    <3> QED BY <1>5, <2>2, <3>1, <3>2, <3>3
  <2> QED BY <1>6, <2>1, <2>2
<1> QED BY <1>2, <1>4, <1>5, <1>6, <1>7

LEMMA ProposesInv ==
    ASSUME RaftTypes, RaftInv, NEW s \in Server, NEW op, Proposes(s, op)
    PROVE  RaftNextInv
<1>1. PICK e : e = [term |-> term[s], op |-> op]
  OBVIOUS
<1>2. /\ e \in Entry /\ log'[s] \in Seq(Entry) /\ Len(log'[s]) = Len(log[s]) + 1
      /\ \A i \in 1 .. Len(log[s]) : log'[s][i] = log[s][i]
      /\ log'[s][Len(log[s]) + 1] = e
      /\ \A q \in Server \ {s} : log'[q] = log[q]
      /\ \A l \in Logs' : l \in Logs \/ l = log'[s]
      /\ \A l \in Logs' : \A i \in 1 .. Len(l) :
            (\E m \in Logs : i \in 1 .. Len(m) /\ m[i] = l[i]) \/ (l = log'[s] /\ i = Len(l))
  BY <1>1, ProposesLogs
<1>3. /\ leads[s] /\ Len(log[s]) < MaxLog
      /\ UNCHANGED <<term, leads, won, chosen, chosenIn>>
  BY DEF Proposes
<1>4. PICK z \in Nat, t \in Nat, w \in Nat : z = Len(log[s]) /\ t = term[s] /\ w = won
  BY TermsAreNat
<1>5. e.term = t /\ t <= w
  BY <1>1, <1>3, <1>4 DEF RaftInv, LeaderTerms
<1>6. \A i \in 1 .. z + 1 : i \in 1 .. z \/ i = z + 1
  OBVIOUS
<1>7. \A i \in 1 .. z : log[s][i] \in Entry /\ log[s][i].term \in Nat /\ log[s][i].term <= t
  <2>1. \A i \in 1 .. z : log[s][i] \in Entry
    BY <1>4 DEF RaftTypes
  <2> QED BY <1>3, <1>4, <2>1, EntryIs, ServiceAssumption DEF RaftInv, LeaderLog
<1>8. RaftTypes'
  <2>1. log' \in [Server -> Seq(Entry)]
    <3>1. log' = [log EXCEPT ![s] = Append(log[s], e)]
      BY <1>1 DEF Proposes
    <3>2. log'[s] = Append(log[s], e)
      BY <3>1 DEF RaftTypes
    <3> QED BY <1>2, <3>1, <3>2 DEF RaftTypes
  <2>2. \A q \in Server : Len(log'[q]) <= MaxLog
    <3>1. Len(log'[s]) <= MaxLog
      <4>1. PICK x \in Nat : x = MaxLog
        BY ServiceAssumption
      <4>2. Len(log'[s]) = z + 1 /\ z < x
        BY <1>2, <1>3, <1>4, <4>1
      <4> QED BY <4>1, <4>2
    <3>2. \A q \in Server \ {s} : Len(log'[q]) <= MaxLog
      BY <1>2 DEF RaftTypes
    <3> QED BY <3>1, <3>2
  <2> QED BY <1>3, <2>1, <2>2 DEF RaftTypes
<1>9. LeaderTerms' /\ CommitTerms'
  BY <1>3 DEF RaftInv, LeaderTerms, CommitTerms
<1>10. \A i \in 1 .. z + 1 : log'[s][i].term \in Nat /\ log'[s][i].term <= t
  <2>1. log'[s][z + 1].term = t /\ \A i \in 1 .. z : log'[s][i] = log[s][i]
    BY <1>2, <1>4, <1>5
  <2> QED BY <1>6, <1>7, <2>1
<1>11. \A i, j \in 1 .. z + 1 : i <= j => log'[s][i].term <= log'[s][j].term
  <2> SUFFICES ASSUME NEW i \in 1 .. z + 1, NEW j \in 1 .. z + 1, i <= j
               PROVE  log'[s][i].term <= log'[s][j].term
    OBVIOUS
  <2>1. CASE j = z + 1
    BY <1>2, <1>4, <1>5, <1>10, <2>1
  <2>2. CASE j \in 1 .. z
    <3>1. i \in 1 .. z
      BY <2>2
    <3>2. log[s][i].term <= log[s][j].term
      BY <1>4, <2>2, <3>1 DEF RaftInv, EntryTerms, Logs
    <3> QED BY <1>2, <1>4, <2>2, <3>1, <3>2
  <2> QED BY <1>6, <2>1, <2>2
<1>12. EntryTerms'
  <2> SUFFICES ASSUME NEW l \in Logs'
               PROVE  /\ \A i \in 1 .. Len(l) : l[i].term <= won'
                      /\ \A i, j \in 1 .. Len(l) : i <= j => l[i].term <= l[j].term
    BY DEF EntryTerms
  <2>1. CASE l \in Logs
    BY <1>3, <2>1 DEF RaftInv, EntryTerms
  <2>2. CASE l = log'[s]
    <3>1. \A i \in 1 .. z + 1 : log'[s][i].term <= w
      BY <1>5, <1>10
    <3> QED BY <1>2, <1>3, <1>4, <1>11, <2>2, <3>1
  <2> QED BY <1>2, <2>1, <2>2
<1>13. LeaderLog'
  <2> SUFFICES ASSUME NEW q \in Server, leads[q]
               PROVE  /\ \A i \in 1 .. Len(log'[q]) : log'[q][i].term <= term[q]
                      /\ \A l \in Logs' : \A i \in 1 .. Len(l) :
                            l[i].term = term[q] => i <= Len(log'[q])
    BY <1>3 DEF LeaderLog
  <2>1. CASE q = s
    <3>1. \A l \in Logs' : \A i \in 1 .. Len(l) : l[i].term = t => i <= z + 1
      <4> SUFFICES ASSUME NEW l \in Logs', NEW i \in 1 .. Len(l), l[i].term = t PROVE i <= z + 1
        OBVIOUS
      <4>1. CASE l = log'[s]
        BY <1>2, <1>4, <4>1
      <4>2. CASE l \in Logs
        <5>1. i <= z
          BY <1>3, <1>4, <4>2 DEF RaftInv, LeaderLog
        <5>2. i \in Nat
          BY <4>2, LogsType
        <5> QED BY <5>1, <5>2
      <4> QED BY <1>2, <4>1, <4>2
    <3> QED BY <1>2, <1>4, <1>10, <2>1, <3>1
  <2>2. CASE q # s
    <3>1. log'[q] = log[q] /\ term[q] # t
      BY <1>2, <1>3, <1>4, <2>2 DEF RaftInv, LeaderTerms
    <3>2. \A l \in Logs' : \A i \in 1 .. Len(l) : l[i].term = term[q] => i <= Len(log[q])
      <4> SUFFICES ASSUME NEW l \in Logs', NEW i \in 1 .. Len(l), l[i].term = term[q]
                   PROVE  i <= Len(log[q])
        OBVIOUS
      <4>1. l[i] # e
        BY <1>5, <3>1
      <4>2. \E m \in Logs : i \in 1 .. Len(m) /\ m[i] = l[i]
        BY <1>2, <4>1
      <4> QED BY <4>2 DEF RaftInv, LeaderLog
    <3> QED BY <3>1, <3>2 DEF RaftInv, LeaderLog
  <2> QED BY <2>1, <2>2
<1>14. LeaderComplete'
  <2> SUFFICES ASSUME NEW q \in Server, Leading(q) PROVE Begins(chosen, log'[q])
    BY <1>3 DEF LeaderComplete, Leading
  <2>1. Begins(chosen, log[q])
    BY DEF RaftInv, LeaderComplete
  <2>2. CASE q = s
    <3>1. PICK k \in Nat : k = Len(chosen)
      BY TermsAreNat
    <3>2. k <= z /\ \A i \in 1 .. k : i \in 1 .. z /\ chosen[i] = log[s][i]
      BY <1>4, <2>1, <2>2, <3>1 DEF Begins
    <3> QED BY <1>2, <1>4, <2>2, <3>1, <3>2 DEF Begins
  <2>3. CASE q # s
    BY <1>2, <2>1, <2>3
  <2> QED BY <2>2, <2>3
<1>15. Advances
  BY <1>3, TermsAreNat, BeginsItself DEF Advances
<1> QED BY <1>8, <1>9, <1>12, <1>13, <1>14, <1>15 DEF RaftNextInv, RaftInv

LEMMA RaftKeeps ==
    ASSUME RaftTypes, RaftInv, RaftStep
    PROVE  RaftNextInv
<1>1. CASE UNCHANGED raftVars
  <2>1. Logs' = Logs /\ UNCHANGED <<term, leads, log, won, chosen, chosenIn>>
    BY <1>1 DEF raftVars, Logs
  <2>2. RaftTypes' /\ RaftInv'
    BY <2>1 DEF RaftTypes, RaftInv, LeaderTerms, EntryTerms, LeaderLog, CommitTerms,
       LeaderComplete, Leading
  <2>3. Advances
    BY <2>1, TermsAreNat, BeginsItself DEF Advances
  <2> QED BY <2>2, <2>3 DEF RaftNextInv
<1>2. ASSUME NEW s \in Server, StepDown(s) PROVE RaftNextInv
  <2>1. PICK t \in term[s] + 1 .. won + 1 :
           (t = won + 1 => t < MaxTerm) /\ term' = [term EXCEPT ![s] = t]
    BY <1>2 DEF StepDown
  <2>2. PICK a \in Nat, w \in Nat : a = term[s] /\ w = won /\ w <= MaxTerm
    BY TermsAreNat, ServiceAssumption DEF RaftTypes
  <2>3. t \in 0 .. MaxTerm /\ term[s] <= t
    BY <2>1, <2>2, ServiceAssumption
  <2> QED BY <1>2, <2>1, <2>3, DemotedInv DEF StepDown
<1>3. ASSUME NEW s \in Server, Loses(s) PROVE RaftNextInv
  <2>1. term[s] \in 0 .. MaxTerm /\ term[s] <= term[s] /\ term' = [term EXCEPT ![s] = term[s]]
    BY <1>3, TermsAreNat DEF RaftTypes, Loses
  <2> QED BY <1>3, <2>1, DemotedInv DEF Loses
<1> QED BY <1>1, <1>2, <1>3, WinInv, CommitInv, ProposesInv DEF RaftStep

(***************************************************************************)
(* Types of the loops, clerks and stores.                                  *)
(***************************************************************************)
LEMMA ServerIs ==
    /\ \A s \in Server : (s + 1) % NumServers \in Server
    /\ 0 \in Server
BY ServiceAssumption DEF Server

LEMMA ChansAre == \A f : f \in Chans <=> DOMAIN f \in SUBSET Nat /\ f \in [DOMAIN f -> Clerk]
BY DEF Chans

LEMMA NoChans == <<>> \in Chans
<1>1. <<>> \in Seq(Clerk) /\ Len(<<>>) = 0
  OBVIOUS
<1>2. PICK q \in Seq(Clerk) : q = <<>> /\ Len(q) = 0
  BY <1>1
<1>3. q \in [1 .. 0 -> Clerk] /\ 1 .. 0 \in SUBSET Nat
  BY <1>2
<1> QED BY <1>2, <1>3 DEF Chans

LEMMA WithoutType == \A f \in Chans : \A i : Without(f, i) \in Chans
<1> SUFFICES ASSUME NEW f \in Chans, NEW i PROVE Without(f, i) \in Chans
  OBVIOUS
<1>1. DOMAIN f \in SUBSET Nat /\ f \in [DOMAIN f -> Clerk]
  BY ChansAre
<1>2. Without(f, i) \in [DOMAIN f \ {i} -> Clerk]
  BY <1>1 DEF Without
<1>3. DOMAIN f \ {i} \in SUBSET Nat
  BY <1>1
<1> QED BY <1>2, <1>3 DEF Chans

LEMMA CallFields ==
    \A x \in Call : /\ x.pc \in {"idle"} \cup Writing \cup Reading
                    /\ x.op \in Op \cup {Nil} /\ x.index \in Nat /\ x.term \in Nat
BY DEF Call

LEMMA RestartedIs ==
    ASSUME ClerkTypes, NEW c \in Clerk
    PROVE  /\ Restarted(c) \in Call /\ Restarted(c).op = call[c].op
           /\ Restarted(c).pc = First(call[c].pc) /\ Restarted(c).pc \in {"propose", "read"}
<1>1. call[c] \in Call
  BY DEF ClerkTypes
<1>2. First(call[c].pc) \in {"propose", "read"}
  BY DEF First
<1>3. PICK p \in {"propose", "read"} : p = First(call[c].pc)
  BY <1>2
<1>4. Restarted(c) = [call[c] EXCEPT !.pc = p, !.index = 0, !.term = 0]
  BY <1>3 DEF Restarted
<1>5. p \in {"idle"} \cup Writing \cup Reading
  BY DEF Writing, Reading
<1>6. PICK P, O : P = {"idle"} \cup Writing \cup Reading /\ O = Op \cup {Nil}
  OBVIOUS
<1>7. Call = [pc : P, op : O, index : Nat, term : Nat] /\ p \in P
  BY <1>5, <1>6 DEF Call
<1>8. Restarted(c) = [pc |-> p, op |-> call[c].op, index |-> 0, term |-> 0]
  BY <1>1, <1>4, <1>7
<1>9. call[c].op \in O
  BY <1>1, <1>7
<1>10. Restarted(c) \in [pc : P, op : O, index : Nat, term : Nat]
  BY <1>7, <1>8, <1>9
<1> QED BY <1>3, <1>7, <1>8, <1>10

RestTypes == LoopTypes /\ ClerkTypes /\ StoreTypes

\* A step that changes at most the calls, to other calls, keeps the types.
LEMMA CallType ==
    ASSUME ClerkTypes, NEW c \in Clerk, NEW x \in Call, call' = [call EXCEPT ![c] = x],
           lastKnown' \in [Clerk -> Server], UNCHANGED <<acked, floor, calls, got>>
    PROVE  ClerkTypes'
BY DEF ClerkTypes

LEMMA RefusedType ==
    ASSUME ClerkTypes, NEW c \in Clerk, Refused(c), UNCHANGED <<calls, got>>
    PROVE  ClerkTypes'
<1>1. Restarted(c) \in Call
  BY RestartedIs
<1>2. lastKnown' \in [Clerk -> Server]
  BY ServerIs DEF Refused, NextServer, ClerkTypes
<1> QED BY <1>1, <1>2, CallType DEF Refused

LEMMA deleteChanType ==
    ASSUME LoopTypes, ClerkTypes, NEW c \in Clerk, deleteChan(c), UNCHANGED lastNoopTerm
    PROVE  LoopTypes'
<1>1. lastKnown[c] \in Server
  BY DEF ClerkTypes
<1>2. Without(notifyChans[lastKnown[c]], call[c].index) \in Chans
  BY <1>1, WithoutType DEF LoopTypes
<1>3. notifyChans' \in [Server -> Chans]
  BY <1>1, <1>2 DEF LoopTypes, deleteChan
<1>4. ch' \in [Clerk -> Msg]
  BY DEF LoopTypes, deleteChan, Msg
<1> QED BY <1>3, <1>4 DEF LoopTypes, deleteChan

LEMMA StepToType ==
    ASSUME ClerkTypes, NEW c \in Clerk, NEW p \in {"idle"} \cup Writing \cup Reading, StepTo(c, p)
    PROVE  \E x \in Call : /\ x.pc = p /\ x.op = call[c].op
                           /\ x.index = call[c].index /\ x.term = call[c].term
                           /\ call' = [call EXCEPT ![c] = x]
<1>1. call[c] \in Call
  BY DEF ClerkTypes
<1>2. PICK x : x = [call[c] EXCEPT !.pc = p]
  OBVIOUS
<1>3. /\ x \in Call /\ x.pc = p /\ x.op = call[c].op
      /\ x.index = call[c].index /\ x.term = call[c].term
  BY <1>1, <1>2 DEF Call
<1>4. call' = [call EXCEPT ![c] = x]
  BY <1>2 DEF StepTo, ClerkTypes
<1> QED BY <1>3, <1>4

LEMMA DoneType ==
    ASSUME ClerkTypes, NEW c \in Clerk, Done(c)
    PROVE  \E x \in Call : /\ x.pc = "idle" /\ x.op = call[c].op
                           /\ call' = [call EXCEPT ![c] = x]
<1>1. call[c] \in Call
  BY DEF ClerkTypes
<1>2. PICK x : x = [call[c] EXCEPT !.pc = "idle", !.index = 0, !.term = 0]
  OBVIOUS
<1>3. x \in Call /\ x.pc = "idle" /\ x.op = call[c].op
  BY <1>1, <1>2 DEF Call
<1>4. call' = [call EXCEPT ![c] = x]
  BY <1>2 DEF Done, ClerkTypes
<1> QED BY <1>3, <1>4

\* The replica is a leader and takes the request.
Taken(c) ==
    /\ leads[lastKnown[c]] /\ Propose(lastKnown[c], call[c].op)
    /\ call' = [call EXCEPT ![c].pc = "register", ![c].index = Len(log'[lastKnown[c]]),
                            ![c].term = term[lastKnown[c]]]
    /\ UNCHANGED <<lastKnown, acked, floor>>

LEMMA proposeCallCases ==
    \A c \in Clerk : proposeCall(c) => /\ call[c].pc = "propose"
                                       /\ Taken(c) \/ (Refused(c) /\ UNCHANGED raftVars)
BY DEF proposeCall, Taken

\* A proposal remembers where it was made.
LEMMA proposeCallIs ==
    ASSUME TypeInv, NEW c \in Clerk, Taken(c)
    PROVE  \E x \in Call : /\ call' = [call EXCEPT ![c] = x] /\ x.op = call[c].op
                           /\ x.pc = "register" /\ x.index = Len(log[lastKnown[c]]) + 1
                           /\ x.term = term[lastKnown[c]]
<1>1. PICK s \in Server : s = lastKnown[c]
  BY DEF TypeInv, ClerkTypes
<1>2. PICK n, t : n = Len(log'[s]) /\ t = term[s]
  OBVIOUS
<1>3. n = Len(log[s]) + 1 /\ n \in Nat /\ t \in Nat
  <2>1. log'[s] = Append(log[s], [term |-> term[s], op |-> call[c].op])
    BY <1>1 DEF Taken, Propose, TypeInv, RaftTypes
  <2>2. Len(log'[s]) = Len(log[s]) + 1
    BY <2>1 DEF TypeInv, RaftTypes
  <2> QED BY <1>2, <2>2, TermsAreNat DEF TypeInv
<1>4. call[c] \in Call
  BY DEF TypeInv, ClerkTypes
<1>5. PICK x : x = [call[c] EXCEPT !.pc = "register", !.index = n, !.term = t]
  OBVIOUS
<1>6. x \in Call /\ x.pc = "register" /\ x.index = n /\ x.term = t /\ x.op = call[c].op
  BY <1>3, <1>4, <1>5 DEF Call, Writing
<1>7. call' = [call EXCEPT ![c] = x]
  BY <1>1, <1>2, <1>4, <1>5 DEF Taken, TypeInv, ClerkTypes
<1> QED BY <1>1, <1>2, <1>3, <1>6, <1>7

LEMMA readTermIs ==
    ASSUME TypeInv, NEW c \in Clerk, readTerm(c)
    PROVE  \E x \in Call : /\ call' = [call EXCEPT ![c] = x] /\ x.op = call[c].op
                           /\ x.pc = "readNoop" /\ x.term = term[lastKnown[c]]
<1>1. PICK t \in Nat : t = term[lastKnown[c]]
  BY TermsAreNat DEF TypeInv, ClerkTypes
<1>2. call[c] \in Call
  BY DEF TypeInv, ClerkTypes
<1>3. PICK x : x = [call[c] EXCEPT !.pc = "readNoop", !.term = t]
  OBVIOUS
<1>4. x \in Call /\ x.pc = "readNoop" /\ x.term = t /\ x.op = call[c].op
  BY <1>1, <1>2, <1>3 DEF Call, Reading
<1>5. call' = [call EXCEPT ![c] = x]
  BY <1>1, <1>3 DEF readTerm, TypeInv, ClerkTypes
<1> QED BY <1>1, <1>4, <1>5

LEMMA ServiceTypes ==
    ASSUME TypeInv, ServiceNext, UNCHANGED kvVars
    PROVE  RestTypes'
<1> USE DEF TypeInv, RestTypes
<1>0. StoreTypes' /\ UNCHANGED <<calls, got>>
  BY DEF kvVars, StoreTypes
<1>1. CASE RaftNext
  BY <1>0, <1>1 DEF RaftNext, Win, StepDown, Commit, loopVars, clerkVars, LoopTypes, ClerkTypes
<1>2. ASSUME NEW s \in Server, noopLoop(s) PROVE RestTypes'
  <2>1. lastNoopTerm' \in [Server -> Nat]
    <3>1. term[s] \in Nat
      BY TermsAreNat
    <3> QED BY <1>2, <3>1 DEF noopLoop, LoopTypes
  <2> QED BY <1>0, <1>2, <2>1 DEF noopLoop, loopVars, clerkVars, LoopTypes, ClerkTypes
<1>3. ASSUME NEW c \in Clerk, proposeCall(c) PROVE RestTypes'
  <2>1. LoopTypes'
    BY <1>3 DEF proposeCall, loopVars, LoopTypes
  <2>2. CASE Refused(c)
    BY <1>0, <2>1, <2>2, RefusedType
  <2>3. CASE Taken(c)
    <3>1. PICK x \in Call : call' = [call EXCEPT ![c] = x]
      BY <2>3, proposeCallIs
    <3>2. UNCHANGED <<lastKnown, acked, floor>> /\ lastKnown' \in [Clerk -> Server] /\ ClerkTypes
      BY <2>3 DEF Taken, ClerkTypes
    <3>3. ClerkTypes'
      BY <1>0, <3>1, <3>2, CallType
    <3> QED BY <1>0, <2>1, <3>3
  <2> QED BY <1>3, <2>2, <2>3, proposeCallCases
<1>4. ASSUME NEW c \in Clerk, registerCall(c) PROVE RestTypes'
  <2>1. PICK s \in Server, n \in Nat : s = lastKnown[c] /\ n = call[c].index
    BY CallFields DEF ClerkTypes
  <2>2. PICK f \in Chans : f = notifyChans[s]
    BY DEF LoopTypes
  <2>3. PICK h : h = [i \in DOMAIN f \cup {n} |-> IF i = n THEN c ELSE f[i]]
    OBVIOUS
  <2>4. h \in [DOMAIN f \cup {n} -> Clerk] /\ DOMAIN f \cup {n} \in SUBSET Nat
    BY <2>2, <2>3, ChansAre
  <2>5. h \in Chans
    BY <2>4 DEF Chans
  <2>6. notifyChans' = [notifyChans EXCEPT ![s] = h]
    BY <1>4, <2>1, <2>2, <2>3 DEF registerCall, LoopTypes
  <2>7. LoopTypes'
    BY <1>4, <2>5, <2>6 DEF registerCall, LoopTypes
  <2>8. ClerkTypes'
    <3>1. "wait" \in {"idle"} \cup Writing \cup Reading
      BY DEF Writing
    <3>2. PICK x \in Call : call' = [call EXCEPT ![c] = x]
      BY <1>4, <3>1, StepToType DEF registerCall
    <3> QED BY <1>0, <1>4, <3>2 DEF registerCall, ClerkTypes
  <2> QED BY <1>0, <2>7, <2>8
<1>5. ASSUME NEW c \in Clerk, notified(c) PROVE RestTypes'
  <2>1. LoopTypes'
    BY <1>5, deleteChanType DEF notified
  <2>2. CASE Refused(c)
    BY <1>0, <2>1, <2>2, RefusedType
  <2>3. CASE /\ Done(c)
             /\ acked' = IF OwnEntry(c) THEN Larger(acked, call[c].index) ELSE acked
             /\ UNCHANGED <<lastKnown, floor>>
    <3>1. acked' \in Nat
      <4>1. call[c].index \in Nat /\ acked \in Nat
        BY CallFields DEF ClerkTypes
      <4> QED BY <2>3, <4>1 DEF Larger
    <3>2. PICK x \in Call : call' = [call EXCEPT ![c] = x]
      <4>1. ClerkTypes /\ Done(c)
        BY <2>3
      <4> QED BY <4>1, DoneType
    <3>3. call' \in [Clerk -> Call]
      BY <3>2 DEF ClerkTypes
    <3>4. UNCHANGED <<lastKnown, floor>>
      BY <2>3
    <3>5. ClerkTypes'
      BY <1>0, <3>1, <3>3, <3>4 DEF ClerkTypes
    <3> QED BY <1>0, <2>1, <3>5
  <2> QED BY <1>5, <2>2, <2>3 DEF notified
<1>6. ASSUME NEW c \in Clerk, deadline(c) \/ leaderCheck(c) PROVE RestTypes'
  BY <1>0, <1>6, RefusedType, deleteChanType DEF deadline, leaderCheck
<1>7. ASSUME NEW c \in Clerk, readState(c) PROVE RestTypes'
  <2>1. LoopTypes'
    BY <1>7 DEF readState, loopVars, LoopTypes
  <2>2. CASE Refused(c)
    BY <1>0, <2>1, <2>2, RefusedType
  <2>3. CASE /\ StepTo(c, "readTerm")
             /\ floor' = [floor EXCEPT ![c] = IF Leading(lastKnown[c]) THEN acked ELSE 0]
             /\ UNCHANGED <<lastKnown, acked>>
    <3>1. "readTerm" \in {"idle"} \cup Writing \cup Reading
      BY DEF Reading
    <3>2. PICK x \in Call : call' = [call EXCEPT ![c] = x]
      BY <2>3, <3>1, StepToType
    <3>3. floor' \in [Clerk -> Nat]
      BY <2>3 DEF ClerkTypes
    <3> QED BY <1>0, <2>1, <2>3, <3>2, <3>3 DEF ClerkTypes
  <2> QED BY <1>7, <2>2, <2>3 DEF readState
<1>8. ASSUME NEW c \in Clerk, readTerm(c) PROVE RestTypes'
  <2>1. PICK x \in Call : call' = [call EXCEPT ![c] = x]
    BY <1>8, readTermIs
  <2>2. /\ UNCHANGED <<lastKnown, acked, floor, lastNoopTerm>> /\ UNCHANGED loopVars
        /\ lastKnown' \in [Clerk -> Server] /\ ClerkTypes
    BY <1>8 DEF readTerm, ClerkTypes
  <2>3. ClerkTypes'
    BY <1>0, <2>1, <2>2, CallType
  <2>4. LoopTypes'
    BY <2>2 DEF loopVars, LoopTypes
  <2> QED BY <1>0, <2>3, <2>4
<1> QED BY <1>1, <1>2, <1>3, <1>4, <1>5, <1>6, <1>7, <1>8 DEF ServiceNext, Handler

\* What applyLoop does to the loops' variables.
LEMMA DeliverIs ==
    ASSUME RaftTypes, LoopTypes, NEW s \in Server, NEW r, Deliver(s, r), r \in [op : Op \cup {NoopOp}]
    PROVE  /\ applied[s] + 1 <= Len(chosen) /\ chosen[applied[s] + 1] \in Entry
           /\ applied[s] + 1 \in 1 .. Len(chosen)
           /\ applied'[s] = applied[s] + 1 /\ \A q \in Server \ {s} : applied'[q] = applied[q]
           /\ LoopTypes' /\ UNCHANGED <<raftVars, clerkVars>>
<1>1. PICK i \in Nat, k \in Nat : i = applied[s] + 1 /\ k = Len(chosen) /\ i <= k /\ i > 0
  BY TermsAreNat DEF LoopTypes, Deliver
<1>2. chosen[i] \in Entry /\ i \in 1 .. k
  BY <1>1 DEF RaftTypes
<1>3. applied' = [applied EXCEPT ![s] = i]
  BY <1>1 DEF Deliver
<1>4. noopAppliedTerm' \in [Server -> Nat]
  <2>1. chosen[i].term \in Nat
    BY <1>2, EntryIs, ServiceAssumption
  <2> QED BY <1>1, <2>1 DEF Deliver, LoopTypes
<1>5. ch' \in [Clerk -> Msg] /\ notifyChans' \in [Server -> Chans]
  <2>1. PICK f \in Chans : f = notifyChans[s]
    BY DEF LoopTypes
  <2>2. CASE i \in DOMAIN f
    <3>1. /\ ch' = [ch EXCEPT ![f[i]] = r]
          /\ notifyChans' = [notifyChans EXCEPT ![s] = Without(f, i)]
      BY <1>1, <2>1, <2>2 DEF Deliver, LoopTypes
    <3>2. r \in Msg /\ Without(f, i) \in Chans
      BY WithoutType DEF Msg
    <3> QED BY <3>1, <3>2 DEF LoopTypes
  <2>3. CASE i \notin DOMAIN f
    BY <1>1, <2>1, <2>3 DEF Deliver, LoopTypes
  <2> QED BY <2>2, <2>3
<1>6. LoopTypes'
  BY <1>3, <1>4, <1>5 DEF LoopTypes, Deliver
<1> QED BY <1>1, <1>2, <1>3, <1>6 DEF Deliver, LoopTypes

\* ... and to the store: an operation newer than the table's is applied.
LEMMA applyLoopIs ==
    ASSUME RaftTypes, LoopTypes, StoreTypes, NEW s \in Server, applyLoop(s),
           NEW o, o = chosen[applied[s] + 1].op
    PROVE  /\ Deliver(s, [op |-> o]) /\ [op |-> o] \in [op : Op \cup {NoopOp}]
           /\ o \in Op \cup {NoopOp} /\ UNCHANGED <<calls, got>>
           /\ Fresh(duplicateTable[s], o)
                 => /\ o \in Op /\ o.seq > duplicateTable[s][o.clerk]
                    /\ store'[s] = Execute(store[s], o)
                    /\ duplicateTable'[s] = [duplicateTable[s] EXCEPT ![o.clerk] = o.seq]
           /\ ~Fresh(duplicateTable[s], o)
                 => store'[s] = store[s] /\ duplicateTable'[s] = duplicateTable[s]
           /\ \A q \in Server \ {s} :
                 store'[q] = store[q] /\ duplicateTable'[q] = duplicateTable[q]
           /\ store' \in [Server -> Seq(Op)] /\ duplicateTable' \in [Server -> Dups]
           /\ \/ snapshot' = snapshot
              \/ snapshot' = [snapshot EXCEPT ![s] = [index |-> applied[s] + 1,
                                 store |-> store'[s], dup |-> duplicateTable'[s]]]
<1>1. Deliver(s, [op |-> o]) /\ UNCHANGED <<calls, got>>
  BY DEF applyLoop
<1>2. o \in Op \cup {NoopOp}
  <2>1. applied[s] + 1 \in 1 .. Len(chosen)
    BY <1>1, TermsAreNat DEF LoopTypes, Deliver
  <2> QED BY <2>1, EntryIs DEF RaftTypes
<1>3. snapshot' = snapshot \/ snapshotLocked(s, applied[s] + 1)
  BY DEF applyLoop
<1>4. CASE Fresh(duplicateTable[s], o)
  <2>1. /\ store' = [store EXCEPT ![s] = Execute(store[s], o)]
        /\ duplicateTable' = [duplicateTable EXCEPT ![s][o.clerk] = o.seq]
    BY <1>4 DEF applyLoop, StoreTypes
  <2>2. o \in Op /\ o.seq > duplicateTable[s][o.clerk]
    BY <1>2, <1>4 DEF Fresh
  <2>3. o.clerk \in Clerk /\ o.seq \in 0 .. MaxCalls
    BY <2>2, KVAssumption DEF Op
  <2>4. PICK d \in Dups : d = duplicateTable[s]
    BY DEF StoreTypes
  <2>5. [d EXCEPT ![o.clerk] = o.seq] \in Dups
    BY <2>3 DEF Dups
  <2>6. duplicateTable' = [duplicateTable EXCEPT ![s] = [d EXCEPT ![o.clerk] = o.seq]]
    BY <2>1, <2>4 DEF StoreTypes
  <2>7. Execute(store[s], o) \in Seq(Op)
    BY <2>2, ExecuteType DEF StoreTypes
  <2> QED BY <1>1, <1>2, <1>3, <1>4, <2>1, <2>2, <2>4, <2>5, <2>6, <2>7 DEF StoreTypes, snapshotLocked
<1>5. CASE ~Fresh(duplicateTable[s], o)
  BY <1>1, <1>2, <1>3, <1>5 DEF applyLoop, StoreTypes, snapshotLocked
<1> QED BY <1>4, <1>5

LEMMA applyLoopTypes ==
    ASSUME TypeInv, NEW s \in Server, applyLoop(s)
    PROVE  RestTypes' /\ Progress'
<1>1. PICK o : o = chosen[applied[s] + 1].op
  OBVIOUS
<1>2. RaftTypes /\ LoopTypes /\ ClerkTypes /\ StoreTypes /\ Progress
  BY DEF TypeInv
<1>3. Deliver(s, [op |-> o]) /\ [op |-> o] \in [op : Op \cup {NoopOp}] /\ UNCHANGED <<calls, got>>
  BY <1>1, <1>2, applyLoopIs
<1>4. /\ applied[s] + 1 <= Len(chosen) /\ applied'[s] = applied[s] + 1
      /\ \A q \in Server \ {s} : applied'[q] = applied[q]
      /\ LoopTypes' /\ UNCHANGED <<raftVars, clerkVars>>
  BY <1>2, <1>3, DeliverIs
<1>5. ClerkTypes'
  BY <1>2, <1>3, <1>4 DEF ClerkTypes, clerkVars
<1>6. PICK a \in Nat : a = applied[s]
  BY <1>2 DEF LoopTypes
<1>7. /\ store' \in [Server -> Seq(Op)] /\ duplicateTable' \in [Server -> Dups]
      /\ \/ snapshot' = snapshot
         \/ snapshot' = [snapshot EXCEPT ![s] = [index |-> a + 1,
                            store |-> store'[s], dup |-> duplicateTable'[s]]]
  BY <1>1, <1>2, <1>6, applyLoopIs
<1>8. PICK z \in Snap : z = [index |-> a + 1, store |-> store'[s], dup |-> duplicateTable'[s]]
  <2>1. PICK v \in Seq(Op), d \in Dups : v = store'[s] /\ d = duplicateTable'[s]
    BY <1>7
  <2>2. [index |-> a + 1, store |-> v, dup |-> d] \in Snap
    BY DEF Snap
  <2> QED BY <2>1, <2>2
<1>9. StoreTypes'
  BY <1>2, <1>7, <1>8 DEF StoreTypes
<1>10. Progress'
  <2>1. chosen' = chosen
    BY <1>4 DEF raftVars
  <2>2. \A q \in Server : applied'[q] <= Len(chosen)
    BY <1>2, <1>4 DEF Progress
  <2>3. snapshot[s].index \in Nat /\ snapshot[s].index <= a
    BY <1>2, <1>6 DEF Progress, StoreTypes, Snap
  <2>4. snapshot'[s].index <= a + 1
    BY <1>2, <1>6, <1>7, <2>3 DEF StoreTypes
  <2>5. \A q \in Server \ {s} : snapshot'[q] = snapshot[q]
    BY <1>2, <1>7 DEF StoreTypes
  <2> QED BY <1>2, <1>4, <1>6, <2>1, <2>2, <2>4, <2>5 DEF Progress
<1> QED BY <1>4, <1>5, <1>9, <1>10 DEF RestTypes

LEMMA SnapFields ==
    \A z \in Snap : z.index \in Nat /\ z.store \in Seq(Op) /\ z.dup \in Dups
BY DEF Snap

\* What a crash does to the calls: those at the replica start again elsewhere.
LEMMA CrashTypes ==
    ASSUME LoopTypes, ClerkTypes, NEW s \in Server, NEW i \in Nat, Crash(s, i), UNCHANGED <<calls, got>>
    PROVE  /\ LoopTypes' /\ ClerkTypes'
           /\ applied' = [applied EXCEPT ![s] = i] /\ UNCHANGED <<term, log, won, chosen, chosenIn>>
<1>1. noopAppliedTerm' \in [Server -> Nat] /\ lastNoopTerm' \in [Server -> Nat]
  BY DEF LoopTypes, Crash
<1>2. notifyChans' \in [Server -> Chans]
  <2>1. <<>> \in Chans
    BY NoChans
  <2> QED BY <2>1 DEF LoopTypes, Crash
<1>3. ch' \in [Clerk -> Msg]
  BY DEF LoopTypes, Crash, Msg
<1>4. applied' = [applied EXCEPT ![s] = i] /\ applied' \in [Server -> Nat]
  BY DEF LoopTypes, Crash
<1>5. LoopTypes'
  BY <1>1, <1>2, <1>3, <1>4 DEF LoopTypes
<1>6. call' \in [Clerk -> Call]
  <2>1. \A c \in Clerk : Restarted(c) \in Call /\ call[c] \in Call
    BY RestartedIs DEF ClerkTypes
  <2>2. call' = [c \in Clerk |-> IF AtServer(c, s) THEN Restarted(c) ELSE call[c]]
    BY DEF Crash
  <2> QED BY <2>1, <2>2
<1>7. lastKnown' \in [Clerk -> Server]
  <2>1. (s + 1) % NumServers \in Server
    BY ServerIs
  <2> QED BY <2>1 DEF ClerkTypes, Crash
<1>8. ClerkTypes'
  BY <1>6, <1>7 DEF ClerkTypes, Crash
<1> QED BY <1>4, <1>5, <1>8 DEF Crash

LEMMA RestartTypes ==
    ASSUME TypeInv, NEW s \in Server, Restart(s)
    PROVE  RestTypes' /\ Progress'
<1>1. RaftTypes /\ LoopTypes /\ ClerkTypes /\ StoreTypes /\ Progress
  BY DEF TypeInv
<1>2. PICK z \in Snap : z = snapshot[s]
  BY <1>1 DEF StoreTypes
<1>3. z.index \in Nat /\ z.store \in Seq(Op) /\ z.dup \in Dups
  BY SnapFields
<1>4. Crash(s, z.index) /\ UNCHANGED <<calls, got, snapshot>>
  BY <1>2 DEF Restart, restoreSnapshot
<1>5. /\ LoopTypes' /\ ClerkTypes'
      /\ applied' = [applied EXCEPT ![s] = z.index] /\ UNCHANGED chosen
  BY <1>1, <1>3, <1>4, CrashTypes
<1>6. /\ store' = [store EXCEPT ![s] = z.store]
      /\ duplicateTable' = [duplicateTable EXCEPT ![s] = z.dup]
  BY <1>2 DEF Restart, restoreSnapshot
<1>7. StoreTypes'
  BY <1>1, <1>3, <1>4, <1>6 DEF StoreTypes
<1>8. Progress'
  <2>1. z.index <= applied[s] /\ applied[s] <= Len(chosen)
    BY <1>1, <1>2 DEF Progress
  <2>2. applied[s] \in Nat /\ Len(chosen) \in Nat
    BY <1>1, TermsAreNat DEF LoopTypes
  <2>3. z.index <= Len(chosen) /\ z.index <= z.index
    BY <1>3, <2>1, <2>2
  <2>4. applied'[s] = z.index /\ \A q \in Server \ {s} : applied'[q] = applied[q]
    BY <1>1, <1>5 DEF LoopTypes
  <2> QED BY <1>1, <1>2, <1>4, <1>5, <2>3, <2>4 DEF Progress
<1> QED BY <1>5, <1>7, <1>8 DEF RestTypes

LEMMA InstallTypes ==
    ASSUME TypeInv, NEW s \in Server, NEW p \in Server \ {s}, installSnapshot(s, p)
    PROVE  RestTypes' /\ Progress'
<1>1. RaftTypes /\ LoopTypes /\ ClerkTypes /\ StoreTypes /\ Progress
  BY DEF TypeInv
<1>2. PICK z \in Snap : z = snapshot[p]
  BY <1>1 DEF StoreTypes
<1>3. z.index \in Nat /\ z.store \in Seq(Op) /\ z.dup \in Dups
  BY SnapFields
<1>4. /\ store' = [store EXCEPT ![s] = z.store]
      /\ duplicateTable' = [duplicateTable EXCEPT ![s] = z.dup]
      /\ snapshot' = [snapshot EXCEPT ![s] = z]
      /\ applied' = [applied EXCEPT ![s] = z.index]
      /\ UNCHANGED <<noopAppliedTerm, notifyChans, ch, lastNoopTerm, chosen, calls, got>>
      /\ UNCHANGED clerkVars
  BY <1>2 DEF installSnapshot, restoreSnapshot, raftVars
<1>5. LoopTypes' /\ ClerkTypes'
  BY <1>1, <1>3, <1>4 DEF LoopTypes, ClerkTypes, clerkVars
<1>6. StoreTypes'
  BY <1>1, <1>3, <1>4 DEF StoreTypes
<1>7. Progress'
  <2>1. z.index <= applied[p] /\ applied[p] <= Len(chosen)
    BY <1>1, <1>2 DEF Progress
  <2>2. applied[p] \in Nat /\ Len(chosen) \in Nat
    BY <1>1, TermsAreNat DEF LoopTypes
  <2>3. z.index <= Len(chosen) /\ z.index <= z.index
    BY <1>3, <2>1, <2>2
  <2>4. /\ applied'[s] = z.index /\ \A q \in Server \ {s} : applied'[q] = applied[q]
        /\ snapshot'[s] = z /\ \A q \in Server \ {s} : snapshot'[q] = snapshot[q]
    BY <1>1, <1>4 DEF LoopTypes, StoreTypes
  <2> QED BY <1>1, <1>4, <2>3, <2>4 DEF Progress
<1> QED BY <1>5, <1>6, <1>7 DEF RestTypes

\* A call that begins.
LEMMA BeginIs ==
    ASSUME ClerkTypes, NEW c \in Clerk, NEW p \in {"propose", "read"}, NEW o \in Op \cup {Nil},
           Begin(c, p, o)
    PROVE  /\ \E x \in Call : x.pc = p /\ x.op = o /\ call' = [call EXCEPT ![c] = x]
           /\ calls'[c] = calls[c] + 1 /\ calls' \in [Clerk -> 0 .. MaxCalls]
           /\ \A d \in Clerk \ {c} : calls'[d] = calls[d]
           /\ calls[c] + 1 \in 1 .. MaxCalls
<1>1. call[c] \in Call
  BY DEF ClerkTypes
<1>2. PICK x : x = [call[c] EXCEPT !.pc = p, !.op = o]
  OBVIOUS
<1>3. p \in {"idle"} \cup Writing \cup Reading
  BY DEF Writing, Reading
<1>4. x \in Call /\ x.pc = p /\ x.op = o
  BY <1>1, <1>2, <1>3 DEF Call
<1>5. call' = [call EXCEPT ![c] = x]
  BY <1>2 DEF Begin, ClerkTypes
<1>6. calls[c] \in Nat /\ calls[c] < MaxCalls /\ calls' = [calls EXCEPT ![c] = calls[c] + 1]
  BY KVAssumption DEF Begin, ClerkTypes
<1>7. calls[c] + 1 \in 1 .. MaxCalls
  BY <1>6, KVAssumption
<1>8. /\ calls'[c] = calls[c] + 1 /\ calls' \in [Clerk -> 0 .. MaxCalls]
      /\ \A d \in Clerk \ {c} : calls'[d] = calls[d]
  BY <1>6, <1>7, KVAssumption DEF ClerkTypes
<1> QED BY <1>4, <1>5, <1>7, <1>8

LEMMA TypesNext ==
    ASSUME TypeInv, Next, RaftNextInv
    PROVE  TypeInv'
<1>1. RaftTypes /\ LoopTypes /\ ClerkTypes /\ StoreTypes /\ Progress /\ RaftTypes' /\ Advances
  BY DEF TypeInv, RaftNextInv
<1>2. SUFFICES RestTypes' /\ Progress'
  BY <1>1 DEF TypeInv, RestTypes
<1>3. UNCHANGED <<applied, snapshot>> => Progress'
  <2> SUFFICES ASSUME UNCHANGED <<applied, snapshot>>, NEW s \in Server
               PROVE  applied[s] <= Len(chosen') /\ snapshot[s].index <= applied[s]
    BY DEF Progress
  <2>1. PICK m \in Nat, n \in Nat, a \in Nat : m = Len(chosen) /\ n = Len(chosen') /\ a = applied[s]
    BY <1>1, TermsAreNat DEF LoopTypes, RaftTypes
  <2>2. m <= n /\ a <= m /\ snapshot[s].index <= a
    BY <1>1, <2>1 DEF Advances, Begins, Progress
  <2> QED BY <2>1, <2>2
<1>4. ASSUME ServiceNext /\ UNCHANGED kvVars PROVE RestTypes' /\ Progress'
  <2>1. RestTypes'
    BY <1>4, ServiceTypes
  <2>2. UNCHANGED <<applied, snapshot>>
    <3>1. UNCHANGED snapshot
      BY <1>4 DEF kvVars
    <3>2. UNCHANGED applied
      <4>1. CASE RaftNext
        BY <4>1 DEF RaftNext, Win, StepDown, Commit, loopVars
      <4>2. ASSUME NEW s \in Server, noopLoop(s) PROVE UNCHANGED applied
        BY <4>2 DEF noopLoop, loopVars
      <4>3. ASSUME NEW c \in Clerk, Handler(c) PROVE UNCHANGED applied
        BY <4>3 DEF Handler, proposeCall, registerCall, notified, deleteChan, deadline,
           leaderCheck, readState, readTerm, loopVars
      <4> QED BY <1>4, <4>1, <4>2, <4>3 DEF ServiceNext
    <3> QED BY <3>1, <3>2
  <2> QED BY <1>3, <2>1, <2>2
<1>5. ASSUME NEW c \in Clerk, putAppend(c) \/ Get(c) PROVE RestTypes' /\ Progress'
  <2>1. PICK p \in {"propose", "read"}, o \in Op \cup {Nil} : Begin(c, p, o)
    <3>1. CASE Get(c)
      <4>1. call[c].op \in Op \cup {Nil}
        BY <1>1, CallFields DEF ClerkTypes
      <4> QED BY <3>1, <4>1 DEF Get
    <3>2. CASE putAppend(c)
      <4>1. PICK t \in Types : Begin(c, "propose", [clerk |-> c, seq |-> calls[c] + 1, type |-> t])
        BY <3>2 DEF putAppend
      <4>2. calls[c] + 1 \in 1 .. MaxCalls
        BY <1>1, <4>1, KVAssumption DEF Begin, ClerkTypes
      <4>3. [clerk |-> c, seq |-> calls[c] + 1, type |-> t] \in Op
        BY <4>2 DEF Op
      <4> QED BY <4>1, <4>3
    <3> QED BY <1>5, <3>1, <3>2
  <2>2. PICK x \in Call : call' = [call EXCEPT ![c] = x]
    BY <1>1, <2>1, BeginIs
  <2>3. calls' \in [Clerk -> 0 .. MaxCalls]
    BY <1>1, <2>1, BeginIs
  <2>4. /\ UNCHANGED loopVars
        /\ UNCHANGED <<lastNoopTerm, lastKnown, acked, floor, store, duplicateTable, snapshot, got>>
    BY <2>1 DEF Begin
  <2>5. LoopTypes' /\ StoreTypes' /\ UNCHANGED <<applied, snapshot>>
    BY <1>1, <2>4 DEF LoopTypes, loopVars, StoreTypes
  <2>6. ClerkTypes'
    BY <1>1, <2>2, <2>3, <2>4 DEF ClerkTypes
  <2> QED BY <1>3, <2>5, <2>6 DEF RestTypes
<1>6. ASSUME NEW c \in Clerk, readNoop(c) PROVE RestTypes' /\ Progress'
  <2>1. /\ UNCHANGED loopVars
        /\ UNCHANGED <<lastNoopTerm, store, duplicateTable, snapshot, calls, got>>
    BY <1>6 DEF readNoop, kvVars
  <2>2. LoopTypes' /\ StoreTypes' /\ UNCHANGED <<applied, snapshot>>
    BY <1>1, <2>1 DEF LoopTypes, loopVars, StoreTypes
  <2>3. CASE Refused(c)
    BY <1>1, <1>3, <2>1, <2>2, <2>3, RefusedType DEF RestTypes
  <2>4. CASE StepTo(c, "readStore") /\ UNCHANGED <<lastKnown, acked, floor>>
    <3>1. "readStore" \in {"idle"} \cup Writing \cup Reading
      BY DEF Reading
    <3>2. PICK x \in Call : call' = [call EXCEPT ![c] = x]
      BY <1>1, <2>4, <3>1, StepToType
    <3>3. lastKnown' \in [Clerk -> Server]
      BY <1>1, <2>4 DEF ClerkTypes
    <3>4. ClerkTypes'
      BY <1>1, <2>1, <2>4, <3>2, <3>3, CallType
    <3> QED BY <1>3, <2>2, <3>4 DEF RestTypes
  <2> QED BY <1>6, <2>3, <2>4 DEF readNoop
<1>7. ASSUME NEW c \in Clerk, readStore(c) PROVE RestTypes' /\ Progress'
  <2>1. /\ UNCHANGED loopVars
        /\ UNCHANGED <<lastNoopTerm, lastKnown, acked, floor, store, duplicateTable, snapshot, calls>>
        /\ Done(c) /\ got' = [got EXCEPT ![c] = store[lastKnown[c]]]
    BY <1>7 DEF readStore
  <2>2. LoopTypes' /\ StoreTypes' /\ UNCHANGED <<applied, snapshot>>
    BY <1>1, <2>1 DEF LoopTypes, loopVars, StoreTypes
  <2>3. PICK x \in Call : call' = [call EXCEPT ![c] = x]
    BY <1>1, <2>1, DoneType
  <2>4. store[lastKnown[c]] \in Seq(Op)
    BY <1>1 DEF ClerkTypes, StoreTypes
  <2>5. got' \in [Clerk -> Seq(Op)]
    BY <1>1, <2>1, <2>4 DEF ClerkTypes
  <2>6. ClerkTypes'
    BY <1>1, <2>1, <2>3, <2>5 DEF ClerkTypes
  <2> QED BY <1>3, <2>2, <2>6 DEF RestTypes
<1> QED
  BY <1>4, <1>5, <1>6, <1>7, applyLoopTypes, RestartTypes, InstallTypes DEF Next

LEMMA TypesInit == Init => TypeInv
<1> SUFFICES ASSUME Init PROVE TypeInv
  OBVIOUS
<1>1. RaftTypes
  BY RaftInitInv
<1>2. LoopTypes
  <2>1. <<>> \in Chans
    BY NoChans
  <2>2. Nil \in Msg
    BY DEF Msg
  <2> QED BY <2>1, <2>2 DEF Init, ServiceInit, LoopTypes
<1>3. 0 \in 0 .. MaxCalls /\ <<>> \in Seq(Op)
  BY KVAssumption
<1>4. ClerkTypes
  <2>1. PICK x : x = [pc |-> "idle", op |-> Nil, index |-> 0, term |-> 0]
    OBVIOUS
  <2>2. x \in Call
    BY <2>1 DEF Call
  <2>3. call = [c \in Clerk |-> x]
    BY <2>1 DEF Init, ServiceInit
  <2> QED BY <1>3, <2>2, <2>3, ServerIs DEF Init, ServiceInit, ClerkTypes
<1>5. NewKVServer \in Snap /\ NewKVServer.index = 0
  BY <1>3 DEF NewKVServer, Snap, Dups
<1>6. StoreTypes
  BY <1>3, <1>5 DEF Init, StoreTypes, Dups
<1>7. Progress
  BY <1>5 DEF Init, ServiceInit, Progress
<1> QED BY <1>1, <1>2, <1>4, <1>6, <1>7 DEF TypeInv

(***************************************************************************)
(* The steps, as the clerks see them.                                      *)
(***************************************************************************)
Class(pc) == IF pc = "idle" THEN "idle" ELSE First(pc)

\* The clerk begins no call and ends none.
Keeps(c) ==
    /\ Class(call'[c].pc) = Class(call[c].pc) /\ call'[c].op = call[c].op
    /\ calls'[c] = calls[c] /\ got'[c] = got[c]
Others(c) == UNCHANGED raftVars /\ \A d \in Clerk \ {c} : Keeps(d)

BeginsWrite(c) ==
    /\ Others(c) /\ c \notin Reader /\ call[c].pc = "idle" /\ call'[c].pc = "propose"
    /\ call'[c].op \in Op /\ call'[c].op.clerk = c /\ call'[c].op.seq = calls[c] + 1
    /\ calls'[c] = calls[c] + 1 /\ got'[c] = got[c]
BeginsRead(c) ==
    /\ Others(c) /\ c \in Reader /\ call[c].pc = "idle" /\ call'[c].pc = "read"
    /\ call'[c].op = call[c].op /\ calls'[c] = calls[c] + 1 /\ got'[c] = got[c]

\* A write ends when what was applied at its index is its own request.
EndsWrite(c) ==
    /\ Others(c) /\ call[c].pc = "wait" /\ call'[c].pc = "idle"
    /\ call'[c].op = call[c].op /\ calls'[c] = calls[c] /\ got'[c] = got[c]
    /\ \E i \in 1 .. Len(chosen) : chosen[i].op = call[c].op
EndsRead(c) ==
    /\ Others(c) /\ call[c].pc = "readStore" /\ call'[c].pc = "idle"
    /\ call'[c].op = call[c].op /\ calls'[c] = calls[c] /\ got'[c] = store[lastKnown[c]]

ClerkStep ==
    \/ \A c \in Clerk : Keeps(c)
    \/ \E c \in Clerk : BeginsWrite(c) \/ BeginsRead(c) \/ EndsWrite(c) \/ EndsRead(c)

\* What is buffered for a call was applied at its index.
Told(c) ==
    ch[c] # Nil => /\ call[c].pc = "wait" /\ call[c].index \in 1 .. applied[lastKnown[c]]
                   /\ chosen[call[c].index].op = ch[c].op

LEMMA ClassIs ==
    /\ \A p \in Writing : Class(p) = "propose"
    /\ \A p \in Reading : Class(p) = "read"
    /\ Class("idle") = "idle" /\ \A p : Class(First(p)) = First(p)
    /\ \A x \in Call : /\ x.pc \in Writing <=> Class(x.pc) = "propose"
                       /\ x.pc \in Reading <=> Class(x.pc) = "read"
                       /\ x.pc = "idle" <=> Class(x.pc) = "idle"
BY DEF Class, First, Writing, Reading, Call

LEMMA SameCall ==
    ASSUME ClerkTypes, UNCHANGED <<calls, got>>, NEW c \in Clerk, NEW x \in Call,
           call' = [call EXCEPT ![c] = x], Class(x.pc) = Class(call[c].pc), x.op = call[c].op
    PROVE  \A d \in Clerk : Keeps(d)
BY DEF ClerkTypes, Keeps

LEMMA RefusedIs ==
    ASSUME ClerkTypes, NEW c \in Clerk, Refused(c), call[c].pc # "idle"
    PROVE  \E x \in Call : /\ call' = [call EXCEPT ![c] = x] /\ x.op = call[c].op
                           /\ Class(x.pc) = Class(call[c].pc) /\ x.pc \in {"propose", "read"}
<1>1. PICK x : x = Restarted(c)
  OBVIOUS
<1>2. x \in Call /\ x.op = call[c].op /\ x.pc = First(call[c].pc) /\ x.pc \in {"propose", "read"}
  BY <1>1, RestartedIs
<1>3. Class(x.pc) = Class(call[c].pc)
  BY <1>2, ClassIs DEF Class
<1>4. call' = [call EXCEPT ![c] = x]
  BY <1>1 DEF Refused
<1> QED BY <1>2, <1>3, <1>4

LEMMA ClerkSteps ==
    ASSUME TypeInv, Next, \A c \in Clerk : Told(c),
           \A c \in Clerk : call[c].pc = "propose" => call[c].op \in Op
    PROVE  ClerkStep
<1>0. ClerkTypes /\ \A c \in Clerk : call[c] \in Call
  BY DEF TypeInv, ClerkTypes
<1>1. UNCHANGED <<call, calls, got>> => ClerkStep
  BY DEF ClerkStep, Keeps
<1>2. ASSUME UNCHANGED <<calls, got>>, NEW c \in Clerk, Refused(c), call[c].pc # "idle"
      PROVE  ClerkStep
  <2>1. PICK x \in Call : /\ call' = [call EXCEPT ![c] = x] /\ x.op = call[c].op
                          /\ Class(x.pc) = Class(call[c].pc)
    BY <1>0, <1>2, RefusedIs
  <2>2. \A d \in Clerk : Keeps(d)
    BY <1>0, <1>2, <2>1, SameCall
  <2> QED BY <2>2 DEF ClerkStep
<1>3. ASSUME UNCHANGED <<calls, got>>, NEW c \in Clerk,
             NEW p \in {"idle"} \cup Writing \cup Reading, StepTo(c, p), Class(call[c].pc) = Class(p)
      PROVE  ClerkStep
  <2>1. PICK x \in Call : x.pc = p /\ x.op = call[c].op /\ call' = [call EXCEPT ![c] = x]
    BY <1>0, <1>3, StepToType
  <2>2. \A d \in Clerk : Keeps(d)
    BY <1>0, <1>3, <2>1, SameCall
  <2> QED BY <2>2 DEF ClerkStep
<1>4. ASSUME NEW c \in Clerk, Handler(c), UNCHANGED kvVars PROVE ClerkStep
  <2>0. UNCHANGED <<calls, got>>
    BY <1>4 DEF kvVars
  <2>1. CASE proposeCall(c)
    <3>1. CASE Refused(c)
      BY <1>2, <2>0, <2>1, <3>1 DEF proposeCall
    <3>2. CASE Taken(c)
      <4>1. PICK x \in Call : call' = [call EXCEPT ![c] = x] /\ x.op = call[c].op /\ x.pc = "register"
        BY <3>2, proposeCallIs
      <4>2. Class(x.pc) = Class(call[c].pc)
        BY <2>1, <4>1, ClassIs DEF proposeCall, Writing
      <4>3. \A d \in Clerk : Keeps(d)
        BY <1>0, <2>0, <4>1, <4>2, SameCall
      <4> QED BY <4>3 DEF ClerkStep
    <3> QED BY <2>1, <3>1, <3>2, proposeCallCases
  <2>2. CASE registerCall(c)
    <3>1. "wait" \in {"idle"} \cup Writing \cup Reading /\ Class("register") = Class("wait")
      BY ClassIs DEF Writing
    <3> QED BY <1>3, <2>0, <2>2, <3>1 DEF registerCall
  <2>3. CASE notified(c)
    <3>1. CASE Refused(c)
      BY <1>2, <2>0, <2>3, <3>1 DEF notified
    <3>2. CASE Answers(c) /\ Done(c)
      <4>1. PICK x \in Call : x.pc = "idle" /\ x.op = call[c].op /\ call' = [call EXCEPT ![c] = x]
        BY <1>0, <3>2, DoneType
      <4>2. \A d \in Clerk \ {c} : Keeps(d)
        BY <1>0, <2>0, <4>1 DEF ClerkTypes, Keeps
      <4>3. call'[c] = x /\ calls'[c] = calls[c] /\ got'[c] = got[c]
        BY <1>0, <2>0, <4>1 DEF ClerkTypes
      <4>4. /\ call[c].pc = "wait" /\ call[c].index \in 1 .. applied[lastKnown[c]]
            /\ chosen[call[c].index].op = call[c].op
        BY <2>3, <3>2 DEF notified, Told, Answers
      <4>5. call[c].index \in 1 .. Len(chosen)
        <5>1. PICK a \in Nat, k \in Nat : a = applied[lastKnown[c]] /\ k = Len(chosen) /\ a <= k
          BY TermsAreNat DEF TypeInv, LoopTypes, ClerkTypes, Progress
        <5> QED BY <4>4, <5>1
      <4>6. UNCHANGED raftVars
        BY <2>3 DEF notified
      <4>7. EndsWrite(c)
        BY <4>1, <4>2, <4>3, <4>4, <4>5, <4>6 DEF EndsWrite, Others
      <4> QED BY <4>7 DEF ClerkStep
    <3> QED BY <2>3, <3>1, <3>2 DEF notified
  <2>4. CASE deadline(c) \/ leaderCheck(c)
    BY <1>2, <2>0, <2>4 DEF deadline, leaderCheck
  <2>5. CASE readState(c)
    <3>1. "readTerm" \in {"idle"} \cup Writing \cup Reading /\ Class("read") = Class("readTerm")
      BY ClassIs DEF Reading
    <3> QED BY <1>2, <1>3, <2>0, <2>5, <3>1 DEF readState
  <2>6. CASE readTerm(c)
    <3>1. PICK x \in Call : call' = [call EXCEPT ![c] = x] /\ x.op = call[c].op /\ x.pc = "readNoop"
      BY <2>6, readTermIs
    <3>2. Class(x.pc) = Class(call[c].pc)
      BY <2>6, <3>1, ClassIs DEF readTerm, Reading
    <3>3. \A d \in Clerk : Keeps(d)
      BY <1>0, <2>0, <3>1, <3>2, SameCall
    <3> QED BY <3>3 DEF ClerkStep
  <2> QED BY <1>4, <2>1, <2>2, <2>3, <2>4, <2>5, <2>6 DEF Handler
<1>5. CASE RaftNext /\ UNCHANGED kvVars
  BY <1>1, <1>5 DEF RaftNext, Win, StepDown, Commit, clerkVars, kvVars
<1>6. ASSUME NEW s \in Server, noopLoop(s), UNCHANGED kvVars PROVE ClerkStep
  BY <1>1, <1>6 DEF noopLoop, clerkVars, kvVars
<1>7. ASSUME NEW s \in Server, applyLoop(s) \/ \E p \in Server \ {s} : installSnapshot(s, p)
      PROVE  ClerkStep
  BY <1>1, <1>7 DEF applyLoop, Deliver, installSnapshot, restoreSnapshot, clerkVars
<1>8. ASSUME NEW s \in Server, Restart(s) PROVE ClerkStep
  <2>1. /\ call' = [c \in Clerk |-> IF AtServer(c, s) THEN Restarted(c) ELSE call[c]]
        /\ UNCHANGED <<calls, got>>
    BY <1>8 DEF Restart, Crash, restoreSnapshot
  <2>2. ASSUME NEW c \in Clerk PROVE Keeps(c)
    <3>1. CASE AtServer(c, s)
      <4>1. PICK x : x = Restarted(c)
        OBVIOUS
      <4>2. call'[c] = x /\ x.op = call[c].op /\ x.pc = First(call[c].pc) /\ call[c].pc # "idle"
        BY <1>0, <2>1, <3>1, <4>1, RestartedIs DEF AtServer
      <4>3. Class(x.pc) = Class(call[c].pc)
        BY <4>2, ClassIs DEF Class
      <4> QED BY <2>1, <4>2, <4>3 DEF Keeps
    <3>2. CASE ~AtServer(c, s)
      BY <2>1, <3>2 DEF Keeps
    <3> QED BY <3>1, <3>2
  <2> QED BY <2>2 DEF ClerkStep
<1>9. ASSUME NEW c \in Clerk, putAppend(c) PROVE ClerkStep
  <2>1. PICK t \in Types : Begin(c, "propose", [clerk |-> c, seq |-> calls[c] + 1, type |-> t])
    BY <1>9 DEF putAppend
  <2>2. PICK o : o = [clerk |-> c, seq |-> calls[c] + 1, type |-> t]
    OBVIOUS
  <2>3. calls[c] + 1 \in 1 .. MaxCalls
    BY <1>0, <2>1, KVAssumption DEF Begin, ClerkTypes
  <2>4. o \in Op /\ o.clerk = c /\ o.seq = calls[c] + 1
    BY <2>2, <2>3 DEF Op
  <2>5. PICK x \in Call : x.pc = "propose" /\ x.op = o /\ call' = [call EXCEPT ![c] = x]
    BY <1>0, <2>1, <2>2, <2>4, BeginIs
  <2>6. calls'[c] = calls[c] + 1 /\ \A d \in Clerk \ {c} : calls'[d] = calls[d]
    BY <1>0, <2>1, <2>2, <2>4, BeginIs
  <2>7. UNCHANGED got /\ UNCHANGED raftVars /\ call[c].pc = "idle" /\ c \notin Reader
    BY <1>9, <2>1 DEF Begin, putAppend
  <2>8. call'[c] = x /\ \A d \in Clerk \ {c} : call'[d] = call[d]
    BY <1>0, <2>5 DEF ClerkTypes
  <2>9. BeginsWrite(c)
    BY <2>4, <2>5, <2>6, <2>7, <2>8 DEF BeginsWrite, Others, Keeps
  <2> QED BY <2>9 DEF ClerkStep
<1>10. ASSUME NEW c \in Clerk, Get(c) PROVE ClerkStep
  <2>1. Begin(c, "read", call[c].op) /\ c \in Reader
    BY <1>10 DEF Get
  <2>2. call[c].op \in Op \cup {Nil}
    BY <1>0, CallFields
  <2>3. PICK x \in Call : x.pc = "read" /\ x.op = call[c].op /\ call' = [call EXCEPT ![c] = x]
    BY <1>0, <2>1, <2>2, BeginIs
  <2>4. calls'[c] = calls[c] + 1 /\ \A d \in Clerk \ {c} : calls'[d] = calls[d]
    BY <1>0, <2>1, <2>2, BeginIs
  <2>5. UNCHANGED got /\ UNCHANGED raftVars /\ call[c].pc = "idle"
    BY <2>1 DEF Begin
  <2>6. call'[c] = x /\ \A d \in Clerk \ {c} : call'[d] = call[d]
    BY <1>0, <2>3 DEF ClerkTypes
  <2>7. BeginsRead(c)
    BY <2>1, <2>3, <2>4, <2>5, <2>6 DEF BeginsRead, Others, Keeps
  <2> QED BY <2>7 DEF ClerkStep
<1>11. ASSUME NEW c \in Clerk, readNoop(c) PROVE ClerkStep
  <2>1. "readStore" \in {"idle"} \cup Writing \cup Reading /\ Class("readNoop") = Class("readStore")
    BY ClassIs DEF Reading
  <2>2. UNCHANGED <<calls, got>> /\ call[c].pc = "readNoop" /\ (StepTo(c, "readStore") \/ Refused(c))
    BY <1>11 DEF readNoop, kvVars
  <2> QED BY <1>2, <1>3, <2>1, <2>2
<1>12. ASSUME NEW c \in Clerk, readStore(c) PROVE ClerkStep
  <2>1. /\ Done(c) /\ call[c].pc = "readStore" /\ UNCHANGED calls /\ UNCHANGED raftVars
        /\ got' = [got EXCEPT ![c] = store[lastKnown[c]]]
    BY <1>12 DEF readStore
  <2>2. PICK x \in Call : x.pc = "idle" /\ x.op = call[c].op /\ call' = [call EXCEPT ![c] = x]
    BY <1>0, <2>1, DoneType
  <2>3. call'[c] = x /\ \A d \in Clerk \ {c} : call'[d] = call[d]
    BY <1>0, <2>2 DEF ClerkTypes
  <2>4. got'[c] = store[lastKnown[c]] /\ \A d \in Clerk \ {c} : got'[d] = got[d]
    BY <1>0, <2>1 DEF ClerkTypes
  <2>5. EndsRead(c)
    BY <2>1, <2>2, <2>3, <2>4 DEF EndsRead, Others, Keeps
  <2> QED BY <2>5 DEF ClerkStep
<1> QED
  BY <1>4, <1>5, <1>6, <1>7, <1>8, <1>9, <1>10, <1>11, <1>12 DEF Next, ServiceNext

(***************************************************************************)
(* The invariant: requests.                                                *)
(***************************************************************************)
InLogs(o) == o # NoopOp /\ \E l \in Logs : \E i \in 1 .. Len(l) : l[i].op = o

\* o is the clerk's j-th request.
IsOf(o, c, j) == o # NoopOp /\ o.clerk = c /\ o.seq = j

\* The logs hold requests that clerks have made; a number stands for one.
KnownOps ==
    /\ \A o : InLogs(o) => /\ o.clerk \in Clerk \ Reader /\ o.seq <= calls[o.clerk]
                           /\ o.seq = calls[o.clerk] => o = call[o.clerk].op
    /\ \A o, p : InLogs(o) /\ InLogs(p) /\ o.clerk = p.clerk /\ o.seq = p.seq => o = p

\* A call is for the clerk's latest request.
CallOps ==
    \A c \in Clerk :
        /\ call[c].pc \in Writing => /\ c \notin Reader /\ call[c].op \in Op
                                     /\ call[c].op.clerk = c /\ call[c].op.seq = calls[c]
        /\ call[c].pc \in Reading => c \in Reader

\* A clerk makes a request once those before it are committed.
Past ==
    \A c \in Clerk \ Reader : \A j \in 1 .. calls[c] :
        j < calls[c] \/ call[c].pc = "idle" => \E i \in 1 .. Len(chosen) : IsOf(chosen[i].op, c, j)

\* A request follows its clerk's request before it, in every log that may yet
\* be committed.
Ordered(l) ==
    \A i \in 1 .. Len(l) : l[i].op # NoopOp /\ l[i].op.seq > 1 =>
        \E m \in 1 .. i - 1 : IsOf(l[m].op, l[i].op.clerk, l[i].op.seq - 1)
OrderedLogs == \A l \in Logs : Begins(chosen, l) => Ordered(l)

RequestInv == KnownOps /\ CallOps /\ Past /\ OrderedLogs

LEMMA BeginsTrans ==
    ASSUME NEW S, NEW k \in Seq(S), NEW l \in Seq(S), NEW m \in Seq(S), Begins(k, l), Begins(l, m)
    PROVE  Begins(k, m)
<1>1. PICK a \in Nat, b \in Nat, d \in Nat : a = Len(k) /\ b = Len(l) /\ d = Len(m)
  OBVIOUS
<1> QED BY <1>1 DEF Begins

\* Entries come from proposals only.
LEMMA RaftEntries ==
    ASSUME RaftTypes, RaftInv, RaftStep
    PROVE  \/ NoNewEntries
           \/ \E s \in Server : Proposes(s, NoopOp)
           \/ \E s \in Server, c \in Clerk : call[c].pc = "propose" /\ Proposes(s, call[c].op)
<1>1. \A m \in Logs : Begins(m, m)
  BY LogsType, BeginsItself
<1>2. CASE UNCHANGED raftVars
  BY <1>1, <1>2 DEF raftVars, NoNewEntries, Logs
<1>3. ASSUME NEW s \in Server, StepDown(s) \/ Loses(s) PROVE NoNewEntries
  BY <1>1, <1>3 DEF StepDown, Loses, NoNewEntries, Logs
<1> QED BY <1>2, <1>3, WinInv, CommitInv DEF RaftStep

LEMMA InLogsType == RaftTypes => \A o : InLogs(o) => o \in Op
BY LogsType, EntryIs DEF InLogs

\* No clerk begins or ends a call, and no log has a new entry.
LEMMA RequestsOfOldEntries ==
    ASSUME RaftTypes, RaftTypes', Advances, ClerkTypes, ClerkTypes', RequestInv,
           NoNewEntries, \A c \in Clerk : Keeps(c)
    PROVE  RequestInv'
<1>1. \A o : InLogs(o)' => InLogs(o)
  <2> SUFFICES ASSUME NEW o, InLogs(o)' PROVE InLogs(o)
    OBVIOUS
  <2>0. PICK l \in Logs' : o # NoopOp /\ \E i \in 1 .. Len(l) : l[i].op = o
    BY DEF InLogs
  <2>1. PICK i \in 1 .. Len(l) : l[i].op = o /\ o # NoopOp
    BY <2>0
  <2>2. PICK m \in Logs : Begins(l, m)
    BY DEF NoNewEntries
  <2>3. l \in Seq(Entry) /\ m \in Seq(Entry)
    BY LogsType DEF RaftTypes, Logs
  <2>4. i \in 1 .. Len(m) /\ l[i] = m[i]
    BY <2>2, <2>3, PrefixTerms
  <2> QED BY <2>1, <2>4 DEF InLogs
<1>2. KnownOps'
  BY <1>1 DEF RequestInv, KnownOps, Keeps
<1>3. \A c \in Clerk : /\ call'[c].pc \in Writing <=> call[c].pc \in Writing
                       /\ call'[c].pc \in Reading <=> call[c].pc \in Reading
                       /\ call'[c].pc = "idle" <=> call[c].pc = "idle"
  <2>1. \A c \in Clerk : call[c] \in Call /\ call'[c] \in Call
    BY DEF ClerkTypes
  <2> QED BY <2>1, ClassIs DEF Keeps
<1>4. CallOps'
  BY <1>3 DEF RequestInv, CallOps, Keeps
<1>5. Past'
  <2> SUFFICES ASSUME NEW c \in Clerk \ Reader, NEW j \in 1 .. calls'[c],
                      j < calls'[c] \/ call'[c].pc = "idle"
               PROVE  \E i \in 1 .. Len(chosen') : IsOf(chosen'[i].op, c, j)
    BY DEF Past
  <2>1. PICK i \in 1 .. Len(chosen) : IsOf(chosen[i].op, c, j)
    BY <1>3 DEF RequestInv, Past, Keeps
  <2>2. i \in 1 .. Len(chosen') /\ chosen'[i] = chosen[i]
    <3>1. chosen \in Seq(Entry) /\ chosen' \in Seq(Entry) /\ Begins(chosen, chosen')
      BY DEF RaftTypes, Advances
    <3> QED BY <3>1, PrefixTerms
  <2> QED BY <2>1, <2>2
<1>6. OrderedLogs'
  <2> SUFFICES ASSUME NEW l \in Logs', Begins(chosen', l) PROVE Ordered(l)
    BY DEF OrderedLogs, Ordered
  <2>1. PICK m \in Logs : Begins(l, m)
    BY DEF NoNewEntries
  <2>2. l \in Seq(Entry) /\ m \in Seq(Entry) /\ chosen \in Seq(Entry) /\ chosen' \in Seq(Entry)
    BY LogsType DEF RaftTypes, Logs
  <2>3. Begins(chosen, m)
    BY <2>1, <2>2, BeginsTrans DEF Advances
  <2>4. Ordered(m)
    BY <2>3 DEF RequestInv, OrderedLogs
  <2>5. \A i \in 1 .. Len(l) : i \in 1 .. Len(m) /\ l[i] = m[i]
    BY <2>1, <2>2, PrefixTerms
  <2>6. \A i \in 1 .. Len(l) : \A j \in 1 .. i - 1 : j \in 1 .. Len(l)
    BY <2>2
  <2> QED BY <2>4, <2>5, <2>6 DEF Ordered
<1> QED BY <1>2, <1>4, <1>5, <1>6 DEF RequestInv

\* A leader takes a request that its clerk is making, or a no-op.
LEMMA RequestsOfProposal ==
    ASSUME RaftTypes, RaftTypes', RaftInv, ClerkTypes, ClerkTypes', RequestInv,
           NEW s \in Server, NEW op, Proposes(s, op), \A c \in Clerk : Keeps(c),
           op = NoopOp \/ \E c \in Clerk : call[c].pc = "propose" /\ op = call[c].op
    PROVE  RequestInv'
<1>1. PICK e : e = [term |-> term[s], op |-> op]
  OBVIOUS
<1>2. /\ e \in Entry /\ log'[s] \in Seq(Entry) /\ Len(log'[s]) = Len(log[s]) + 1
      /\ \A i \in 1 .. Len(log[s]) : log'[s][i] = log[s][i]
      /\ log'[s][Len(log[s]) + 1] = e
      /\ \A q \in Server \ {s} : log'[q] = log[q]
      /\ \A l \in Logs' : l \in Logs \/ l = log'[s]
      /\ \A l \in Logs' : \A i \in 1 .. Len(l) :
            (\E m \in Logs : i \in 1 .. Len(m) /\ m[i] = l[i]) \/ (l = log'[s] /\ i = Len(l))
  BY <1>1, ProposesLogs
<1>3. e.op = op /\ e.term = term[s] /\ leads[s] /\ chosen' = chosen
  BY <1>1 DEF Proposes
<1>4. PICK z \in Nat, k \in Nat : z = Len(log[s]) /\ k = Len(chosen)
  BY TermsAreNat
<1>5. op # NoopOp => \E c \in Clerk \ Reader :
         /\ op = call[c].op /\ op \in Op /\ op.clerk = c /\ op.seq = calls[c] /\ calls[c] \in Nat
  <2> SUFFICES ASSUME op # NoopOp, NEW c \in Clerk, call[c].pc = "propose", op = call[c].op
               PROVE  c \notin Reader /\ op \in Op /\ op.clerk = c /\ op.seq = calls[c] /\ calls[c] \in Nat
    OBVIOUS
  <2>1. call[c].pc \in Writing
    BY DEF Writing
  <2> QED BY <2>1, KVAssumption DEF RequestInv, CallOps, ClerkTypes
<1>6. \A o : InLogs(o)' => InLogs(o) \/ o = op
  <2> SUFFICES ASSUME NEW o, InLogs(o)' PROVE InLogs(o) \/ o = op
    OBVIOUS
  <2>1. PICK l \in Logs' : o # NoopOp /\ \E i \in 1 .. Len(l) : l[i].op = o
    BY DEF InLogs
  <2>2. PICK i \in 1 .. Len(l) : l[i].op = o
    BY <2>1
  <2>3. CASE l = log'[s] /\ i = Len(l)
    BY <1>2, <1>3, <2>2, <2>3
  <2>4. CASE \E m \in Logs : i \in 1 .. Len(m) /\ m[i] = l[i]
    BY <2>1, <2>2, <2>4 DEF InLogs
  <2> QED BY <1>2, <2>3, <2>4
<1>7. KnownOps'
  <2>1. \A o : InLogs(o) => /\ o.clerk \in Clerk \ Reader /\ o.seq <= calls[o.clerk]
                            /\ o.seq = calls[o.clerk] => o = call[o.clerk].op
    BY DEF RequestInv, KnownOps
  <2>2. \A o : o # NoopOp /\ o = op => /\ o.clerk \in Clerk \ Reader /\ o.seq <= calls[o.clerk]
                                       /\ o.seq = calls[o.clerk] /\ o = call[o.clerk].op
    BY <1>5
  <2>3. \A o : InLogs(o)' => o # NoopOp
    BY DEF InLogs
  <2>4. \A o : InLogs(o)' => /\ o.clerk \in Clerk \ Reader /\ o.seq <= calls[o.clerk]
                             /\ o.seq = calls[o.clerk] => o = call[o.clerk].op
    BY <1>6, <2>1, <2>2, <2>3
  <2>5. ASSUME NEW o, NEW p, InLogs(o)', InLogs(p)', o.clerk = p.clerk, o.seq = p.seq
        PROVE  o = p
    <3>1. CASE InLogs(o) /\ InLogs(p)
      BY <2>5, <3>1 DEF RequestInv, KnownOps
    <3>2. CASE o = op
      BY <2>2, <2>3, <2>4, <2>5, <3>2
    <3>3. CASE p = op
      BY <2>2, <2>3, <2>4, <2>5, <3>3
    <3> QED BY <1>6, <2>5, <3>1, <3>2, <3>3
  <2>6. /\ \A o : InLogs(o)' => /\ o.clerk \in Clerk \ Reader /\ o.seq <= calls'[o.clerk]
                                /\ o.seq = calls'[o.clerk] => o = call'[o.clerk].op
    BY <2>4 DEF Keeps
  <2> QED BY <2>5, <2>6 DEF KnownOps
<1>8. \A c \in Clerk : /\ call'[c].pc \in Writing <=> call[c].pc \in Writing
                       /\ call'[c].pc \in Reading <=> call[c].pc \in Reading
                       /\ call'[c].pc = "idle" <=> call[c].pc = "idle"
  <2>1. \A c \in Clerk : call[c] \in Call /\ call'[c] \in Call
    BY DEF ClerkTypes
  <2> QED BY <2>1, ClassIs DEF Keeps
<1>9. CallOps'
  BY <1>8 DEF RequestInv, CallOps, Keeps
<1>10. Past'
  BY <1>3, <1>8 DEF RequestInv, Past, Keeps
<1>11. Begins(chosen, log'[s]) => Begins(chosen, log[s])
  <2> SUFFICES ASSUME Begins(chosen, log'[s]) PROVE Begins(chosen, log[s])
    OBVIOUS
  <2>1. k <= z + 1 /\ \A i \in 1 .. k : chosen[i] = log'[s][i]
    BY <1>2, <1>4 DEF Begins
  <2>2. k # z + 1
    <3> SUFFICES ASSUME k = z + 1 PROVE FALSE
      OBVIOUS
    <3>1. z + 1 \in 1 .. k /\ chosen[z + 1] = e
      BY <1>2, <1>4, <2>1
    <3>2. chosen \in Logs
      BY DEF Logs
    <3>3. z + 1 <= z
      BY <1>3, <1>4, <3>1, <3>2 DEF RaftInv, LeaderLog
    <3> QED BY <3>3
  <2>3. \A i \in 1 .. k : i \in 1 .. z
    BY <2>1, <2>2
  <2> QED BY <1>2, <1>4, <2>1, <2>2, <2>3 DEF Begins
<1>12. OrderedLogs'
  <2> SUFFICES ASSUME NEW l \in Logs', Begins(chosen, l) PROVE Ordered(l)
    BY <1>3 DEF OrderedLogs, Ordered
  <2>1. CASE l \in Logs
    BY <2>1 DEF RequestInv, OrderedLogs
  <2>2. CASE l = log'[s]
    <3>1. Begins(chosen, log[s]) /\ log[s] \in Logs
      BY <1>11, <2>2 DEF Logs
    <3>2. Ordered(log[s])
      BY <3>1 DEF RequestInv, OrderedLogs
    <3>3. ASSUME NEW i \in 1 .. z + 1, l[i].op # NoopOp, l[i].op.seq > 1
          PROVE  \E m \in 1 .. i - 1 : IsOf(l[m].op, l[i].op.clerk, l[i].op.seq - 1)
      <4>1. CASE i \in 1 .. z
        <5>1. l[i] = log[s][i]
          BY <1>2, <1>4, <2>2, <4>1
        <5>2. PICK m \in 1 .. i - 1 : IsOf(log[s][m].op, l[i].op.clerk, l[i].op.seq - 1)
          BY <1>4, <3>2, <3>3, <4>1, <5>1 DEF Ordered
        <5>3. m \in 1 .. z
          BY <4>1
        <5> QED BY <1>2, <1>4, <2>2, <5>2, <5>3
      <4>2. CASE i = z + 1
        <5>1. l[i].op = op
          BY <1>2, <1>3, <1>4, <2>2, <4>2
        <5>2. PICK c \in Clerk \ Reader : op.clerk = c /\ op.seq = calls[c] /\ calls[c] \in Nat
          BY <1>5, <3>3, <5>1
        <5>3. calls[c] - 1 \in 1 .. calls[c] /\ calls[c] - 1 < calls[c]
          BY <3>3, <5>1, <5>2
        <5>4. PICK m \in 1 .. k : IsOf(chosen[m].op, c, calls[c] - 1)
          BY <1>4, <5>3 DEF RequestInv, Past
        <5>5. k <= z /\ chosen[m] = log[s][m]
          BY <1>4, <3>1 DEF Begins
        <5>6. m \in 1 .. z /\ m \in 1 .. i - 1
          BY <1>4, <4>2, <5>5
        <5>7. l[m] = chosen[m]
          BY <1>2, <1>4, <2>2, <5>5, <5>6
        <5> QED BY <5>1, <5>2, <5>4, <5>6, <5>7
      <4> QED BY <1>4, <4>1, <4>2
    <3>4. Len(l) = z + 1
      BY <1>2, <1>4, <2>2
    <3> QED BY <3>3, <3>4 DEF Ordered
  <2> QED BY <1>2, <2>1, <2>2
<1> QED BY <1>7, <1>9, <1>10, <1>12 DEF RequestInv

\* A clerk begins or ends a call.
LEMMA RequestsOfCalls ==
    ASSUME RaftTypes, ClerkTypes, ClerkTypes', RequestInv, NEW c \in Clerk,
           BeginsWrite(c) \/ BeginsRead(c) \/ EndsWrite(c) \/ EndsRead(c)
    PROVE  RequestInv'
<1>1. UNCHANGED <<log, chosen>> /\ \A d \in Clerk \ {c} : Keeps(d)
  BY DEF BeginsWrite, BeginsRead, EndsWrite, EndsRead, Others, raftVars
<1>2. Logs' = Logs /\ \A o : InLogs(o)' <=> InLogs(o)
  BY <1>1 DEF Logs, InLogs
<1>3. \A d \in Clerk : call[d] \in Call /\ call'[d] \in Call /\ calls[d] \in Nat
  BY KVAssumption DEF ClerkTypes
<1>4. \A d \in Clerk \ {c} : /\ call'[d].pc \in Writing <=> call[d].pc \in Writing
                             /\ call'[d].pc \in Reading <=> call[d].pc \in Reading
                             /\ call'[d].pc = "idle" <=> call[d].pc = "idle"
  BY <1>1, <1>3, ClassIs DEF Keeps
<1>5. \A d \in Clerk \ {c} : call'[d].op = call[d].op /\ calls'[d] = calls[d]
  BY <1>1 DEF Keeps
<1>6. c \notin Reader => \/ BeginsWrite(c)
                         \/ EndsWrite(c)
  <2>1. EndsRead(c) => call[c].pc \in Reading
    BY DEF EndsRead, Reading
  <2> QED BY <2>1 DEF BeginsRead, RequestInv, CallOps
<1>7. KnownOps'
  <2>1. ASSUME NEW o, InLogs(o)
        PROVE  /\ o.clerk \in Clerk \ Reader /\ o.seq <= calls'[o.clerk]
               /\ o.seq = calls'[o.clerk] => o = call'[o.clerk].op
    <3>1. /\ o.clerk \in Clerk \ Reader /\ o.seq <= calls[o.clerk]
          /\ o.seq = calls[o.clerk] => o = call[o.clerk].op
      BY <2>1 DEF RequestInv, KnownOps
    <3>2. CASE o.clerk # c
      BY <1>5, <3>1, <3>2
    <3>3. CASE o.clerk = c /\ BeginsWrite(c)
      <4>1. PICK n \in Nat, j \in Nat : n = calls[c] /\ j = o.seq /\ calls'[c] = n + 1
        <5>1. o.seq \in Nat
          BY <2>1, InLogsType, KVAssumption DEF Op
        <5> QED BY <1>3, <3>3, <5>1 DEF BeginsWrite
      <4>2. j <= n
        BY <3>1, <3>3, <4>1
      <4> QED BY <3>1, <3>3, <4>1, <4>2
    <3>4. CASE o.clerk = c /\ EndsWrite(c)
      BY <3>1, <3>4 DEF EndsWrite
    <3> QED BY <1>6, <3>1, <3>2, <3>3, <3>4
  <2> QED BY <1>2, <2>1 DEF RequestInv, KnownOps
<1>8. CallOps'
  <2> SUFFICES ASSUME NEW d \in Clerk
               PROVE  /\ call'[d].pc \in Writing => /\ d \notin Reader /\ call'[d].op \in Op
                                                    /\ call'[d].op.clerk = d /\ call'[d].op.seq = calls'[d]
                      /\ call'[d].pc \in Reading => d \in Reader
    BY DEF CallOps
  <2>1. CASE d # c
    BY <1>4, <1>5, <2>1 DEF RequestInv, CallOps
  <2>2. CASE d = c
    BY <2>2 DEF BeginsWrite, BeginsRead, EndsWrite, EndsRead, Writing, Reading
  <2> QED BY <2>1, <2>2
<1>9. Past'
  <2> SUFFICES ASSUME NEW d \in Clerk \ Reader, NEW j \in 1 .. calls'[d],
                      j < calls'[d] \/ call'[d].pc = "idle"
               PROVE  \E i \in 1 .. Len(chosen) : IsOf(chosen[i].op, d, j)
    BY <1>1 DEF Past
  <2>1. CASE d # c
    BY <1>4, <1>5, <2>1 DEF RequestInv, Past
  <2>2. CASE d = c /\ BeginsWrite(c)
    <3>1. calls'[c] = calls[c] + 1 /\ call[c].pc = "idle" /\ call'[c].pc # "idle"
      BY <2>2 DEF BeginsWrite
    <3>2. j \in 1 .. calls[c]
      BY <1>3, <2>2, <3>1
    <3> QED BY <2>2, <3>1, <3>2 DEF RequestInv, Past
  <2>3. CASE d = c /\ EndsWrite(c)
    <3>1. /\ calls'[c] = calls[c] /\ call[c].pc \in Writing
          /\ \E i \in 1 .. Len(chosen) : chosen[i].op = call[c].op
      BY <2>3 DEF EndsWrite, Writing
    <3>2. CASE j < calls[c]
      BY <2>3, <3>1, <3>2 DEF RequestInv, Past
    <3>3. CASE j = calls[c]
      <4>1. call[c].op \in Op /\ call[c].op.clerk = c /\ call[c].op.seq = j
        BY <3>1, <3>3 DEF RequestInv, CallOps
      <4> QED BY <2>3, <3>1, <4>1, NoopIsNoOp DEF IsOf
    <3> QED BY <1>3, <2>3, <3>1, <3>2, <3>3
  <2> QED BY <1>6, <2>1, <2>2, <2>3
<1>10. OrderedLogs'
  BY <1>1, <1>2 DEF RequestInv, OrderedLogs, Ordered
<1> QED BY <1>7, <1>8, <1>9, <1>10 DEF RequestInv

LEMMA RequestsStep ==
    ASSUME TypeInv, TypeInv', RaftInv, RequestInv, RaftStep, ClerkStep
    PROVE  RequestInv'
<1>1. RaftTypes /\ RaftTypes' /\ ClerkTypes /\ ClerkTypes' /\ Advances
  BY RaftKeeps DEF TypeInv, RaftNextInv
<1>2. CASE \A c \in Clerk : Keeps(c)
  <2>1. CASE NoNewEntries
    BY <1>1, <1>2, <2>1, RequestsOfOldEntries
  <2>2. ASSUME NEW s \in Server, Proposes(s, NoopOp) PROVE RequestInv'
    BY <1>1, <1>2, <2>2, RequestsOfProposal
  <2>3. ASSUME NEW s \in Server, NEW c \in Clerk, call[c].pc = "propose", Proposes(s, call[c].op)
        PROVE  RequestInv'
    BY <1>1, <1>2, <2>3, RequestsOfProposal
  <2> QED BY <1>1, <2>1, <2>2, <2>3, RaftEntries
<1>3. ASSUME NEW c \in Clerk, BeginsWrite(c) \/ BeginsRead(c) \/ EndsWrite(c) \/ EndsRead(c)
      PROVE  RequestInv'
  BY <1>1, <1>3, RequestsOfCalls
<1> QED BY <1>2, <1>3 DEF ClerkStep

(***************************************************************************)
(* The invariant: calls and loops.                                         *)
(***************************************************************************)

\* A call was made in a term that had begun, and if somebody still leads that
\* term it is the replica the call is at.
CallTerm(c) ==
    call[c].pc \in {"register", "wait"} =>
        /\ call[c].term <= won
        /\ \A s \in Server : leads[s] /\ term[s] = call[c].term => s = lastKnown[c]

\* A read that does not see the floor yet is for a later term than the floor's.
FloorKept(c) ==
    call[c].pc \in {"readTerm", "readNoop"} =>
        \/ floor[c] <= applied[lastKnown[c]]
        \/ /\ floor[c] \in 1 .. Len(chosen)
           /\ call[c].pc = "readTerm" => chosen[floor[c]].term < term[lastKnown[c]]
           /\ call[c].pc = "readNoop" => chosen[floor[c]].term < call[c].term

Fresher(c) == call[c].pc = "readStore" => applied[lastKnown[c]] >= floor[c]

CallInv(c) == Told(c) /\ CallTerm(c) /\ FloorKept(c) /\ Fresher(c)

\* A channel is that of a call that waits for its index.
Registered ==
    \A s \in Server, c \in Clerk : \A i \in DOMAIN notifyChans[s] :
        notifyChans[s][i] = c => call[c].pc = "wait" /\ lastKnown[c] = s /\ call[c].index = i

\* The leader that acknowledged an entry of its term has applied it.
AckedApplied ==
    acked # 0 => /\ acked \in 1 .. Len(chosen)
                 /\ \A s \in Server :
                       leads[s] /\ term[s] = chosen[acked].term => acked <= applied[s]

\* The no-op of a term is one of that term's entries.
NoopApplied ==
    \A s \in Server :
        /\ noopAppliedTerm[s] <= term[s]
        /\ noopAppliedTerm[s] # 0 => \E j \in 1 .. applied[s] : chosen[j].term = noopAppliedTerm[s]

ServiceInv == (\A c \in Clerk : CallInv(c)) /\ Registered /\ AckedApplied /\ NoopApplied

\* What no step of the service undoes.
Forward ==
    /\ Advances
    /\ \A s \in Server : leads'[s] /\ term'[s] <= won => leads[s] /\ term'[s] = term[s]

LEMMA RaftForward ==
    ASSUME RaftTypes, RaftInv, RaftStep
    PROVE  Forward
<1>1. RaftNextInv
  BY RaftKeeps
<1>2. CASE UNCHANGED raftVars
  BY <1>1, <1>2 DEF Forward, RaftNextInv, raftVars
<1>3. ASSUME NEW s \in Server, Win(s) PROVE Forward
  <2>1. PICK t : t = Larger(term[s], won) + 1
    OBVIOUS
  <2>2. term' = [term EXCEPT ![s] = t] /\ leads' = [leads EXCEPT ![s] = TRUE]
    BY <1>3, <2>1 DEF Win
  <2>3. t \in Nat /\ ~(t <= won)
    <3>1. PICK v \in Nat, w \in Nat : v = term[s] /\ w = won
      BY TermsAreNat
    <3>2. t = (IF v > w THEN v ELSE w) + 1
      BY <2>1, <3>1 DEF Larger
    <3> QED BY <3>1, <3>2
  <2>4. term'[s] = t /\ \A q \in Server \ {s} : term'[q] = term[q] /\ leads'[q] = leads[q]
    BY <2>2 DEF RaftTypes
  <2> QED BY <1>1, <2>3, <2>4 DEF Forward, RaftNextInv
<1>4. ASSUME NEW s \in Server, StepDown(s) PROVE Forward
  <2>1. leads' = [leads EXCEPT ![s] = FALSE] /\ \E t : term' = [term EXCEPT ![s] = t]
    BY <1>4 DEF StepDown
  <2>2. \A q \in Server \ {s} : leads'[q] = leads[q] /\ term'[q] = term[q]
    BY <2>1 DEF RaftTypes
  <2>3. ~leads'[s]
    BY <2>1 DEF RaftTypes
  <2> QED BY <1>1, <2>2, <2>3 DEF Forward, RaftNextInv
<1>5. ASSUME NEW s \in Server, Loses(s) PROVE Forward
  <2>1. term' = term /\ \A q \in Server : leads'[q] => leads[q]
    BY <1>5 DEF Loses, RaftTypes
  <2> QED BY <1>1, <2>1 DEF Forward, RaftNextInv
<1>6. ASSUME NEW s \in Server, NEW op, Commit(s) \/ Proposes(s, op) PROVE Forward
  BY <1>1, <1>6 DEF Commit, Proposes, Forward, RaftNextInv
<1> QED BY <1>2, <1>3, <1>4, <1>5, <1>6 DEF RaftStep

LEMMA ChosenStays ==
    ASSUME RaftTypes, RaftTypes', Advances
    PROVE  /\ Len(chosen) \in Nat /\ Len(chosen') \in Nat /\ Len(chosen) <= Len(chosen')
           /\ \A i \in 1 .. Len(chosen) : i \in 1 .. Len(chosen') /\ chosen'[i] = chosen[i]
                                          /\ chosen[i] \in Entry /\ chosen[i].term \in Nat
<1>1. \A i \in 1 .. Len(chosen) : chosen[i] \in Entry
  BY DEF RaftTypes
<1>2. Len(chosen) \in Nat /\ Len(chosen') \in Nat
  BY DEF RaftTypes
<1> QED BY <1>1, <1>2, EntryIs, PrefixTerms, ServiceAssumption DEF RaftTypes, Advances, Begins

\* The call goes on as it was, at a replica that has not lost what it applied.
Stays(c) ==
    /\ call'[c] = call[c] /\ lastKnown'[c] = lastKnown[c] /\ ch'[c] = ch[c]
    /\ floor'[c] = floor[c] /\ applied[lastKnown[c]] <= applied'[lastKnown[c]]

LEMMA StaysInv ==
    ASSUME RaftTypes, RaftTypes', LoopTypes, LoopTypes', ClerkTypes, Progress, Forward,
           NEW c \in Clerk, CallInv(c), Stays(c)
    PROVE  CallInv(c)'
<1>1. PICK s \in Server : s = lastKnown[c]
  BY DEF ClerkTypes
<1>2. PICK a \in Nat, b \in Nat, k \in Nat, n \in Nat, f \in Nat :
         /\ a = applied[s] /\ b = applied'[s] /\ a <= b /\ k = Len(chosen) /\ n = Len(chosen')
         /\ k <= n /\ a <= k /\ f = floor[c]
  BY <1>1, ChosenStays DEF LoopTypes, Stays, Forward, Progress, ClerkTypes
<1>3. \A i \in 1 .. k : i \in 1 .. n /\ chosen'[i] = chosen[i] /\ chosen[i].term \in Nat
  BY <1>2, ChosenStays DEF Forward
<1>4. call[c].term \in Nat /\ floor[c] \in Nat /\ won \in Nat /\ won' \in Nat /\ won <= won'
      /\ term[s] \in Nat /\ term'[s] \in Nat /\ term[s] <= term'[s]
  BY TermsAreNat, CallFields DEF ClerkTypes, RaftTypes, Forward, Advances
<1>5. Told(c)'
  <2> SUFFICES ASSUME ch[c] # Nil
               PROVE  /\ call[c].pc = "wait" /\ call[c].index \in 1 .. b
                      /\ chosen'[call[c].index].op = ch[c].op
    BY <1>1, <1>2 DEF Told, Stays
  <2>1. /\ call[c].pc = "wait" /\ call[c].index \in 1 .. a
        /\ chosen[call[c].index].op = ch[c].op
    BY <1>1, <1>2 DEF CallInv, Told
  <2>2. call[c].index \in 1 .. b /\ call[c].index \in 1 .. k
    BY <1>2, <2>1
  <2> QED BY <1>3, <2>1, <2>2
<1>6. CallTerm(c)'
  <2> SUFFICES ASSUME call[c].pc \in {"register", "wait"}
               PROVE  /\ call[c].term <= won'
                      /\ \A q \in Server : leads'[q] /\ term'[q] = call[c].term => q = s
    BY <1>1 DEF Stays, CallTerm
  <2> QED BY <1>1, <1>4 DEF CallInv, CallTerm, Forward
<1>7. FloorKept(c)'
  <2> SUFFICES ASSUME call[c].pc \in {"readTerm", "readNoop"}
               PROVE  \/ f <= b
                      \/ /\ f \in 1 .. n
                         /\ call[c].pc = "readTerm" => chosen'[f].term < term'[s]
                         /\ call[c].pc = "readNoop" => chosen'[f].term < call[c].term
    BY <1>1, <1>2 DEF Stays, FloorKept
  <2>1. f <= a => f <= b
    BY <1>2
  <2>2. CASE /\ f \in 1 .. k
             /\ call[c].pc = "readTerm" => chosen[f].term < term[s]
             /\ call[c].pc = "readNoop" => chosen[f].term < call[c].term
    BY <1>3, <1>4, <2>2
  <2> QED BY <1>1, <1>2, <2>1, <2>2 DEF CallInv, FloorKept
<1>8. Fresher(c)'
  <2>1. call[c].pc = "readStore" => a >= f
    BY <1>1, <1>2 DEF CallInv, Fresher
  <2>2. a >= f => b >= f
    BY <1>2
  <2> QED BY <1>1, <1>2, <2>1, <2>2 DEF Fresher, Stays
<1> QED BY <1>5, <1>6, <1>7, <1>8 DEF CallInv

\* The clerk is at no replica.
LEMMA AwayInv ==
    ASSUME NEW c \in Clerk, call'[c].pc \in {"idle", "propose", "read"}, ch'[c] = Nil
    PROVE  CallInv(c)'
BY DEF CallInv, Told, CallTerm, FloorKept, Fresher

LEMMA AckedKept ==
    ASSUME RaftTypes, RaftTypes', LoopTypes, LoopTypes', RaftInv, Forward, AckedApplied,
           acked' = acked, acked \in Nat,
           \A s \in Server : leads'[s] => applied[s] <= applied'[s]
    PROVE  AckedApplied'
<1> SUFFICES ASSUME acked # 0
             PROVE  /\ acked \in 1 .. Len(chosen')
                    /\ \A s \in Server :
                          leads'[s] /\ term'[s] = chosen'[acked].term => acked <= applied'[s]
  BY DEF AckedApplied
<1>1. acked \in 1 .. Len(chosen)
  BY DEF AckedApplied
<1>2. acked \in 1 .. Len(chosen') /\ chosen'[acked] = chosen[acked]
  BY <1>1, ChosenStays DEF Forward
<1>3. chosen[acked].term <= won
  BY <1>1 DEF RaftInv, EntryTerms, Logs
<1>4. ASSUME NEW s \in Server, leads'[s], term'[s] = chosen'[acked].term PROVE acked <= applied'[s]
  <2>1. leads[s] /\ term[s] = chosen[acked].term
    BY <1>2, <1>3, <1>4 DEF Forward
  <2>2. acked <= applied[s] /\ applied[s] <= applied'[s]
    BY <1>4, <2>1 DEF AckedApplied
  <2> QED BY <2>2 DEF LoopTypes
<1> QED BY <1>2, <1>4

LEMMA NoopKept ==
    ASSUME RaftTypes, RaftTypes', LoopTypes, LoopTypes', Progress, Forward, NoopApplied,
           \A s \in Server : \/ noopAppliedTerm'[s] = 0
                             \/ /\ noopAppliedTerm'[s] = noopAppliedTerm[s]
                                /\ applied[s] <= applied'[s]
    PROVE  NoopApplied'
<1> SUFFICES ASSUME NEW s \in Server
             PROVE  /\ noopAppliedTerm'[s] <= term'[s]
                    /\ noopAppliedTerm'[s] # 0
                          => \E j \in 1 .. applied'[s] : chosen'[j].term = noopAppliedTerm'[s]
  BY DEF NoopApplied
<1>0. term[s] \in Nat /\ term'[s] \in Nat
  BY ServiceAssumption DEF RaftTypes
<1>1. PICK a \in Nat, b \in Nat, x \in Nat, y \in Nat, v \in Nat :
         a = applied[s] /\ b = applied'[s] /\ x = term[s] /\ y = term'[s] /\ v = noopAppliedTerm[s]
  BY <1>0 DEF LoopTypes
<1>2. x <= y
  BY <1>1 DEF Forward, Advances
<1>3. CASE noopAppliedTerm'[s] = 0
  BY <1>1, <1>3
<1>4. CASE noopAppliedTerm'[s] = v /\ a <= b
  <2>1. v <= y
    BY <1>1, <1>2 DEF NoopApplied
  <2>2. ASSUME v # 0 PROVE \E j \in 1 .. b : chosen'[j].term = v
    <3>1. PICK j \in 1 .. a : chosen[j].term = v
      BY <1>1, <2>2 DEF NoopApplied
    <3>2. PICK k \in Nat : k = Len(chosen) /\ a <= k
      BY <1>1, ChosenStays DEF Forward, Progress
    <3>3. j \in 1 .. Len(chosen) /\ j \in 1 .. b
      BY <1>4, <3>2
    <3>4. chosen'[j] = chosen[j]
      BY <3>3, ChosenStays DEF Forward
    <3> QED BY <3>1, <3>3, <3>4
  <2> QED BY <1>1, <1>4, <2>1, <2>2
<1> QED BY <1>1, <1>3, <1>4

LEMMA NoServerStep ==
    ASSUME TypeInv, TypeInv', RaftInv, Forward, ServiceInv,
           UNCHANGED <<applied, noopAppliedTerm, notifyChans, ch>>,
           UNCHANGED <<call, lastKnown, acked, floor>>
    PROVE  ServiceInv'
<1>0. /\ RaftTypes /\ RaftTypes' /\ LoopTypes /\ LoopTypes' /\ ClerkTypes /\ Progress
      /\ Registered /\ AckedApplied /\ NoopApplied
  BY DEF TypeInv, ServiceInv
<1>1. \A s \in Server : applied[s] \in Nat /\ applied[s] <= applied'[s]
  BY <1>0 DEF LoopTypes
<1>2. \A c \in Clerk : Stays(c)
  BY <1>0, <1>1 DEF Stays, ClerkTypes
<1>3. \A c \in Clerk : CallInv(c)'
  BY <1>0, <1>2, StaysInv DEF ServiceInv
<1>4. Registered'
  BY <1>0 DEF Registered
<1>5. acked' = acked /\ acked \in Nat
  BY <1>0 DEF ClerkTypes
<1>6. AckedApplied'
  BY <1>0, <1>1, <1>5, AckedKept
<1>7. NoopApplied'
  BY <1>0, <1>1, NoopKept
<1> QED BY <1>3, <1>4, <1>6, <1>7 DEF ServiceInv

\* The clerk's channel is not in the map unless it waits, nor once deleted.
LEMMA HandlerChans ==
    ASSUME LoopTypes, ClerkTypes, Registered, NEW c \in Clerk,
           \/ notifyChans' = notifyChans /\ call[c].pc # "wait"
           \/ notifyChans' = [notifyChans EXCEPT ![lastKnown[c]] = Without(@, call[c].index)],
           \A d \in Clerk \ {c} : call'[d] = call[d] /\ lastKnown'[d] = lastKnown[d]
    PROVE  Registered'
<1> SUFFICES ASSUME NEW s \in Server, NEW d \in Clerk, NEW i \in DOMAIN notifyChans'[s],
                    notifyChans'[s][i] = d
             PROVE  call'[d].pc = "wait" /\ lastKnown'[d] = s /\ call'[d].index = i
  BY DEF Registered
<1>1. PICK p \in Server : p = lastKnown[c]
  BY DEF ClerkTypes
<1>2. CASE notifyChans' = notifyChans /\ call[c].pc # "wait"
  BY <1>2 DEF Registered
<1>3. CASE notifyChans' = [notifyChans EXCEPT ![p] = Without(notifyChans[p], call[c].index)]
  <2>1. CASE s # p
    <3>1. notifyChans'[s] = notifyChans[s]
      BY <1>3, <2>1 DEF LoopTypes
    <3>2. call[d].pc = "wait" /\ lastKnown[d] = s /\ call[d].index = i
      BY <3>1 DEF Registered
    <3> QED BY <1>1, <2>1, <3>2
  <2>2. CASE s = p
    <3>1. notifyChans'[s] = Without(notifyChans[s], call[c].index)
      BY <1>3, <2>2 DEF LoopTypes
    <3>2. i \in DOMAIN notifyChans[s] /\ i # call[c].index /\ notifyChans[s][i] = d
      BY <3>1 DEF Without
    <3>3. call[d].pc = "wait" /\ lastKnown[d] = s /\ call[d].index = i
      BY <3>2 DEF Registered
    <3> QED BY <3>2, <3>3
  <2> QED BY <2>1, <2>2
<1> QED BY <1>1, <1>2, <1>3

LEMMA OneClerk ==
    ASSUME TypeInv, TypeInv', RaftInv, Forward, ServiceInv, NEW c \in Clerk,
           UNCHANGED <<applied, noopAppliedTerm>>,
           \A d \in Clerk \ {c} : /\ call'[d] = call[d] /\ lastKnown'[d] = lastKnown[d]
                                  /\ ch'[d] = ch[d] /\ floor'[d] = floor[d],
           CallInv(c)', Registered', acked' = acked \/ AckedApplied'
    PROVE  ServiceInv'
<1>0. /\ RaftTypes /\ RaftTypes' /\ LoopTypes /\ LoopTypes' /\ ClerkTypes /\ Progress
      /\ AckedApplied /\ NoopApplied /\ acked \in Nat
  BY DEF TypeInv, ServiceInv, ClerkTypes
<1>1. \A s \in Server : applied[s] \in Nat /\ applied[s] <= applied'[s]
  BY <1>0 DEF LoopTypes
<1>2. \A d \in Clerk \ {c} : Stays(d)
  BY <1>0, <1>1 DEF Stays, ClerkTypes
<1>3. \A d \in Clerk : CallInv(d)'
  BY <1>0, <1>2, StaysInv DEF ServiceInv
<1>4. AckedApplied'
  BY <1>0, <1>1, AckedKept
<1>5. NoopApplied'
  BY <1>0, <1>1, NoopKept
<1> QED BY <1>3, <1>4, <1>5 DEF ServiceInv

\* The handler answers that the clerk is to try elsewhere.
LEMMA RefusedInv ==
    ASSUME TypeInv, TypeInv', RaftInv, Forward, ServiceInv, NEW c \in Clerk, Refused(c),
           call[c].pc # "idle",
           \/ UNCHANGED loopVars /\ call[c].pc # "wait"
           \/ deleteChan(c)
    PROVE  ServiceInv'
<1>0. LoopTypes /\ LoopTypes' /\ ClerkTypes /\ Registered /\ CallInv(c)
  BY DEF TypeInv, ServiceInv
<1>1. PICK x \in Call : call' = [call EXCEPT ![c] = x] /\ x.pc \in {"propose", "read"}
  BY <1>0, RefusedIs
<1>2. call'[c] = x /\ \A d \in Clerk \ {c} : call'[d] = call[d]
  BY <1>0, <1>1 DEF ClerkTypes
<1>3. UNCHANGED <<acked, floor>> /\ \A d \in Clerk \ {c} : lastKnown'[d] = lastKnown[d]
  BY <1>0 DEF Refused, NextServer, ClerkTypes
<1>4. /\ UNCHANGED <<applied, noopAppliedTerm>> /\ ch'[c] = Nil
      /\ \A d \in Clerk \ {c} : ch'[d] = ch[d]
      /\ \/ notifyChans' = notifyChans /\ call[c].pc # "wait"
         \/ notifyChans' = [notifyChans EXCEPT ![lastKnown[c]] = Without(@, call[c].index)]
  BY <1>0 DEF deleteChan, loopVars, LoopTypes, CallInv, Told
<1>5. CallInv(c)'
  BY <1>1, <1>2, <1>4, AwayInv
<1>6. Registered'
  BY <1>0, <1>2, <1>3, <1>4, HandlerChans
<1> QED BY <1>2, <1>3, <1>4, <1>5, <1>6, OneClerk

LEMMA TakenInv ==
    ASSUME TypeInv, TypeInv', RaftInv, Forward, ServiceInv, NEW c \in Clerk, Taken(c),
           call[c].pc = "propose", UNCHANGED loopVars
    PROVE  ServiceInv'
<1>0. LoopTypes /\ LoopTypes' /\ ClerkTypes /\ Registered /\ CallInv(c)
  BY DEF TypeInv, ServiceInv
<1>1. PICK x \in Call : call' = [call EXCEPT ![c] = x] /\ x.pc = "register" /\ x.term = term[lastKnown[c]]
  BY proposeCallIs
<1>2. call'[c] = x /\ \A d \in Clerk \ {c} : call'[d] = call[d]
  BY <1>0, <1>1 DEF ClerkTypes
<1>3. /\ UNCHANGED <<lastKnown, acked, floor>> /\ leads[lastKnown[c]]
      /\ UNCHANGED <<term, leads, won>> /\ UNCHANGED <<applied, noopAppliedTerm, notifyChans, ch>>
  BY DEF Taken, Propose, loopVars
<1>4. ch'[c] = Nil
  BY <1>0, <1>3 DEF CallInv, Told
<1>5. CallTerm(c)'
  <2>1. lastKnown[c] \in Server
    BY <1>0 DEF ClerkTypes
  <2>2. term[lastKnown[c]] <= won
    BY <1>3, <2>1 DEF RaftInv, LeaderTerms
  <2> QED BY <1>1, <1>2, <1>3, <2>1, <2>2 DEF CallTerm, RaftInv, LeaderTerms
<1>6. CallInv(c)'
  BY <1>1, <1>2, <1>4, <1>5 DEF CallInv, Told, FloorKept, Fresher
<1>7. Registered'
  BY <1>0, <1>2, <1>3, HandlerChans
<1> QED BY <1>2, <1>3, <1>6, <1>7, OneClerk

LEMMA registerCallInv ==
    ASSUME TypeInv, TypeInv', RaftInv, Forward, ServiceInv, NEW c \in Clerk, registerCall(c)
    PROVE  ServiceInv'
<1>0. LoopTypes /\ LoopTypes' /\ ClerkTypes /\ Registered /\ CallInv(c)
  BY DEF TypeInv, ServiceInv
<1>1. "wait" \in {"idle"} \cup Writing \cup Reading
  BY DEF Writing
<1>2. PICK x \in Call : /\ x.pc = "wait" /\ x.index = call[c].index /\ x.term = call[c].term
                        /\ call' = [call EXCEPT ![c] = x]
  BY <1>0, <1>1, StepToType DEF registerCall
<1>3. call'[c] = x /\ \A d \in Clerk \ {c} : call'[d] = call[d]
  BY <1>0, <1>2 DEF ClerkTypes
<1>4. /\ UNCHANGED <<lastKnown, acked, floor>> /\ UNCHANGED <<term, leads, won>>
      /\ UNCHANGED <<applied, noopAppliedTerm, ch>> /\ call[c].pc = "register"
  BY DEF registerCall, raftVars
<1>5. CallInv(c)'
  <2>1. ch'[c] = Nil
    BY <1>0, <1>4 DEF CallInv, Told
  <2>2. CallTerm(c)'
    BY <1>0, <1>2, <1>3, <1>4 DEF CallInv, CallTerm
  <2> QED BY <1>2, <1>3, <2>1, <2>2 DEF CallInv, Told, FloorKept, Fresher
<1>6. Registered'
  <2> SUFFICES ASSUME NEW s \in Server, NEW d \in Clerk, NEW i \in DOMAIN notifyChans'[s],
                      notifyChans'[s][i] = d
               PROVE  call'[d].pc = "wait" /\ lastKnown'[d] = s /\ call'[d].index = i
    BY DEF Registered
  <2>1. PICK p \in Server, n \in Nat : p = lastKnown[c] /\ n = call[c].index
    BY <1>0, CallFields DEF ClerkTypes
  <2>2. PICK f : f = notifyChans[p]
    OBVIOUS
  <2>3. notifyChans' = [notifyChans EXCEPT ![p] = [j \in DOMAIN f \cup {n} |-> IF j = n THEN c ELSE f[j]]]
    BY <1>0, <2>1, <2>2 DEF registerCall, LoopTypes
  <2>4. CASE s # p
    <3>1. notifyChans'[s] = notifyChans[s]
      BY <1>0, <2>3, <2>4 DEF LoopTypes
    <3>2. call[d].pc = "wait" /\ lastKnown[d] = s /\ call[d].index = i
      BY <1>0, <3>1 DEF Registered
    <3> QED BY <1>3, <1>4, <3>2
  <2>5. CASE s = p
    <3>1. notifyChans'[s] = [j \in DOMAIN f \cup {n} |-> IF j = n THEN c ELSE f[j]]
      BY <1>0, <2>3, <2>5 DEF LoopTypes
    <3>2. CASE i = n
      <4>1. d = c
        BY <3>1, <3>2
      <4> QED BY <1>2, <1>3, <1>4, <2>1, <2>5, <3>2, <4>1
    <3>3. CASE i # n
      <4>1. i \in DOMAIN notifyChans[s] /\ notifyChans[s][i] = d
        BY <2>2, <2>5, <3>1, <3>3
      <4>2. call[d].pc = "wait" /\ lastKnown[d] = s /\ call[d].index = i
        BY <1>0, <4>1 DEF Registered
      <4> QED BY <1>3, <1>4, <4>2
    <3> QED BY <3>2, <3>3
  <2> QED BY <2>4, <2>5
<1> QED BY <1>3, <1>4, <1>5, <1>6, OneClerk

LEMMA notifiedInv ==
    ASSUME TypeInv, TypeInv', RaftInv, Forward, ServiceInv, NEW c \in Clerk, notified(c)
    PROVE  ServiceInv'
<1>0. LoopTypes /\ LoopTypes' /\ ClerkTypes /\ Registered /\ CallInv(c) /\ AckedApplied
  BY DEF TypeInv, ServiceInv
<1>1. call[c].pc = "wait" /\ ch[c] # Nil /\ deleteChan(c) /\ UNCHANGED raftVars
  BY DEF notified
<1>2. CASE Refused(c)
  BY <1>1, <1>2, RefusedInv
<1>3. CASE /\ Done(c)
           /\ acked' = IF OwnEntry(c) THEN Larger(acked, call[c].index) ELSE acked
           /\ UNCHANGED <<lastKnown, floor>>
  <2>1. PICK x \in Call : x.pc = "idle" /\ call' = [call EXCEPT ![c] = x]
    BY <1>0, <1>3, DoneType
  <2>2. call'[c] = x /\ \A d \in Clerk \ {c} : call'[d] = call[d]
    BY <1>0, <2>1 DEF ClerkTypes
  <2>3. /\ UNCHANGED <<applied, noopAppliedTerm>> /\ ch'[c] = Nil
        /\ \A d \in Clerk \ {c} : ch'[d] = ch[d]
        /\ notifyChans' = [notifyChans EXCEPT ![lastKnown[c]] = Without(@, call[c].index)]
    BY <1>0, <1>1 DEF deleteChan, LoopTypes
  <2>4. CallInv(c)'
    BY <2>1, <2>2, <2>3, AwayInv
  <2>5. Registered'
    BY <1>0, <1>3, <2>2, <2>3, HandlerChans
  <2>6. CASE acked' = acked
    BY <1>3, <2>2, <2>3, <2>4, <2>5, <2>6, OneClerk
  <2>7. CASE acked' # acked
    <3>1. PICK p \in Server : p = lastKnown[c]
      BY <1>0 DEF ClerkTypes
    <3>2. PICK m \in Nat, i \in Nat, a \in Nat, k \in Nat :
             m = acked /\ i = call[c].index /\ a = applied[p] /\ k = Len(chosen) /\ a <= k
      BY <1>0, <3>1, CallFields, TermsAreNat DEF ClerkTypes, LoopTypes, TypeInv, Progress
    <3>3. OwnEntry(c) /\ acked' = i
      BY <1>3, <2>7, <3>2 DEF Larger
    <3>4. i \in 1 .. a /\ i \in 1 .. k
      BY <1>0, <1>1, <3>1, <3>2 DEF CallInv, Told
    <3>5. chosen[i].term = call[c].term
      BY <3>2, <3>3 DEF OwnEntry
    <3>6. \A s \in Server : leads[s] /\ term[s] = call[c].term => s = p
      BY <1>0, <1>1, <3>1 DEF CallInv, CallTerm
    <3>7. \A s \in Server : leads[s] /\ term[s] = chosen[i].term => i <= applied[s]
      BY <3>2, <3>4, <3>5, <3>6
    <3>8. UNCHANGED <<chosen, leads, term>>
      BY <1>1 DEF raftVars
    <3>9. AckedApplied'
      BY <2>3, <3>2, <3>3, <3>4, <3>7, <3>8 DEF AckedApplied
    <3> QED BY <1>3, <2>2, <2>3, <2>4, <2>5, <3>9, OneClerk
  <2> QED BY <2>6, <2>7
<1> QED BY <1>2, <1>3 DEF notified

\* Steps of a read, and calls that begin or end without a channel.
LEMMA ReaderInv ==
    ASSUME TypeInv, TypeInv', RaftInv, Forward, ServiceInv, NEW c \in Clerk, NEW x \in Call,
           call' = [call EXCEPT ![c] = x], call[c].pc # "wait", UNCHANGED loopVars,
           UNCHANGED <<lastKnown, acked>>, \A d \in Clerk \ {c} : floor'[d] = floor[d],
           x.pc \notin {"register", "wait"}, FloorKept(c)', Fresher(c)'
    PROVE  ServiceInv'
<1>0. LoopTypes /\ ClerkTypes /\ Registered /\ CallInv(c)
  BY DEF TypeInv, ServiceInv
<1>1. call'[c] = x /\ \A d \in Clerk \ {c} : call'[d] = call[d]
  BY <1>0 DEF ClerkTypes
<1>2. UNCHANGED <<applied, noopAppliedTerm, notifyChans, ch>>
  BY DEF loopVars
<1>3. ch'[c] = Nil
  BY <1>0, <1>2 DEF CallInv, Told
<1>4. CallInv(c)'
  BY <1>1, <1>3 DEF CallInv, Told, CallTerm
<1>5. Registered'
  BY <1>0, <1>1, <1>2, HandlerChans
<1> QED BY <1>1, <1>2, <1>4, <1>5, OneClerk

LEMMA readStateInv ==
    ASSUME TypeInv, TypeInv', RaftInv, Forward, ServiceInv, NEW c \in Clerk, readState(c)
    PROVE  ServiceInv'
<1>0. LoopTypes /\ ClerkTypes /\ RaftTypes /\ Progress /\ AckedApplied
  BY DEF TypeInv, ServiceInv
<1>1. call[c].pc = "read" /\ UNCHANGED loopVars /\ UNCHANGED raftVars
  BY DEF readState
<1>2. CASE Refused(c)
  BY <1>1, <1>2, RefusedInv
<1>3. CASE /\ leads[lastKnown[c]] /\ StepTo(c, "readTerm")
           /\ floor' = [floor EXCEPT ![c] = IF Leading(lastKnown[c]) THEN acked ELSE 0]
           /\ UNCHANGED <<lastKnown, acked>>
  <2>1. "readTerm" \in {"idle"} \cup Writing \cup Reading
    BY DEF Reading
  <2>2. PICK x \in Call : x.pc = "readTerm" /\ call' = [call EXCEPT ![c] = x]
    BY <1>0, <1>3, <2>1, StepToType
  <2>3. call'[c] = x
    BY <1>0, <2>2 DEF ClerkTypes
  <2>4. PICK s \in Server, a \in Nat, f \in Nat :
           s = lastKnown[c] /\ a = applied[s] /\ f = (IF Leading(s) THEN acked ELSE 0)
    BY <1>0 DEF ClerkTypes, LoopTypes
  <2>5. floor' = [floor EXCEPT ![c] = f]
    BY <1>3, <2>4
  <2>6. floor'[c] = f /\ \A d \in Clerk \ {c} : floor'[d] = floor[d]
    BY <1>0, <2>5 DEF ClerkTypes
  <2>7. f <= a \/ (f \in 1 .. Len(chosen) /\ chosen[f].term < term[s])
    <3> SUFFICES ASSUME f # 0 PROVE f <= a \/ (f \in 1 .. Len(chosen) /\ chosen[f].term < term[s])
      BY <2>4
    <3>1. f = acked /\ leads[s] /\ term[s] = won
      BY <2>4 DEF Leading
    <3>2. f \in 1 .. Len(chosen) /\ (leads[s] /\ term[s] = chosen[f].term => f <= a)
      BY <1>0, <2>4, <3>1 DEF AckedApplied
    <3>3. chosen[f].term <= won
      BY <3>2 DEF RaftInv, EntryTerms, Logs
    <3>4. chosen[f].term \in Nat /\ won \in Nat
      <4>1. chosen[f] \in Entry
        BY <1>0, <3>2 DEF RaftTypes
      <4> QED BY <1>0, <4>1, EntryIs, TermsAreNat, ServiceAssumption
    <3> QED BY <3>1, <3>2, <3>3, <3>4
  <2>8. UNCHANGED <<chosen, term, applied>>
    BY <1>1 DEF raftVars, loopVars
  <2>9. FloorKept(c)'
    BY <1>3, <2>2, <2>3, <2>4, <2>6, <2>7, <2>8 DEF FloorKept
  <2>10. Fresher(c)'
    BY <2>2, <2>3 DEF Fresher
  <2> QED BY <1>1, <1>3, <2>2, <2>6, <2>9, <2>10, ReaderInv
<1> QED BY <1>2, <1>3 DEF readState

LEMMA readTermInv ==
    ASSUME TypeInv, TypeInv', RaftInv, Forward, ServiceInv, NEW c \in Clerk, readTerm(c)
    PROVE  ServiceInv'
<1>0. ClerkTypes /\ CallInv(c)
  BY DEF TypeInv, ServiceInv
<1>1. PICK x \in Call : call' = [call EXCEPT ![c] = x] /\ x.pc = "readNoop" /\ x.term = term[lastKnown[c]]
  BY readTermIs
<1>2. call'[c] = x
  BY <1>0, <1>1 DEF ClerkTypes
<1>3. /\ call[c].pc = "readTerm" /\ UNCHANGED loopVars /\ UNCHANGED raftVars
      /\ UNCHANGED <<lastKnown, acked, floor>>
  BY DEF readTerm
<1>4. UNCHANGED <<chosen, applied>>
  BY <1>3 DEF loopVars, raftVars
<1>5. FloorKept(c)'
  BY <1>0, <1>1, <1>2, <1>3, <1>4 DEF CallInv, FloorKept
<1>6. Fresher(c)'
  BY <1>1, <1>2 DEF Fresher
<1> QED BY <1>1, <1>3, <1>5, <1>6, ReaderInv

\* The no-op of the term the read is for has been applied: so has the floor.
LEMMA readNoopInv ==
    ASSUME TypeInv, TypeInv', RaftInv, Forward, ServiceInv, NEW c \in Clerk, readNoop(c)
    PROVE  ServiceInv'
<1>0. LoopTypes /\ ClerkTypes /\ RaftTypes /\ Progress /\ CallInv(c) /\ NoopApplied
  BY DEF TypeInv, ServiceInv
<1>1. call[c].pc = "readNoop" /\ UNCHANGED loopVars /\ UNCHANGED raftVars
  BY DEF readNoop
<1>2. CASE Refused(c)
  BY <1>1, <1>2, RefusedInv
<1>3. CASE Ready(c) /\ StepTo(c, "readStore") /\ UNCHANGED <<lastKnown, acked, floor>>
  <2>1. "readStore" \in {"idle"} \cup Writing \cup Reading
    BY DEF Reading
  <2>2. PICK x \in Call : x.pc = "readStore" /\ call' = [call EXCEPT ![c] = x]
    BY <1>0, <1>3, <2>1, StepToType
  <2>3. call'[c] = x
    BY <1>0, <2>2 DEF ClerkTypes
  <2>4. PICK s \in Server, a \in Nat, f \in Nat, k \in Nat, t \in Nat :
           /\ s = lastKnown[c] /\ a = applied[s] /\ f = floor[c] /\ k = Len(chosen) /\ a <= k
           /\ t = call[c].term
    BY <1>0, CallFields, TermsAreNat DEF ClerkTypes, LoopTypes, Progress
  <2>5. f <= a
    <3> SUFFICES ASSUME ~(f <= a) PROVE FALSE
      OBVIOUS
    <3>1. f \in 1 .. k /\ chosen[f].term < t
      BY <1>0, <1>1, <2>4 DEF CallInv, FloorKept
    <3>2. \A i \in 1 .. k : chosen[i].term \in Nat
      <4>1. \A i \in 1 .. k : chosen[i] \in Entry
        BY <1>0, <2>4 DEF RaftTypes
      <4> QED BY <4>1, EntryIs, ServiceAssumption
    <3>3. t # 0 /\ noopAppliedTerm[s] = t
      BY <1>3, <2>4, <3>1, <3>2 DEF Ready
    <3>4. PICK j \in 1 .. a : chosen[j].term = t
      BY <1>0, <2>4, <3>3 DEF NoopApplied
    <3>5. j \in 1 .. k /\ j <= f
      BY <2>4, <3>1
    <3>6. chosen[j].term <= chosen[f].term
      BY <2>4, <3>1, <3>5 DEF RaftInv, EntryTerms, Logs
    <3> QED BY <3>1, <3>2, <3>4, <3>6
  <2>6. UNCHANGED applied
    BY <1>1 DEF loopVars
  <2>7. Fresher(c)'
    BY <1>3, <2>4, <2>5, <2>6 DEF Fresher
  <2>8. FloorKept(c)'
    BY <2>2, <2>3 DEF FloorKept
  <2> QED BY <1>1, <1>3, <2>2, <2>7, <2>8, ReaderInv
<1> QED BY <1>2, <1>3 DEF readNoop

LEMMA CallsOverInv ==
    ASSUME TypeInv, TypeInv', RaftInv, Forward, ServiceInv, NEW c \in Clerk,
           putAppend(c) \/ Get(c) \/ readStore(c)
    PROVE  ServiceInv'
<1>0. ClerkTypes
  BY DEF TypeInv
<1>1. \E x \in Call : call' = [call EXCEPT ![c] = x] /\ x.pc \in {"idle", "propose", "read"}
  <2>1. CASE putAppend(c)
    <3>1. PICK t \in Types : Begin(c, "propose", [clerk |-> c, seq |-> calls[c] + 1, type |-> t])
      BY <2>1 DEF putAppend
    <3>2. calls[c] + 1 \in 1 .. MaxCalls
      BY <1>0, <3>1, KVAssumption DEF Begin, ClerkTypes
    <3>3. [clerk |-> c, seq |-> calls[c] + 1, type |-> t] \in Op \cup {Nil}
      BY <3>2 DEF Op
    <3> QED BY <1>0, <3>1, <3>3, BeginIs
  <2>2. CASE Get(c)
    <3>1. Begin(c, "read", call[c].op)
      BY <2>2 DEF Get
    <3>2. call[c].op \in Op \cup {Nil}
      BY <1>0, CallFields DEF ClerkTypes
    <3> QED BY <1>0, <3>1, <3>2, BeginIs
  <2>3. CASE readStore(c)
    BY <1>0, <2>3, DoneType DEF readStore
  <2> QED BY <2>1, <2>2, <2>3
<1>2. PICK x \in Call : call' = [call EXCEPT ![c] = x] /\ x.pc \in {"idle", "propose", "read"}
  BY <1>1
<1>3. call'[c] = x
  BY <1>0, <1>2 DEF ClerkTypes
<1>4. call[c].pc # "wait" /\ UNCHANGED loopVars /\ UNCHANGED <<lastKnown, acked, floor>>
  BY DEF putAppend, Get, Begin, readStore
<1>5. FloorKept(c)' /\ Fresher(c)'
  BY <1>2, <1>3 DEF FloorKept, Fresher
<1> QED BY <1>2, <1>4, <1>5, ReaderInv

LEMMA applyLoopInv ==
    ASSUME TypeInv, TypeInv', RaftInv, Forward, ServiceInv, NEW s \in Server, applyLoop(s)
    PROVE  ServiceInv'
<1>0. /\ RaftTypes /\ RaftTypes' /\ LoopTypes /\ LoopTypes' /\ ClerkTypes /\ StoreTypes /\ Progress
      /\ Registered /\ AckedApplied /\ NoopApplied /\ acked \in Nat
  BY DEF TypeInv, ServiceInv, ClerkTypes
<1>1. PICK o : o = chosen[applied[s] + 1].op
  OBVIOUS
<1>2. Deliver(s, [op |-> o]) /\ [op |-> o] \in [op : Op \cup {NoopOp}]
  BY <1>0, <1>1, applyLoopIs
<1>3. PICK a \in Nat, i \in Nat, k \in Nat : a = applied[s] /\ i = a + 1 /\ k = Len(chosen)
  <2>1. PICK a \in Nat, k \in Nat : a = applied[s] /\ k = Len(chosen)
    BY <1>0, TermsAreNat DEF LoopTypes
  <2>2. a + 1 \in Nat
    OBVIOUS
  <2> QED BY <2>1, <2>2
<1>4. /\ i \in 1 .. k /\ chosen[i] \in Entry /\ applied'[s] = i
      /\ \A q \in Server \ {s} : applied'[q] = applied[q]
      /\ UNCHANGED <<raftVars, clerkVars>>
  BY <1>0, <1>2, <1>3, DeliverIs
<1>5. \A q \in Server : applied[q] \in Nat /\ applied[q] <= applied'[q]
  <2>1. \A q \in Server : applied[q] \in Nat
    BY <1>0 DEF LoopTypes
  <2>2. applied[s] <= applied'[s]
    BY <1>3, <1>4
  <2> QED BY <1>4, <2>1, <2>2
<1>6. UNCHANGED <<call, lastKnown, acked, floor>> /\ UNCHANGED <<chosen, term, leads, won>>
  BY <1>4 DEF raftVars, clerkVars
<1>7. AckedApplied'
  BY <1>0, <1>5, <1>6, AckedKept
<1>8. NoopApplied'
  <2>1. CASE o # NoopOp
    <3>1. noopAppliedTerm' = noopAppliedTerm
      BY <1>1, <1>2, <1>3, <2>1 DEF Deliver
    <3> QED BY <1>0, <1>5, <3>1, NoopKept
  <2>2. CASE o = NoopOp
    <3>1. noopAppliedTerm' = [noopAppliedTerm EXCEPT ![s] = chosen[i].term]
      BY <1>1, <1>2, <1>3, <2>2 DEF Deliver
    <3>2. noopAppliedTerm'[s] = chosen[i].term /\ \A q \in Server \ {s} : noopAppliedTerm'[q] = noopAppliedTerm[q]
      BY <1>0, <3>1 DEF LoopTypes
    <3>3. chosen[i].term <= chosenIn[i] /\ chosenIn[i] <= term[s]
      BY <1>2, <1>3, <1>4 DEF Deliver, RaftInv, CommitTerms
    <3>4. chosen[i].term \in Nat /\ chosenIn[i] \in Nat /\ term[s] \in Nat
      <4>1. chosenIn[i] \in 0 .. MaxTerm
        <5>1. PICK S : S = 0 .. MaxTerm
          OBVIOUS
        <5>2. chosenIn \in Seq(S) /\ Len(chosenIn) = k
          BY <1>0, <1>3, <5>1 DEF RaftTypes
        <5>3. chosenIn[i] \in S
          BY <1>4, <5>2
        <5> QED BY <5>1, <5>3
      <4> QED BY <1>0, <1>4, <4>1, EntryIs, TermsAreNat, ServiceAssumption
    <3>5. noopAppliedTerm'[s] <= term[s]
      BY <3>2, <3>3, <3>4
    <3>6. i \in 1 .. applied'[s]
      BY <1>4
    <3> QED BY <1>0, <1>4, <1>6, <3>2, <3>5, <3>6 DEF NoopApplied
  <2> QED BY <2>1, <2>2
<1>9. CASE i \notin DOMAIN notifyChans[s]
  <2>1. UNCHANGED <<ch, notifyChans>>
    BY <1>2, <1>3, <1>9 DEF Deliver
  <2>2. \A c \in Clerk : Stays(c)
    BY <1>0, <1>5, <1>6, <2>1 DEF Stays, ClerkTypes
  <2>3. \A c \in Clerk : CallInv(c)'
    BY <1>0, <2>2, StaysInv DEF ServiceInv
  <2>4. Registered'
    BY <1>0, <1>6, <2>1 DEF Registered
  <2> QED BY <1>7, <1>8, <2>3, <2>4 DEF ServiceInv
<1>10. CASE i \in DOMAIN notifyChans[s]
  <2>1. PICK f \in Chans : f = notifyChans[s]
    BY <1>0 DEF LoopTypes
  <2>2. PICK c \in Clerk : c = f[i]
    BY <1>10, <2>1, ChansAre
  <2>3. ch' = [ch EXCEPT ![c] = [op |-> o]] /\ notifyChans' = [notifyChans EXCEPT ![s] = Without(f, i)]
    BY <1>0, <1>2, <1>3, <1>10, <2>1, <2>2 DEF Deliver, LoopTypes
  <2>4. ch'[c] = [op |-> o] /\ \A d \in Clerk \ {c} : ch'[d] = ch[d]
    BY <1>0, <2>3 DEF LoopTypes
  <2>5. call[c].pc = "wait" /\ lastKnown[c] = s /\ call[c].index = i
    BY <1>0, <1>10, <2>1, <2>2 DEF Registered
  <2>6. \A d \in Clerk \ {c} : Stays(d)
    BY <1>0, <1>5, <1>6, <2>4 DEF Stays, ClerkTypes
  <2>7. \A d \in Clerk \ {c} : CallInv(d)'
    BY <1>0, <2>6, StaysInv DEF ServiceInv
  <2>8. CallInv(c)'
    <3>1. Told(c)'
      <4>1. i \in 1 .. applied'[s]
        BY <1>4
      <4>2. chosen[i].op = ch'[c].op
        BY <1>1, <1>3, <2>4
      <4> QED BY <1>6, <2>5, <4>1, <4>2 DEF Told
    <3>2. CallTerm(c)'
      BY <1>6 DEF ServiceInv, CallInv, CallTerm
    <3>3. FloorKept(c)' /\ Fresher(c)'
      BY <1>6, <2>5 DEF FloorKept, Fresher
    <3> QED BY <3>1, <3>2, <3>3 DEF CallInv
  <2>9. Registered'
    <3> SUFFICES ASSUME NEW q \in Server, NEW d \in Clerk, NEW j \in DOMAIN notifyChans'[q],
                        notifyChans'[q][j] = d
                 PROVE  call[d].pc = "wait" /\ lastKnown[d] = q /\ call[d].index = j
      BY <1>6 DEF Registered
    <3>1. CASE q # s
      <4>1. notifyChans'[q] = notifyChans[q]
        BY <1>0, <2>3, <3>1 DEF LoopTypes
      <4> QED BY <1>0, <4>1 DEF Registered
    <3>2. CASE q = s
      <4>1. notifyChans'[q] = Without(f, i)
        BY <1>0, <2>3, <3>2 DEF LoopTypes
      <4>2. j \in DOMAIN notifyChans[q] /\ notifyChans[q][j] = d
        BY <2>1, <3>2, <4>1 DEF Without
      <4> QED BY <1>0, <4>2 DEF Registered
    <3> QED BY <3>1, <3>2
  <2> QED BY <1>7, <1>8, <2>7, <2>8, <2>9 DEF ServiceInv
<1> QED BY <1>9, <1>10

LEMMA InstallInv ==
    ASSUME TypeInv, TypeInv', RaftInv, Forward, ServiceInv,
           NEW s \in Server, NEW p \in Server \ {s}, installSnapshot(s, p)
    PROVE  ServiceInv'
<1>0. /\ RaftTypes /\ RaftTypes' /\ LoopTypes /\ LoopTypes' /\ ClerkTypes /\ StoreTypes /\ Progress
      /\ Registered /\ AckedApplied /\ NoopApplied /\ acked \in Nat
  BY DEF TypeInv, ServiceInv, ClerkTypes
<1>1. PICK a \in Nat, i \in Nat : a = applied[s] /\ i = snapshot[p].index
  BY <1>0, SnapFields DEF LoopTypes, StoreTypes
<1>2. i > a /\ applied' = [applied EXCEPT ![s] = i]
      /\ UNCHANGED <<noopAppliedTerm, notifyChans, ch, call, lastKnown, acked, floor>>
  BY <1>1 DEF installSnapshot, clerkVars
<1>3. applied'[s] = i /\ \A q \in Server \ {s} : applied'[q] = applied[q]
  BY <1>0, <1>2 DEF LoopTypes
<1>4. \A q \in Server : applied[q] \in Nat /\ applied[q] <= applied'[q]
  BY <1>0, <1>1, <1>2, <1>3 DEF LoopTypes
<1>5. \A c \in Clerk : Stays(c)
  BY <1>0, <1>2, <1>4 DEF Stays, ClerkTypes
<1>6. \A c \in Clerk : CallInv(c)'
  BY <1>0, <1>5, StaysInv DEF ServiceInv
<1>7. Registered'
  BY <1>0, <1>2 DEF Registered
<1>8. AckedApplied'
  BY <1>0, <1>2, <1>4, AckedKept
<1>9. NoopApplied'
  BY <1>0, <1>2, <1>4, NoopKept
<1> QED BY <1>6, <1>7, <1>8, <1>9 DEF ServiceInv

\* Calls at the replica are over; what it had acknowledged it does not lead on.
LEMMA RestartInv ==
    ASSUME TypeInv, TypeInv', RaftInv, Forward, ServiceInv, NEW s \in Server, Restart(s)
    PROVE  ServiceInv'
<1>0. /\ RaftTypes /\ RaftTypes' /\ LoopTypes /\ LoopTypes' /\ ClerkTypes /\ StoreTypes /\ Progress
      /\ Registered /\ AckedApplied /\ NoopApplied /\ acked \in Nat
  BY DEF TypeInv, ServiceInv, ClerkTypes
<1>1. /\ leads' = [leads EXCEPT ![s] = FALSE]
      /\ applied' = [applied EXCEPT ![s] = snapshot[s].index]
      /\ noopAppliedTerm' = [noopAppliedTerm EXCEPT ![s] = 0]
      /\ notifyChans' = [notifyChans EXCEPT ![s] = <<>>]
      /\ ch' = [c \in Clerk |-> IF AtServer(c, s) THEN Nil ELSE ch[c]]
      /\ call' = [c \in Clerk |-> IF AtServer(c, s) THEN Restarted(c) ELSE call[c]]
      /\ lastKnown' = [c \in Clerk |-> IF AtServer(c, s) THEN (s + 1) % NumServers
                                       ELSE lastKnown[c]]
      /\ UNCHANGED <<acked, floor>>
  BY DEF Restart, Crash
<1>2. /\ ~leads'[s] /\ noopAppliedTerm'[s] = 0 /\ DOMAIN notifyChans'[s] = {}
      /\ \A q \in Server \ {s} : /\ applied'[q] = applied[q] /\ noopAppliedTerm'[q] = noopAppliedTerm[q]
                                 /\ notifyChans'[q] = notifyChans[q]
  BY <1>0, <1>1 DEF RaftTypes, LoopTypes
<1>3. ASSUME NEW c \in Clerk PROVE CallInv(c)'
  <2>1. CASE AtServer(c, s)
    <3>1. call'[c].pc \in {"propose", "read"} /\ ch'[c] = Nil
      BY <1>0, <1>1, <2>1, RestartedIs
    <3> QED BY <3>1, AwayInv
  <2>2. CASE ~AtServer(c, s)
    <3>1. call'[c] = call[c] /\ ch'[c] = ch[c] /\ lastKnown'[c] = lastKnown[c] /\ floor'[c] = floor[c]
      BY <1>1, <2>2
    <3>2. CASE lastKnown[c] = s
      <4>1. call[c].pc \in {"idle", "propose", "read"}
        BY <2>2, <3>2 DEF AtServer
      <4>2. ch[c] = Nil
        BY <4>1 DEF ServiceInv, CallInv, Told
      <4> QED BY <3>1, <4>1, <4>2, AwayInv
    <3>3. CASE lastKnown[c] # s
      <4>1. applied[lastKnown[c]] <= applied'[lastKnown[c]]
        BY <1>0, <1>2, <3>3 DEF LoopTypes, ClerkTypes
      <4> QED BY <1>0, <3>1, <4>1, StaysInv DEF Stays, ServiceInv
    <3> QED BY <3>2, <3>3
  <2> QED BY <2>1, <2>2
<1>4. Registered'
  <2> SUFFICES ASSUME NEW q \in Server, NEW d \in Clerk, NEW i \in DOMAIN notifyChans'[q],
                      notifyChans'[q][i] = d
               PROVE  call'[d].pc = "wait" /\ lastKnown'[d] = q /\ call'[d].index = i
    BY DEF Registered
  <2>1. q # s /\ notifyChans'[q] = notifyChans[q]
    BY <1>2
  <2>2. call[d].pc = "wait" /\ lastKnown[d] = q /\ call[d].index = i
    BY <1>0, <2>1 DEF Registered
  <2>3. ~AtServer(d, s)
    BY <2>1, <2>2 DEF AtServer
  <2> QED BY <1>1, <2>2, <2>3
<1>5. AckedApplied'
  <2>1. \A q \in Server : leads'[q] => applied[q] <= applied'[q]
    BY <1>0, <1>2 DEF LoopTypes
  <2> QED BY <1>0, <1>1, <2>1, AckedKept
<1>6. NoopApplied'
  <2>1. \A q \in Server : \/ noopAppliedTerm'[q] = 0
                          \/ noopAppliedTerm'[q] = noopAppliedTerm[q] /\ applied[q] <= applied'[q]
    BY <1>0, <1>2 DEF LoopTypes
  <2> QED BY <1>0, <2>1, NoopKept
<1> QED BY <1>3, <1>4, <1>5, <1>6 DEF ServiceInv

LEMMA ServiceStep ==
    ASSUME TypeInv, TypeInv', RaftInv, Forward, ServiceInv, Next
    PROVE  ServiceInv'
<1>1. CASE RaftNext
  BY <1>1, NoServerStep DEF RaftNext, Win, StepDown, Commit, loopVars, clerkVars
<1>2. ASSUME NEW s \in Server, noopLoop(s) PROVE ServiceInv'
  BY <1>2, NoServerStep DEF noopLoop, loopVars, clerkVars
<1>3. ASSUME NEW c \in Clerk, proposeCall(c) PROVE ServiceInv'
  <2>1. call[c].pc = "propose" /\ UNCHANGED loopVars
    BY <1>3 DEF proposeCall
  <2> QED BY <1>3, <2>1, proposeCallCases, TakenInv, RefusedInv
<1>4. ASSUME NEW c \in Clerk, deadline(c) \/ leaderCheck(c) PROVE ServiceInv'
  BY <1>4, RefusedInv DEF deadline, leaderCheck
<1>5. ASSUME NEW c \in Clerk, Handler(c) PROVE ServiceInv'
  BY <1>3, <1>4, <1>5, registerCallInv, notifiedInv, readStateInv, readTermInv DEF Handler
<1> QED
  BY <1>1, <1>2, <1>5, readNoopInv, CallsOverInv, applyLoopInv, InstallInv, RestartInv DEF Next, ServiceNext

(***************************************************************************)
(* The invariant: stores are what the log says.                            *)
(***************************************************************************)

\* v and d are what the first n entries produce.
Replays(n, v, d) ==
    /\ n \in 0 .. Len(chosen) /\ v = Produced(UpTo(chosen)[n])
    /\ \A c \in Clerk : \A j \in Nat :
          (\E i \in 1 .. n : IsOf(chosen[i].op, c, j)) <=> j \in 1 .. d[c]

\* So does every replica say, and every snapshot.
Replica(s) ==
    /\ Replays(applied[s], store[s], duplicateTable[s])
    /\ Replays(snapshot[s].index, snapshot[s].store, snapshot[s].dup)

ReplayInv == \A s \in Server : Replica(s)

\* Commits add to the log.
LEMMA ReplaysKept ==
    ASSUME RaftTypes, RaftTypes', Advances, NEW n, NEW v, NEW d, Replays(n, v, d)
    PROVE  Replays(n, v, d)'
<1>1. PICK k \in Nat, m \in Nat : k = Len(chosen) /\ m = Len(chosen') /\ k <= m
  BY ChosenStays
<1>2. n \in 0 .. k /\ n \in 0 .. m
  BY <1>1 DEF Replays
<1>3. UpTo(chosen)[n] = UpTo(chosen')[n]
  BY <1>1, <1>2, UpToOfPrefix DEF RaftTypes, Advances
<1>4. \A i \in 1 .. n : i \in 1 .. Len(chosen)
  BY <1>1, <1>2
<1>5. \A i \in 1 .. n : chosen'[i] = chosen[i]
  BY <1>4, ChosenStays
<1>6. v = Produced(UpTo(chosen')[n])
  BY <1>3 DEF Replays
<1>7. \A c \in Clerk : \A j \in Nat :
         (\E i \in 1 .. n : IsOf(chosen'[i].op, c, j)) <=> j \in 1 .. d[c]
  BY <1>5 DEF Replays
<1> QED BY <1>1, <1>2, <1>6, <1>7 DEF Replays

LEMMA OpFields ==
    \A o \in Op : o.clerk \in Clerk /\ o.seq \in 1 .. MaxCalls /\ o.seq \in Nat /\ o.seq >= 1
BY KVAssumption DEF Op

\* One entry more, as applyLoop takes it: a request whose number is not in the
\* table yet is the clerk's next and is applied, any other has been before.
LEMMA ReplaysNext ==
    ASSUME RaftTypes, RequestInv, NEW n \in Nat, NEW v \in Seq(Op), NEW d \in Dups, Replays(n, v, d),
           n + 1 <= Len(chosen), NEW o, o = chosen[n + 1].op
    PROVE  /\ Fresh(d, o) => Replays(n + 1, Execute(v, o), [d EXCEPT ![o.clerk] = o.seq])
           /\ ~Fresh(d, o) => Replays(n + 1, v, d)
<1>1. PICK k \in Nat : k = Len(chosen) /\ n + 1 \in 1 .. k /\ n + 1 \in 0 .. k /\ n \in 0 .. k
  BY TermsAreNat
<1>2. o \in Op \cup {NoopOp} /\ chosen \in Seq(Entry) /\ chosen \in Logs
  <2>1. chosen[n + 1] \in Entry
    BY <1>1 DEF RaftTypes
  <2> QED BY <2>1, EntryIs DEF RaftTypes, Logs
<1>3. PICK u \in [0 .. k -> Seq(Op)] : u = UpTo(chosen)
  BY <1>1, <1>2, UpToIs
<1>4. /\ IsFirst(chosen, n + 1) => u[n + 1] = Append(u[n], o)
      /\ ~IsFirst(chosen, n + 1) => u[n + 1] = u[n]
  <2>1. (n + 1) - 1 = n
    OBVIOUS
  <2> QED BY <1>1, <1>2, <1>3, <2>1, UpToIs
<1>5. u[n] \in Seq(Op) /\ v = Produced(u[n])
  BY <1>1, <1>3 DEF Replays
<1>6. IsFirst(chosen, n + 1) <=> o # NoopOp /\ \A m \in 1 .. n : chosen[m].op # o
  <2>1. (n + 1) - 1 = n
    OBVIOUS
  <2> QED BY <2>1 DEF IsFirst
<1>7. \A c \in Clerk : \A j \in Nat : (\E i \in 1 .. n : IsOf(chosen[i].op, c, j)) <=> j \in 1 .. d[c]
  BY DEF Replays
<1>8. \A c \in Clerk : d[c] \in Nat
  BY KVAssumption DEF Dups
<1>9. \A i \in 1 .. n + 1 : i \in 1 .. n \/ i = n + 1
  OBVIOUS
<1>10. \A i \in 1 .. n + 1 : chosen[i].op # NoopOp => InLogs(chosen[i].op)
  <2>1. \A i \in 1 .. n + 1 : i \in 1 .. Len(chosen)
    BY <1>1
  <2> QED BY <1>2, <2>1 DEF InLogs
<1>11. n + 1 \in 1 .. n + 1 /\ \A i \in 1 .. n : i \in 1 .. n + 1
  OBVIOUS
<1>12. CASE Fresh(d, o)
  <2>1. o \in Op /\ o # NoopOp /\ o.seq > d[o.clerk]
    BY <1>2, <1>12 DEF Fresh
  <2>2. PICK c \in Clerk, j \in Nat, w \in Nat :
               c = o.clerk /\ j = o.seq /\ j >= 1 /\ w = d[c] /\ j > w
    BY <1>8, <2>1, OpFields
  <2>20. j >= 1 /\ j > w
    BY <2>2
  <2>3. j = w + 1
    <3>1. CASE j = 1
      BY <2>20, <3>1
    <3>2. CASE j > 1
      <4>1. Ordered(chosen)
        BY <1>2, TermsAreNat, BeginsItself DEF RequestInv, OrderedLogs
      <4>2. (n + 1) - 1 = n /\ j - 1 \in Nat
        BY <2>20
      <4>3. \E m \in 1 .. n : IsOf(chosen[m].op, c, j - 1)
        BY <1>1, <2>1, <2>2, <3>2, <4>1, <4>2 DEF Ordered
      <4>4. j - 1 \in 1 .. d[c]
        BY <1>7, <4>2, <4>3
      <4>5. j - 1 <= w
        BY <2>2, <4>4
      <4> QED BY <2>20, <4>5
    <3> QED BY <2>20, <3>1, <3>2
  <2>4. \A m \in 1 .. n : chosen[m].op # o
    <3> SUFFICES ASSUME NEW m \in 1 .. n, chosen[m].op = o PROVE FALSE
      OBVIOUS
    <3>1. IsOf(chosen[m].op, c, j)
      BY <2>1, <2>2 DEF IsOf
    <3>2. j \in 1 .. d[c]
      BY <1>7, <3>1
    <3>3. j \in 1 .. w
      BY <2>2, <3>2
    <3> QED BY <2>20, <3>3
  <2>5. Execute(v, o) = Produced(u[n + 1])
    BY <1>4, <1>5, <1>6, <2>1, <2>4, ProducedIs
  <2>6. PICK e : e = [d EXCEPT ![o.clerk] = o.seq]
    OBVIOUS
  <2>7. e[c] = j /\ \A b \in Clerk \ {c} : e[b] = d[b]
    BY <2>2, <2>6 DEF Dups
  <2>8. ASSUME NEW b \in Clerk, NEW i \in Nat
        PROVE  (\E m \in 1 .. n + 1 : IsOf(chosen[m].op, b, i)) <=> i \in 1 .. e[b]
    <3>1. (\E m \in 1 .. n + 1 : IsOf(chosen[m].op, b, i)) <=>
             (\E m \in 1 .. n : IsOf(chosen[m].op, b, i)) \/ IsOf(o, b, i)
      BY <1>9, <1>11
    <3>2. IsOf(o, b, i) <=> b = c /\ i = j
      BY <2>1, <2>2 DEF IsOf
    <3>3. (\E m \in 1 .. n : IsOf(chosen[m].op, b, i)) <=> i \in 1 .. d[b]
      BY <1>7
    <3>4. i \in 1 .. e[b] <=> i \in 1 .. d[b] \/ (b = c /\ i = j)
      <4>1. CASE b # c
        BY <2>7, <4>1
      <4>2. CASE b = c
        <5>1. i \in 1 .. j <=> i \in 1 .. w \/ i = j
          BY <2>3
        <5> QED BY <2>2, <2>7, <4>2, <5>1
      <4> QED BY <4>1, <4>2
    <3> QED BY <3>1, <3>2, <3>3, <3>4
  <2>9. Replays(n + 1, Execute(v, o), e)
    BY <1>1, <1>3, <2>5, <2>8 DEF Replays
  <2> QED BY <1>12, <2>6, <2>9
<1>13. CASE ~Fresh(d, o)
  <2>1. o # NoopOp => \E m \in 1 .. n : chosen[m].op = o
    <3> SUFFICES ASSUME o # NoopOp PROVE \E m \in 1 .. n : chosen[m].op = o
      OBVIOUS
    <3>1. o \in Op /\ ~(o.seq > d[o.clerk])
      BY <1>2, <1>13 DEF Fresh
    <3>2. PICK c \in Clerk, j \in Nat : c = o.clerk /\ j = o.seq /\ j >= 1 /\ ~(j > d[c])
      BY <3>1, OpFields
    <3>3. j \in 1 .. d[c]
      BY <1>8, <3>2
    <3>4. PICK m \in 1 .. n : IsOf(chosen[m].op, c, j)
      BY <1>7, <3>3
    <3>5. InLogs(chosen[m].op) /\ InLogs(o)
      BY <1>10, <1>11, <3>4 DEF IsOf
    <3>6. chosen[m].op = o
      BY <3>2, <3>4, <3>5 DEF IsOf, RequestInv, KnownOps
    <3> QED BY <3>6
  <2>2. v = Produced(u[n + 1])
    BY <1>4, <1>5, <1>6, <2>1
  <2>3. ASSUME NEW b \in Clerk, NEW i \in Nat
        PROVE  (\E m \in 1 .. n + 1 : IsOf(chosen[m].op, b, i)) <=> i \in 1 .. d[b]
    <3>1. IsOf(o, b, i) => \E m \in 1 .. n : IsOf(chosen[m].op, b, i)
      BY <2>1 DEF IsOf
    <3>2. (\E m \in 1 .. n + 1 : IsOf(chosen[m].op, b, i)) <=>
             \E m \in 1 .. n : IsOf(chosen[m].op, b, i)
      BY <1>9, <1>11, <3>1
    <3> QED BY <1>7, <3>2
  <2>4. Replays(n + 1, v, d)
    BY <1>1, <1>3, <2>2, <2>3 DEF Replays
  <2> QED BY <1>13, <2>4
<1> QED BY <1>12, <1>13

LEMMA ReplicaKept ==
    ASSUME RaftTypes, RaftTypes', Advances, NEW s \in Server, Replica(s),
           applied'[s] = applied[s], store'[s] = store[s], duplicateTable'[s] = duplicateTable[s],
           snapshot'[s] = snapshot[s]
    PROVE  Replica(s)'
<1>1. PICK n, v, d, z : /\ n = applied[s] /\ v = store[s] /\ d = duplicateTable[s]
                        /\ z = snapshot[s]
  OBVIOUS
<1>2. PICK m, w, e : m = z.index /\ w = z.store /\ e = z.dup
  OBVIOUS
<1>3. Replays(n, v, d)' /\ Replays(m, w, e)'
  BY <1>1, <1>2, ReplaysKept DEF Replica
<1> QED BY <1>1, <1>2, <1>3 DEF Replica, Replays

LEMMA applyLoopReplay ==
    ASSUME TypeInv, RequestInv, NEW s \in Server, Replica(s), applyLoop(s)
    PROVE  Replica(s)'
<1>0. PICK n \in Nat, v \in Seq(Op), d \in Dups :
         n = applied[s] /\ v = store[s] /\ d = duplicateTable[s]
  BY DEF TypeInv, LoopTypes, StoreTypes
<1>1. PICK o : n = applied[s] /\ v = store[s] /\ d = duplicateTable[s] /\ o = chosen[n + 1].op
  BY <1>0
<1>2. /\ Deliver(s, [op |-> o]) /\ [op |-> o] \in [op : Op \cup {NoopOp}]
      /\ Fresh(d, o) => store'[s] = Execute(v, o) /\ duplicateTable'[s] = [d EXCEPT ![o.clerk] = o.seq]
      /\ ~Fresh(d, o) => store'[s] = v /\ duplicateTable'[s] = d
      /\ \/ snapshot' = snapshot
         \/ snapshot' = [snapshot EXCEPT ![s] = [index |-> n + 1, store |-> store'[s],
                                                 dup |-> duplicateTable'[s]]]
  BY <1>1, applyLoopIs DEF TypeInv
<1>3. n + 1 <= Len(chosen) /\ applied'[s] = n + 1 /\ chosen' = chosen
  BY <1>1, <1>2, DeliverIs DEF TypeInv, raftVars
<1>4. Replays(n, v, d)
  BY <1>1 DEF Replica
<1>5. Replays(n + 1, store'[s], duplicateTable'[s])
  BY <1>1, <1>2, <1>3, <1>4, ReplaysNext DEF TypeInv
<1>6. Replays(n + 1, store[s], duplicateTable[s])'
  BY <1>3, <1>5 DEF Replays
<1>7. CASE snapshot' = snapshot
  BY <1>3, <1>5, <1>7 DEF Replica, Replays
<1>8. CASE snapshot' = [snapshot EXCEPT ![s] = [index |-> n + 1, store |-> store'[s],
                                                dup |-> duplicateTable'[s]]]
  <2>1. snapshot'[s] = [index |-> n + 1, store |-> store'[s], dup |-> duplicateTable'[s]]
    BY <1>8 DEF TypeInv, StoreTypes
  <2>2. /\ snapshot'[s].index = n + 1 /\ snapshot'[s].store = store'[s]
        /\ snapshot'[s].dup = duplicateTable'[s]
    BY <2>1
  <2> QED BY <1>3, <1>5, <2>2 DEF Replica, Replays
<1> QED BY <1>2, <1>7, <1>8

\* A replica that is given a snapshot, its own or its leader's.
LEMMA GivenReplay ==
    ASSUME TypeInv, NEW s \in Server, NEW p \in Server, Replica(p), UNCHANGED chosen,
           applied' = [applied EXCEPT ![s] = snapshot[p].index], restoreSnapshot(s, snapshot[p]),
           snapshot'[s] = snapshot[p]
    PROVE  Replica(s)'
<1>1. PICK z, m, w, e : z = snapshot[p] /\ m = z.index /\ w = z.store /\ e = z.dup
  OBVIOUS
<1>2. applied'[s] = m /\ store'[s] = w /\ duplicateTable'[s] = e /\ snapshot'[s] = z
  BY <1>1 DEF restoreSnapshot, TypeInv, LoopTypes, StoreTypes
<1>3. Replays(m, w, e)
  BY <1>1 DEF Replica
<1> QED BY <1>1, <1>2, <1>3 DEF Replica, Replays

LEMMA ReplayStep ==
    ASSUME TypeInv, TypeInv', RequestInv, Advances, ReplayInv, Next
    PROVE  ReplayInv'
<1> DEFINE Same(q) == /\ applied'[q] = applied[q] /\ store'[q] = store[q]
                      /\ duplicateTable'[q] = duplicateTable[q] /\ snapshot'[q] = snapshot[q]
<1>1. \A q \in Server : Same(q) => Replica(q)'
  BY ReplicaKept DEF TypeInv, ReplayInv
<1>2. CASE UNCHANGED <<applied, store, duplicateTable, snapshot>>
  BY <1>1, <1>2 DEF ReplayInv
<1>3. ASSUME NEW s \in Server, applyLoop(s) PROVE ReplayInv'
  <2>1. PICK o : o = chosen[applied[s] + 1].op
    OBVIOUS
  <2>2. /\ Deliver(s, [op |-> o]) /\ [op |-> o] \in [op : Op \cup {NoopOp}]
        /\ \A q \in Server \ {s} : store'[q] = store[q] /\ duplicateTable'[q] = duplicateTable[q]
        /\ \/ snapshot' = snapshot
           \/ snapshot' = [snapshot EXCEPT ![s] = [index |-> applied[s] + 1,
                              store |-> store'[s], dup |-> duplicateTable'[s]]]
    BY <1>3, <2>1, applyLoopIs DEF TypeInv
  <2>3. \A q \in Server \ {s} : applied'[q] = applied[q]
    BY <2>2, DeliverIs DEF TypeInv
  <2>4. \A q \in Server \ {s} : snapshot'[q] = snapshot[q]
    BY <2>2 DEF TypeInv, StoreTypes
  <2>5. Replica(s)'
    BY <1>3, applyLoopReplay DEF ReplayInv
  <2> QED BY <1>1, <2>2, <2>3, <2>4, <2>5 DEF ReplayInv
<1>4. ASSUME NEW s \in Server, Restart(s) PROVE ReplayInv'
  <2>1. /\ applied' = [applied EXCEPT ![s] = snapshot[s].index] /\ UNCHANGED <<chosen, snapshot>>
        /\ restoreSnapshot(s, snapshot[s])
    BY <1>4 DEF Restart, Crash
  <2>2. \A q \in Server \ {s} : Same(q)
    BY <2>1 DEF restoreSnapshot, TypeInv, LoopTypes, StoreTypes
  <2>3. Replica(s)'
    BY <2>1, GivenReplay DEF ReplayInv
  <2> QED BY <1>1, <2>2, <2>3 DEF ReplayInv
<1>5. ASSUME NEW s \in Server, NEW p \in Server \ {s}, installSnapshot(s, p)
      PROVE  ReplayInv'
  <2>1. /\ applied' = [applied EXCEPT ![s] = snapshot[p].index] /\ UNCHANGED chosen
        /\ restoreSnapshot(s, snapshot[p]) /\ snapshot' = [snapshot EXCEPT ![s] = snapshot[p]]
    BY <1>5 DEF installSnapshot, raftVars
  <2>2. \A q \in Server \ {s} : Same(q)
    BY <2>1 DEF restoreSnapshot, TypeInv, LoopTypes, StoreTypes
  <2>3. Replica(s)'
    <3>1. snapshot'[s] = snapshot[p]
      BY <2>1 DEF TypeInv, StoreTypes
    <3> QED BY <2>1, <3>1, GivenReplay DEF ReplayInv
  <2> QED BY <1>1, <2>2, <2>3 DEF ReplayInv
<1>6. CASE RaftNext /\ UNCHANGED kvVars
  BY <1>2, <1>6 DEF RaftNext, Win, StepDown, Commit, loopVars, kvVars
<1>7. ASSUME NEW s \in Server, noopLoop(s), UNCHANGED kvVars PROVE ReplayInv'
  BY <1>2, <1>7 DEF noopLoop, loopVars, kvVars
<1>8. ASSUME NEW c \in Clerk, Handler(c), UNCHANGED kvVars PROVE ReplayInv'
  BY <1>2, <1>8 DEF Handler, proposeCall, registerCall, notified, deadline, leaderCheck, deleteChan,
     readState, readTerm, loopVars, kvVars
<1>9. ASSUME NEW c \in Clerk, putAppend(c) \/ Get(c) \/ readNoop(c) \/ readStore(c)
      PROVE  ReplayInv'
  BY <1>2, <1>9 DEF putAppend, Get, Begin, readNoop, readStore, loopVars, kvVars
<1> QED
  BY <1>2, <1>3, <1>4, <1>5, <1>6, <1>7, <1>8, <1>9 DEF Next, ServiceNext

(***************************************************************************)
(* The invariant.                                                          *)
(***************************************************************************)
Inv == TypeInv /\ RaftInv /\ RequestInv /\ ServiceInv /\ ReplayInv

LEMMA RequestsInit == Init => RequestInv
<1> SUFFICES ASSUME Init PROVE RequestInv
  OBVIOUS
<1>1. \A l \in Logs : l = <<>>
  BY DEF Init, ServiceInit, Logs
<1>2. \A l \in Logs : \A i \in 1 .. Len(l) : FALSE
  BY <1>1
<1>3. KnownOps
  BY <1>2 DEF KnownOps, InLogs
<1>4. CallOps
  BY DEF Init, ServiceInit, CallOps, Writing, Reading
<1>5. Past
  <2>1. \A c \in Clerk \ Reader : calls[c] = 0
    BY DEF Init
  <2>2. \A c \in Clerk \ Reader : \A j \in 1 .. calls[c] : FALSE
    BY <2>1
  <2> QED BY <2>2 DEF Past
<1>6. OrderedLogs
  BY <1>2 DEF OrderedLogs, Ordered
<1> QED BY <1>3, <1>4, <1>5, <1>6 DEF RequestInv

LEMMA ServiceInitInv == Init => ServiceInv
<1> SUFFICES ASSUME Init PROVE ServiceInv
  OBVIOUS
<1>1. ASSUME NEW c \in Clerk PROVE CallInv(c)
  <2>1. call[c].pc = "idle" /\ ch[c] = Nil
    BY DEF Init, ServiceInit
  <2> QED BY <2>1 DEF CallInv, Told, CallTerm, FloorKept, Fresher
<1>2. Registered
  <2>1. \A s \in Server : DOMAIN notifyChans[s] = {}
    BY DEF Init, ServiceInit
  <2> QED BY <2>1 DEF Registered
<1>3. AckedApplied
  BY DEF Init, ServiceInit, AckedApplied
<1>4. NoopApplied
  BY DEF Init, ServiceInit, NoopApplied
<1> QED BY <1>1, <1>2, <1>3, <1>4 DEF ServiceInv

LEMMA ReplayInit == Init => ReplayInv
<1> SUFFICES ASSUME Init, NEW s \in Server PROVE Replica(s)
  BY DEF ReplayInv
<1>1. PICK e : e = [c \in Clerk |-> 0]
  OBVIOUS
<1>2. chosen = <<>> /\ applied[s] = 0 /\ store[s] = <<>> /\ duplicateTable[s] = e
  BY <1>1 DEF Init, ServiceInit
<1>3. snapshot[s].index = 0 /\ snapshot[s].store = <<>> /\ snapshot[s].dup = e
  BY <1>1 DEF Init, NewKVServer
<1>4. UpTo(chosen)[0] = <<>> /\ Len(chosen) = 0
  <2>1. <<>> \in Seq(Entry)
    OBVIOUS
  <2> QED BY <1>2, <2>1, UpToIs
<1>5. ASSUME NEW c \in Clerk, NEW j \in Nat
      PROVE  (\E i \in 1 .. 0 : IsOf(chosen[i].op, c, j)) <=> j \in 1 .. e[c]
  <2>1. e[c] = 0
    BY <1>1
  <2>2. ~(j \in 1 .. 0) /\ \A i \in 1 .. 0 : FALSE
    OBVIOUS
  <2> QED BY <2>1, <2>2
<1>6. Replays(0, <<>>, e)
  BY <1>4, <1>5, ProducedIs DEF Replays
<1> QED BY <1>2, <1>3, <1>6 DEF Replica

LEMMA InvInit == Init => Inv
BY TypesInit, RaftInitInv, RequestsInit, ServiceInitInv, ReplayInit DEF Inv

\* What a clerk proposes is a request.
LEMMA ProposedOps ==
    ASSUME CallOps
    PROVE  \A c \in Clerk : call[c].pc = "propose" => call[c].op \in Op
BY DEF CallOps, Writing

LEMMA InvNext == Inv /\ [Next]_vars => Inv'
<1> SUFFICES ASSUME Inv, [Next]_vars PROVE Inv'
  OBVIOUS
<1>1. \A c \in Clerk : call[c].pc = "propose" => call[c].op \in Op
  BY ProposedOps DEF Inv, RequestInv
<1>2. CASE Next
  <2>1. RaftStep
    BY <1>1, <1>2, RaftSteps DEF Inv
  <2>2. RaftNextInv
    BY <2>1, RaftKeeps DEF Inv, TypeInv
  <2>3. TypeInv'
    BY <1>2, <2>2, TypesNext DEF Inv
  <2>4. Forward
    BY <2>1, RaftForward DEF Inv, TypeInv
  <2>5. ServiceInv'
    BY <1>2, <2>3, <2>4, ServiceStep DEF Inv
  <2>6. ClerkStep
    BY <1>1, <1>2, ClerkSteps DEF Inv, ServiceInv, CallInv
  <2>7. RequestInv'
    BY <2>1, <2>3, <2>6, RequestsStep DEF Inv
  <2>8. ReplayInv'
    BY <1>2, <2>2, <2>3, ReplayStep DEF Inv, RaftNextInv
  <2> QED BY <2>2, <2>3, <2>5, <2>7, <2>8 DEF Inv, RaftNextInv
<1>3. CASE UNCHANGED vars
  <2> USE <1>3 DEF vars, serviceVars, raftVars, loopVars, clerkVars, boundVars, kvVars
  <2>1. TypeInv'
    BY DEF Inv, TypeInv, RaftTypes, LoopTypes, ClerkTypes, StoreTypes, Progress
  <2>2. RaftInv'
    BY DEF Inv, RaftInv, LeaderTerms, EntryTerms, LeaderLog, CommitTerms, LeaderComplete, Leading, Logs
  <2>3. RequestInv'
    BY DEF Inv, RequestInv, KnownOps, CallOps, Past, OrderedLogs, Logs, InLogs
  <2>4. ServiceInv'
    BY DEF Inv, ServiceInv, CallInv, Told, CallTerm, FloorKept, Fresher, Registered, AckedApplied,
       NoopApplied
  <2>5. ReplayInv'
    BY DEF Inv, ReplayInv, Replica, Replays
  <2> QED BY <2>1, <2>2, <2>3, <2>4, <2>5 DEF Inv
<1> QED BY <1>2, <1>3

\* Reachable states satisfy the invariant.
THEOREM Invariance == Spec => []Inv
<1>1. Init => Inv
  BY InvInit
<1>2. Inv /\ [Next]_vars => Inv'
  BY InvNext
<1> QED BY <1>1, <1>2, PTL DEF Spec

(***************************************************************************)
(* What follows from the invariant.                                        *)
(***************************************************************************)
LEMMA InvTypeOK == Inv => TypeOK
<1> SUFFICES ASSUME Inv PROVE TypeOK
  OBVIOUS
<1> USE DEF Inv, TypeInv
<1>1. ASSUME NEW s \in Server
      PROVE  /\ applied[s] \in 0 .. Len(chosen) /\ Len(log[s]) <= MaxLog
             /\ noopAppliedTerm[s] \in 0 .. term[s]
             /\ notifyChans[s] \in [DOMAIN notifyChans[s] -> Clerk]
             /\ duplicateTable[s] \in [Clerk -> 0 .. MaxCalls]
             /\ snapshot[s].index \in 0 .. applied[s]
  <2>1. PICK n \in Nat, t \in Nat : n = applied[s] /\ t = noopAppliedTerm[s]
    BY DEF LoopTypes
  <2>2. PICK k \in Nat, m \in Nat : k = Len(chosen) /\ m = term[s]
    BY TermsAreNat
  <2>3. n <= k /\ t <= m
    BY <2>1, <2>2 DEF Progress, ServiceInv, NoopApplied
  <2>4. n \in 0 .. k /\ t \in 0 .. m
    BY <2>3
  <2>5. notifyChans[s] \in [DOMAIN notifyChans[s] -> Clerk]
    BY ChansAre DEF LoopTypes
  <2>6. snapshot[s].index \in 0 .. n
    <3>1. PICK i \in Nat : i = snapshot[s].index
      BY SnapFields DEF StoreTypes
    <3>2. i <= n
      BY <2>1, <3>1 DEF Progress
    <3> QED BY <3>1, <3>2
  <2> QED BY <2>1, <2>2, <2>4, <2>5, <2>6 DEF RaftTypes, StoreTypes, Dups
<1>2. ASSUME NEW c \in Clerk
      PROVE  /\ call[c].op \in Op \cup {Nil} /\ lastKnown[c] \in Server
             /\ ch[c] = Nil \/ ch[c].op \in Op \cup {NoopOp}
             /\ call[c].pc \in {"idle", "propose", "register", "wait",
                                "read", "readTerm", "readNoop", "readStore"}
  <2>1. call[c] \in Call /\ lastKnown[c] \in Server /\ ch[c] \in Msg
    BY DEF ClerkTypes, LoopTypes
  <2>2. ch[c] = Nil \/ ch[c].op \in Op \cup {NoopOp}
    BY <2>1 DEF Msg
  <2> QED BY <2>1, <2>2, CallFields DEF Writing, Reading
<1> QED BY <1>1, <1>2 DEF RaftTypes, TypeOK

\* The state keeps its types (server.go: KVServer, client.go: Clerk).
THEOREM WellTyped == Spec => []TypeOK
<1>1. Inv => TypeOK
  BY InvTypeOK
<1> QED BY <1>1, Invariance, PTL

\* A Get about to read the store of a replica that led the newest term when it
\* began sees every write answered OK before that, although the handler looks
\* at the state, the term and the no-op one after another (server.go: Get).
THEOREM FreshReads == Spec => []ReadsFresh
<1>1. Inv => ReadsFresh
  BY DEF Inv, ServiceInv, CallInv, Fresher, ReadsFresh
<1> QED BY <1>1, Invariance, PTL

\* The requests of what a replica has applied.
LEMMA AppliedRequests ==
    ASSUME RaftTypes, NEW n \in 0 .. Len(chosen), NEW l, l = SubSeq(chosen, 1, n)
    PROVE  /\ l \in Seq(Entry) /\ Begins(l, chosen) /\ Len(l) = n
           /\ Requests(l) = UpTo(chosen)[n]
           /\ \A q : Carries(Requests(l), q) <=> q # NoopOp /\ \E i \in 1 .. n : chosen[i].op = q
<1>1. chosen \in Seq(Entry)
  BY DEF RaftTypes
<1>2. l \in Seq(Entry) /\ Len(l) = n /\ Begins(l, chosen) /\ \A i \in 1 .. n : l[i] = chosen[i]
  BY <1>1, TypedSubSeq
<1>3. n \in 0 .. n
  OBVIOUS
<1>4. Requests(l) = UpTo(chosen)[n]
  <2>1. \A k \in 0 .. n : UpTo(l)[k] = UpTo(chosen)[k]
    BY <1>1, <1>2, UpToOfPrefix
  <2>2. UpTo(l)[n] = UpTo(chosen)[n]
    BY <1>3, <2>1
  <2>3. Requests(l) = UpTo(l)[n]
    BY <1>2, RequestsAreUpTo
  <2> QED BY <2>2, <2>3
<1>5. \A q : Carries(Requests(l), q) <=> Asks(l, n, q)
  BY <1>2, RequestsHold
<1> QED BY <1>2, <1>4, <1>5 DEF Asks

\* The requests of a clerk among them are those numbered up to its last.
OfClerk(l, c) == {q \in Range(Requests(l)) : q.clerk = c}

LEMMA ClerkRequests ==
    ASSUME RaftTypes, KnownOps, NEW n, NEW v, NEW d \in Dups, Replays(n, v, d), NEW c \in Clerk,
           NEW l, l = SubSeq(chosen, 1, n)
    PROVE  d[c] = Cardinality(OfClerk(l, c))
<1>1. n \in 0 .. Len(chosen)
  BY DEF Replays
<1>2. /\ l \in Seq(Entry) /\ Begins(l, chosen) /\ Len(l) = n
      /\ \A q : Carries(Requests(l), q) <=> q # NoopOp /\ \E i \in 1 .. n : chosen[i].op = q
  BY <1>1, AppliedRequests
<1>3. PICK r \in Seq(Op) : r = Requests(l)
  BY <1>2, RequestsHold
<1>4. \A q : q \in Range(r) <=> Carries(r, q)
  BY DEF Range, Carries
<1> DEFINE Q == {q \in Range(r) : q.clerk = c}
<1>5. \A q : q \in Q <=> q \in Op /\ q # NoopOp /\ q.clerk = c /\ \E i \in 1 .. n : chosen[i].op = q
  <2>1. \A q : Carries(r, q) => q \in Op
    BY DEF Carries
  <2> QED BY <1>2, <1>3, <1>4, <2>1
<1>6. \A q \in Q : InLogs(q)
  <2>1. \A i \in 1 .. n : i \in 1 .. Len(chosen)
    BY <1>1, TermsAreNat
  <2> QED BY <1>5, <2>1 DEF InLogs, Logs
<1>7. PICK w \in Nat : w = d[c]
  BY KVAssumption DEF Dups
<1>8. \A j \in Nat : (\E i \in 1 .. n : IsOf(chosen[i].op, c, j)) <=> j \in 1 .. w
  BY <1>7 DEF Replays
<1>9. \A j \in 1 .. w : \E q \in Q : q.seq = j
  <2> SUFFICES ASSUME NEW j \in 1 .. w PROVE \E q \in Q : q.seq = j
    OBVIOUS
  <2>1. PICK i \in 1 .. n : IsOf(chosen[i].op, c, j)
    BY <1>8
  <2>2. chosen[i].op \in Op
    <3>1. chosen[i] \in Entry
      BY <1>1, TermsAreNat DEF RaftTypes
    <3> QED BY <2>1, <3>1, EntryIs DEF IsOf
  <2> QED BY <1>5, <2>1, <2>2 DEF IsOf
<1>10. \A q \in Q : q.seq \in 1 .. w
  <2> SUFFICES ASSUME NEW q \in Q PROVE q.seq \in 1 .. w
    OBVIOUS
  <2>1. q.seq \in Nat /\ \E i \in 1 .. n : IsOf(chosen[i].op, c, q.seq)
    BY <1>5, OpFields DEF IsOf
  <2> QED BY <1>8, <2>1
<1>11. \A p, q \in Q : p.seq = q.seq => p = q
  <2> SUFFICES ASSUME NEW p \in Q, NEW q \in Q, p.seq = q.seq PROVE p = q
    OBVIOUS
  <2>1. InLogs(p) /\ InLogs(q) /\ p.clerk = q.clerk
    BY <1>5, <1>6
  <2> QED BY <2>1 DEF KnownOps
<1> HIDE DEF Q
<1>12. PICK f : f = [j \in 1 .. w |-> CHOOSE q \in Q : q.seq = j]
  OBVIOUS
<1>13. f \in [1 .. w -> Q] /\ \A j \in 1 .. w : f[j].seq = j
  BY <1>9, <1>12
<1>14. \A q \in Q : \E j \in 1 .. w : f[j] = q
  <2> SUFFICES ASSUME NEW q \in Q PROVE f[q.seq] = q
    BY <1>10
  <2>1. q.seq \in 1 .. w /\ f[q.seq] \in Q /\ f[q.seq].seq = q.seq
    BY <1>10, <1>13
  <2> QED BY <1>11, <2>1
<1>15. \A i, j \in 1 .. w : f[i] = f[j] => i = j
  BY <1>13
<1>16. ExistsBijection(1 .. w, Q)
  BY <1>13, <1>14, <1>15 DEF ExistsBijection, Bijection, Injection, Surjection, IsInjective
<1>17. Cardinality(Q) = w
  BY <1>16, FS_CountingElements
<1>18. Q = OfClerk(l, c)
  BY <1>3 DEF Q, OfClerk
<1> QED BY <1>7, <1>17, <1>18

LEMMA InvStores == Inv => StoreIsReplay
<1> SUFFICES ASSUME Inv, NEW s \in Server, NEW l, l = SubSeq(chosen, 1, applied[s])
             PROVE  /\ store[s] = Value(l)
                    /\ \A c \in Clerk : duplicateTable[s][c] =
                          Cardinality({q \in Range(Requests(l)) : q.clerk = c})
  BY DEF StoreIsReplay
<1> USE DEF Inv, TypeInv
<1>1. PICK n \in Nat, v \in Seq(Op), d \in Dups :
         n = applied[s] /\ v = store[s] /\ d = duplicateTable[s]
  BY DEF LoopTypes, StoreTypes
<1>2. Replays(n, v, d)
  BY <1>1 DEF ReplayInv, Replica
<1>3. n \in 0 .. Len(chosen) /\ v = Produced(UpTo(chosen)[n])
  BY <1>2 DEF Replays
<1>4. Requests(l) = UpTo(chosen)[n]
  BY <1>1, <1>3, AppliedRequests
<1>5. v = Value(l)
  BY <1>3, <1>4, ValueIsProduced
<1>6. ASSUME NEW c \in Clerk
      PROVE  d[c] = Cardinality(OfClerk(l, c))
  <2>1. l = SubSeq(chosen, 1, n) /\ KnownOps /\ RaftTypes
    BY <1>1 DEF RequestInv
  <2> QED BY <1>2, <2>1, ClerkRequests
<1> QED BY <1>1, <1>5, <1>6 DEF OfClerk

\* Every replica's store and duplicate table are what the log it has applied
\* says, each request once, however it got there: entry by entry, by a snapshot
\* or by a restart (server.go: applyLoop, restoreSnapshot).
THEOREM StoresReplay == Spec => []StoreIsReplay
BY InvStores, Invariance, PTL

(***************************************************************************)
(* The service implements the atomic store.                                *)
(***************************************************************************)
LEMMA AtomicValue == \A q : Atomic!Value(q) = Produced(q)
BY DEF Atomic!Value, Atomic!Written, Produced, Made, IsMade, Execute

LEMMA PhaseIs ==
    ASSUME NEW c \in Clerk
    PROVE  /\ Class(call[c].pc) = "idle" => Phase(c) = "idle"
           /\ Class(call[c].pc) = "read" => Phase(c) = "reading"
           /\ Class(call[c].pc) = "propose" =>
                 Phase(c) = IF IsChosen(call[c].op) THEN "written" ELSE "writing"
           /\ Class(call'[c].pc) = "idle" => Phase(c)' = "idle"
           /\ Class(call'[c].pc) = "read" => Phase(c)' = "reading"
           /\ Class(call'[c].pc) = "propose" =>
                 Phase(c)' = IF \E n \in DOMAIN chosen' : chosen'[n].op = call'[c].op
                             THEN "written" ELSE "writing"
<1>1. /\ Class(call[c].pc) = "idle" => Phase(c) = "idle"
      /\ Class(call[c].pc) = "read" => Phase(c) = "reading"
      /\ Class(call[c].pc) = "propose" =>
            Phase(c) = IF IsChosen(call[c].op) THEN "written" ELSE "writing"
  BY DEF Class, First, Phase
<1>2. /\ Class(call'[c].pc) = "idle" => Phase(c)' = "idle"
      /\ Class(call'[c].pc) = "read" => Phase(c)' = "reading"
      /\ Class(call'[c].pc) = "propose" =>
            Phase(c)' = IF \E n \in DOMAIN chosen' : chosen'[n].op = call'[c].op
                        THEN "written" ELSE "writing"
  BY DEF Class, First, Phase, IsChosen
<1> QED BY <1>1, <1>2

\* The requests a step adds are those of calls under way, each its clerk's.
LEMMA NewRequests ==
    ASSUME Inv, Inv', Advances, \A c \in Clerk : Keeps(c),
           NEW r \in Seq(Op), NEW q \in Seq(Op), r = Requests(chosen), q = Requests(chosen'),
           NEW n \in Len(r) + 1 .. Len(q)
    PROVE  /\ q[n].clerk \in Clerk /\ call[q[n].clerk].pc \in Writing
           /\ call[q[n].clerk].op = q[n] /\ ~IsChosen(q[n])
           /\ \E i \in 1 .. Len(chosen') : chosen'[i].op = q[n]
<1> USE DEF Inv, TypeInv, RequestInv
<1>1. chosen \in Seq(Entry) /\ chosen' \in Seq(Entry) /\ Begins(chosen, chosen')
  BY DEF RaftTypes, Advances
<1>2. /\ Begins(r, q) /\ OnceEach(q)
      /\ \A o : Carries(r, o) <=> Asks(chosen, Len(chosen), o)
      /\ \A o : Carries(q, o) <=> Asks(chosen', Len(chosen'), o)
  BY <1>1, RequestsGrow, RequestsHold
<1>3. PICK k \in Nat, m \in Nat : k = Len(r) /\ m = Len(q) /\ n \in 1 .. m /\ n > k
  OBVIOUS
<1>4. PICK o \in Op : o = q[n]
  BY <1>3
<1>5. Carries(q, o)
  BY <1>3, <1>4 DEF Carries
<1>6. o # NoopOp /\ \E i \in 1 .. Len(chosen') : chosen'[i].op = o
  BY <1>2, <1>5 DEF Asks
<1>7. ~Carries(r, o)
  <2> SUFFICES ASSUME NEW i \in 1 .. k, r[i] = o PROVE FALSE
    BY <1>3 DEF Carries
  <2>1. i \in 1 .. m /\ i # n
    <3>1. k <= m
      BY <1>2, <1>3 DEF Begins
    <3> QED BY <1>3, <3>1
  <2>2. q[i] = o
    BY <1>2, <1>3 DEF Begins
  <2> QED BY <1>2, <1>3, <1>4, <2>1, <2>2 DEF OnceEach
<1>8. \A i \in 1 .. Len(chosen) : chosen[i].op # o
  BY <1>2, <1>6, <1>7 DEF Asks
<1>9. ~IsChosen(o)
  <2>1. DOMAIN chosen = 1 .. Len(chosen)
    BY <1>1
  <2> QED BY <1>8, <2>1 DEF IsChosen
<1>10. InLogs(o)'
  BY <1>6 DEF InLogs, Logs
<1>11. PICK b \in Clerk \ Reader, j \in Nat : b = o.clerk /\ j = o.seq /\ j >= 1 /\ j <= calls'[b]
                                               /\ (j = calls'[b] => o = call'[b].op)
  BY <1>10, OpFields DEF KnownOps
<1>12. PICK w \in Nat : w = calls[b] /\ w = calls'[b] /\ call'[b].op = call[b].op
  BY KVAssumption DEF Keeps, ClerkTypes
<1>13. ~(j < w \/ call[b].pc = "idle")
  <2> SUFFICES ASSUME j < w \/ call[b].pc = "idle" PROVE FALSE
    OBVIOUS
  <2>1. j \in 1 .. calls[b]
    BY <1>11, <1>12
  <2>2. PICK i \in 1 .. Len(chosen) : IsOf(chosen[i].op, b, j)
    BY <1>12, <2>1 DEF Past
  <2>3. i \in 1 .. Len(chosen') /\ chosen'[i] = chosen[i]
    BY ChosenStays
  <2>4. InLogs(chosen[i].op)'
    BY <2>2, <2>3 DEF InLogs, Logs, IsOf
  <2>5. chosen[i].op = o
    BY <1>10, <1>11, <2>2, <2>3, <2>4 DEF KnownOps, IsOf
  <2> QED BY <1>8, <2>5
<1>14. j <= w
  BY <1>11, <1>12
<1>15. j = w
  BY <1>13, <1>14
<1>16. o = call[b].op
  BY <1>11, <1>12, <1>15
<1>17. call[b].pc \in Writing
  <2>1. call[b].pc \in {"idle"} \cup Writing \cup Reading
    BY CallFields DEF ClerkTypes
  <2> QED BY <1>13, <2>1 DEF CallOps
<1> QED BY <1>4, <1>6, <1>9, <1>11, <1>16, <1>17

LEMMA ChosenIs ==
    ASSUME RaftTypes
    PROVE  \A o : IsChosen(o) <=> \E i \in 1 .. Len(chosen) : chosen[i].op = o
<1>1. DOMAIN chosen = 1 .. Len(chosen)
  BY DEF RaftTypes
<1> QED BY <1>1 DEF IsChosen

\* A clerk that begins and ends nothing changes its phase only by its request.
LEMMA PhaseKept ==
    ASSUME ClerkTypes, NEW c \in Clerk, Keeps(c),
           call[c].pc \in Writing =>
              (IsChosen(call[c].op) <=> \E n \in DOMAIN chosen' : chosen'[n].op = call[c].op)
    PROVE  Phase(c)' = Phase(c)
<1>1. call[c].pc \in {"idle"} \cup Writing \cup Reading
  BY CallFields DEF ClerkTypes
<1>2. Class(call'[c].pc) = Class(call[c].pc) /\ call'[c].op = call[c].op
  BY DEF Keeps
<1>3. /\ Class(call'[c].pc) = "idle" => Phase(c)' = "idle"
      /\ Class(call'[c].pc) = "read" => Phase(c)' = "reading"
      /\ Class(call'[c].pc) = "propose" =>
            Phase(c)' = IF \E n \in DOMAIN chosen' : chosen'[n].op = call[c].op
                        THEN "written" ELSE "writing"
  BY <1>2, PhaseIs
<1>4. CASE call[c].pc = "idle"
  BY <1>2, <1>3, <1>4, PhaseIs, ClassIs
<1>5. CASE call[c].pc \in Reading
  BY <1>2, <1>3, <1>5, PhaseIs, ClassIs
<1>6. CASE call[c].pc \in Writing
  BY <1>2, <1>3, <1>6, PhaseIs, ClassIs
<1> QED BY <1>1, <1>4, <1>5, <1>6

LEMMA PrefixIs ==
    ASSUME NEW S, NEW r \in Seq(S), NEW q \in Seq(S), Begins(r, q)
    PROVE  SubSeq(q, 1, Len(r)) = r /\ (Len(q) = Len(r) => q = r)
<1>1. PICK k \in Nat, m \in Nat : k = Len(r) /\ m = Len(q) /\ k <= m
  BY DEF Begins
<1>2. k \in 0 .. Len(q)
  BY <1>1
<1>3. /\ SubSeq(q, 1, k) \in Seq(S) /\ Len(SubSeq(q, 1, k)) = k
      /\ \A i \in 1 .. k : SubSeq(q, 1, k)[i] = q[i]
  BY <1>2, TypedSubSeq
<1>4. SubSeq(q, 1, k) = r
  <2>1. PICK t \in Seq(S) : t = SubSeq(q, 1, k) /\ Len(t) = k /\ \A i \in 1 .. k : t[i] = q[i]
    BY <1>3
  <2> QED BY <1>1, <2>1 DEF Begins
<1>5. Len(q) = Len(r) => q = r
  BY DEF Begins
<1> QED BY <1>1, <1>3, <1>4, <1>5

\* What the abstract store sees of a step in which clerks begin and end nothing.
LEMMA EffectIs ==
    ASSUME Inv, Inv', Advances, \A c \in Clerk : Keeps(c),
           NEW r \in Seq(Op), NEW q \in Seq(Op), r = Requests(chosen), q = Requests(chosen'),
           NEW new, new = Len(r) + 1 .. Len(q)
    PROVE  /\ Begins(r, q)
           /\ \A n \in new : /\ q[n].clerk \in Clerk /\ Phase(q[n].clerk) = "writing"
                             /\ q[n] = call[q[n].clerk].op
           /\ \A m, n \in new : q[m].clerk = q[n].clerk => m = n
           /\ \A c \in Clerk :
                 Phase(c)' = IF \E n \in new : q[n].clerk = c THEN "written" ELSE Phase(c)
<1> USE DEF Inv, TypeInv
<1>1. chosen \in Seq(Entry) /\ chosen' \in Seq(Entry) /\ Begins(chosen, chosen')
  BY DEF RaftTypes, Advances
<1>2. /\ Begins(r, q) /\ OnceEach(q)
      /\ \A o : Carries(r, o) <=> Asks(chosen, Len(chosen), o)
      /\ \A o : Carries(q, o) <=> Asks(chosen', Len(chosen'), o)
  BY <1>1, RequestsGrow, RequestsHold
<1>3. \A n \in new : /\ q[n].clerk \in Clerk /\ call[q[n].clerk].pc \in Writing
                     /\ call[q[n].clerk].op = q[n] /\ ~IsChosen(q[n])
                     /\ \E i \in 1 .. Len(chosen') : chosen'[i].op = q[n]
  BY NewRequests
<1>4. \A n \in new : Phase(q[n].clerk) = "writing"
  <2> SUFFICES ASSUME NEW n \in new PROVE Phase(q[n].clerk) = "writing"
    OBVIOUS
  <2>1. PICK b \in Clerk : b = q[n].clerk
    BY <1>3
  <2>2. call[b].pc \in Writing /\ ~IsChosen(call[b].op)
    BY <1>3, <2>1
  <2> QED BY <2>1, <2>2, PhaseIs, ClassIs
<1>5. PICK k \in Nat, l \in Nat : k = Len(r) /\ l = Len(q) /\ k <= l
  BY <1>2 DEF Begins
<1>6. \A m \in new : m \in 1 .. l
  BY <1>5
<1>7. \A m, n \in new : q[m].clerk = q[n].clerk => m = n
  BY <1>2, <1>3, <1>5, <1>6 DEF OnceEach
<1>8. DOMAIN chosen' = 1 .. Len(chosen')
  BY <1>1
<1>9. ASSUME NEW c \in Clerk, NEW n \in new, q[n].clerk = c PROVE Phase(c)' = "written"
  <2>1. call[c].pc \in Writing /\ call'[c].op = q[n] /\ Class(call'[c].pc) = Class(call[c].pc)
    BY <1>3, <1>9 DEF Keeps
  <2>2. Class(call'[c].pc) = "propose"
    BY <2>1, ClassIs
  <2>3. \E i \in DOMAIN chosen' : chosen'[i].op = call'[c].op
    BY <1>3, <1>8, <2>1
  <2> QED BY <2>2, <2>3, PhaseIs
<1>10. ASSUME NEW c \in Clerk, \A n \in new : q[n].clerk # c PROVE Phase(c)' = Phase(c)
  <2>1. ASSUME call[c].pc \in Writing
        PROVE  IsChosen(call[c].op) <=> \E n \in DOMAIN chosen' : chosen'[n].op = call[c].op
    <3>1. PICK o \in Op : o = call[c].op /\ o.clerk = c
      BY <2>1 DEF RequestInv, CallOps
    <3>2. o # NoopOp
      BY NoopIsNoOp
    <3>3. IsChosen(o) <=> Carries(r, o)
      BY <1>2, <3>2, ChosenIs DEF Asks
    <3>4. (\E n \in DOMAIN chosen' : chosen'[n].op = o) <=> Carries(q, o)
      BY <1>2, <1>8, <3>2 DEF Asks
    <3>5. Carries(r, o) => Carries(q, o)
      <4>1. \A i \in 1 .. k : i \in 1 .. l /\ q[i] = r[i]
        BY <1>2, <1>5 DEF Begins
      <4> QED BY <1>5, <4>1 DEF Carries
    <3>6. ASSUME Carries(q, o) PROVE Carries(r, o)
      <4>1. PICK i \in 1 .. l : q[i] = o
        BY <1>5, <3>6 DEF Carries
      <4>2. i \notin new
        BY <1>10, <3>1, <4>1
      <4>3. i \in 1 .. k
        BY <1>5, <4>2
      <4>4. r[i] = o
        BY <1>2, <1>5, <4>1, <4>3 DEF Begins
      <4> QED BY <1>5, <4>3, <4>4 DEF Carries
    <3> QED BY <3>1, <3>3, <3>4, <3>5, <3>6
  <2> QED BY <2>1, PhaseKept
<1> QED BY <1>2, <1>3, <1>4, <1>7, <1>9, <1>10

\* The requests under way that a commit brings take effect; other steps of the
\* replicas the abstract store does not see.
LEMMA EffectStep ==
    ASSUME Inv, Inv', Advances, \A c \in Clerk : Keeps(c)
    PROVE  Atomic!Effect \/ UNCHANGED Atomic!vars
<1> USE DEF Inv, TypeInv
<1>1. PICK r \in Seq(Op), q \in Seq(Op) : r = Requests(chosen) /\ q = Requests(chosen')
  BY RequestsHold DEF RaftTypes
<1>2. PICK new : new = Len(r) + 1 .. Len(q)
  OBVIOUS
<1>3. /\ Begins(r, q)
      /\ \A n \in new : /\ q[n].clerk \in Clerk /\ Phase(q[n].clerk) = "writing"
                        /\ q[n] = call[q[n].clerk].op
      /\ \A m, n \in new : q[m].clerk = q[n].clerk => m = n
      /\ \A c \in Clerk :
            Phase(c)' = IF \E n \in new : q[n].clerk = c THEN "written" ELSE Phase(c)
  BY <1>1, <1>2, EffectIs
<1>4. PICK phase, phase2 : phase = [c \in Clerk |-> Phase(c)] /\ phase2 = [c \in Clerk |-> Phase(c)']
  OBVIOUS
<1>5. [c \in Clerk |-> call'[c].op] = [c \in Clerk |-> call[c].op] /\ got' = got
  BY DEF Keeps, ClerkTypes
<1>6. SubSeq(q, 1, Len(r)) = r
  BY <1>3, PrefixIs
<1>7. CASE new = {}
  <2>1. Len(q) = Len(r)
    <3>1. PICK k \in Nat, m \in Nat : k = Len(r) /\ m = Len(q) /\ k <= m
      BY <1>3 DEF Begins
    <3>2. ~(k + 1 <= m)
      <4>1. k + 1 \notin k + 1 .. m
        BY <1>2, <1>7, <3>1
      <4> QED BY <4>1
    <3> QED BY <3>1, <3>2
  <2>2. q = r
    BY <1>3, <2>1, PrefixIs
  <2>3. phase2 = phase
    BY <1>3, <1>4, <1>7
  <2> QED BY <1>1, <1>4, <1>5, <2>2, <2>3 DEF Atomic!vars
<1>8. CASE new # {}
  <2>1. \A n \in new : phase[q[n].clerk] = "writing"
                       /\ q[n] = [c \in Clerk |-> call[c].op][q[n].clerk]
    BY <1>3, <1>4
  <2>2. phase2 = [c \in Clerk |-> IF \E n \in new : q[n].clerk = c THEN "written" ELSE phase[c]]
    BY <1>3, <1>4
  <2> QED BY <1>1, <1>2, <1>3, <1>4, <1>5, <1>6, <1>8, <2>1, <2>2 DEF Atomic!Effect
<1> QED BY <1>7, <1>8

\* The clerks that begin and end nothing keep their phases and requests.
LEMMA OthersKept ==
    ASSUME Inv, NEW c \in Clerk, Others(c)
    PROVE  /\ chosen' = chosen
           /\ \A b \in Clerk \ {c} : /\ Phase(b)' = Phase(b) /\ call'[b].op = call[b].op
                                     /\ got'[b] = got[b]
<1>1. chosen' = chosen
  BY DEF Others, raftVars
<1>2. \A b \in Clerk \ {c} : Phase(b)' = Phase(b)
  <2> SUFFICES ASSUME NEW b \in Clerk \ {c} PROVE Phase(b)' = Phase(b)
    OBVIOUS
  <2>1. IsChosen(call[b].op) <=> \E n \in DOMAIN chosen' : chosen'[n].op = call[b].op
    BY <1>1 DEF IsChosen
  <2> QED BY <2>1, PhaseKept DEF Inv, TypeInv, Others
<1> QED BY <1>1, <1>2 DEF Others, Keeps

\* What a clerk's step is to the abstract store.
LEMMA AbstractStep ==
    ASSUME Inv, Inv', NEW c \in Clerk, Others(c), NEW from, NEW to,
           Phase(c) = from, Phase(c)' = to
    PROVE  /\ Requests(chosen') = Requests(chosen)
           /\ [b \in Clerk |-> Phase(b)][c] = from
           /\ [b \in Clerk |-> Phase(b)'] = [[b \in Clerk |-> Phase(b)] EXCEPT ![c] = to]
           /\ \A o : call'[c].op = o =>
                 [b \in Clerk |-> call'[b].op] = [[b \in Clerk |-> call[b].op] EXCEPT ![c] = o]
           /\ call'[c].op = call[c].op =>
                 [b \in Clerk |-> call'[b].op] = [b \in Clerk |-> call[b].op]
           /\ \A v : got'[c] = v => got' = [got EXCEPT ![c] = v]
           /\ got'[c] = got[c] => got' = got
<1>1. /\ chosen' = chosen
      /\ \A b \in Clerk \ {c} : /\ Phase(b)' = Phase(b) /\ call'[b].op = call[b].op
                                /\ got'[b] = got[b]
  BY OthersKept
<1>2. /\ \A v : got'[c] = v => got' = [got EXCEPT ![c] = v]
      /\ got'[c] = got[c] => got' = got
  BY <1>1 DEF Inv, TypeInv, ClerkTypes
<1>3. PICK p, p2 : p = [b \in Clerk |-> Phase(b)] /\ p2 = [b \in Clerk |-> Phase(b)']
  OBVIOUS
<1>4. p[c] = from /\ p2 = [p EXCEPT ![c] = to]
  BY <1>1, <1>3
<1>5. PICK m, m2 : m = [b \in Clerk |-> call[b].op] /\ m2 = [b \in Clerk |-> call'[b].op]
  OBVIOUS
<1>6. /\ \A o : call'[c].op = o => m2 = [m EXCEPT ![c] = o]
      /\ call'[c].op = call[c].op => m2 = m
  BY <1>1, <1>5
<1> QED BY <1>1, <1>2, <1>3, <1>4, <1>5, <1>6

LEMMA BeginWriteStep ==
    ASSUME Inv, Inv', NEW c \in Clerk, BeginsWrite(c)
    PROVE  Atomic!BeginWrite(c)
<1>1. PICK o \in Op : o = call'[c].op /\ o.clerk = c /\ o.seq = calls[c] + 1
  BY DEF BeginsWrite
<1>2. Others(c) /\ call[c].pc = "idle" /\ call'[c].pc = "propose" /\ got'[c] = got[c]
  BY DEF BeginsWrite
<1>3. Phase(c) = "idle"
  BY <1>2, PhaseIs, ClassIs
<1>4. Phase(c)' = "writing"
  <2>1. chosen' = chosen /\ DOMAIN chosen = 1 .. Len(chosen)
    BY <1>2, OthersKept DEF Inv, TypeInv, RaftTypes
  <2>2. \A n \in 1 .. Len(chosen) : chosen[n].op # o
    <3> SUFFICES ASSUME NEW n \in 1 .. Len(chosen), chosen[n].op = o PROVE FALSE
      OBVIOUS
    <3>1. InLogs(o)
      BY NoopIsNoOp DEF InLogs, Logs
    <3>2. PICK j \in Nat, w \in Nat : j = o.seq /\ w = calls[c]
      BY OpFields, KVAssumption DEF Inv, TypeInv, ClerkTypes
    <3>3. j <= w
      BY <1>1, <3>1, <3>2 DEF Inv, RequestInv, KnownOps
    <3>4. j = w + 1
      BY <1>1, <3>2
    <3> QED BY <3>3, <3>4
  <2>3. Class(call'[c].pc) = "propose"
    BY <1>2, ClassIs DEF Writing
  <2> QED BY <1>1, <2>1, <2>2, <2>3, PhaseIs
<1>5. /\ Requests(chosen') = Requests(chosen) /\ got' = got
      /\ [b \in Clerk |-> Phase(b)][c] = "idle"
      /\ [b \in Clerk |-> Phase(b)'] = [[b \in Clerk |-> Phase(b)] EXCEPT ![c] = "writing"]
      /\ [b \in Clerk |-> call'[b].op] = [[b \in Clerk |-> call[b].op] EXCEPT ![c] = o]
  BY <1>1, <1>2, <1>3, <1>4, AbstractStep
<1> QED BY <1>1, <1>5 DEF Atomic!BeginWrite, Atomic!Step

LEMMA BeginReadStep ==
    ASSUME Inv, Inv', NEW c \in Clerk, BeginsRead(c)
    PROVE  Atomic!BeginRead(c)
<1>1. /\ Others(c) /\ call[c].pc = "idle" /\ call'[c].pc = "read"
      /\ call'[c].op = call[c].op /\ got'[c] = got[c]
  BY DEF BeginsRead
<1>2. Phase(c) = "idle" /\ Phase(c)' = "reading"
  BY <1>1, PhaseIs, ClassIs DEF Reading
<1>3. /\ Requests(chosen') = Requests(chosen) /\ got' = got
      /\ [b \in Clerk |-> Phase(b)][c] = "idle"
      /\ [b \in Clerk |-> Phase(b)'] = [[b \in Clerk |-> Phase(b)] EXCEPT ![c] = "reading"]
      /\ [b \in Clerk |-> call'[b].op] = [b \in Clerk |-> call[b].op]
  BY <1>1, <1>2, AbstractStep
<1> QED BY <1>3 DEF Atomic!BeginRead, Atomic!Step

LEMMA EndWriteStep ==
    ASSUME Inv, Inv', NEW c \in Clerk, EndsWrite(c)
    PROVE  Atomic!EndWrite(c)
<1>1. /\ Others(c) /\ call[c].pc = "wait" /\ call'[c].pc = "idle"
      /\ call'[c].op = call[c].op /\ got'[c] = got[c]
      /\ \E i \in 1 .. Len(chosen) : chosen[i].op = call[c].op
  BY DEF EndsWrite
<1>2. Phase(c) = "written" /\ Phase(c)' = "idle"
  <2>1. IsChosen(call[c].op)
    BY <1>1, ChosenIs DEF Inv, TypeInv
  <2> QED BY <1>1, <2>1, PhaseIs, ClassIs DEF Writing
<1>3. /\ Requests(chosen') = Requests(chosen) /\ got' = got
      /\ [b \in Clerk |-> Phase(b)][c] = "written"
      /\ [b \in Clerk |-> Phase(b)'] = [[b \in Clerk |-> Phase(b)] EXCEPT ![c] = "idle"]
      /\ [b \in Clerk |-> call'[b].op] = [b \in Clerk |-> call[b].op]
  BY <1>1, <1>2, AbstractStep
<1> QED BY <1>3 DEF Atomic!EndWrite, Atomic!Step

\* A read returns what the first of the requests produce.
LEMMA EndReadStep ==
    ASSUME Inv, Inv', NEW c \in Clerk, EndsRead(c)
    PROVE  Atomic!EndRead(c)
<1>1. /\ Others(c) /\ call[c].pc = "readStore" /\ call'[c].pc = "idle"
      /\ call'[c].op = call[c].op /\ got'[c] = store[lastKnown[c]]
  BY DEF EndsRead
<1>2. Phase(c) = "reading" /\ Phase(c)' = "idle"
  BY <1>1, PhaseIs, ClassIs DEF Reading
<1>3. PICK v : v = store[lastKnown[c]]
  OBVIOUS
<1>4. /\ Requests(chosen') = Requests(chosen) /\ got' = [got EXCEPT ![c] = v]
      /\ [b \in Clerk |-> Phase(b)][c] = "reading"
      /\ [b \in Clerk |-> Phase(b)'] = [[b \in Clerk |-> Phase(b)] EXCEPT ![c] = "idle"]
      /\ [b \in Clerk |-> call'[b].op] = [b \in Clerk |-> call[b].op]
  BY <1>1, <1>2, <1>3, AbstractStep
<1>5. \E n \in 0 .. Len(Requests(chosen)) : v = Produced(SubSeq(Requests(chosen), 1, n))
  <2>1. PICK s \in Server, k \in Nat : s = lastKnown[c] /\ k = applied[s]
    BY DEF Inv, TypeInv, ClerkTypes, LoopTypes
  <2>2. k \in 0 .. Len(chosen) /\ v = Produced(UpTo(chosen)[k])
    BY <1>3, <2>1 DEF Inv, ReplayInv, Replica, Replays
  <2>3. chosen \in Seq(Entry) /\ Len(chosen) \in 0 .. Len(chosen)
    BY DEF Inv, TypeInv, RaftTypes
  <2>4. PICK r \in Seq(Op), q \in Seq(Op) : r = UpTo(chosen)[k] /\ q = Requests(chosen)
    BY <2>2, <2>3, UpToIs, RequestsHold
  <2>5. Begins(r, q)
    <3>1. q = UpTo(chosen)[Len(chosen)]
      BY <2>4, RequestsAreUpTo
    <3> QED BY <2>2, <2>3, <2>4, <3>1, UpToGrows
  <2>6. SubSeq(q, 1, Len(r)) = r
    BY <2>5, PrefixIs
  <2>7. Len(r) \in 0 .. Len(q)
    BY <2>5 DEF Begins
  <2> QED BY <2>2, <2>4, <2>6, <2>7
<1>6. \E n \in 0 .. Len(Requests(chosen)) : v = Atomic!Value(SubSeq(Requests(chosen), 1, n))
  BY <1>5, AtomicValue
<1> QED BY <1>4, <1>6 DEF Atomic!EndRead, Atomic!Step

LEMMA AtomicInit == Init => Atomic!Init
<1> SUFFICES ASSUME Init PROVE Atomic!Init
  OBVIOUS
<1>1. Requests(chosen) = <<>>
  <2>1. chosen = <<>> /\ <<>> \in Seq(Entry) /\ Len(<<>>) = 0
    BY DEF Init, ServiceInit
  <2>2. UpTo(<<>>)[0] = <<>>
    BY <2>1, UpToIs
  <2> QED BY <2>1, <2>2, RequestsAreUpTo
<1>2. \A c \in Clerk : call[c].pc = "idle" /\ call[c].op = Nil
  BY DEF Init, ServiceInit
<1>3. \A c \in Clerk : Phase(c) = "idle"
  BY <1>2, PhaseIs, ClassIs
<1> QED BY <1>1, <1>2, <1>3 DEF Init, Atomic!Init

LEMMA AtomicNext == Inv /\ Inv' /\ [Next]_vars => [Atomic!Next]_(Atomic!vars)
<1> SUFFICES ASSUME Inv, Inv', [Next]_vars PROVE [Atomic!Next]_(Atomic!vars)
  OBVIOUS
<1>1. Advances
  <2>1. RaftStep
    BY ProposedOps, RaftSteps DEF Inv, RequestInv
  <2> QED BY <2>1, RaftKeeps DEF Inv, TypeInv, RaftNextInv
<1>2. CASE Next
  <2>1. ClerkStep
    BY <1>2, ProposedOps, ClerkSteps DEF Inv, RequestInv, ServiceInv, CallInv
  <2>2. CASE \A c \in Clerk : Keeps(c)
    BY <1>1, <2>2, EffectStep DEF Atomic!Next
  <2>3. ASSUME NEW c \in Clerk,
               BeginsWrite(c) \/ BeginsRead(c) \/ EndsWrite(c) \/ EndsRead(c)
        PROVE  Atomic!Next
    BY <2>3, BeginWriteStep, BeginReadStep, EndWriteStep, EndReadStep DEF Atomic!Next
  <2> QED BY <2>1, <2>2, <2>3 DEF ClerkStep
<1>3. CASE UNCHANGED vars
  <2>1. \A c \in Clerk : Keeps(c)
    BY <1>3 DEF vars, serviceVars, clerkVars, kvVars, Keeps
  <2> QED BY <1>1, <2>1, EffectStep DEF Atomic!Next
<1> QED BY <1>2, <1>3

\* The service implements the atomic store: a write takes effect once, between
\* its call and its return, whatever retries, leader changes, crashes and
\* snapshots come between, and a Get returns a value the key has had
\* (server.go: PutAppend, Get, applyLoop; client.go).
THEOREM AtomicStore == Spec => ImplementsAtomicKV
<1>1. Init => Atomic!Init
  BY AtomicInit
<1>2. Inv /\ Inv' /\ [Next]_vars => [Atomic!Next]_(Atomic!vars)
  BY AtomicNext
<1> QED BY <1>1, <1>2, Invariance, PTL DEF Spec, ImplementsAtomicKV, Atomic!Spec
=============================================================================
