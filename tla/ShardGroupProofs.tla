-------------------------- MODULE ShardGroupProofs --------------------------
(***************************************************************************)
(* Shard groups: types, no write twice in a store, one owner for every     *)
(* shard, no acknowledged write lost, and reads that find the clerk's own  *)
(* writes, for any groups, replicas, clerks and histories of configs.      *)
(*                                                                         *)
(* The argument for one owner.  A group's log takes it through the configs *)
(* one by one, so a replica that has applied the whole log is in the last  *)
(* config the log has (FollowsLog).  A group that has a shard, or ever had *)
(* it, knows that every earlier owner's log has taken it out of the config *)
(* in which it owned the shard (Ready): the first owner had no             *)
(* predecessor, and a later one got the shard by a pull, which the donor   *)
(* answers only from the newer config and only if it is Ready itself.      *)
(* This needs shards that never return to a group they left, nor to nobody *)
(* (Orderly).  Without it the result is false: a Migrate entry names no    *)
(* config, and with a shard owned by g1, g2, g1, g2 in four configs, what  *)
(* g2 pulled in the second may arrive in the fourth, while g1, still in    *)
(* the third, pulls it back.                                               *)
(*                                                                         *)
(* That acknowledged writes are kept is proved in the second part, from an *)
(* invariant about the history of the groups' states, and that a clerk     *)
(* reads its own in the third, from that and one about terms and no-ops.   *)
(*                                                                         *)
(* The predicates take the logs and commit indices as parameters, L and C, *)
(* so that the lemmas about them are about constants; the invariant at the *)
(* end applies them to the variables.                                      *)
(***************************************************************************)
EXTENDS ShardGroup, DataLemmas

AskType == [step : {"ask"}, shard : Shard, from : Group, num : 1 .. Len(Configs)]
GotType == [step : {"got"}, shard : Shard, data : Seq(Write), dup : [Client -> 0 .. MaxSeq]]
PullType == {None} \cup AskType \cup GotType
ClerkType == [pc : {"idle", "call", "wait", "reading"}, seq : 0 .. MaxSeq,
              cfg : 1 .. Len(Configs), shard : Shard \cup {None},
              at : Replica \cup {None}, term : 0 .. MaxFaults + 1, index : Nat]

\* Each write is there once, and the table knows of it.
GoodData(data, dup) ==
    /\ \A i, j \in DOMAIN data : data[i] = data[j] => i = j
    /\ \A i \in DOMAIN data : data[i].seq <= dup[data[i].client]
GoodKV(st) == \A s \in Shard : GoodData(st.store[s], st.duplicateTable)

IsConfig(op, n) == op.type = "Config" /\ op.num = n

\* The config of a replica that has applied n entries of q.
FollowsLog(q, n, st) ==
    /\ \A k \in 1 .. st.cfg : \E i \in 1 .. n : IsConfig(q[i], k)
    /\ \A i \in 1 .. n : q[i].type = "Config" => q[i].num <= st.cfg

\* Group g gains s in config k, from f.
Gains(g, s, k, f) ==
    k \in 2 .. Len(Configs) /\ Owner(k, s) = g /\ f = Owner(k - 1, s) /\ f \notin {g, Nobody}

\* What is missing was gained in a config the replica has reached.
MissesGained(g, st) ==
    \A s \in Shard : st.migrating[s] # None => \E k \in 2 .. st.cfg : Gains(g, s, k, st.migrating[s])

\* A group owns a shard from one config to another, and a shard that has an
\* owner keeps having one (but perhaps in the last config).
Orderly ==
    \A s \in Shard : \A i, j, k \in 1 .. Len(Configs) : i < j /\ j < k =>
        /\ Owner(i, s) = Owner(k, s) => Owner(j, s) = Owner(i, s)
        /\ Owner(j, s) = Nobody => Owner(i, s) = Nobody

\* The log of g has taken the group to config n.
Past(L, C, g, n) == \E i \in 1 .. C[g] : IsConfig(L[g][i], n)

\* The owners of s before g are past the configs in which they owned it.
Ready(L, C, g, s) ==
    \A i \in 1 .. Len(Configs) : Owner(i, s) = g =>
        \A j \in 1 .. i : Owner(j, s) \notin {g, Nobody} => Past(L, C, Owner(j, s), j + 1)

\* Group g has, or has had, the shard in this state.
HadBy(g, s, st) == st.migrating[s] = None /\ \E i \in 1 .. st.cfg : Owner(i, s) = g

\* What g has had it has got from those before it.
HasGot(L, C, g, st) == \A s \in Shard : HadBy(g, s, st) => Ready(L, C, g, s)

\* What holds of a replica's state, or of a snapshot, after n entries.
GoodState(L, C, last, g, n, st) ==
    /\ st \in KV /\ n \in Nat /\ st.cfg <= last /\ n <= C[g]
    /\ GoodKV(st)
    /\ FollowsLog(L[g], n, st)
    /\ MissesGained(g, st)
    /\ Orderly => HasGot(L, C, g, st)

\* What holds of entry i of g's log: a config comes after the one before it,
\* a pulled shard is complete.
GoodOp(L, C, last, g, i) ==
    /\ L[g][i].type = "Config" =>
          /\ L[g][i].num <= last
          /\ L[g][i].num # 1 => \E j \in 1 .. i - 1 : IsConfig(L[g][j], L[g][i].num - 1)
    /\ L[g][i].type = "Migrate" =>
          GoodData(L[g][i].data, L[g][i].dup) /\ (Orderly => Ready(L, C, g, L[g][i].shard))

\* What holds of a pull on its way.
GoodPull(L, C, g, p) ==
    /\ p # None /\ p.step = "ask" => \E k \in 2 .. p.num : Gains(g, p.shard, k, p.from)
    /\ p # None /\ p.step = "got" =>
          GoodData(p.data, p.dup) /\ (Orderly => Ready(L, C, g, p.shard))

\* The parts of the invariant: Raft, the replicas' states, the logs, the
\* loops, the pulls, the clerks.
RaftPart ==
    /\ latest \in 1 .. Len(Configs)
    /\ log \in [Group -> Seq(Op)]
    /\ commit \in [Group -> Nat] /\ \A g \in Group : commit[g] <= Len(log[g])
    /\ leader \in [Group -> Replica] /\ \A g \in Group : GroupOf[leader[g]] = g
    /\ term \in [Group -> 1 .. MaxFaults + 1]
    /\ faults \in 0 .. MaxFaults /\ \A g \in Group : term[g] <= faults + 1
StatePart ==
    /\ kv \in [Replica -> KV] /\ applied \in [Replica -> Nat]
    /\ snapshot \in [Replica -> [index : Nat, kv : KV]]
    /\ noopAppliedTerm \in [Replica -> 0 .. MaxFaults + 1]
    /\ \A r \in Replica :
          /\ GoodState(log, commit, latest, GroupOf[r], applied[r], kv[r])
          /\ GoodState(log, commit, latest, GroupOf[r], snapshot[r].index, snapshot[r].kv)
          /\ snapshot[r].index <= applied[r]
OpsPart == \A g \in Group : \A i \in 1 .. Len(log[g]) : GoodOp(log, commit, latest, g, i)
LoopPart ==
    /\ lastNoopTerm \in [Replica -> 0 .. MaxFaults + 1]
    /\ lastProposed \in [Replica -> 0 .. Len(Configs)]
    /\ migrateProposed \in [Replica -> SUBSET Shard]
    /\ gcProposed \in [Replica -> SUBSET Shard]
    /\ gc \in [Replica -> Shard \cup {None}]
PullPart ==
    /\ pull \in [Replica -> PullType]
    /\ \A r \in Replica : GoodPull(log, commit, GroupOf[r], pull[r])
ClerkPart ==
    /\ clerk \in [Client -> ClerkType]
    /\ \A c \in Client :
          /\ clerk[c].pc # "idle" => clerk[c].shard \in Shard
          /\ clerk[c].pc \in {"call", "wait"} => clerk[c].seq >= 1
    /\ acked \subseteq [shard : Shard, client : Client, seq : 1 .. MaxSeq]

ShardInv == RaftPart /\ StatePart /\ OpsPart /\ LoopPart /\ PullPart /\ ClerkPart

(***************************************************************************)
(* What the applied entries do to a state.                                 *)
(***************************************************************************)

\* An owner is a group or nobody.
LEMMA OwnerType == ASSUME NEW n \in 0 .. Len(Configs), NEW s \in Shard
                   PROVE  Owner(n, s) \in Group \cup {Nobody}
<1>1. CASE n = 0
    BY <1>1 DEF Owner
<1>2. CASE n # 0
    <2>1. Configs \in Seq([Shard -> Group \cup {Nobody}])
        BY ConfigAssumption
    <2>2. n \in 1 .. Len(Configs)
        <3>1. Len(Configs) \in Nat
            BY <2>1, LenProperties
        <3> QED BY <1>2, <3>1
    <2>3. Configs[n] \in [Shard -> Group \cup {Nobody}]
        BY <2>1, <2>2, ElementOfSeq
    <2> QED BY <1>2, <2>3 DEF Owner
<1> QED BY <1>1, <1>2

\* The number of configs is a positive number.
LEMMA ConfigsNat == Len(Configs) \in Nat /\ Len(Configs) >= 1
<1>1. Configs \in Seq([Shard -> Group \cup {Nobody}]) /\ Configs # <<>>
    BY ConfigAssumption
<1> QED BY <1>1, LenProperties, EmptySeq

\* The fields of a replica's state.
LEMMA KVFields ==
    ASSUME NEW st \in KV
    PROVE  /\ st.store \in [Shard -> Seq(Write)]
           /\ st.duplicateTable \in [Client -> 0 .. MaxSeq]
           /\ st.cfg \in 0 .. Len(Configs) /\ st.cfg \in Nat
           /\ st.migrating \in [Shard -> Group \cup {None}]
           /\ st.leaving \in [Shard -> Group \cup {None}]
BY ConfigsNat DEF KV, Map

\* The fields of a log entry of each type.
LEMMA OpFields ==
    ASSUME NEW op \in Op
    PROVE  /\ op.type \in {"Config", "Migrate", "GC", "Noop", "Write"}
           /\ op.type = "Config" => op.num \in 1 .. Len(Configs) /\ op.num \in Nat
           /\ op.type = "Migrate" => /\ op.shard \in Shard /\ op.data \in Seq(Write)
                                     /\ op.dup \in [Client -> 0 .. MaxSeq]
           /\ op.type = "GC" => op.shard \in Shard
           /\ op.type = "Noop" => op.term \in 1 .. MaxFaults + 1
           /\ op.type = "Write" => op.shard \in Shard /\ op.client \in Client /\ op.seq \in 1 .. MaxSeq
<1>1. CASE op \in [type : {"Config"}, num : 1 .. Len(Configs)]
    BY <1>1, ConfigsNat
<1>2. CASE op \in [type : {"Migrate"}, shard : Shard, data : Seq(Write), dup : [Client -> 0 .. MaxSeq]]
    BY <1>2
<1>3. CASE op \in [type : {"GC"}, shard : Shard]
    BY <1>3
<1>4. CASE op \in [type : {"Noop"}, term : 1 .. MaxFaults + 1]
    BY <1>4
<1>5. CASE op \in [type : {"Write"}, shard : Shard, client : Client, seq : 1 .. MaxSeq]
    BY <1>5
<1> QED BY <1>1, <1>2, <1>3, <1>4, <1>5 DEF Op

\* The merged table has every entry of both.
LEMMA MergeDupProps ==
    ASSUME NEW a \in [Client -> 0 .. MaxSeq], NEW b \in [Client -> 0 .. MaxSeq]
    PROVE  /\ MergeDup(a, b) \in [Client -> 0 .. MaxSeq]
           /\ \A c \in Client : MergeDup(a, b)[c] >= a[c] /\ MergeDup(a, b)[c] >= b[c]
<1>1. MaxSeq \in Nat
    BY BoundAssumption
<1> QED BY <1>1 DEF MergeDup

\* Data stays good when the table grows.
LEMMA GoodDataGrows ==
    ASSUME NEW data \in Seq(Write), NEW a \in [Client -> 0 .. MaxSeq], NEW b \in [Client -> 0 .. MaxSeq],
           GoodData(data, a), \A c \in Client : b[c] >= a[c]
    PROVE  GoodData(data, b)
<1>1. MaxSeq \in Nat
    BY BoundAssumption
<1>2. ASSUME NEW i \in DOMAIN data PROVE data[i].seq <= b[data[i].client]
    <2>1. data[i] \in Write
        BY ElementOfSeq, LenProperties
    <2>2. data[i].client \in Client /\ data[i].seq \in 1 .. MaxSeq
        BY <2>1 DEF Write
    <2>3. data[i].seq <= a[data[i].client]
        BY DEF GoodData
    <2>4. PICK x \in Client : x = data[i].client
        BY <2>2
    <2>5. a[x] \in 0 .. MaxSeq /\ b[x] \in 0 .. MaxSeq /\ b[x] >= a[x]
        BY <2>4
    <2> QED BY <1>1, <2>2, <2>3, <2>4, <2>5
<1> QED BY <1>2 DEF GoodData

\* A new write is not in the data yet.
LEMMA GoodDataAppend ==
    ASSUME NEW data \in Seq(Write), NEW a \in [Client -> 0 .. MaxSeq],
           NEW c \in Client, NEW q \in 1 .. MaxSeq, q > a[c], GoodData(data, a)
    PROVE  GoodData(Append(data, [client |-> c, seq |-> q]), [a EXCEPT ![c] = q])
<1> DEFINE w == [client |-> c, seq |-> q]
           new == Append(data, w)
           b == [a EXCEPT ![c] = q]
<1>1. MaxSeq \in Nat
    BY BoundAssumption
<1>2. w \in Write
    BY DEF Write
<1>3. Len(data) \in Nat /\ DOMAIN data = 1 .. Len(data)
    BY LenProperties
<1>4. /\ Len(new) = Len(data) + 1 /\ DOMAIN new = 1 .. Len(data) + 1
      /\ \A i \in 1 .. Len(data) : new[i] = data[i]
      /\ new[Len(data) + 1] = w
    BY <1>2, <1>3, AppendProperties, LenProperties
<1>5. ASSUME NEW i \in 1 .. Len(data)
      PROVE  /\ data[i].seq \in 1 .. MaxSeq /\ data[i].client \in Client
             /\ data[i].seq <= a[data[i].client] /\ data[i] # w
    <2>1. data[i] \in Write
        BY ElementOfSeq
    <2>2. data[i].client \in Client /\ data[i].seq \in 1 .. MaxSeq
        BY <2>1 DEF Write
    <2>3. data[i].seq <= a[data[i].client]
        BY <1>3 DEF GoodData
    <2>4. ASSUME data[i] = w PROVE FALSE
        <3>1. data[i].seq = q /\ data[i].client = c
            BY <2>4
        <3>2. a[c] \in 0 .. MaxSeq
            OBVIOUS
        <3> QED BY <1>1, <2>3, <3>1, <3>2
    <2> QED BY <2>2, <2>3, <2>4
<1>6. ASSUME NEW i \in DOMAIN new, NEW j \in DOMAIN new, new[i] = new[j] PROVE i = j
    <2>1. CASE i \in 1 .. Len(data) /\ j \in 1 .. Len(data)
        BY <1>3, <1>4, <1>6, <2>1 DEF GoodData
    <2>2. CASE i = Len(data) + 1 /\ j \in 1 .. Len(data)
        BY <1>4, <1>5, <1>6, <2>2
    <2>3. CASE j = Len(data) + 1 /\ i \in 1 .. Len(data)
        BY <1>4, <1>5, <1>6, <2>3
    <2>4. i \in 1 .. Len(data) + 1 /\ j \in 1 .. Len(data) + 1
        BY <1>4
    <2> QED BY <1>3, <2>1, <2>2, <2>3, <2>4
<1>7. ASSUME NEW i \in DOMAIN new PROVE new[i].seq <= b[new[i].client]
    <2>1. CASE i = Len(data) + 1
        <3>1. new[i].seq = q /\ new[i].client = c
            BY <1>4, <2>1
        <3>2. b[c] = q
            OBVIOUS
        <3> QED BY <1>1, <3>1, <3>2
    <2>2. CASE i \in 1 .. Len(data)
        <3>1. PICK x \in Client, y \in 1 .. MaxSeq : x = data[i].client /\ y = data[i].seq
            BY <1>5, <2>2
        <3>2. y <= a[x] /\ a[x] \in 0 .. MaxSeq
            BY <1>5, <2>2, <3>1
        <3>3. b[x] = IF x = c THEN q ELSE a[x]
            OBVIOUS
        <3>4. y <= b[x]
            BY <1>1, <3>2, <3>3
        <3> QED BY <1>4, <2>2, <3>1, <3>4
    <2>3. i \in 1 .. Len(data) + 1
        BY <1>4
    <2> QED BY <1>3, <2>1, <2>2, <2>3
<1> QED BY <1>6, <1>7 DEF GoodData

\* A config that is the next one: the shards gained are missing, the rest of
\* what matters here stays.
LEMMA ApplyConfigFields ==
    ASSUME NEW g \in Group, NEW st \in KV, NEW n \in 1 .. Len(Configs), n = st.cfg + 1
    PROVE  LET new == ApplyConfig(g, st, n) IN
           /\ new \in KV /\ new.cfg = n
           /\ new.store = st.store /\ new.duplicateTable = st.duplicateTable
           /\ \A s \in Shard :
                 new.migrating[s] = IF Owner(n, s) = g /\ Owner(st.cfg, s) \notin {g, Nobody}
                                    THEN Owner(st.cfg, s) ELSE st.migrating[s]
           /\ \A s \in Shard :
                 new.leaving[s] = IF Owner(st.cfg, s) = g /\ Owner(n, s) \notin {g, Nobody}
                                  THEN Owner(n, s) ELSE st.leaving[s]
<1> DEFINE gained(s) == Owner(n, s) = g /\ Owner(st.cfg, s) \notin {g, Nobody}
           lost(s)   == Owner(st.cfg, s) = g /\ Owner(n, s) \notin {g, Nobody}
           m == [s \in Shard |-> IF gained(s) THEN Owner(st.cfg, s) ELSE st.migrating[s]]
           l == [s \in Shard |-> IF lost(s) THEN Owner(n, s) ELSE st.leaving[s]]
           new == [st EXCEPT !.cfg = n, !.migrating = m, !.leaving = l]
<1>1. ApplyConfig(g, st, n) = new
    BY DEF ApplyConfig
<1>2. m \in Map
    <2>1. ASSUME NEW s \in Shard PROVE m[s] \in Group \cup {None}
        BY OwnerType, KVFields
    <2> QED BY <2>1 DEF Map
<1>3. l \in Map
    <2>1. \A s \in Shard : Owner(n, s) \in Group \cup {Nobody}
        BY OwnerType, ConfigsNat
    <2>2. ASSUME NEW s \in Shard PROVE l[s] \in Group \cup {None}
        BY <2>1, KVFields
    <2> QED BY <2>2 DEF Map
<1>4. n \in 0 .. Len(Configs)
    BY ConfigsNat
<1>5. /\ \A s \in Shard : m[s] = IF gained(s) THEN Owner(st.cfg, s) ELSE st.migrating[s]
      /\ \A s \in Shard : l[s] = IF lost(s) THEN Owner(n, s) ELSE st.leaving[s]
    OBVIOUS
<1> HIDE DEF m, l
<1>6. new \in KV
    BY <1>2, <1>3, <1>4 DEF KV
<1>7. /\ new.cfg = n /\ new.migrating = m /\ new.leaving = l
      /\ new.store = st.store /\ new.duplicateTable = st.duplicateTable
    BY DEF KV
<1> QED BY <1>1, <1>5, <1>6, <1>7

\* A pulled shard that is missing arrives, with its part of the table.
LEMMA ApplyMigrateFields ==
    ASSUME NEW st \in KV, NEW op \in Op, op.type = "Migrate", st.migrating[op.shard] # None
    PROVE  LET new == ApplyMigrate(st, op) IN
           /\ new \in KV /\ new.cfg = st.cfg /\ new.leaving = st.leaving
           /\ new.duplicateTable = MergeDup(st.duplicateTable, op.dup)
           /\ \A s \in Shard : new.store[s] = IF s = op.shard /\ op.data # <<>>
                                              THEN op.data ELSE st.store[s]
           /\ \A s \in Shard : new.migrating[s] = IF s = op.shard THEN None ELSE st.migrating[s]
<1>1. /\ op.shard \in Shard /\ op.data \in Seq(Write) /\ op.dup \in [Client -> 0 .. MaxSeq]
    BY OpFields
<1> DEFINE x == IF op.data = <<>> THEN st.store[op.shard] ELSE op.data
           new == [st EXCEPT !.store[op.shard] = x,
                             !.duplicateTable = MergeDup(st.duplicateTable, op.dup),
                             !.migrating[op.shard] = None]
<1>2. ApplyMigrate(st, op) = new
    BY DEF ApplyMigrate
<1>3. MergeDup(st.duplicateTable, op.dup) \in [Client -> 0 .. MaxSeq]
    BY <1>1, KVFields, MergeDupProps
<1>4. x \in Seq(Write)
    BY <1>1, KVFields
<1>5. \A s \in Shard : (IF s = op.shard THEN x ELSE st.store[s])
                         = IF s = op.shard /\ op.data # <<>> THEN op.data ELSE st.store[s]
    OBVIOUS
<1> HIDE DEF x
<1>6. new \in KV
    BY <1>1, <1>3, <1>4 DEF KV, Map
<1>7. /\ new.cfg = st.cfg /\ new.leaving = st.leaving /\ new.duplicateTable = MergeDup(st.duplicateTable, op.dup)
      /\ \A s \in Shard : new.store[s] = IF s = op.shard THEN x ELSE st.store[s]
      /\ \A s \in Shard : new.migrating[s] = IF s = op.shard THEN None ELSE st.migrating[s]
    BY <1>1, KVFields DEF KV
<1> QED BY <1>2, <1>5, <1>6, <1>7

\* A GC empties a shard that has left.
LEMMA ApplyGCFields ==
    ASSUME NEW st \in KV, NEW op \in Op, op.type = "GC", st.leaving[op.shard] # None
    PROVE  LET new == ApplyGC(st, op) IN
           /\ new \in KV /\ new.cfg = st.cfg /\ new.migrating = st.migrating
           /\ new.duplicateTable = st.duplicateTable
           /\ \A s \in Shard : new.store[s] = IF s = op.shard THEN <<>> ELSE st.store[s]
           /\ \A s \in Shard : new.leaving[s] = IF s = op.shard THEN None ELSE st.leaving[s]
<1>1. op.shard \in Shard
    BY OpFields
<1> DEFINE new == [st EXCEPT !.store[op.shard] = <<>>, !.leaving[op.shard] = None]
<1>2. ApplyGC(st, op) = new
    BY DEF ApplyGC
<1>3. new \in KV
    BY <1>1, EmptySeq DEF KV, Map
<1>4. /\ new.cfg = st.cfg /\ new.migrating = st.migrating /\ new.duplicateTable = st.duplicateTable
      /\ \A s \in Shard : new.store[s] = IF s = op.shard THEN <<>> ELSE st.store[s]
    BY <1>1, KVFields DEF KV
<1>5. \A s \in Shard : new.leaving[s] = IF s = op.shard THEN None ELSE st.leaving[s]
    BY <1>1, KVFields DEF KV
<1> HIDE DEF new
<1> QED BY <1>2, <1>3, <1>4, <1>5

\* The write of an entry.
WriteOf(op) == [client |-> op.client, seq |-> op.seq]

\* A new write to a shard that is owned is appended.
LEMMA ApplyWriteFields ==
    ASSUME NEW g \in Group, NEW st \in KV, NEW op \in Op, op.type = "Write",
           Owns(g, st, op.shard), IsNew(st, op)
    PROVE  LET new == ApplyWrite(g, st, op) IN
           /\ new \in KV /\ new.cfg = st.cfg /\ new.migrating = st.migrating /\ new.leaving = st.leaving
           /\ new.duplicateTable = [st.duplicateTable EXCEPT ![op.client] = op.seq]
           /\ \A s \in Shard : new.store[s] = IF s = op.shard THEN Append(st.store[s], WriteOf(op)) ELSE st.store[s]
<1>1. op.shard \in Shard /\ op.client \in Client /\ op.seq \in 1 .. MaxSeq
    BY OpFields
<1> DEFINE x == Append(st.store[op.shard], WriteOf(op))
           new == [st EXCEPT !.store[op.shard] = x, !.duplicateTable[op.client] = op.seq]
<1>2. ApplyWrite(g, st, op) = new
    BY DEF ApplyWrite, WriteOf
<1>3. x \in Seq(Write)
    <2>1. WriteOf(op) \in Write
        BY <1>1 DEF Write, WriteOf
    <2> QED BY <1>1, <2>1, KVFields, AppendProperties
<1>4. op.seq \in 0 .. MaxSeq
    BY <1>1, BoundAssumption
<1>5. \A s \in Shard : (IF s = op.shard THEN x ELSE st.store[s])
                          = IF s = op.shard THEN Append(st.store[s], WriteOf(op)) ELSE st.store[s]
    OBVIOUS
<1> HIDE DEF x
<1>6. new \in KV
    BY <1>1, <1>3, <1>4 DEF KV, Map
<1>7. /\ new.cfg = st.cfg /\ new.migrating = st.migrating /\ new.leaving = st.leaving
      /\ new.duplicateTable = [st.duplicateTable EXCEPT ![op.client] = op.seq]
      /\ \A s \in Shard : new.store[s] = IF s = op.shard THEN x ELSE st.store[s]
    BY <1>1, KVFields DEF KV
<1> QED BY <1>2, <1>5, <1>6, <1>7

\* An entry changes nothing, or it is one of the four that do.
LEMMA AppliedCases ==
    ASSUME NEW g \in Group, NEW st \in KV, NEW op \in Op
    PROVE  \/ Applied(g, st, op) = st /\ ~(op.type = "Config" /\ op.num = st.cfg + 1)
           \/ /\ op.type = "Config" /\ op.num = st.cfg + 1
              /\ Applied(g, st, op) = ApplyConfig(g, st, op.num)
           \/ /\ op.type = "Migrate" /\ st.migrating[op.shard] # None
              /\ Applied(g, st, op) = ApplyMigrate(st, op)
           \/ /\ op.type = "GC" /\ st.leaving[op.shard] # None
              /\ Applied(g, st, op) = ApplyGC(st, op)
           \/ /\ op.type = "Write" /\ Owns(g, st, op.shard) /\ IsNew(st, op)
              /\ Applied(g, st, op) = ApplyWrite(g, st, op)
<1>1. op.type \in {"Config", "Migrate", "GC", "Noop", "Write"}
    BY OpFields
<1>2. CASE op.type = "Config"
    <2>1. Applied(g, st, op) = ApplyConfig(g, st, op.num)
        BY <1>2 DEF Applied
    <2>2. op.num # st.cfg + 1 => ApplyConfig(g, st, op.num) = st
        BY DEF ApplyConfig
    <2> QED BY <1>2, <2>1, <2>2
<1>3. CASE op.type = "Migrate"
    <2>1. Applied(g, st, op) = ApplyMigrate(st, op)
        BY <1>3 DEF Applied
    <2>2. st.migrating[op.shard] = None => ApplyMigrate(st, op) = st
        BY DEF ApplyMigrate
    <2> QED BY <1>3, <2>1, <2>2
<1>4. CASE op.type = "GC"
    <2>1. Applied(g, st, op) = ApplyGC(st, op)
        BY <1>4 DEF Applied
    <2>2. st.leaving[op.shard] = None => ApplyGC(st, op) = st
        BY DEF ApplyGC
    <2> QED BY <1>4, <2>1, <2>2
<1>5. CASE op.type = "Write"
    <2>1. Applied(g, st, op) = ApplyWrite(g, st, op)
        BY <1>5 DEF Applied
    <2>2. ~Owns(g, st, op.shard) \/ ~IsNew(st, op) => ApplyWrite(g, st, op) = st
        BY DEF ApplyWrite
    <2> QED BY <1>5, <2>1, <2>2
<1>6. CASE op.type = "Noop"
    BY <1>6 DEF Applied
<1> QED BY <1>1, <1>2, <1>3, <1>4, <1>5, <1>6

\* The type and the config of the new state; what is missing changes with a
\* config and with the arrival of a shard only.
LEMMA AppliedFields ==
    ASSUME NEW g \in Group, NEW st \in KV, NEW op \in Op
    PROVE  LET new == Applied(g, st, op) IN
           /\ new \in KV
           /\ new.cfg = IF op.type = "Config" /\ op.num = st.cfg + 1 THEN op.num ELSE st.cfg
           /\ op.type \notin {"Config", "Migrate"} => new.migrating = st.migrating
           /\ op.type = "Migrate" => \A s \in Shard :
                 new.migrating[s] = IF s = op.shard THEN None ELSE st.migrating[s]
           /\ op.type = "Config" /\ op.num # st.cfg + 1 => new = st
           /\ op.type = "Config" /\ op.num = st.cfg + 1 => \A s \in Shard :
                 new.migrating[s] = IF Owner(op.num, s) = g /\ Owner(st.cfg, s) \notin {g, Nobody}
                                    THEN Owner(st.cfg, s) ELSE st.migrating[s]
<1> DEFINE new == Applied(g, st, op)
<1>1. CASE new = st /\ ~(op.type = "Config" /\ op.num = st.cfg + 1)
    <2>1. op.type = "Migrate" => st.migrating[op.shard] = None
        <3>1. ASSUME op.type = "Migrate", st.migrating[op.shard] # None PROVE FALSE
            <4>1. Applied(g, st, op) = ApplyMigrate(st, op)
                BY <3>1 DEF Applied
            <4>2. op.shard \in Shard
                BY <3>1, OpFields
            <4>3. ApplyMigrate(st, op).migrating[op.shard] = None
                BY <3>1, <4>2, ApplyMigrateFields
            <4>4. ApplyMigrate(st, op) = st
                <5>1. Applied(g, st, op) = st
                    BY <1>1
                <5> QED BY <4>1, <5>1, Zenon
            <4>5. st.migrating[op.shard] = None
                BY <4>3, <4>4, Zenon
            <4> QED BY <3>1, <4>5
        <3> QED BY <3>1
    <2> QED BY <1>1, <2>1
<1>2. CASE /\ op.type = "Config" /\ op.num = st.cfg + 1
           /\ new = ApplyConfig(g, st, op.num)
    <2>1. op.num \in 1 .. Len(Configs)
        BY <1>2, OpFields
    <2> HIDE DEF new
    <2>2. /\ new \in KV /\ new.cfg = op.num
          /\ \A s \in Shard :
                 new.migrating[s] = IF Owner(op.num, s) = g /\ Owner(st.cfg, s) \notin {g, Nobody}
                                    THEN Owner(st.cfg, s) ELSE st.migrating[s]
        BY <1>2, <2>1, ApplyConfigFields
    <2> QED BY <1>2, <2>2 DEF new
<1>3. CASE /\ op.type = "Migrate" /\ st.migrating[op.shard] # None
           /\ new = ApplyMigrate(st, op)
    BY <1>3, ApplyMigrateFields
<1>4. CASE /\ op.type = "GC" /\ st.leaving[op.shard] # None
           /\ new = ApplyGC(st, op)
    BY <1>4, ApplyGCFields
<1>5. CASE /\ op.type = "Write" /\ Owns(g, st, op.shard) /\ IsNew(st, op)
           /\ new = ApplyWrite(g, st, op)
    <2>1. /\ new \in KV /\ new.cfg = st.cfg /\ new.migrating = st.migrating
          /\ new.duplicateTable = [st.duplicateTable EXCEPT ![op.client] = op.seq]
        BY <1>5, ApplyWriteFields
    <2> HIDE DEF new
    <2>2. op.type = "Write"
        BY <1>5
    <2> QED BY <2>1, <2>2 DEF new
<1> HIDE DEF new
<1>6. \/ new = st /\ ~(op.type = "Config" /\ op.num = st.cfg + 1)
      \/ /\ op.type = "Config" /\ op.num = st.cfg + 1
         /\ new = ApplyConfig(g, st, op.num)
      \/ /\ op.type = "Migrate" /\ st.migrating[op.shard] # None
         /\ new = ApplyMigrate(st, op)
      \/ /\ op.type = "GC" /\ st.leaving[op.shard] # None
         /\ new = ApplyGC(st, op)
      \/ /\ op.type = "Write" /\ Owns(g, st, op.shard) /\ IsNew(st, op)
         /\ new = ApplyWrite(g, st, op)
    BY AppliedCases DEF new
<1> QED BY <1>1, <1>2, <1>3, <1>4, <1>5, <1>6 DEF new

\* No entry puts a write into a store a second time.
LEMMA AppliedGoodKV ==
    ASSUME NEW g \in Group, NEW st \in KV, NEW op \in Op, GoodKV(st),
           op.type = "Migrate" => GoodData(op.data, op.dup)
    PROVE  GoodKV(Applied(g, st, op))
<1> DEFINE new == Applied(g, st, op)
<1>1. CASE new = st
    BY <1>1
<1>2. CASE /\ op.type = "Config" /\ op.num = st.cfg + 1
           /\ new = ApplyConfig(g, st, op.num)
    <2>1. op.num \in 1 .. Len(Configs)
        BY <1>2, OpFields
    <2>2. new.store = st.store /\ new.duplicateTable = st.duplicateTable
        BY <1>2, <2>1, ApplyConfigFields
    <2> QED BY <2>2 DEF GoodKV
<1>3. CASE /\ op.type = "Migrate" /\ st.migrating[op.shard] # None
           /\ new = ApplyMigrate(st, op)
    <2> DEFINE dup == MergeDup(st.duplicateTable, op.dup)
    <2>1. /\ new.duplicateTable = dup
          /\ \A s \in Shard : new.store[s] = IF s = op.shard /\ op.data # <<>>
                                              THEN op.data ELSE st.store[s]
        BY <1>3, ApplyMigrateFields
    <2>2. op.data \in Seq(Write) /\ op.dup \in [Client -> 0 .. MaxSeq]
        BY <1>3, OpFields
    <2>3. st.duplicateTable \in [Client -> 0 .. MaxSeq]
        BY KVFields
    <2>4. /\ dup \in [Client -> 0 .. MaxSeq]
          /\ \A c \in Client : dup[c] >= st.duplicateTable[c] /\ dup[c] >= op.dup[c]
        BY <2>2, <2>3, MergeDupProps
    <2> HIDE DEF dup
    <2>5. GoodData(op.data, dup)
        BY <1>3, <2>2, <2>4, GoodDataGrows
    <2>6. ASSUME NEW s \in Shard PROVE GoodData(st.store[s], dup)
        <3>1. GoodData(st.store[s], st.duplicateTable) /\ st.store[s] \in Seq(Write)
            BY KVFields DEF GoodKV
        <3> QED BY <2>3, <2>4, <3>1, GoodDataGrows
    <2> QED BY <2>1, <2>5, <2>6 DEF GoodKV
<1>4. CASE /\ op.type = "GC" /\ st.leaving[op.shard] # None
           /\ new = ApplyGC(st, op)
    <2>1. /\ new.duplicateTable = st.duplicateTable
          /\ \A s \in Shard : new.store[s] = IF s = op.shard THEN <<>> ELSE st.store[s]
        BY <1>4, ApplyGCFields
    <2>2. GoodData(<<>>, st.duplicateTable)
        BY DEF GoodData
    <2> QED BY <2>1, <2>2 DEF GoodKV
<1>5. CASE /\ op.type = "Write" /\ Owns(g, st, op.shard) /\ IsNew(st, op)
           /\ new = ApplyWrite(g, st, op)
    <2> DEFINE dup == [st.duplicateTable EXCEPT ![op.client] = op.seq]
    <2>1. /\ new.duplicateTable = dup
          /\ \A s \in Shard : new.store[s] = IF s = op.shard THEN Append(st.store[s], WriteOf(op)) ELSE st.store[s]
        BY <1>5, ApplyWriteFields
    <2>2. op.client \in Client /\ op.seq \in 1 .. MaxSeq /\ op.seq > st.duplicateTable[op.client]
        BY <1>5, OpFields DEF IsNew
    <2>3. st.duplicateTable \in [Client -> 0 .. MaxSeq]
        BY KVFields
    <2>4. MaxSeq \in Nat
        BY BoundAssumption
    <2>5. dup \in [Client -> 0 .. MaxSeq] /\ \A c \in Client : dup[c] >= st.duplicateTable[c]
        BY <2>2, <2>3, <2>4
    <2>6. ASSUME NEW s \in Shard PROVE GoodData(st.store[s], dup) /\ GoodData(Append(st.store[s], WriteOf(op)), dup)
        <3>1. GoodData(st.store[s], st.duplicateTable) /\ st.store[s] \in Seq(Write)
            BY KVFields DEF GoodKV
        <3>2. GoodData(Append(st.store[s], WriteOf(op)), dup)
            BY <2>2, <2>3, <3>1, GoodDataAppend DEF WriteOf
        <3> HIDE DEF dup
        <3>3. GoodData(st.store[s], dup)
            BY <2>3, <2>5, <3>1, GoodDataGrows
        <3> QED BY <3>2, <3>3
    <2> HIDE DEF dup
    <2> QED BY <2>1, <2>6 DEF GoodKV
<1> HIDE DEF new
<1>6. \/ new = st
      \/ /\ op.type = "Config" /\ op.num = st.cfg + 1
         /\ new = ApplyConfig(g, st, op.num)
      \/ /\ op.type = "Migrate" /\ st.migrating[op.shard] # None
         /\ new = ApplyMigrate(st, op)
      \/ /\ op.type = "GC" /\ st.leaving[op.shard] # None
         /\ new = ApplyGC(st, op)
      \/ /\ op.type = "Write" /\ Owns(g, st, op.shard) /\ IsNew(st, op)
         /\ new = ApplyWrite(g, st, op)
    BY AppliedCases DEF new
<1> QED BY <1>1, <1>2, <1>3, <1>4, <1>5, <1>6 DEF new

(***************************************************************************)
(* Owners.                                                                 *)
(***************************************************************************)

\* The first owner of a shard has no owner before it.
LEMMA FirstOwner ==
    ASSUME Orderly, NEW s \in Shard, NEW g \in Group, NEW n \in 1 .. Len(Configs),
           Owner(n, s) = g, n = 1 \/ Owner(n - 1, s) = Nobody
    PROVE  \A i \in 1 .. Len(Configs) : Owner(i, s) = g =>
               \A j \in 1 .. i : Owner(j, s) \in {g, Nobody}
<1> SUFFICES ASSUME NEW i \in 1 .. Len(Configs), Owner(i, s) = g,
                    NEW j \in 1 .. i, Owner(j, s) \notin {g, Nobody}
             PROVE  FALSE
    OBVIOUS
<1>1. Len(Configs) \in Nat
    BY ConfigsNat
<1>2. j \in 1 .. Len(Configs)
    BY <1>1
<1>3. j # n /\ j # i
    OBVIOUS
<1>4. CASE n < j
    <2>1. n < j /\ j < i
        BY <1>1, <1>3, <1>4
    <2>2. Owner(n, s) = Owner(i, s) => Owner(j, s) = Owner(n, s)
        BY <1>2, <2>1 DEF Orderly
    <2> QED BY <2>2
<1>5. CASE j < n
    <2>1. n # 1 /\ n - 1 \in 1 .. Len(Configs) /\ Owner(n - 1, s) = Nobody
        BY <1>1, <1>5
    <2>2. j # n - 1
        BY <2>1
    <2>3. j < n - 1 /\ n - 1 < n
        BY <1>1, <1>5, <2>2
    <2>4. Owner(n - 1, s) = Nobody => Owner(j, s) = Nobody
        BY <1>2, <2>1, <2>3 DEF Orderly
    <2> QED BY <2>1, <2>4
<1> QED BY <1>1, <1>3, <1>4, <1>5

\* So it has nobody to wait for.
LEMMA FirstOwnerReady ==
    ASSUME Orderly, NEW L, NEW C, NEW s \in Shard, NEW g \in Group, NEW n \in 1 .. Len(Configs),
           Owner(n, s) = g, n = 1 \/ Owner(n - 1, s) = Nobody
    PROVE  Ready(L, C, g, s)
BY FirstOwner DEF Ready

\* The next owner may go ahead when the one before it may, and has left.
LEMMA NextOwnerReady ==
    ASSUME Orderly, NEW L, NEW C, NEW s \in Shard, NEW g \in Group, NEW f \in Group,
           NEW k \in 2 .. Len(Configs), Gains(g, s, k, f), Ready(L, C, f, s),
           \A m \in 2 .. k : Past(L, C, f, m)
    PROVE  Ready(L, C, g, s)
<1> SUFFICES ASSUME NEW i \in 1 .. Len(Configs), Owner(i, s) = g,
                    NEW j \in 1 .. i, Owner(j, s) \notin {g, Nobody}
             PROVE  Past(L, C, Owner(j, s), j + 1)
    BY DEF Ready
<1>1. Len(Configs) \in Nat
    BY ConfigsNat
<1>2. j \in 1 .. Len(Configs) /\ k \in 1 .. Len(Configs) /\ k - 1 \in 1 .. Len(Configs)
    BY <1>1
<1>3. Owner(k, s) = g /\ Owner(k - 1, s) = f /\ j # k /\ j # i
    BY DEF Gains
<1>4. CASE k < j
    <2>1. k < j /\ j < i
        BY <1>1, <1>3, <1>4
    <2>2. Owner(k, s) = Owner(i, s) => Owner(j, s) = Owner(k, s)
        BY <1>2, <2>1 DEF Orderly
    <2> QED BY <1>3, <2>2
<1>5. CASE j < k
    <2>1. j \in 1 .. k - 1 /\ j + 1 \in 2 .. k
        BY <1>1, <1>5
    <2>2. CASE Owner(j, s) = f
        BY <2>1, <2>2
    <2>3. CASE Owner(j, s) # f
        BY <1>2, <1>3, <2>1, <2>3 DEF Ready
    <2> QED BY <2>2, <2>3
<1> QED BY <1>1, <1>2, <1>3, <1>4, <1>5

(***************************************************************************)
(* What stays when the logs change.                                        *)
(***************************************************************************)

\* Logs M with commit indices D come after L with C: what is committed stays.
Grows(L, C, M, D) ==
    \A g \in Group : C[g] \in Nat /\ D[g] \in Nat /\ C[g] <= D[g] /\ \A i \in 1 .. C[g] : M[g][i] = L[g][i]

\* A group never falls back to a config it is past.
LEMMA PastGrows ==
    ASSUME NEW L, NEW C, NEW M, NEW D, Grows(L, C, M, D), NEW g \in Group, NEW n, Past(L, C, g, n)
    PROVE  Past(M, D, g, n)
<1>1. PICK i \in 1 .. C[g] : IsConfig(L[g][i], n)
    BY DEF Past
<1>2. C[g] \in Nat /\ D[g] \in Nat /\ C[g] <= D[g] /\ M[g][i] = L[g][i]
    BY DEF Grows
<1>3. i \in 1 .. D[g]
    BY <1>2
<1> QED BY <1>1, <1>2, <1>3 DEF Past

\* Nor does a shard's new owner have to wait again.
LEMMA ReadyGrows ==
    ASSUME NEW L, NEW C, NEW M, NEW D, Grows(L, C, M, D), NEW g \in Group, NEW s \in Shard,
           Ready(L, C, g, s)
    PROVE  Ready(M, D, g, s)
<1> SUFFICES ASSUME NEW i \in 1 .. Len(Configs), Owner(i, s) = g,
                    NEW j \in 1 .. i, Owner(j, s) \notin {g, Nobody}
             PROVE  Past(M, D, Owner(j, s), j + 1)
    BY DEF Ready
<1>1. Past(L, C, Owner(j, s), j + 1)
    BY DEF Ready
<1>2. Owner(j, s) \in Group
    <2>1. j \in 0 .. Len(Configs)
        BY ConfigsNat
    <2> QED BY <2>1, OwnerType
<1> QED BY <1>1, <1>2, PastGrows

\* A state stays good.
LEMMA StateGrows ==
    ASSUME NEW L, NEW C, NEW M, NEW D, Grows(L, C, M, D), NEW last \in Nat, NEW more \in Nat, last <= more,
           NEW g \in Group, NEW n, NEW st, GoodState(L, C, last, g, n, st)
    PROVE  GoodState(M, D, more, g, n, st)
<1>1. C[g] \in Nat /\ D[g] \in Nat /\ C[g] <= D[g] /\ \A i \in 1 .. C[g] : M[g][i] = L[g][i]
    BY DEF Grows
<1>2. st \in KV /\ n \in Nat /\ st.cfg <= last /\ n <= C[g]
    BY DEF GoodState
<1>3. n <= D[g]
    BY <1>1, <1>2
<1>4. st.cfg <= more
    <2>1. st.cfg \in Nat
        BY <1>2, KVFields
    <2> QED BY <1>2, <2>1
<1>5. \A i \in 1 .. n : M[g][i] = L[g][i]
    BY <1>1, <1>2
<1>6. FollowsLog(M[g], n, st)
    <2>1. FollowsLog(L[g], n, st)
        BY DEF GoodState
    <2> QED BY <1>5, <2>1 DEF FollowsLog
<1>7. ASSUME Orderly PROVE HasGot(M, D, g, st)
    <2>1. HasGot(L, C, g, st)
        BY <1>7 DEF GoodState
    <2> QED BY <2>1, ReadyGrows DEF HasGot, HadBy
<1> QED BY <1>2, <1>3, <1>4, <1>6, <1>7 DEF GoodState

\* An entry stays good, as long as those before it are there.
LEMMA OpGrows ==
    ASSUME NEW L, NEW C, NEW M, NEW D, Grows(L, C, M, D), NEW last \in Nat, NEW more \in Nat, last <= more,
           NEW g \in Group, NEW i \in Nat, i >= 1, \A j \in 1 .. i : M[g][j] = L[g][j],
           L[g][i] \in Op, GoodOp(L, C, last, g, i)
    PROVE  GoodOp(M, D, more, g, i)
<1>1. M[g][i] = L[g][i]
    OBVIOUS
<1>2. ASSUME L[g][i].type = "Config"
      PROVE  /\ L[g][i].num <= more
             /\ L[g][i].num # 1 => \E j \in 1 .. i - 1 : IsConfig(M[g][j], L[g][i].num - 1)
    <2>1. L[g][i].num \in Nat
        BY <1>2, OpFields
    <2>2. L[g][i].num <= last
        BY <1>2 DEF GoodOp
    <2>3. ASSUME L[g][i].num # 1 PROVE \E j \in 1 .. i - 1 : IsConfig(M[g][j], L[g][i].num - 1)
        <3>1. PICK j \in 1 .. i - 1 : IsConfig(L[g][j], L[g][i].num - 1)
            BY <1>2, <2>3 DEF GoodOp
        <3>2. M[g][j] = L[g][j]
            OBVIOUS
        <3> QED BY <3>1, <3>2
    <2> QED BY <2>1, <2>2, <2>3
<1>3. ASSUME L[g][i].type = "Migrate", Orderly PROVE Ready(M, D, g, L[g][i].shard)
    BY <1>3, OpFields, ReadyGrows DEF GoodOp
<1> QED BY <1>1, <1>2, <1>3 DEF GoodOp

\* A pull stays good.
LEMMA PullGrows ==
    ASSUME NEW L, NEW C, NEW M, NEW D, Grows(L, C, M, D), NEW g \in Group, NEW p \in PullType,
           GoodPull(L, C, g, p)
    PROVE  GoodPull(M, D, g, p)
<1>1. ASSUME p # None, p.step = "got", Orderly PROVE Ready(M, D, g, p.shard)
    <2>1. p.shard \in Shard
        BY <1>1 DEF PullType, AskType, GotType
    <2>2. Ready(L, C, g, p.shard)
        BY <1>1 DEF GoodPull
    <2> QED BY <2>1, <2>2, ReadyGrows
<1> QED BY <1>1 DEF GoodPull

(***************************************************************************)
(* The steps, on the parts of the invariant.                               *)
(***************************************************************************)

\* Applying the next entry of the log keeps a state good.
LEMMA AppliedGood ==
    ASSUME NEW L, NEW C, NEW D, Grows(L, C, L, D), NEW last \in Nat, NEW g \in Group, NEW n \in Nat,
           NEW st, NEW op, op = L[g][n + 1], \A i \in 1 .. n + 1 : L[g][i] \in Op, n + 1 <= D[g],
           GoodState(L, C, last, g, n, st), GoodOp(L, C, last, g, n + 1)
    PROVE  GoodState(L, D, last, g, n + 1, Applied(g, st, op))
<1> DEFINE new == Applied(g, st, op)
<1>0. op \in Op /\ last <= last
    OBVIOUS
<1>1. GoodState(L, D, last, g, n, st)
    BY <1>0, StateGrows
<1>2. /\ st \in KV /\ st.cfg <= last /\ GoodKV(st) /\ FollowsLog(L[g], n, st) /\ MissesGained(g, st)
      /\ Orderly => HasGot(L, D, g, st)
    BY <1>1 DEF GoodState
<1>3. /\ op.type = "Config" =>
            /\ op.num <= last
            /\ op.num # 1 => \E j \in 1 .. n : IsConfig(L[g][j], op.num - 1)
      /\ op.type = "Migrate" => GoodData(op.data, op.dup) /\ (Orderly => Ready(L, D, g, op.shard))
    <2>1. op.type = "Migrate" => op.shard \in Shard
        BY <1>0, OpFields
    <2>2. op.type = "Migrate" /\ Orderly => Ready(L, C, g, op.shard)
        BY DEF GoodOp
    <2>3. op.type = "Migrate" /\ Orderly => Ready(L, D, g, op.shard)
        BY <2>1, <2>2, ReadyGrows
    <2>4. (n + 1) - 1 = n
        OBVIOUS
    <2> QED BY <2>3, <2>4 DEF GoodOp
<1>4. st.cfg \in Nat /\ st.cfg \in 0 .. Len(Configs) /\ Len(Configs) \in Nat
    BY <1>2, KVFields, ConfigsNat
<1>5. op.type = "Config" => op.num \in Nat /\ op.num >= 1 /\ op.num \in 1 .. Len(Configs)
    BY <1>0, OpFields
<1>6. /\ new \in KV
      /\ new.cfg = IF op.type = "Config" /\ op.num = st.cfg + 1 THEN op.num ELSE st.cfg
    BY <1>0, <1>2, AppliedFields
<1>7. /\ op.type \notin {"Config", "Migrate"} => new.migrating = st.migrating
      /\ op.type = "Migrate" => \A s \in Shard :
            new.migrating[s] = IF s = op.shard THEN None ELSE st.migrating[s]
      /\ op.type = "Config" /\ op.num # st.cfg + 1 => new = st
      /\ op.type = "Config" /\ op.num = st.cfg + 1 => \A s \in Shard :
            new.migrating[s] = IF Owner(op.num, s) = g /\ Owner(st.cfg, s) \notin {g, Nobody}
                               THEN Owner(st.cfg, s) ELSE st.migrating[s]
    BY <1>0, <1>2, AppliedFields
<1>8. GoodKV(new)
    BY <1>0, <1>2, <1>3, AppliedGoodKV
<1> HIDE DEF new
<1>9. new.cfg <= last /\ st.cfg <= new.cfg /\ new.cfg \in Nat /\ new.cfg \in 0 .. Len(Configs)
    BY <1>2, <1>3, <1>4, <1>5, <1>6
<1>10. FollowsLog(L[g], n + 1, new)
    <2>1. ASSUME NEW k \in 1 .. new.cfg PROVE \E i \in 1 .. n + 1 : IsConfig(L[g][i], k)
        <3>1. CASE k \in 1 .. st.cfg
            <4>1. PICK i \in 1 .. n : IsConfig(L[g][i], k)
                BY <1>2, <3>1 DEF FollowsLog
            <4> QED BY <4>1
        <3>2. CASE k \notin 1 .. st.cfg
            <4>1. new.cfg # st.cfg
                BY <3>2
            <4>2. op.type = "Config" /\ op.num = st.cfg + 1 /\ new.cfg = st.cfg + 1
                BY <1>6, <4>1
            <4>3. PICK m \in Nat : m = st.cfg
                BY <1>4
            <4>4. k \in 1 .. m + 1 /\ k \notin 1 .. m
                BY <3>2, <4>2, <4>3
            <4>5. k = m + 1
                BY <4>4
            <4> QED BY <4>2, <4>3, <4>5 DEF IsConfig
        <3> QED BY <3>1, <3>2
    <2>2. ASSUME NEW i \in 1 .. n + 1, L[g][i].type = "Config" PROVE L[g][i].num <= new.cfg
        <3>1. CASE i \in 1 .. n
            <4>1. L[g][i].num <= st.cfg
                BY <1>2, <2>2, <3>1 DEF FollowsLog
            <4>2. L[g][i].num \in Nat
                BY <2>2, <3>1, OpFields
            <4> QED BY <1>4, <1>9, <4>1, <4>2
        <3>2. CASE i = n + 1
            <4>1. op.type = "Config"
                BY <2>2, <3>2
            <4>2. CASE op.num = st.cfg + 1
                BY <1>5, <1>6, <3>2, <4>1, <4>2
            <4>3. CASE op.num # st.cfg + 1
                <5>1. CASE op.num = 1
                    BY <1>4, <1>6, <3>2, <4>3, <5>1
                <5>2. CASE op.num # 1
                    <6>1. PICK j \in 1 .. n : IsConfig(L[g][j], op.num - 1)
                        BY <1>3, <4>1, <5>2
                    <6>2. op.num - 1 <= st.cfg
                        BY <1>2, <6>1 DEF FollowsLog, IsConfig
                    <6>3. op.num <= st.cfg
                        <7>1. PICK m \in Nat, x \in Nat : m = st.cfg /\ x = op.num
                            BY <1>4, <1>5, <4>1
                        <7>2. x # m + 1 /\ x - 1 <= m
                            BY <4>3, <6>2, <7>1
                        <7>3. x <= m
                            BY <7>2
                        <7> QED BY <7>1, <7>3
                    <6> QED BY <1>6, <3>2, <4>3, <6>3
                <5> QED BY <5>1, <5>2
            <4> QED BY <4>2, <4>3
        <3> QED BY <3>1, <3>2
    <2> QED BY <2>1, <2>2 DEF FollowsLog
<1>11. MissesGained(g, new)
    <2> SUFFICES ASSUME NEW s \in Shard, new.migrating[s] # None
                 PROVE  \E k \in 2 .. new.cfg : Gains(g, s, k, new.migrating[s])
        BY DEF MissesGained
    <2>1. CASE new.migrating[s] = st.migrating[s]
        <3>1. PICK k \in 2 .. st.cfg : Gains(g, s, k, st.migrating[s])
            BY <1>2, <2>1 DEF MissesGained
        <3>2. k \in 2 .. new.cfg
            BY <1>4, <1>9
        <3> QED BY <2>1, <3>1, <3>2
    <2>2. CASE new.migrating[s] # st.migrating[s]
        <3>1. op.type = "Config" /\ op.num = st.cfg + 1
            BY <1>7, <2>2
        <3>2. Owner(op.num, s) = g /\ Owner(st.cfg, s) \notin {g, Nobody} /\ new.migrating[s] = Owner(st.cfg, s)
            BY <1>7, <2>2, <3>1
        <3>3. st.cfg # 0
            BY <3>2 DEF Owner
        <3>4. op.num \in 2 .. Len(Configs) /\ op.num - 1 = st.cfg /\ op.num \in 2 .. new.cfg
            BY <1>4, <1>5, <1>6, <3>1, <3>3
        <3>5. Gains(g, s, op.num, new.migrating[s])
            BY <3>2, <3>4 DEF Gains
        <3> QED BY <3>4, <3>5
    <2> QED BY <2>1, <2>2
<1>12. ASSUME Orderly PROVE HasGot(L, D, g, new)
    <2> SUFFICES ASSUME NEW s \in Shard, new.migrating[s] = None, NEW i \in 1 .. new.cfg, Owner(i, s) = g
                 PROVE  Ready(L, D, g, s)
        BY DEF HasGot, HadBy
    <2>0. \A m \in 1 .. st.cfg : st.migrating[s] = None /\ Owner(m, s) = g => Ready(L, D, g, s)
        BY <1>2, <1>12 DEF HasGot, HadBy
    <2>1. CASE op.type = "Config" /\ op.num = st.cfg + 1
        <3>1. Owner(st.cfg, s) \in Group \cup {Nobody}
            BY <1>4, OwnerType
        <3>2. ~(Owner(op.num, s) = g /\ Owner(st.cfg, s) \notin {g, Nobody}) /\ st.migrating[s] = None
            BY <1>7, <2>1, <3>1, GroupAssumption
        <3>3. CASE i \in 1 .. st.cfg
            BY <2>0, <3>2, <3>3
        <3>4. CASE i \notin 1 .. st.cfg
            <4>1. i = op.num /\ op.num \in 1 .. Len(Configs) /\ op.num - 1 = st.cfg
                BY <1>4, <1>5, <1>6, <2>1, <3>4
            <4>2. Owner(st.cfg, s) \in {g, Nobody}
                BY <3>2, <4>1
            <4>3. CASE Owner(st.cfg, s) = g
                <5>1. st.cfg # 0
                    BY <4>3, GroupAssumption DEF Owner
                <5>2. st.cfg \in 1 .. st.cfg
                    BY <1>4, <5>1
                <5> QED BY <2>0, <3>2, <4>3, <5>2
            <4>4. CASE Owner(st.cfg, s) = Nobody
                <5>1. Owner(op.num - 1, s) = Nobody
                    BY <4>1, <4>4
                <5> QED BY <1>12, <4>1, <5>1, FirstOwnerReady
            <4> QED BY <4>2, <4>3, <4>4
        <3> QED BY <3>3, <3>4
    <2>2. CASE op.type = "Config" /\ op.num # st.cfg + 1
        BY <1>7, <2>0, <2>2
    <2>3. CASE op.type = "Migrate"
        <3>1. CASE s = op.shard
            BY <1>3, <1>12, <2>3, <3>1
        <3>2. CASE s # op.shard
            BY <1>6, <1>7, <2>0, <2>3, <3>2
        <3> QED BY <3>1, <3>2
    <2>4. CASE op.type \notin {"Config", "Migrate"}
        BY <1>6, <1>7, <2>0, <2>4
    <2> QED BY <2>1, <2>2, <2>3, <2>4
<1> QED BY <1>6, <1>8, <1>9, <1>10, <1>11, <1>12 DEF GoodState, new

\* The states stay good when only the logs change.
LEMMA StateKept ==
    ASSUME RaftPart, StatePart, Grows(log, commit, log', commit'), latest' \in Nat, latest <= latest',
           UNCHANGED stateVars
    PROVE  StatePart'
<1>1. kv' = kv /\ applied' = applied /\ snapshot' = snapshot /\ noopAppliedTerm' = noopAppliedTerm
    BY DEF stateVars
<1>2. latest \in Nat
    BY ConfigsNat DEF RaftPart
<1>3. ASSUME NEW r \in Replica
      PROVE  /\ GoodState(log', commit', latest', GroupOf[r], applied[r], kv[r])
             /\ GoodState(log', commit', latest', GroupOf[r], snapshot[r].index, snapshot[r].kv)
    <2>1. GroupOf[r] \in Group
        BY GroupAssumption
    <2>2. /\ GoodState(log, commit, latest, GroupOf[r], applied[r], kv[r])
          /\ GoodState(log, commit, latest, GroupOf[r], snapshot[r].index, snapshot[r].kv)
        BY DEF StatePart
    <2>3. GoodState(log', commit', latest', GroupOf[r], applied[r], kv[r])
        BY <1>2, <2>1, <2>2, StateGrows
    <2>4. GoodState(log', commit', latest', GroupOf[r], snapshot[r].index, snapshot[r].kv)
        BY <1>2, <2>1, <2>2, StateGrows
    <2> QED BY <2>3, <2>4
<1> QED BY <1>1, <1>3 DEF StatePart

\* So do the pulls.
LEMMA PullKept ==
    ASSUME PullPart, Grows(log, commit, log', commit'), UNCHANGED pull
    PROVE  PullPart'
<1>1. ASSUME NEW r \in Replica PROVE GoodPull(log', commit', GroupOf[r], pull[r])
    <2>1. GroupOf[r] \in Group
        BY GroupAssumption
    <2>2. pull[r] \in PullType /\ GoodPull(log, commit, GroupOf[r], pull[r])
        BY DEF PullPart
    <2> QED BY <2>1, <2>2, PullGrows
<1> QED BY <1>1 DEF PullPart

\* So do the clerks and loops.
LEMMA ClerkKept == ASSUME ClerkPart, UNCHANGED <<clerk, acked>> PROVE ClerkPart'
BY DEF ClerkPart

\* Nothing happens to logs that are left alone.
LEMMA SameGrows ==
    ASSUME RaftPart, UNCHANGED <<log, commit>>
    PROVE  Grows(log, commit, log', commit')
BY DEF RaftPart, Grows

\* Entries stay good as long as their log has them all.
LEMMA OpsKept ==
    ASSUME RaftPart, OpsPart, UNCHANGED log, Grows(log, commit, log', commit'),
           latest' \in Nat, latest <= latest'
    PROVE  OpsPart'
<1>1. ASSUME NEW g \in Group, NEW i \in 1 .. Len(log[g]) PROVE GoodOp(log', commit', latest', g, i)
    <2>1. log[g] \in Seq(Op)
        BY DEF RaftPart
    <2>2. log[g][i] \in Op /\ Len(log[g]) \in Nat
        BY <2>1, ElementOfSeq, LenProperties
    <2>3. GoodOp(log, commit, latest, g, i)
        BY DEF OpsPart
    <2>4. latest \in Nat
        BY ConfigsNat DEF RaftPart
    <2>5. i \in Nat /\ i >= 1
        BY <2>2
    <2>6. \A j \in 1 .. i : log'[g][j] = log[g][j]
        OBVIOUS
    <2> QED BY <2>2, <2>3, <2>4, <2>5, <2>6, OpGrows
<1> QED BY <1>1 DEF OpsPart

\* What a proposer has to know of its entry.
Proposable(g, op) ==
    /\ op \in Op
    /\ op.type = "Config" =>
          /\ op.num <= latest
          /\ op.num # 1 => \E j \in 1 .. Len(log[g]) : IsConfig(log[g][j], op.num - 1)
    /\ op.type = "Migrate" =>
          GoodData(op.data, op.dup) /\ (Orderly => Ready(log, commit, g, op.shard))

\* A proposal extends the leader's log and keeps the entries good.
LEMMA Proposed ==
    ASSUME RaftPart, OpsPart, NEW r \in Replica, NEW op, Propose(r, op), Proposable(GroupOf[r], op),
           UNCHANGED <<latest, faults>>
    PROVE  RaftPart' /\ OpsPart' /\ Grows(log, commit, log', commit')
<1> DEFINE h == GroupOf[r]
<1>1. h \in Group
    BY GroupAssumption
<1>2. /\ log' = [log EXCEPT ![h] = Append(log[h], op)]
      /\ commit' = commit /\ leader' = leader /\ term' = term
    BY DEF Propose
<1>3. op \in Op /\ log[h] \in Seq(Op) /\ Len(log[h]) \in Nat
    BY <1>1, LenProperties DEF RaftPart, Proposable
<1>4. /\ Append(log[h], op) \in Seq(Op) /\ Len(Append(log[h], op)) = Len(log[h]) + 1
      /\ \A i \in 1 .. Len(log[h]) : Append(log[h], op)[i] = log[h][i]
      /\ Append(log[h], op)[Len(log[h]) + 1] = op
    BY <1>3, AppendProperties
<1>5. log' \in [Group -> Seq(Op)] /\ \A g \in Group : log'[g] = IF g = h THEN Append(log[h], op) ELSE log[g]
    BY <1>1, <1>2, <1>4 DEF RaftPart
<1>6. \A g \in Group : \A i \in 1 .. Len(log[g]) : log'[g][i] = log[g][i]
    BY <1>4, <1>5
<1>7. \A g \in Group : /\ Len(log[g]) \in Nat /\ Len(log[g]) <= Len(log'[g])
                       /\ commit[g] \in Nat /\ commit[g] <= Len(log[g])
    <2>1. ASSUME NEW g \in Group PROVE Len(log[g]) \in Nat
        BY LenProperties DEF RaftPart
    <2>2. ASSUME NEW g \in Group PROVE commit[g] \in Nat /\ commit[g] <= Len(log[g])
        BY DEF RaftPart
    <2>3. ASSUME NEW g \in Group PROVE Len(log[g]) <= Len(log'[g])
        <3>1. CASE g = h
            BY <1>1, <1>3, <1>4, <1>5, <3>1
        <3>2. CASE g # h
            BY <1>5, <2>1, <3>2
        <3> QED BY <3>1, <3>2
    <2> QED BY <2>1, <2>2, <2>3
<1>8. \A g \in Group : commit[g] <= Len(log'[g])
    <2>1. ASSUME NEW g \in Group PROVE Len(log'[g]) \in Nat
        BY <1>5, LenProperties
    <2> QED BY <1>7, <2>1
<1>9. RaftPart'
    BY <1>2, <1>5, <1>8 DEF RaftPart
<1>10. Grows(log, commit, log', commit')
    <2>1. \A g \in Group : \A i \in 1 .. commit[g] : log'[g][i] = log[g][i]
        BY <1>6, <1>7
    <2> QED BY <1>2, <1>7, <2>1 DEF Grows
<1>11. latest \in Nat
    BY ConfigsNat DEF RaftPart
<1>12. ASSUME NEW g \in Group, NEW i \in 1 .. Len(log[g]) PROVE GoodOp(log', commit', latest, g, i)
    <2>1. log[g] \in Seq(Op)
        BY DEF RaftPart
    <2>2. log[g][i] \in Op
        BY <2>1, ElementOfSeq
    <2>3. GoodOp(log, commit, latest, g, i)
        BY DEF OpsPart
    <2>4. i \in Nat /\ i >= 1 /\ \A j \in 1 .. i : log'[g][j] = log[g][j]
        BY <1>6, <1>7
    <2>5. latest <= latest
        BY <1>11
    <2> QED BY <1>10, <1>11, <2>2, <2>3, <2>4, <2>5, OpGrows
<1>13. GoodOp(log', commit', latest, h, Len(log[h]) + 1)
    <2> DEFINE n == Len(log[h])
    <2>1. log'[h][n + 1] = op
        BY <1>1, <1>4, <1>5
    <2>2. ASSUME op.type = "Config", op.num # 1
          PROVE  \E j \in 1 .. (n + 1) - 1 : IsConfig(log'[h][j], op.num - 1)
        <3>1. PICK j \in 1 .. n : IsConfig(log[h][j], op.num - 1)
            BY <2>2 DEF Proposable
        <3>2. log'[h][j] = log[h][j] /\ j \in 1 .. (n + 1) - 1
            BY <1>1, <1>3, <1>6
        <3> QED BY <3>1, <3>2
    <2>3. ASSUME op.type = "Migrate", Orderly PROVE Ready(log', commit', h, op.shard)
        <3>1. op.shard \in Shard
            BY <1>3, <2>3, OpFields
        <3>2. Ready(log, commit, h, op.shard)
            BY <2>3 DEF Proposable
        <3> QED BY <1>1, <1>10, <3>1, <3>2, ReadyGrows
    <2>4. /\ op.type = "Config" => op.num <= latest
          /\ op.type = "Migrate" => GoodData(op.data, op.dup)
        BY DEF Proposable
    <2> QED BY <2>1, <2>2, <2>3, <2>4 DEF GoodOp
<1>14. ASSUME NEW g \in Group, NEW i \in 1 .. Len(log'[g]) PROVE GoodOp(log', commit', latest, g, i)
    <2>1. CASE i \in 1 .. Len(log[g])
        BY <1>12, <2>1
    <2>2. CASE i \notin 1 .. Len(log[g])
        <3>1. g = h
            BY <1>5, <2>2
        <3>2. i = Len(log[h]) + 1
            BY <1>3, <1>4, <1>5, <2>2, <3>1
        <3> QED BY <1>13, <3>1, <3>2
    <2> QED BY <2>1, <2>2
<1>15. OpsPart'
    BY <1>14 DEF OpsPart
<1> QED BY <1>9, <1>10, <1>15

\* Steps that leave Raft alone, whether or not they count as a fault.
LEMMA Quiet ==
    ASSUME ShardInv, UNCHANGED <<latest, raftVars>>, faults' = faults \/ (faults < MaxFaults /\ faults' = faults + 1)
    PROVE  /\ RaftPart' /\ OpsPart' /\ Grows(log, commit, log', commit')
           /\ latest' \in Nat /\ latest <= latest'
           /\ UNCHANGED stateVars => StatePart'
           /\ UNCHANGED pull => PullPart'
<1>1. RaftPart /\ OpsPart /\ StatePart /\ PullPart
    BY DEF ShardInv
<1>2. log' = log /\ commit' = commit /\ leader' = leader /\ term' = term /\ latest' = latest
    BY DEF raftVars
<1>3. MaxFaults \in Nat
    BY BoundAssumption
<1>4. faults' \in 0 .. MaxFaults /\ faults <= faults' /\ faults \in Nat
    BY <1>1, <1>3 DEF RaftPart
<1>5. \A g \in Group : term[g] <= faults' + 1
    <2>1. ASSUME NEW g \in Group PROVE term[g] <= faults' + 1
        <3>1. term[g] \in 1 .. MaxFaults + 1 /\ term[g] <= faults + 1
            BY <1>1 DEF RaftPart
        <3> QED BY <1>3, <1>4, <3>1
    <2> QED BY <2>1
<1>6. RaftPart'
    BY <1>1, <1>2, <1>4, <1>5 DEF RaftPart
<1>7. Grows(log, commit, log', commit')
    BY <1>1, <1>2, SameGrows
<1>8. latest' \in Nat /\ latest <= latest'
    BY <1>1, <1>2, ConfigsNat DEF RaftPart
<1>9. OpsPart'
    BY <1>1, <1>2, <1>7, <1>8, OpsKept
<1>10. UNCHANGED stateVars => StatePart'
    BY <1>1, <1>7, <1>8, StateKept
<1>11. UNCHANGED pull => PullPart'
    BY <1>1, <1>7, PullKept
<1> QED BY <1>6, <1>7, <1>8, <1>9, <1>10, <1>11

\* The loops' variables stay.
LEMMA LoopKept == ASSUME LoopPart, UNCHANGED <<lastNoopTerm, lastProposed, migrateProposed, gcProposed, gc>>
                  PROVE LoopPart'
BY DEF LoopPart

\* A new config.
LEMMA ReconfigureInv == ASSUME ShardInv, Reconfigure PROVE ShardInv'
<1>1. RaftPart /\ OpsPart /\ StatePart /\ PullPart /\ LoopPart /\ ClerkPart
    BY DEF ShardInv
<1>2. /\ latest < Len(Configs) /\ latest' = latest + 1
      /\ log' = log /\ commit' = commit /\ leader' = leader /\ term' = term /\ faults' = faults
      /\ UNCHANGED stateVars /\ UNCHANGED loopVars /\ UNCHANGED <<clerk, acked>>
    BY DEF Reconfigure, raftVars
<1>3. latest' \in 1 .. Len(Configs) /\ latest' \in Nat /\ latest <= latest'
    BY <1>1, <1>2, ConfigsNat DEF RaftPart
<1>4. RaftPart'
    BY <1>1, <1>2, <1>3 DEF RaftPart
<1>5. Grows(log, commit, log', commit')
    BY <1>1, <1>2, SameGrows
<1>6. OpsPart'
    BY <1>1, <1>2, <1>3, <1>5, OpsKept
<1>7. StatePart'
    BY <1>1, <1>2, <1>3, <1>5, StateKept
<1>8. PullPart'
    BY <1>1, <1>2, <1>5, PullKept DEF loopVars
<1>9. LoopPart' /\ ClerkPart'
    BY <1>1, <1>2, LoopKept, ClerkKept DEF loopVars
<1> QED BY <1>4, <1>6, <1>7, <1>8, <1>9 DEF ShardInv

\* Another leader: what is not committed may go.
LEMMA LeaderChangeInv ==
    ASSUME ShardInv, NEW h \in Group, NEW r \in Replica, LeaderChange(h, r)
    PROVE  ShardInv'
<1>1. RaftPart /\ OpsPart /\ StatePart /\ PullPart /\ LoopPart /\ ClerkPart
    BY DEF ShardInv
<1>2. PICK k \in commit[h] .. Len(log[h]) : log' = [log EXCEPT ![h] = SubSeq(log[h], 1, k)]
    BY DEF LeaderChange
<1>3. /\ faults < MaxFaults /\ faults' = faults + 1
      /\ term' = [term EXCEPT ![h] = term[h] + 1]
      /\ leader' = [leader EXCEPT ![h] = r] /\ GroupOf[r] = h
      /\ commit' = commit /\ latest' = latest
      /\ UNCHANGED stateVars /\ UNCHANGED <<clerk, acked>> /\ UNCHANGED pull
    BY DEF LeaderChange
<1>4. log[h] \in Seq(Op) /\ Len(log[h]) \in Nat /\ commit[h] \in Nat
    BY <1>1, LenProperties DEF RaftPart
<1>5. k \in Nat /\ k <= Len(log[h]) /\ commit[h] <= k
    BY <1>4
<1>6. /\ SubSeq(log[h], 1, k) \in Seq(Op) /\ Len(SubSeq(log[h], 1, k)) = k
      /\ \A i \in 1 .. k : SubSeq(log[h], 1, k)[i] = log[h][i]
    <2>1. \A i \in 1 .. k : log[h][i] \in Op
        BY <1>4, <1>5, ElementOfSeq
    <2>2. CASE k = 0
        BY <1>4, <1>5, <2>1, <2>2, SubSeqProperties
    <2>3. CASE k # 0
        BY <1>4, <1>5, <2>1, <2>3, SubSeqProperties
    <2> QED BY <2>2, <2>3
<1>7. log' \in [Group -> Seq(Op)] /\ \A g \in Group : log'[g] = IF g = h THEN SubSeq(log[h], 1, k) ELSE log[g]
    BY <1>1, <1>2, <1>6 DEF RaftPart
<1>8. ASSUME NEW g \in Group
      PROVE  /\ commit[g] \in Nat /\ commit[g] <= Len(log'[g]) /\ Len(log'[g]) \in Nat
             /\ Len(log'[g]) <= Len(log[g]) /\ Len(log[g]) \in Nat
             /\ \A i \in 1 .. Len(log'[g]) : log'[g][i] = log[g][i]
    <2>1. CASE g = h
        BY <1>4, <1>5, <1>6, <1>7, <2>1
    <2>2. CASE g # h
        <3>1. log'[g] = log[g]
            BY <1>7, <2>2
        <3>2. Len(log[g]) \in Nat /\ commit[g] \in Nat /\ commit[g] <= Len(log[g])
            BY <1>1, LenProperties DEF RaftPart
        <3> QED BY <3>1, <3>2
    <2> QED BY <2>1, <2>2
<1>9. Grows(log, commit, log', commit')
    <2>1. ASSUME NEW g \in Group, NEW i \in 1 .. commit[g] PROVE log'[g][i] = log[g][i]
        <3>1. i \in 1 .. Len(log'[g])
            BY <1>8
        <3> QED BY <1>8, <3>1
    <2> QED BY <1>3, <1>8, <2>1 DEF Grows
<1>10. MaxFaults \in Nat
    BY BoundAssumption
<1>11. faults \in Nat /\ faults' \in 0 .. MaxFaults
    BY <1>1, <1>3, <1>10 DEF RaftPart
<1>12. ASSUME NEW g \in Group PROVE term'[g] \in 1 .. MaxFaults + 1 /\ term'[g] <= faults' + 1
    <2>1. term[g] \in 1 .. MaxFaults + 1 /\ term[g] <= faults + 1
        BY <1>1 DEF RaftPart
    <2>2. term'[g] = IF g = h THEN term[h] + 1 ELSE term[g]
        BY <1>1, <1>3 DEF RaftPart
    <2> QED BY <1>3, <1>10, <1>11, <2>1, <2>2
<1>13. term' \in [Group -> 1 .. MaxFaults + 1]
    <2>1. term' = [term EXCEPT ![h] = term[h] + 1] /\ DOMAIN term = Group
        BY <1>1, <1>3 DEF RaftPart
    <2> QED BY <1>12, <2>1
<1>14. leader' \in [Group -> Replica] /\ \A g \in Group : GroupOf[leader'[g]] = g
    BY <1>1, <1>3 DEF RaftPart
<1>15. RaftPart'
    BY <1>1, <1>3, <1>7, <1>8, <1>11, <1>12, <1>13, <1>14 DEF RaftPart
<1>16. latest \in Nat /\ latest <= latest
    BY <1>1, ConfigsNat DEF RaftPart
<1>17. OpsPart'
    <2>1. ASSUME NEW g \in Group, NEW i \in 1 .. Len(log'[g]) PROVE GoodOp(log', commit', latest, g, i)
        <3>1. i \in 1 .. Len(log[g]) /\ i \in Nat /\ i >= 1
            BY <1>8
        <3>2. log[g] \in Seq(Op)
            BY <1>1 DEF RaftPart
        <3>3. log[g][i] \in Op
            BY <3>1, <3>2, ElementOfSeq
        <3>4. GoodOp(log, commit, latest, g, i)
            BY <1>1, <3>1 DEF OpsPart
        <3>5. \A j \in 1 .. i : log'[g][j] = log[g][j]
            <4>1. ASSUME NEW j \in 1 .. i PROVE log'[g][j] = log[g][j]
                <5>1. j \in 1 .. Len(log'[g])
                    BY <1>8, <3>1
                <5> QED BY <1>8, <5>1
            <4> QED BY <4>1
        <3> QED BY <1>9, <1>16, <3>1, <3>3, <3>4, <3>5, OpGrows
    <2> QED BY <1>3, <2>1 DEF OpsPart
<1>18. StatePart'
    BY <1>1, <1>3, <1>9, <1>16, StateKept
<1>19. PullPart' /\ ClerkPart'
    BY <1>1, <1>3, <1>9, PullKept, ClerkKept
<1>20. LoopPart'
    <2>1. /\ lastProposed' = [q \in Replica |-> IF q \in Replicas(h) THEN 0 ELSE lastProposed[q]]
          /\ migrateProposed' = [q \in Replica |-> IF q \in Replicas(h) THEN {} ELSE migrateProposed[q]]
          /\ gcProposed' = [q \in Replica |-> IF q \in Replicas(h) THEN {} ELSE gcProposed[q]]
          /\ lastNoopTerm' = lastNoopTerm /\ gc' = gc
        BY DEF LeaderChange
    <2>2. lastProposed' \in [Replica -> 0 .. Len(Configs)]
        BY <1>1, <2>1, ConfigsNat DEF LoopPart
    <2>3. migrateProposed' \in [Replica -> SUBSET Shard] /\ gcProposed' \in [Replica -> SUBSET Shard]
        BY <1>1, <2>1 DEF LoopPart
    <2> QED BY <1>1, <2>1, <2>2, <2>3 DEF LoopPart
<1> QED BY <1>15, <1>17, <1>18, <1>19, <1>20 DEF ShardInv

\* A clerk whose call has ended, one way or another.
LEMMA BackType ==
    ASSUME NEW ck \in ClerkType, NEW pc \in {"idle", "call", "wait", "reading"}
    PROVE  /\ Back(ck, pc) \in ClerkType /\ Back(ck, pc).pc = pc
           /\ Back(ck, pc).seq = ck.seq /\ Back(ck, pc).shard = ck.shard /\ Back(ck, pc).cfg = ck.cfg
<1>1. MaxFaults \in Nat
    BY BoundAssumption
<1>2. 0 \in 0 .. MaxFaults + 1
    BY <1>1
<1> QED BY <1>2 DEF Back, ClerkType

\* A clerk that learns of another config.
LEMMA RefreshedType ==
    ASSUME NEW ck \in ClerkType, NEW n \in 1 .. Len(Configs)
    PROVE  /\ [ck EXCEPT !.cfg = n] \in ClerkType /\ [ck EXCEPT !.cfg = n].pc = ck.pc
           /\ [ck EXCEPT !.cfg = n].seq = ck.seq /\ [ck EXCEPT !.cfg = n].shard = ck.shard
           /\ [ck EXCEPT !.cfg = n].cfg = n
BY DEF ClerkType

\* The answer to a write: the clerk returns only if the entry is its own.
LEMMA AnswerType ==
    ASSUME NEW ck \in ClerkType, NEW c \in Client, NEW op \in Op, NEW owned, latest \in 1 .. Len(Configs)
    PROVE  LET a == Answer(ck, c, op, owned) IN
           /\ a \in ClerkType /\ a.pc \in {"idle", "call"}
           /\ a.seq = ck.seq /\ a.shard = ck.shard /\ a.cfg \in {ck.cfg, latest}
           /\ a.pc = "idle" => op.type = "Write" /\ op.client = c /\ op.seq = ck.seq
<1> DEFINE b == Back(ck, "call")
           a == Answer(ck, c, op, owned)
<1>1. b \in ClerkType /\ b.pc = "call" /\ b.seq = ck.seq /\ b.shard = ck.shard /\ b.cfg = ck.cfg
    BY BackType
<1>2. LET i == Back(ck, "idle")
      IN i \in ClerkType /\ i.pc = "idle" /\ i.seq = ck.seq /\ i.shard = ck.shard /\ i.cfg = ck.cfg
    BY BackType
<1>3. LET n == [b EXCEPT !.cfg = latest]
      IN n \in ClerkType /\ n.pc = "call" /\ n.seq = ck.seq /\ n.shard = ck.shard /\ n.cfg = latest
    <2> HIDE DEF b
    <2> QED BY <1>1, RefreshedType
<1>4. CASE op.type # "Write" \/ op.client # c \/ op.seq # ck.seq
    <2>1. a = b
        BY <1>4 DEF Answer
    <2> QED BY <1>1, <2>1
<1>5. CASE ~(op.type # "Write" \/ op.client # c \/ op.seq # ck.seq) /\ owned
    <2>1. a = Back(ck, "idle")
        BY <1>5 DEF Answer
    <2> QED BY <1>2, <1>5, <2>1
<1>6. CASE ~(op.type # "Write" \/ op.client # c \/ op.seq # ck.seq) /\ ~owned
    <2>1. a = [b EXCEPT !.cfg = latest]
        BY <1>6 DEF Answer
    <2> QED BY <1>3, <2>1
<1> QED BY <1>4, <1>5, <1>6

\* The apply loop takes the next entry; who waits for it is answered.
LEMMA applyLoopInv == ASSUME ShardInv, NEW r \in Replica, applyLoop(r) PROVE ShardInv'
<1>1. RaftPart /\ OpsPart /\ StatePart /\ PullPart /\ LoopPart /\ ClerkPart
    BY DEF ShardInv
<1> DEFINE h == GroupOf[r]
           n == applied[r]
           op == log[h][n + 1]
           st == Applied(h, kv[r], op)
           owned == op.type = "Write" /\ Owns(h, kv[r], op.shard)
           waiting(c) == clerk[c].pc = "wait" /\ clerk[c].at = r /\ clerk[c].index = n + 1
<1>2. /\ n + 1 <= Len(log[h])
      /\ commit' = [commit EXCEPT ![h] = IF n + 1 > commit[h] THEN n + 1 ELSE commit[h]]
      /\ kv' = [kv EXCEPT ![r] = st]
      /\ applied' = [applied EXCEPT ![r] = n + 1]
      /\ log' = log /\ leader' = leader /\ term' = term /\ faults' = faults /\ latest' = latest
    BY DEF applyLoop
<1>3. /\ noopAppliedTerm' = [noopAppliedTerm EXCEPT ![r] = IF op.type = "Noop" THEN op.term ELSE noopAppliedTerm[r]]
      /\ snapshot' = [snapshot EXCEPT ![r] =
              IF MaxRaftState # 0 /\ (n + 1) - snapshot[r].index >= MaxRaftState
              THEN [index |-> n + 1, kv |-> st] ELSE snapshot[r]]
      /\ UNCHANGED loopVars
    BY DEF applyLoop
<1>4. /\ clerk' = [c \in Client |-> IF waiting(c) THEN Answer(clerk[c], c, op, owned) ELSE clerk[c]]
      /\ acked' = acked \cup
              {[shard |-> op.shard, client |-> c, seq |-> clerk[c].seq] :
                   c \in {d \in Client : waiting(d) /\ clerk'[d].pc = "idle"}}
    BY DEF applyLoop
<1>5. h \in Group /\ n \in Nat
    BY <1>1, GroupAssumption DEF StatePart
<1>6. log[h] \in Seq(Op) /\ Len(log[h]) \in Nat /\ commit[h] \in Nat /\ commit[h] <= Len(log[h])
    BY <1>1, <1>5, LenProperties DEF RaftPart
<1>7. op \in Op /\ \A i \in 1 .. n + 1 : log[h][i] \in Op
    <2>1. \A i \in 1 .. n + 1 : i \in 1 .. Len(log[h])
        BY <1>2, <1>5, <1>6
    <2>2. \A i \in 1 .. n + 1 : log[h][i] \in Op
        BY <1>6, <2>1, ElementOfSeq
    <2> QED BY <1>5, <2>2
<1>8. ASSUME NEW g \in Group
      PROVE  /\ commit[g] \in Nat /\ commit'[g] \in Nat /\ commit[g] <= commit'[g] /\ commit'[g] <= Len(log[g])
             /\ g = h => n + 1 <= commit'[g]
    <2>1. commit[g] \in Nat /\ commit[g] <= Len(log[g])
        BY <1>1 DEF RaftPart
    <2>2. commit'[g] = IF g = h THEN (IF n + 1 > commit[h] THEN n + 1 ELSE commit[h]) ELSE commit[g]
        BY <1>1, <1>2 DEF RaftPart
    <2> HIDE DEF h, n
    <2> QED BY <1>2, <1>5, <1>6, <2>1, <2>2
<1>9. commit' \in [Group -> Nat]
    <2>1. DOMAIN commit = Group
        BY <1>1 DEF RaftPart
    <2> QED BY <1>2, <1>8, <2>1
<1>10. Grows(log, commit, log', commit')
    BY <1>2, <1>8 DEF Grows
<1>11. RaftPart'
    BY <1>1, <1>2, <1>8, <1>9 DEF RaftPart
<1>12. latest \in Nat /\ latest <= latest /\ latest \in 1 .. Len(Configs)
    BY <1>1, ConfigsNat DEF RaftPart
<1>13. OpsPart'
    BY <1>1, <1>2, <1>10, <1>12, OpsKept
<1>14. PullPart' /\ LoopPart'
    BY <1>1, <1>3, <1>10, PullKept, LoopKept DEF loopVars
<1>15. GoodState(log, commit', latest, h, n + 1, st)
    <2>1. GoodState(log, commit, latest, h, n, kv[r])
        BY <1>1 DEF StatePart
    <2>2. n + 1 \in 1 .. Len(log[h])
        BY <1>2, <1>5, <1>6
    <2>3. GoodOp(log, commit, latest, h, n + 1)
        BY <1>1, <1>5, <2>2 DEF OpsPart
    <2>4. Grows(log, commit, log, commit') /\ n + 1 <= commit'[h]
        BY <1>2, <1>5, <1>8, <1>10
    <2> HIDE DEF h, n
    <2> QED BY <1>5, <1>7, <1>12, <2>1, <2>3, <2>4, AppliedGood
<1>16. st \in KV
    BY <1>15 DEF GoodState
<1>17. StatePart'
    <2> HIDE DEF st, op, h, n
    <2>1. kv' \in [Replica -> KV] /\ applied' \in [Replica -> Nat]
        BY <1>1, <1>2, <1>5, <1>16 DEF StatePart
    <2>2. noopAppliedTerm' \in [Replica -> 0 .. MaxFaults + 1]
        <3>1. op.type = "Noop" => op.term \in 0 .. MaxFaults + 1
            BY <1>7, OpFields, BoundAssumption
        <3> QED BY <1>1, <1>3, <3>1 DEF StatePart
    <2>3. PICK snap : /\ snapshot' = [snapshot EXCEPT ![r] = snap]
                      /\ snap = [index |-> n + 1, kv |-> st] \/ snap = snapshot[r]
        BY <1>3
    <2>4. [index |-> n + 1, kv |-> st] \in [index : Nat, kv : KV]
        BY <1>5, <1>16
    <2>5. snapshot' \in [Replica -> [index : Nat, kv : KV]]
        BY <1>1, <2>3, <2>4 DEF StatePart
    <2>6. ASSUME NEW q \in Replica
          PROVE  /\ GoodState(log, commit', latest, GroupOf[q], applied[q], kv[q])
                 /\ GoodState(log, commit', latest, GroupOf[q], snapshot[q].index, snapshot[q].kv)
                 /\ snapshot[q].index <= applied[q]
        <3>1. GroupOf[q] \in Group
            BY GroupAssumption
        <3>2. /\ GoodState(log, commit, latest, GroupOf[q], applied[q], kv[q])
              /\ GoodState(log, commit, latest, GroupOf[q], snapshot[q].index, snapshot[q].kv)
              /\ snapshot[q].index <= applied[q]
            BY <1>1 DEF StatePart
        <3>3. Grows(log, commit, log, commit')
            BY <1>2, <1>10
        <3>4. GoodState(log, commit', latest, GroupOf[q], applied[q], kv[q])
            BY <1>12, <3>1, <3>2, <3>3, StateGrows
        <3>5. GoodState(log, commit', latest, GroupOf[q], snapshot[q].index, snapshot[q].kv)
            BY <1>12, <3>1, <3>2, <3>3, StateGrows
        <3> QED BY <3>2, <3>4, <3>5
    <2>7. ASSUME NEW q \in Replica
          PROVE  /\ GoodState(log, commit', latest, GroupOf[q], applied'[q], kv'[q])
                 /\ GoodState(log, commit', latest, GroupOf[q], snapshot'[q].index, snapshot'[q].kv)
                 /\ snapshot'[q].index <= applied'[q]
        <3>1. CASE q = r
            <4>1. applied'[q] = n + 1 /\ kv'[q] = st /\ snapshot'[q] = snap /\ GroupOf[q] = h
                BY <1>1, <1>2, <2>3, <3>1 DEF StatePart, h
            <4>2. GoodState(log, commit', latest, GroupOf[q], applied'[q], kv'[q])
                BY <1>15, <4>1
            <4>3. CASE snap = [index |-> n + 1, kv |-> st]
                <5>1. snap.index = n + 1 /\ snap.kv = st
                    BY <4>3
                <5> QED BY <1>5, <1>15, <4>1, <4>2, <5>1
            <4>4. CASE snap = snapshot[r]
                <5>1. snapshot[r].index <= n /\ snapshot[r].index \in Nat
                    BY <1>1, <2>6 DEF StatePart, n
                <5>2. snapshot[r].index <= n + 1
                    BY <1>5, <5>1
                <5> QED BY <2>6, <3>1, <4>1, <4>2, <4>4, <5>2
            <4> QED BY <2>3, <4>3, <4>4
        <3>2. CASE q # r
            <4>1. applied'[q] = applied[q] /\ kv'[q] = kv[q] /\ snapshot'[q] = snapshot[q]
                BY <1>1, <1>2, <2>3, <3>2 DEF StatePart
            <4> QED BY <2>6, <4>1
        <3> QED BY <3>1, <3>2
    <2> QED BY <1>2, <2>1, <2>2, <2>5, <2>7 DEF StatePart
<1>18. ClerkPart'
    <2> HIDE DEF op, h, n, owned
    <2>1. ASSUME NEW c \in Client
          PROVE  /\ clerk[c] \in ClerkType
                 /\ clerk[c].pc # "idle" => clerk[c].shard \in Shard
                 /\ clerk[c].pc \in {"call", "wait"} => clerk[c].seq >= 1
        BY <1>1 DEF ClerkPart
    <2>2. ASSUME NEW c \in Client
          PROVE  /\ clerk'[c] \in ClerkType
                 /\ clerk'[c].pc # "idle" => clerk'[c].shard \in Shard
                 /\ clerk'[c].pc \in {"call", "wait"} => clerk'[c].seq >= 1
                 /\ waiting(c) /\ clerk'[c].pc = "idle" => op.type = "Write" /\ op.seq = clerk[c].seq
        <3>1. CASE waiting(c)
            <4>1. clerk'[c] = Answer(clerk[c], c, op, owned)
                BY <1>4, <3>1
            <4>2. /\ clerk'[c] \in ClerkType /\ clerk'[c].seq = clerk[c].seq
                  /\ clerk'[c].shard = clerk[c].shard
                  /\ clerk'[c].pc = "idle" => op.type = "Write" /\ op.seq = clerk[c].seq
                BY <1>7, <1>12, <2>1, <4>1, AnswerType
            <4> QED BY <2>1, <3>1, <4>2
        <3>2. CASE ~waiting(c)
            <4>1. clerk'[c] = clerk[c]
                BY <1>4, <3>2
            <4> QED BY <2>1, <3>2, <4>1
        <3> QED BY <3>1, <3>2
    <2>3. clerk' \in [Client -> ClerkType]
        BY <1>4, <2>2
    <2>4. ASSUME NEW w \in acked' PROVE w \in [shard : Shard, client : Client, seq : 1 .. MaxSeq]
        <3>1. CASE w \in acked
            BY <1>1, <3>1 DEF ClerkPart
        <3>2. CASE w \notin acked
            <4>1. PICK c \in Client : /\ waiting(c) /\ clerk'[c].pc = "idle"
                                      /\ w = [shard |-> op.shard, client |-> c, seq |-> clerk[c].seq]
                BY <1>4, <3>2
            <4>2. op.type = "Write" /\ op.seq = clerk[c].seq
                BY <2>2, <4>1
            <4>3. op.shard \in Shard /\ op.seq \in 1 .. MaxSeq
                BY <1>7, <4>2, OpFields
            <4> QED BY <4>1, <4>2, <4>3
        <3> QED BY <3>1, <3>2
    <2> QED BY <2>2, <2>3, <2>4 DEF ClerkPart
<1> QED BY <1>11, <1>13, <1>14, <1>17, <1>18 DEF ShardInv

\* A state and a snapshot that are good may replace a replica's.
LEMMA ReplacedState ==
    ASSUME ShardInv, NEW r \in Replica, NEW n, NEW st, NEW snap \in [index : Nat, kv : KV],
           kv' = [kv EXCEPT ![r] = st], applied' = [applied EXCEPT ![r] = n],
           snapshot' = [snapshot EXCEPT ![r] = snap],
           noopAppliedTerm' \in [Replica -> 0 .. MaxFaults + 1],
           UNCHANGED <<log, commit, latest>>,
           GoodState(log, commit, latest, GroupOf[r], n, st),
           GoodState(log, commit, latest, GroupOf[r], snap.index, snap.kv), snap.index <= n
    PROVE  StatePart'
<1>1. StatePart
    BY DEF ShardInv
<1>2. st \in KV /\ n \in Nat
    BY DEF GoodState
<1>3. kv' \in [Replica -> KV] /\ applied' \in [Replica -> Nat] /\ snapshot' \in [Replica -> [index : Nat, kv : KV]]
    BY <1>1, <1>2 DEF StatePart
<1>4. ASSUME NEW q \in Replica
      PROVE  /\ GoodState(log, commit, latest, GroupOf[q], applied'[q], kv'[q])
             /\ GoodState(log, commit, latest, GroupOf[q], snapshot'[q].index, snapshot'[q].kv)
             /\ snapshot'[q].index <= applied'[q]
    <2>1. CASE q = r
        <3>1. applied'[q] = n /\ kv'[q] = st /\ snapshot'[q] = snap
            BY <1>1, <2>1 DEF StatePart
        <3> QED BY <2>1, <3>1
    <2>2. CASE q # r
        <3>1. applied'[q] = applied[q] /\ kv'[q] = kv[q] /\ snapshot'[q] = snapshot[q]
            BY <1>1, <2>2 DEF StatePart
        <3>2. /\ GoodState(log, commit, latest, GroupOf[q], applied[q], kv[q])
              /\ GoodState(log, commit, latest, GroupOf[q], snapshot[q].index, snapshot[q].kv)
              /\ snapshot[q].index <= applied[q]
            BY <1>1 DEF StatePart
        <3> QED BY <3>1, <3>2
    <2> QED BY <2>1, <2>2
<1> QED BY <1>3, <1>4 DEF StatePart

\* A follower takes over the leader's snapshot.
LEMMA restoreSnapshotInv == ASSUME ShardInv, NEW r \in Replica, restoreSnapshot(r) PROVE ShardInv'
<1>1. RaftPart /\ StatePart /\ LoopPart /\ ClerkPart
    BY DEF ShardInv
<1> DEFINE l == leader[GroupOf[r]]
           sent == snapshot[l]
<1>2. /\ kv' = [kv EXCEPT ![r] = sent.kv] /\ applied' = [applied EXCEPT ![r] = sent.index]
      /\ snapshot' = [snapshot EXCEPT ![r] = sent] /\ noopAppliedTerm' = noopAppliedTerm
      /\ UNCHANGED <<latest, raftVars>> /\ UNCHANGED loopVars /\ UNCHANGED <<clerk, acked>> /\ faults' = faults
    BY DEF restoreSnapshot
<1>3. l \in Replica /\ GroupOf[l] = GroupOf[r]
    BY <1>1, GroupAssumption DEF RaftPart
<1>4. sent \in [index : Nat, kv : KV] /\ GoodState(log, commit, latest, GroupOf[r], sent.index, sent.kv)
    BY <1>1, <1>3 DEF StatePart
<1>5. sent.index <= sent.index
    BY <1>4
<1>6. UNCHANGED <<log, commit, latest>> /\ noopAppliedTerm' \in [Replica -> 0 .. MaxFaults + 1]
    BY <1>1, <1>2 DEF raftVars, StatePart
<1> HIDE DEF sent
<1>7. StatePart'
    BY <1>2, <1>4, <1>5, <1>6, ReplacedState
<1>8. RaftPart' /\ OpsPart' /\ PullPart'
    BY <1>2, Quiet DEF loopVars
<1>9. LoopPart' /\ ClerkPart'
    BY <1>1, <1>2, LoopKept, ClerkKept DEF loopVars
<1> QED BY <1>7, <1>8, <1>9 DEF ShardInv

\* What a restart does to a clerk that was waiting or reading there.
LEMMA RestartClerks ==
    ASSUME ShardInv, NEW r \in Replica, Restart(r)
    PROVE  ClerkPart'
<1> DEFINE to(c) == IF clerk[c].pc = "wait" THEN "call" ELSE "idle"
<1>1. /\ clerk' = [c \in Client |-> IF clerk[c].at # r THEN clerk[c] ELSE Back(clerk[c], to(c))]
      /\ acked' = acked
    BY DEF Restart
<1>2. ClerkPart
    BY DEF ShardInv
<1>3. ASSUME NEW c \in Client
      PROVE  /\ clerk'[c] \in ClerkType
             /\ clerk'[c].pc # "idle" => clerk'[c].shard \in Shard
             /\ clerk'[c].pc \in {"call", "wait"} => clerk'[c].seq >= 1
    <2>1. /\ clerk[c] \in ClerkType
          /\ clerk[c].pc # "idle" => clerk[c].shard \in Shard
          /\ clerk[c].pc \in {"call", "wait"} => clerk[c].seq >= 1
        BY <1>2 DEF ClerkPart
    <2>2. CASE clerk[c].at # r
        <3>1. clerk'[c] = clerk[c]
            BY <1>1, <2>2
        <3> QED BY <2>1, <3>1
    <2>3. CASE clerk[c].at = r
        <3>1. clerk'[c] = Back(clerk[c], to(c)) /\ to(c) \in {"idle", "call", "wait", "reading"}
            BY <1>1, <2>3
        <3>2. /\ clerk'[c] \in ClerkType /\ clerk'[c].pc = to(c)
              /\ clerk'[c].seq = clerk[c].seq /\ clerk'[c].shard = clerk[c].shard
            BY <2>1, <3>1, BackType
        <3>3. clerk'[c].pc # "idle" => clerk'[c].pc = "call" /\ clerk[c].pc = "wait"
            BY <3>2
        <3> QED BY <2>1, <3>2, <3>3
    <2> QED BY <2>2, <2>3
<1>4. clerk' \in [Client -> ClerkType]
    BY <1>1, <1>3
<1> QED BY <1>1, <1>2, <1>3, <1>4 DEF ClerkPart

\* A replica that restarts from its snapshot.
LEMMA RestartInv == ASSUME ShardInv, NEW r \in Replica, Restart(r) PROVE ShardInv'
<1>1. RaftPart /\ StatePart /\ LoopPart /\ PullPart
    BY DEF ShardInv
<1>2. /\ kv' = [kv EXCEPT ![r] = snapshot[r].kv] /\ applied' = [applied EXCEPT ![r] = snapshot[r].index]
      /\ snapshot' = snapshot /\ noopAppliedTerm' = [noopAppliedTerm EXCEPT ![r] = 0]
      /\ lastNoopTerm' = [lastNoopTerm EXCEPT ![r] = 0]
      /\ pull' = [pull EXCEPT ![r] = None] /\ gc' = [gc EXCEPT ![r] = None]
      /\ UNCHANGED <<latest, raftVars>> /\ UNCHANGED <<lastProposed, migrateProposed, gcProposed>>
      /\ faults < MaxFaults /\ faults' = faults + 1
    BY DEF Restart
<1>3. /\ snapshot[r] \in [index : Nat, kv : KV]
      /\ GoodState(log, commit, latest, GroupOf[r], snapshot[r].index, snapshot[r].kv)
      /\ snapshot' = [snapshot EXCEPT ![r] = snapshot[r]]
    BY <1>1, <1>2 DEF StatePart
<1>4. snapshot[r].index <= snapshot[r].index
    BY <1>3
<1>5. 0 \in 0 .. MaxFaults + 1
    BY BoundAssumption
<1>6. UNCHANGED <<log, commit, latest>> /\ noopAppliedTerm' \in [Replica -> 0 .. MaxFaults + 1]
    BY <1>1, <1>2, <1>5 DEF raftVars, StatePart
<1>7. StatePart'
    BY <1>2, <1>3, <1>4, <1>6, ReplacedState
<1>8. RaftPart' /\ OpsPart' /\ Grows(log, commit, log', commit')
    BY <1>2, Quiet
<1>9. LoopPart'
    BY <1>1, <1>2, <1>5 DEF LoopPart
<1>10. PullPart'
    <2>1. pull' \in [Replica -> PullType]
        BY <1>1, <1>2 DEF PullPart, PullType
    <2>2. ASSUME NEW q \in Replica PROVE GoodPull(log', commit', GroupOf[q], pull'[q])
        <3>1. CASE q = r
            <4>1. pull'[q] = None
                BY <1>1, <1>2, <3>1 DEF PullPart
            <4> QED BY <4>1 DEF GoodPull
        <3>2. CASE q # r
            <4>1. pull'[q] = pull[q] /\ pull[q] \in PullType /\ GoodPull(log, commit, GroupOf[q], pull[q])
                BY <1>1, <1>2, <3>2 DEF PullPart
            <4> QED BY <1>8, <4>1, PullGrows, GroupAssumption
        <3> QED BY <3>1, <3>2
    <2> QED BY <2>1, <2>2 DEF PullPart
<1> QED BY <1>7, <1>8, <1>9, <1>10, RestartClerks DEF ShardInv

\* A proposal of a loop, which changes nothing but the log and its own notes.
LEMMA ProposedInv ==
    ASSUME ShardInv, NEW r \in Replica, NEW op, Propose(r, op), Proposable(GroupOf[r], op),
           UNCHANGED <<latest, faults>>, UNCHANGED stateVars
    PROVE  /\ RaftPart' /\ OpsPart' /\ StatePart' /\ Grows(log, commit, log', commit')
           /\ UNCHANGED pull => PullPart'
<1>1. RaftPart /\ OpsPart /\ StatePart /\ PullPart
    BY DEF ShardInv
<1>2. RaftPart' /\ OpsPart' /\ Grows(log, commit, log', commit')
    BY <1>1, Proposed
<1>3. latest' \in Nat /\ latest <= latest'
    BY <1>1, ConfigsNat DEF RaftPart
<1>4. StatePart'
    BY <1>1, <1>2, <1>3, StateKept
<1> QED BY <1>1, <1>2, <1>4, PullKept

\* A leader's no-op.
LEMMA noopLoopInv == ASSUME ShardInv, NEW r \in Replica, noopLoop(r) PROVE ShardInv'
<1>1. RaftPart /\ LoopPart /\ ClerkPart
    BY DEF ShardInv
<1> DEFINE t == term[GroupOf[r]]
           op == [type |-> "Noop", term |-> t]
<1>2. /\ Propose(r, op) /\ lastNoopTerm' = [lastNoopTerm EXCEPT ![r] = t]
      /\ UNCHANGED <<latest, faults>> /\ UNCHANGED stateVars /\ UNCHANGED pull /\ UNCHANGED <<clerk, acked>>
      /\ UNCHANGED <<lastProposed, migrateProposed, gcProposed, gc>>
    BY DEF noopLoop
<1>3. t \in 1 .. MaxFaults + 1 /\ t \in 0 .. MaxFaults + 1
    BY <1>1, GroupAssumption, BoundAssumption DEF RaftPart
<1>4. op.type = "Noop" /\ op \in Op
    BY <1>3 DEF Op
<1>5. Proposable(GroupOf[r], op)
    BY <1>4 DEF Proposable
<1> HIDE DEF op
<1>6. RaftPart' /\ OpsPart' /\ StatePart' /\ PullPart'
    BY <1>2, <1>5, ProposedInv
<1>7. LoopPart'
    BY <1>1, <1>2, <1>3 DEF LoopPart
<1> QED BY <1>1, <1>2, <1>6, <1>7, ClerkKept DEF ShardInv

\* The next config is proposed where the log has the one before it.
LEMMA configPollInv == ASSUME ShardInv, NEW r \in Replica, configPoll(r) PROVE ShardInv'
<1>1. RaftPart /\ StatePart /\ LoopPart /\ ClerkPart
    BY DEF ShardInv
<1> DEFINE h == GroupOf[r]
           n == kv[r].cfg
           op == [type |-> "Config", num |-> n + 1]
<1>2. /\ Propose(r, op) /\ n + 1 <= latest /\ lastProposed' = [lastProposed EXCEPT ![r] = n + 1]
      /\ UNCHANGED <<latest, faults>> /\ UNCHANGED stateVars /\ UNCHANGED pull /\ UNCHANGED <<clerk, acked>>
      /\ UNCHANGED <<lastNoopTerm, migrateProposed, gcProposed, gc>>
    BY DEF configPoll
<1>3. h \in Group /\ GoodState(log, commit, latest, h, applied[r], kv[r])
    BY <1>1, GroupAssumption DEF StatePart
<1>4. n \in Nat /\ FollowsLog(log[h], applied[r], kv[r]) /\ applied[r] <= commit[h] /\ applied[r] \in Nat
    BY <1>3, KVFields DEF GoodState
<1>5. latest \in 1 .. Len(Configs) /\ Len(Configs) \in Nat
    BY <1>1, ConfigsNat DEF RaftPart
<1>6. n + 1 \in 1 .. Len(Configs) /\ n + 1 \in 0 .. Len(Configs)
    <2> HIDE DEF n
    <2> QED BY <1>2, <1>4, <1>5
<1>7. op.type = "Config" /\ op.num = n + 1 /\ op \in Op
    BY <1>6 DEF Op
<1>8. ASSUME n + 1 # 1 PROVE \E j \in 1 .. Len(log[h]) : IsConfig(log[h][j], (n + 1) - 1)
    <2>1. n \in 1 .. kv[r].cfg /\ (n + 1) - 1 = n
        BY <1>4, <1>8
    <2>2. PICK j \in 1 .. applied[r] : IsConfig(log[h][j], n)
        BY <1>4, <2>1 DEF FollowsLog
    <2>3. Len(log[h]) \in Nat /\ commit[h] <= Len(log[h]) /\ commit[h] \in Nat
        BY <1>1, <1>3, LenProperties DEF RaftPart
    <2>4. j \in 1 .. Len(log[h])
        BY <1>4, <2>3
    <2> QED BY <2>1, <2>2, <2>4
<1> HIDE DEF op, n
<1>9. Proposable(h, op)
    BY <1>2, <1>7, <1>8 DEF Proposable
<1>10. RaftPart' /\ OpsPart' /\ StatePart' /\ PullPart'
    BY <1>2, <1>9, ProposedInv
<1>11. LoopPart'
    BY <1>1, <1>2, <1>6 DEF LoopPart
<1> QED BY <1>1, <1>2, <1>10, <1>11, ClerkKept DEF ShardInv

\* A pull that is good may replace a replica's.
LEMMA ReplacedPull ==
    ASSUME PullPart, Grows(log, commit, log', commit'), NEW r \in Replica, NEW p \in PullType,
           pull' = [pull EXCEPT ![r] = p], GoodPull(log, commit, GroupOf[r], p)
    PROVE  PullPart'
<1>1. pull' \in [Replica -> PullType]
    BY DEF PullPart
<1>2. ASSUME NEW q \in Replica PROVE GoodPull(log', commit', GroupOf[q], pull'[q])
    <2>1. GroupOf[q] \in Group
        BY GroupAssumption
    <2>2. CASE q = r
        <3>1. pull'[q] = p
            BY <2>2 DEF PullPart
        <3> QED BY <2>1, <2>2, <3>1, PullGrows
    <2>3. CASE q # r
        <3>1. pull'[q] = pull[q] /\ pull[q] \in PullType /\ GoodPull(log, commit, GroupOf[q], pull[q])
            BY <2>3 DEF PullPart
        <3> QED BY <2>1, <3>1, PullGrows
    <2> QED BY <2>2, <2>3
<1> QED BY <1>1, <1>2 DEF PullPart

\* No pull is a good pull.
LEMMA NoPull == ASSUME NEW g PROVE None \in PullType /\ GoodPull(log, commit, g, None)
BY DEF PullType, GoodPull

\* What a step of the migration loop that only changes the pull has to show.
LEMMA PullStep ==
    ASSUME ShardInv, NEW r \in Replica, NEW p \in PullType, pull' = [pull EXCEPT ![r] = p],
           GoodPull(log, commit, GroupOf[r], p),
           UNCHANGED <<latest, raftVars>>, UNCHANGED stateVars, UNCHANGED <<clerk, acked>>, faults' = faults,
           UNCHANGED <<lastNoopTerm, lastProposed, migrateProposed, gcProposed, gc>>
    PROVE  ShardInv'
<1>1. PullPart /\ LoopPart /\ ClerkPart
    BY DEF ShardInv
<1>2. RaftPart' /\ OpsPart' /\ StatePart' /\ Grows(log, commit, log', commit')
    BY Quiet
<1>3. PullPart'
    BY <1>1, <1>2, ReplacedPull
<1>4. LoopPart' /\ ClerkPart'
    BY <1>1, LoopKept, ClerkKept
<1> QED BY <1>2, <1>3, <1>4 DEF ShardInv

\* The migration loop asks for a shard that it gained.
LEMMA migrationTickInv ==
    ASSUME ShardInv, NEW r \in Replica, NEW s \in Shard, migrationTick(r, s)
    PROVE  ShardInv'
<1> DEFINE f == kv[r].migrating[s]
           n == kv[r].cfg
           p == [step |-> "ask", shard |-> s, from |-> f, num |-> n]
<1>1. /\ f # None /\ pull' = [pull EXCEPT ![r] = p]
      /\ UNCHANGED <<latest, raftVars>> /\ UNCHANGED stateVars /\ UNCHANGED <<clerk, acked>> /\ faults' = faults
      /\ UNCHANGED <<lastNoopTerm, lastProposed, migrateProposed, gcProposed, gc>>
    BY DEF migrationTick
<1>2. GoodState(log, commit, latest, GroupOf[r], applied[r], kv[r])
    BY DEF ShardInv, StatePart
<1>3. kv[r] \in KV /\ MissesGained(GroupOf[r], kv[r])
    BY <1>2 DEF GoodState
<1>4. n \in 0 .. Len(Configs) /\ Len(Configs) \in Nat /\ f \in Group \cup {None}
    BY <1>3, KVFields, ConfigsNat
<1>5. PICK k \in 2 .. n : Gains(GroupOf[r], s, k, f)
    BY <1>1, <1>3 DEF MissesGained
<1> HIDE DEF f, n
<1>6. n \in 1 .. Len(Configs) /\ f \in Group
    BY <1>1, <1>4, <1>5
<1>7. p \in AskType
    BY <1>6 DEF AskType
<1>8. p.step = "ask" /\ p.shard = s /\ p.from = f /\ p.num = n
    OBVIOUS
<1> HIDE DEF p
<1>9. GoodPull(log, commit, GroupOf[r], p)
    BY <1>5, <1>8 DEF GoodPull
<1> QED BY <1>1, <1>7, <1>9, PullStep DEF PullType

\* A donor that is in the newer config and has what it gained itself answers
\* with good data, and has left the configs in which it owned the shard.
LEMMA PullInv ==
    ASSUME ShardInv, NEW r \in Replica, NEW d \in Replica, Pull(r, d)
    PROVE  ShardInv'
<1> DEFINE a == pull[r]
           g == GroupOf[r]
           f == GroupOf[d]
           st == kv[d]
           p == [step |-> "got", shard |-> a.shard, data |-> st.store[a.shard], dup |-> st.duplicateTable]
<1>1. /\ a # None /\ a.step = "ask" /\ f = a.from /\ PullReady(st, a.shard, a.num)
      /\ pull' = [pull EXCEPT ![r] = p]
      /\ UNCHANGED <<latest, raftVars>> /\ UNCHANGED stateVars /\ UNCHANGED <<clerk, acked>> /\ faults' = faults
      /\ UNCHANGED <<lastNoopTerm, lastProposed, migrateProposed, gcProposed, gc>>
    BY DEF Pull
<1>2. a \in PullType /\ GoodPull(log, commit, g, a)
    BY DEF ShardInv, PullPart
<1>3. a.shard \in Shard /\ a.num \in 1 .. Len(Configs)
    BY <1>1, <1>2 DEF PullType, AskType, GotType
<1>4. PICK k \in 2 .. a.num : Gains(g, a.shard, k, f)
    BY <1>1, <1>2 DEF GoodPull
<1>5. GoodState(log, commit, latest, f, applied[d], st)
    BY DEF ShardInv, StatePart
<1>6. st \in KV /\ GoodKV(st) /\ FollowsLog(log[f], applied[d], st) /\ applied[d] \in Nat /\ applied[d] <= commit[f]
    BY <1>5 DEF GoodState
<1>7. /\ st.store[a.shard] \in Seq(Write) /\ st.duplicateTable \in [Client -> 0 .. MaxSeq]
      /\ st.cfg \in Nat /\ st.cfg \in 0 .. Len(Configs) /\ Len(Configs) \in Nat
    BY <1>3, <1>6, KVFields, ConfigsNat
<1>8. GoodData(st.store[a.shard], st.duplicateTable)
    BY <1>3, <1>6 DEF GoodKV
<1>9. g \in Group /\ f \in Group /\ commit[f] \in Nat
    BY GroupAssumption DEF ShardInv, RaftPart
<1>10. st.cfg >= a.num /\ st.migrating[a.shard] = None
    BY <1>1 DEF PullReady
<1>11. ASSUME Orderly PROVE Ready(log, commit, g, a.shard)
    <2> HIDE DEF a, st, f, g
    <2>1. k \in 2 .. Len(Configs) /\ k - 1 \in 1 .. st.cfg /\ k <= st.cfg
        BY <1>3, <1>7, <1>10
    <2>2. Owner(k - 1, a.shard) = f
        BY <1>4 DEF Gains
    <2>3. HasGot(log, commit, f, st)
        BY <1>5, <1>11 DEF GoodState
    <2>4. Ready(log, commit, f, a.shard)
        BY <1>3, <1>10, <2>1, <2>2, <2>3 DEF HasGot, HadBy
    <2>5. ASSUME NEW m \in 2 .. k PROVE Past(log, commit, f, m)
        <3>1. m \in 1 .. st.cfg
            BY <1>7, <2>1
        <3>2. PICK i \in 1 .. applied[d] : IsConfig(log[f][i], m)
            BY <1>6, <3>1 DEF FollowsLog
        <3>3. i \in 1 .. commit[f]
            BY <1>6, <1>9
        <3> QED BY <3>2, <3>3 DEF Past
    <2> QED BY <1>3, <1>4, <1>9, <1>11, <2>1, <2>4, <2>5, NextOwnerReady
<1>12. p \in GotType
    BY <1>3, <1>7 DEF GotType
<1>13. p.step = "got" /\ p.shard = a.shard /\ p.data = st.store[a.shard] /\ p.dup = st.duplicateTable
    OBVIOUS
<1> HIDE DEF p
<1>14. GoodPull(log, commit, g, p)
    BY <1>8, <1>11, <1>13 DEF GoodPull
<1> QED BY <1>1, <1>12, <1>14, PullStep DEF PullType

\* No donor is ready.
LEMMA pullNotReadyInv == ASSUME ShardInv, NEW r \in Replica, pullNotReady(r) PROVE ShardInv'
<1>1. /\ pull' = [pull EXCEPT ![r] = None]
      /\ UNCHANGED <<latest, raftVars>> /\ UNCHANGED stateVars /\ UNCHANGED <<clerk, acked>> /\ faults' = faults
      /\ UNCHANGED <<lastNoopTerm, lastProposed, migrateProposed, gcProposed, gc>>
    BY DEF pullNotReady
<1> QED BY <1>1, NoPull, PullStep

\* What was pulled goes into the log.
LEMMA proposeMigrateInv == ASSUME ShardInv, NEW r \in Replica, proposeMigrate(r) PROVE ShardInv'
<1> DEFINE p == pull[r]
           g == GroupOf[r]
           op == [type |-> "Migrate", shard |-> p.shard, data |-> p.data, dup |-> p.dup]
<1>1. RaftPart /\ PullPart /\ LoopPart /\ ClerkPart
    BY DEF ShardInv
<1>2. /\ p # None /\ p.step = "got" /\ pull' = [pull EXCEPT ![r] = None]
      /\ latest' = latest /\ UNCHANGED stateVars /\ UNCHANGED <<clerk, acked>> /\ faults' = faults
      /\ UNCHANGED <<lastNoopTerm, lastProposed, gcProposed, gc>>
    BY DEF proposeMigrate
<1>3. p \in PullType /\ GoodPull(log, commit, g, p)
    BY <1>1 DEF PullPart
<1>4. p.shard \in Shard /\ p.data \in Seq(Write) /\ p.dup \in [Client -> 0 .. MaxSeq]
    BY <1>2, <1>3 DEF PullType, AskType, GotType
<1>5. GoodData(p.data, p.dup) /\ (Orderly => Ready(log, commit, g, p.shard))
    BY <1>2, <1>3 DEF GoodPull
<1>6. CASE UNCHANGED <<raftVars, migrateProposed>>
    <2>1. UNCHANGED <<latest, raftVars>> /\ UNCHANGED <<lastNoopTerm, lastProposed, migrateProposed, gcProposed, gc>>
        BY <1>2, <1>6
    <2> QED BY <1>2, <2>1, NoPull, PullStep
<1>7. CASE Propose(r, op) /\ migrateProposed' = [migrateProposed EXCEPT ![r] = @ \cup {p.shard}]
    <2> HIDE DEF p
    <2>1. op \in Op
        BY <1>4 DEF Op
    <2>2. op.type = "Migrate" /\ op.shard = p.shard /\ op.data = p.data /\ op.dup = p.dup
        OBVIOUS
    <2> HIDE DEF op
    <2>3. Proposable(g, op)
        BY <1>5, <2>1, <2>2 DEF Proposable
    <2>4. RaftPart' /\ OpsPart' /\ StatePart' /\ Grows(log, commit, log', commit')
        BY <1>2, <1>7, <2>3, ProposedInv
    <2>5. PullPart'
        BY <1>1, <1>2, <2>4, NoPull, ReplacedPull
    <2>6. LoopPart'
        BY <1>1, <1>2, <1>4, <1>7 DEF LoopPart
    <2> QED BY <1>1, <1>2, <2>4, <2>5, <2>6, ClerkKept DEF ShardInv
<1>8. \/ UNCHANGED <<raftVars, migrateProposed>>
      \/ Propose(r, op) /\ migrateProposed' = [migrateProposed EXCEPT ![r] = @ \cup {p.shard}]
    BY DEF proposeMigrate
<1> QED BY <1>6, <1>7, <1>8

\* The recipient has the shard.
LEMMA recipientReadyInv ==
    ASSUME ShardInv, NEW r \in Replica, NEW s \in Shard, NEW d \in Replica, recipientReady(r, s, d)
    PROVE  ShardInv'
<1>1. LoopPart /\ ClerkPart
    BY DEF ShardInv
<1>2. /\ gc' = [gc EXCEPT ![r] = s]
      /\ UNCHANGED <<latest, raftVars>> /\ UNCHANGED stateVars /\ UNCHANGED <<clerk, acked>> /\ faults' = faults
      /\ UNCHANGED <<lastNoopTerm, lastProposed, migrateProposed, gcProposed>> /\ UNCHANGED pull
    BY DEF recipientReady
<1>3. RaftPart' /\ OpsPart' /\ StatePart' /\ PullPart'
    BY <1>2, Quiet
<1>4. LoopPart'
    BY <1>1, <1>2 DEF LoopPart
<1> QED BY <1>1, <1>2, <1>3, <1>4, ClerkKept DEF ShardInv

\* The shard that left is to be deleted.
LEMMA proposeGCInv == ASSUME ShardInv, NEW r \in Replica, proposeGC(r) PROVE ShardInv'
<1> DEFINE s == gc[r]
           op == [type |-> "GC", shard |-> s]
<1>1. LoopPart /\ ClerkPart
    BY DEF ShardInv
<1>2. /\ s # None /\ gc' = [gc EXCEPT ![r] = None]
      /\ latest' = latest /\ UNCHANGED stateVars /\ UNCHANGED <<clerk, acked>> /\ faults' = faults
      /\ UNCHANGED <<lastNoopTerm, lastProposed, migrateProposed>> /\ UNCHANGED pull
    BY DEF proposeGC
<1>3. s \in Shard
    BY <1>1, <1>2 DEF LoopPart
<1>4. CASE UNCHANGED <<raftVars, gcProposed>>
    <2>1. UNCHANGED <<latest, raftVars>>
        BY <1>2, <1>4
    <2>2. RaftPart' /\ OpsPart' /\ StatePart' /\ PullPart'
        BY <1>2, <2>1, Quiet
    <2>3. LoopPart'
        BY <1>1, <1>2, <1>4 DEF LoopPart
    <2> QED BY <1>1, <1>2, <2>2, <2>3, ClerkKept DEF ShardInv
<1>5. CASE Propose(r, op) /\ gcProposed' = [gcProposed EXCEPT ![r] = @ \cup {s}]
    <2> HIDE DEF s
    <2>1. op \in Op /\ op.type = "GC"
        BY <1>3 DEF Op
    <2> HIDE DEF op
    <2>2. Proposable(GroupOf[r], op)
        BY <2>1 DEF Proposable
    <2>3. RaftPart' /\ OpsPart' /\ StatePart' /\ PullPart'
        BY <1>2, <1>5, <2>2, ProposedInv
    <2>4. LoopPart'
        BY <1>1, <1>2, <1>3, <1>5 DEF LoopPart
    <2> QED BY <1>1, <1>2, <2>3, <2>4, ClerkKept DEF ShardInv
<1>6. \/ UNCHANGED <<raftVars, gcProposed>>
      \/ Propose(r, op) /\ gcProposed' = [gcProposed EXCEPT ![r] = @ \cup {s}]
    BY DEF proposeGC
<1> QED BY <1>4, <1>5, <1>6

\* A clerk that is good may replace one.
LEMMA ReplacedClerk ==
    ASSUME ClerkPart, NEW c \in Client, NEW ck \in ClerkType, clerk' = [clerk EXCEPT ![c] = ck], acked' = acked,
           ck.pc # "idle" => ck.shard \in Shard, ck.pc \in {"call", "wait"} => ck.seq >= 1
    PROVE  ClerkPart'
<1>1. clerk' \in [Client -> ClerkType]
    BY DEF ClerkPart
<1>2. ASSUME NEW d \in Client
      PROVE  /\ clerk'[d].pc # "idle" => clerk'[d].shard \in Shard
             /\ clerk'[d].pc \in {"call", "wait"} => clerk'[d].seq >= 1
    <2>1. clerk'[d] = IF d = c THEN ck ELSE clerk[d]
        BY DEF ClerkPart
    <2> QED BY <2>1 DEF ClerkPart
<1> QED BY <1>1, <1>2 DEF ClerkPart

\* What a step of a clerk that only changes the clerk has to show.
LEMMA ClerkStep ==
    ASSUME ShardInv, NEW c \in Client, NEW ck \in ClerkType, clerk' = [clerk EXCEPT ![c] = ck], acked' = acked,
           ck.pc # "idle" => ck.shard \in Shard, ck.pc \in {"call", "wait"} => ck.seq >= 1,
           UNCHANGED <<latest, raftVars>>, UNCHANGED stateVars, UNCHANGED loopVars,
           faults' = faults \/ (faults < MaxFaults /\ faults' = faults + 1)
    PROVE  ShardInv'
<1>1. LoopPart /\ ClerkPart
    BY DEF ShardInv
<1>2. RaftPart' /\ OpsPart' /\ StatePart' /\ PullPart'
    BY Quiet DEF loopVars
<1>3. LoopPart'
    BY <1>1, LoopKept DEF loopVars
<1>4. ClerkPart'
    BY <1>1, ReplacedClerk
<1> QED BY <1>2, <1>3, <1>4 DEF ShardInv

\* What is known of a clerk.
LEMMA ClerkFacts ==
    ASSUME ShardInv, NEW c \in Client
    PROVE  /\ clerk[c] \in ClerkType /\ DOMAIN clerk = Client
           /\ clerk[c].pc # "idle" => clerk[c].shard \in Shard
           /\ clerk[c].pc \in {"call", "wait"} => clerk[c].seq >= 1
           /\ clerk[c].seq \in 0 .. MaxSeq
           /\ latest \in 1 .. Len(Configs)
BY DEF ShardInv, ClerkPart, RaftPart, ClerkType

\* A clerk begins a write.
LEMMA putAppendInv == ASSUME ShardInv, NEW c \in Client, NEW s \in Shard, putAppend(c, s) PROVE ShardInv'
<1> DEFINE ck == [clerk[c] EXCEPT !.pc = "call", !.seq = clerk[c].seq + 1, !.shard = s]
<1>1. /\ clerk[c].seq < MaxSeq
      /\ clerk' = [clerk EXCEPT ![c].pc = "call", ![c].seq = @ + 1, ![c].shard = s]
      /\ UNCHANGED <<latest, raftVars>> /\ UNCHANGED stateVars /\ UNCHANGED loopVars /\ acked' = acked
      /\ faults' = faults
    BY DEF putAppend
<1>2. clerk[c] \in ClerkType /\ DOMAIN clerk = Client /\ clerk[c].seq \in 0 .. MaxSeq
    BY ClerkFacts
<1>3. clerk' = [clerk EXCEPT ![c] = ck]
    BY <1>1, <1>2
<1>4. clerk[c].seq + 1 \in 0 .. MaxSeq /\ clerk[c].seq + 1 >= 1
    BY <1>1, <1>2, BoundAssumption
<1>5. ck \in ClerkType /\ ck.shard = s /\ ck.seq = clerk[c].seq + 1
    BY <1>2, <1>4 DEF ClerkType
<1> HIDE DEF ck
<1> QED BY <1>1, <1>3, <1>4, <1>5, ClerkStep

\* A write reaches its leader.
LEMMA PutAppendInv == ASSUME ShardInv, NEW c \in Client, NEW r \in Replica, PutAppend(c, r) PROVE ShardInv'
<1> DEFINE h == GroupOf[r]
           s == clerk[c].shard
           t == term[h]
           i == Len(log[h]) + 1
           op == [type |-> "Write", shard |-> s, client |-> c, seq |-> clerk[c].seq]
           ck == [clerk[c] EXCEPT !.pc = "wait", !.at = r, !.term = t, !.index = i]
<1>1. RaftPart /\ LoopPart /\ ClerkPart
    BY DEF ShardInv
<1>2. /\ clerk[c].pc = "call" /\ Propose(r, op)
      /\ clerk' = [clerk EXCEPT ![c].pc = "wait", ![c].at = r, ![c].term = t, ![c].index = i]
      /\ UNCHANGED <<latest, faults>> /\ UNCHANGED stateVars /\ UNCHANGED loopVars /\ acked' = acked
    BY DEF PutAppend
<1>3. /\ clerk[c] \in ClerkType /\ DOMAIN clerk = Client /\ s \in Shard
      /\ clerk[c].seq \in 0 .. MaxSeq /\ clerk[c].seq >= 1
    BY <1>2, ClerkFacts
<1>4. clerk[c].seq \in 1 .. MaxSeq
    BY <1>3, BoundAssumption
<1>5. h \in Group /\ t \in 0 .. MaxFaults + 1 /\ i \in Nat
    <2>1. h \in Group
        BY GroupAssumption
    <2>2. t \in 1 .. MaxFaults + 1 /\ log[h] \in Seq(Op)
        BY <1>1, <2>1 DEF RaftPart
    <2>3. t \in 0 .. MaxFaults + 1
        BY <2>2, BoundAssumption
    <2> QED BY <2>1, <2>2, <2>3, LenProperties
<1> HIDE DEF t, i
<1>6. clerk' = [clerk EXCEPT ![c] = ck]
    BY <1>2, <1>3
<1>7. ck \in ClerkType /\ ck.shard = s /\ ck.seq = clerk[c].seq
    BY <1>3, <1>5 DEF ClerkType
<1> HIDE DEF ck
<1>8. ClerkPart'
    BY <1>1, <1>2, <1>3, <1>6, <1>7, ReplacedClerk
<1>9. op \in Op /\ op.type = "Write"
    BY <1>3, <1>4 DEF Op
<1> HIDE DEF op
<1>10. Proposable(h, op)
    BY <1>9 DEF Proposable
<1>11. RaftPart' /\ OpsPart' /\ StatePart' /\ PullPart'
    BY <1>2, <1>10, ProposedInv DEF loopVars
<1>12. LoopPart'
    BY <1>1, <1>2, LoopKept DEF loopVars
<1> QED BY <1>8, <1>11, <1>12 DEF ShardInv

\* A write is refused.
LEMMA WrongGroupInv == ASSUME ShardInv, NEW c \in Client, NEW r \in Replica, WrongGroup(c, r) PROVE ShardInv'
<1> DEFINE ck == [clerk[c] EXCEPT !.cfg = latest]
<1>1. /\ clerk[c].pc = "call" /\ clerk' = [clerk EXCEPT ![c].cfg = latest]
      /\ UNCHANGED <<latest, raftVars>> /\ UNCHANGED stateVars /\ UNCHANGED loopVars /\ acked' = acked
      /\ faults' = faults
    BY DEF WrongGroup
<1>2. /\ clerk[c] \in ClerkType /\ DOMAIN clerk = Client /\ clerk[c].shard \in Shard
      /\ clerk[c].seq >= 1 /\ latest \in 1 .. Len(Configs)
    BY <1>1, ClerkFacts
<1>3. clerk' = [clerk EXCEPT ![c] = ck]
    BY <1>1, <1>2
<1>4. ck \in ClerkType /\ ck.shard = clerk[c].shard /\ ck.seq = clerk[c].seq
    BY <1>2, RefreshedType
<1> HIDE DEF ck
<1> QED BY <1>1, <1>2, <1>3, <1>4, ClerkStep

\* A write that waits is given up.
LEMMA giveUpInv == ASSUME ShardInv, NEW c \in Client, giveUp(c) PROVE ShardInv'
<1> DEFINE ck == Back(clerk[c], "call")
<1>1. /\ clerk[c].pc = "wait" /\ clerk' = [clerk EXCEPT ![c] = ck]
      /\ UNCHANGED <<latest, raftVars>> /\ UNCHANGED stateVars /\ UNCHANGED loopVars /\ acked' = acked
      /\ faults' = faults \/ (faults < MaxFaults /\ faults' = faults + 1)
    BY DEF giveUp
<1>2. clerk[c] \in ClerkType /\ clerk[c].shard \in Shard /\ clerk[c].seq >= 1
    BY <1>1, ClerkFacts
<1>3. ck \in ClerkType /\ ck.shard = clerk[c].shard /\ ck.seq = clerk[c].seq
    BY <1>2, BackType
<1> HIDE DEF ck
<1> QED BY <1>1, <1>2, <1>3, ClerkStep

\* A read begins.
LEMMA GetInv ==
    ASSUME ShardInv, NEW c \in Client, NEW r \in Replica, NEW s \in Shard, Get(c, r, s)
    PROVE  ShardInv'
<1> DEFINE t == term[GroupOf[r]]
           ck == [clerk[c] EXCEPT !.pc = "reading", !.shard = s, !.at = r, !.term = t]
<1>1. /\ clerk' = [clerk EXCEPT ![c].pc = "reading", ![c].shard = s, ![c].at = r, ![c].term = t]
      /\ UNCHANGED <<latest, raftVars>> /\ UNCHANGED stateVars /\ UNCHANGED loopVars /\ acked' = acked
      /\ faults' = faults
    BY DEF Get
<1>2. clerk[c] \in ClerkType /\ DOMAIN clerk = Client
    BY ClerkFacts
<1>3. t \in 0 .. MaxFaults + 1
    <2>1. GroupOf[r] \in Group
        BY GroupAssumption
    <2>2. t \in 1 .. MaxFaults + 1
        BY <2>1 DEF ShardInv, RaftPart
    <2> QED BY <2>2, BoundAssumption
<1> HIDE DEF t
<1>4. clerk' = [clerk EXCEPT ![c] = ck]
    BY <1>1, <1>2
<1>5. ck \in ClerkType /\ ck.shard = s /\ ck.pc = "reading"
    BY <1>2, <1>3 DEF ClerkType
<1> HIDE DEF ck
<1> QED BY <1>1, <1>4, <1>5, ClerkStep

\* A read ends.
LEMMA GetReplyInv == ASSUME ShardInv, NEW c \in Client, GetReply(c) PROVE ShardInv'
<1> DEFINE b == Back(clerk[c], "idle")
           wrongGroup == /\ noopAppliedTerm[clerk[c].at] = clerk[c].term
                         /\ ~Owns(GroupOf[clerk[c].at], kv[clerk[c].at], clerk[c].shard)
           n == IF wrongGroup THEN latest ELSE b.cfg
           ck == [b EXCEPT !.cfg = n]
<1>1. /\ clerk' = [clerk EXCEPT ![c] = ck]
      /\ UNCHANGED <<latest, raftVars>> /\ UNCHANGED stateVars /\ UNCHANGED loopVars /\ acked' = acked
      /\ faults' = faults
    BY DEF GetReply
<1>2. clerk[c] \in ClerkType /\ latest \in 1 .. Len(Configs)
    BY ClerkFacts
<1>3. b \in ClerkType /\ b.pc = "idle"
    BY <1>2, BackType
<1> HIDE DEF b
<1>4. n \in 1 .. Len(Configs)
    BY <1>2, <1>3 DEF ClerkType
<1> HIDE DEF n
<1>5. ck \in ClerkType /\ ck.pc = "idle"
    BY <1>3, <1>4, RefreshedType
<1> HIDE DEF ck
<1> QED BY <1>1, <1>5, ClerkStep

\* Every step keeps the invariant.
LEMMA NextInv == ASSUME ShardInv, [Next]_vars PROVE ShardInv'
<1>1. CASE Reconfigure
    BY <1>1, ReconfigureInv
<1>2. ASSUME NEW g \in Group, NEW r \in Replica, LeaderChange(g, r) PROVE ShardInv'
    BY <1>2, LeaderChangeInv
<1>3. ASSUME NEW r \in Replica, applyLoop(r) \/ restoreSnapshot(r) \/ Restart(r) PROVE ShardInv'
    BY <1>3, applyLoopInv, restoreSnapshotInv, RestartInv
<1>4. ASSUME NEW r \in Replica, noopLoop(r) \/ configPoll(r) \/ pullNotReady(r) PROVE ShardInv'
    BY <1>4, noopLoopInv, configPollInv, pullNotReadyInv
<1>5. ASSUME NEW r \in Replica, proposeMigrate(r) \/ proposeGC(r) PROVE ShardInv'
    BY <1>5, proposeMigrateInv, proposeGCInv
<1>6. ASSUME NEW r \in Replica, NEW s \in Shard, migrationTick(r, s) PROVE ShardInv'
    BY <1>6, migrationTickInv
<1>7. ASSUME NEW r \in Replica, NEW d \in Replica, Pull(r, d) PROVE ShardInv'
    BY <1>7, PullInv
<1>8. ASSUME NEW r \in Replica, NEW s \in Shard, NEW d \in Replica, recipientReady(r, s, d) PROVE ShardInv'
    BY <1>8, recipientReadyInv
<1>9. ASSUME NEW c \in Client, NEW s \in Shard, putAppend(c, s) PROVE ShardInv'
    BY <1>9, putAppendInv
<1>10. ASSUME NEW c \in Client, NEW s \in Shard, NEW r \in Replica, Get(c, r, s) PROVE ShardInv'
    BY <1>10, GetInv
<1>11. ASSUME NEW c \in Client, NEW r \in Replica, PutAppend(c, r) \/ WrongGroup(c, r) PROVE ShardInv'
    BY <1>11, PutAppendInv, WrongGroupInv
<1>12. ASSUME NEW c \in Client, giveUp(c) \/ GetReply(c) PROVE ShardInv'
    BY <1>12, giveUpInv, GetReplyInv
<1>13. CASE UNCHANGED vars
    <2>1. /\ UNCHANGED <<latest, raftVars>> /\ UNCHANGED stateVars /\ UNCHANGED loopVars
          /\ UNCHANGED <<clerk, acked>> /\ faults' = faults
        BY <1>13 DEF vars
    <2>2. LoopPart /\ ClerkPart
        BY DEF ShardInv
    <2>3. RaftPart' /\ OpsPart' /\ StatePart' /\ PullPart'
        BY <2>1, Quiet DEF loopVars
    <2>4. LoopPart' /\ ClerkPart'
        BY <2>1, <2>2, LoopKept, ClerkKept DEF loopVars
    <2> QED BY <2>3, <2>4 DEF ShardInv
<1> QED BY <1>1, <1>2, <1>3, <1>4, <1>5, <1>6, <1>7, <1>8, <1>9, <1>10, <1>11, <1>12, <1>13 DEF Next

\* The state in which the servers start is good.
LEMMA InitInv == Init => ShardInv
<1> SUFFICES ASSUME Init PROVE ShardInv
    OBVIOUS
<1>1. Len(Configs) \in Nat /\ Len(Configs) >= 1 /\ MaxSeq \in Nat /\ MaxFaults \in Nat
    BY ConfigsNat, BoundAssumption
<1>2. ASSUME NEW g \in Group
      PROVE  (CHOOSE r \in Replica : GroupOf[r] = g) \in Replica /\ GroupOf[CHOOSE r \in Replica : GroupOf[r] = g] = g
    <2>1. \E r \in Replica : GroupOf[r] = g
        BY GroupAssumption
    <2> QED BY <2>1
<1>3. /\ log = [g \in Group |-> <<>>] /\ commit = [g \in Group |-> 0] /\ latest = 1
      /\ leader = [g \in Group |-> CHOOSE r \in Replica : GroupOf[r] = g]
      /\ term = [g \in Group |-> 1] /\ faults = 0
    BY DEF Init
<1>4. \A g \in Group : log[g] = <<>> /\ Len(log[g]) = 0 /\ commit[g] = 0
    BY <1>3
<1>5. RaftPart
    <2>1. log \in [Group -> Seq(Op)] /\ commit \in [Group -> Nat] /\ latest \in 1 .. Len(Configs)
        BY <1>1, <1>3
    <2>2. \A g \in Group : commit[g] <= Len(log[g])
        BY <1>4
    <2>3. leader \in [Group -> Replica] /\ \A g \in Group : GroupOf[leader[g]] = g
        BY <1>2, <1>3
    <2>4. term \in [Group -> 1 .. MaxFaults + 1] /\ faults \in 0 .. MaxFaults /\ \A g \in Group : term[g] <= faults + 1
        BY <1>1, <1>3
    <2> QED BY <2>1, <2>2, <2>3, <2>4 DEF RaftPart
<1>6. /\ EmptyKV \in KV /\ EmptyKV.cfg = 0
      /\ \A s \in Shard : EmptyKV.store[s] = <<>> /\ EmptyKV.migrating[s] = None
    BY <1>1 DEF EmptyKV, KV, Map
<1>7. ASSUME NEW g \in Group PROVE GoodState(log, commit, latest, g, 0, EmptyKV)
    <2>1. GoodKV(EmptyKV)
        BY <1>6 DEF GoodKV, GoodData
    <2>2. FollowsLog(log[g], 0, EmptyKV)
        BY <1>6 DEF FollowsLog
    <2>3. MissesGained(g, EmptyKV)
        BY <1>6 DEF MissesGained
    <2>4. HasGot(log, commit, g, EmptyKV)
        BY <1>6 DEF HasGot, HadBy
    <2> QED BY <1>3, <1>4, <1>6, <2>1, <2>2, <2>3, <2>4 DEF GoodState
<1> HIDE DEF EmptyKV
<1>8. StatePart
    <2>1. /\ kv = [r \in Replica |-> EmptyKV] /\ applied = [r \in Replica |-> 0]
          /\ snapshot = [r \in Replica |-> [index |-> 0, kv |-> EmptyKV]]
          /\ noopAppliedTerm = [r \in Replica |-> 0]
        BY DEF Init
    <2>2. kv \in [Replica -> KV] /\ applied \in [Replica -> Nat] /\ noopAppliedTerm \in [Replica -> 0 .. MaxFaults + 1]
        BY <1>1, <1>6, <2>1
    <2>3. snapshot \in [Replica -> [index : Nat, kv : KV]]
        BY <1>6, <2>1
    <2>4. ASSUME NEW r \in Replica
          PROVE  /\ GoodState(log, commit, latest, GroupOf[r], applied[r], kv[r])
                 /\ GoodState(log, commit, latest, GroupOf[r], snapshot[r].index, snapshot[r].kv)
                 /\ snapshot[r].index <= applied[r]
        <3>1. applied[r] = 0 /\ kv[r] = EmptyKV /\ snapshot[r].index = 0 /\ snapshot[r].kv = EmptyKV
            BY <2>1
        <3>2. GroupOf[r] \in Group
            BY GroupAssumption
        <3> QED BY <1>7, <3>1, <3>2
    <2> QED BY <2>2, <2>3, <2>4 DEF StatePart
<1>9. OpsPart
    BY <1>4 DEF OpsPart
<1>10. LoopPart
    BY <1>1 DEF LoopPart, Init
<1>11. PullPart
    <2>1. pull = [r \in Replica |-> None]
        BY DEF Init
    <2> QED BY <2>1, NoPull DEF PullPart
<1>12. ClerkPart
    <2>1. clerk = [c \in Client |-> NewShardClerk] /\ acked = {}
        BY DEF Init
    <2>2. NewShardClerk \in ClerkType /\ NewShardClerk.pc = "idle"
        BY <1>1 DEF NewShardClerk, ClerkType
    <2> QED BY <2>1, <2>2 DEF ClerkPart
<1> QED BY <1>5, <1>8, <1>9, <1>10, <1>11, <1>12 DEF ShardInv

\* The invariant of the shard groups.
LEMMA Invariance == Spec => []ShardInv
<1>1. ShardInv /\ [Next]_vars => ShardInv'
    BY NextInv
<1> QED BY <1>1, InitInv, PTL DEF Spec

(***************************************************************************)
(* Results.                                                                *)
(***************************************************************************)

\* Every field of every replica, log, loop and clerk has its type, no index
\* runs past what is committed and no config past what the controller has
\* made, whatever the configs, elections, restarts and pulls.
THEOREM SoundGroups == Spec => []TypeOK
<1>1. ASSUME ShardInv PROVE TypeOK
    <2>1. RaftPart /\ StatePart /\ LoopPart /\ PullPart /\ ClerkPart
        BY <1>1 DEF ShardInv
    <2>2. ASSUME NEW r \in Replica
          PROVE kv[r].cfg <= latest /\ applied[r] <= commit[GroupOf[r]] /\ snapshot[r].index <= applied[r]
        BY <2>1 DEF StatePart, GoodState
    <2>3. pull \in [Replica -> {None}
              \cup [step : {"ask"}, shard : Shard, from : Group, num : 1 .. Len(Configs)]
              \cup [step : {"got"}, shard : Shard, data : Seq(Write), dup : [Client -> 0 .. MaxSeq]]]
        BY <2>1 DEF PullPart, PullType, AskType, GotType
    <2>4. clerk \in [Client -> [pc : {"idle", "call", "wait", "reading"}, seq : 0 .. MaxSeq,
                             cfg : 1 .. Len(Configs), shard : Shard \cup {None},
                             at : Replica \cup {None}, term : 0 .. MaxFaults + 1, index : Nat]]
        BY <2>1 DEF ClerkPart, ClerkType
    <2> QED BY <2>1, <2>2, <2>3, <2>4 DEF TypeOK, RaftPart, StatePart, LoopPart, ClerkPart
<1> QED BY <1>1, Invariance, PTL

\* No write is in a store twice, however often clerks retried it, wherever
\* the retries arrived and whichever way the shard has travelled: also when
\* shards return to groups that had them.
THEOREM AppliedOnce == Spec => []ExactlyOnce
<1>1. ASSUME ShardInv PROVE ExactlyOnce
    <2> SUFFICES ASSUME NEW r \in Replica, NEW s \in Shard,
                        NEW i \in DOMAIN kv[r].store[s], NEW j \in DOMAIN kv[r].store[s],
                        kv[r].store[s][i] = kv[r].store[s][j]
                 PROVE  i = j
        BY DEF ExactlyOnce
    <2>1. GoodKV(kv[r])
        BY <1>1 DEF ShardInv, StatePart, GoodState
    <2> QED BY <2>1 DEF GoodKV, GoodData
<1> QED BY <1>1, Invariance, PTL

\* Two groups never take writes for one shard, in any two configs they may be
\* in, if the controller never gives a shard back to a group that had it.
THEOREM SoleOwner == Orderly => (Spec => []OneOwner)
<1>1. ASSUME ShardInv, Orderly,
             NEW q \in Replica, NEW r \in Replica, NEW s \in Shard,
             UpToDate(q), Owns(GroupOf[q], kv[q], s), Owns(GroupOf[r], kv[r], s),
             GroupOf[q] # GroupOf[r], kv[q].cfg < kv[r].cfg
      PROVE  FALSE
    <2> DEFINE g == GroupOf[q]
               h == GroupOf[r]
               n == kv[q].cfg
               m == kv[r].cfg
    <2>1. /\ GoodState(log, commit, latest, g, applied[q], kv[q])
          /\ GoodState(log, commit, latest, h, applied[r], kv[r])
        BY <1>1 DEF ShardInv, StatePart
    <2>2. n \in Nat /\ m \in Nat /\ m \in 0 .. Len(Configs) /\ Len(Configs) \in Nat /\ g \in Group /\ h \in Group
        BY <2>1, KVFields, ConfigsNat, GroupAssumption DEF GoodState
    <2>3. Owner(n, s) = g /\ Owner(m, s) = h /\ kv[r].migrating[s] = None
        BY <1>1 DEF Owns
    <2>4. n # 0
        BY <2>2, <2>3, GroupAssumption DEF Owner
    <2>5. n \in 1 .. m /\ m \in 1 .. Len(Configs) /\ m \in 1 .. m
        BY <1>1, <2>2, <2>4
    <2>6. Ready(log, commit, h, s)
        BY <1>1, <2>1, <2>3, <2>5 DEF GoodState, HasGot, HadBy
    <2>7. Past(log, commit, g, n + 1)
        <3>1. Owner(n, s) \notin {h, Nobody}
            BY <1>1, <2>2, <2>3, GroupAssumption
        <3> QED BY <2>3, <2>5, <2>6, <3>1 DEF Ready
    <2>8. PICK i \in 1 .. commit[g] : IsConfig(log[g][i], n + 1)
        BY <2>7 DEF Past
    <2>9. i \in 1 .. applied[q] /\ FollowsLog(log[g], applied[q], kv[q])
        BY <1>1, <2>1 DEF UpToDate, GoodState
    <2>10. n + 1 <= n
        BY <2>8, <2>9 DEF FollowsLog, IsConfig
    <2> QED BY <2>2, <2>10
<1>2. ASSUME ShardInv, Orderly PROVE OneOwner
    <2> SUFFICES ASSUME NEW q \in Replica, NEW r \in Replica, NEW s \in Shard,
                        UpToDate(q), Owns(GroupOf[q], kv[q], s),
                        UpToDate(r), Owns(GroupOf[r], kv[r], s), GroupOf[q] # GroupOf[r]
                 PROVE  FALSE
        BY DEF OneOwner
    <2>1. kv[q].cfg # kv[r].cfg
        BY DEF Owns
    <2>2. kv[q].cfg \in Nat /\ kv[r].cfg \in Nat
        BY <1>2, KVFields DEF ShardInv, StatePart
    <2>3. ~(kv[q].cfg < kv[r].cfg)
        BY <1>1, <1>2
    <2>4. ~(kv[r].cfg < kv[q].cfg)
        BY <1>1, <1>2
    <2> QED BY <2>1, <2>2, <2>3, <2>4
<1>3. Orderly => (ShardInv => OneOwner)
    BY <1>2
<1> SUFFICES ASSUME Orderly PROVE Spec => []OneOwner
    OBVIOUS
<1>4. ShardInv => OneOwner
    BY <1>3
<1> QED BY <1>4, Invariance, PTL

(***************************************************************************)
(* No acknowledged write is lost.                                          *)
(*                                                                         *)
(* The argument is about the states a group went through, so a history T   *)
(* of them, T[g][i] after i entries, is part of the invariant: it exists   *)
(* (TraceOf), and the replicas and snapshots are states of it.  A write    *)
(* that took effect was Seen in the store of an owner.  Whoever has had a  *)
(* shard has all that was seen at the owners before it (Complete), unless  *)
(* it has deleted the shard since (Collected), and then the next owner has *)
(* it (Passed).  What is pulled from a donor is complete, or comes too     *)
(* late to be taken (Arrived).  Nothing is seen at an owner that is past   *)
(* the config in which it owned the shard, so what is complete stays so.   *)
(***************************************************************************)

\* g lost s in one of its first n configs; it has deleted it since.
Lost(g, s, n) == \E k \in 2 .. n : Owner(k - 1, s) = g /\ Owner(k, s) \notin {g, Nobody}
Collected(g, s, st) == Lost(g, s, st.cfg) /\ st.leaving[s] = None

\* f owns s in a config before one in which h does.
Before(f, h, s) ==
    f # h /\ \E m \in 1 .. Len(Configs) : Owner(m, s) = h /\ \E n \in 1 .. m : Owner(n, s) = f

\* Write w is in the store of g at some time when g owns s.
Seen(T, C, g, s, w) == \E i \in 0 .. C[g] : Owns(g, T[g][i], s) /\ Has(T[g][i].store[s], w)

\* The data of s has every write seen at the owners before h.
Complete(T, C, h, s, data) ==
    \A f \in Group, w \in Write : Before(f, h, s) /\ Seen(T, C, f, s, w) => Has(data, w)

\* g has had s before its entry n.
Arrived(T, C, g, s, n) == \E j \in 0 .. C[g] : j < n /\ HadBy(g, s, T[g][j])

\* The group that s went to from g has had it.
Passed(T, C, g, s) ==
    \E h \in Group : (\E n \in 2 .. Len(Configs) : Gains(h, s, n, g)) /\ Arrived(T, C, h, s, C[h] + 1)

\* The clerk has had a config in which g owns s.
Asked(K, c, g, s) == \E m \in 1 .. K[c].cfg : Owner(m, s) = g

\* The duplicate table knows of nothing that was not seen where its clerk asked.
Known(T, C, K, dup) ==
    \A c \in Client : dup[c] # 0 =>
        \E f \in Group, s \in Shard : Asked(K, c, f, s) /\ Seen(T, C, f, s, [client |-> c, seq |-> dup[c]])

\* Of the clerk's writes w is not one to come, and the one in progress is to
\* the shard that the clerk says.
Fits(K, s, w) ==
    /\ w.seq <= K[w.client].seq
    /\ K[w.client].pc \in {"call", "wait"} /\ w.seq = K[w.client].seq => s = K[w.client].shard
FitsAll(K, s, data) == \A i \in DOMAIN data : Fits(K, s, data[i])

\* What leaves was lost, to that group.
LeavesLost(g, st) ==
    \A s \in Shard : st.leaving[s] # None =>
        \E k \in 2 .. st.cfg : Gains(st.leaving[s], s, k, g)

\* What holds of the states g went through, the entries of its log, and pulls.
KeptState(T, C, K, g, st) ==
    /\ LeavesLost(g, st)
    /\ Known(T, C, K, st.duplicateTable)
    /\ \A s \in Shard :
          /\ FitsAll(K, s, st.store[s])
          /\ HadBy(g, s, st) => Complete(T, C, g, s, st.store[s]) \/ Collected(g, s, st)
          /\ Collected(g, s, st) => Passed(T, C, g, s)
KeptOp(T, C, K, g, i, op) ==
    /\ op.type = "Write" => Fits(K, op.shard, WriteOf(op)) /\ Asked(K, op.client, g, op.shard)
    /\ op.type = "Migrate" =>
          /\ Known(T, C, K, op.dup) /\ FitsAll(K, op.shard, op.data)
          /\ Complete(T, C, g, op.shard, op.data) \/ Arrived(T, C, g, op.shard, i)
    /\ op.type = "GC" => Passed(T, C, g, op.shard)
KeptPull(T, C, K, g, p) ==
    p # None /\ p.step = "got" =>
        /\ Known(T, C, K, p.dup) /\ FitsAll(K, p.shard, p.data)
        /\ Complete(T, C, g, p.shard, p.data) \/ Arrived(T, C, g, p.shard, C[g] + 1)

\* What g has had it keeps, with what is in it, until it deletes it.
Lasts(g, s, st, new) ==
    HadBy(g, s, st) =>
        /\ HadBy(g, s, new)
        /\ \A w \in Write : Has(st.store[s], w) => Has(new.store[s], w) \/ Collected(g, s, new)
Lasting(T, C) ==
    \A g \in Group, s \in Shard : \A j \in 0 .. C[g] : \A i \in 0 .. j : Lasts(g, s, T[g][i], T[g][j])

\* T[g][i] is what the first i entries of g's log make of the empty state.
TraceOf(T, L, C) ==
    \A g \in Group : T[g][0] = EmptyKV /\ \A i \in 1 .. C[g] : T[g][i] = Applied(g, T[g][i - 1], L[g][i])

\* The parts of the invariant: the history, its states, what is on its way,
\* what clerks have returned from.
TracePart(T) ==
    /\ TraceOf(T, log, commit)
    /\ \A r \in Replica : /\ kv[r] = T[GroupOf[r]][applied[r]]
                          /\ snapshot[r].kv = T[GroupOf[r]][snapshot[r].index]
PastPart(T, L, C, last, K) ==
    /\ \A g \in Group : \A i \in 0 .. C[g] : GoodState(L, C, last, g, i, T[g][i]) /\ KeptState(T, C, K, g, T[g][i])
    /\ Lasting(T, C)
ComingPart(T, L, C, K, P, G) ==
    /\ \A g \in Group : \A i \in 1 .. Len(L[g]) : KeptOp(T, C, K, g, i, L[g][i])
    /\ \A r \in Replica : KeptPull(T, C, K, GroupOf[r], P[r])
    /\ \A r \in Replica : G[r] # None => Passed(T, C, GroupOf[r], G[r])
AckedPart(T, C, A) ==
    \A w \in A : \E f \in Group : Seen(T, C, f, w.shard, [client |-> w.client, seq |-> w.seq])

Trace == [Group -> [Nat -> KV]]
HistOf(T) ==
    /\ TracePart(T) /\ PastPart(T, log, commit, latest, clerk)
    /\ ComingPart(T, log, commit, clerk, pull, gc) /\ AckedPart(T, commit, acked)
HistInv == \E T \in Trace : HistOf(T)

\* Under Orderly, a group that owns a shard in two configs owns it between.
LEMMA OwnsBetween ==
    ASSUME Orderly, NEW s \in Shard, NEW i \in 1 .. Len(Configs), NEW k \in 1 .. Len(Configs),
           NEW j \in Nat, i <= j, j <= k, Owner(i, s) = Owner(k, s)
    PROVE  Owner(j, s) = Owner(i, s)
<1>1. Len(Configs) \in Nat
    BY ConfigsNat
<1>2. j \in 1 .. Len(Configs)
    BY <1>1
<1>3. CASE j = i \/ j = k
    BY <1>3
<1>4. CASE j # i /\ j # k
    <2>1. i < j /\ j < k
        BY <1>1, <1>4
    <2> QED BY <1>2, <2>1 DEF Orderly
<1> QED BY <1>3, <1>4

\* Under Orderly, a group that has lost a shard does not own it any more.
LEMMA LostForGood ==
    ASSUME Orderly, NEW g \in Group, NEW s \in Shard, NEW n \in Nat, NEW m \in 1 .. Len(Configs), n <= m,
           Lost(g, s, n)
    PROVE  Owner(m, s) # g
<1>1. PICK k \in 2 .. n : Owner(k - 1, s) = g /\ Owner(k, s) \notin {g, Nobody}
    BY DEF Lost
<1>2. Len(Configs) \in Nat
    BY ConfigsNat
<1>3. k - 1 \in 1 .. Len(Configs) /\ k \in Nat /\ k - 1 <= k /\ k <= m
    BY <1>2
<1> QED BY <1>1, <1>3, OwnsBetween

\* What is lost stays lost.
LEMMA LostGrows ==
    ASSUME NEW g, NEW s, NEW m \in Nat, NEW n \in Nat, m <= n, Lost(g, s, m)
    PROVE  Lost(g, s, n)
<1>1. PICK k \in 2 .. m : Owner(k - 1, s) = g /\ Owner(k, s) \notin {g, Nobody}
    BY DEF Lost
<1>2. k \in 2 .. n
    OBVIOUS
<1> QED BY <1>1, <1>2 DEF Lost

\* What is appended is there, and what was there.
LEMMA HasAppend ==
    ASSUME NEW q \in Seq(Write), NEW x \in Write
    PROVE  /\ Has(Append(q, x), x)
           /\ \A w \in Write : Has(q, w) => Has(Append(q, x), w)
<1>1. Len(q) \in Nat /\ DOMAIN q = 1 .. Len(q)
    BY LenProperties
<1>2. /\ Append(q, x) \in Seq(Write) /\ Len(Append(q, x)) = Len(q) + 1
      /\ \A i \in 1 .. Len(q) : Append(q, x)[i] = q[i]
      /\ Append(q, x)[Len(q) + 1] = x
    BY AppendProperties
<1>3. DOMAIN Append(q, x) = 1 .. Len(q) + 1
    BY <1>2, LenProperties
<1>4. Len(q) + 1 \in 1 .. Len(q) + 1 /\ \A i \in 1 .. Len(q) : i \in 1 .. Len(q) + 1
    BY <1>1
<1> QED BY <1>1, <1>2, <1>3, <1>4 DEF Has

\* The configs of a replica never go back.
LEMMA AppliedCfg ==
    ASSUME NEW g \in Group, NEW st \in KV, NEW op \in Op
    PROVE  LET new == Applied(g, st, op) IN
           new \in KV /\ st.cfg \in Nat /\ new.cfg \in Nat /\ st.cfg <= new.cfg /\ new.cfg <= Len(Configs)
<1>1. /\ Applied(g, st, op) \in KV
      /\ Applied(g, st, op).cfg = IF op.type = "Config" /\ op.num = st.cfg + 1 THEN op.num ELSE st.cfg
    BY AppliedFields
<1> DEFINE new == Applied(g, st, op)
<1> HIDE DEF new
<1>2. new \in KV /\ (new.cfg = st.cfg \/ new.cfg = st.cfg + 1)
    BY <1>1 DEF new
<1>3. st.cfg \in Nat /\ new.cfg \in Nat /\ new.cfg \in 0 .. Len(Configs)
    BY <1>2, KVFields
<1>4. st.cfg <= new.cfg /\ new.cfg <= Len(Configs)
    BY <1>2, <1>3, ConfigsNat
<1> QED BY <1>2, <1>3, <1>4 DEF new

\* Under Orderly, what a group has had it does not come to miss again.
LEMMA HadStep ==
    ASSUME Orderly, NEW g \in Group, NEW st \in KV, NEW op \in Op, NEW s \in Shard, HadBy(g, s, st)
    PROVE  HadBy(g, s, Applied(g, st, op))
<1> DEFINE new == Applied(g, st, op)
<1>1. new \in KV /\ st.cfg \in Nat /\ new.cfg \in Nat /\ st.cfg <= new.cfg /\ new.cfg <= Len(Configs)
    BY AppliedCfg
<1>2. PICK i \in 1 .. st.cfg : Owner(i, s) = g
    BY DEF HadBy
<1>3. st.migrating[s] = None /\ i \in 1 .. new.cfg
    BY <1>1 DEF HadBy
<1>4. new.migrating[s] = None
    <2>1. CASE op.type \notin {"Config", "Migrate"}
        <3>1. new.migrating = st.migrating
            BY <2>1, AppliedFields
        <3> HIDE DEF new
        <3> QED BY <1>3, <3>1
    <2>2. CASE op.type = "Migrate"
        <3>1. new.migrating[s] = IF s = op.shard THEN None ELSE st.migrating[s]
            BY <2>2, AppliedFields
        <3> HIDE DEF new
        <3> QED BY <1>3, <3>1
    <2>3. CASE op.type = "Config" /\ op.num # st.cfg + 1
        <3>1. new = st
            BY <2>3, AppliedFields
        <3> HIDE DEF new
        <3> QED BY <1>3, <3>1
    <2>4. CASE op.type = "Config" /\ op.num = st.cfg + 1
        <3>1. new.migrating[s] = IF Owner(op.num, s) = g /\ Owner(st.cfg, s) \notin {g, Nobody}
                                 THEN Owner(st.cfg, s) ELSE st.migrating[s]
            BY <2>4, AppliedFields
        <3>2. op.num \in 1 .. Len(Configs) /\ Len(Configs) \in Nat
            BY <2>4, OpFields, ConfigsNat
        <3> HIDE DEF new
        <3>3. ASSUME Owner(op.num, s) = g PROVE Owner(st.cfg, s) = g
            <4>1. i \in 1 .. Len(Configs) /\ i <= st.cfg /\ st.cfg <= op.num
                BY <1>1, <2>4, <3>2
            <4> QED BY <1>1, <1>2, <3>2, <3>3, <4>1, OwnsBetween
        <3> QED BY <1>3, <3>1, <3>3
    <2> QED BY <2>1, <2>2, <2>3, <2>4
<1> QED BY <1>2, <1>3, <1>4 DEF HadBy

\* What leaves has been lost.
LEMMA LeavingLost ==
    ASSUME NEW g \in Group, NEW st \in KV, LeavesLost(g, st), NEW s \in Shard, st.leaving[s] # None
    PROVE  Lost(g, s, st.cfg) /\ \E n \in 2 .. Len(Configs) : Gains(st.leaving[s], s, n, g)
<1>1. PICK k \in 2 .. st.cfg : Gains(st.leaving[s], s, k, g)
    BY DEF LeavesLost
<1>2. st.leaving[s] \in Group
    BY KVFields
<1>3. k \in 2 .. Len(Configs) /\ Owner(k, s) = st.leaving[s] /\ g = Owner(k - 1, s) /\ g # st.leaving[s]
    BY <1>1 DEF Gains
<1>4. Owner(k - 1, s) = g /\ Owner(k, s) \notin {g, Nobody}
    BY <1>2, <1>3, GroupAssumption
<1> QED BY <1>1, <1>3, <1>4 DEF Lost

\* What an entry does to the data of a shard.
LEMMA AppliedStore ==
    ASSUME NEW g \in Group, NEW st \in KV, NEW op \in Op, NEW s \in Shard
    PROVE  LET new == Applied(g, st, op) IN
           \/ new.store[s] = st.store[s]
           \/ /\ op.type = "Migrate" /\ s = op.shard /\ st.migrating[s] # None
              /\ new.store[s] = op.data
           \/ /\ op.type = "GC" /\ s = op.shard /\ st.leaving[s] # None
              /\ new.store[s] = <<>> /\ new.leaving[s] = None /\ new.cfg = st.cfg
           \/ /\ op.type = "Write" /\ s = op.shard /\ Owns(g, st, s) /\ IsNew(st, op)
              /\ new.store[s] = Append(st.store[s], WriteOf(op))
<1> DEFINE new == Applied(g, st, op)
<1>1. CASE new = st
    BY <1>1
<1>2. CASE op.type = "Config" /\ op.num = st.cfg + 1 /\ new = ApplyConfig(g, st, op.num)
    <2>1. op.num \in 1 .. Len(Configs)
        BY <1>2, OpFields
    <2>2. new.store = st.store
        BY <1>2, <2>1, ApplyConfigFields
    <2> HIDE DEF new
    <2> QED BY <2>2 DEF new
<1>3. CASE op.type = "Migrate" /\ st.migrating[op.shard] # None /\ new = ApplyMigrate(st, op)
    <2>1. new.store[s] = IF s = op.shard /\ op.data # <<>> THEN op.data ELSE st.store[s]
        BY <1>3, ApplyMigrateFields
    <2> HIDE DEF new
    <2> QED BY <1>3, <2>1 DEF new
<1>4. CASE op.type = "GC" /\ st.leaving[op.shard] # None /\ new = ApplyGC(st, op)
    <2>1. /\ new.cfg = st.cfg
          /\ new.store[s] = IF s = op.shard THEN <<>> ELSE st.store[s]
          /\ new.leaving[s] = IF s = op.shard THEN None ELSE st.leaving[s]
        BY <1>4, ApplyGCFields
    <2> HIDE DEF new
    <2> QED BY <1>4, <2>1 DEF new
<1>5. CASE op.type = "Write" /\ Owns(g, st, op.shard) /\ IsNew(st, op) /\ new = ApplyWrite(g, st, op)
    <2>1. /\ new.duplicateTable = [st.duplicateTable EXCEPT ![op.client] = op.seq]
          /\ \A x \in Shard : new.store[x] = IF x = op.shard THEN Append(st.store[x], WriteOf(op)) ELSE st.store[x]
        BY <1>5, ApplyWriteFields
    <2> HIDE DEF new
    <2> QED BY <1>5, <2>1 DEF new
<1> HIDE DEF new
<1>6. \/ new = st
      \/ op.type = "Config" /\ op.num = st.cfg + 1 /\ new = ApplyConfig(g, st, op.num)
      \/ op.type = "Migrate" /\ st.migrating[op.shard] # None /\ new = ApplyMigrate(st, op)
      \/ op.type = "GC" /\ st.leaving[op.shard] # None /\ new = ApplyGC(st, op)
      \/ op.type = "Write" /\ Owns(g, st, op.shard) /\ IsNew(st, op) /\ new = ApplyWrite(g, st, op)
    BY AppliedCases DEF new
<1> QED BY <1>1, <1>2, <1>3, <1>4, <1>5, <1>6 DEF new

\* What it does to the mark that the shard leaves.
LEMMA AppliedLeaving ==
    ASSUME NEW g \in Group, NEW st \in KV, NEW op \in Op, NEW s \in Shard
    PROVE  LET new == Applied(g, st, op) IN
           \/ new.leaving[s] = st.leaving[s] /\ new.cfg = st.cfg
           \/ /\ op.type = "Config" /\ new.cfg = op.num /\ op.num = st.cfg + 1
              /\ new.leaving[s] = IF Owner(st.cfg, s) = g /\ Owner(op.num, s) \notin {g, Nobody}
                                  THEN Owner(op.num, s) ELSE st.leaving[s]
           \/ /\ op.type = "GC" /\ s = op.shard /\ st.leaving[s] # None
              /\ new.leaving[s] = None /\ new.cfg = st.cfg
<1> DEFINE new == Applied(g, st, op)
<1>1. CASE new = st
    BY <1>1
<1>2. CASE op.type = "Config" /\ op.num = st.cfg + 1 /\ new = ApplyConfig(g, st, op.num)
    <2>1. op.num \in 1 .. Len(Configs)
        BY <1>2, OpFields
    <2>2. /\ new.cfg = op.num
          /\ new.leaving[s] = IF Owner(st.cfg, s) = g /\ Owner(op.num, s) \notin {g, Nobody}
                              THEN Owner(op.num, s) ELSE st.leaving[s]
        BY <1>2, <2>1, ApplyConfigFields
    <2> HIDE DEF new
    <2> QED BY <1>2, <2>2 DEF new
<1>3. CASE op.type = "Migrate" /\ st.migrating[op.shard] # None /\ new = ApplyMigrate(st, op)
    <2>1. new.cfg = st.cfg /\ new.leaving = st.leaving
        BY <1>3, ApplyMigrateFields
    <2> HIDE DEF new
    <2> QED BY <2>1 DEF new
<1>4. CASE op.type = "GC" /\ st.leaving[op.shard] # None /\ new = ApplyGC(st, op)
    <2>1. /\ new.cfg = st.cfg
          /\ new.leaving[s] = IF s = op.shard THEN None ELSE st.leaving[s]
        BY <1>4, ApplyGCFields
    <2> HIDE DEF new
    <2> QED BY <1>4, <2>1 DEF new
<1>5. CASE op.type = "Write" /\ Owns(g, st, op.shard) /\ IsNew(st, op) /\ new = ApplyWrite(g, st, op)
    <2>1. /\ new \in KV /\ new.cfg = st.cfg /\ new.migrating = st.migrating /\ new.leaving = st.leaving
          /\ new.duplicateTable = [st.duplicateTable EXCEPT ![op.client] = op.seq]
        BY <1>5, ApplyWriteFields
    <2> HIDE DEF new
    <2> QED BY <2>1 DEF new
<1> HIDE DEF new
<1>6. \/ new = st
      \/ op.type = "Config" /\ op.num = st.cfg + 1 /\ new = ApplyConfig(g, st, op.num)
      \/ op.type = "Migrate" /\ st.migrating[op.shard] # None /\ new = ApplyMigrate(st, op)
      \/ op.type = "GC" /\ st.leaving[op.shard] # None /\ new = ApplyGC(st, op)
      \/ op.type = "Write" /\ Owns(g, st, op.shard) /\ IsNew(st, op) /\ new = ApplyWrite(g, st, op)
    BY AppliedCases DEF new
<1> QED BY <1>1, <1>2, <1>3, <1>4, <1>5, <1>6 DEF new

\* What it does to the duplicate table.
LEMMA AppliedDup ==
    ASSUME NEW g \in Group, NEW st \in KV, NEW op \in Op
    PROVE  LET new == Applied(g, st, op) IN
           \/ new.duplicateTable = st.duplicateTable
           \/ op.type = "Migrate" /\ new.duplicateTable = MergeDup(st.duplicateTable, op.dup)
           \/ /\ op.type = "Write" /\ Owns(g, st, op.shard) /\ IsNew(st, op)
              /\ new.duplicateTable = [st.duplicateTable EXCEPT ![op.client] = op.seq]
              /\ new.cfg = st.cfg /\ new.migrating = st.migrating
              /\ new.store[op.shard] = Append(st.store[op.shard], WriteOf(op))
<1> DEFINE new == Applied(g, st, op)
<1>1. CASE new = st
    BY <1>1
<1>2. CASE op.type = "Config" /\ op.num = st.cfg + 1 /\ new = ApplyConfig(g, st, op.num)
    <2>1. op.num \in 1 .. Len(Configs)
        BY <1>2, OpFields
    <2>2. new.duplicateTable = st.duplicateTable
        BY <1>2, <2>1, ApplyConfigFields
    <2> HIDE DEF new
    <2> QED BY <2>2 DEF new
<1>3. CASE op.type = "Migrate" /\ st.migrating[op.shard] # None /\ new = ApplyMigrate(st, op)
    <2>1. new.duplicateTable = MergeDup(st.duplicateTable, op.dup)
        BY <1>3, ApplyMigrateFields
    <2> HIDE DEF new
    <2> QED BY <1>3, <2>1 DEF new
<1>4. CASE op.type = "GC" /\ st.leaving[op.shard] # None /\ new = ApplyGC(st, op)
    <2>1. new.duplicateTable = st.duplicateTable
        BY <1>4, ApplyGCFields
    <2> HIDE DEF new
    <2> QED BY <2>1 DEF new
<1>5. CASE op.type = "Write" /\ Owns(g, st, op.shard) /\ IsNew(st, op) /\ new = ApplyWrite(g, st, op)
    <2>0. op.shard \in Shard
        BY <1>5, OpFields
    <2>1. /\ new.cfg = st.cfg /\ new.migrating = st.migrating
          /\ new.duplicateTable = [st.duplicateTable EXCEPT ![op.client] = op.seq]
          /\ \A x \in Shard : new.store[x] = IF x = op.shard THEN Append(st.store[x], WriteOf(op)) ELSE st.store[x]
        BY <1>5, ApplyWriteFields
    <2> HIDE DEF new
    <2> QED BY <1>5, <2>0, <2>1 DEF new
<1> HIDE DEF new
<1>6. \/ new = st
      \/ op.type = "Config" /\ op.num = st.cfg + 1 /\ new = ApplyConfig(g, st, op.num)
      \/ op.type = "Migrate" /\ st.migrating[op.shard] # None /\ new = ApplyMigrate(st, op)
      \/ op.type = "GC" /\ st.leaving[op.shard] # None /\ new = ApplyGC(st, op)
      \/ op.type = "Write" /\ Owns(g, st, op.shard) /\ IsNew(st, op) /\ new = ApplyWrite(g, st, op)
    BY AppliedCases DEF new
<1> QED BY <1>1, <1>2, <1>3, <1>4, <1>5, <1>6 DEF new

\* It stays so.
LEMMA LeavesLostStep ==
    ASSUME NEW g \in Group, NEW st \in KV, NEW op \in Op, LeavesLost(g, st)
    PROVE  LeavesLost(g, Applied(g, st, op))
<1> DEFINE new == Applied(g, st, op)
<1>1. new \in KV /\ st.cfg \in Nat /\ new.cfg \in Nat /\ st.cfg <= new.cfg /\ new.cfg <= Len(Configs)
    BY AppliedCfg
<1>2. SUFFICES ASSUME NEW s \in Shard, new.leaving[s] # None
               PROVE  \E k \in 2 .. new.cfg : Gains(new.leaving[s], s, k, g)
    BY DEF LeavesLost
<1>3. \/ new.leaving[s] = st.leaving[s]
      \/ /\ op.type = "Config" /\ new.cfg = op.num /\ op.num = st.cfg + 1
         /\ Owner(st.cfg, s) = g /\ Owner(op.num, s) \notin {g, Nobody} /\ new.leaving[s] = Owner(op.num, s)
    <2>1. \/ new.leaving[s] = st.leaving[s] /\ new.cfg = st.cfg
          \/ /\ op.type = "Config" /\ new.cfg = op.num /\ op.num = st.cfg + 1
             /\ new.leaving[s] = IF Owner(st.cfg, s) = g /\ Owner(op.num, s) \notin {g, Nobody}
                                 THEN Owner(op.num, s) ELSE st.leaving[s]
          \/ new.leaving[s] = None
        BY AppliedLeaving
    <2> HIDE DEF new
    <2> QED BY <1>2, <2>1
<1> HIDE DEF new
<1>4. CASE new.leaving[s] = st.leaving[s]
    <2>1. PICK k \in 2 .. st.cfg : Gains(st.leaving[s], s, k, g)
        BY <1>2, <1>4 DEF LeavesLost
    <2>2. k \in 2 .. new.cfg
        BY <1>1
    <2> QED BY <1>4, <2>1, <2>2
<1>5. CASE /\ op.type = "Config" /\ new.cfg = op.num /\ op.num = st.cfg + 1
           /\ Owner(st.cfg, s) = g /\ Owner(op.num, s) \notin {g, Nobody} /\ new.leaving[s] = Owner(op.num, s)
    <2>1. st.cfg # 0
        BY <1>5, GroupAssumption DEF Owner
    <2>2. op.num \in 2 .. new.cfg /\ op.num \in 2 .. Len(Configs) /\ op.num - 1 = st.cfg
        BY <1>1, <1>5, <2>1, ConfigsNat
    <2>3. Gains(new.leaving[s], s, op.num, g)
        BY <1>5, <2>2, GroupAssumption DEF Gains
    <2> QED BY <2>2, <2>3
<1> QED BY <1>3, <1>4, <1>5

\* Under Orderly, what is deleted stays so.
LEMMA CollectedStep ==
    ASSUME Orderly, NEW g \in Group, NEW st \in KV, NEW op \in Op, NEW s \in Shard, Collected(g, s, st)
    PROVE  Collected(g, s, Applied(g, st, op))
<1> DEFINE new == Applied(g, st, op)
<1>1. new \in KV /\ st.cfg \in Nat /\ new.cfg \in Nat /\ st.cfg <= new.cfg /\ new.cfg <= Len(Configs)
    BY AppliedCfg
<1>2. Lost(g, s, st.cfg) /\ st.leaving[s] = None
    BY DEF Collected
<1>3. Lost(g, s, new.cfg)
    <2> HIDE DEF new
    <2> QED BY <1>1, <1>2, LostGrows
<1>4. Owner(st.cfg, s) # g
    <2>1. st.cfg \in 0 .. Len(Configs) /\ Len(Configs) \in Nat
        BY KVFields, ConfigsNat
    <2>2. CASE st.cfg = 0
        BY <2>2, GroupAssumption DEF Owner
    <2>3. CASE st.cfg # 0
        <3>1. st.cfg \in 1 .. Len(Configs) /\ st.cfg <= st.cfg
            BY <1>1, <2>1, <2>3
        <3> QED BY <1>1, <1>2, <3>1, LostForGood
    <2> QED BY <2>2, <2>3
<1>5. new.leaving[s] = None
    BY <1>2, <1>4, AppliedLeaving
<1> QED BY <1>3, <1>5 DEF Collected

\* A GC deletes what has been lost, a write adds, a pulled shard replaces only
\* what was missing.
LEMMA LastsStep ==
    ASSUME Orderly, NEW g \in Group, NEW st \in KV, NEW op \in Op, NEW s \in Shard, LeavesLost(g, st)
    PROVE  Lasts(g, s, st, Applied(g, st, op))
<1> DEFINE new == Applied(g, st, op)
<1>1. SUFFICES ASSUME HadBy(g, s, st), NEW w \in Write, Has(st.store[s], w)
               PROVE  Has(new.store[s], w) \/ Collected(g, s, new)
    <2>1. HadBy(g, s, st) => HadBy(g, s, new)
        BY HadStep
    <2> HIDE DEF new
    <2> QED BY <2>1 DEF Lasts, new
<1>2. \/ new.store[s] = st.store[s]
      \/ st.migrating[s] # None
      \/ st.leaving[s] # None /\ new.leaving[s] = None /\ new.cfg = st.cfg
      \/ op.type = "Write" /\ new.store[s] = Append(st.store[s], WriteOf(op))
    BY AppliedStore
<1> HIDE DEF new
<1>3. st.migrating[s] = None
    BY <1>1 DEF HadBy
<1>4. CASE st.leaving[s] # None /\ new.leaving[s] = None /\ new.cfg = st.cfg
    <2>1. Lost(g, s, st.cfg)
        BY <1>4, LeavingLost
    <2> QED BY <1>4, <2>1 DEF Collected
<1>5. CASE op.type = "Write" /\ new.store[s] = Append(st.store[s], WriteOf(op))
    <2>1. WriteOf(op) \in Write
        BY <1>5, OpFields DEF Write, WriteOf
    <2>2. st.store[s] \in Seq(Write)
        BY KVFields
    <2>3. Has(Append(st.store[s], WriteOf(op)), w)
        BY <1>1, <2>1, <2>2, HasAppend
    <2> QED BY <1>5, <2>3
<1> QED BY <1>1, <1>2, <1>3, <1>4, <1>5

(***************************************************************************)
(* What stays when the histories grow.                                     *)
(***************************************************************************)

\* History U with commit indices D continues T with C.
Extends(T, C, U, D) ==
    \A g \in Group : /\ C[g] \in Nat /\ D[g] \in Nat /\ C[g] <= D[g]
                     /\ \A i \in 0 .. C[g] : U[g][i] = T[g][i]

\* What was seen was seen.
LEMMA SeenGrows ==
    ASSUME NEW T, NEW C, NEW U, NEW D, Extends(T, C, U, D), NEW g \in Group, NEW s, NEW w,
           Seen(T, C, g, s, w)
    PROVE  Seen(U, D, g, s, w)
<1>1. PICK i \in 0 .. C[g] : Owns(g, T[g][i], s) /\ Has(T[g][i].store[s], w)
    BY DEF Seen
<1>2. C[g] \in Nat /\ D[g] \in Nat /\ C[g] <= D[g] /\ U[g][i] = T[g][i]
    BY DEF Extends
<1>3. i \in 0 .. D[g]
    BY <1>2
<1> QED BY <1>1, <1>2, <1>3 DEF Seen

\* What has arrived has arrived.
LEMMA ArrivedGrows ==
    ASSUME NEW T, NEW C, NEW U, NEW D, Extends(T, C, U, D), NEW g \in Group, NEW s,
           NEW m \in Nat, NEW n \in Nat, m <= n, Arrived(T, C, g, s, m)
    PROVE  Arrived(U, D, g, s, n)
<1>1. PICK j \in 0 .. C[g] : j < m /\ HadBy(g, s, T[g][j])
    BY DEF Arrived
<1>2. C[g] \in Nat /\ D[g] \in Nat /\ C[g] <= D[g] /\ U[g][j] = T[g][j]
    BY DEF Extends
<1>3. j \in 0 .. D[g] /\ j < n
    BY <1>1, <1>2
<1> QED BY <1>1, <1>2, <1>3 DEF Arrived

\* What has been passed on has been passed on.
LEMMA PassedGrows ==
    ASSUME NEW T, NEW C, NEW U, NEW D, Extends(T, C, U, D), NEW g, NEW s, Passed(T, C, g, s)
    PROVE  Passed(U, D, g, s)
<1>1. PICK h \in Group : (\E n \in 2 .. Len(Configs) : Gains(h, s, n, g)) /\ Arrived(T, C, h, s, C[h] + 1)
    BY DEF Passed
<1>2. C[h] + 1 \in Nat /\ D[h] + 1 \in Nat /\ C[h] + 1 <= D[h] + 1
    BY DEF Extends
<1>3. Arrived(U, D, h, s, D[h] + 1)
    BY <1>1, <1>2, ArrivedGrows
<1> QED BY <1>1, <1>3 DEF Passed

\* What the table knows of was seen.
LEMMA KnownGrows ==
    ASSUME NEW T, NEW C, NEW U, NEW D, Extends(T, C, U, D), NEW K, NEW dup, Known(T, C, K, dup)
    PROVE  Known(U, D, K, dup)
BY SeenGrows DEF Known

\* Under Orderly, an owner of s before h that is past its configs does not own
\* the shard in any later state.
LEMMA LeftForGood ==
    ASSUME Orderly, NEW L, NEW C, NEW f \in Group, NEW h \in Group, NEW s \in Shard,
           Before(f, h, s), Ready(L, C, h, s), C[f] \in Nat,
           NEW i \in Nat, C[f] <= i, NEW st \in KV, FollowsLog(L[f], i, st)
    PROVE  ~Owns(f, st, s)
<1> SUFFICES ASSUME Owns(f, st, s) PROVE FALSE
    OBVIOUS
<1>1. PICK m \in 1 .. Len(Configs) : f # h /\ Owner(m, s) = h /\ \E n \in 1 .. m : Owner(n, s) = f
    BY DEF Before
<1>2. PICK n \in 1 .. m : Owner(n, s) = f
    BY <1>1
<1>3. PICK x \in 0 .. Len(Configs) : x = st.cfg
    BY KVFields
<1>4. Len(Configs) \in Nat
    BY ConfigsNat
<1>5. Owner(x, s) = f /\ x # 0
    BY <1>3, GroupAssumption DEF Owns, Owner
<1>6. x \in 1 .. Len(Configs) /\ n \in 1 .. Len(Configs)
    BY <1>3, <1>4, <1>5
<1>7. ~(m <= x)
    <2>1. ASSUME m <= x PROVE FALSE
        <3>1. Owner(m, s) = Owner(n, s)
            BY <1>2, <1>5, <1>6, <2>1, OwnsBetween
        <3> QED BY <1>1, <1>2, <3>1
    <2> QED BY <2>1
<1>8. x \in 1 .. m /\ Owner(x, s) \notin {h, Nobody}
    BY <1>1, <1>4, <1>5, <1>6, <1>7, GroupAssumption
<1>9. Past(L, C, f, x + 1)
    BY <1>1, <1>5, <1>8 DEF Ready
<1>10. PICK k \in 1 .. C[f] : IsConfig(L[f][k], x + 1)
    BY <1>9 DEF Past
<1>11. k \in 1 .. i
    OBVIOUS
<1>12. x + 1 <= x
    BY <1>3, <1>10, <1>11 DEF FollowsLog, IsConfig
<1> QED BY <1>6, <1>12

\* The longer history follows the logs too.
Continues(L, T, C, U, D) ==
    /\ Grows(L, C, L, D) /\ Extends(T, C, U, D)
    /\ \A g \in Group : \A i \in 0 .. D[g] : U[g][i] \in KV /\ FollowsLog(L[g], i, U[g][i])

\* Nothing more is seen at the owners before one that is Ready.
LEMMA CompleteGrows ==
    ASSUME Orderly, NEW L, NEW T, NEW C, NEW U, NEW D, Continues(L, T, C, U, D),
           NEW h \in Group, NEW s \in Shard, Ready(L, C, h, s), NEW data, Complete(T, C, h, s, data)
    PROVE  Complete(U, D, h, s, data)
<1> SUFFICES ASSUME NEW f \in Group, NEW w \in Write, Before(f, h, s), Seen(U, D, f, s, w)
             PROVE  Has(data, w)
    BY DEF Complete
<1>1. PICK i \in 0 .. D[f] : Owns(f, U[f][i], s) /\ Has(U[f][i].store[s], w)
    BY DEF Seen
<1>2. /\ C[f] \in Nat /\ D[f] \in Nat /\ \A j \in 0 .. C[f] : U[f][j] = T[f][j]
      /\ U[f][i] \in KV /\ FollowsLog(L[f], i, U[f][i])
    BY DEF Continues, Extends
<1>3. CASE i <= C[f]
    <2>1. i \in 0 .. C[f]
        BY <1>2, <1>3
    <2>2. Seen(T, C, f, s, w)
        BY <1>1, <1>2, <2>1 DEF Seen
    <2> QED BY <2>2 DEF Complete
<1>4. CASE ~(i <= C[f])
    <2>1. i \in Nat /\ C[f] <= i
        BY <1>2, <1>4
    <2> QED BY <1>1, <1>2, <2>1, LeftForGood
<1> QED BY <1>3, <1>4

\* A state keeps what it has.
LEMMA KeptStateGrows ==
    ASSUME Orderly, NEW L, NEW T, NEW C, NEW U, NEW D, Continues(L, T, C, U, D), NEW K,
           NEW g \in Group, NEW st, HasGot(L, C, g, st), KeptState(T, C, K, g, st)
    PROVE  KeptState(U, D, K, g, st)
<1>1. Extends(T, C, U, D)
    BY DEF Continues
<1>2. LeavesLost(g, st) /\ Known(U, D, K, st.duplicateTable)
    BY <1>1, KnownGrows DEF KeptState
<1>3. ASSUME NEW s \in Shard
      PROVE  /\ FitsAll(K, s, st.store[s])
             /\ HadBy(g, s, st) => Complete(U, D, g, s, st.store[s]) \/ Collected(g, s, st)
             /\ Collected(g, s, st) => Passed(U, D, g, s)
    <2>1. /\ FitsAll(K, s, st.store[s])
          /\ HadBy(g, s, st) => Complete(T, C, g, s, st.store[s]) \/ Collected(g, s, st)
          /\ Collected(g, s, st) => Passed(T, C, g, s)
        BY DEF KeptState
    <2>2. HadBy(g, s, st) => Ready(L, C, g, s)
        BY DEF HasGot
    <2>3. HadBy(g, s, st) /\ Complete(T, C, g, s, st.store[s]) => Complete(U, D, g, s, st.store[s])
        BY <2>2, CompleteGrows
    <2>4. Passed(T, C, g, s) => Passed(U, D, g, s)
        BY <1>1, PassedGrows
    <2> QED BY <2>1, <2>3, <2>4
<1> QED BY <1>2, <1>3 DEF KeptState

\* An entry keeps what it has.
LEMMA KeptOpGrows ==
    ASSUME Orderly, NEW L, NEW T, NEW C, NEW U, NEW D, Continues(L, T, C, U, D), NEW K,
           NEW g \in Group, NEW i \in Nat, NEW op \in Op, KeptOp(T, C, K, g, i, op),
           op.type = "Migrate" => Ready(L, C, g, op.shard)
    PROVE  KeptOp(U, D, K, g, i, op)
<1>1. Extends(T, C, U, D)
    BY DEF Continues
<1>2. ASSUME op.type = "Migrate"
      PROVE  /\ Known(U, D, K, op.dup) /\ FitsAll(K, op.shard, op.data)
             /\ Complete(U, D, g, op.shard, op.data) \/ Arrived(U, D, g, op.shard, i)
    <2>1. /\ Known(T, C, K, op.dup) /\ FitsAll(K, op.shard, op.data)
          /\ Complete(T, C, g, op.shard, op.data) \/ Arrived(T, C, g, op.shard, i)
        BY <1>2 DEF KeptOp
    <2>2. op.shard \in Shard
        BY <1>2, OpFields
    <2>3. Complete(T, C, g, op.shard, op.data) => Complete(U, D, g, op.shard, op.data)
        BY <1>2, <2>2, CompleteGrows
    <2>4. Arrived(T, C, g, op.shard, i) => Arrived(U, D, g, op.shard, i)
        BY <1>1, ArrivedGrows
    <2> QED BY <1>1, <2>1, <2>3, <2>4, KnownGrows
<1>3. op.type = "GC" => Passed(U, D, g, op.shard)
    BY <1>1, PassedGrows DEF KeptOp
<1> QED BY <1>2, <1>3 DEF KeptOp

\* A pull keeps what it has.
LEMMA KeptPullGrows ==
    ASSUME Orderly, NEW L, NEW T, NEW C, NEW U, NEW D, Continues(L, T, C, U, D), NEW K,
           NEW g \in Group, NEW p \in PullType, KeptPull(T, C, K, g, p), GoodPull(L, C, g, p)
    PROVE  KeptPull(U, D, K, g, p)
<1> SUFFICES ASSUME p # None, p.step = "got"
             PROVE  /\ Known(U, D, K, p.dup) /\ FitsAll(K, p.shard, p.data)
                    /\ Complete(U, D, g, p.shard, p.data) \/ Arrived(U, D, g, p.shard, D[g] + 1)
    BY DEF KeptPull
<1>1. Extends(T, C, U, D)
    BY DEF Continues
<1>2. /\ Known(T, C, K, p.dup) /\ FitsAll(K, p.shard, p.data)
      /\ Complete(T, C, g, p.shard, p.data) \/ Arrived(T, C, g, p.shard, C[g] + 1)
    BY DEF KeptPull
<1>3. p.shard \in Shard
    BY DEF PullType, AskType, GotType
<1>4. Ready(L, C, g, p.shard)
    BY DEF GoodPull
<1>5. Complete(T, C, g, p.shard, p.data) => Complete(U, D, g, p.shard, p.data)
    BY <1>3, <1>4, CompleteGrows
<1>6. C[g] + 1 \in Nat /\ D[g] + 1 \in Nat /\ C[g] + 1 <= D[g] + 1
    BY <1>1 DEF Extends
<1>7. Arrived(T, C, g, p.shard, C[g] + 1) => Arrived(U, D, g, p.shard, D[g] + 1)
    BY <1>1, <1>6, ArrivedGrows
<1> QED BY <1>1, <1>2, <1>5, <1>7, KnownGrows

(***************************************************************************)
(* The state after one more entry.                                         *)
(***************************************************************************)

\* The shards that a group comes to have: a missing one has arrived, or the
\* group is its first owner.
LEMMA NewlyHad ==
    ASSUME Orderly, NEW g \in Group, NEW st \in KV, NEW op \in Op, NEW s \in Shard,
           HadBy(g, s, Applied(g, st, op)), ~HadBy(g, s, st)
    PROVE  \/ op.type = "Migrate" /\ s = op.shard /\ st.migrating[s] # None
           \/ \A f \in Group : ~Before(f, g, s)
<1> DEFINE new == Applied(g, st, op)
<1>1. new \in KV /\ st.cfg \in Nat /\ new.cfg \in Nat /\ new.cfg <= Len(Configs) /\ Len(Configs) \in Nat
    BY AppliedCfg, ConfigsNat
<1>2. /\ new.cfg = IF op.type = "Config" /\ op.num = st.cfg + 1 THEN op.num ELSE st.cfg
      /\ op.type \notin {"Config", "Migrate"} => new.migrating = st.migrating
      /\ op.type = "Migrate" => new.migrating[s] = IF s = op.shard THEN None ELSE st.migrating[s]
      /\ op.type = "Config" /\ op.num = st.cfg + 1 =>
            new.migrating[s] = IF Owner(op.num, s) = g /\ Owner(st.cfg, s) \notin {g, Nobody}
                               THEN Owner(st.cfg, s) ELSE st.migrating[s]
      /\ op.type = "Config" /\ op.num # st.cfg + 1 => new = st
    BY AppliedFields
<1> HIDE DEF new
<1>3. HadBy(g, s, new)
    BY DEF new
<1>4. PICK i \in 1 .. new.cfg : Owner(i, s) = g
    BY <1>3 DEF HadBy
<1>5. new.migrating[s] = None
    BY <1>3 DEF HadBy
<1>6. CASE op.type = "Config" /\ op.num = st.cfg + 1
    <2>1. Owner(st.cfg, s) \in Group \cup {Nobody}
        BY KVFields, OwnerType
    <2>2. st.migrating[s] = None /\ ~(Owner(op.num, s) = g /\ Owner(st.cfg, s) \notin {g, Nobody})
        BY <1>2, <1>5, <1>6, <2>1, GroupAssumption
    <2>3. i \notin 1 .. st.cfg
        BY <1>4, <2>2 DEF HadBy
    <2>4. new.cfg = st.cfg + 1
        BY <1>2, <1>6
    <2>5. i = st.cfg + 1 /\ i \in 1 .. Len(Configs) /\ i - 1 = st.cfg
        BY <1>1, <2>3, <2>4
    <2>6. Owner(st.cfg, s) \in {g, Nobody}
        BY <1>4, <1>6, <2>2, <2>5
    <2>7. i = 1 \/ Owner(i - 1, s) = Nobody
        <3>1. ASSUME st.cfg # 0, Owner(st.cfg, s) = g PROVE FALSE
            <4>1. st.cfg \in 1 .. st.cfg
                BY <1>1, <3>1
            <4> QED BY <2>2, <3>1, <4>1 DEF HadBy
        <3> QED BY <1>1, <2>5, <2>6, <3>1
    <2>8. \A k \in 1 .. Len(Configs) : Owner(k, s) = g => \A j \in 1 .. k : Owner(j, s) \in {g, Nobody}
        BY <1>4, <2>5, <2>7, FirstOwner
    <2>9. ASSUME NEW f \in Group, Before(f, g, s) PROVE FALSE
        <3>1. f \in {g, Nobody} /\ f # g
            BY <2>8, <2>9 DEF Before
        <3> QED BY <3>1, GroupAssumption
    <2> QED BY <2>9
<1>7. CASE ~(op.type = "Config" /\ op.num = st.cfg + 1)
    <2>1. new.cfg = st.cfg
        BY <1>2, <1>7
    <2>2. st.migrating[s] # None
        BY <1>4, <2>1 DEF HadBy
    <2> QED BY <1>2, <1>5, <1>7, <2>2
<1> QED BY <1>6, <1>7

\* A shard is newly deleted by a GC only.
LEMMA NewlyCollected ==
    ASSUME NEW g \in Group, NEW st \in KV, NEW op \in Op, NEW s \in Shard,
           Collected(g, s, Applied(g, st, op)), ~Collected(g, s, st)
    PROVE  op.type = "GC" /\ s = op.shard
<1> DEFINE new == Applied(g, st, op)
<1>1. \/ new.leaving[s] = st.leaving[s] /\ new.cfg = st.cfg
      \/ /\ op.type = "Config" /\ new.cfg = op.num /\ op.num = st.cfg + 1
         /\ new.leaving[s] = IF Owner(st.cfg, s) = g /\ Owner(op.num, s) \notin {g, Nobody}
                             THEN Owner(op.num, s) ELSE st.leaving[s]
      \/ op.type = "GC" /\ s = op.shard
    BY AppliedLeaving
<1>2. Lost(g, s, new.cfg) /\ new.leaving[s] = None
    BY DEF Collected
<1> HIDE DEF new
<1>3. ~(Lost(g, s, st.cfg) /\ st.leaving[s] = None)
    BY DEF Collected
<1>4. ASSUME /\ op.type = "Config" /\ new.cfg = op.num /\ op.num = st.cfg + 1
             /\ new.leaving[s] = IF Owner(st.cfg, s) = g /\ Owner(op.num, s) \notin {g, Nobody}
                                 THEN Owner(op.num, s) ELSE st.leaving[s]
      PROVE FALSE
    <2>1. op.num \in 0 .. Len(Configs) /\ st.cfg \in Nat
        BY <1>4, OpFields, KVFields, ConfigsNat
    <2>2. ~(Owner(st.cfg, s) = g /\ Owner(op.num, s) \notin {g, Nobody}) /\ st.leaving[s] = None
        BY <1>2, <1>4, <2>1, OwnerType, GroupAssumption
    <2>3. PICK k \in 2 .. new.cfg : Owner(k - 1, s) = g /\ Owner(k, s) \notin {g, Nobody}
        BY <1>2 DEF Lost
    <2>4. k # op.num
        <3>1. k = op.num => k - 1 = st.cfg
            BY <1>4, <2>1
        <3> QED BY <2>2, <2>3, <3>1
    <2>5. k \in 2 .. st.cfg
        BY <1>4, <2>1, <2>4
    <2> QED BY <1>3, <2>2, <2>3, <2>5 DEF Lost
<1> QED BY <1>1, <1>2, <1>3, <1>4

\* What the data of a shard has is complete if it has all that complete data
\* has.
LEMMA CompleteMore ==
    ASSUME NEW T, NEW C, NEW h, NEW s, NEW a, NEW b, Complete(T, C, h, s, a),
           \A w \in Write : Has(a, w) => Has(b, w)
    PROVE  Complete(T, C, h, s, b)
BY DEF Complete

\* The duplicate table after entry n + 1.
LEMMA KnownStep ==
    ASSUME NEW U, NEW D, NEW K, NEW g \in Group, NEW n \in Nat, D[g] = n + 1, NEW st \in KV, NEW op \in Op,
           U[g][n + 1] = Applied(g, st, op), Known(U, D, K, st.duplicateTable),
           op.type = "Migrate" => Known(U, D, K, op.dup),
           op.type = "Write" => Asked(K, op.client, g, op.shard)
    PROVE  Known(U, D, K, Applied(g, st, op).duplicateTable)
<1> DEFINE new == Applied(g, st, op)
<1>1. \/ new.duplicateTable = st.duplicateTable
      \/ op.type = "Migrate" /\ new.duplicateTable = MergeDup(st.duplicateTable, op.dup)
      \/ /\ op.type = "Write" /\ Owns(g, st, op.shard) /\ IsNew(st, op)
         /\ new.duplicateTable = [st.duplicateTable EXCEPT ![op.client] = op.seq]
         /\ new.cfg = st.cfg /\ new.migrating = st.migrating
         /\ new.store[op.shard] = Append(st.store[op.shard], WriteOf(op))
    BY AppliedDup
<1>2. U[g][n + 1] = new
    OBVIOUS
<1> SUFFICES Known(U, D, K, new.duplicateTable)
    OBVIOUS
<1> HIDE DEF new
<1>3. CASE op.type = "Migrate" /\ new.duplicateTable = MergeDup(st.duplicateTable, op.dup)
    <2>1. ASSUME NEW c \in Client PROVE new.duplicateTable[c] \in {st.duplicateTable[c], op.dup[c]}
        BY <1>3 DEF MergeDup
    <2>2. Known(U, D, K, op.dup)
        BY <1>3
    <2> QED BY <2>1, <2>2 DEF Known
<1>4. CASE /\ op.type = "Write" /\ Owns(g, st, op.shard) /\ IsNew(st, op)
           /\ new.duplicateTable = [st.duplicateTable EXCEPT ![op.client] = op.seq]
           /\ new.cfg = st.cfg /\ new.migrating = st.migrating
           /\ new.store[op.shard] = Append(st.store[op.shard], WriteOf(op))
    <2>1. op.shard \in Shard /\ op.client \in Client /\ op.seq \in 1 .. MaxSeq
        BY <1>4, OpFields
    <2>2. Owns(g, new, op.shard)
        BY <1>4 DEF Owns
    <2>3. WriteOf(op) \in Write /\ st.store[op.shard] \in Seq(Write)
        BY <2>1, KVFields DEF Write, WriteOf
    <2>4. Has(new.store[op.shard], WriteOf(op))
        BY <1>4, <2>3, HasAppend
    <2>5. n + 1 \in 0 .. D[g]
        OBVIOUS
    <2>6. Seen(U, D, g, op.shard, WriteOf(op))
        BY <1>2, <2>2, <2>4, <2>5 DEF Seen
    <2>7. ASSUME NEW c \in Client, new.duplicateTable[c] # 0
          PROVE  \E f \in Group, s \in Shard :
                    Asked(K, c, f, s) /\ Seen(U, D, f, s, [client |-> c, seq |-> new.duplicateTable[c]])
        <3>1. st.duplicateTable \in [Client -> 0 .. MaxSeq]
            BY KVFields
        <3>2. CASE c = op.client
            <4>1. new.duplicateTable[c] = op.seq
                BY <1>4, <3>1, <3>2
            <4>2. Seen(U, D, g, op.shard, [client |-> c, seq |-> new.duplicateTable[c]])
                BY <2>6, <3>2, <4>1 DEF WriteOf
            <4>3. Asked(K, c, g, op.shard)
                BY <1>4, <3>2
            <4> QED BY <2>1, <4>2, <4>3
        <3>3. CASE c # op.client
            <4>1. new.duplicateTable[c] = st.duplicateTable[c]
                BY <1>4, <3>1, <3>3
            <4> QED BY <2>7, <4>1 DEF Known
        <3> QED BY <3>2, <3>3
    <2> QED BY <2>7 DEF Known
<1> QED BY <1>1, <1>3, <1>4

\* The stores after entry n + 1 hold nothing but writes that fit.
LEMMA FitsStep ==
    ASSUME NEW K, NEW g \in Group, NEW st \in KV, NEW op \in Op, NEW s \in Shard, FitsAll(K, s, st.store[s]),
           op.type = "Migrate" => FitsAll(K, op.shard, op.data),
           op.type = "Write" => Fits(K, op.shard, WriteOf(op))
    PROVE  FitsAll(K, s, Applied(g, st, op).store[s])
<1> DEFINE new == Applied(g, st, op)
<1>1. \/ new.store[s] = st.store[s]
      \/ op.type = "Migrate" /\ s = op.shard /\ new.store[s] = op.data
      \/ new.store[s] = <<>>
      \/ op.type = "Write" /\ s = op.shard /\ new.store[s] = Append(st.store[s], WriteOf(op))
    BY AppliedStore
<1> SUFFICES FitsAll(K, s, new.store[s])
    OBVIOUS
<1> HIDE DEF new
<1>2. CASE new.store[s] = <<>>
    BY <1>2 DEF FitsAll
<1>3. CASE op.type = "Write" /\ s = op.shard /\ new.store[s] = Append(st.store[s], WriteOf(op))
    <2>1. op.client \in Client /\ op.seq \in 1 .. MaxSeq
        BY <1>3, OpFields
    <2>2. WriteOf(op) \in Write /\ st.store[s] \in Seq(Write)
        BY <2>1, KVFields DEF Write, WriteOf
    <2> DEFINE q == st.store[s]
               x == WriteOf(op)
    <2>3. Len(q) \in Nat /\ DOMAIN q = 1 .. Len(q)
        BY <2>2, LenProperties
    <2>4. /\ Append(q, x) \in Seq(Write) /\ Len(Append(q, x)) = Len(q) + 1
          /\ \A i \in 1 .. Len(q) : Append(q, x)[i] = q[i]
          /\ Append(q, x)[Len(q) + 1] = x
        BY <2>2, AppendProperties
    <2>5. DOMAIN Append(q, x) = 1 .. Len(q) + 1
        BY <2>4, LenProperties
    <2>6. ASSUME NEW i \in 1 .. Len(q) + 1 PROVE Fits(K, s, Append(q, x)[i])
        <3>1. CASE i = Len(q) + 1
            BY <1>3, <2>4, <3>1
        <3>2. CASE i # Len(q) + 1
            <4>1. i \in 1 .. Len(q)
                BY <2>3, <3>2
            <4> QED BY <2>3, <2>4, <4>1 DEF FitsAll
        <3> QED BY <3>1, <3>2
    <2> HIDE DEF q, x
    <2> QED BY <1>3, <2>5, <2>6 DEF FitsAll, q, x
<1> QED BY <1>1, <1>2, <1>3

\* Entry n + 1 keeps what the state before it has.
LEMMA KeptStateStep ==
    ASSUME Orderly, NEW L, NEW T, NEW C, NEW U, NEW D, Continues(L, T, C, U, D), NEW K, Lasting(T, C),
           NEW g \in Group, NEW n \in Nat, C[g] = n, D[g] = n + 1,
           NEW st \in KV, st = T[g][n], NEW op \in Op, U[g][n + 1] = Applied(g, st, op),
           HasGot(L, C, g, st), KeptState(T, C, K, g, st), KeptOp(T, C, K, g, n + 1, op),
           op.type = "Migrate" => Ready(L, C, g, op.shard)
    PROVE  KeptState(U, D, K, g, Applied(g, st, op))
<1> DEFINE new == Applied(g, st, op)
<1>1. KeptState(U, D, K, g, st)
    BY KeptStateGrows
<1>2. KeptOp(U, D, K, g, n + 1, op)
    BY KeptOpGrows
<1>3. LeavesLost(g, new)
    <2>1. LeavesLost(g, st)
        BY DEF KeptState
    <2> QED BY <2>1, LeavesLostStep
<1>4. Known(U, D, K, new.duplicateTable)
    <2>1. Known(U, D, K, st.duplicateTable)
        BY <1>1 DEF KeptState
    <2>2. /\ op.type = "Migrate" => Known(U, D, K, op.dup)
          /\ op.type = "Write" => Asked(K, op.client, g, op.shard)
        BY <1>2 DEF KeptOp
    <2> QED BY <2>1, <2>2, KnownStep
<1>5. ASSUME NEW s \in Shard PROVE FitsAll(K, s, new.store[s])
    <2>1. FitsAll(K, s, st.store[s])
        BY DEF KeptState
    <2>2. /\ op.type = "Migrate" => FitsAll(K, op.shard, op.data)
          /\ op.type = "Write" => Fits(K, op.shard, WriteOf(op))
        BY DEF KeptOp
    <2> QED BY <2>1, <2>2, FitsStep
<1>6. ASSUME NEW s \in Shard, HadBy(g, s, new) PROVE Complete(U, D, g, s, new.store[s]) \/ Collected(g, s, new)
    <2>1. CASE HadBy(g, s, st)
        <3>1. Complete(U, D, g, s, st.store[s]) \/ Collected(g, s, st)
            BY <1>1, <2>1 DEF KeptState
        <3>2. Collected(g, s, st) => Collected(g, s, new)
            BY CollectedStep
        <3>3. LeavesLost(g, st)
            BY DEF KeptState
        <3>4. Lasts(g, s, st, new)
            BY <3>3, LastsStep
        <3> HIDE DEF new
        <3>5. ASSUME ~Collected(g, s, new), Complete(U, D, g, s, st.store[s])
              PROVE  Complete(U, D, g, s, new.store[s])
            <4>1. \A w \in Write : Has(st.store[s], w) => Has(new.store[s], w)
                BY <2>1, <3>4, <3>5 DEF Lasts
            <4> QED BY <3>5, <4>1, CompleteMore
        <3> QED BY <3>1, <3>2, <3>5
    <2>2. CASE ~HadBy(g, s, st)
        <3>1. \/ op.type = "Migrate" /\ s = op.shard /\ st.migrating[s] # None
              \/ \A f \in Group : ~Before(f, g, s)
            BY <1>6, <2>2, NewlyHad
        <3>2. CASE op.type = "Migrate" /\ s = op.shard /\ st.migrating[s] # None
            <4>1. ~Arrived(T, C, g, s, n + 1)
                <5>1. ASSUME NEW j \in 0 .. C[g], HadBy(g, s, T[g][j]) PROVE FALSE
                    <6>1. n \in 0 .. C[g] /\ j \in 0 .. n
                        OBVIOUS
                    <6>2. Lasts(g, s, T[g][j], T[g][n])
                        BY <6>1 DEF Lasting
                    <6> QED BY <2>2, <5>1, <6>2 DEF Lasts
                <5> QED BY <5>1 DEF Arrived
            <4>2. Complete(T, C, g, s, op.data)
                BY <3>2, <4>1 DEF KeptOp
            <4>3. Complete(U, D, g, s, op.data)
                BY <3>2, <4>2, CompleteGrows
            <4>4. op.data = <<>> => \A w \in Write : Has(op.data, w) => Has(new.store[s], w)
                BY DEF Has
            <4>5. op.data # <<>> => new.store[s] = op.data
                <5>1. new = ApplyMigrate(st, op)
                    BY <3>2 DEF Applied
                <5> HIDE DEF new
                <5>2. \A x \in Shard : new.store[x] = IF x = op.shard /\ op.data # <<>>
                                                      THEN op.data ELSE st.store[x]
                    BY <3>2, <5>1, ApplyMigrateFields
                <5> QED BY <3>2, <5>2
            <4> HIDE DEF new
            <4> QED BY <4>3, <4>4, <4>5, CompleteMore
        <3>3. CASE \A f \in Group : ~Before(f, g, s)
            BY <3>3 DEF Complete
        <3> QED BY <3>1, <3>2, <3>3
    <2> QED BY <2>1, <2>2
<1>7. ASSUME NEW s \in Shard, Collected(g, s, new) PROVE Passed(U, D, g, s)
    <2>1. CASE Collected(g, s, st)
        BY <1>1, <2>1 DEF KeptState
    <2>2. CASE ~Collected(g, s, st)
        <3>1. op.type = "GC" /\ s = op.shard
            BY <1>7, <2>2, NewlyCollected
        <3> QED BY <1>2, <3>1 DEF KeptOp
    <2> QED BY <2>1, <2>2
<1> HIDE DEF new
<1> QED BY <1>3, <1>4, <1>5, <1>6, <1>7 DEF KeptState, new

\* The history with one more entry of g's log, and all that holds of it.
LEMMA OneMore ==
    ASSUME Orderly, NEW L \in [Group -> Seq(Op)], NEW C \in [Group -> Nat], NEW last \in Nat,
           NEW T \in Trace, NEW K, NEW P \in [Replica -> PullType], NEW G,
           \A f \in Group : C[f] <= Len(L[f]),
           \A f \in Group : \A i \in 1 .. Len(L[f]) : GoodOp(L, C, last, f, i),
           \A r \in Replica : GoodPull(L, C, GroupOf[r], P[r]),
           TraceOf(T, L, C), PastPart(T, L, C, last, K), ComingPart(T, L, C, K, P, G),
           NEW g \in Group, C[g] + 1 <= Len(L[g]), NEW D, D = [C EXCEPT ![g] = C[g] + 1]
    PROVE  \E U \in Trace : /\ Extends(T, C, U, D) /\ TraceOf(U, L, D)
                            /\ PastPart(U, L, D, last, K) /\ ComingPart(U, L, D, K, P, G)
<1> DEFINE n == C[g]
           st == T[g][n]
           op == L[g][n + 1]
           new == Applied(g, st, op)
           U == [T EXCEPT ![g] = [T[g] EXCEPT ![n + 1] = new]]
<1>1. n \in Nat /\ n + 1 \in Nat /\ \A i \in 1 .. n + 1 : i \in 1 .. Len(L[g])
    <2>1. Len(L[g]) \in Nat
        BY LenProperties
    <2> QED BY <2>1
<1>2. \A i \in 1 .. n + 1 : L[g][i] \in Op
    BY <1>1, ElementOfSeq
<1>3. op \in Op
    BY <1>1, <1>2
<1>4. st \in KV
    BY <1>1 DEF Trace
<1>5. new \in KV
    BY <1>3, <1>4, AppliedFields
<1>6. /\ D \in [Group -> Nat] /\ D[g] = n + 1
      /\ \A f \in Group : f # g => D[f] = C[f]
      /\ \A f \in Group : C[f] <= D[f] /\ D[f] <= Len(L[f])
    BY <1>1
<1> HIDE DEF new
<1>7. /\ U \in Trace /\ U[g][n + 1] = new
      /\ \A i \in 0 .. n : U[g][i] = T[g][i]
      /\ \A f \in Group : f # g => U[f] = T[f]
    BY <1>1, <1>5 DEF Trace
<1> HIDE DEF U, st, op
<1>8. Extends(T, C, U, D)
    <2> SUFFICES ASSUME NEW f \in Group
                 PROVE  /\ C[f] \in Nat /\ D[f] \in Nat /\ C[f] <= D[f]
                        /\ \A i \in 0 .. C[f] : U[f][i] = T[f][i]
        BY DEF Extends
    <2>1. CASE f = g
        BY <1>6, <1>7, <2>1
    <2>2. CASE f # g
        BY <1>6, <1>7, <2>2
    <2> QED BY <2>1, <2>2
<1>9. Grows(L, C, L, D)
    BY <1>6 DEF Grows
<1>10. /\ \A f \in Group : \A i \in 0 .. C[f] : /\ GoodState(L, C, last, f, i, T[f][i])
                                                /\ KeptState(T, C, K, f, T[f][i])
       /\ Lasting(T, C)
    BY DEF PastPart
<1>11. GoodState(L, D, last, g, n + 1, new)
    <2>1. n \in 0 .. C[g] /\ n + 1 \in 1 .. Len(L[g])
        BY <1>1
    <2>2. GoodState(L, C, last, g, n, st) /\ GoodOp(L, C, last, g, n + 1)
        BY <1>10, <2>1 DEF st
    <2>3. op = L[g][n + 1] /\ n + 1 <= D[g]
        BY <1>1, <1>6 DEF op
    <2>4. GoodState(L, D, last, g, n + 1, Applied(g, st, op))
        <3> HIDE DEF n
        <3> QED BY <1>1, <1>2, <1>9, <2>2, <2>3, AppliedGood
    <2> QED BY <2>4 DEF new
<1>12. ASSUME NEW f \in Group, NEW i \in 0 .. D[f], ~(f = g /\ i = n + 1)
       PROVE  i \in 0 .. C[f] /\ U[f][i] = T[f][i]
    <2>1. CASE f = g
        <3>1. i \in 0 .. n
            BY <1>1, <1>6, <1>12, <2>1
        <3> QED BY <1>7, <2>1, <3>1
    <2>2. CASE f # g
        BY <1>6, <1>7, <2>2
    <2> QED BY <2>1, <2>2
<1>13. ASSUME NEW f \in Group, NEW i \in 0 .. D[f] PROVE GoodState(L, D, last, f, i, U[f][i])
    <2>1. CASE f = g /\ i = n + 1
        BY <1>7, <1>11, <2>1
    <2>2. CASE ~(f = g /\ i = n + 1)
        <3>1. i \in 0 .. C[f] /\ U[f][i] = T[f][i]
            BY <1>12, <2>2
        <3>2. GoodState(L, C, last, f, i, T[f][i])
            BY <1>10, <3>1
        <3>3. GoodState(L, D, last, f, i, T[f][i])
            BY <1>9, <3>2, StateGrows
        <3> QED BY <3>1, <3>3
    <2> QED BY <2>1, <2>2
<1>14. Continues(L, T, C, U, D)
    <2>1. ASSUME NEW f \in Group, NEW i \in 0 .. D[f] PROVE U[f][i] \in KV /\ FollowsLog(L[f], i, U[f][i])
        BY <1>13 DEF GoodState
    <2> QED BY <1>8, <1>9, <2>1 DEF Continues
<1>15. ASSUME NEW f \in Group, NEW i \in 0 .. D[f] PROVE KeptState(U, D, K, f, U[f][i])
    <2>1. CASE f = g /\ i = n + 1
        <3>1. n \in 0 .. C[g] /\ n + 1 \in 1 .. Len(L[g])
            BY <1>1
        <3>2. HasGot(L, C, g, st) /\ KeptState(T, C, K, g, st) /\ st = T[g][n]
            BY <1>10, <3>1 DEF GoodState, st
        <3>3. KeptOp(T, C, K, g, n + 1, op)
            BY <3>1 DEF ComingPart, op
        <3>4. GoodOp(L, C, last, g, n + 1)
            BY <3>1
        <3>5. op.type = "Migrate" => Ready(L, C, g, op.shard)
            BY <3>4 DEF GoodOp, op
        <3>6. U[g][n + 1] = Applied(g, st, op) /\ C[g] = n /\ D[g] = n + 1
            BY <1>6, <1>7 DEF new
        <3>7. KeptState(U, D, K, g, Applied(g, st, op))
            <4> HIDE DEF n
            <4> QED BY <1>1, <1>3, <1>4, <1>10, <1>14, <3>2, <3>3, <3>5, <3>6, KeptStateStep
        <3> QED BY <2>1, <3>6, <3>7
    <2>2. CASE ~(f = g /\ i = n + 1)
        <3>1. i \in 0 .. C[f] /\ U[f][i] = T[f][i]
            BY <1>12, <2>2
        <3>2. HasGot(L, C, f, T[f][i]) /\ KeptState(T, C, K, f, T[f][i])
            BY <1>10, <3>1 DEF GoodState
        <3>3. KeptState(U, D, K, f, T[f][i])
            BY <1>14, <3>2, KeptStateGrows
        <3> QED BY <3>1, <3>3
    <2> QED BY <2>1, <2>2
<1>16. Lasting(U, D)
    <2> SUFFICES ASSUME NEW f \in Group, NEW s \in Shard, NEW j \in 0 .. D[f], NEW i \in 0 .. j
                 PROVE  Lasts(f, s, U[f][i], U[f][j])
        BY DEF Lasting
    <2>0. D[f] \in Nat
        BY <1>6
    <2>1. CASE i = j
        BY <2>1 DEF Lasts
    <2>2. CASE i # j /\ f = g /\ j = n + 1
        <3>1. i \in 0 .. n /\ n \in 0 .. C[g]
            BY <1>1, <2>2
        <3>2. Lasts(g, s, T[g][i], st)
            BY <1>10, <3>1 DEF Lasting, st
        <3>3. LeavesLost(g, st)
            BY <1>10, <3>1 DEF KeptState, st
        <3>4. Lasts(g, s, st, new)
            BY <1>3, <1>4, <3>3, LastsStep DEF new
        <3>5. Collected(g, s, st) => Collected(g, s, new)
            BY <1>3, <1>4, CollectedStep DEF new
        <3>6. Lasts(g, s, T[g][i], new)
            BY <3>2, <3>4, <3>5 DEF Lasts
        <3> QED BY <1>7, <2>2, <3>1, <3>6
    <2>3. CASE i # j /\ ~(f = g /\ j = n + 1)
        <3>1. j \in 0 .. C[f] /\ U[f][j] = T[f][j]
            BY <1>12, <2>3
        <3>2. i \in 0 .. D[f] /\ ~(f = g /\ i = n + 1)
            BY <1>1, <2>0, <2>3, <3>1
        <3>3. U[f][i] = T[f][i]
            BY <1>12, <3>2
        <3>4. Lasts(f, s, T[f][i], T[f][j])
            BY <1>10, <3>1 DEF Lasting
        <3> QED BY <3>1, <3>3, <3>4
    <2> QED BY <2>1, <2>2, <2>3
<1>17. PastPart(U, L, D, last, K)
    BY <1>13, <1>15, <1>16 DEF PastPart
<1>18. ComingPart(U, L, D, K, P, G)
    <2>1. ASSUME NEW f \in Group, NEW i \in 1 .. Len(L[f]) PROVE KeptOp(U, D, K, f, i, L[f][i])
        <3>1. L[f][i] \in Op /\ i \in Nat
            BY ElementOfSeq
        <3>2. KeptOp(T, C, K, f, i, L[f][i])
            BY DEF ComingPart
        <3>3. L[f][i].type = "Migrate" => Ready(L, C, f, L[f][i].shard)
            BY DEF GoodOp
        <3> QED BY <1>14, <3>1, <3>2, <3>3, KeptOpGrows
    <2>2. ASSUME NEW r \in Replica PROVE KeptPull(U, D, K, GroupOf[r], P[r])
        <3>1. GroupOf[r] \in Group
            BY GroupAssumption
        <3>2. KeptPull(T, C, K, GroupOf[r], P[r])
            BY DEF ComingPart
        <3> QED BY <1>14, <3>1, <3>2, KeptPullGrows
    <2>3. ASSUME NEW r \in Replica, G[r] # None PROVE Passed(U, D, GroupOf[r], G[r])
        <3>1. Passed(T, C, GroupOf[r], G[r])
            BY <2>3 DEF ComingPart
        <3> QED BY <1>8, <3>1, PassedGrows
    <2> QED BY <2>1, <2>2, <2>3 DEF ComingPart
<1>19. TraceOf(U, L, D)
    <2> SUFFICES ASSUME NEW f \in Group
                 PROVE  /\ U[f][0] = EmptyKV
                        /\ \A i \in 1 .. D[f] : U[f][i] = Applied(f, U[f][i - 1], L[f][i])
        BY DEF TraceOf
    <2>1. U[f][0] = T[f][0] /\ T[f][0] = EmptyKV
        <3>1. 0 \in 0 .. C[f]
            OBVIOUS
        <3> QED BY <1>8, <3>1 DEF TraceOf, Extends
    <2>2. ASSUME NEW i \in 1 .. D[f] PROVE U[f][i] = Applied(f, U[f][i - 1], L[f][i])
        <3>0. i \in 0 .. D[f] /\ i - 1 \in 0 .. D[f] /\ D[f] \in Nat
            BY <1>6
        <3>1. CASE f = g /\ i = n + 1
            <4>1. i - 1 = n /\ n \in 0 .. n
                <5> HIDE DEF n
                <5> QED BY <1>1, <3>1
            <4>2. U[f][i - 1] = st
                BY <1>7, <3>1, <4>1 DEF st
            <4> QED BY <1>7, <3>1, <4>2 DEF new, op
        <3>2. CASE ~(f = g /\ i = n + 1)
            <4>1. i \in 0 .. C[f] /\ U[f][i] = T[f][i]
                BY <1>12, <3>0, <3>2
            <4>2. ~(f = g /\ i - 1 = n + 1)
                BY <1>1, <4>1
            <4>3. U[f][i - 1] = T[f][i - 1]
                BY <1>12, <3>0, <4>2
            <4>4. i \in 1 .. C[f]
                BY <4>1
            <4>5. T[f][i] = Applied(f, T[f][i - 1], L[f][i])
                BY <4>4 DEF TraceOf
            <4> QED BY <4>1, <4>3, <4>5
        <3> QED BY <3>1, <3>2
    <2> QED BY <2>1, <2>2
<1> QED BY <1>7, <1>8, <1>17, <1>18, <1>19

(***************************************************************************)
(* The steps.                                                              *)
(***************************************************************************)

\* Clerks' sequence numbers only grow; a write in progress stays what it is.
Moves(K, M) ==
    \A c \in Client :
        /\ M[c].seq >= K[c].seq
        /\ M[c].pc \in {"call", "wait"} =>
              \/ M[c].seq > K[c].seq
              \/ K[c].pc \in {"call", "wait"} /\ M[c].shard = K[c].shard /\ M[c].seq = K[c].seq

\* What fits goes on to fit.
LEMMA FitsMoves ==
    ASSUME NEW K \in [Client -> ClerkType], NEW M \in [Client -> ClerkType], Moves(K, M),
           NEW s, NEW w \in Write, Fits(K, s, w)
    PROVE  Fits(M, s, w)
<1>1. w.client \in Client /\ w.seq \in 1 .. MaxSeq /\ MaxSeq \in Nat
    BY BoundAssumption DEF Write
<1>2. PICK c \in Client, q \in 1 .. MaxSeq : c = w.client /\ q = w.seq
    BY <1>1
<1>3. K[c].seq \in 0 .. MaxSeq /\ M[c].seq \in 0 .. MaxSeq
    BY DEF ClerkType
<1>4. /\ q <= K[c].seq
      /\ K[c].pc \in {"call", "wait"} /\ q = K[c].seq => s = K[c].shard
    BY <1>2 DEF Fits
<1>5. /\ M[c].seq >= K[c].seq
      /\ M[c].pc \in {"call", "wait"} =>
              \/ M[c].seq > K[c].seq
              \/ K[c].pc \in {"call", "wait"} /\ M[c].shard = K[c].shard /\ M[c].seq = K[c].seq
    BY DEF Moves
<1>6. q <= M[c].seq
    BY <1>1, <1>3, <1>4, <1>5
<1>7. ASSUME M[c].pc \in {"call", "wait"}, q = M[c].seq PROVE s = M[c].shard
    <2>1. ~(M[c].seq > K[c].seq)
        BY <1>1, <1>3, <1>4, <1>7
    <2> QED BY <1>4, <1>5, <1>7, <2>1
<1> QED BY <1>2, <1>6, <1>7 DEF Fits

\* So do whole stores.
LEMMA FitsAllMoves ==
    ASSUME NEW K \in [Client -> ClerkType], NEW M \in [Client -> ClerkType], Moves(K, M),
           NEW s, NEW data \in Seq(Write), FitsAll(K, s, data)
    PROVE  FitsAll(M, s, data)
<1>1. ASSUME NEW i \in DOMAIN data PROVE Fits(M, s, data[i])
    <2>1. data[i] \in Write
        BY ElementOfSeq, LenProperties
    <2>2. Fits(K, s, data[i])
        BY DEF FitsAll
    <2> QED BY <2>1, <2>2, FitsMoves
<1> QED BY <1>1 DEF FitsAll

\* No clerk goes back to an older config.
CfgsGrow == \A c \in Client : clerk[c].cfg <= clerk'[c].cfg

\* Where a clerk has asked it has asked.
LEMMA AskedGrows ==
    ASSUME ShardInv, ShardInv', CfgsGrow, NEW c \in Client, NEW g, NEW s, Asked(clerk, c, g, s)
    PROVE  Asked(clerk', c, g, s)
<1>1. clerk[c].cfg \in Nat /\ clerk'[c].cfg \in Nat /\ clerk[c].cfg <= clerk'[c].cfg
    BY ConfigsNat DEF ShardInv, ClerkPart, ClerkType, CfgsGrow
<1>2. PICK m \in 1 .. clerk[c].cfg : Owner(m, s) = g
    BY DEF Asked
<1>3. m \in 1 .. clerk'[c].cfg
    BY <1>1
<1> QED BY <1>2, <1>3 DEF Asked

\* What is known goes on to be known.
LEMMA KnownMoves ==
    ASSUME ShardInv, ShardInv', CfgsGrow, NEW T, NEW C, NEW dup, Known(T, C, clerk, dup)
    PROVE  Known(T, C, clerk', dup)
BY AskedGrows DEF Known

\* A clerk's config is one that has been made.
CfgsMade == \A c \in Client : clerk[c].cfg <= latest

\* A step that moves one clerk, to the newest config if it changes its config.
LEMMA OneCfg ==
    ASSUME ShardInv, NEW c \in Client, NEW ck, clerk' = [clerk EXCEPT ![c] = ck],
           ck.cfg \in {clerk[c].cfg, latest}, latest' = latest
    PROVE  latest' \in {latest, latest + 1} /\ \A d \in Client : clerk'[d].cfg \in {clerk[d].cfg, latest}
BY ClerkFacts

\* Every step leaves a clerk its config or gives it the newest.
LEMMA CfgStep ==
    ASSUME ShardInv, [Next]_vars
    PROVE  latest' \in {latest, latest + 1} /\ \A d \in Client : clerk'[d].cfg \in {clerk[d].cfg, latest}
<1> DEFINE Q == latest' \in {latest, latest + 1} /\ \A d \in Client : clerk'[d].cfg \in {clerk[d].cfg, latest}
<1>0. /\ \A c \in Client : clerk[c] \in ClerkType
      /\ DOMAIN clerk = Client /\ latest \in 1 .. Len(Configs)
    BY DEF ShardInv, ClerkPart, RaftPart
<1>1. ASSUME clerk' = clerk, latest' \in {latest, latest + 1} PROVE Q
    BY <1>1
<1>2. ASSUME Reconfigure \/ UNCHANGED vars PROVE Q
    BY <1>1, <1>2 DEF Reconfigure, vars
<1>3. ASSUME NEW g \in Group, NEW r \in Replica, LeaderChange(g, r) PROVE Q
    BY <1>1, <1>3 DEF LeaderChange
<1>4. ASSUME NEW r \in Replica, restoreSnapshot(r) \/ noopLoop(r) \/ configPoll(r) PROVE Q
    BY <1>1, <1>4 DEF restoreSnapshot, noopLoop, configPoll
<1>5. ASSUME NEW r \in Replica, pullNotReady(r) \/ proposeMigrate(r) \/ proposeGC(r) PROVE Q
    BY <1>1, <1>5 DEF pullNotReady, proposeMigrate, proposeGC
<1>6. ASSUME NEW r \in Replica, NEW s \in Shard, migrationTick(r, s) PROVE Q
    BY <1>1, <1>6 DEF migrationTick
<1>7. ASSUME NEW r \in Replica, NEW d \in Replica, Pull(r, d) PROVE Q
    BY <1>1, <1>7 DEF Pull
<1>8. ASSUME NEW r \in Replica, NEW s \in Shard, NEW d \in Replica, recipientReady(r, s, d) PROVE Q
    BY <1>1, <1>8 DEF recipientReady
<1>9. ASSUME NEW r \in Replica, Restart(r) PROVE Q
    <2> DEFINE to(c) == IF clerk[c].pc = "wait" THEN "call" ELSE "idle"
    <2>1. /\ latest' = latest
          /\ clerk' = [c \in Client |-> IF clerk[c].at # r THEN clerk[c] ELSE Back(clerk[c], to(c))]
        BY <1>9 DEF Restart
    <2>2. ASSUME NEW c \in Client PROVE clerk'[c].cfg = clerk[c].cfg
        <3>1. to(c) \in {"idle", "call", "wait", "reading"}
            OBVIOUS
        <3>2. Back(clerk[c], to(c)).cfg = clerk[c].cfg
            BY <1>0, <3>1, BackType
        <3> HIDE DEF to
        <3> QED BY <2>1, <3>2
    <2> QED BY <2>1, <2>2
<1>10. ASSUME NEW r \in Replica, applyLoop(r) PROVE Q
    <2> DEFINE g == GroupOf[r]
               i == applied[r] + 1
               op == log[g][i]
               owned == op.type = "Write" /\ Owns(g, kv[r], op.shard)
               waiting(c) == clerk[c].pc = "wait" /\ clerk[c].at = r /\ clerk[c].index = i
    <2>1. /\ latest' = latest /\ i <= Len(log[g])
          /\ clerk' = [c \in Client |-> IF waiting(c) THEN Answer(clerk[c], c, op, owned) ELSE clerk[c]]
        BY <1>10 DEF applyLoop
    <2>2. g \in Group /\ log[g] \in Seq(Op) /\ applied[r] \in Nat
        BY GroupAssumption DEF ShardInv, RaftPart, StatePart
    <2>3. i \in 1 .. Len(log[g])
        <3> HIDE DEF g
        <3> QED BY <2>1, <2>2
    <2>4. op \in Op
        BY <2>2, <2>3, ElementOfSeq
    <2> HIDE DEF op, owned, waiting, i, g
    <2>5. ASSUME NEW c \in Client PROVE clerk'[c].cfg \in {clerk[c].cfg, latest}
        <3>1. Answer(clerk[c], c, op, owned).cfg \in {clerk[c].cfg, latest}
            BY <1>0, <2>4, AnswerType
        <3> QED BY <2>1, <3>1
    <2> QED BY <2>1, <2>5
<1>11. ASSUME NEW c \in Client, NEW s \in Shard, putAppend(c, s) PROVE Q
    <2> DEFINE ck == [clerk[c] EXCEPT !.pc = "call", !.seq = clerk[c].seq + 1, !.shard = s]
    <2>1. clerk' = [clerk EXCEPT ![c] = ck] /\ latest' = latest
        BY <1>0, <1>11 DEF putAppend
    <2>2. ck.cfg = clerk[c].cfg
        BY <1>0 DEF ClerkType
    <2> HIDE DEF ck
    <2> QED BY <2>1, <2>2, OneCfg
<1>12. ASSUME NEW c \in Client, NEW s \in Shard, NEW r \in Replica, Get(c, r, s) PROVE Q
    <2> DEFINE t == term[GroupOf[r]]
               ck == [clerk[c] EXCEPT !.pc = "reading", !.shard = s, !.at = r, !.term = t]
    <2>1. clerk' = [clerk EXCEPT ![c].pc = "reading", ![c].shard = s, ![c].at = r, ![c].term = t] /\ latest' = latest
        BY <1>12 DEF Get
    <2> HIDE DEF t
    <2>2. clerk' = [clerk EXCEPT ![c] = ck]
        BY <1>0, <2>1
    <2>3. ck.cfg = clerk[c].cfg
        BY <1>0 DEF ClerkType
    <2> HIDE DEF ck
    <2> QED BY <2>1, <2>2, <2>3, OneCfg
<1>13. ASSUME NEW c \in Client, NEW r \in Replica, PutAppend(c, r) PROVE Q
    <2> DEFINE t == term[GroupOf[r]]
               i == Len(log[GroupOf[r]]) + 1
               ck == [clerk[c] EXCEPT !.pc = "wait", !.at = r, !.term = t, !.index = i]
    <2>1. clerk' = [clerk EXCEPT ![c].pc = "wait", ![c].at = r, ![c].term = t, ![c].index = i] /\ latest' = latest
        BY <1>13 DEF PutAppend
    <2> HIDE DEF t, i
    <2>2. clerk' = [clerk EXCEPT ![c] = ck]
        BY <1>0, <2>1
    <2>3. ck.cfg = clerk[c].cfg
        BY <1>0 DEF ClerkType
    <2> HIDE DEF ck
    <2> QED BY <2>1, <2>2, <2>3, OneCfg
<1>14. ASSUME NEW c \in Client, NEW r \in Replica, WrongGroup(c, r) PROVE Q
    <2> DEFINE ck == [clerk[c] EXCEPT !.cfg = latest]
    <2>1. clerk' = [clerk EXCEPT ![c] = ck] /\ latest' = latest
        BY <1>0, <1>14 DEF WrongGroup
    <2>2. ck.cfg = latest
        BY <1>0, RefreshedType
    <2> HIDE DEF ck
    <2> QED BY <2>1, <2>2, OneCfg
<1>15. ASSUME NEW c \in Client, giveUp(c) PROVE Q
    <2> DEFINE ck == Back(clerk[c], "call")
    <2>1. clerk' = [clerk EXCEPT ![c] = ck] /\ latest' = latest
        BY <1>15 DEF giveUp
    <2>2. ck.cfg = clerk[c].cfg
        BY <1>0, BackType
    <2> HIDE DEF ck
    <2> QED BY <2>1, <2>2, OneCfg
<1>16. ASSUME NEW c \in Client, GetReply(c) PROVE Q
    <2> DEFINE b == Back(clerk[c], "idle")
               wrongGroup == /\ noopAppliedTerm[clerk[c].at] = clerk[c].term
                             /\ ~Owns(GroupOf[clerk[c].at], kv[clerk[c].at], clerk[c].shard)
               n == IF wrongGroup THEN latest ELSE b.cfg
               ck == [b EXCEPT !.cfg = n]
    <2>1. clerk' = [clerk EXCEPT ![c] = ck] /\ latest' = latest
        BY <1>16 DEF GetReply
    <2>2. b \in ClerkType /\ b.cfg = clerk[c].cfg
        BY <1>0, BackType
    <2> HIDE DEF b
    <2>3. n \in {clerk[c].cfg, latest} /\ n \in 1 .. Len(Configs)
        BY <1>0, <2>2 DEF ClerkType
    <2> HIDE DEF n
    <2>4. ck.cfg = n
        BY <2>2, <2>3, RefreshedType
    <2> HIDE DEF ck
    <2> QED BY <2>1, <2>3, <2>4, OneCfg
<1> HIDE DEF Q
<1>17. Q
    BY <1>2, <1>3, <1>4, <1>5, <1>6, <1>7, <1>8, <1>9, <1>10, <1>11, <1>12, <1>13, <1>14, <1>15, <1>16 DEF Next
<1> QED BY <1>17 DEF Q

\* Clerks go on to later configs only, and to configs that have been made.
LEMMA CfgsKept == ASSUME ShardInv, CfgsMade, [Next]_vars PROVE CfgsMade' /\ CfgsGrow
<1> SUFFICES ASSUME NEW c \in Client
             PROVE  clerk'[c].cfg <= latest' /\ clerk[c].cfg <= clerk'[c].cfg
    BY DEF CfgsMade, CfgsGrow
<1>1. clerk[c].cfg \in Nat /\ latest \in Nat /\ clerk[c].cfg <= latest
    BY ClerkFacts, ConfigsNat DEF ClerkType, CfgsMade
<1>2. latest' \in {latest, latest + 1} /\ clerk'[c].cfg \in {clerk[c].cfg, latest}
    BY CfgStep
<1> QED BY <1>1, <1>2

\* In every state a clerk's config is one that has been made.
LEMMA ConfigsMade == Spec => []CfgsMade
<1>1. Init => CfgsMade
    BY ConfigsNat DEF Init, CfgsMade, NewShardClerk
<1>2. ShardInv /\ CfgsMade /\ [Next]_vars => CfgsMade'
    BY CfgsKept
<1> QED BY <1>1, <1>2, Invariance, PTL DEF Spec

\* What a step has to say of its changes, if T is the history after it.
LEMMA Framed ==
    ASSUME ShardInv, ShardInv', CfgsGrow, NEW T \in Trace, latest <= latest', Moves(clerk, clerk'),
           Grows(log, commit', log', commit'), TraceOf(T, log, commit'),
           PastPart(T, log, commit', latest, clerk), ComingPart(T, log, commit', clerk, pull, gc),
           AckedPart(T, commit', acked'),
           \A r \in Replica : /\ kv'[r] = T[GroupOf[r]][applied'[r]]
                              /\ snapshot'[r].kv = T[GroupOf[r]][snapshot'[r].index],
           \A g \in Group : \A i \in 1 .. Len(log'[g]) :
               \/ i \in 1 .. Len(log[g]) /\ log'[g][i] = log[g][i]
               \/ KeptOp(T, commit', clerk, g, i, log'[g][i]),
           \A r \in Replica : pull'[r] = pull[r] \/ KeptPull(T, commit', clerk, GroupOf[r], pull'[r]),
           \A r \in Replica : gc'[r] \in {gc[r], None} \/ Passed(T, commit', GroupOf[r], gc'[r])
    PROVE  HistInv'
<1>1. /\ clerk \in [Client -> ClerkType] /\ clerk' \in [Client -> ClerkType]
      /\ latest \in Nat /\ latest' \in Nat /\ commit' \in [Group -> Nat] /\ log' \in [Group -> Seq(Op)]
      /\ pull' \in [Replica -> PullType]
    BY ConfigsNat DEF ShardInv, RaftPart, ClerkPart, PullPart
<1>2. TraceOf(T, log', commit')
    <2> SUFFICES ASSUME NEW g \in Group, NEW i \in 1 .. commit'[g]
                 PROVE  T[g][i] = Applied(g, T[g][i - 1], log'[g][i])
        BY DEF TraceOf
    <2> QED BY DEF TraceOf, Grows
<1>3. TracePart(T)'
    BY <1>2 DEF TracePart
<1>4. ASSUME NEW g \in Group, NEW i \in 0 .. commit'[g]
      PROVE  /\ GoodState(log', commit', latest', g, i, T[g][i])
             /\ KeptState(T, commit', clerk', g, T[g][i])
    <2>1. GoodState(log, commit', latest, g, i, T[g][i]) /\ KeptState(T, commit', clerk, g, T[g][i])
        BY DEF PastPart
    <2>2. T[g][i] \in KV
        BY <2>1 DEF GoodState
    <2>3. ASSUME NEW s \in Shard PROVE FitsAll(clerk', s, T[g][i].store[s])
        <3>1. T[g][i].store[s] \in Seq(Write)
            BY <2>2, KVFields
        <3>2. FitsAll(clerk, s, T[g][i].store[s])
            BY <2>1 DEF KeptState
        <3> QED BY <1>1, <3>1, <3>2, FitsAllMoves
    <2>4. KeptState(T, commit', clerk', g, T[g][i])
        <3>1. Known(T, commit', clerk', T[g][i].duplicateTable)
            BY <2>1, KnownMoves DEF KeptState
        <3> QED BY <2>1, <2>3, <3>1 DEF KeptState
    <2>5. GoodState(log', commit', latest', g, i, T[g][i])
        BY <1>1, <2>1, StateGrows
    <2> QED BY <2>4, <2>5
<1>5. PastPart(T, log', commit', latest', clerk')
    BY <1>4 DEF PastPart
<1>6. ASSUME NEW g \in Group, NEW i \in 1 .. Len(log'[g]) PROVE KeptOp(T, commit', clerk', g, i, log'[g][i])
    <2> DEFINE op == log'[g][i]
    <2>1. op \in Op
        BY <1>1, ElementOfSeq
    <2>2. KeptOp(T, commit', clerk, g, i, op)
        BY DEF ComingPart
    <2> HIDE DEF op
    <2>3. ASSUME op.type = "Write" PROVE Fits(clerk', op.shard, WriteOf(op)) /\ Asked(clerk', op.client, g, op.shard)
        <3>1. WriteOf(op) \in Write /\ op.client \in Client
            BY <2>1, <2>3, OpFields DEF Write, WriteOf
        <3>2. Fits(clerk, op.shard, WriteOf(op)) /\ Asked(clerk, op.client, g, op.shard)
            BY <2>2, <2>3 DEF KeptOp
        <3> QED BY <1>1, <3>1, <3>2, FitsMoves, AskedGrows
    <2>4. ASSUME op.type = "Migrate" PROVE FitsAll(clerk', op.shard, op.data) /\ Known(T, commit', clerk', op.dup)
        <3>1. op.data \in Seq(Write)
            BY <2>1, <2>4, OpFields
        <3>2. FitsAll(clerk, op.shard, op.data) /\ Known(T, commit', clerk, op.dup)
            BY <2>2, <2>4 DEF KeptOp
        <3> QED BY <1>1, <3>1, <3>2, FitsAllMoves, KnownMoves
    <2>5. KeptOp(T, commit', clerk', g, i, op)
        BY <2>2, <2>3, <2>4 DEF KeptOp
    <2> QED BY <2>5 DEF op
<1>7. ASSUME NEW r \in Replica PROVE KeptPull(T, commit', clerk', GroupOf[r], pull'[r])
    <2>1. KeptPull(T, commit', clerk, GroupOf[r], pull'[r])
        BY DEF ComingPart
    <2>2. ASSUME pull'[r] # None, pull'[r].step = "got"
          PROVE  FitsAll(clerk', pull'[r].shard, pull'[r].data) /\ Known(T, commit', clerk', pull'[r].dup)
        <3>1. pull'[r] \in PullType
            BY <1>1
        <3>2. pull'[r].data \in Seq(Write)
            BY <2>2, <3>1 DEF PullType, AskType, GotType
        <3>3. FitsAll(clerk, pull'[r].shard, pull'[r].data) /\ Known(T, commit', clerk, pull'[r].dup)
            BY <2>1, <2>2 DEF KeptPull
        <3> QED BY <1>1, <3>2, <3>3, FitsAllMoves, KnownMoves
    <2> QED BY <2>1, <2>2 DEF KeptPull
<1>8. ASSUME NEW r \in Replica, gc'[r] # None PROVE Passed(T, commit', GroupOf[r], gc'[r])
    BY <1>8 DEF ComingPart
<1>9. ComingPart(T, log', commit', clerk', pull', gc')
    BY <1>6, <1>7, <1>8 DEF ComingPart
<1> QED BY <1>3, <1>5, <1>9 DEF HistInv, HistOf

\* The same for a step that applies no entry: the history stays.
LEMMA SameTrace ==
    ASSUME ShardInv, ShardInv', CfgsGrow, NEW T \in Trace, HistOf(T), latest <= latest', Moves(clerk, clerk'),
           Grows(log, commit, log', commit'), UNCHANGED <<commit, acked>>,
           \A r \in Replica : /\ kv'[r] = T[GroupOf[r]][applied'[r]]
                              /\ snapshot'[r].kv = T[GroupOf[r]][snapshot'[r].index],
           \A g \in Group : \A i \in 1 .. Len(log'[g]) :
               \/ i \in 1 .. Len(log[g]) /\ log'[g][i] = log[g][i]
               \/ KeptOp(T, commit, clerk, g, i, log'[g][i]),
           \A r \in Replica : pull'[r] = pull[r] \/ KeptPull(T, commit, clerk, GroupOf[r], pull'[r]),
           \A r \in Replica : gc'[r] \in {gc[r], None} \/ Passed(T, commit, GroupOf[r], gc'[r])
    PROVE  HistInv'
<1>1. commit' = commit /\ acked' = acked
    OBVIOUS
<1>2. /\ TraceOf(T, log, commit) /\ PastPart(T, log, commit, latest, clerk)
      /\ ComingPart(T, log, commit, clerk, pull, gc) /\ AckedPart(T, commit, acked)
    BY DEF HistOf, TracePart
<1>3. /\ TraceOf(T, log, commit') /\ PastPart(T, log, commit', latest, clerk)
      /\ ComingPart(T, log, commit', clerk, pull, gc) /\ AckedPart(T, commit', acked')
      /\ Grows(log, commit', log', commit')
    BY <1>1, <1>2
<1>4. \A g \in Group : \A i \in 1 .. Len(log'[g]) :
               \/ i \in 1 .. Len(log[g]) /\ log'[g][i] = log[g][i]
               \/ KeptOp(T, commit', clerk, g, i, log'[g][i])
    BY <1>1
<1>5. /\ \A r \in Replica : pull'[r] = pull[r] \/ KeptPull(T, commit', clerk, GroupOf[r], pull'[r])
      /\ \A r \in Replica : gc'[r] \in {gc[r], None} \/ Passed(T, commit', GroupOf[r], gc'[r])
    BY <1>1
<1> QED BY <1>3, <1>4, <1>5, Framed

\* The same for a step that leaves the logs alone, too.
LEMMA SameLogs ==
    ASSUME ShardInv, ShardInv', CfgsGrow, NEW T \in Trace, HistOf(T), latest <= latest', Moves(clerk, clerk'),
           UNCHANGED <<log, commit, acked>>,
           \A r \in Replica : /\ kv'[r] = T[GroupOf[r]][applied'[r]]
                              /\ snapshot'[r].kv = T[GroupOf[r]][snapshot'[r].index],
           \A r \in Replica : pull'[r] = pull[r] \/ KeptPull(T, commit, clerk, GroupOf[r], pull'[r]),
           \A r \in Replica : gc'[r] \in {gc[r], None} \/ Passed(T, commit, GroupOf[r], gc'[r])
    PROVE  HistInv'
<1>1. Grows(log, commit, log', commit')
    BY SameGrows DEF ShardInv
<1>2. \A g \in Group : \A i \in 1 .. Len(log'[g]) : i \in 1 .. Len(log[g]) /\ log'[g][i] = log[g][i]
    OBVIOUS
<1> QED BY <1>1, <1>2, SameTrace

\* Replicas' states that do not change are states of the history.
LEMMA SameStates ==
    ASSUME NEW T \in Trace, HistOf(T), UNCHANGED stateVars
    PROVE  \A r \in Replica : /\ kv'[r] = T[GroupOf[r]][applied'[r]]
                              /\ snapshot'[r].kv = T[GroupOf[r]][snapshot'[r].index]
BY DEF HistOf, TracePart, stateVars

\* Clerks that do nothing, or of which one does something.
LEMMA SameClerks == ASSUME ShardInv, clerk' = clerk PROVE Moves(clerk, clerk')
<1>1. ASSUME NEW c \in Client PROVE clerk[c].seq \in 0 .. MaxSeq
    BY ClerkFacts
<1>2. MaxSeq \in Nat
    BY BoundAssumption
<1> QED BY <1>1, <1>2 DEF Moves

\* One clerk moves.
LEMMA OneClerk ==
    ASSUME ShardInv, NEW c \in Client, NEW ck, clerk' = [clerk EXCEPT ![c] = ck], ck.seq >= clerk[c].seq,
           ck.pc \in {"call", "wait"} =>
              \/ ck.seq > clerk[c].seq
              \/ clerk[c].pc \in {"call", "wait"} /\ ck.shard = clerk[c].shard /\ ck.seq = clerk[c].seq
    PROVE  Moves(clerk, clerk')
<1>1. ASSUME NEW d \in Client PROVE clerk[d].seq \in 0 .. MaxSeq /\ DOMAIN clerk = Client
    BY ClerkFacts
<1>2. MaxSeq \in Nat
    BY BoundAssumption
<1>3. ASSUME NEW d \in Client PROVE clerk'[d] = IF d = c THEN ck ELSE clerk[d]
    BY <1>1
<1>4. ASSUME NEW d \in Client
      PROVE  /\ clerk'[d].seq >= clerk[d].seq
             /\ clerk'[d].pc \in {"call", "wait"} =>
                   \/ clerk'[d].seq > clerk[d].seq
                   \/ clerk[d].pc \in {"call", "wait"} /\ clerk'[d].shard = clerk[d].shard /\ clerk'[d].seq = clerk[d].seq
    <2>1. CASE d = c
        BY <1>3, <2>1
    <2>2. CASE d # c
        BY <1>1, <1>2, <1>3, <2>2
    <2> QED BY <2>1, <2>2
<1> QED BY <1>4 DEF Moves

\* A step that changes nothing but clerks and what the controller has made.
LEMMA ClerkHist ==
    ASSUME ShardInv, ShardInv', CfgsGrow, HistInv, latest <= latest', Moves(clerk, clerk'),
           UNCHANGED raftVars, UNCHANGED stateVars, UNCHANGED loopVars, acked' = acked
    PROVE  HistInv'
<1>1. PICK T \in Trace : HistOf(T)
    BY DEF HistInv
<1>2. UNCHANGED <<log, commit, acked>> /\ pull' = pull /\ gc' = gc
    BY DEF raftVars, loopVars
<1>3. /\ \A r \in Replica : pull'[r] = pull[r] \/ KeptPull(T, commit, clerk, GroupOf[r], pull'[r])
      /\ \A r \in Replica : gc'[r] \in {gc[r], None} \/ Passed(T, commit, GroupOf[r], gc'[r])
    BY <1>2
<1> QED BY <1>1, <1>2, <1>3, SameStates, SameLogs

\* A new config.
LEMMA ReconfigureHist == ASSUME ShardInv, ShardInv', CfgsGrow, HistInv, Reconfigure PROVE HistInv'
<1>1. latest \in Nat
    BY ConfigsNat DEF ShardInv, RaftPart
<1>2. /\ latest' = latest + 1 /\ UNCHANGED raftVars /\ UNCHANGED stateVars /\ UNCHANGED loopVars
      /\ clerk' = clerk /\ acked' = acked
    BY DEF Reconfigure
<1>3. latest <= latest'
    BY <1>1, <1>2
<1> QED BY <1>2, <1>3, SameClerks, ClerkHist

\* Nothing at all.
LEMMA StutterHist == ASSUME ShardInv, ShardInv', CfgsGrow, HistInv, UNCHANGED vars PROVE HistInv'
<1>1. latest \in Nat
    BY ConfigsNat DEF ShardInv, RaftPart
<1>2. /\ latest' = latest /\ UNCHANGED raftVars /\ UNCHANGED stateVars /\ UNCHANGED loopVars
      /\ clerk' = clerk /\ acked' = acked
    BY DEF vars
<1>3. latest <= latest'
    BY <1>1, <1>2
<1> QED BY <1>2, <1>3, SameClerks, ClerkHist

\* A step of one clerk that leaves everything else alone.
LEMMA OneClerkHist ==
    ASSUME ShardInv, ShardInv', CfgsGrow, HistInv, NEW c \in Client, NEW ck, clerk' = [clerk EXCEPT ![c] = ck],
           ck.seq >= clerk[c].seq,
           ck.pc \in {"call", "wait"} =>
              \/ ck.seq > clerk[c].seq
              \/ clerk[c].pc \in {"call", "wait"} /\ ck.shard = clerk[c].shard /\ ck.seq = clerk[c].seq,
           UNCHANGED <<latest, raftVars>>, UNCHANGED stateVars, UNCHANGED loopVars, acked' = acked
    PROVE  HistInv'
<1>1. latest \in Nat /\ latest' = latest /\ UNCHANGED raftVars
    BY ConfigsNat DEF ShardInv, RaftPart
<1>2. latest <= latest'
    BY <1>1
<1>3. Moves(clerk, clerk')
    BY OneClerk
<1> QED BY <1>1, <1>2, <1>3, ClerkHist

\* A clerk begins a write: its number is new.
LEMMA putAppendHist ==
    ASSUME ShardInv, ShardInv', CfgsGrow, HistInv, NEW c \in Client, NEW s \in Shard, putAppend(c, s)
    PROVE  HistInv'
<1> DEFINE ck == [clerk[c] EXCEPT !.pc = "call", !.seq = clerk[c].seq + 1, !.shard = s]
<1>1. /\ clerk' = [clerk EXCEPT ![c].pc = "call", ![c].seq = @ + 1, ![c].shard = s]
      /\ UNCHANGED <<latest, raftVars>> /\ UNCHANGED stateVars /\ UNCHANGED loopVars /\ acked' = acked
    BY DEF putAppend
<1>2. clerk[c] \in ClerkType /\ DOMAIN clerk = Client /\ clerk[c].seq \in 0 .. MaxSeq
    BY ClerkFacts
<1>3. clerk' = [clerk EXCEPT ![c] = ck]
    BY <1>1, <1>2
<1>4. ck.seq = clerk[c].seq + 1
    BY <1>2 DEF ClerkType
<1>5. ck.seq >= clerk[c].seq /\ ck.seq > clerk[c].seq
    BY <1>2, <1>4, BoundAssumption
<1> HIDE DEF ck
<1> QED BY <1>1, <1>3, <1>5, OneClerkHist

\* A write is refused.
LEMMA WrongGroupHist ==
    ASSUME ShardInv, ShardInv', CfgsGrow, HistInv, NEW c \in Client, NEW r \in Replica, WrongGroup(c, r)
    PROVE  HistInv'
<1> DEFINE ck == [clerk[c] EXCEPT !.cfg = latest]
<1>1. /\ clerk[c].pc = "call" /\ clerk' = [clerk EXCEPT ![c].cfg = latest]
      /\ UNCHANGED <<latest, raftVars>> /\ UNCHANGED stateVars /\ UNCHANGED loopVars /\ acked' = acked
    BY DEF WrongGroup
<1>2. /\ clerk[c] \in ClerkType /\ DOMAIN clerk = Client /\ latest \in 1 .. Len(Configs)
      /\ clerk[c].seq \in 0 .. MaxSeq
    BY <1>1, ClerkFacts
<1>3. clerk' = [clerk EXCEPT ![c] = ck]
    BY <1>1, <1>2
<1>4. ck.shard = clerk[c].shard /\ ck.seq = clerk[c].seq
    BY <1>2, RefreshedType
<1>5. ck.seq >= clerk[c].seq
    BY <1>2, <1>4, BoundAssumption
<1> HIDE DEF ck
<1> QED BY <1>1, <1>3, <1>4, <1>5, OneClerkHist

\* A write that waits is given up.
LEMMA giveUpHist == ASSUME ShardInv, ShardInv', CfgsGrow, HistInv, NEW c \in Client, giveUp(c) PROVE HistInv'
<1> DEFINE ck == Back(clerk[c], "call")
<1>1. /\ clerk[c].pc = "wait" /\ clerk' = [clerk EXCEPT ![c] = ck]
      /\ UNCHANGED <<latest, raftVars>> /\ UNCHANGED stateVars /\ UNCHANGED loopVars /\ acked' = acked
    BY DEF giveUp
<1>2. clerk[c] \in ClerkType /\ clerk[c].seq \in 0 .. MaxSeq
    BY <1>1, ClerkFacts
<1>3. ck.shard = clerk[c].shard /\ ck.seq = clerk[c].seq
    BY <1>2, BackType
<1>4. ck.seq >= clerk[c].seq
    BY <1>2, <1>3, BoundAssumption
<1> HIDE DEF ck
<1> QED BY <1>1, <1>3, <1>4, OneClerkHist

\* A read begins.
LEMMA GetHist ==
    ASSUME ShardInv, ShardInv', CfgsGrow, HistInv, NEW c \in Client, NEW r \in Replica, NEW s \in Shard, Get(c, r, s)
    PROVE  HistInv'
<1> DEFINE t == term[GroupOf[r]]
           ck == [clerk[c] EXCEPT !.pc = "reading", !.shard = s, !.at = r, !.term = t]
<1>1. /\ clerk' = [clerk EXCEPT ![c].pc = "reading", ![c].shard = s, ![c].at = r, ![c].term = t]
      /\ UNCHANGED <<latest, raftVars>> /\ UNCHANGED stateVars /\ UNCHANGED loopVars /\ acked' = acked
    BY DEF Get
<1>2. clerk[c] \in ClerkType /\ DOMAIN clerk = Client /\ clerk[c].seq \in 0 .. MaxSeq
    BY ClerkFacts
<1> HIDE DEF t
<1>3. clerk' = [clerk EXCEPT ![c] = ck]
    BY <1>1, <1>2
<1>4. ck.pc = "reading" /\ ck.seq = clerk[c].seq
    BY <1>2 DEF ClerkType
<1>5. ck.seq >= clerk[c].seq /\ ck.pc \notin {"call", "wait"}
    BY <1>2, <1>4, BoundAssumption
<1> HIDE DEF ck
<1> QED BY <1>1, <1>3, <1>5, OneClerkHist

\* A read ends.
LEMMA GetReplyHist == ASSUME ShardInv, ShardInv', CfgsGrow, HistInv, NEW c \in Client, GetReply(c) PROVE HistInv'
<1> DEFINE b == Back(clerk[c], "idle")
           wrongGroup == /\ noopAppliedTerm[clerk[c].at] = clerk[c].term
                         /\ ~Owns(GroupOf[clerk[c].at], kv[clerk[c].at], clerk[c].shard)
           n == IF wrongGroup THEN latest ELSE b.cfg
           ck == [b EXCEPT !.cfg = n]
<1>1. /\ clerk' = [clerk EXCEPT ![c] = ck]
      /\ UNCHANGED <<latest, raftVars>> /\ UNCHANGED stateVars /\ UNCHANGED loopVars /\ acked' = acked
    BY DEF GetReply
<1>2. clerk[c] \in ClerkType /\ latest \in 1 .. Len(Configs) /\ clerk[c].seq \in 0 .. MaxSeq
    BY ClerkFacts
<1>3. b \in ClerkType /\ b.pc = "idle" /\ b.seq = clerk[c].seq
    BY <1>2, BackType
<1> HIDE DEF b
<1>4. n \in 1 .. Len(Configs)
    BY <1>2, <1>3 DEF ClerkType
<1> HIDE DEF n
<1>5. ck.pc = "idle" /\ ck.seq = clerk[c].seq
    BY <1>3, <1>4, RefreshedType
<1>6. ck.seq >= clerk[c].seq /\ ck.pc \notin {"call", "wait"}
    BY <1>2, <1>5, BoundAssumption
<1> HIDE DEF ck
<1> QED BY <1>1, <1>6, OneClerkHist

\* No pull has nothing to keep.
LEMMA NoKeptPull == ASSUME NEW T, NEW C, NEW K, NEW g PROVE KeptPull(T, C, K, g, None)
BY DEF KeptPull

\* A proposal of an entry that has what it must keep.
LEMMA ProposedHist ==
    ASSUME ShardInv, ShardInv', CfgsGrow, NEW T \in Trace, HistOf(T), NEW r \in Replica, NEW op \in Op, Propose(r, op),
           KeptOp(T, commit, clerk, GroupOf[r], Len(log[GroupOf[r]]) + 1, op),
           latest' = latest, UNCHANGED stateVars, acked' = acked, Moves(clerk, clerk'),
           \A q \in Replica : pull'[q] \in {pull[q], None}, \A q \in Replica : gc'[q] \in {gc[q], None}
    PROVE  HistInv'
<1> DEFINE h == GroupOf[r]
<1>1. h \in Group /\ RaftPart
    BY GroupAssumption DEF ShardInv
<1>2. log' = [log EXCEPT ![h] = Append(log[h], op)] /\ commit' = commit
    BY DEF Propose
<1>3. log[h] \in Seq(Op) /\ Len(log[h]) \in Nat
    BY <1>1, LenProperties DEF RaftPart
<1>4. /\ Len(Append(log[h], op)) = Len(log[h]) + 1
      /\ \A i \in 1 .. Len(log[h]) : Append(log[h], op)[i] = log[h][i]
      /\ Append(log[h], op)[Len(log[h]) + 1] = op
    BY <1>3, AppendProperties
<1>5. \A g \in Group : log'[g] = IF g = h THEN Append(log[h], op) ELSE log[g]
    BY <1>1, <1>2 DEF RaftPart
<1>6. ASSUME NEW g \in Group
      PROVE  /\ commit[g] \in Nat /\ commit[g] <= Len(log[g]) /\ Len(log[g]) \in Nat
             /\ \A i \in 1 .. Len(log[g]) : log'[g][i] = log[g][i]
    <2>1. commit[g] \in Nat /\ commit[g] <= Len(log[g]) /\ Len(log[g]) \in Nat
        BY <1>1, LenProperties DEF RaftPart
    <2> QED BY <1>4, <1>5, <2>1
<1>7. Grows(log, commit, log', commit')
    <2>1. ASSUME NEW g \in Group, NEW i \in 1 .. commit[g] PROVE log'[g][i] = log[g][i]
        <3>1. i \in 1 .. Len(log[g])
            BY <1>6
        <3> QED BY <1>6, <3>1
    <2> QED BY <1>2, <1>6, <2>1 DEF Grows
<1>8. ASSUME NEW g \in Group, NEW i \in 1 .. Len(log'[g])
      PROVE  \/ i \in 1 .. Len(log[g]) /\ log'[g][i] = log[g][i]
             \/ KeptOp(T, commit, clerk, g, i, log'[g][i])
    <2>1. CASE i \in 1 .. Len(log[g])
        BY <1>6, <2>1
    <2>2. CASE i \notin 1 .. Len(log[g])
        <3>1. g = h
            BY <1>5, <2>2
        <3>2. i = Len(log[h]) + 1
            <4>1. Len(log'[g]) = Len(log[h]) + 1 /\ i \notin 1 .. Len(log[h])
                BY <1>4, <1>5, <2>2, <3>1
            <4> HIDE DEF h
            <4> QED BY <1>3, <4>1
        <3>3. log'[g][i] = op
            BY <1>1, <1>4, <1>5, <3>1, <3>2
        <3> QED BY <3>1, <3>2, <3>3
    <2> QED BY <2>1, <2>2
<1>9. latest <= latest'
    BY <1>1, ConfigsNat DEF RaftPart
<1>10. /\ \A q \in Replica : pull'[q] = pull[q] \/ KeptPull(T, commit, clerk, GroupOf[q], pull'[q])
       /\ \A q \in Replica : gc'[q] \in {gc[q], None} \/ Passed(T, commit, GroupOf[q], gc'[q])
    BY NoKeptPull
<1> QED BY <1>2, <1>7, <1>8, <1>9, <1>10, SameStates, SameTrace

\* A leader's no-op.
LEMMA noopLoopHist == ASSUME ShardInv, ShardInv', CfgsGrow, HistInv, NEW r \in Replica, noopLoop(r) PROVE HistInv'
<1> DEFINE op == [type |-> "Noop", term |-> term[GroupOf[r]]]
<1>1. PICK T \in Trace : HistOf(T)
    BY DEF HistInv
<1>2. /\ Propose(r, op) /\ latest' = latest /\ UNCHANGED stateVars /\ acked' = acked /\ clerk' = clerk
      /\ pull' = pull /\ gc' = gc
    BY DEF noopLoop
<1>3. op \in Op /\ op.type = "Noop"
    BY GroupAssumption DEF ShardInv, RaftPart, Op
<1> HIDE DEF op
<1>4. KeptOp(T, commit, clerk, GroupOf[r], Len(log[GroupOf[r]]) + 1, op)
    BY <1>3 DEF KeptOp
<1> QED BY <1>1, <1>2, <1>3, <1>4, SameClerks, ProposedHist

\* The next config.
LEMMA configPollHist == ASSUME ShardInv, ShardInv', CfgsGrow, HistInv, NEW r \in Replica, configPoll(r) PROVE HistInv'
<1> DEFINE n == kv[r].cfg
           op == [type |-> "Config", num |-> n + 1]
<1>1. PICK T \in Trace : HistOf(T)
    BY DEF HistInv
<1>2. /\ Propose(r, op) /\ latest' = latest /\ UNCHANGED stateVars /\ acked' = acked /\ clerk' = clerk
      /\ pull' = pull /\ gc' = gc /\ n + 1 <= latest
    BY DEF configPoll
<1>3. n \in Nat /\ latest \in 1 .. Len(Configs) /\ Len(Configs) \in Nat
    BY KVFields, ConfigsNat DEF ShardInv, RaftPart, StatePart
<1> HIDE DEF n
<1>4. n + 1 \in 1 .. Len(Configs)
    BY <1>2, <1>3
<1>5. op \in Op /\ op.type = "Config"
    BY <1>4 DEF Op
<1> HIDE DEF op
<1>6. KeptOp(T, commit, clerk, GroupOf[r], Len(log[GroupOf[r]]) + 1, op)
    BY <1>5 DEF KeptOp
<1> QED BY <1>1, <1>2, <1>5, <1>6, SameClerks, ProposedHist

\* A write reaches its leader: it is the one its clerk is about.
LEMMA PutAppendHist ==
    ASSUME ShardInv, ShardInv', CfgsGrow, HistInv, NEW c \in Client, NEW r \in Replica, PutAppend(c, r)
    PROVE  HistInv'
<1> DEFINE h == GroupOf[r]
           s == clerk[c].shard
           t == term[h]
           i == Len(log[h]) + 1
           op == [type |-> "Write", shard |-> s, client |-> c, seq |-> clerk[c].seq]
           ck == [clerk[c] EXCEPT !.pc = "wait", !.at = r, !.term = t, !.index = i]
<1>1. PICK T \in Trace : HistOf(T)
    BY DEF HistInv
<1>2. /\ clerk[c].pc = "call" /\ Propose(r, op)
      /\ clerk' = [clerk EXCEPT ![c].pc = "wait", ![c].at = r, ![c].term = t, ![c].index = i]
      /\ latest' = latest /\ UNCHANGED stateVars /\ acked' = acked /\ pull' = pull /\ gc' = gc
    BY DEF PutAppend, loopVars
<1>3. /\ clerk[c] \in ClerkType /\ DOMAIN clerk = Client /\ s \in Shard
      /\ clerk[c].seq \in 0 .. MaxSeq /\ clerk[c].seq >= 1
    BY <1>2, ClerkFacts
<1>4. clerk[c].seq \in 1 .. MaxSeq /\ MaxSeq \in Nat
    BY <1>3, BoundAssumption
<1>5. op \in Op /\ op.type = "Write" /\ op.shard = s /\ op.client = c /\ op.seq = clerk[c].seq
    BY <1>3, <1>4 DEF Op
<1>6. KeptOp(T, commit, clerk, h, i, op)
    <2>1. Fits(clerk, op.shard, WriteOf(op))
        BY <1>4, <1>5 DEF Fits, WriteOf
    <2>2. clerk[c].cfg \in 1 .. clerk[c].cfg /\ Owner(clerk[c].cfg, s) = h
        BY <1>3, ConfigsNat DEF PutAppend, ClerkType
    <2>3. Asked(clerk, op.client, h, op.shard)
        BY <1>5, <2>2 DEF Asked
    <2> QED BY <1>5, <2>1, <2>3 DEF KeptOp
<1>7. Moves(clerk, clerk')
    <2> HIDE DEF t, i
    <2>1. clerk' = [clerk EXCEPT ![c] = ck]
        BY <1>2, <1>3
    <2>2. ck.shard = s /\ ck.seq = clerk[c].seq
        BY <1>3 DEF ClerkType
    <2>3. ck.seq >= clerk[c].seq
        BY <1>4, <2>2
    <2> HIDE DEF ck
    <2> QED BY <1>2, <2>1, <2>2, <2>3, OneClerk
<1> HIDE DEF op
<1> QED BY <1>1, <1>2, <1>5, <1>6, <1>7, ProposedHist

\* What was pulled goes into the log.
LEMMA proposeMigrateHist ==
    ASSUME ShardInv, ShardInv', CfgsGrow, HistInv, NEW r \in Replica, proposeMigrate(r)
    PROVE  HistInv'
<1> DEFINE p == pull[r]
           g == GroupOf[r]
           op == [type |-> "Migrate", shard |-> p.shard, data |-> p.data, dup |-> p.dup]
<1>1. PICK T \in Trace : HistOf(T)
    BY DEF HistInv
<1>2. /\ p # None /\ p.step = "got" /\ pull' = [pull EXCEPT ![r] = None]
      /\ latest' = latest /\ UNCHANGED stateVars /\ acked' = acked /\ clerk' = clerk /\ gc' = gc
    BY DEF proposeMigrate
<1>3. pull \in [Replica -> PullType] /\ RaftPart
    BY DEF ShardInv, PullPart
<1>4. \A q \in Replica : pull'[q] \in {pull[q], None}
    BY <1>2, <1>3
<1>5. CASE UNCHANGED raftVars
    <2>1. UNCHANGED <<log, commit, acked>>
        BY <1>2, <1>5 DEF raftVars
    <2>2. /\ \A q \in Replica : pull'[q] = pull[q] \/ KeptPull(T, commit, clerk, GroupOf[q], pull'[q])
          /\ \A q \in Replica : gc'[q] \in {gc[q], None} \/ Passed(T, commit, GroupOf[q], gc'[q])
        BY <1>2, <1>4, NoKeptPull
    <2>3. latest <= latest'
        BY <1>2, <1>3, ConfigsNat DEF RaftPart
    <2> QED BY <1>1, <1>2, <2>1, <2>2, <2>3, SameStates, SameClerks, SameLogs
<1>6. CASE Propose(r, op)
    <2>1. p \in PullType /\ KeptPull(T, commit, clerk, g, p)
        BY <1>1, <1>3 DEF HistOf, ComingPart
    <2>2. p.shard \in Shard /\ p.data \in Seq(Write) /\ p.dup \in [Client -> 0 .. MaxSeq]
        BY <1>2, <2>1 DEF PullType, AskType, GotType
    <2> HIDE DEF p
    <2>3. op \in Op /\ op.type = "Migrate" /\ op.shard = p.shard /\ op.data = p.data /\ op.dup = p.dup
        BY <2>2 DEF Op
    <2> HIDE DEF op
    <2>4. /\ Known(T, commit, clerk, p.dup) /\ FitsAll(clerk, p.shard, p.data)
          /\ Complete(T, commit, g, p.shard, p.data) \/ Arrived(T, commit, g, p.shard, commit[g] + 1)
        BY <1>2, <2>1 DEF KeptPull
    <2>5. Arrived(T, commit, g, p.shard, commit[g] + 1) => Arrived(T, commit, g, p.shard, Len(log[g]) + 1)
        <3>1. g \in Group
            BY GroupAssumption
        <3>2. commit[g] \in Nat /\ commit[g] <= Len(log[g]) /\ Len(log[g]) \in Nat
            BY <1>3, <3>1, LenProperties DEF RaftPart
        <3>3. commit[g] + 1 \in Nat /\ Len(log[g]) + 1 \in Nat /\ commit[g] + 1 <= Len(log[g]) + 1
            BY <3>2
        <3>4. Extends(T, commit, T, commit)
            BY <1>3 DEF Extends, RaftPart
        <3> QED BY <3>1, <3>3, <3>4, ArrivedGrows
    <2>6. KeptOp(T, commit, clerk, g, Len(log[g]) + 1, op)
        BY <2>3, <2>4, <2>5 DEF KeptOp
    <2>7. \A q \in Replica : gc'[q] \in {gc[q], None}
        BY <1>2
    <2> QED BY <1>1, <1>2, <1>4, <1>6, <2>3, <2>6, <2>7, SameClerks, ProposedHist
<1>7. UNCHANGED raftVars \/ Propose(r, op)
    BY DEF proposeMigrate
<1> QED BY <1>5, <1>6, <1>7

\* The shard that left is to be deleted: the next owner has had it.
LEMMA proposeGCHist == ASSUME ShardInv, ShardInv', CfgsGrow, HistInv, NEW r \in Replica, proposeGC(r) PROVE HistInv'
<1> DEFINE s == gc[r]
           op == [type |-> "GC", shard |-> s]
<1>1. PICK T \in Trace : HistOf(T)
    BY DEF HistInv
<1>2. /\ s # None /\ gc' = [gc EXCEPT ![r] = None] /\ pull' = pull
      /\ latest' = latest /\ UNCHANGED stateVars /\ acked' = acked /\ clerk' = clerk
    BY DEF proposeGC
<1>3. gc \in [Replica -> Shard \cup {None}] /\ RaftPart
    BY DEF ShardInv, LoopPart
<1>4. s \in Shard /\ \A q \in Replica : gc'[q] \in {gc[q], None}
    BY <1>2, <1>3
<1>5. CASE UNCHANGED raftVars
    <2>1. UNCHANGED <<log, commit, acked>>
        BY <1>2, <1>5 DEF raftVars
    <2>2. /\ \A q \in Replica : pull'[q] = pull[q] \/ KeptPull(T, commit, clerk, GroupOf[q], pull'[q])
          /\ \A q \in Replica : gc'[q] \in {gc[q], None} \/ Passed(T, commit, GroupOf[q], gc'[q])
        BY <1>2, <1>4
    <2>3. latest <= latest'
        BY <1>2, <1>3, ConfigsNat DEF RaftPart
    <2> QED BY <1>1, <1>2, <2>1, <2>2, <2>3, SameStates, SameClerks, SameLogs
<1>6. CASE Propose(r, op)
    <2>1. Passed(T, commit, GroupOf[r], s)
        BY <1>1, <1>2 DEF HistOf, ComingPart
    <2> HIDE DEF s
    <2>2. op \in Op /\ op.type = "GC" /\ op.shard = s
        BY <1>4 DEF Op
    <2> HIDE DEF op
    <2>3. KeptOp(T, commit, clerk, GroupOf[r], Len(log[GroupOf[r]]) + 1, op)
        BY <2>1, <2>2 DEF KeptOp
    <2>4. \A q \in Replica : pull'[q] \in {pull[q], None}
        BY <1>2
    <2> QED BY <1>1, <1>2, <1>4, <1>6, <2>2, <2>3, <2>4, SameClerks, ProposedHist
<1>7. UNCHANGED raftVars \/ Propose(r, op)
    BY DEF proposeGC
<1> QED BY <1>5, <1>6, <1>7

\* Another leader: entries that are not committed may be gone.
LEMMA LeaderChangeHist ==
    ASSUME ShardInv, ShardInv', CfgsGrow, HistInv, NEW h \in Group, NEW r \in Replica, LeaderChange(h, r)
    PROVE  HistInv'
<1>1. PICK T \in Trace : HistOf(T)
    BY DEF HistInv
<1>2. PICK k \in commit[h] .. Len(log[h]) : log' = [log EXCEPT ![h] = SubSeq(log[h], 1, k)]
    BY DEF LeaderChange
<1>3. /\ commit' = commit /\ latest' = latest /\ acked' = acked /\ clerk' = clerk /\ pull' = pull /\ gc' = gc
      /\ UNCHANGED stateVars
    BY DEF LeaderChange
<1>4. RaftPart
    BY DEF ShardInv
<1>5. log[h] \in Seq(Op) /\ Len(log[h]) \in Nat /\ commit[h] \in Nat
    BY <1>4, LenProperties DEF RaftPart
<1>6. k \in Nat /\ k <= Len(log[h]) /\ commit[h] <= k
    BY <1>5
<1>7. /\ Len(SubSeq(log[h], 1, k)) = k
      /\ \A i \in 1 .. k : SubSeq(log[h], 1, k)[i] = log[h][i]
    <2>1. \A i \in 1 .. k : log[h][i] \in Op
        BY <1>5, <1>6, ElementOfSeq
    <2>2. CASE k = 0
        BY <1>5, <1>6, <2>1, <2>2, SubSeqProperties
    <2>3. CASE k # 0
        BY <1>5, <1>6, <2>1, <2>3, SubSeqProperties
    <2> QED BY <2>2, <2>3
<1>8. \A g \in Group : log'[g] = IF g = h THEN SubSeq(log[h], 1, k) ELSE log[g]
    BY <1>2, <1>4 DEF RaftPart
<1>9. ASSUME NEW g \in Group
      PROVE  /\ commit[g] \in Nat /\ commit[g] <= Len(log'[g]) /\ Len(log'[g]) \in Nat
             /\ Len(log'[g]) <= Len(log[g]) /\ Len(log[g]) \in Nat
             /\ \A i \in 1 .. Len(log'[g]) : log'[g][i] = log[g][i]
    <2>1. CASE g = h
        BY <1>5, <1>6, <1>7, <1>8, <2>1
    <2>2. CASE g # h
        <3>1. log'[g] = log[g]
            BY <1>8, <2>2
        <3>2. Len(log[g]) \in Nat /\ commit[g] \in Nat /\ commit[g] <= Len(log[g])
            BY <1>4, LenProperties DEF RaftPart
        <3> QED BY <3>1, <3>2
    <2> QED BY <2>1, <2>2
<1>10. Grows(log, commit, log', commit')
    <2>1. ASSUME NEW g \in Group, NEW i \in 1 .. commit[g] PROVE log'[g][i] = log[g][i]
        <3>1. i \in 1 .. Len(log'[g])
            BY <1>9
        <3> QED BY <1>9, <3>1
    <2> QED BY <1>3, <1>9, <2>1 DEF Grows
<1>11. ASSUME NEW g \in Group, NEW i \in 1 .. Len(log'[g])
       PROVE  i \in 1 .. Len(log[g]) /\ log'[g][i] = log[g][i]
    BY <1>9
<1>12. latest <= latest'
    BY <1>3, <1>4, ConfigsNat DEF RaftPart
<1>13. /\ \A q \in Replica : pull'[q] = pull[q] \/ KeptPull(T, commit, clerk, GroupOf[q], pull'[q])
       /\ \A q \in Replica : gc'[q] \in {gc[q], None} \/ Passed(T, commit, GroupOf[q], gc'[q])
    BY <1>3
<1> QED BY <1>1, <1>3, <1>10, <1>11, <1>12, <1>13, SameStates, SameClerks, SameTrace

\* A follower takes over the leader's snapshot, a state of the same history.
LEMMA restoreSnapshotHist ==
    ASSUME ShardInv, ShardInv', CfgsGrow, HistInv, NEW r \in Replica, restoreSnapshot(r)
    PROVE  HistInv'
<1>1. PICK T \in Trace : HistOf(T)
    BY DEF HistInv
<1> DEFINE l == leader[GroupOf[r]]
           sent == snapshot[l]
<1>2. /\ kv' = [kv EXCEPT ![r] = sent.kv] /\ applied' = [applied EXCEPT ![r] = sent.index]
      /\ snapshot' = [snapshot EXCEPT ![r] = sent]
      /\ UNCHANGED <<log, commit, acked>> /\ latest' = latest /\ pull' = pull /\ gc' = gc /\ clerk' = clerk
    BY DEF restoreSnapshot, raftVars, loopVars
<1>3. RaftPart /\ StatePart
    BY DEF ShardInv
<1>4. l \in Replica /\ GroupOf[l] = GroupOf[r]
    BY <1>3, GroupAssumption DEF RaftPart
<1>5. sent.kv = T[GroupOf[r]][sent.index]
    BY <1>1, <1>4 DEF HistOf, TracePart
<1> HIDE DEF sent
<1>6. ASSUME NEW q \in Replica
      PROVE  /\ kv'[q] = T[GroupOf[q]][applied'[q]]
             /\ snapshot'[q].kv = T[GroupOf[q]][snapshot'[q].index]
    <2>1. CASE q = r
        <3>1. kv'[q] = sent.kv /\ applied'[q] = sent.index /\ snapshot'[q] = sent
            BY <1>2, <1>3, <2>1 DEF StatePart
        <3> QED BY <1>5, <2>1, <3>1
    <2>2. CASE q # r
        <3>1. applied'[q] = applied[q] /\ kv'[q] = kv[q] /\ snapshot'[q] = snapshot[q]
            BY <1>2, <1>3, <2>2 DEF StatePart
        <3> QED BY <1>1, <3>1 DEF HistOf, TracePart
    <2> QED BY <2>1, <2>2
<1>7. latest <= latest'
    BY <1>2, <1>3, ConfigsNat DEF RaftPart
<1>8. /\ \A q \in Replica : pull'[q] = pull[q] \/ KeptPull(T, commit, clerk, GroupOf[q], pull'[q])
      /\ \A q \in Replica : gc'[q] \in {gc[q], None} \/ Passed(T, commit, GroupOf[q], gc'[q])
    BY <1>2
<1> QED BY <1>1, <1>2, <1>6, <1>7, <1>8, SameClerks, SameLogs

\* A replica goes back to its snapshot, an earlier state of the same history.
LEMMA RestartHist == ASSUME ShardInv, ShardInv', CfgsGrow, HistInv, NEW r \in Replica, Restart(r) PROVE HistInv'
<1>1. PICK T \in Trace : HistOf(T)
    BY DEF HistInv
<1> DEFINE to(c) == IF clerk[c].pc = "wait" THEN "call" ELSE "idle"
<1>2. /\ kv' = [kv EXCEPT ![r] = snapshot[r].kv] /\ applied' = [applied EXCEPT ![r] = snapshot[r].index]
      /\ snapshot' = snapshot
      /\ UNCHANGED <<log, commit, acked>> /\ latest' = latest
      /\ pull' = [pull EXCEPT ![r] = None] /\ gc' = [gc EXCEPT ![r] = None]
      /\ clerk' = [c \in Client |-> IF clerk[c].at # r THEN clerk[c] ELSE Back(clerk[c], to(c))]
    BY DEF Restart, raftVars
<1>3. RaftPart /\ StatePart /\ PullPart /\ LoopPart
    BY DEF ShardInv
<1>4. ASSUME NEW q \in Replica
      PROVE  /\ kv'[q] = T[GroupOf[q]][applied'[q]]
             /\ snapshot'[q].kv = T[GroupOf[q]][snapshot'[q].index]
    <2>1. /\ kv[q] = T[GroupOf[q]][applied[q]]
          /\ snapshot[q].kv = T[GroupOf[q]][snapshot[q].index]
        BY <1>1 DEF HistOf, TracePart
    <2>2. CASE q = r
        <3>1. kv'[q] = snapshot[q].kv /\ applied'[q] = snapshot[q].index
            BY <1>2, <1>3, <2>2 DEF StatePart
        <3> QED BY <1>2, <2>1, <3>1
    <2>3. CASE q # r
        <3>1. applied'[q] = applied[q] /\ kv'[q] = kv[q]
            BY <1>2, <1>3, <2>3 DEF StatePart
        <3> QED BY <1>2, <2>1, <3>1
    <2> QED BY <2>2, <2>3
<1>5. ASSUME NEW c \in Client
      PROVE  /\ clerk'[c].seq >= clerk[c].seq
             /\ clerk'[c].pc \in {"call", "wait"} =>
                   \/ clerk'[c].seq > clerk[c].seq
                   \/ clerk[c].pc \in {"call", "wait"} /\ clerk'[c].shard = clerk[c].shard /\ clerk'[c].seq = clerk[c].seq
    <2>1. clerk[c] \in ClerkType /\ clerk[c].seq \in 0 .. MaxSeq /\ MaxSeq \in Nat
        BY ClerkFacts, BoundAssumption
    <2>2. CASE clerk[c].at # r
        <3>1. clerk'[c] = clerk[c]
            BY <1>2, <2>2
        <3> QED BY <2>1, <3>1
    <2>3. CASE clerk[c].at = r
        <3>1. clerk'[c] = Back(clerk[c], to(c)) /\ to(c) \in {"idle", "call", "wait", "reading"}
            BY <1>2, <2>3
        <3>2. clerk'[c].pc = to(c) /\ clerk'[c].seq = clerk[c].seq /\ clerk'[c].shard = clerk[c].shard
            BY <2>1, <3>1, BackType
        <3>3. clerk'[c].pc \in {"call", "wait"} => clerk[c].pc = "wait"
            BY <3>2
        <3> QED BY <2>1, <3>2, <3>3
    <2> QED BY <2>2, <2>3
<1>6. Moves(clerk, clerk')
    BY <1>5 DEF Moves
<1>7. latest <= latest'
    BY <1>2, <1>3, ConfigsNat DEF RaftPart
<1>8. \A q \in Replica : pull'[q] \in {pull[q], None} /\ gc'[q] \in {gc[q], None}
    BY <1>2, <1>3 DEF PullPart, LoopPart
<1>9. /\ \A q \in Replica : pull'[q] = pull[q] \/ KeptPull(T, commit, clerk, GroupOf[q], pull'[q])
      /\ \A q \in Replica : gc'[q] \in {gc[q], None} \/ Passed(T, commit, GroupOf[q], gc'[q])
    BY <1>8, NoKeptPull
<1> QED BY <1>1, <1>2, <1>4, <1>6, <1>7, <1>9, SameLogs

\* What a step of the migration loop that only changes the pull has to show.
LEMMA PullHist ==
    ASSUME ShardInv, ShardInv', CfgsGrow, NEW T \in Trace, HistOf(T), NEW r \in Replica, NEW p,
           pull' = [pull EXCEPT ![r] = p], KeptPull(T, commit, clerk, GroupOf[r], p),
           UNCHANGED <<latest, raftVars>>, UNCHANGED stateVars, UNCHANGED <<clerk, acked>>, gc' = gc
    PROVE  HistInv'
<1>1. UNCHANGED <<log, commit, acked>> /\ clerk' = clerk
    BY DEF raftVars
<1>2. latest <= latest'
    BY ConfigsNat DEF ShardInv, RaftPart
<1>3. ASSUME NEW q \in Replica PROVE pull'[q] = pull[q] \/ KeptPull(T, commit, clerk, GroupOf[q], pull'[q])
    <2>1. pull'[q] = IF q = r THEN p ELSE pull[q]
        BY DEF ShardInv, PullPart
    <2> QED BY <2>1
<1>4. \A q \in Replica : gc'[q] \in {gc[q], None} \/ Passed(T, commit, GroupOf[q], gc'[q])
    OBVIOUS
<1> QED BY <1>1, <1>2, <1>3, <1>4, SameStates, SameClerks, SameLogs

\* The migration loop asks.
LEMMA migrationTickHist ==
    ASSUME ShardInv, ShardInv', CfgsGrow, HistInv, NEW r \in Replica, NEW s \in Shard, migrationTick(r, s)
    PROVE  HistInv'
<1> DEFINE p == [step |-> "ask", shard |-> s, from |-> kv[r].migrating[s], num |-> kv[r].cfg]
<1>1. PICK T \in Trace : HistOf(T)
    BY DEF HistInv
<1>2. /\ pull' = [pull EXCEPT ![r] = p] /\ gc' = gc
      /\ UNCHANGED <<latest, raftVars>> /\ UNCHANGED stateVars /\ UNCHANGED <<clerk, acked>>
    BY DEF migrationTick
<1>3. p.step = "ask"
    OBVIOUS
<1> HIDE DEF p
<1>4. KeptPull(T, commit, clerk, GroupOf[r], p)
    BY <1>3 DEF KeptPull
<1> QED BY <1>1, <1>2, <1>4, PullHist

\* No donor is ready.
LEMMA pullNotReadyHist ==
    ASSUME ShardInv, ShardInv', CfgsGrow, HistInv, NEW r \in Replica, pullNotReady(r)
    PROVE  HistInv'
<1>1. PICK T \in Trace : HistOf(T)
    BY DEF HistInv
<1>2. /\ pull' = [pull EXCEPT ![r] = None] /\ gc' = gc
      /\ UNCHANGED <<latest, raftVars>> /\ UNCHANGED stateVars /\ UNCHANGED <<clerk, acked>>
    BY DEF pullNotReady
<1> QED BY <1>1, <1>2, NoKeptPull, PullHist

\* A replica's state is a state of the history, with all that holds of those.
LEMMA StateFacts ==
    ASSUME ShardInv, NEW T \in Trace, HistOf(T), NEW r \in Replica
    PROVE  /\ GroupOf[r] \in Group /\ commit[GroupOf[r]] \in Nat /\ applied[r] \in Nat
           /\ applied[r] \in 0 .. commit[GroupOf[r]] /\ kv[r] = T[GroupOf[r]][applied[r]] /\ kv[r] \in KV
           /\ GoodState(log, commit, latest, GroupOf[r], applied[r], kv[r])
           /\ KeptState(T, commit, clerk, GroupOf[r], kv[r])
<1>1. GroupOf[r] \in Group
    BY GroupAssumption
<1>2. /\ commit[GroupOf[r]] \in Nat /\ kv[r] \in KV
      /\ GoodState(log, commit, latest, GroupOf[r], applied[r], kv[r])
    BY <1>1 DEF ShardInv, RaftPart, StatePart
<1>3. applied[r] \in Nat /\ applied[r] <= commit[GroupOf[r]]
    BY <1>2 DEF GoodState
<1>4. applied[r] \in 0 .. commit[GroupOf[r]]
    BY <1>2, <1>3
<1>5. kv[r] = T[GroupOf[r]][applied[r]]
    BY DEF HistOf, TracePart
<1>6. KeptState(T, commit, clerk, GroupOf[r], kv[r])
    BY <1>1, <1>4, <1>5 DEF HistOf, PastPart
<1> QED BY <1>1, <1>2, <1>3, <1>4, <1>5, <1>6

\* A group that owns a shard has had it.
LEMMA OwnsHad ==
    ASSUME NEW g \in Group, NEW s \in Shard, NEW st \in KV, Owns(g, st, s)
    PROVE  HadBy(g, s, st) /\ st.cfg \in 1 .. Len(Configs) /\ Owner(st.cfg, s) = g
<1>1. st.cfg \in 0 .. Len(Configs) /\ Len(Configs) \in Nat
    BY KVFields, ConfigsNat
<1>2. Owner(st.cfg, s) = g /\ st.migrating[s] = None
    BY DEF Owns
<1>3. st.cfg # 0
    BY <1>2, GroupAssumption DEF Owner
<1>4. st.cfg \in 1 .. Len(Configs) /\ st.cfg \in 1 .. st.cfg
    BY <1>1, <1>3
<1> QED BY <1>2, <1>4 DEF HadBy

\* The recipient owns the shard, so it has had it.
LEMMA recipientReadyHist ==
    ASSUME ShardInv, ShardInv', CfgsGrow, HistInv, NEW r \in Replica, NEW s \in Shard, NEW d \in Replica,
           recipientReady(r, s, d)
    PROVE  HistInv'
<1> DEFINE g == GroupOf[r]
           h == GroupOf[d]
<1>1. PICK T \in Trace : HistOf(T)
    BY DEF HistInv
<1>2. /\ kv[r].leaving[s] # None /\ h = kv[r].leaving[s] /\ Owns(h, kv[d], s)
      /\ gc' = [gc EXCEPT ![r] = s] /\ pull' = pull /\ latest' = latest /\ clerk' = clerk
      /\ UNCHANGED <<log, commit, acked>> /\ UNCHANGED stateVars
    BY DEF recipientReady, HasShard, raftVars
<1>3. /\ g \in Group /\ h \in Group /\ commit[h] \in Nat /\ kv[r] \in KV /\ kv[d] \in KV
      /\ KeptState(T, commit, clerk, g, kv[r])
      /\ applied[d] \in 0 .. commit[h] /\ kv[d] = T[h][applied[d]]
    BY <1>1, StateFacts
<1>4. LeavesLost(g, kv[r])
    BY <1>3 DEF KeptState
<1>5. \E n \in 2 .. Len(Configs) : Gains(h, s, n, g)
    BY <1>2, <1>3, <1>4, LeavingLost
<1>6. HadBy(h, s, kv[d])
    BY <1>2, <1>3, OwnsHad
<1>7. Arrived(T, commit, h, s, commit[h] + 1)
    <2>1. applied[d] < commit[h] + 1
        BY <1>3
    <2> QED BY <1>3, <1>6, <2>1 DEF Arrived
<1>8. Passed(T, commit, g, s)
    BY <1>3, <1>5, <1>7 DEF Passed
<1>9. ASSUME NEW q \in Replica PROVE gc'[q] \in {gc[q], None} \/ Passed(T, commit, GroupOf[q], gc'[q])
    <2>1. gc'[q] = IF q = r THEN s ELSE gc[q]
        BY <1>2 DEF ShardInv, LoopPart
    <2> QED BY <1>8, <2>1
<1>10. latest <= latest'
    BY <1>2, ConfigsNat DEF ShardInv, RaftPart
<1>11. \A q \in Replica : pull'[q] = pull[q] \/ KeptPull(T, commit, clerk, GroupOf[q], pull'[q])
    BY <1>2
<1> QED BY <1>1, <1>2, <1>9, <1>10, <1>11, SameStates, SameClerks, SameLogs

\* Under Orderly, a shard goes from a group to one other.
LEMMA NextUnique ==
    ASSUME Orderly, NEW f, NEW g, NEW h, NEW s \in Shard, NEW k, NEW n,
           Gains(g, s, k, f), Gains(h, s, n, f)
    PROVE  g = h
<1>1. /\ k \in 2 .. Len(Configs) /\ Owner(k, s) = g /\ Owner(k - 1, s) = f /\ f # g
      /\ n \in 2 .. Len(Configs) /\ Owner(n, s) = h /\ Owner(n - 1, s) = f /\ f # h
    BY DEF Gains
<1>2. Len(Configs) \in Nat
    BY ConfigsNat
<1>3. k - 1 \in 1 .. Len(Configs) /\ n - 1 \in 1 .. Len(Configs) /\ k \in Nat /\ n \in Nat
    BY <1>1, <1>2
<1>4. CASE k < n
    <2>1. k - 1 <= k /\ k <= n - 1
        BY <1>3, <1>4
    <2>2. Owner(k, s) = Owner(k - 1, s)
        BY <1>1, <1>3, <2>1, OwnsBetween
    <2> QED BY <1>1, <2>2
<1>5. CASE n < k
    <2>1. n - 1 <= n /\ n <= k - 1
        BY <1>3, <1>5
    <2>2. Owner(n, s) = Owner(n - 1, s)
        BY <1>1, <1>3, <2>1, OwnsBetween
    <2> QED BY <1>1, <2>2
<1>6. CASE k = n
    BY <1>1, <1>6
<1> QED BY <1>3, <1>4, <1>5, <1>6

\* Under Orderly, whoever owned s before h is the one h got it from, or owned
\* it before that one.
LEMMA BeforeDonor ==
    ASSUME Orderly, NEW e \in Group, NEW f \in Group, NEW h \in Group, NEW s \in Shard, NEW k,
           Gains(h, s, k, f), Before(e, h, s), e # f
    PROVE  Before(e, f, s)
<1>1. k \in 2 .. Len(Configs) /\ Owner(k, s) = h /\ Owner(k - 1, s) = f
    BY DEF Gains
<1>2. PICK m \in 1 .. Len(Configs) : e # h /\ Owner(m, s) = h /\ \E n \in 1 .. m : Owner(n, s) = e
    BY DEF Before
<1>3. PICK n \in 1 .. m : Owner(n, s) = e
    BY <1>2
<1>4. Len(Configs) \in Nat
    BY ConfigsNat
<1>5. ~(k <= n)
    <2>1. ASSUME k <= n PROVE FALSE
        <3>1. k \in 1 .. Len(Configs) /\ n \in Nat /\ n <= m
            BY <1>1, <1>4
        <3>2. Owner(n, s) = Owner(k, s)
            BY <1>1, <1>2, <2>1, <3>1, OwnsBetween
        <3> QED BY <1>1, <1>2, <1>3, <3>2
    <2> QED BY <2>1
<1>6. k - 1 \in 1 .. Len(Configs) /\ n \in 1 .. k - 1
    BY <1>1, <1>4, <1>5
<1> QED BY <1>1, <1>3, <1>6 DEF Before

\* What a donor that is past the config of the move answers with is complete
\* for the recipient; if it has deleted the shard, it answers too late.
LEMMA DonorComplete ==
    ASSUME Orderly, ShardInv, NEW T \in Trace, HistOf(T), NEW d \in Replica, NEW h \in Group, NEW s \in Shard,
           NEW k, Gains(h, s, k, GroupOf[d]), k <= kv[d].cfg, kv[d].migrating[s] = None
    PROVE  \/ Complete(T, commit, h, s, kv[d].store[s])
           \/ Arrived(T, commit, h, s, commit[h] + 1)
<1> DEFINE f == GroupOf[d]
           x == applied[d]
           st == kv[d]
<1>1. /\ f \in Group /\ commit[f] \in Nat /\ x \in Nat /\ x \in 0 .. commit[f] /\ st = T[f][x] /\ st \in KV
      /\ GoodState(log, commit, latest, f, x, st) /\ KeptState(T, commit, clerk, f, st)
    BY StateFacts
<1>2. k \in 2 .. Len(Configs) /\ Owner(k, s) = h /\ Owner(k - 1, s) = f /\ f # h
    BY DEF Gains
<1>3. st.cfg \in Nat /\ st.cfg \in 0 .. Len(Configs) /\ Len(Configs) \in Nat
    BY <1>1, KVFields, ConfigsNat
<1> HIDE DEF f, x, st
<1>4. k - 1 \in 1 .. st.cfg /\ k \in 1 .. st.cfg
    BY <1>2, <1>3 DEF st
<1>5. HadBy(f, s, st)
    BY <1>2, <1>4 DEF HadBy, st
<1>6. /\ Complete(T, commit, f, s, st.store[s]) \/ Collected(f, s, st)
      /\ Collected(f, s, st) => Passed(T, commit, f, s)
    BY <1>1, <1>5 DEF KeptState
<1>7. CASE Collected(f, s, st)
    <2>1. PICK g \in Group : /\ \E n \in 2 .. Len(Configs) : Gains(g, s, n, f)
                             /\ Arrived(T, commit, g, s, commit[g] + 1)
        BY <1>6, <1>7 DEF Passed
    <2>2. g = h
        BY <2>1, NextUnique DEF f
    <2> QED BY <2>1, <2>2
<1>8. CASE ~Collected(f, s, st)
    <2>1. ASSUME NEW e \in Group, NEW w \in Write, Before(e, h, s), Seen(T, commit, e, s, w)
          PROVE  Has(st.store[s], w)
        <3>1. CASE e # f
            <4>1. Before(e, f, s)
                BY <1>1, <2>1, <3>1, BeforeDonor DEF f
            <4> QED BY <1>6, <1>8, <2>1, <4>1 DEF Complete
        <3>2. CASE e = f
            <4>1. PICK i \in 0 .. commit[f] : Owns(f, T[f][i], s) /\ Has(T[f][i].store[s], w)
                BY <2>1, <3>2 DEF Seen
            <4>2. T[f][i] \in KV /\ FollowsLog(log[f], i, T[f][i])
                BY <1>1 DEF HistOf, PastPart, GoodState
            <4> DEFINE c == T[f][i].cfg
            <4>3. HadBy(f, s, T[f][i]) /\ c \in 1 .. Len(Configs) /\ Owner(c, s) = f
                BY <1>1, <4>1, <4>2, OwnsHad
            <4> HIDE DEF c
            <4>4. ASSUME x < i PROVE FALSE
                <5>1. PICK j \in 1 .. x : IsConfig(log[f][j], k)
                    BY <1>1, <1>4 DEF GoodState, FollowsLog
                <5>2. j \in 1 .. i
                    BY <1>1, <4>4
                <5>3. k <= c
                    BY <4>2, <5>1, <5>2 DEF FollowsLog, IsConfig, c
                <5>4. k - 1 \in 1 .. Len(Configs) /\ k \in Nat /\ k - 1 <= k
                    BY <1>2, <1>3
                <5>5. Owner(k, s) = Owner(k - 1, s)
                    BY <1>2, <4>3, <5>3, <5>4, OwnsBetween
                <5> QED BY <1>2, <5>5
            <4>5. i \in 0 .. x
                BY <1>1, <4>4
            <4>6. Lasts(f, s, T[f][i], T[f][x])
                BY <1>1, <4>5 DEF HistOf, PastPart, Lasting
            <4> QED BY <1>1, <1>8, <4>1, <4>3, <4>6 DEF Lasts
        <3> QED BY <3>1, <3>2
    <2> QED BY <2>1 DEF Complete, st
<1> QED BY <1>7, <1>8

\* A donor answers.
LEMMA PulledHist ==
    ASSUME Orderly, ShardInv, ShardInv', CfgsGrow, HistInv, NEW r \in Replica, NEW d \in Replica, Pull(r, d)
    PROVE  HistInv'
<1> DEFINE a == pull[r]
           g == GroupOf[r]
           f == GroupOf[d]
           st == kv[d]
           p == [step |-> "got", shard |-> a.shard, data |-> st.store[a.shard], dup |-> st.duplicateTable]
<1>1. PICK T \in Trace : HistOf(T)
    BY DEF HistInv
<1>2. /\ a # None /\ a.step = "ask" /\ f = a.from /\ PullReady(st, a.shard, a.num)
      /\ pull' = [pull EXCEPT ![r] = p] /\ gc' = gc
      /\ UNCHANGED <<latest, raftVars>> /\ UNCHANGED stateVars /\ UNCHANGED <<clerk, acked>>
    BY DEF Pull
<1>3. a \in PullType /\ GoodPull(log, commit, g, a)
    BY DEF ShardInv, PullPart
<1>4. a.shard \in Shard /\ a.num \in 1 .. Len(Configs)
    BY <1>2, <1>3 DEF PullType, AskType, GotType
<1>5. PICK k \in 2 .. a.num : Gains(g, a.shard, k, f)
    BY <1>2, <1>3 DEF GoodPull
<1>6. g \in Group /\ st \in KV /\ KeptState(T, commit, clerk, f, st)
    BY <1>1, GroupAssumption, StateFacts
<1>7. st.cfg \in Nat /\ Len(Configs) \in Nat
    BY <1>6, KVFields, ConfigsNat
<1>8. st.cfg >= a.num /\ st.migrating[a.shard] = None
    BY <1>2 DEF PullReady
<1>9. k <= st.cfg
    <2> HIDE DEF a, st
    <2> QED BY <1>4, <1>7, <1>8
<1>10. \/ Complete(T, commit, g, a.shard, st.store[a.shard])
       \/ Arrived(T, commit, g, a.shard, commit[g] + 1)
    BY <1>1, <1>4, <1>5, <1>6, <1>8, <1>9, DonorComplete
<1>11. Known(T, commit, clerk, st.duplicateTable) /\ FitsAll(clerk, a.shard, st.store[a.shard])
    BY <1>4, <1>6 DEF KeptState
<1>12. p.shard = a.shard /\ p.data = st.store[a.shard] /\ p.dup = st.duplicateTable
    OBVIOUS
<1> HIDE DEF p
<1>13. KeptPull(T, commit, clerk, g, p)
    BY <1>10, <1>11, <1>12 DEF KeptPull
<1> QED BY <1>1, <1>2, <1>13, PullHist

\* The write that a group applies for the clerk that waits for it, where it
\* owns the shard, is seen: it takes effect now, or it is the one the
\* duplicate table has of that clerk, and that was to the same shard.
LEMMA AckedSeen ==
    ASSUME ShardInv, NEW U \in Trace, NEW D, PastPart(U, log, D, latest, clerk), NEW h \in Group, NEW n \in Nat,
           D[h] \in Nat, n + 1 <= D[h], NEW op \in Op, op.type = "Write", U[h][n + 1] = Applied(h, U[h][n], op),
           Owns(h, U[h][n], op.shard), clerk[op.client].pc = "wait", op.seq = clerk[op.client].seq,
           Fits(clerk, op.shard, WriteOf(op))
    PROVE  \E f \in Group : Seen(U, D, f, op.shard, WriteOf(op))
<1> DEFINE st == U[h][n]
           new == U[h][n + 1]
<1>1. op.shard \in Shard /\ op.client \in Client /\ op.seq \in 1 .. MaxSeq /\ MaxSeq \in Nat
    BY OpFields, BoundAssumption
<1>2. n \in 0 .. D[h] /\ n + 1 \in 0 .. D[h]
    OBVIOUS
<1>3. st \in KV /\ KeptState(U, D, clerk, h, st)
    BY <1>2 DEF PastPart, GoodState
<1>4. st.duplicateTable \in [Client -> 0 .. MaxSeq] /\ st.store[op.shard] \in Seq(Write)
    BY <1>1, <1>3, KVFields
<1>5. WriteOf(op) \in Write /\ WriteOf(op).client = op.client /\ WriteOf(op).seq = op.seq
    BY <1>1 DEF Write, WriteOf
<1>6. CASE IsNew(st, op)
    <2>1. Applied(h, st, op) = ApplyWrite(h, st, op)
        BY DEF Applied
    <2>2. LET w == ApplyWrite(h, st, op) IN
          /\ w.cfg = st.cfg /\ w.migrating = st.migrating
          /\ w.duplicateTable = [st.duplicateTable EXCEPT ![op.client] = op.seq]
          /\ \A s \in Shard : w.store[s] = IF s = op.shard THEN Append(st.store[s], WriteOf(op)) ELSE st.store[s]
        BY <1>3, <1>6, ApplyWriteFields
    <2>3. new = ApplyWrite(h, st, op)
        BY <2>1
    <2>4. /\ new.cfg = st.cfg /\ new.migrating = st.migrating
          /\ new.store[op.shard] = Append(st.store[op.shard], WriteOf(op))
        BY <1>1, <2>2, <2>3
    <2>5. Owns(h, new, op.shard)
        BY <2>4 DEF Owns
    <2>6. Has(new.store[op.shard], WriteOf(op))
        BY <1>4, <1>5, <2>4, HasAppend
    <2>7. Seen(U, D, h, op.shard, WriteOf(op))
        BY <1>2, <2>5, <2>6 DEF Seen
    <2> QED BY <2>7
<1>7. CASE ~IsNew(st, op)
    <2> DEFINE c == op.client
               q == st.duplicateTable[c]
    <2>1. q \in 0 .. MaxSeq /\ op.seq <= q /\ q # 0
        <3>1. ~(op.seq > q)
            BY <1>7 DEF IsNew
        <3>2. q \in 0 .. MaxSeq
            BY <1>1, <1>4
        <3> HIDE DEF q
        <3> QED BY <1>1, <3>1, <3>2
    <2> HIDE DEF q
    <2>2. PICK f \in Group, s \in Shard : Seen(U, D, f, s, [client |-> c, seq |-> q])
        BY <1>1, <1>3, <2>1 DEF KeptState, Known, q
    <2> DEFINE w == [client |-> c, seq |-> q]
    <2>3. PICK i \in 0 .. D[f] : Owns(f, U[f][i], s) /\ Has(U[f][i].store[s], w)
        BY <2>2 DEF Seen
    <2>4. FitsAll(clerk, s, U[f][i].store[s])
        BY <2>3 DEF PastPart, KeptState
    <2>5. Fits(clerk, s, w)
        BY <2>3, <2>4 DEF Has, FitsAll
    <2>6. w.client = c /\ w.seq = q
        OBVIOUS
    <2> HIDE DEF w
    <2>7. q <= clerk[c].seq
        BY <2>5, <2>6 DEF Fits
    <2>8. q = op.seq
        BY <1>1, <2>1, <2>7
    <2>9. s = clerk[c].shard
        BY <2>5, <2>6, <2>8 DEF Fits
    <2>10. op.shard = clerk[c].shard
        BY <1>5 DEF Fits
    <2>11. Seen(U, D, f, op.shard, WriteOf(op))
        BY <2>2, <2>8, <2>9, <2>10 DEF WriteOf
    <2> QED BY <2>11
<1> QED BY <1>6, <1>7

\* The history after applyLoop: with one more entry, if nobody has applied it.
LEMMA appliedTrace ==
    ASSUME Orderly, ShardInv, NEW T \in Trace, HistOf(T), NEW r \in Replica, applyLoop(r)
    PROVE  \E U \in Trace : /\ Extends(T, commit, U, commit') /\ TraceOf(U, log, commit')
                            /\ PastPart(U, log, commit', latest, clerk)
                            /\ ComingPart(U, log, commit', clerk, pull, gc)
<1> DEFINE h == GroupOf[r]
           n == applied[r]
<1>1. /\ n + 1 <= Len(log[h])
      /\ commit' = [commit EXCEPT ![h] = IF n + 1 > commit[h] THEN n + 1 ELSE commit[h]]
    BY DEF applyLoop
<1>2. h \in Group /\ n \in Nat /\ commit[h] \in Nat /\ n \in 0 .. commit[h]
    BY StateFacts
<1>3. /\ TraceOf(T, log, commit) /\ PastPart(T, log, commit, latest, clerk)
      /\ ComingPart(T, log, commit, clerk, pull, gc)
    BY DEF HistOf, TracePart
<1>4. RaftPart /\ OpsPart /\ PullPart
    BY DEF ShardInv
<1>5. /\ log \in [Group -> Seq(Op)] /\ commit \in [Group -> Nat] /\ latest \in Nat
      /\ \A f \in Group : commit[f] <= Len(log[f])
      /\ \A f \in Group : \A i \in 1 .. Len(log[f]) : GoodOp(log, commit, latest, f, i)
      /\ pull \in [Replica -> PullType] /\ \A q \in Replica : GoodPull(log, commit, GroupOf[q], pull[q])
    BY <1>4, ConfigsNat DEF RaftPart, OpsPart, PullPart
<1> HIDE DEF h, n
<1>6. CASE n + 1 <= commit[h]
    <2>1. ~(n + 1 > commit[h])
        BY <1>2, <1>6
    <2>2. commit' = commit
        BY <1>1, <1>5, <2>1
    <2>3. Extends(T, commit, T, commit')
        BY <1>5, <2>2 DEF Extends
    <2>4. /\ TraceOf(T, log, commit') /\ PastPart(T, log, commit', latest, clerk)
          /\ ComingPart(T, log, commit', clerk, pull, gc)
        BY <1>3, <2>2
    <2> QED BY <2>3, <2>4
<1>7. CASE ~(n + 1 <= commit[h])
    <2>1. n = commit[h] /\ n + 1 > commit[h]
        BY <1>2, <1>7
    <2>2. commit' = [commit EXCEPT ![h] = commit[h] + 1] /\ commit[h] + 1 <= Len(log[h])
        BY <1>1, <2>1
    <2> QED BY <1>2, <1>3, <1>5, <2>2, OneMore
<1> QED BY <1>6, <1>7

\* A committed entry is applied, and the clerk that waits for it is answered.
LEMMA applyLoopHist ==
    ASSUME Orderly, ShardInv, ShardInv', CfgsGrow, HistInv, NEW r \in Replica, applyLoop(r)
    PROVE  HistInv'
<1> DEFINE h == GroupOf[r]
           n == applied[r]
           op == log[h][n + 1]
           st == Applied(h, kv[r], op)
           owned == op.type = "Write" /\ Owns(h, kv[r], op.shard)
           waiting(c) == clerk[c].pc = "wait" /\ clerk[c].at = r /\ clerk[c].index = n + 1
<1>1. PICK T \in Trace : HistOf(T)
    BY DEF HistInv
<1>2. /\ n + 1 <= Len(log[h])
      /\ commit' = [commit EXCEPT ![h] = IF n + 1 > commit[h] THEN n + 1 ELSE commit[h]]
      /\ kv' = [kv EXCEPT ![r] = st] /\ applied' = [applied EXCEPT ![r] = n + 1]
      /\ log' = log /\ latest' = latest /\ pull' = pull /\ gc' = gc
    BY DEF applyLoop, loopVars
<1>3. snapshot' = [snapshot EXCEPT ![r] =
              IF MaxRaftState # 0 /\ (n + 1) - snapshot[r].index >= MaxRaftState
              THEN [index |-> n + 1, kv |-> st] ELSE snapshot[r]]
    BY DEF applyLoop
<1>4. /\ clerk' = [c \in Client |-> IF waiting(c) THEN Answer(clerk[c], c, op, owned) ELSE clerk[c]]
      /\ acked' = acked \cup
              {[shard |-> op.shard, client |-> c, seq |-> clerk[c].seq] :
                   c \in {d \in Client : waiting(d) /\ clerk'[d].pc = "idle"}}
    BY DEF applyLoop
<1>5. PICK U \in Trace : /\ Extends(T, commit, U, commit') /\ TraceOf(U, log, commit')
                         /\ PastPart(U, log, commit', latest, clerk)
                         /\ ComingPart(U, log, commit', clerk, pull, gc)
    BY <1>1, appliedTrace
<1>6. /\ h \in Group /\ n \in Nat /\ commit[h] \in Nat /\ n \in 0 .. commit[h] /\ kv[r] = T[h][n]
    BY <1>1, StateFacts
<1>7. RaftPart /\ StatePart /\ RaftPart'
    BY DEF ShardInv
<1>8. log[h] \in Seq(Op) /\ Len(log[h]) \in Nat /\ n + 1 \in 1 .. Len(log[h]) /\ latest \in 1 .. Len(Configs)
    <2>1. log[h] \in Seq(Op) /\ Len(log[h]) \in Nat /\ latest \in 1 .. Len(Configs)
        BY <1>6, <1>7, LenProperties DEF RaftPart
    <2> HIDE DEF n, h
    <2> QED BY <1>2, <1>6, <2>1
<1>9. op \in Op /\ KeptOp(U, commit', clerk, h, n + 1, op)
    BY <1>5, <1>6, <1>8, ElementOfSeq DEF ComingPart
<1>10. commit'[h] \in Nat /\ n + 1 <= commit'[h] /\ n + 1 \in 1 .. commit'[h]
    <2>1. commit'[h] = IF n + 1 > commit[h] THEN n + 1 ELSE commit[h]
        BY <1>2, <1>6, <1>7 DEF RaftPart
    <2> HIDE DEF n, h
    <2> QED BY <1>6, <2>1
<1>11. U[h][n] = kv[r] /\ U[h][n + 1] = st
    <2>1. U[h][n] = kv[r]
        BY <1>5, <1>6 DEF Extends
    <2>2. U[h][n + 1] = Applied(h, U[h][(n + 1) - 1], op)
        BY <1>5, <1>6, <1>10 DEF TraceOf
    <2>3. (n + 1) - 1 = n
        BY <1>6
    <2> QED BY <2>1, <2>2, <2>3
<1> HIDE DEF st, op, n
<1>12. ASSUME NEW q \in Replica
       PROVE  /\ kv[q] = U[GroupOf[q]][applied[q]]
              /\ snapshot[q].kv = U[GroupOf[q]][snapshot[q].index]
    <2>1. /\ GroupOf[q] \in Group /\ commit[GroupOf[q]] \in Nat /\ applied[q] \in 0 .. commit[GroupOf[q]]
          /\ kv[q] = T[GroupOf[q]][applied[q]]
        BY <1>1, StateFacts
    <2>2. snapshot[q].kv = T[GroupOf[q]][snapshot[q].index]
        BY <1>1 DEF HistOf, TracePart
    <2>3. GoodState(log, commit, latest, GroupOf[q], snapshot[q].index, snapshot[q].kv)
        BY <1>7 DEF StatePart
    <2>4. snapshot[q].index \in 0 .. commit[GroupOf[q]]
        BY <2>1, <2>3 DEF GoodState
    <2> QED BY <1>5, <2>1, <2>2, <2>4 DEF Extends
<1>13. ASSUME NEW q \in Replica
       PROVE  /\ kv'[q] = U[GroupOf[q]][applied'[q]]
              /\ snapshot'[q].kv = U[GroupOf[q]][snapshot'[q].index]
    <2>1. CASE q # r
        <3>1. applied'[q] = applied[q] /\ kv'[q] = kv[q] /\ snapshot'[q] = snapshot[q]
            BY <1>2, <1>3, <1>7, <2>1 DEF StatePart
        <3> QED BY <1>12, <3>1
    <2>2. CASE q = r
        <3>1. applied'[q] = n + 1 /\ kv'[q] = st
            BY <1>2, <1>7, <2>2 DEF StatePart
        <3>2. \/ snapshot'[q] = snapshot[q]
              \/ snapshot'[q] = [index |-> n + 1, kv |-> st]
            BY <1>3, <1>7, <2>2 DEF StatePart
        <3>3. snapshot'[q] = [index |-> n + 1, kv |-> st] => snapshot'[q].index = n + 1 /\ snapshot'[q].kv = st
            OBVIOUS
        <3> QED BY <1>11, <1>12, <2>2, <3>1, <3>2, <3>3
    <2> QED BY <2>1, <2>2
<1>14. ASSUME NEW c \in Client
       PROVE  /\ clerk[c].seq \in 0 .. MaxSeq /\ clerk'[c].seq = clerk[c].seq
              /\ clerk'[c] = clerk[c] \/ (clerk[c].pc = "wait" /\ clerk'[c].shard = clerk[c].shard)
              /\ waiting(c) /\ clerk'[c].pc = "idle" =>
                    op.type = "Write" /\ op.client = c /\ op.seq = clerk[c].seq /\ owned
    <2>1. clerk[c] \in ClerkType /\ clerk[c].seq \in 0 .. MaxSeq
        BY ClerkFacts
    <2>2. CASE ~waiting(c)
        <3>1. clerk'[c] = clerk[c]
            BY <1>4, <2>2
        <3> QED BY <2>1, <2>2, <3>1
    <2>3. CASE waiting(c)
        <3> DEFINE a == Answer(clerk[c], c, op, owned)
        <3>1. clerk'[c] = a
            BY <1>4, <2>3
        <3>2. /\ a.seq = clerk[c].seq /\ a.shard = clerk[c].shard
              /\ a.pc = "idle" => op.type = "Write" /\ op.client = c /\ op.seq = clerk[c].seq
            BY <1>8, <1>9, <2>1, AnswerType
        <3>3. ASSUME a.pc = "idle" PROVE owned
            <4>1. ASSUME ~owned PROVE FALSE
                <5>1. a = [Back(clerk[c], "call") EXCEPT !.cfg = latest]
                    BY <3>2, <3>3, <4>1 DEF Answer
                <5>2. Back(clerk[c], "call") \in ClerkType /\ Back(clerk[c], "call").pc = "call"
                    BY <2>1, BackType
                <5>3. [Back(clerk[c], "call") EXCEPT !.cfg = latest].pc = "call"
                    BY <1>8, <5>2, RefreshedType
                <5>4. a.pc = "call"
                    BY <5>1, <5>3
                <5> HIDE DEF a
                <5> QED BY <3>3, <5>4
            <4> QED BY <4>1
        <3> HIDE DEF a, owned
        <3> QED BY <2>1, <2>3, <3>1, <3>2, <3>3
    <2> QED BY <2>2, <2>3
<1>15. Moves(clerk, clerk')
    <2> SUFFICES ASSUME NEW c \in Client
                 PROVE  /\ clerk'[c].seq >= clerk[c].seq
                        /\ clerk'[c].pc \in {"call", "wait"} =>
                              clerk[c].pc \in {"call", "wait"} /\ clerk'[c].shard = clerk[c].shard /\ clerk'[c].seq = clerk[c].seq
        BY DEF Moves
    <2>1. MaxSeq \in Nat
        BY BoundAssumption
    <2> HIDE DEF owned
    <2> QED BY <1>14, <2>1
<1>16. AckedPart(U, commit', acked')
    <2> SUFFICES ASSUME NEW w \in acked'
                 PROVE  \E f \in Group : Seen(U, commit', f, w.shard, [client |-> w.client, seq |-> w.seq])
        BY DEF AckedPart
    <2>1. CASE w \in acked
        <3>1. PICK f \in Group : Seen(T, commit, f, w.shard, [client |-> w.client, seq |-> w.seq])
            BY <1>1, <2>1 DEF HistOf, AckedPart
        <3>2. Seen(U, commit', f, w.shard, [client |-> w.client, seq |-> w.seq])
            BY <1>5, <3>1, SeenGrows
        <3> QED BY <3>2
    <2>2. CASE w \notin acked
        <3>1. PICK c \in Client : /\ waiting(c) /\ clerk'[c].pc = "idle"
                                  /\ w = [shard |-> op.shard, client |-> c, seq |-> clerk[c].seq]
            BY <1>4, <2>2
        <3>2. op.type = "Write" /\ op.client = c /\ op.seq = clerk[c].seq /\ owned
            BY <1>14, <3>1
        <3>3. Fits(clerk, op.shard, WriteOf(op))
            BY <1>9, <3>2 DEF KeptOp
        <3>4. Owns(h, U[h][n], op.shard) /\ U[h][n + 1] = Applied(h, U[h][n], op)
            BY <1>11, <3>2 DEF st
        <3>5. \E f \in Group : Seen(U, commit', f, op.shard, WriteOf(op))
            BY <1>5, <1>6, <1>9, <1>10, <3>1, <3>2, <3>3, <3>4, AckedSeen
        <3>6. w.shard = op.shard /\ [client |-> w.client, seq |-> w.seq] = WriteOf(op)
            BY <3>1, <3>2 DEF WriteOf
        <3> QED BY <3>5, <3>6
    <2> QED BY <2>1, <2>2
<1>17. Grows(log, commit', log', commit')
    <2>1. \A g \in Group : commit'[g] \in Nat
        BY <1>7 DEF RaftPart
    <2> QED BY <1>2, <2>1 DEF Grows
<1>18. latest <= latest'
    BY <1>2, <1>8, ConfigsNat
<1>19. /\ \A g \in Group : \A i \in 1 .. Len(log'[g]) :
              \/ i \in 1 .. Len(log[g]) /\ log'[g][i] = log[g][i]
              \/ KeptOp(U, commit', clerk, g, i, log'[g][i])
       /\ \A q \in Replica : pull'[q] = pull[q] \/ KeptPull(U, commit', clerk, GroupOf[q], pull'[q])
       /\ \A q \in Replica : gc'[q] \in {gc[q], None} \/ Passed(U, commit', GroupOf[q], gc'[q])
    BY <1>2
<1> QED BY <1>5, <1>13, <1>15, <1>16, <1>17, <1>18, <1>19, Framed

\* Under Orderly, every step keeps the history.
LEMMA HistNext == ASSUME Orderly, ShardInv, ShardInv', CfgsMade, HistInv, [Next]_vars PROVE HistInv'
<1>0. CfgsGrow
    BY CfgsKept
<1>1. CASE Reconfigure
    BY <1>0, <1>1, ReconfigureHist
<1>2. ASSUME NEW g \in Group, NEW r \in Replica, LeaderChange(g, r) PROVE HistInv'
    BY <1>0, <1>2, LeaderChangeHist
<1>3. ASSUME NEW r \in Replica, applyLoop(r) \/ restoreSnapshot(r) \/ Restart(r) PROVE HistInv'
    BY <1>0, <1>3, applyLoopHist, restoreSnapshotHist, RestartHist
<1>4. ASSUME NEW r \in Replica, noopLoop(r) \/ configPoll(r) \/ pullNotReady(r) PROVE HistInv'
    BY <1>0, <1>4, noopLoopHist, configPollHist, pullNotReadyHist
<1>5. ASSUME NEW r \in Replica, proposeMigrate(r) \/ proposeGC(r) PROVE HistInv'
    BY <1>0, <1>5, proposeMigrateHist, proposeGCHist
<1>6. ASSUME NEW r \in Replica, NEW s \in Shard, migrationTick(r, s) PROVE HistInv'
    BY <1>0, <1>6, migrationTickHist
<1>7. ASSUME NEW r \in Replica, NEW d \in Replica, Pull(r, d) PROVE HistInv'
    BY <1>0, <1>7, PulledHist
<1>8. ASSUME NEW r \in Replica, NEW s \in Shard, NEW d \in Replica, recipientReady(r, s, d) PROVE HistInv'
    BY <1>0, <1>8, recipientReadyHist
<1>9. ASSUME NEW c \in Client, NEW s \in Shard, putAppend(c, s) PROVE HistInv'
    BY <1>0, <1>9, putAppendHist
<1>10. ASSUME NEW c \in Client, NEW s \in Shard, NEW r \in Replica, Get(c, r, s) PROVE HistInv'
    BY <1>0, <1>10, GetHist
<1>11. ASSUME NEW c \in Client, NEW r \in Replica, PutAppend(c, r) \/ WrongGroup(c, r) PROVE HistInv'
    BY <1>0, <1>11, PutAppendHist, WrongGroupHist
<1>12. ASSUME NEW c \in Client, giveUp(c) \/ GetReply(c) PROVE HistInv'
    BY <1>0, <1>12, giveUpHist, GetReplyHist
<1>13. CASE UNCHANGED vars
    BY <1>0, <1>13, StutterHist
<1> QED BY <1>1, <1>2, <1>3, <1>4, <1>5, <1>6, <1>7, <1>8, <1>9, <1>10, <1>11, <1>12, <1>13 DEF Next

\* At first there is nothing to remember.
LEMMA HistInit == ASSUME Init PROVE HistInv
<1> DEFINE T == [g \in Group |-> [i \in Nat |-> EmptyKV]]
<1>1. /\ latest = 1 /\ log = [g \in Group |-> <<>>] /\ commit = [g \in Group |-> 0]
      /\ kv = [r \in Replica |-> EmptyKV] /\ applied = [r \in Replica |-> 0]
      /\ snapshot = [r \in Replica |-> [index |-> 0, kv |-> EmptyKV]]
      /\ pull = [r \in Replica |-> None] /\ gc = [r \in Replica |-> None] /\ acked = {}
    BY DEF Init
<1>2. ShardInv
    BY InitInv
<1>3. ASSUME NEW g \in Group PROVE EmptyKV \in KV /\ GoodState(log, commit, latest, g, 0, EmptyKV)
    <2>1. PICK r \in Replica : GroupOf[r] = g
        BY GroupAssumption
    <2>2. GoodState(log, commit, latest, g, applied[r], kv[r])
        BY <1>2, <2>1 DEF ShardInv, StatePart
    <2>3. applied[r] = 0 /\ kv[r] = EmptyKV
        BY <1>1
    <2> QED BY <2>2, <2>3 DEF GoodState
<1>4. T \in Trace
    BY <1>3 DEF Trace
<1>5. \A g \in Group : \A i \in Nat : T[g][i] = EmptyKV
    OBVIOUS
<1> HIDE DEF T
<1>6. /\ EmptyKV.cfg = 0 /\ \A s \in Shard : EmptyKV.store[s] = <<>> /\ EmptyKV.leaving[s] = None
      /\ \A c \in Client : EmptyKV.duplicateTable[c] = 0
    BY DEF EmptyKV
<1>7. ASSUME NEW g, NEW s PROVE ~HadBy(g, s, EmptyKV) /\ ~Collected(g, s, EmptyKV)
    BY <1>6 DEF HadBy, Collected, Lost
<1>8. ASSUME NEW g \in Group PROVE KeptState(T, commit, clerk, g, EmptyKV)
    <2>1. LeavesLost(g, EmptyKV) /\ Known(T, commit, clerk, EmptyKV.duplicateTable)
        BY <1>6 DEF LeavesLost, Known
    <2>2. \A s \in Shard : FitsAll(clerk, s, EmptyKV.store[s])
        BY <1>6 DEF FitsAll
    <2> QED BY <1>7, <2>1, <2>2 DEF KeptState
<1>9. TracePart(T)
    <2>1. \A g \in Group : T[g][0] = EmptyKV /\ commit[g] = 0
        BY <1>1, <1>5
    <2>2. TraceOf(T, log, commit)
        BY <2>1 DEF TraceOf
    <2>3. ASSUME NEW r \in Replica
          PROVE  kv[r] = T[GroupOf[r]][applied[r]] /\ snapshot[r].kv = T[GroupOf[r]][snapshot[r].index]
        BY <1>1, <1>5, GroupAssumption
    <2> QED BY <2>2, <2>3 DEF TracePart
<1>10. PastPart(T, log, commit, latest, clerk)
    <2>1. ASSUME NEW g \in Group, NEW i \in 0 .. commit[g] PROVE i = 0 /\ T[g][i] = EmptyKV
        BY <1>1, <1>5
    <2>2. ASSUME NEW g \in Group, NEW s \in Shard, NEW j \in 0 .. commit[g], NEW i \in 0 .. j
          PROVE  Lasts(g, s, T[g][i], T[g][j])
        <3>1. i \in 0 .. commit[g]
            BY <1>1
        <3>2. T[g][i] = EmptyKV
            BY <2>1, <3>1
        <3> QED BY <1>7, <3>2 DEF Lasts
    <2>3. Lasting(T, commit)
        BY <2>2 DEF Lasting
    <2> QED BY <1>3, <1>8, <2>1, <2>3 DEF PastPart
<1>11. ComingPart(T, log, commit, clerk, pull, gc)
    <2>1. \A g \in Group : Len(log[g]) = 0
        BY <1>1
    <2> QED BY <1>1, <2>1 DEF ComingPart, KeptPull
<1>12. AckedPart(T, commit, acked)
    BY <1>1 DEF AckedPart
<1> QED BY <1>4, <1>9, <1>10, <1>11, <1>12 DEF HistInv, HistOf

\* No write that a clerk has returned from is lost by moving the shard: an
\* owner that has applied its log has it, whatever the configs, elections,
\* restarts, retries and deletions, if no shard returns to a group.
THEOREM KeepsAcked == Orderly => (Spec => []OwnerHasAcked)
<1>1. ASSUME Orderly, ShardInv, HistInv PROVE OwnerHasAcked
    <2> SUFFICES ASSUME NEW r \in Replica, NEW s \in Shard, UpToDate(r), Owns(GroupOf[r], kv[r], s),
                        NEW a \in acked, a.shard = s
                 PROVE  Has(kv[r].store[s], [client |-> a.client, seq |-> a.seq])
        BY DEF OwnerHasAcked
    <2>1. PICK T \in Trace : HistOf(T)
        BY <1>1 DEF HistInv
    <2> DEFINE h == GroupOf[r]
               w == [client |-> a.client, seq |-> a.seq]
               st == kv[r]
               m == st.cfg
    <2>2. /\ h \in Group /\ applied[r] \in Nat /\ st = T[h][applied[r]] /\ st \in KV
          /\ GoodState(log, commit, latest, h, applied[r], st) /\ KeptState(T, commit, clerk, h, st)
          /\ applied[r] = commit[h]
        BY <1>1, <2>1, StateFacts DEF UpToDate
    <2>3. w \in Write
        BY <1>1 DEF ShardInv, ClerkPart, Write
    <2>4. PICK f \in Group : Seen(T, commit, f, s, w)
        BY <2>1 DEF HistOf, AckedPart
    <2>5. PICK i \in 0 .. commit[f] : Owns(f, T[f][i], s) /\ Has(T[f][i].store[s], w)
        BY <2>4 DEF Seen
    <2> DEFINE old == T[f][i]
               c == old.cfg
    <2>6. old \in KV /\ GoodState(log, commit, latest, f, i, old)
        BY <2>1, <2>5 DEF HistOf, PastPart, GoodState
    <2> HIDE DEF w, h, st, old, m, c
    <2>7. HadBy(h, s, st) /\ m \in 1 .. Len(Configs) /\ Owner(m, s) = h
        BY <2>2, OwnsHad DEF h, st, m
    <2>8. HadBy(f, s, old) /\ c \in 1 .. Len(Configs) /\ Owner(c, s) = f
        BY <2>5, <2>6, OwnsHad DEF old, c
    <2>9. Len(Configs) \in Nat /\ m \in Nat /\ m <= m
        BY <2>7, ConfigsNat
    <2>10. ~Collected(h, s, st)
        <3>1. ASSUME Lost(h, s, m) PROVE FALSE
            BY <1>1, <2>2, <2>7, <2>9, <3>1, LostForGood
        <3> QED BY <3>1 DEF Collected, m
    <2>11. Complete(T, commit, h, s, st.store[s])
        BY <2>2, <2>7, <2>10 DEF KeptState
    <2>12. CASE f = h
        <3>1. applied[r] \in 0 .. commit[h] /\ i \in 0 .. applied[r]
            BY <2>2, <2>12
        <3>2. Lasts(h, s, T[h][i], T[h][applied[r]])
            BY <2>1, <2>2, <3>1 DEF HistOf, PastPart, Lasting
        <3>3. Has(st.store[s], w)
            BY <2>2, <2>3, <2>5, <2>8, <2>10, <2>12, <3>2 DEF Lasts, old
        <3> QED BY <3>3 DEF st, w
    <2>13. CASE f # h /\ c <= m
        <3>1. c \in 1 .. m
            BY <2>8, <2>9, <2>13
        <3>2. Before(f, h, s)
            BY <2>7, <2>8, <2>13, <3>1 DEF Before
        <3>3. Has(st.store[s], w)
            BY <2>3, <2>4, <2>11, <3>2 DEF Complete
        <3> QED BY <3>3 DEF st, w
    <2>14. CASE f # h /\ ~(c <= m)
        <3>1. m \in 1 .. c
            BY <2>7, <2>8, <2>9, <2>14
        <3>2. Before(h, f, s)
            BY <2>7, <2>8, <2>14, <3>1 DEF Before
        <3>3. Ready(log, commit, f, s)
            BY <1>1, <2>6, <2>8 DEF GoodState, HasGot
        <3>4. commit[h] \in Nat /\ commit[h] <= applied[r] /\ FollowsLog(log[h], applied[r], st)
            BY <2>2 DEF GoodState
        <3>5. ~Owns(h, st, s)
            BY <1>1, <2>2, <3>2, <3>3, <3>4, LeftForGood
        <3> QED BY <3>5 DEF h, st
    <2> QED BY <2>12, <2>13, <2>14
<1>2. Orderly => (Init => HistInv)
    BY HistInit
<1>3. Orderly => (ShardInv /\ ShardInv' /\ CfgsMade /\ HistInv /\ [Next]_vars => HistInv')
    BY HistNext
<1>4. Orderly => (ShardInv /\ HistInv => OwnerHasAcked)
    BY <1>1
<1> SUFFICES ASSUME Orderly PROVE Spec => []OwnerHasAcked
    OBVIOUS
<1>5. Init => HistInv
    BY <1>2
<1>6. ShardInv /\ ShardInv' /\ CfgsMade /\ HistInv /\ [Next]_vars => HistInv'
    BY <1>3
<1>7. ShardInv /\ HistInv => OwnerHasAcked
    BY <1>4
<1> QED BY <1>5, <1>6, <1>7, Invariance, ConfigsMade, PTL DEF Spec

(***************************************************************************)
(* A clerk reads its own writes.                                           *)
(*                                                                         *)
(* An acknowledged write is in some state T[h][i] of a group h that its    *)
(* clerk asked (Kept): the replica that answered was in it.  The terms     *)
(* after t, in which the write was proposed, begin with a no-op after      *)
(* entry i.  So a replica of h that serves a read of its clerk is past i:  *)
(* the leader of t itself has applied i, and one that serves a later term  *)
(* has applied that term's no-op.  Another group that the clerk reads from *)
(* came after h, for the clerk's configs only grow, and got what h had.    *)
(***************************************************************************)

\* After entry i come the no-ops of the terms after t.
NoopsAfter(q, i, t) == \A j \in 1 .. Len(q) : q[j].type = "Noop" /\ q[j].term > t => j > i

\* A no-op has a term the group has had, and noopAppliedTerm is that of one
\* that the replica has applied.
NoopPart ==
    /\ \A g \in Group : \A j \in 1 .. Len(log[g]) : log[g][j].type = "Noop" => log[g][j].term <= term[g]
    /\ \A r \in Replica : noopAppliedTerm[r] # 0 =>
          \E j \in 1 .. applied[r] :
              log[GroupOf[r]][j].type = "Noop" /\ log[GroupOf[r]][j].term = noopAppliedTerm[r]

\* The entry is the write with that number of the clerk.
OwnWrite(c, seq, op) == op.type = "Write" /\ op.client = c /\ op.seq = seq

\* The replica at which a call is belongs to the owner in the clerk's config;
\* a write waits at the leader of its term or at an ousted one.
WaitOK(c) ==
    LET ck == clerk[c]
        g == GroupOf[ck.at]
    IN /\ ck.at \in Replica /\ g = Owner(ck.cfg, ck.shard)
       /\ ck.term <= term[g] /\ (ck.term = term[g] => ck.at = leader[g])
       /\ ck.index \in 1 .. Len(log[g]) /\ OwnWrite(c, ck.seq, log[g][ck.index]) =>
             NoopsAfter(log[g], ck.index, ck.term)
ReadOK(c) ==
    /\ clerk[c].at \in Replica /\ GroupOf[clerk[c].at] = Owner(clerk[c].cfg, clerk[c].shard)
    /\ clerk[c].term >= 1
CallPart ==
    \A c \in Client : /\ clerk[c].pc = "wait" => WaitOK(c)
                      /\ clerk[c].pc = "reading" => ReadOK(c)

\* The acknowledged write is in the state of h after entry i, and who serves a
\* read is past it.
Kept(T, w, h, i, t) ==
    /\ Owns(h, T[h][i], w.shard) /\ Has(T[h][i].store[w.shard], [client |-> w.client, seq |-> w.seq])
    /\ NoopsAfter(log[h], i, t) /\ t <= term[h]
    /\ t = term[h] => applied[leader[h]] >= i
    /\ clerk[w.client].pc = "reading" /\ GroupOf[clerk[w.client].at] = h =>
           applied[clerk[w.client].at] >= i \/ clerk[w.client].term > t
OwnPart(T) ==
    \A w \in acked : \E h \in Group :
        Asked(clerk, w.client, h, w.shard) /\ \E i \in 0 .. commit[h], t \in Nat : Kept(T, w, h, i, t)
OwnInv == NoopPart /\ CallPart /\ \A T \in Trace : HistOf(T) => OwnPart(T)

\* The logs determine the history.
LEMMA SameHistory ==
    ASSUME NEW L, NEW C, NEW M, NEW D, Grows(L, C, M, D), NEW T, NEW U, TraceOf(T, L, C), TraceOf(U, M, D),
           \A g \in Group : C[g] \in Nat
    PROVE  Extends(T, C, U, D)
<1> SUFFICES ASSUME NEW g \in Group PROVE \A i \in 0 .. C[g] : U[g][i] = T[g][i]
    BY DEF Extends, Grows
<1>1. C[g] \in Nat /\ D[g] \in Nat /\ C[g] <= D[g] /\ \A i \in 1 .. C[g] : M[g][i] = L[g][i]
    BY DEF Grows
<1> DEFINE S == {k \in Nat : k <= C[g] => U[g][k] = T[g][k]}
<1>2. 0 \in S
    BY DEF TraceOf
<1>3. ASSUME NEW k \in S PROVE k + 1 \in S
    <2>1. SUFFICES ASSUME k + 1 <= C[g] PROVE U[g][k + 1] = T[g][k + 1]
        OBVIOUS
    <2>2. k \in Nat /\ k <= C[g] /\ k + 1 \in 1 .. C[g] /\ k + 1 \in 1 .. D[g] /\ (k + 1) - 1 = k
        BY <1>1, <2>1
    <2>3. U[g][k] = T[g][k]
        BY <2>2
    <2>4. /\ T[g][k + 1] = Applied(g, T[g][(k + 1) - 1], L[g][k + 1])
          /\ U[g][k + 1] = Applied(g, U[g][(k + 1) - 1], M[g][k + 1])
        BY <2>2 DEF TraceOf
    <2>5. M[g][k + 1] = L[g][k + 1]
        BY <1>1, <2>2
    <2> QED BY <2>2, <2>3, <2>4, <2>5
<1>4. S = Nat
    <2> HIDE DEF S
    <2>1. S \in SUBSET Nat
        BY DEF S
    <2> QED BY <1>2, <1>3, <2>1, AllNaturals
<1> QED BY <1>1, <1>4

\* What an append puts in is the new element.
LEMMA HasAppended ==
    ASSUME NEW q \in Seq(Write), NEW x \in Write, NEW w \in Write, Has(Append(q, x), w)
    PROVE  w = x \/ Has(q, w)
<1>1. Len(q) \in Nat /\ DOMAIN q = 1 .. Len(q)
    BY LenProperties
<1>2. /\ Append(q, x) \in Seq(Write) /\ Len(Append(q, x)) = Len(q) + 1
      /\ \A i \in 1 .. Len(q) : Append(q, x)[i] = q[i]
      /\ Append(q, x)[Len(q) + 1] = x
    BY AppendProperties
<1>3. DOMAIN Append(q, x) = 1 .. Len(q) + 1
    BY <1>2, LenProperties
<1>4. PICK i \in 1 .. Len(q) + 1 : Append(q, x)[i] = w
    BY <1>3 DEF Has
<1>5. CASE i = Len(q) + 1
    BY <1>2, <1>4, <1>5
<1>6. CASE i # Len(q) + 1
    <2>1. i \in 1 .. Len(q)
        BY <1>1, <1>6
    <2> QED BY <1>1, <1>2, <1>4, <2>1 DEF Has
<1> QED BY <1>5, <1>6

\* The duplicate table forgets nothing.
LEMMA DupStep ==
    ASSUME NEW g \in Group, NEW st \in KV, NEW op \in Op, NEW c \in Client
    PROVE  Applied(g, st, op).duplicateTable[c] >= st.duplicateTable[c]
<1> DEFINE new == Applied(g, st, op)
<1>1. /\ st.duplicateTable \in [Client -> 0 .. MaxSeq] /\ MaxSeq \in Nat
      /\ st.duplicateTable[c] \in Nat
    BY KVFields, BoundAssumption
<1>2. \/ new.duplicateTable = st.duplicateTable
      \/ op.type = "Migrate" /\ new.duplicateTable = MergeDup(st.duplicateTable, op.dup)
      \/ /\ op.type = "Write" /\ IsNew(st, op)
         /\ new.duplicateTable = [st.duplicateTable EXCEPT ![op.client] = op.seq]
    BY AppliedDup
<1> HIDE DEF new
<1>3. CASE new.duplicateTable = st.duplicateTable
    BY <1>1, <1>3 DEF new
<1>4. CASE op.type = "Migrate" /\ new.duplicateTable = MergeDup(st.duplicateTable, op.dup)
    <2>1. op.dup \in [Client -> 0 .. MaxSeq]
        BY <1>4, OpFields
    <2> QED BY <1>1, <1>4, <2>1, MergeDupProps DEF new
<1>5. CASE op.type = "Write" /\ IsNew(st, op) /\ new.duplicateTable = [st.duplicateTable EXCEPT ![op.client] = op.seq]
    <2>1. op.client \in Client /\ op.seq \in 1 .. MaxSeq /\ op.seq > st.duplicateTable[op.client]
        BY <1>5, OpFields DEF IsNew
    <2>2. new.duplicateTable[c] = IF c = op.client THEN op.seq ELSE st.duplicateTable[c]
        BY <1>1, <1>5
    <2>3. new.duplicateTable[c] >= st.duplicateTable[c]
        BY <1>1, <2>1, <2>2
    <2> QED BY <2>3 DEF new
<1> QED BY <1>2, <1>3, <1>4, <1>5

\* An owner that misses nothing takes, with an entry, only writes that the
\* table does not know of.
LEMMA TakesNew ==
    ASSUME NEW g \in Group, NEW st \in KV, NEW op \in Op, NEW s \in Shard, st.migrating[s] = None,
           NEW w \in Write, w.seq <= st.duplicateTable[w.client], Has(Applied(g, st, op).store[s], w)
    PROVE  Has(st.store[s], w)
<1> DEFINE new == Applied(g, st, op)
<1>1. \/ new.store[s] = st.store[s]
      \/ new.store[s] = <<>>
      \/ /\ op.type = "Write" /\ s = op.shard /\ IsNew(st, op)
         /\ new.store[s] = Append(st.store[s], WriteOf(op))
    BY AppliedStore
<1> HIDE DEF new
<1>2. Has(new.store[s], w)
    BY DEF new
<1>3. CASE new.store[s] = <<>>
    BY <1>2, <1>3 DEF Has
<1>4. CASE op.type = "Write" /\ s = op.shard /\ IsNew(st, op) /\ new.store[s] = Append(st.store[s], WriteOf(op))
    <2>1. op.client \in Client /\ op.seq \in 1 .. MaxSeq
        BY <1>4, OpFields
    <2>2. WriteOf(op) \in Write /\ WriteOf(op).client = op.client /\ WriteOf(op).seq = op.seq
        BY <2>1 DEF Write, WriteOf
    <2>3. st.store[s] \in Seq(Write) /\ st.duplicateTable[op.client] \in 0 .. MaxSeq /\ MaxSeq \in Nat
        BY <2>1, KVFields, BoundAssumption
    <2>4. w # WriteOf(op)
        <3>1. op.seq > st.duplicateTable[op.client]
            BY <1>4 DEF IsNew
        <3>2. ~(op.seq <= st.duplicateTable[op.client])
            BY <2>1, <2>3, <3>1
        <3> QED BY <2>2, <3>2
    <2> QED BY <1>2, <1>4, <2>2, <2>3, <2>4, HasAppended
<1> QED BY <1>1, <1>2, <1>3, <1>4

\* Under Orderly, a write that the table of an owner knows of, and that the
\* owner has later, it has already.
LEMMA NothingNew ==
    ASSUME Orderly, ShardInv, NEW T \in Trace, HistOf(T), NEW g \in Group, NEW s \in Shard, NEW w \in Write,
           NEW i \in 0 .. commit[g], Owns(g, T[g][i], s), w.seq <= T[g][i].duplicateTable[w.client],
           NEW j \in 0 .. commit[g], i <= j, Owns(g, T[g][j], s), Has(T[g][j].store[s], w)
    PROVE  Has(T[g][i].store[s], w)
<1> DEFINE R(k) == k \in Nat /\ i <= k /\ k <= commit[g]
           Q(k) == /\ T[g][i].cfg <= T[g][k].cfg
                   /\ w.seq <= T[g][k].duplicateTable[w.client]
                   /\ Owns(g, T[g][k], s) /\ Has(T[g][k].store[s], w) => Has(T[g][i].store[s], w)
           S == {k \in Nat : R(k) => Q(k)}
<1>0. commit[g] \in Nat /\ Len(log[g]) \in Nat /\ commit[g] <= Len(log[g]) /\ log[g] \in Seq(Op)
    BY LenProperties DEF ShardInv, RaftPart
<1>1. ASSUME NEW k \in 0 .. commit[g] PROVE T[g][k] \in KV
    BY <1>1 DEF HistOf, PastPart, GoodState
<1>2. w.client \in Client /\ w.seq \in Nat
    BY BoundAssumption DEF Write
<1>3. T[g][i].cfg \in Nat /\ Q(i)
    BY <1>1, <1>2, KVFields
<1>4. 0 \in S
    <2>1. R(0) => i = 0
        OBVIOUS
    <2> HIDE DEF Q
    <2> QED BY <1>3, <2>1
<1>5. ASSUME NEW k \in S PROVE k + 1 \in S
    <2>1. SUFFICES ASSUME R(k + 1) PROVE Q(k + 1)
        OBVIOUS
    <2>2. CASE k + 1 = i
        <3> HIDE DEF Q
        <3> QED BY <1>3, <2>2
    <2>3. CASE k + 1 # i
        <3>1. k \in Nat /\ R(k) /\ k \in 0 .. commit[g] /\ k + 1 \in 1 .. commit[g] /\ (k + 1) - 1 = k
            <4>1. k \in Nat /\ i \in Nat /\ i <= k + 1 /\ k + 1 <= commit[g]
                BY <2>1
            <4> HIDE DEF Q, S
            <4> QED BY <1>0, <2>3, <4>1
        <3> DEFINE st == T[g][k]
                   op == log[g][k + 1]
                   new == T[g][k + 1]
        <3>2. Q(k)
            <4> HIDE DEF Q, R
            <4> QED BY <3>1
        <3>3. st \in KV /\ new = Applied(g, st, op)
            <4>1. new = Applied(g, T[g][(k + 1) - 1], op)
                BY <3>1 DEF HistOf, TracePart, TraceOf
            <4> HIDE DEF new, op
            <4> QED BY <1>1, <3>1, <4>1
        <3>4. op \in Op
            <4>1. k + 1 \in 1 .. Len(log[g])
                BY <1>0, <3>1
            <4> QED BY <1>0, <4>1, ElementOfSeq
        <3>5. Lasts(g, s, T[g][i], st)
            <4>1. i \in 0 .. k
                BY <3>1
            <4> QED BY <3>1, <4>1 DEF HistOf, PastPart, Lasting
        <3> HIDE DEF op
        <3>6. st.cfg \in Nat /\ new.cfg \in Nat /\ st.cfg <= new.cfg /\ new.cfg <= Len(Configs)
            BY <3>3, <3>4, AppliedCfg
        <3>7. st.duplicateTable[w.client] \in Nat /\ new.duplicateTable[w.client] \in Nat
            <4>1. new \in KV
                BY <3>3, <3>4, AppliedCfg
            <4> HIDE DEF st, new
            <4> QED BY <1>2, <3>3, <4>1, KVFields, BoundAssumption
        <3>8. new.duplicateTable[w.client] >= st.duplicateTable[w.client]
            BY <1>2, <3>3, <3>4, DupStep
        <3>9. T[g][i].cfg <= new.cfg
            <4> DEFINE a == T[g][i].cfg
                       b == st.cfg
                       d == new.cfg
            <4>1. a \in Nat /\ b \in Nat /\ d \in Nat /\ a <= b /\ b <= d
                BY <1>3, <3>2, <3>6
            <4> HIDE DEF a, b, d, S
            <4>2. a <= d
                BY <4>1
            <4> QED BY <4>2 DEF a, d
        <3>10. w.seq <= new.duplicateTable[w.client]
            BY <1>2, <3>2, <3>7, <3>8
        <3>11. ASSUME Owns(g, new, s), Has(new.store[s], w) PROVE Has(T[g][i].store[s], w)
            <4>1. HadBy(g, s, T[g][i]) /\ T[g][i].cfg \in 1 .. Len(Configs) /\ Owner(T[g][i].cfg, s) = g
                BY <1>1, OwnsHad
            <4>2. HadBy(g, s, st)
                BY <3>5, <4>1 DEF Lasts
            <4>3. st.migrating[s] = None
                BY <4>2 DEF HadBy
            <4>4. Owner(new.cfg, s) = g
                BY <3>11 DEF Owns
            <4>5. new.cfg \in 1 .. Len(Configs) /\ st.cfg \in Nat /\ T[g][i].cfg <= st.cfg /\ st.cfg <= new.cfg
                <5> HIDE DEF new, st
                <5> QED BY <1>3, <3>2, <3>6, <3>9, <4>1, ConfigsNat DEF st
            <4>6. Owner(st.cfg, s) = g
                <5> HIDE DEF new, st
                <5> QED BY <4>1, <4>4, <4>5, OwnsBetween
            <4>7. Owns(g, st, s)
                BY <4>3, <4>6 DEF Owns
            <4>8. Has(st.store[s], w)
                BY <3>2, <3>3, <3>4, <3>11, <4>3, TakesNew
            <4> QED BY <3>2, <4>7, <4>8
        <3> QED BY <3>9, <3>10, <3>11
    <2> QED BY <2>2, <2>3
<1>6. S = Nat
    <2> HIDE DEF S
    <2>1. S \in SUBSET Nat
        BY DEF S
    <2> QED BY <1>4, <1>5, <2>1, AllNaturals
<1>7. Q(j)
    <2>1. R(j)
        OBVIOUS
    <2>2. j \in S
        BY <1>6, <2>1
    <2> HIDE DEF Q, R
    <2> QED BY <2>1, <2>2
<1> QED BY <1>7

\* What a step may append to g's log: the no-op of its term, the write of a
\* clerk that is about to wait for it, and the loops' entries.
NewEntry(g, op) ==
    /\ op.type = "Noop" => op.term = term[g]
    /\ op.type = "Write" => clerk[op.client].pc = "call"

\* What a step does to the logs and terms: an entry is appended, or an election
\* cuts a log.
LogsMove ==
    \A g \in Group :
        /\ term[g] <= term'[g] /\ (term'[g] = term[g] => leader'[g] = leader[g]) /\ commit[g] <= commit'[g]
        /\ \A j \in 1 .. Len(log'[g]) :
              \/ j \in 1 .. Len(log[g]) /\ log'[g][j] = log[g][j]
              \/ j = Len(log[g]) + 1 /\ NewEntry(g, log'[g][j])

\* To the replicas: they apply on, or one that is not the leader restarts and
\* the calls at it fail.
ReplicasMove ==
    \A r \in Replica :
        \/ /\ applied[r] <= applied'[r]
           /\ \/ noopAppliedTerm'[r] = noopAppliedTerm[r]
              \/ \E j \in 1 .. applied'[r] :
                    log'[GroupOf[r]][j].type = "Noop" /\ log'[GroupOf[r]][j].term = noopAppliedTerm'[r]
        \/ /\ ~IsLeader(r) /\ noopAppliedTerm'[r] = 0
           /\ \A c \in Client : clerk'[c].pc \in {"wait", "reading"} => clerk'[c].at # r

\* To the clerks: a call ends, or one begins at a leader.
CallBegins(c) ==
    LET ck == clerk'[c]
        g == GroupOf[ck.at]
    IN /\ ck.at \in Replica /\ g = Owner(ck.cfg, ck.shard)
       /\ ck.at = leader[g] /\ ck.term = term[g]
       /\ ck.pc = "wait" => ck.index = Len(log[g]) + 1
ClerksMove ==
    \A c \in Client : clerk'[c] = clerk[c] \/ clerk'[c].pc \in {"idle", "call"} \/ CallBegins(c)

\* A step that leaves the logs and the terms alone.
LEMMA QuietLogs ==
    ASSUME ShardInv, UNCHANGED <<log, leader, term>>, \A g \in Group : commit[g] <= commit'[g]
    PROVE  LogsMove
<1>1. \A g \in Group : term[g] \in Nat
    BY BoundAssumption DEF ShardInv, RaftPart
<1>2. \A g \in Group : term[g] <= term'[g]
    BY <1>1
<1> QED BY <1>2 DEF LogsMove

\* One at which no replica applies or restarts.
LEMMA QuietReplicas == ASSUME ShardInv, UNCHANGED <<applied, noopAppliedTerm>> PROVE ReplicasMove
<1>1. \A r \in Replica : applied[r] \in Nat
    BY DEF ShardInv, StatePart
<1>2. \A r \in Replica : applied[r] <= applied'[r]
    BY <1>1
<1> QED BY <1>2 DEF ReplicasMove

\* One that leaves the clerks alone.
LEMMA QuietClerks == ASSUME clerk' = clerk PROVE ClerksMove
BY DEF ClerksMove

\* One that commits nothing.
LEMMA SameCommit == ASSUME ShardInv, commit' = commit PROVE \A g \in Group : commit[g] <= commit'[g]
BY DEF ShardInv, RaftPart

\* A proposal.
LEMMA ProposedLogs ==
    ASSUME ShardInv, NEW r \in Replica, NEW op, Propose(r, op), NewEntry(GroupOf[r], op)
    PROVE  LogsMove
<1> DEFINE h == GroupOf[r]
<1>1. /\ log' = [log EXCEPT ![h] = Append(log[h], op)] /\ UNCHANGED <<commit, leader, term>>
    BY DEF Propose
<1>2. h \in Group /\ log \in [Group -> Seq(Op)]
    BY GroupAssumption DEF ShardInv, RaftPart
<1> SUFFICES ASSUME NEW g \in Group
             PROVE  /\ term[g] <= term'[g] /\ (term'[g] = term[g] => leader'[g] = leader[g]) /\ commit[g] <= commit'[g]
                    /\ \A j \in 1 .. Len(log'[g]) :
                          \/ j \in 1 .. Len(log[g]) /\ log'[g][j] = log[g][j]
                          \/ j = Len(log[g]) + 1 /\ NewEntry(g, log'[g][j])
    BY DEF LogsMove
<1>3. term[g] <= term'[g] /\ commit[g] <= commit'[g] /\ leader' = leader
    BY <1>1, SameCommit, BoundAssumption DEF ShardInv, RaftPart
<1>4. CASE g # h
    BY <1>1, <1>2, <1>3, <1>4
<1>5. CASE g = h
    <2>1. log'[h] = Append(log[h], op)
        BY <1>1, <1>2
    <2>2. IsSeq(log[h])
        BY <1>2, SeqOf
    <2> HIDE DEF h
    <2>3. /\ Len(Append(log[h], op)) = Len(log[h]) + 1 /\ Len(log[h]) \in Nat
          /\ \A j \in 1 .. Len(log[h]) : Append(log[h], op)[j] = log[h][j]
          /\ Append(log[h], op)[Len(log[h]) + 1] = op
        BY <2>2, AppendIs, SeqIs
    <2>4. NewEntry(h, op)
        BY DEF h
    <2>5. ASSUME NEW j \in 1 .. Len(log'[h])
          PROVE  \/ j \in 1 .. Len(log[h]) /\ log'[h][j] = log[h][j]
                 \/ j = Len(log[h]) + 1 /\ NewEntry(h, log'[h][j])
        BY <2>1, <2>3, <2>4
    <2> QED BY <1>3, <1>5, <2>5
<1> QED BY <1>4, <1>5

\* A step that moves one clerk.
LEMMA MovedClerk ==
    ASSUME ShardInv, NEW c \in Client, NEW ck, clerk' = [clerk EXCEPT ![c] = ck],
           ck.pc \in {"idle", "call"} \/ CallBegins(c)
    PROVE  ClerksMove
<1>1. DOMAIN clerk = Client
    BY ClerkFacts
<1>2. clerk'[c] = ck
    BY <1>1
<1>3. \A d \in Client : d # c => clerk'[d] = clerk[d]
    BY <1>1
<1> QED BY <1>2, <1>3 DEF ClerksMove

\* Steps that neither propose, apply nor move a clerk.
LEMMA QuietMoves ==
    ASSUME ShardInv, UNCHANGED raftVars, UNCHANGED stateVars, UNCHANGED clerk
    PROVE  LogsMove /\ ReplicasMove /\ ClerksMove
<1>1. /\ UNCHANGED <<log, leader, term>> /\ commit' = commit
      /\ UNCHANGED <<applied, noopAppliedTerm>>
    BY DEF raftVars, stateVars
<1> QED BY <1>1, SameCommit, QuietLogs, QuietReplicas, QuietClerks

\* A loop proposes.
LEMMA ProposedMoves ==
    ASSUME ShardInv, NEW r \in Replica, NEW op, Propose(r, op), NewEntry(GroupOf[r], op),
           UNCHANGED stateVars, UNCHANGED clerk
    PROVE  LogsMove /\ ReplicasMove /\ ClerksMove
BY ProposedLogs, QuietReplicas, QuietClerks DEF stateVars

\* The background loops.
LEMMA LoopMoves ==
    ASSUME ShardInv, NEW r \in Replica,
           noopLoop(r) \/ configPoll(r) \/ pullNotReady(r) \/ proposeMigrate(r) \/ proposeGC(r)
    PROVE  LogsMove /\ ReplicasMove /\ ClerksMove
<1>1. CASE noopLoop(r)
    <2> DEFINE op == [type |-> "Noop", term |-> term[GroupOf[r]]]
    <2>1. Propose(r, op) /\ UNCHANGED stateVars /\ UNCHANGED clerk
        BY <1>1 DEF noopLoop
    <2>2. NewEntry(GroupOf[r], op)
        BY DEF NewEntry
    <2> HIDE DEF op
    <2> QED BY <2>1, <2>2, ProposedMoves
<1>2. CASE configPoll(r)
    <2> DEFINE op == [type |-> "Config", num |-> kv[r].cfg + 1]
    <2>1. Propose(r, op) /\ UNCHANGED stateVars /\ UNCHANGED clerk
        BY <1>2 DEF configPoll
    <2>2. NewEntry(GroupOf[r], op)
        BY DEF NewEntry
    <2> HIDE DEF op
    <2> QED BY <2>1, <2>2, ProposedMoves
<1>3. CASE pullNotReady(r)
    <2>1. UNCHANGED raftVars /\ UNCHANGED stateVars /\ UNCHANGED clerk
        BY <1>3 DEF pullNotReady
    <2> QED BY <2>1, QuietMoves
<1>4. CASE proposeMigrate(r)
    <2> DEFINE op == [type |-> "Migrate", shard |-> pull[r].shard, data |-> pull[r].data, dup |-> pull[r].dup]
    <2>1. (Propose(r, op) \/ UNCHANGED raftVars) /\ UNCHANGED stateVars /\ UNCHANGED clerk
        BY <1>4 DEF proposeMigrate
    <2>2. NewEntry(GroupOf[r], op)
        BY DEF NewEntry
    <2> HIDE DEF op
    <2> QED BY <2>1, <2>2, ProposedMoves, QuietMoves
<1>5. CASE proposeGC(r)
    <2> DEFINE op == [type |-> "GC", shard |-> gc[r]]
    <2>1. (Propose(r, op) \/ UNCHANGED raftVars) /\ UNCHANGED stateVars /\ UNCHANGED clerk
        BY <1>5 DEF proposeGC
    <2>2. NewEntry(GroupOf[r], op)
        BY DEF NewEntry
    <2> HIDE DEF op
    <2> QED BY <2>1, <2>2, ProposedMoves, QuietMoves
<1> QED BY <1>1, <1>2, <1>3, <1>4, <1>5

\* Loops that only look.
LEMMA LookMoves ==
    ASSUME ShardInv, NEW r \in Replica,
           \/ \E s \in Shard : migrationTick(r, s)
           \/ \E d \in Replica : Pull(r, d)
           \/ \E s \in Shard, d \in Replica : recipientReady(r, s, d)
    PROVE  LogsMove /\ ReplicasMove /\ ClerksMove
<1>1. UNCHANGED raftVars /\ UNCHANGED stateVars /\ UNCHANGED clerk
    BY DEF migrationTick, Pull, recipientReady
<1> QED BY <1>1, QuietMoves

\* An election.
LEMMA LeaderChangeMoves ==
    ASSUME ShardInv, NEW h \in Group, NEW r \in Replica, LeaderChange(h, r)
    PROVE  LogsMove /\ ReplicasMove /\ ClerksMove
<1>1. PICK k \in commit[h] .. Len(log[h]) : log' = [log EXCEPT ![h] = SubSeq(log[h], 1, k)]
    BY DEF LeaderChange
<1>2. /\ commit' = commit /\ clerk' = clerk /\ UNCHANGED stateVars
      /\ term' = [term EXCEPT ![h] = term[h] + 1] /\ leader' = [leader EXCEPT ![h] = r]
    BY DEF LeaderChange
<1>3. RaftPart
    BY DEF ShardInv
<1>4. log[h] \in Seq(Op) /\ Len(log[h]) \in Nat /\ commit[h] \in Nat
    BY <1>3, LenProperties DEF RaftPart
<1>5. k \in 0 .. Len(log[h]) /\ IsSeq(log[h])
    BY <1>4, SeqOf
<1>6. Len(SubSeq(log[h], 1, k)) = k /\ \A i \in 1 .. k : SubSeq(log[h], 1, k)[i] = log[h][i]
    BY <1>5, SubSeqIs
<1>7. ASSUME NEW g \in Group
      PROVE  /\ term[g] <= term'[g] /\ (term'[g] = term[g] => leader'[g] = leader[g]) /\ commit[g] <= commit'[g]
             /\ \A j \in 1 .. Len(log'[g]) : j \in 1 .. Len(log[g]) /\ log'[g][j] = log[g][j]
    <2>1. term[g] \in Nat /\ commit[g] \in Nat
        BY <1>3, BoundAssumption DEF RaftPart
    <2>2. CASE g # h
        <3>1. term'[g] = term[g] /\ leader'[g] = leader[g] /\ log'[g] = log[g]
            BY <1>1, <1>2, <1>3, <2>2 DEF RaftPart
        <3> QED BY <1>2, <2>1, <3>1
    <2>3. CASE g = h
        <3>1. term'[g] = term[g] + 1 /\ log'[g] = SubSeq(log[h], 1, k)
            BY <1>1, <1>2, <1>3, <2>3 DEF RaftPart
        <3>2. \A j \in 1 .. k : j \in 1 .. Len(log[h])
            BY <1>4, <1>5
        <3> HIDE <1>1
        <3> QED BY <1>2, <1>6, <2>1, <2>3, <3>1, <3>2
    <2> QED BY <2>2, <2>3
<1>8. LogsMove
    BY <1>7 DEF LogsMove
<1> QED BY <1>2, <1>8, QuietReplicas, QuietClerks DEF stateVars

\* Another config is made, or nothing happens.
LEMMA OtherMoves ==
    ASSUME ShardInv, Reconfigure \/ UNCHANGED vars
    PROVE  LogsMove /\ ReplicasMove /\ ClerksMove
BY QuietMoves DEF Reconfigure, vars

\* A follower takes over a snapshot.
LEMMA restoreSnapshotMoves ==
    ASSUME ShardInv, NEW r \in Replica, restoreSnapshot(r)
    PROVE  LogsMove /\ ReplicasMove /\ ClerksMove
<1> DEFINE n == snapshot[leader[GroupOf[r]]].index
<1>1. /\ n > applied[r] /\ applied' = [applied EXCEPT ![r] = n]
      /\ noopAppliedTerm' = noopAppliedTerm /\ UNCHANGED raftVars /\ clerk' = clerk
    BY DEF restoreSnapshot
<1>2. applied \in [Replica -> Nat]
    BY DEF ShardInv, StatePart
<1>3. n \in Nat
    BY GroupAssumption DEF ShardInv, StatePart, RaftPart
<1> HIDE DEF n
<1>4. \A q \in Replica : applied[q] <= applied'[q]
    BY <1>1, <1>2, <1>3
<1>5. ReplicasMove
    BY <1>1, <1>4 DEF ReplicasMove
<1> QED BY <1>1, <1>5, SameCommit, QuietLogs, QuietClerks DEF raftVars

\* A replica restarts.
LEMMA RestartMoves ==
    ASSUME ShardInv, NEW r \in Replica, Restart(r)
    PROVE  LogsMove /\ ReplicasMove /\ ClerksMove
<1> DEFINE to(c) == IF clerk[c].pc = "wait" THEN "call" ELSE "idle"
<1>1. /\ applied' = [applied EXCEPT ![r] = snapshot[r].index]
      /\ noopAppliedTerm' = [noopAppliedTerm EXCEPT ![r] = 0]
      /\ ~IsLeader(r) /\ UNCHANGED raftVars
      /\ clerk' = [c \in Client |-> IF clerk[c].at # r THEN clerk[c] ELSE Back(clerk[c], to(c))]
    BY DEF Restart
<1>2. applied \in [Replica -> Nat] /\ DOMAIN noopAppliedTerm = Replica
    BY DEF ShardInv, StatePart
<1>3. ASSUME NEW c \in Client
      PROVE  (clerk'[c] = clerk[c] /\ clerk[c].at # r) \/ clerk'[c].pc \in {"idle", "call"}
    <2>1. CASE clerk[c].at # r
        BY <1>1, <2>1
    <2>2. CASE clerk[c].at = r
        <3>1. clerk'[c] = Back(clerk[c], to(c)) /\ to(c) \in {"idle", "call"}
            BY <1>1, <2>2
        <3>2. clerk'[c].pc = to(c)
            BY <3>1, ClerkFacts, BackType
        <3> QED BY <3>1, <3>2
    <2> QED BY <2>1, <2>2
<1>4. ClerksMove
    BY <1>3 DEF ClerksMove
<1>5. ASSUME NEW q \in Replica
      PROVE  \/ applied[q] <= applied'[q] /\ noopAppliedTerm'[q] = noopAppliedTerm[q]
             \/ /\ ~IsLeader(q) /\ noopAppliedTerm'[q] = 0
                /\ \A c \in Client : clerk'[c].pc \in {"wait", "reading"} => clerk'[c].at # q
    <2>1. CASE q = r
        BY <1>1, <1>2, <1>3, <2>1
    <2>2. CASE q # r
        <3>1. applied'[q] = applied[q] /\ noopAppliedTerm'[q] = noopAppliedTerm[q] /\ applied[q] \in Nat
            BY <1>1, <1>2, <2>2
        <3> QED BY <3>1
    <2> QED BY <2>1, <2>2
<1>6. ReplicasMove
    BY <1>5 DEF ReplicasMove
<1> QED BY <1>1, <1>4, <1>6, SameCommit, QuietLogs DEF raftVars

\* A step of one clerk alone.
LEMMA ClerkMoves ==
    ASSUME ShardInv, NEW c \in Client, NEW ck, clerk' = [clerk EXCEPT ![c] = ck],
           ck.pc \in {"idle", "call"} \/ CallBegins(c), UNCHANGED raftVars, UNCHANGED stateVars
    PROVE  LogsMove /\ ReplicasMove /\ ClerksMove
<1>1. /\ UNCHANGED <<log, leader, term>> /\ commit' = commit
      /\ UNCHANGED <<applied, noopAppliedTerm>>
    BY DEF raftVars, stateVars
<1> QED BY <1>1, SameCommit, QuietLogs, QuietReplicas, MovedClerk

\* A write begins, is refused or given up, or a read ends.
LEMMA CallEndMoves ==
    ASSUME ShardInv, NEW c \in Client,
           \/ \E s \in Shard : putAppend(c, s)
           \/ \E r \in Replica : WrongGroup(c, r)
           \/ giveUp(c) \/ GetReply(c)
    PROVE  LogsMove /\ ReplicasMove /\ ClerksMove
<1>1. UNCHANGED raftVars /\ UNCHANGED stateVars
    BY DEF putAppend, WrongGroup, giveUp, GetReply
<1>2. clerk[c] \in ClerkType /\ DOMAIN clerk = Client /\ latest \in 1 .. Len(Configs)
    BY ClerkFacts
<1>3. ASSUME NEW s \in Shard, putAppend(c, s) PROVE LogsMove /\ ReplicasMove /\ ClerksMove
    <2> DEFINE ck == [clerk[c] EXCEPT !.pc = "call", !.seq = clerk[c].seq + 1, !.shard = s]
    <2>0. clerk' = [clerk EXCEPT ![c].pc = "call", ![c].seq = @ + 1, ![c].shard = s]
        BY <1>3 DEF putAppend
    <2>1. clerk' = [clerk EXCEPT ![c] = ck]
        BY <1>2, <2>0
    <2>2. ck.pc = "call"
        BY <1>2 DEF ClerkType
    <2> HIDE DEF ck
    <2> QED BY <1>1, <2>1, <2>2, ClerkMoves
<1>4. ASSUME NEW r \in Replica, WrongGroup(c, r) PROVE LogsMove /\ ReplicasMove /\ ClerksMove
    <2> DEFINE ck == [clerk[c] EXCEPT !.cfg = latest]
    <2>1. clerk[c].pc = "call" /\ clerk' = [clerk EXCEPT ![c] = ck]
        BY <1>2, <1>4 DEF WrongGroup
    <2>2. ck.pc = "call"
        BY <1>2, <2>1, RefreshedType
    <2> HIDE DEF ck
    <2> QED BY <1>1, <2>1, <2>2, ClerkMoves
<1>5. CASE giveUp(c)
    <2> DEFINE ck == Back(clerk[c], "call")
    <2>1. clerk' = [clerk EXCEPT ![c] = ck]
        BY <1>5 DEF giveUp
    <2>2. ck.pc = "call"
        BY <1>2, BackType
    <2> HIDE DEF ck
    <2> QED BY <1>1, <2>1, <2>2, ClerkMoves
<1>6. CASE GetReply(c)
    <2> DEFINE b == Back(clerk[c], "idle")
               wrongGroup == /\ noopAppliedTerm[clerk[c].at] = clerk[c].term
                             /\ ~Owns(GroupOf[clerk[c].at], kv[clerk[c].at], clerk[c].shard)
               n == IF wrongGroup THEN latest ELSE b.cfg
               ck == [b EXCEPT !.cfg = n]
    <2>1. clerk' = [clerk EXCEPT ![c] = ck]
        BY <1>6 DEF GetReply
    <2>2. b \in ClerkType /\ b.pc = "idle"
        BY <1>2, BackType
    <2> HIDE DEF b
    <2>3. n \in 1 .. Len(Configs)
        BY <1>2, <2>2 DEF ClerkType
    <2> HIDE DEF n
    <2>4. ck.pc = "idle"
        BY <2>2, <2>3, RefreshedType
    <2> HIDE DEF ck
    <2> QED BY <1>1, <2>1, <2>4, ClerkMoves
<1> QED BY <1>3, <1>4, <1>5, <1>6

\* A read begins.
LEMMA GetMoves ==
    ASSUME ShardInv, NEW c \in Client, NEW r \in Replica, NEW s \in Shard, Get(c, r, s)
    PROVE  LogsMove /\ ReplicasMove /\ ClerksMove
<1> DEFINE t == term[GroupOf[r]]
           ck == [clerk[c] EXCEPT !.pc = "reading", !.shard = s, !.at = r, !.term = t]
<1>1. /\ clerk' = [clerk EXCEPT ![c].pc = "reading", ![c].shard = s, ![c].at = r, ![c].term = t]
      /\ GroupOf[r] = Owner(clerk[c].cfg, s) /\ leader[GroupOf[r]] = r
      /\ UNCHANGED raftVars /\ UNCHANGED stateVars
    BY DEF Get, IsLeader
<1>2. clerk[c] \in ClerkType /\ DOMAIN clerk = Client
    BY ClerkFacts
<1> HIDE DEF t
<1>3. clerk' = [clerk EXCEPT ![c] = ck]
    BY <1>1, <1>2
<1>4. ck.pc = "reading" /\ ck.shard = s /\ ck.at = r /\ ck.term = t /\ ck.cfg = clerk[c].cfg
    BY <1>2 DEF ClerkType
<1> HIDE DEF ck
<1>5. clerk'[c] = ck
    BY <1>2, <1>3
<1>6. CallBegins(c)
    BY <1>1, <1>4, <1>5 DEF CallBegins, t
<1> QED BY <1>1, <1>3, <1>6, ClerkMoves

\* A write is proposed.
LEMMA PutAppendMoves ==
    ASSUME ShardInv, NEW c \in Client, NEW r \in Replica, PutAppend(c, r)
    PROVE  LogsMove /\ ReplicasMove /\ ClerksMove
<1> DEFINE h == GroupOf[r]
           s == clerk[c].shard
           t == term[h]
           i == Len(log[h]) + 1
           op == [type |-> "Write", shard |-> s, client |-> c, seq |-> clerk[c].seq]
           ck == [clerk[c] EXCEPT !.pc = "wait", !.at = r, !.term = t, !.index = i]
<1>1. /\ clerk[c].pc = "call" /\ Propose(r, op) /\ h = Owner(clerk[c].cfg, s) /\ leader[h] = r
      /\ clerk' = [clerk EXCEPT ![c].pc = "wait", ![c].at = r, ![c].term = t, ![c].index = i]
      /\ UNCHANGED stateVars
    BY DEF PutAppend, IsLeader
<1>2. clerk[c] \in ClerkType /\ DOMAIN clerk = Client
    BY ClerkFacts
<1>3. NewEntry(h, op)
    BY <1>1 DEF NewEntry
<1> HIDE DEF t, i, op
<1>4. LogsMove
    BY <1>1, <1>3, ProposedLogs
<1>5. clerk' = [clerk EXCEPT ![c] = ck]
    BY <1>1, <1>2
<1>6. ck.pc = "wait" /\ ck.shard = s /\ ck.at = r /\ ck.term = t /\ ck.index = i /\ ck.cfg = clerk[c].cfg
    BY <1>2 DEF ClerkType
<1> HIDE DEF ck
<1>7. clerk'[c] = ck
    BY <1>2, <1>5
<1>8. CallBegins(c)
    BY <1>1, <1>6, <1>7 DEF CallBegins, t, i
<1> QED BY <1>1, <1>4, <1>5, <1>8, QuietReplicas, MovedClerk DEF stateVars

\* An entry is applied.
LEMMA applyLoopMoves ==
    ASSUME ShardInv, NEW r \in Replica, applyLoop(r)
    PROVE  LogsMove /\ ReplicasMove /\ ClerksMove
<1> DEFINE h == GroupOf[r]
           n == applied[r]
           op == log[h][n + 1]
           owned == op.type = "Write" /\ Owns(h, kv[r], op.shard)
           waiting(c) == clerk[c].pc = "wait" /\ clerk[c].at = r /\ clerk[c].index = n + 1
<1>1. /\ n + 1 <= Len(log[h]) /\ UNCHANGED <<log, leader, term>>
      /\ commit' = [commit EXCEPT ![h] = IF n + 1 > commit[h] THEN n + 1 ELSE commit[h]]
      /\ applied' = [applied EXCEPT ![r] = n + 1]
      /\ noopAppliedTerm' = [noopAppliedTerm EXCEPT ![r] = IF op.type = "Noop" THEN op.term ELSE noopAppliedTerm[r]]
      /\ clerk' = [c \in Client |-> IF waiting(c) THEN Answer(clerk[c], c, op, owned) ELSE clerk[c]]
    BY DEF applyLoop
<1>2. RaftPart /\ StatePart
    BY DEF ShardInv
<1>3. /\ h \in Group /\ log[h] \in Seq(Op) /\ Len(log[h]) \in Nat /\ applied \in [Replica -> Nat]
      /\ DOMAIN noopAppliedTerm = Replica /\ n \in Nat /\ commit \in [Group -> Nat]
    BY <1>2, GroupAssumption, LenProperties DEF RaftPart, StatePart
<1> HIDE DEF h, n
<1>4. op \in Op
    <2>1. n + 1 \in 1 .. Len(log[h])
        BY <1>1, <1>3
    <2> QED BY <1>3, <2>1, ElementOfSeq
<1> HIDE DEF op
<1>5. \A g \in Group : commit[g] <= commit'[g]
    BY <1>1, <1>3
<1>6. LogsMove
    BY <1>1, <1>5, QuietLogs
<1>7. ASSUME NEW q \in Replica
      PROVE  /\ applied[q] <= applied'[q]
             /\ \/ noopAppliedTerm'[q] = noopAppliedTerm[q]
                \/ \E j \in 1 .. applied'[q] :
                      log'[GroupOf[q]][j].type = "Noop" /\ log'[GroupOf[q]][j].term = noopAppliedTerm'[q]
    <2>1. CASE q # r
        <3>1. applied'[q] = applied[q] /\ noopAppliedTerm'[q] = noopAppliedTerm[q] /\ applied[q] \in Nat
            BY <1>1, <1>3, <2>1
        <3> QED BY <3>1
    <2>2. CASE q = r
        <3>1. applied'[q] = n + 1 /\ applied[q] = n /\ n + 1 \in 1 .. n + 1 /\ n <= n + 1
            BY <1>1, <1>3, <2>2 DEF n
        <3>2. noopAppliedTerm'[q] = IF op.type = "Noop" THEN op.term ELSE noopAppliedTerm[q]
            BY <1>1, <1>3, <2>2
        <3>3. log'[GroupOf[q]][n + 1] = op
            BY <1>1, <2>2 DEF op, h
        <3> QED BY <3>1, <3>2, <3>3
    <2> QED BY <2>1, <2>2
<1>8. ReplicasMove
    BY <1>7 DEF ReplicasMove
<1>9. ASSUME NEW c \in Client PROVE clerk'[c] = clerk[c] \/ clerk'[c].pc \in {"idle", "call"}
    <2>1. CASE ~waiting(c)
        BY <1>1, <2>1
    <2>2. CASE waiting(c)
        <3> DEFINE a == Answer(clerk[c], c, op, owned)
        <3>1. clerk'[c] = a
            BY <1>1, <2>2
        <3>2. a.pc \in {"idle", "call"}
            BY <1>4, ClerkFacts, AnswerType
        <3> HIDE DEF a
        <3> QED BY <3>1, <3>2
    <2> QED BY <2>1, <2>2
<1>10. ClerksMove
    BY <1>9 DEF ClerksMove
<1> QED BY <1>6, <1>8, <1>10

\* Every step.
LEMMA StepMoves == ASSUME ShardInv, [Next]_vars PROVE LogsMove /\ ReplicasMove /\ ClerksMove
<1> DEFINE Q == LogsMove /\ ReplicasMove /\ ClerksMove
<1>1. ASSUME Reconfigure \/ UNCHANGED vars PROVE Q
    BY <1>1, OtherMoves
<1>2. ASSUME NEW g \in Group, NEW r \in Replica, LeaderChange(g, r) PROVE Q
    BY <1>2, LeaderChangeMoves
<1>3. ASSUME NEW r \in Replica, applyLoop(r) \/ restoreSnapshot(r) \/ Restart(r) PROVE Q
    BY <1>3, applyLoopMoves, restoreSnapshotMoves, RestartMoves
<1>4. ASSUME NEW r \in Replica,
             noopLoop(r) \/ configPoll(r) \/ pullNotReady(r) \/ proposeMigrate(r) \/ proposeGC(r)
      PROVE  Q
    BY <1>4, LoopMoves
<1>5. ASSUME NEW r \in Replica,
             \/ \E s \in Shard : migrationTick(r, s)
             \/ \E d \in Replica : Pull(r, d)
             \/ \E s \in Shard, d \in Replica : recipientReady(r, s, d)
      PROVE  Q
    BY <1>5, LookMoves
<1>6. ASSUME NEW c \in Client,
             \/ \E s \in Shard : putAppend(c, s)
             \/ \E r \in Replica : WrongGroup(c, r)
             \/ giveUp(c) \/ GetReply(c)
      PROVE  Q
    BY <1>6, CallEndMoves
<1>7. ASSUME NEW c \in Client, NEW r \in Replica, NEW s \in Shard, Get(c, r, s) PROVE Q
    BY <1>7, GetMoves
<1>8. ASSUME NEW c \in Client, NEW r \in Replica, PutAppend(c, r) PROVE Q
    BY <1>8, PutAppendMoves
<1> HIDE DEF Q
<1>9. Q
    BY <1>1, <1>2, <1>3, <1>4, <1>5, <1>6, <1>7, <1>8 DEF Next
<1> QED BY <1>9 DEF Q

(***************************************************************************)
(* The steps keep the invariant.                                           *)
(***************************************************************************)

\* The numbers of a group.
LEMMA GroupNumbers ==
    ASSUME ShardInv, NEW g \in Group
    PROVE  /\ term[g] \in Nat /\ term[g] >= 1 /\ commit[g] \in Nat /\ Len(log[g]) \in Nat /\ commit[g] <= Len(log[g])
           /\ leader[g] \in Replica /\ GroupOf[leader[g]] = g
BY LenProperties, BoundAssumption DEF ShardInv, RaftPart

\* And of a replica.
LEMMA ReplicaNumbers ==
    ASSUME ShardInv, NEW r \in Replica
    PROVE  /\ GroupOf[r] \in Group /\ applied[r] \in Nat /\ applied[r] <= commit[GroupOf[r]]
           /\ applied[r] <= Len(log[GroupOf[r]])
<1>1. /\ GroupOf[r] \in Group /\ applied[r] \in Nat /\ applied[r] <= commit[GroupOf[r]]
    BY GroupAssumption DEF ShardInv, StatePart, GoodState
<1>2. commit[GroupOf[r]] \in Nat /\ Len(log[GroupOf[r]]) \in Nat /\ commit[GroupOf[r]] <= Len(log[GroupOf[r]])
    BY <1>1, GroupNumbers
<1>3. applied[r] <= Len(log[GroupOf[r]])
    <2> DEFINE a == applied[r]
               b == commit[GroupOf[r]]
               d == Len(log[GroupOf[r]])
    <2>1. a \in Nat /\ b \in Nat /\ d \in Nat /\ a <= b /\ b <= d
        BY <1>1, <1>2
    <2> HIDE DEF a, b, d
    <2>2. a <= d
        BY <2>1
    <2> QED BY <2>2 DEF a, d
<1> QED BY <1>1, <1>3

\* What is committed stays where it is.
LEMMA LogsGrow == ASSUME ShardInv, ShardInv', LogsMove PROVE Grows(log, commit, log', commit')
<1> SUFFICES ASSUME NEW g \in Group
             PROVE  /\ commit[g] \in Nat /\ commit'[g] \in Nat /\ commit[g] <= commit'[g]
                    /\ \A i \in 1 .. commit[g] : log'[g][i] = log[g][i]
    BY DEF Grows
<1>1. /\ commit[g] \in Nat /\ Len(log[g]) \in Nat /\ commit[g] <= Len(log[g])
    BY GroupNumbers
<1>2. /\ commit'[g] \in Nat /\ Len(log'[g]) \in Nat /\ commit'[g] <= Len(log'[g])
    BY LenProperties DEF ShardInv, RaftPart
<1>3. commit[g] <= commit'[g]
    BY DEF LogsMove
<1>4. ASSUME NEW i \in 1 .. commit[g] PROVE log'[g][i] = log[g][i]
    <2>1. i \in 1 .. Len(log'[g]) /\ i # Len(log[g]) + 1
        BY <1>1, <1>2, <1>3
    <2> QED BY <2>1 DEF LogsMove
<1> QED BY <1>1, <1>2, <1>3, <1>4

\* No-ops go on to have a term the group has had.
LEMMA NoopStep ==
    ASSUME ShardInv, ShardInv', NoopPart, LogsMove, ReplicasMove
    PROVE  NoopPart'
<1>1. ASSUME NEW g \in Group, NEW j \in 1 .. Len(log'[g]), log'[g][j].type = "Noop"
      PROVE  log'[g][j].term <= term'[g]
    <2>1. term[g] \in Nat /\ term[g] <= term'[g]
        BY GroupNumbers DEF LogsMove
    <2>2. term'[g] \in Nat
        BY BoundAssumption DEF ShardInv, RaftPart
    <2>3. CASE j \in 1 .. Len(log[g]) /\ log'[g][j] = log[g][j]
        <3>1. log[g][j].term <= term[g]
            BY <1>1, <2>3 DEF NoopPart
        <3>2. log[g][j].term \in Nat
            <4>1. log[g] \in Seq(Op)
                BY DEF ShardInv, RaftPart
            <4>2. log[g][j] \in Op
                BY <2>3, <4>1, ElementOfSeq
            <4> QED BY <1>1, <2>3, <4>2, OpFields, BoundAssumption
        <3> DEFINE x == log[g][j].term
        <3> HIDE DEF x
        <3>3. x <= term[g] /\ x \in Nat
            BY <3>1, <3>2 DEF x
        <3>4. x <= term'[g]
            BY <2>1, <2>2, <3>3
        <3> QED BY <2>3, <3>4 DEF x
    <2>4. CASE j = Len(log[g]) + 1 /\ NewEntry(g, log'[g][j])
        <3>1. log'[g][j].term = term[g]
            BY <1>1, <2>4 DEF NewEntry
        <3> QED BY <2>1, <3>1
    <2> QED BY <2>3, <2>4 DEF LogsMove
<1>2. ASSUME NEW r \in Replica, noopAppliedTerm'[r] # 0
      PROVE  \E j \in 1 .. applied'[r] :
                log'[GroupOf[r]][j].type = "Noop" /\ log'[GroupOf[r]][j].term = noopAppliedTerm'[r]
    <2>1. CASE applied[r] <= applied'[r] /\ noopAppliedTerm'[r] = noopAppliedTerm[r]
        <3>1. PICK j \in 1 .. applied[r] :
                  log[GroupOf[r]][j].type = "Noop" /\ log[GroupOf[r]][j].term = noopAppliedTerm[r]
            BY <1>2, <2>1 DEF NoopPart
        <3>2. /\ GroupOf[r] \in Group /\ applied[r] \in Nat /\ applied[r] <= commit[GroupOf[r]]
              /\ commit[GroupOf[r]] \in Nat
            BY ReplicaNumbers, GroupNumbers
        <3>3. applied'[r] \in Nat
            BY DEF ShardInv, StatePart
        <3>4. j \in 1 .. applied'[r] /\ j \in 1 .. commit[GroupOf[r]]
            BY <2>1, <3>2, <3>3
        <3>5. log'[GroupOf[r]][j] = log[GroupOf[r]][j]
            BY <3>2, <3>4, LogsGrow DEF Grows
        <3> QED BY <2>1, <3>1, <3>4, <3>5
    <2>2. CASE ~(applied[r] <= applied'[r] /\ noopAppliedTerm'[r] = noopAppliedTerm[r])
        BY <1>2, <2>2 DEF ReplicasMove
    <2> QED BY <2>1, <2>2
<1> QED BY <1>1, <1>2 DEF NoopPart

\* After an entry that stays, new no-ops come later.
LEMMA NoopsStay ==
    ASSUME ShardInv, LogsMove, NEW g \in Group, NEW i \in 0 .. Len(log[g]), NEW t, NoopsAfter(log[g], i, t)
    PROVE  NoopsAfter(log'[g], i, t)
<1> SUFFICES ASSUME NEW j \in 1 .. Len(log'[g]), log'[g][j].type = "Noop", log'[g][j].term > t PROVE j > i
    BY DEF NoopsAfter
<1>1. Len(log[g]) \in Nat
    BY GroupNumbers
<1>2. CASE j \in 1 .. Len(log[g]) /\ log'[g][j] = log[g][j]
    BY <1>2 DEF NoopsAfter
<1>3. CASE j = Len(log[g]) + 1
    BY <1>1, <1>3
<1> QED BY <1>2, <1>3 DEF LogsMove

\* Calls go on at a replica of the owner.
LEMMA CallStep ==
    ASSUME ShardInv, ShardInv', NoopPart, CallPart, LogsMove, ClerksMove
    PROVE  CallPart'
<1> SUFFICES ASSUME NEW c \in Client
             PROVE  /\ clerk'[c].pc = "wait" => WaitOK(c)'
                    /\ clerk'[c].pc = "reading" => ReadOK(c)'
    BY DEF CallPart
<1> DEFINE ck == clerk'[c]
           g == GroupOf[ck.at]
<1>1. CASE clerk'[c] = clerk[c]
    <2>1. CASE ck.pc = "wait"
        <3>1. /\ ck.at \in Replica /\ g = Owner(ck.cfg, ck.shard)
              /\ ck.term <= term[g] /\ (ck.term = term[g] => ck.at = leader[g])
              /\ ck.index \in 1 .. Len(log[g]) /\ OwnWrite(c, ck.seq, log[g][ck.index]) =>
                    NoopsAfter(log[g], ck.index, ck.term)
            BY <1>1, <2>1 DEF CallPart, WaitOK
        <3>2. /\ g \in Group /\ term[g] \in Nat /\ term[g] <= term'[g]
              /\ term'[g] = term[g] => leader'[g] = leader[g]
            BY <3>1, GroupAssumption, GroupNumbers DEF LogsMove
        <3>3. ck.term \in Nat /\ term'[g] \in Nat /\ ck.index \in Nat
            <4>1. clerk[c] \in ClerkType /\ MaxFaults \in Nat
                BY ClerkFacts, BoundAssumption
            <4>2. term' \in [Group -> 1 .. MaxFaults + 1]
                BY DEF ShardInv, RaftPart
            <4> QED BY <1>1, <3>2, <4>1, <4>2 DEF ClerkType
        <3> DEFINE x == ck.term
        <3>4. ck.term <= term'[g] /\ (ck.term = term'[g] => ck.at = leader'[g])
            <4>1. x \in Nat /\ x <= term[g] /\ (x = term[g] => ck.at = leader[g])
                BY <3>1, <3>3
            <4> HIDE DEF x, ck
            <4>2. x <= term'[g] /\ (x = term'[g] => term'[g] = term[g] /\ x = term[g])
                BY <3>2, <3>3, <4>1
            <4> QED BY <3>2, <4>1, <4>2 DEF x
        <3>5. ASSUME ck.index \in 1 .. Len(log'[g]), OwnWrite(c, ck.seq, log'[g][ck.index])
              PROVE  NoopsAfter(log'[g], ck.index, ck.term)
            <4> DEFINE i == ck.index
            <4>1. log'[g][i].type = "Write" /\ log'[g][i].client = c /\ log'[g][i].seq = clerk[c].seq
                BY <1>1, <3>5 DEF OwnWrite
            <4>2. ~NewEntry(g, log'[g][i])
                BY <1>1, <2>1, <4>1 DEF NewEntry
            <4>3. i \in 1 .. Len(log[g]) /\ log'[g][i] = log[g][i]
                BY <3>2, <3>5, <4>2 DEF LogsMove
            <4>4. OwnWrite(c, clerk[c].seq, log[g][i])
                BY <4>1, <4>3 DEF OwnWrite
            <4>5. NoopsAfter(log[g], i, ck.term) /\ i \in 0 .. Len(log[g])
                BY <1>1, <3>1, <3>2, <4>3, <4>4, GroupNumbers
            <4> HIDE DEF i
            <4>6. NoopsAfter(log'[g], i, ck.term)
                BY <3>2, <4>5, NoopsStay
            <4> QED BY <4>6 DEF i
        <3>6. WaitOK(c)'
            BY <3>1, <3>4, <3>5 DEF WaitOK
        <3> QED BY <2>1, <3>6
    <2>2. CASE ck.pc = "reading"
        <3>1. ReadOK(c)
            BY <1>1, <2>2 DEF CallPart
        <3> QED BY <1>1, <2>2, <3>1 DEF ReadOK
    <2> QED BY <2>1, <2>2
<1>2. CASE ck.pc \in {"idle", "call"}
    BY <1>2
<1>3. CASE CallBegins(c)
    <2>1. /\ ck.at \in Replica /\ g = Owner(ck.cfg, ck.shard)
          /\ ck.at = leader[g] /\ ck.term = term[g]
          /\ ck.pc = "wait" => ck.index = Len(log[g]) + 1
        BY <1>3 DEF CallBegins
    <2>2. /\ g \in Group /\ term[g] \in Nat /\ term[g] >= 1 /\ term[g] <= term'[g] /\ Len(log[g]) \in Nat
          /\ term'[g] = term[g] => leader'[g] = leader[g]
        BY <2>1, GroupAssumption, GroupNumbers DEF LogsMove
    <2>3. ReadOK(c)'
        BY <2>1, <2>2 DEF ReadOK
    <2>4. ASSUME ck.pc = "wait", ck.index \in 1 .. Len(log'[g]), OwnWrite(c, ck.seq, log'[g][ck.index])
          PROVE  NoopsAfter(log'[g], ck.index, ck.term)
        <3> DEFINE i == Len(log[g]) + 1
        <3>1. log'[g][i].type = "Write"
            BY <2>1, <2>4 DEF OwnWrite
        <3>2. ASSUME NEW j \in 1 .. Len(log'[g]), log'[g][j].type = "Noop", log'[g][j].term > term[g] PROVE FALSE
            <4>1. j \in 1 .. Len(log[g]) /\ log'[g][j] = log[g][j]
                BY <2>2, <3>1, <3>2 DEF LogsMove
            <4>2. log[g][j].term <= term[g]
                BY <2>2, <3>2, <4>1 DEF NoopPart
            <4>3. log[g][j].term \in Nat
                <5>1. log[g] \in Seq(Op)
                    BY <2>2 DEF ShardInv, RaftPart
                <5>2. log[g][j] \in Op
                    BY <4>1, <5>1, ElementOfSeq
                <5> QED BY <3>2, <4>1, <5>2, OpFields, BoundAssumption
            <4> DEFINE x == log[g][j].term
            <4>4. x > term[g] /\ x <= term[g] /\ x \in Nat
                BY <3>2, <4>1, <4>2, <4>3
            <4> HIDE DEF x
            <4> QED BY <2>2, <4>4
        <3> QED BY <2>1, <3>2 DEF NoopsAfter
    <2>5. ck.pc = "wait" => WaitOK(c)'
        BY <2>1, <2>2, <2>4 DEF WaitOK
    <2> QED BY <2>3, <2>5
<1> QED BY <1>1, <1>2, <1>3 DEF ClerksMove

\* A write is acknowledged when its entry is applied by the owner at which its
\* clerk waits.
LEMMA NewlyAcked ==
    ASSUME ShardInv, NEW r \in Replica, applyLoop(r), NEW w \in acked', w \notin acked
    PROVE  LET c == w.client
               op == log[GroupOf[r]][applied[r] + 1]
           IN /\ c \in Client /\ clerk[c].pc = "wait" /\ clerk[c].at = r /\ clerk[c].index = applied[r] + 1
              /\ clerk'[c].pc = "idle" /\ w.seq = clerk[c].seq /\ w.shard = op.shard
              /\ OwnWrite(c, w.seq, op) /\ Owns(GroupOf[r], kv[r], op.shard)
<1> DEFINE h == GroupOf[r]
           n == applied[r]
           op == log[h][n + 1]
           owned == op.type = "Write" /\ Owns(h, kv[r], op.shard)
           waiting(c) == clerk[c].pc = "wait" /\ clerk[c].at = r /\ clerk[c].index = n + 1
<1>1. /\ n + 1 <= Len(log[h])
      /\ clerk' = [c \in Client |-> IF waiting(c) THEN Answer(clerk[c], c, op, owned) ELSE clerk[c]]
      /\ acked' = acked \cup
              {[shard |-> op.shard, client |-> c, seq |-> clerk[c].seq] :
                   c \in {d \in Client : waiting(d) /\ clerk'[d].pc = "idle"}}
    BY DEF applyLoop
<1>2. PICK c \in Client : /\ waiting(c) /\ clerk'[c].pc = "idle"
                          /\ w = [shard |-> op.shard, client |-> c, seq |-> clerk[c].seq]
    BY <1>1
<1>3. w.client = c /\ w.seq = clerk[c].seq /\ w.shard = op.shard
    BY <1>2
<1>4. op \in Op
    <2>1. /\ h \in Group /\ log[h] \in Seq(Op) /\ Len(log[h]) \in Nat /\ n \in Nat
        BY GroupAssumption, GroupNumbers, ReplicaNumbers DEF ShardInv, RaftPart
    <2> HIDE DEF h, n
    <2>2. n + 1 \in 1 .. Len(log[h])
        BY <1>1, <2>1
    <2> QED BY <2>1, <2>2, ElementOfSeq
<1> DEFINE a == Answer(clerk[c], c, op, owned)
<1>5. clerk'[c] = a
    BY <1>1, <1>2
<1>6. op.type = "Write" /\ op.client = c /\ op.seq = clerk[c].seq
    <2>1. a.pc = "idle" => op.type = "Write" /\ op.client = c /\ op.seq = clerk[c].seq
        BY <1>4, ClerkFacts, AnswerType
    <2> HIDE DEF a, op
    <2> QED BY <1>2, <1>5, <2>1
<1>7. ASSUME ~owned PROVE FALSE
    <2>1. a = [Back(clerk[c], "call") EXCEPT !.cfg = latest]
        BY <1>6, <1>7 DEF Answer
    <2>2. Back(clerk[c], "call") \in ClerkType /\ Back(clerk[c], "call").pc = "call"
        BY ClerkFacts, BackType
    <2>3. [Back(clerk[c], "call") EXCEPT !.cfg = latest].pc = "call"
        BY <2>2, ClerkFacts, RefreshedType
    <2> HIDE DEF a
    <2>4. a.pc = "call"
        BY <2>1, <2>3
    <2> QED BY <1>2, <1>5, <2>4
<1> QED BY <1>2, <1>3, <1>6, <1>7 DEF OwnWrite

\* Nothing else acknowledges.
LEMMA AckedByApply == ASSUME [Next]_vars, acked' # acked PROVE \E r \in Replica : applyLoop(r)
<1>1. ~UNCHANGED vars
    BY DEF vars
<1>2. ~Reconfigure /\ \A g \in Group, r \in Replica : ~LeaderChange(g, r)
    BY DEF Reconfigure, LeaderChange
<1>3. \A r \in Replica : ~restoreSnapshot(r) /\ ~Restart(r) /\ ~noopLoop(r) /\ ~configPoll(r)
    BY DEF restoreSnapshot, Restart, noopLoop, configPoll
<1>4. \A r \in Replica : ~pullNotReady(r) /\ ~proposeMigrate(r) /\ ~proposeGC(r)
    BY DEF pullNotReady, proposeMigrate, proposeGC
<1>5. /\ \A r \in Replica, s \in Shard : ~migrationTick(r, s)
      /\ \A r \in Replica, d \in Replica : ~Pull(r, d)
      /\ \A r \in Replica, s \in Shard, d \in Replica : ~recipientReady(r, s, d)
    BY DEF migrationTick, Pull, recipientReady
<1>6. /\ \A c \in Client, s \in Shard : ~putAppend(c, s) /\ \A r \in Replica : ~Get(c, r, s)
      /\ \A c \in Client, r \in Replica : ~PutAppend(c, r) /\ ~WrongGroup(c, r)
    <2>1. \A c \in Client, s \in Shard : ~putAppend(c, s)
        BY DEF putAppend
    <2>2. \A c \in Client, s \in Shard, r \in Replica : ~Get(c, r, s)
        BY DEF Get
    <2>3. \A c \in Client, r \in Replica : ~PutAppend(c, r)
        BY DEF PutAppend
    <2>4. \A c \in Client, r \in Replica : ~WrongGroup(c, r)
        BY DEF WrongGroup
    <2> QED BY <2>1, <2>2, <2>3, <2>4
<1>7. \A c \in Client : ~giveUp(c) /\ ~GetReply(c)
    BY DEF giveUp, GetReply
<1> QED BY <1>1, <1>2, <1>3, <1>4, <1>5, <1>6, <1>7 DEF Next

\* An owner takes a new write.
LEMMA NewTaken ==
    ASSUME NEW g \in Group, NEW st \in KV, NEW op \in Op, op.type = "Write", Owns(g, st, op.shard), IsNew(st, op)
    PROVE  LET new == Applied(g, st, op) IN Owns(g, new, op.shard) /\ Has(new.store[op.shard], WriteOf(op))
<1> DEFINE new == Applied(g, st, op)
<1>1. Applied(g, st, op) = ApplyWrite(g, st, op)
    BY DEF Applied
<1>2. op.shard \in Shard /\ WriteOf(op) \in Write /\ st.store[op.shard] \in Seq(Write)
    BY OpFields, KVFields DEF Write, WriteOf
<1>3. /\ new.cfg = st.cfg /\ new.migrating = st.migrating
      /\ new.duplicateTable = [st.duplicateTable EXCEPT ![op.client] = op.seq]
      /\ \A s \in Shard : new.store[s] = IF s = op.shard THEN Append(st.store[s], WriteOf(op)) ELSE st.store[s]
    BY <1>1, ApplyWriteFields
<1> HIDE DEF new
<1>4. new.store[op.shard] = Append(st.store[op.shard], WriteOf(op))
    BY <1>2, <1>3
<1>5. Owns(g, new, op.shard)
    BY <1>3 DEF Owns
<1>6. Has(new.store[op.shard], WriteOf(op))
    BY <1>2, <1>4, HasAppend
<1> QED BY <1>5, <1>6 DEF new

\* Under Orderly, an owner has not deleted the shard.
LEMMA OwnerNotCollected ==
    ASSUME Orderly, NEW g \in Group, NEW s \in Shard, NEW st \in KV, Owns(g, st, s)
    PROVE  ~Collected(g, s, st)
<1>1. PICK m \in 1 .. Len(Configs) : m = st.cfg /\ Owner(m, s) = g
    BY OwnsHad
<1>2. m \in Nat /\ m <= m
    BY ConfigsNat
<1> QED BY <1>1, <1>2, LostForGood DEF Collected

\* Under Orderly, an owner that finds a write taken of a clerk that waits there
\* has it, from its own log or from an owner before it.
LEMMA OldTaken ==
    ASSUME Orderly, ShardInv, NEW T \in Trace, HistOf(T), NEW h \in Group, NEW n \in 0 .. commit[h],
           NEW c \in Client, NEW s \in Shard, NEW q \in 1 .. MaxSeq, Owns(h, T[h][n], s),
           clerk[c].pc = "wait", clerk[c].seq = q, clerk[c].shard = s, h = Owner(clerk[c].cfg, s),
           q <= T[h][n].duplicateTable[c]
    PROVE  Has(T[h][n].store[s], [client |-> c, seq |-> q])
<1> DEFINE st == T[h][n]
           d == st.duplicateTable[c]
           w == [client |-> c, seq |-> q]
<1>1. w \in Write /\ w.client = c /\ w.seq = q /\ MaxSeq \in Nat
    BY BoundAssumption DEF Write
<1>2. st \in KV /\ KeptState(T, commit, clerk, h, st)
    BY DEF HistOf, PastPart, GoodState
<1>3. d \in 0 .. MaxSeq
    BY <1>2, KVFields
<1>4. /\ HadBy(h, s, st) /\ ~Collected(h, s, st)
      /\ Known(T, commit, clerk, st.duplicateTable)
      /\ Complete(T, commit, h, s, st.store[s])
    <2>1. HadBy(h, s, st) /\ ~Collected(h, s, st)
        BY <1>2, OwnsHad, OwnerNotCollected
    <2> HIDE DEF st
    <2> QED BY <1>2, <2>1 DEF KeptState
<1>5. q <= d
    OBVIOUS
<1> HIDE DEF w
<1>6. PICK f \in Group, x \in Shard : Asked(clerk, c, f, x) /\ Seen(T, commit, f, x, [client |-> c, seq |-> d])
    <2>1. d # 0
        <3> HIDE DEF d
        <3> QED BY <1>1, <1>3, <1>5
    <2> HIDE DEF st
    <2> QED BY <1>4, <2>1 DEF Known
<1> HIDE DEF st, d
<1>7. PICK i \in 0 .. commit[f] : Owns(f, T[f][i], x) /\ Has(T[f][i].store[x], [client |-> c, seq |-> d])
    BY <1>6 DEF Seen
<1>8. FitsAll(clerk, x, T[f][i].store[x]) /\ T[f][i] \in KV
    BY <1>7 DEF HistOf, PastPart, KeptState, GoodState
<1>9. Fits(clerk, x, [client |-> c, seq |-> d])
    BY <1>7, <1>8 DEF Has, FitsAll
<1>10. d = q
    <2>1. d <= q
        BY <1>9 DEF Fits
    <2> QED BY <1>1, <1>3, <1>5, <2>1
<1>11. x = s
    BY <1>9, <1>10 DEF Fits
<1>12. [client |-> c, seq |-> d] = w
    BY <1>10 DEF w
<1>13. CASE f # h
    <2>1. PICK m \in 1 .. clerk[c].cfg : Owner(m, s) = f
        BY <1>6, <1>11 DEF Asked
    <2>2. clerk[c].cfg \in 1 .. Len(Configs)
        BY ClerkFacts DEF ClerkType
    <2>3. Before(f, h, s)
        BY <1>13, <2>1, <2>2 DEF Before
    <2>4. Seen(T, commit, f, s, w)
        BY <1>6, <1>11, <1>12
    <2>5. Has(st.store[s], w)
        BY <1>1, <1>4, <2>3, <2>4 DEF Complete
    <2> QED BY <2>5 DEF st, w
<1>14. CASE f = h /\ i <= n
    <2>1. i \in 0 .. n
        BY <1>14
    <2>2. Lasts(h, s, T[h][i], st)
        BY <2>1 DEF HistOf, PastPart, Lasting, st
    <2>3. HadBy(h, s, T[h][i])
        BY <1>7, <1>8, <1>11, <1>14, OwnsHad
    <2>4. Has(st.store[s], w)
        BY <1>1, <1>4, <1>7, <1>11, <1>12, <1>14, <2>2, <2>3 DEF Lasts
    <2> QED BY <2>4 DEF st, w
<1>15. CASE f = h /\ ~(i <= n)
    <2>1. n <= i /\ i \in 0 .. commit[h]
        BY <1>15
    <2>2. w.seq <= T[h][n].duplicateTable[w.client]
        BY <1>1
    <2>3. Owns(h, T[h][i], s) /\ Has(T[h][i].store[s], w)
        BY <1>7, <1>11, <1>12, <1>15
    <2>4. Has(T[h][n].store[s], w)
        BY <1>1, <2>1, <2>2, <2>3, NothingNew
    <2> QED BY <2>4 DEF w
<1> QED BY <1>13, <1>14, <1>15

\* The entry that is applied is in the log.
LEMMA AppliesEntry ==
    ASSUME NEW r \in Replica, applyLoop(r)
    PROVE  /\ applied[r] + 1 <= Len(log[GroupOf[r]])
           /\ applied' = [applied EXCEPT ![r] = applied[r] + 1]
           /\ log' = log /\ term' = term /\ leader' = leader
<1> DEFINE h == GroupOf[r]
           n == applied[r]
<1>1. /\ n + 1 <= Len(log[h])
      /\ commit' = [commit EXCEPT ![h] = IF n + 1 > commit[h] THEN n + 1 ELSE commit[h]]
      /\ applied' = [applied EXCEPT ![r] = n + 1]
      /\ log' = log /\ term' = term /\ leader' = leader
    BY DEF applyLoop
<1> QED BY ONLY <1>1

\* A write that is acknowledged is in the state after its entry, at a group that
\* its clerk asked, and that entry comes before the no-ops of later terms.
LEMMA TakenNow ==
    ASSUME Orderly, ShardInv, CallPart, NEW T \in Trace, HistOf(T), NEW r \in Replica, applyLoop(r),
           NEW w \in acked', w \notin acked
    PROVE  LET h  == GroupOf[r]
               n  == applied[r]
               st == Applied(h, T[h][n], log[h][n + 1])
               t  == clerk[w.client].term
           IN /\ n \in 0 .. commit[h] /\ n + 1 \in 1 .. Len(log[h])
              /\ Asked(clerk, w.client, h, w.shard) /\ clerk'[w.client].pc = "idle"
              /\ Owns(h, st, w.shard) /\ Has(st.store[w.shard], [client |-> w.client, seq |-> w.seq])
              /\ NoopsAfter(log[h], n + 1, t) /\ t \in Nat /\ t <= term[h]
              /\ t = term[h] => r = leader[h]
<1>0. applied[r] + 1 <= Len(log[GroupOf[r]])
    BY AppliesEntry
<1> DEFINE h == GroupOf[r]
           n == applied[r]
           op == log[h][n + 1]
           c == w.client
           s == w.shard
           old == T[h][n]
           new == Applied(h, old, op)
<1>1. /\ c \in Client /\ clerk[c].pc = "wait" /\ clerk[c].at = r /\ clerk[c].index = n + 1
      /\ clerk'[c].pc = "idle" /\ w.seq = clerk[c].seq /\ s = op.shard
      /\ OwnWrite(c, w.seq, op) /\ Owns(h, kv[r], s)
    BY NewlyAcked
<1>2. /\ h \in Group /\ n \in Nat /\ n \in 0 .. commit[h] /\ kv[r] = old /\ old \in KV
    BY StateFacts
<1>3. n + 1 <= Len(log[h])
    BY <1>0
<1>4. log[h] \in Seq(Op) /\ Len(log[h]) \in Nat
    BY <1>2, GroupNumbers DEF ShardInv, RaftPart
<1> HIDE DEF n
<1>5. n + 1 \in 1 .. Len(log[h])
    BY <1>2, <1>3, <1>4
<1>6. op \in Op /\ KeptOp(T, commit, clerk, h, n + 1, op)
    BY <1>2, <1>4, <1>5, ElementOfSeq DEF HistOf, ComingPart
<1> HIDE DEF op, h, new, old
<1>7. op.type = "Write" /\ op.client = c /\ op.seq = w.seq
    BY <1>1 DEF OwnWrite
<1>8. s \in Shard /\ c \in Client /\ w.seq \in 1 .. MaxSeq
    BY <1>1, <1>6, <1>7, OpFields
<1>9. WriteOf(op) = [client |-> c, seq |-> w.seq]
    BY <1>7 DEF WriteOf
<1>10. s = clerk[c].shard
    <2>1. Fits(clerk, op.shard, WriteOf(op))
        BY <1>6, <1>7 DEF KeptOp
    <2> QED BY <1>1, <1>9, <2>1 DEF Fits
<1>11. /\ h = Owner(clerk[c].cfg, s) /\ clerk[c].term <= term[h]
       /\ clerk[c].term = term[h] => r = leader[h]
       /\ NoopsAfter(log[h], n + 1, clerk[c].term)
    <2>1. WaitOK(c)
        BY <1>1 DEF CallPart
    <2> QED BY <1>1, <1>5, <1>10, <2>1 DEF WaitOK, h, op
<1>12. Asked(clerk, c, h, s)
    <2>1. clerk[c].cfg \in 1 .. Len(Configs)
        BY <1>1, ClerkFacts DEF ClerkType
    <2>2. clerk[c].cfg \in 1 .. clerk[c].cfg
        BY <2>1, ConfigsNat
    <2> QED BY <1>11, <2>2 DEF Asked
<1>13. clerk[c].term \in Nat
    BY <1>1, ClerkFacts, BoundAssumption DEF ClerkType
<1>14. Owns(h, new, s) /\ Has(new.store[s], WriteOf(op))
    <2>1. Owns(h, old, op.shard)
        BY <1>1, <1>2
    <2>2. CASE IsNew(old, op)
        BY <1>1, <1>2, <1>6, <1>7, <2>1, <2>2, NewTaken DEF new
    <2>3. CASE ~IsNew(old, op)
        <3>1. new = old
            BY <1>7, <2>3 DEF new, Applied, ApplyWrite
        <3>2. w.seq <= old.duplicateTable[c]
            <4>1. old.duplicateTable[c] \in 0 .. MaxSeq /\ MaxSeq \in Nat
                BY <1>2, <1>8, KVFields, BoundAssumption
            <4> DEFINE d == old.duplicateTable[c]
            <4>2. ~(w.seq > d)
                BY <1>7, <2>3 DEF IsNew
            <4> HIDE DEF d
            <4>3. d \in 0 .. MaxSeq /\ MaxSeq \in Nat
                BY <4>1 DEF d
            <4>4. w.seq <= d
                BY <1>8, <4>2, <4>3
            <4> QED BY <4>4 DEF d
        <3>3. Has(old.store[s], [client |-> c, seq |-> w.seq])
            <4> DEFINE q == w.seq
            <4>1. /\ clerk[c].pc = "wait" /\ clerk[c].seq = q /\ clerk[c].shard = s /\ q \in 1 .. MaxSeq
                  /\ Owns(h, T[h][n], s) /\ q <= T[h][n].duplicateTable[c]
                BY <1>1, <1>2, <1>8, <1>10, <3>2 DEF old
            <4> HIDE DEF c, s, q
            <4>2. Has(T[h][n].store[s], [client |-> c, seq |-> q])
                BY <1>2, <1>8, <1>11, <4>1, OldTaken
            <4> QED BY <4>2 DEF old, q
        <3> QED BY <1>1, <1>9, <2>1, <3>1, <3>3
    <2> QED BY <2>2, <2>3
<1>15. Has(new.store[s], [client |-> c, seq |-> w.seq])
    BY <1>9, <1>14
<1> HIDE DEF c, s
<1>16. /\ n \in 0 .. commit[h] /\ n + 1 \in 1 .. Len(log[h])
       /\ Asked(clerk, c, h, s) /\ clerk'[c].pc = "idle"
       /\ Owns(h, new, s) /\ Has(new.store[s], [client |-> c, seq |-> w.seq])
       /\ NoopsAfter(log[h], n + 1, clerk[c].term) /\ clerk[c].term \in Nat /\ clerk[c].term <= term[h]
       /\ clerk[c].term = term[h] => r = leader[h]
    BY <1>1, <1>2, <1>5, <1>11, <1>12, <1>13, <1>14, <1>15
<1> QED BY ONLY <1>16 DEF c, s, h, n, new, old, op

\* The history after a step continues the one before it.
LEMMA HistoryStep ==
    ASSUME ShardInv, ShardInv', LogsMove, NEW T \in Trace, HistOf(T), NEW U \in Trace, HistOf(U)'
    PROVE  Extends(T, commit, U, commit') /\ TraceOf(U, log', commit')
<1>1. TraceOf(T, log, commit)
    BY DEF HistOf, TracePart
<1>2. TraceOf(U, log', commit')
    BY DEF HistOf, TracePart
<1>3. Grows(log, commit, log', commit')
    BY LogsGrow
<1>4. \A g \in Group : commit[g] \in Nat
    BY GroupNumbers
<1> QED BY <1>1, <1>2, <1>3, <1>4, SameHistory

\* The newly acknowledged write is kept.
LEMMA NewKept ==
    ASSUME Orderly, ShardInv, ShardInv', CfgsGrow, CallPart, LogsMove, NEW T \in Trace, HistOf(T),
           NEW U \in Trace, HistOf(U)', NEW r \in Replica, applyLoop(r), NEW w \in acked', w \notin acked
    PROVE  \E h \in Group :
              Asked(clerk, w.client, h, w.shard)' /\ \E i \in 0 .. commit'[h], t \in Nat : Kept(U, w, h, i, t)'
<1> DEFINE h == GroupOf[r]
           n == applied[r]
           c == w.client
           s == w.shard
           t == clerk[c].term
           new == Applied(h, T[h][n], log[h][n + 1])
<1>1. /\ n \in 0 .. commit[h] /\ n + 1 \in 1 .. Len(log[h])
      /\ Asked(clerk, c, h, s) /\ clerk'[c].pc = "idle"
      /\ Owns(h, new, s) /\ Has(new.store[s], [client |-> c, seq |-> w.seq])
      /\ NoopsAfter(log[h], n + 1, t) /\ t \in Nat /\ t <= term[h]
      /\ t = term[h] => r = leader[h]
    BY TakenNow
<1>2. log' = log /\ term' = term /\ leader' = leader /\ applied' = [applied EXCEPT ![r] = n + 1]
    BY AppliesEntry
<1>3. h \in Group /\ commit[h] \in Nat /\ c \in Client
    <2>1. h \in Group
        BY GroupAssumption
    <2>2. acked' \subseteq [shard : Shard, client : Client, seq : 1 .. MaxSeq]
        BY DEF ShardInv, ClerkPart
    <2> QED BY <2>1, <2>2, GroupNumbers
<1> HIDE DEF h, n, c, s, t
<1>4. applied'[r] = n + 1 /\ n + 1 <= commit'[h] /\ commit'[h] \in Nat /\ n \in Nat
    <2>1. applied'[r] = n + 1
        BY <1>2 DEF ShardInv, StatePart
    <2>2. applied'[r] <= commit'[h] /\ commit'[h] \in Nat
        BY <1>3 DEF ShardInv, StatePart, RaftPart, GoodState, h
    <2> QED BY <1>1, <1>3, <2>1, <2>2
<1>5. n + 1 \in 1 .. commit'[h] /\ n + 1 \in 0 .. commit'[h] /\ (n + 1) - 1 = n
    BY <1>4
<1>6. U[h][n + 1] = new
    <2>1. Extends(T, commit, U, commit') /\ TraceOf(U, log', commit')
        BY HistoryStep
    <2>2. U[h][n] = T[h][n]
        BY <1>1, <1>3, <2>1 DEF Extends
    <2>3. U[h][n + 1] = Applied(h, U[h][(n + 1) - 1], log'[h][n + 1])
        BY <1>3, <1>5, <2>1 DEF TraceOf
    <2> QED BY <1>2, <1>5, <2>2, <2>3
<1> HIDE DEF new
<1>7. Asked(clerk', c, h, s)
    BY <1>1, <1>3, AskedGrows
<1>8. PICK i \in Nat, k \in Nat : i = n + 1 /\ k = t
    <2>1. n + 1 \in Nat /\ t \in Nat
        BY <1>1, <1>4
    <2> QED BY ONLY <2>1
<1>9. /\ Owns(h, U[h][i], s) /\ Has(U[h][i].store[s], [client |-> c, seq |-> w.seq])
      /\ NoopsAfter(log'[h], i, k) /\ k <= term'[h] /\ i \in 0 .. commit'[h]
      /\ k = term'[h] => applied'[leader'[h]] >= i
      /\ clerk'[c].pc # "reading"
    BY <1>1, <1>2, <1>4, <1>5, <1>6, <1>8
<1>10. Kept(U, w, h, i, k)'
    BY <1>9 DEF Kept, c, s
<1> QED BY <1>3, <1>7, <1>9, <1>10 DEF c, s

\* What was kept is kept.
LEMMA OldKept ==
    ASSUME ShardInv, ShardInv', CallPart', LogsMove, ReplicasMove, ClerksMove,
           NEW T \in Trace, HistOf(T), NEW U \in Trace, HistOf(U)', NEW w, w.client \in Client,
           NEW h \in Group, NEW i \in 0 .. commit[h], NEW t \in Nat, Kept(T, w, h, i, t)
    PROVE  i \in 0 .. commit'[h] /\ Kept(U, w, h, i, t)'
<1> DEFINE c == w.client
           l == leader[h]
           a == clerk'[c].at
<1>1. /\ term[h] \in Nat /\ commit[h] \in Nat /\ Len(log[h]) \in Nat /\ commit[h] <= Len(log[h])
      /\ l \in Replica /\ GroupOf[l] = h /\ IsLeader(l)
    BY GroupNumbers DEF IsLeader
<1>2. /\ term'[h] \in Nat /\ commit'[h] \in Nat /\ \A r \in Replica : applied'[r] \in Nat
    <2>1. term'[h] \in Nat /\ commit'[h] \in Nat
        BY BoundAssumption DEF ShardInv, RaftPart
    <2>2. \A r \in Replica : applied'[r] \in Nat
        BY DEF ShardInv, StatePart
    <2> QED BY <2>1, <2>2
<1>3. term[h] <= term'[h] /\ (term'[h] = term[h] => leader'[h] = l) /\ commit[h] <= commit'[h]
    BY DEF LogsMove
<1>4. i \in Nat /\ i \in 0 .. commit'[h] /\ i \in 0 .. Len(log[h])
    BY <1>1, <1>2, <1>3
<1>5. U[h][i] = T[h][i]
    BY HistoryStep DEF Extends
<1>6. applied[l] <= applied'[l] /\ applied[l] \in Nat
    BY <1>1, ReplicaNumbers DEF ReplicasMove
<1>7. NoopsAfter(log'[h], i, t)
    BY <1>4, NoopsStay DEF Kept
<1>8. t <= term[h] /\ (t = term[h] => applied[l] >= i)
    BY DEF Kept
<1>9. t <= term'[h] /\ (t = term'[h] => applied'[leader'[h]] >= i)
    <2>1. t = term'[h] => t = term[h]
        BY <1>1, <1>2, <1>3, <1>8
    <2>2. applied[l] >= i => applied'[l] >= i
        BY <1>1, <1>2, <1>4, <1>6
    <2> QED BY <1>1, <1>2, <1>3, <1>8, <2>1, <2>2
<1>10. ASSUME clerk'[c].pc = "reading", GroupOf[a] = h
       PROVE  applied'[a] >= i \/ clerk'[c].term > t
    <2>1. a \in Replica
        BY <1>10 DEF CallPart, ReadOK
    <2>2. applied[a] <= applied'[a] /\ applied[a] \in Nat /\ applied'[a] \in Nat
        <3>1. ~\A d \in Client : clerk'[d].pc \in {"wait", "reading"} => clerk'[d].at # a
            BY <1>10
        <3> HIDE DEF a
        <3> QED BY <1>2, <2>1, <3>1, ReplicaNumbers DEF ReplicasMove
    <2>3. CASE clerk'[c] = clerk[c]
        <3>1. applied[a] >= i \/ clerk[c].term > t
            BY <1>10, <2>3 DEF Kept
        <3> HIDE DEF a
        <3> QED BY <1>4, <2>2, <2>3, <3>1
    <2>4. CASE CallBegins(c)
        <3>1. a = l /\ clerk'[c].term = term[h]
            BY <1>10, <2>4 DEF CallBegins
        <3>2. t = term[h] => applied[a] >= i
            BY <1>8, <3>1
        <3> HIDE DEF a
        <3>3. t # term[h] => term[h] > t
            BY <1>1, <1>8
        <3> QED BY <1>4, <2>2, <3>1, <3>2, <3>3
    <2> QED BY <1>10, <2>3, <2>4 DEF ClerksMove
<1>11. Owns(h, U[h][i], w.shard) /\ Has(U[h][i].store[w.shard], [client |-> w.client, seq |-> w.seq])
    BY <1>5 DEF Kept
<1>12. Kept(U, w, h, i, t)'
    BY <1>7, <1>9, <1>10, <1>11 DEF Kept
<1> QED BY <1>4, <1>12

\* Every step keeps the invariant.
LEMMA OwnNext ==
    ASSUME Orderly, ShardInv, ShardInv', CfgsMade, HistInv, OwnInv, [Next]_vars
    PROVE  OwnInv'
<1>1. LogsMove /\ ReplicasMove /\ ClerksMove
    BY StepMoves
<1>2. NoopPart /\ CallPart
    BY DEF OwnInv
<1>3. NoopPart' /\ CallPart'
    BY <1>1, <1>2, NoopStep, CallStep
<1>4. CfgsGrow
    BY CfgsKept
<1>5. PICK T \in Trace : HistOf(T)
    BY DEF HistInv
<1>6. OwnPart(T)
    BY <1>5 DEF OwnInv
<1>7. ASSUME NEW U \in Trace, HistOf(U)' PROVE OwnPart(U)'
    <2> SUFFICES ASSUME NEW w \in acked'
                 PROVE  \E h \in Group : Asked(clerk, w.client, h, w.shard)' /\
                            \E i \in 0 .. commit'[h], t \in Nat : Kept(U, w, h, i, t)'
        BY DEF OwnPart
    <2>1. CASE w \in acked
        <3>1. PICK h \in Group : /\ Asked(clerk, w.client, h, w.shard)
                                 /\ \E i \in 0 .. commit[h], t \in Nat : Kept(T, w, h, i, t)
            BY <1>6, <2>1 DEF OwnPart
        <3>2. PICK i \in 0 .. commit[h], t \in Nat : Kept(T, w, h, i, t)
            BY <3>1
        <3>3. w.client \in Client
            BY DEF ShardInv, ClerkPart
        <3>4. Asked(clerk', w.client, h, w.shard)
            BY <1>4, <3>1, <3>3, AskedGrows
        <3>5. i \in 0 .. commit'[h] /\ Kept(U, w, h, i, t)'
            BY <1>1, <1>3, <1>5, <1>7, <3>2, <3>3, OldKept
        <3> QED BY <3>4, <3>5
    <2>2. CASE w \notin acked
        <3>1. PICK r \in Replica : applyLoop(r)
            BY <2>2, AckedByApply
        <3> QED BY <1>1, <1>2, <1>4, <1>5, <1>7, <2>2, <3>1, NewKept
    <2> QED BY <2>1, <2>2
<1> QED BY <1>3, <1>7 DEF OwnInv

\* At first there are no logs, calls or writes.
LEMMA OwnInit == ASSUME Init PROVE OwnInv
<1>1. /\ log = [g \in Group |-> <<>>] /\ noopAppliedTerm = [r \in Replica |-> 0] /\ acked = {}
    BY DEF Init
<1>2. \A c \in Client : clerk[c].pc = "idle"
    BY DEF Init, NewShardClerk
<1>3. NoopPart
    <2>1. \A g \in Group : Len(log[g]) = 0
        BY <1>1
    <2> QED BY <1>1, <2>1 DEF NoopPart
<1>4. CallPart
    BY <1>2 DEF CallPart
<1> QED BY <1>1, <1>3, <1>4 DEF OwnInv, OwnPart

\* A replica that serves a read is past what its clerk's writes made.
LEMMA ServesPast ==
    ASSUME ShardInv, OwnInv, NEW T, NEW c \in Client, Reads(clerk[c]), NEW w, w.client = c,
           NEW i \in Nat, NEW t \in Nat, Kept(T, w, GroupOf[clerk[c].at], i, t)
    PROVE  applied[clerk[c].at] >= i
<1> DEFINE r == clerk[c].at
           h == GroupOf[r]
           k == clerk[c].term
<1>1. r \in Replica /\ k >= 1 /\ noopAppliedTerm[r] = k
    BY DEF OwnInv, CallPart, ReadOK, Reads, Serves
<1>2. k \in Nat
    BY ClerkFacts, BoundAssumption DEF ClerkType
<1>3. applied[r] >= i \/ k > t
    BY DEF Kept, Reads
<1>4. NoopsAfter(log[h], i, t)
    BY DEF Kept
<1>5. /\ applied[r] \in Nat /\ applied[r] <= Len(log[h]) /\ Len(log[h]) \in Nat
    BY <1>1, ReplicaNumbers, GroupNumbers
<1>6. k # 0 => \E j \in 1 .. applied[r] : log[h][j].type = "Noop" /\ log[h][j].term = k
    BY <1>1 DEF OwnInv, NoopPart
<1> HIDE DEF k, h, r
<1>7. CASE k > t
    <2>1. PICK j \in 1 .. applied[r] : log[h][j].type = "Noop" /\ log[h][j].term = k
        BY <1>1, <1>2, <1>6
    <2>2. j \in 1 .. Len(log[h])
        BY <1>5
    <2>3. j > i
        BY <1>4, <1>7, <2>1, <2>2 DEF NoopsAfter
    <2>4. applied[r] >= i
        BY <1>5, <2>3
    <2> QED BY <2>4 DEF r
<1> QED BY <1>3, <1>7 DEF r

\* A Get that is about to be served returns the writes its clerk has returned
\* from, also those it made at another group, if no shard returns to a group.
THEOREM ReadsOwn == Orderly => (Spec => []GetsOwnWrites)
<1>1. ASSUME Orderly, ShardInv, HistInv, OwnInv PROVE GetsOwnWrites
    <2> SUFFICES ASSUME NEW c \in Client, Reads(clerk[c]), NEW a \in acked, a.client = c, a.shard = clerk[c].shard
                 PROVE  Has(kv[clerk[c].at].store[a.shard], [client |-> c, seq |-> a.seq])
        BY DEF GetsOwnWrites
    <2>1. PICK T \in Trace : HistOf(T)
        BY <1>1 DEF HistInv
    <2> DEFINE r == clerk[c].at
               g == GroupOf[r]
               s == a.shard
               st == kv[r]
               n == applied[r]
               w == [client |-> c, seq |-> a.seq]
    <2>2. PICK h \in Group : Asked(clerk, c, h, s) /\ \E i \in 0 .. commit[h], t \in Nat : Kept(T, a, h, i, t)
        BY <1>1, <2>1 DEF OwnInv, OwnPart
    <2>3. PICK i \in 0 .. commit[h], t \in Nat : Kept(T, a, h, i, t)
        BY <2>2
    <2>4. Owns(h, T[h][i], s) /\ Has(T[h][i].store[s], w)
        BY <2>3 DEF Kept
    <2>5. r \in Replica /\ g = Owner(clerk[c].cfg, s) /\ Owns(g, st, s)
        BY <1>1 DEF OwnInv, CallPart, ReadOK, Reads, Serves
    <2>6. s \in Shard /\ w \in Write
        BY <1>1 DEF ShardInv, ClerkPart, Write
    <2>7. commit[h] \in Nat /\ i \in Nat
        BY <1>1, GroupNumbers
    <2>8. g = h => n >= i
        BY <1>1, <2>3, <2>7, ServesPast
    <2> HIDE DEF r, s, w
    <2>9. /\ g \in Group /\ n \in Nat /\ n \in 0 .. commit[g] /\ st = T[g][n] /\ st \in KV
          /\ KeptState(T, commit, clerk, g, st)
        BY <1>1, <2>1, <2>5, StateFacts
    <2> HIDE DEF g, st, n
    <2>10. HadBy(g, s, st) /\ ~Collected(g, s, st)
        BY <1>1, <2>5, <2>6, <2>9, OwnsHad, OwnerNotCollected
    <2>11. CASE g = h
        <3>1. i \in 0 .. n
            BY <2>7, <2>8, <2>9, <2>11
        <3>2. Lasts(h, s, T[h][i], T[h][n])
            BY <2>1, <2>6, <2>9, <2>11, <3>1 DEF HistOf, PastPart, Lasting
        <3>3. HadBy(h, s, T[h][i])
            <4>1. T[h][i] \in KV
                BY <2>1 DEF HistOf, PastPart, GoodState
            <4> QED BY <2>4, <2>6, <4>1, OwnsHad
        <3>4. Has(st.store[s], w)
            BY <2>4, <2>6, <2>9, <2>10, <2>11, <3>2, <3>3 DEF Lasts
        <3> QED BY <3>4 DEF st, s, w, r
    <2>12. CASE g # h
        <3>1. clerk[c].cfg \in 1 .. Len(Configs)
            BY <1>1, ClerkFacts DEF ClerkType
        <3>2. PICK m \in 1 .. clerk[c].cfg : Owner(m, s) = h
            BY <2>2 DEF Asked
        <3>3. Before(h, g, s)
            BY <2>5, <2>12, <3>1, <3>2 DEF Before
        <3>4. Seen(T, commit, h, s, w)
            BY <2>4 DEF Seen
        <3>5. Complete(T, commit, g, s, st.store[s])
            BY <2>6, <2>9, <2>10 DEF KeptState
        <3>6. Has(st.store[s], w)
            BY <2>6, <3>3, <3>4, <3>5 DEF Complete
        <3> QED BY <3>6 DEF st, s, w, r
    <2> QED BY <2>11, <2>12
<1>2. Orderly => (Init => HistInv /\ OwnInv)
    BY HistInit, OwnInit
<1>3. Orderly => (ShardInv /\ ShardInv' /\ CfgsMade /\ HistInv /\ OwnInv /\ [Next]_vars => HistInv' /\ OwnInv')
    BY HistNext, OwnNext
<1>4. Orderly => (ShardInv /\ HistInv /\ OwnInv => GetsOwnWrites)
    BY <1>1
<1> SUFFICES ASSUME Orderly PROVE Spec => []GetsOwnWrites
    OBVIOUS
<1>5. Init => HistInv /\ OwnInv
    BY <1>2
<1>6. ShardInv /\ ShardInv' /\ CfgsMade /\ HistInv /\ OwnInv /\ [Next]_vars => HistInv' /\ OwnInv'
    BY <1>3
<1>7. ShardInv /\ HistInv /\ OwnInv => GetsOwnWrites
    BY <1>4
<1> QED BY <1>5, <1>6, <1>7, Invariance, ConfigsMade, PTL DEF Spec
=============================================================================
