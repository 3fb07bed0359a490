# A TLA+ development of distsys-lab

distsys-lab builds a sharded key-value store in stages, each a Go package on top
of the previous ones.  This directory holds TLA+ models of the stages that carry
the protocol logic, TLC configurations that check them on small instances, and
TLAPS proofs of the results that matter most.

Run a check with `tlc -config MCRaft_log.cfg MCRaft`, a proof with
`tlapm RaftProofs.tla`.  `PROJECT.json` lists components, runs, mutants, findings,
hazards and theorems, and maps every definition that models code to its lines.

## 1. Inventory

| Component | State | Operations | Talks to |
|---|---|---|---|
| Raft node, `01-raft` | term, vote, log with a compacted prefix, commit and apply indices, the leader's nextIndex and matchIndex, running goroutines | election timer, `startElection`, `RequestVote`, `Propose`, `replicate`, `AppendEntries`, `InstallSnapshot`, `Snapshot`, `RunApplyLoop` | peers by RPC, its state machine by `ApplyCh`, the persister |
| Persister, `01-raft/persister.go` | a state file and a snapshot file | `SaveState`, `SaveStateAndSnapshot`, read at start | the node, under `r.mu` |
| Transports, `01-raft` | partitions, failures, cached connections | one blocking call per request | nodes |
| KV service and clerk, `02-kv-store`; the RPC clients of stage 3 | store, duplicate table, notify channels, no-op term; sequence number, last server that answered | `applyLoop`, `PutAppend`, `Get`, `noopLoop`, snapshots | Raft below, clerks above |
| Connection pool, `03-connection-pooling` | free list (a buffered channel), count, stop channel | `checkout`, `checkin`, `evictAndReplace`, redialers, idle evictor, `Close` | a server that may be down |
| Read cache, `04-caching` | map and recency list, calls in flight, `writeMu` | `Get`, `Put`, `Append`, expiry, eviction | a `Store` others write too |
| Shard controller, `05-sharded-kv` | history of configs | `Join`, `Leave`, `Move`, `Query`, `rebalance` | Raft below, groups and clerks above |
| Shard group and its clerk, `05-sharded-kv` | store, duplicate table, config, `migrating`, `leaving`; the loops' own memory of what they proposed | `applyLoop`, `configPollLoop`, `migrationLoop`/`Pull`, `gcLoop`/`HasShard`, `PutAppend`, `Get`, `noopLoop` | its Raft log, the controller, other groups |
| Ring, ring controller, auto-splitter, `06-hot-shard-splitting` | positions on a 32-bit ring, load counters | split, move, lookup, detect, `Step` | the ring controller's Raft log |

Stages 7 to 10 and the capstone are placeholders without code.

What is hard in each, and what makes it correct:

* **Raft.**  Goroutines read the node's state after the lock was dropped, replies
  arrive for terms long gone, nodes crash between two writes.  Correct when there is
  one leader per term, committed entries are never lost or replaced, every state
  machine is in the state of some committed prefix, and a lasting leader brings the
  others up to date.
* **Pool.**  The counter, the free list and the connections change in separate steps
  with dials in between.  Correct when the counter is exact at each of these points,
  because a send on the full free list would hang a call, the evictor or `Close`.
* **Cache.**  The store is called without the lock.  Correct when a read never
  returns something older than a write that returned before it was called, and cache and store see writes in one order.
* **Shard groups.**  Every group adopts a config when it gets to it, data and
  duplicate table move in a message of their own, and the donor deletes its copy
  later.  Correct when no acknowledged write is lost, none takes effect twice, no two
  groups take writes for a shard, and the shard is served again in the end.
* **KV service.**  A call proposes, registers a channel and waits, in three steps, while
  leaders change and entries land at the index it was promised.  Correct when each
  write takes effect once between call and return, nobody is told OK for a write that
  was overwritten, and a read at a current leader sees what was acknowledged.
* **Controllers.**  Requests are retried and committed twice; clerks read at replicas
  that lag.  Correct when each request makes one version that all replicas agree on,
  shards are spread evenly with few moves, the ring stays a partition of the key space
  through racing splits, and an auto-splitter moves no shard but the half it made.

The list `hazards` of `PROJECT.json` has the places in the code where each of these
bites, and the property that would notice.

## 2. Modules

| Module | Models | Composition |
|---|---|---|
| `Raft` | `01-raft` with its persister and transport, and the executing half of `02-kv-store`'s `applyLoop` | |
| `MCRaft` | start states for TLC | extends `Raft` |
| `RaftProofs`, `RaftStepProofs` | proofs: types, disk, elections, log matching; commitment, the actions | the second extends the first, the first `Raft` |
| `Service` | Raft as a service sees it; handlers that propose and wait, `noopLoop`, the read gate | |
| `KVServer`, `MCKVServer`, `KVServerProofs` | `02-kv-store`: state machine, snapshots, clerks | extends `Service` |
| `AtomicKV` | abstract: a store in which each write takes effect once | implemented by `KVServer` |
| `Pool`, `MCPool`, `PoolProofs` | `03-connection-pooling/pooled_client.go` | |
| `Cache`, `MCCache`, `CacheProofs` | `04-caching/cache.go` | |
| `ShardGroup`, `MCShardGroup`, `ShardGroupProofs` | groups and clerks of `05-sharded-kv` | over an abstract log per group |
| `ShardConfig` | `05-sharded-kv/config.go`, pure | |
| `Commands` | the log of a controller and retrying clerks, as `KVServer` shows them | |
| `Ctrler` | `05-sharded-kv/ctrler.go`, `ctrler_clerk.go` | extends `Commands`, `ShardConfig` |
| `Ring` | `06-hot-shard-splitting/ring.go`, `ring_config.go`, pure | |
| `RingCtrler` | ring controller, its clerk, `detect.go`, `autosplit.go` | extends `Commands`, `Ring` |
| `Controllers`, `MCControllers` | both controllers as one specification; its instance for TLC | extends `Ctrler`, `RingCtrler` |
| `ControllerProofs` | proofs about both controllers | extends `Controllers` |
| `DataLemmas` | lemmas: induction over naturals and finite sets, recursive functions, sums, sorted slots | used by `KVServerProofs`, `ControllerProofs` |

A definition whose comment begins with *Mutant* is a plausible bug.  It is used by
nothing here; substituted for the definition that follows it, it makes TLC report the
property `PROJECT.json` pairs it with, which shows that the property can fail.

### Raft

What the code does under one acquisition of `r.mu` is one action; what happens
between two acquisitions is a state of its own.

* `spawned` holds the `startElection` goroutines that `BecomeCandidate` has started and
  that have not read the term yet (election.go); `votes` has the count of each of them.
  A goroutine that reads late asks for votes in whatever term the node then is in.
* `repl[s][p]` is where `replicateToPeer(p)` stands in the current round: idle, ready,
  about to send a snapshot (the two critical sections of `sendInstallSnapshot`), or
  waiting for its call.  A round begins only when the previous one has ended, so at
  most one call per peer is outstanding.  `AppendEntries` truncates unconditionally,
  and this is what makes that safe.
* `rpcs` is the calls in flight, first as requests and then as replies.  They are
  handled in any order and as late as they like.  Calls fail by `FailRPC` or with the
  caller's process; a request of a dead process may still arrive.
* `disk` and `snapFile` are the two files.  `persistLocked` is part of each handler's
  action.  `CrashInSnapshot` and `CrashInInstall` stop the node between them; `Boot` is
  `newRaft`, `restoreLocked` and `NewKVServer` on what is then on disk.
* `applyPC`, `applyCh` and `sm` are the apply loop within its tick, the channel, and
  the operations the state machine has executed.  `Execute` skips an operation it has
  executed before: that is the KV server's duplicate table.
* `committed` is a history variable: the entries any leader has committed.

Abstractions: timers are steps that may be taken at any time; a command is a model
value and is some client's only write; a snapshot is the sequence of executed
operations; single file writes are atomic (the code renames a temporary file); a crash
between two `SaveState` calls of one handler is not modelled, because the first of them
only records a newer term without a vote.  `ApplyCh` has room for 64 messages, which
no instance fills.

### Service, KVServer and AtomicKV

`Service` has Raft as the runs and proofs of `Raft` justify it: `chosen` is the committed
log, a term has one leader, a new leader's log begins with `chosen`, a node may believe
itself leader long after it was succeeded (`leads` against `won`), and entries that are
not committed may be lost.  A replica applies an entry once its own term has reached
that of the leader that committed it: it learns the commit index from a leader.

* A write is `proposeCall`, `registerCall`, and one of `notified`, `deadline`,
  `leaderCheck`: the three critical sections of `PutAppend` and the arms of its `select`.
  `notifyChans` is keyed by index as in the code, so a channel may be replaced by that of
  another call and deleted by the wrong one; `ch` is the buffered channel.
* A read is `readState`, `readTerm`, `readNoop`, `readStore`: leadership, term, no-op and
  value are looked at one after the other.
* `KVServer` adds the state machine: one key, whose value is the writes it consists of;
  the duplicate table; snapshots by size, installed from a leader, restored on restart.
* `acked` and `floor` are history: the newest index whose own proposal was answered OK,
  and what it was when a read began at the newest leader.

`AtomicKV` is the promise to clerks: a write is called, takes effect at one moment,
returns; a read returns the state of some moment up to its return.  The refinement mapping takes the
requests of `chosen` in order of first appearance for what has taken effect, and tells
from the clerk's step and from `chosen` which phase its call is in.  It deliberately does not
promise that a read is recent: the code serves reads from a deposed leader that has not
noticed, and says so.  `ReadsFresh` says what is promised instead.

### Pool

One pool to one address.  A step is one channel operation, one critical section of
`p.mu`, or one dial or call.  A connection is represented by the incarnation of the
server process it was dialled to, so that all connections break when the process
dies.  `pc`, `redial` and `sweep` are the positions of callers, redialers and evictor,
`conn`, `rconn` and `econn` the connections in their hands.  How long a connection has
been idle is left open: the evictor may find any connection old enough.  `Close` is
called when no call is in flight, the precondition its comment states.

### Cache

Each section under `c.mu` is an action; a call to the store is a state between two of
them and takes effect at one moment inside it.  A value is the number of the write to
its key that made it, so "older" can be said.  `floor` remembers the last write to each
key that has returned, `landed` when each write took effect.  `stale` holds the calls
whose `stale` flag is set.  Both write policies are checked in one run: the policy is
chosen in `Init`.

### ShardGroup

A group is a set of replicas over one log.  Its log is what Raft guarantees: entries
that some replica has applied are never lost, others may be when the leader changes,
every replica applies in order at its own pace (`commit` is how far anybody got).
A value is the sequence of writes that made it, and a shard stands for one key of it.

* `kv[r]` is the replicated state: `store`, `duplicateTable`, `cfg`, `migrating`,
  `leaving`.  `Applied` has one case per kind of entry, as `applyLoop` has.
* `lastProposed`, `migrateProposed` and `gcProposed` are the loops' local variables.
  They matter because they are not replicated.  A change of leader takes at least an
  election timeout, many ticks of 2 ms, so the loops of the old leader have noticed
  and forgotten; `LeaderChange` clears them.  `lastNoopTerm` and `noopAppliedTerm` are
  `noopLoop`'s and the read gate's; a term is compared, so nothing clears them.
* `pull` and `gc` are what `migrationLoop` and `gcLoop` have read under the lock and
  will use after the call to the other group.  A loop has one shard in hand at a time.
* `clerk` is a ShardClerk: its cached config, its outstanding call, and the replica,
  term and index at which it is served.  A `Get` first finds a leader and its term
  (`Get`) and then passes the gate on no-op and ownership under the lock (`GetReply`).  Registering the notify channel is one step
  with the proposal; the code's gap between the two ends in the same timeout.

`Reconfigure` makes the next config of the constant sequence `Configs`: the controller
is represented by its history.

### Controllers

`ShardConfig` and `Ring` are the pure functions.  `rebalance` is written as what it
computes (which shards stay, who takes the others) rather than as its loops; a ring
is a set of entries where the code has a sorted slice, and has `RingSize` points
instead of 2^32.

`Commands` is a coarser view of a service than `Service`, small enough to be run with
richer state machines: proposals in flight are committed now, later or never, a retry
puts a second one in flight, a replica that applies an entry may or may not be the one
the call waits at.  `Ctrler` and `RingCtrler` add the state machines, restarts (there are
no snapshots: the log is replayed), and the clerks.  `Ctrler`'s `Move` is validated by the
replica that is asked; `RingCtrler`'s requests are validated when they are applied, and
the verdict is kept for retries.  `decide`, `confirm` and `moved` are `AutoSplitter.Step`, cut at
each call it makes; the loads of a window are any numbers up to `MaxLoad`.

## 3. Runs

Bounds are constants and appear in guards; nothing else limits the state space.  Runs
about replication start in `InitLed` (one undisturbed election has taken place) or
`InitBehind` (also one command was committed and compacted and leadership passed on),
both reachable states, and so spend their bounds on what they are about.  The shard
runs start when every replica has adopted config 1.  Every run switches deadlock
checking off: a bounded instance stops when its budget of faults, proposals or calls
is used up, and the real system may be idle.

| Run | Question | Instance, and why it is enough |
|---|---|---|
| `raft_log` | one leader per term, votes stable across restarts, `LeaderCompleteness`, `MatchIndexTruthful`, types | 3 nodes in a line, 3 terms, 4 timeouts, 2 entries, a crash, a failed call: the shape of Raft's Figure 8. Goroutines of two candidacies of a node overlap. Dropping the current-term rule of `advanceCommitIndex` is found here. |
| `raft_snapshot` | order of indices, no panic, state machine and snapshot against the committed prefix, files equal memory | compaction after every entry, 2 entries of 2 commands (interchangeable), 2 crashes of any node at any point, also between the two files. `SpecBetweenTicks` leaves out the interleaving of finding 1. |
| `raft_catchup` | `LogMatching`, `CommittedAgreement`, `LeaderCatchesPeersUp` (liveness) | the leader has compacted what the follower needs: back off, InstallSnapshot, AppendEntries, with a failed call and a crash; an old leader's entries are overwritten. |
| `raft_apply_order` | finding, below | |
| `kv` | replay, fresh reads, refinement of `AtomicKV` (no false OK), types | 2 replicas, a writer and a reader, 2 terms, a crash, a late step, a log of 4 entries, snapshots. A second leader, its predecessor still serving, a retry at each, and an install are all within reach. |
| `pool_calls` | counter exact, sends never block, `Call` and `Close` return, types | 3 callers, 2 redialers, 1 to 2 connections, a crash and recovery: growth, restoration, eviction and close all meet. |
| `pool_idle_minimum` | finding, below | |
| `cache` | read your writes, TTL, agreement with the store, calls return, types | 2 goroutines, 2 keys, room for 1, TTL of one tick, 2 writes, a foreign write, a panic. Three interchangeable goroutines with smaller bounds were explored too and add nothing. |
| `shard_chain` | acknowledged writes kept, exactly once, one owner, a clerk reads its own writes, types | one shard through three groups; the middle one has two replicas that lag, snapshot and restart; one write, then reads, one fault anywhere: a restart, a timeout, or a new leader of the last group once it is taking the shard in (a change from the config before it on was explored too and finds nothing). |
| `shard_gc_return`, `shard_return_stuck` | findings, below | two groups of one replica, a shard that moves away and back, no fault. |
| `controllers` | one version per request, balance, fewest moves, stray shards, ring partition, verdicts, splits touch one shard, splitters move their own half | two replicas (interchangeable), two clerks, one fault. Shard controller: 4 shards, 3 groups, two changes by one clerk against a move by the other. Ring controller: 8 points, a plain and a wrapping ring of two shards, two racing splitters that stop at three; one that decided before the other was done makes a fourth. |

A behaviour of `controllers` is about one of the two controllers (`kind`, chosen in
`Init`); they share `Commands` and a run, and nothing else.

`StateMachineSafety` deserves a remark.  After a crash between the two files the
snapshot is newer than the log says, and entries are executed again on top of it.  This
is harmless only because the state machine recognises operations; the property is
about nodes and state machine together, and its mutant (executing again) breaks it.
It and `SnapshotCoversLog` hold only while no snapshot is installed in the middle of an
apply tick (finding 1): there the state machine executes k+1 without the entries before
it, and may write a snapshot that lacks them.  `raft_snapshot` therefore runs `Next`
without that interleaving; with it, and two different commands, both are violated.

`MatchIndexTruthful` and `CommittedAgreement` hold although followers truncate without
looking, given one outstanding call per peer.  Under the same condition two
precautions of the code are never needed: the cap of a follower's commit index, and
the branch of `InstallSnapshot` that keeps a suffix of the log.

`ReadsFresh` is stated just before `Get` reads, when nothing can stop it any more: a
replica that led the newest term when the read began has applied all that was
acknowledged by then, even if it is deposed between the looks.  `GetsOwnWrites` is the
same idea for a shard that moves.

`ChangeMovesFewest` compares `rebalance` with every assignment that has the loads the
code aims at; see the observations for what its comment claims beyond that.

### Fairness

Liveness is claimed only for what runs by itself.

* `Raft`: weak fairness of the tickers (heartbeat, apply loop), of spawned goroutines,
  and of serving and answering a call that the transport does not fail.  No fairness
  of timeouts, proposals, failures, crashes.  `LeaderCatchesPeersUp` is conditional on
  a leader that stays, and on peers it can reach.
* `Pool`: weak fairness of each goroutine's next step (dials and calls return).  Strong
  fairness of `redialStop` and `evictorStop`: each is one arm of a `select` whose other
  arm is a ticker, Go picks among ready arms at random, and a closed channel stays ready.
* `Cache`: weak fairness of every step of a call that has begun; the store answers.
* `ShardGroup`: weak fairness of apply loops, tickers and clerks.  None of elections,
  restarts, configs or new writes.
* `KVServer` and the controllers are checked for safety only.  That every KV call
  returns under a lasting leader was tried and did not finish in a few minutes.

### Findings

1. `raft_apply_order`: `RunApplyLoop` looks for a pending snapshot once per tick and
   then applies entry after entry.  A snapshot and an entry behind it that both arrive
   during the loop are delivered in the wrong order, against the comment at
   apply.go:58.
2. `pool_idle_minimum`: the idle evictor compares `count` with `MinSize`, and `count`
   includes growth reservations.  If the dial of the reservation fails, a connection
   the documentation says is never evicted is gone and nobody replaces it.
3. `shard_gc_return`: a shard that comes back to the group that gave it away still has
   its `leaving` mark, and the late GC entry deletes it with the writes acknowledged
   since.
4. `shard_return_stuck`: a shard that moves away and back before the first pull leaves
   a `migrating` mark in both groups; each refuses the other's `Pull`, for ever.

### Observations

Seen while modelling, without a run of their own.

* **A false freshness in the KV service** (server.go:422-427).  A write waits at an ousted
  leader; its clerk's retry is proposed at the new leader and lands at the same index;
  the ousted leader applies it as a follower, compares the operations, and answers OK
  before the new leader has applied it.  A `Get` at the new leader can then miss an
  acknowledged write.  `acked` therefore counts an OK only if it is the call's own
  proposal; counted from every OK, `ReadsFresh` is violated.
* **A read of a shard that has moved on** (group_server.go:661).  A follower may apply a
  config, and hand the shard to the next owner, before its leader applies it; the leader
  meanwhile serves reads to clerks that have the old config.  `GetsOwnWrites` holds for
  a clerk's own writes, not for those of others.
* **"Moving as few shards as possible"** (config.go:96-98) is true for the loads that
  `rebalance` aims at, not for every even assignment: ten shards at groups 2 and 3, five
  each, and group 1 joins: the targets are 4, 3, 3 and four shards move where three
  would do.
* **A Move of a known group may panic** (ctrler_clerk.go:87-107).  The group is looked up
  at whichever replica is asked first, which may not have applied the acknowledged Join.
* **A RingClerk shared by goroutines** (ring_ctrler.go:137).  Two requests may be committed
  in the other order; the lower number is then dropped and answered with the verdict of
  the higher.  `nextSeq` takes a lock as if sharing were meant; nothing shares one.
* **MaxShards** (autosplit.go:51) is compared with what one Query showed; racing or
  late splitters exceed it, and `StepResult.NewShard` may then name another's half.
* A cluster of one node never becomes leader, since the majority is only looked at when
  a reply is counted (election.go); a redialer may take a pending growth reservation for
  the connection it was to restore (pooled_client.go:303); `migrationLoop`'s `proposed` is
  never cleared while the node stays leader (group_server.go:509); a clerk whose config
  has the shard at gid 0 asks nobody (group_clerk.go:89); `HasShard` may be answered by a
  replica that lags behind an earlier period of ownership.

## 4. Proofs

All theorems hold for every value of the constants, given the named assumptions of the
modules: `Raft` assumes finitely many servers, a `Nil` that is none of them, natural
bounds; `Pool` assumes finite sets of goroutines and `MinSize <= MaxSize`,
`MaxSize >= 1`; `Cache` assumes `Capacity >= 1`, which `New` enforces, natural bounds, and a
`None` that is no key, goroutine or entry; `ShardGroup` assumes that every group has a
replica and that there is a first config; `Service` and `KVServer` assume a server, a
first term, natural bounds, and a `Nil` that is no clerk; the controllers assume natural
bounds, finitely many groups with positive ids, initial rings that are finite sets of
entries, and a `Nil` that is no verdict.  TLC evaluates these assumptions in each run.

| Theorem | States |
|---|---|
| `TypeCorrect` | `Spec => []TypeOK` (Raft) |
| `VoteStability` | `Spec => VoteStable`: terms never decrease and a vote never changes, through crashes |
| `Durability` | `Spec => []DiskCurrent`: whenever the lock is free the state file equals memory |
| `AtMostOneLeader` | `Spec => []ElectionSafety` |
| `MatchingLogs`, `CompleteLeaders`, `AgreedCommits` | `LogMatching`, `LeaderCompleteness`, `CommittedAgreement` |
| `TruthfulMatches` | `MatchIndexTruthful` |
| `OrderedIndices`, `PanicFree` | `IndexOrder`, `NoPanic` |
| `PoolTypes`, `CountExact`, `NoBlockedSend` | `TypeOK`, `SlotsCounted`, `SendsNeverBlock` of the pool |
| `SoundList`, `OwnWritesRead`, `FreshHits`, `AgreesWithStore` | `TypeOK`, `ReadsOwnWrites`, `HitsFresh`, `CacheAgrees` of the cache |
| `SoundGroups`, `AppliedOnce` | `TypeOK`, `ExactlyOnce` of the shard groups |
| `SoleOwner` | `Orderly => (Spec => []OneOwner)` of the shard groups |
| `KeepsAcked`, `ReadsOwn` | `Orderly => (Spec => []OwnerHasAcked)` and `[]GetsOwnWrites` of the shard groups |
| `WellTyped`, `StoresReplay`, `FreshReads` | `TypeOK`, `StoreIsReplay`, `ReadsFresh` of the KV service |
| `AtomicStore` | `Spec => ImplementsAtomicKV`: the KV service refines `AtomicKV` |
| `RingsAreValid`, `VerdictsAreTruthful`, `SplittersMoveTheirHalf` | `RingValid`, `VerdictTruthful`, `MovesOwnHalf` of the ring controller |
| `VersionsMoveOneShard` | `Spec => OnlyThatShard`: what a new version of the ring changes |
| `RequestsMakeOneVersion`, `StraysHaveLeft` | `OneVersionPerRequest`, `StrayHasLeft` of the shard controller |
| `ChangesBalance`, `ChangesMoveFewest` | `Spec => ChangeBalances`, `Spec => ChangeMovesFewest`: what a Join or Leave does |

**`IndexInv`** (RaftProofs).  `TypeOK` is not inductive: backing off and slicing keep
positive indices and real logs only because only applied entries are compacted
(`CompactedApplied`), commit indices stay within what was committed
(`CommitRecorded`), a leader's nextIndex stays within its log (`NextWithinLog`), calls in
flight know no more than their sender (`CallOK`), and a restart reads back what the node
had (`DiskCurrent`).  One lemma per action shows that it preserves all of that and is a
`Step`, a step that never lowers a term or changes a vote; vote stability is then
immediate.

**`ElectionInv`** (RaftProofs).  A leader has counted a majority
(`LeaderHasMajority`), two majorities share a voter, and that voter's vote decides.
The work is to follow a vote from where it is cast to where it is counted: requests
and replies in flight belong to a goroutine that asked in that term (`RequestsKnown`,
`RepliesKnown`), whoever is claimed as a voter has voted so or left the term
(`ClaimsVoted`), no voter is claimed by two candidates of a term (`OneClaim`), a candidate
votes for itself (`VotesForItself`), and a goroutine that has not read the term
has counted nothing (`SpawnedFresh`).

**`RaftInv`** (RaftProofs, RaftStepProofs) is `IndexInv`, `ElectionInv`,
`CallInv` and `LogInv` together, and every safety property of the log follows from it.

* A compacted log is reasoned about as if it were whole: `full[s]` fills the compacted
  prefix in from `committed`, and `SnapshotTerm` says that the term kept at the cut is
  right.  Logs, the committed entries and what calls carry are all *fragments*: entries
  from some index on, with the term before it.  `Match` says of two fragments that they
  are cut from one log as far as they share a term; `Matched` says so of every two.
  `LogMatching` is one instance of it.
* `Matched` lasts because a term has one leader, the leader has all entries of its term
  (`LeaderHasOwn`), and a term with entries or calls is `Closed`: a majority can no longer
  be counted for anybody else in it.
* A leader knows what a peer holds because one call per peer is outstanding (`CallInv`:
  `OneCall`, `CallEpochs`): `CallShape`, `AckTrue` and `NextAboveCommit` tie the call in
  flight, or its late reply, to `nextIndex` and `matchIndex`.  Without this the
  unconditional truncation in `AppendEntries` loses acknowledged entries.
* `LeaderSafe` is the heart: an entry that a majority has acknowledged, *or could still
  acknowledge* in its term, is in every log and call of later terms.  It is stated about
  who could still vote, because votes are counted by goroutines long after they were cast.
  `CommitKnown` and `CallsKnown` follow what nodes and calls know to be committed.

The actions are not looked at one by one for each of these.  Every action is shown once
to be a `LogStep` (what a step may do to logs, roles, calls and commitment: keep a log,
append to it as leader, accept a call's entries, adopt a snapshot, win, send, answer,
advance) and a `CallStep`; that a `LogStep` preserves `LogInv`, and a `CallStep` `CallInv`,
is then proved without the code's detail.

**`PoolInv`** (PoolProofs).  `SlotsCounted` needs `Held` (who is about to return a
connection has one) and `Quiet` (nobody works once `Close` has drained the list).  The
sizes of the sets of owners change by at most one per step, which `CallMoves` and
`RedialMoves` say once for all actions; the rest is arithmetic (`Balance`).

**`CacheInv`** (CacheProofs).  `floor[k]` is the newest write to `k` that has returned.
Every cached value is at least that new, because the critical section that raises
`floor[k]` also marks the fetch registered for `k` and makes it impossible to join: a
fetch that is not stale is the registered one (`CallerOK`), and the registered one, if it
has read the store, has read `floor[k]` or newer (`KeyOK`).  Who joined a fetch did so
while it was registered, and is handed something no older than `floor[k]` was then, even
if the fetch has been marked since.  `writeMu` is held from the store to the cache, so at
most one write is in the store and not in `floor`.  For the TTL, the deadline of an entry
counts from before its value was read (`Valid`).  The list is handled by `WithoutIs`,
`InFront` and `FirstOf`; `Inserted` and `Invalidated` say what the map then is.

**`ShardInv`** (ShardGroupProofs).  What is known of a replica's state is also known of its
snapshot, so `GoodState` is stated of both and restarts are immediate; `GoodOp` and
`GoodPull` follow what a state becomes once it travels, in a log entry or a pull.

* `ExactlyOnce` needs that the table that comes with a shard's data covers it
  (`GoodData`); merging keeps the larger entry, so it still does afterwards.
* A group's log takes it through the configs one by one (`FollowsLog`), and what is
  missing was gained in a config it has reached (`MissesGained`).
* `OneOwner`: who has a shard, or has had it, got it from groups whose logs are `Past` the
  configs in which they owned it (`Ready`).  A first owner has nobody before it; a later
  one pulled the shard, and a donor answers from the newer config and when it has what
  it gained itself.  Committed entries stay, so `Ready` lasts (`ReadyGrows`).

`SoleOwner`, `KeepsAcked` and `ReadsOwn` have the hypothesis `Orderly`: a shard never returns
to a group that left it, nor to nobody.  `SoleOwner` needs it: with four configs that give a shard to g1, g2, g1 and g2, TLC
finds two owners.  A Migrate entry names no config, so what g2 pulled in the second
config may be applied in the fourth, while g1, in the third, pulls the shard back.

**`HistInv`** (second part of ShardGroupProofs).  `OwnerHasAcked` relates a write's effect in
one group to another group's store much later, when the first may have deleted it and its
replicas may have restarted.  The invariant therefore says that there *is* a history `T`
of the groups' states, `T[g][i]` after `i` entries, of which every replica and every
snapshot is a state; it is what the code computes, not a variable of the model.

* A write that took effect is `Seen` at an owner.  Whoever has had a shard has everything
  seen at the owners before it (`Complete`), or has deleted it since (`Collected`), and
  then the next owner has had it (`Passed`): that is what gcLoop asks for.
* A pull's data is `Complete` for the recipient, or comes so late that the recipient has
  had the shard (`Arrived`), and then the Migrate entry is ignored (`DonorComplete`).
* Nothing is seen at an owner once it is past its config (`LeftForGood`, from `Ready`), so
  what is `Complete` stays so while the histories grow (`CompleteGrows`).
* A retry that is answered from the duplicate table was seen too, and to the same shard:
  the table holds nothing that was not seen (`Known`), and what is seen fits the clerk's
  number (`Fits`).

Only `applyLoop` adds to the history (`OneMore`); for every other action the same `T` does.

**`OwnInv`** (third part of ShardGroupProofs).  `GetsOwnWrites` does not follow from
`OwnerHasAcked`: a leader that serves a read may lag behind its followers, or be deposed.
The invariant says where a write was taken relative to the no-ops, which is what `Get`
waits for, and where its clerk has been since.

* An acknowledged write is in state `T[h][i]` of a group h that its clerk asked, and the
  no-ops of terms after t, in which it was proposed, lie behind entry i (`Kept`).  The
  leader of t has applied i itself, for it answered; so a read of the clerk at h either
  found that leader or waits for a later term's no-op (`ServesPast`).
* A call that waits does so in a term that its group has reached, and the entry at its
  index, if it is its own, lies before the no-ops of later terms (`WaitOK`): a new leader
  may have cut the entry, and the same retry may have taken another index.
* A retry that the owner answers from its duplicate table is in the store *before* that
  entry, and not only at some time: an owner's table has no write that its store gets
  later (`NothingNew`, `OldTaken`).
* If the clerk reads from another group than h, its configs have only grown, so that group
  owns the shard after h and got what h had (`Complete`).

The history is determined by the logs (`SameHistory`), so `OwnInv` may speak of every `T`
that `HistInv` admits.  `LogsMove`, `ReplicasMove` and `ClerksMove` summarise `Next` for it.
TLC confirmed its parts on the instance of `shard_chain` before they were proved.

**`Inv`** (KVServerProofs) has a layer for each part of `Service` and `KVServer`, and each
layer's step is proved against a summary of `Next` that has only what the layer needs:
`RaftStep` (what happens to terms and logs), `ClerkStep` (which clerk begins or ends what),
`Forward` (what no step undoes).

* `RaftInv`: a term has one leader, and it has the last of its term's entries; terms do not
  fall along a log; the leader of the newest term has all that is committed
  (`LeaderComplete`).
* `RequestInv`: a number stands for one request of a clerk (`KnownOps`), who goes on to the
  next when the one before is committed (`Past`).  So in every log that may yet be
  committed a request stands behind its predecessor (`Ordered`), and the duplicate table,
  which compares numbers only, skips copies and nothing else.
* `ServiceInv`: what is buffered in a channel was applied at the call's index (`Told`),
  although channels are registered and deleted by index.  The replica that acknowledged
  its own entry has applied it for as long as it leads that term (`AckedApplied`).  A read's
  floor is therefore applied at its replica, or is of an earlier term than the no-op that
  the read waits for (`FloorKept`), and then precedes that no-op.
* `ReplayInv`: every store, duplicate table and snapshot is what some prefix of `chosen`
  produces; the table holds exactly the numbers of the requests in that prefix.

For `AtomicStore`, `EffectIs` says what a commit brings: each new request is the current one
of a clerk that is writing and has no copy in `chosen` yet, and no clerk has two.  The
other four abstract actions are the four disjuncts of `ClerkStep` in which a clerk begins
or ends; everything else stutters.

`Requests` and `Value` are recursive functions.  That such a function exists, is what its
equation says, and depends on a prefix only on that prefix needs induction.  The
prover cannot instantiate the library's induction theorems, so DataLemmas states it for
sets: of naturals (`Least`, `AllNaturals`, from the well-foundedness of <), of subsets of
a finite set (`BySubsets`), and as `Recursion`, the existence of a function that follows a
step from its value before.

**`CommandsInv`, `RingInv`, `ShardInv`** (ControllerProofs).  The log and the clerks are common
to both controllers: a number stands for one request of a clerk, wherever it
travels, and when a clerk goes on its requests before are in the log (`CommandsInv`).
So a replica that compares numbers only skips copies and nothing else.

* `RingInv`: a replica's newest ring and its duplicate table with the verdicts are what
  the prefix of the log it has applied produces (`RingHist`).  Every ring on the way
  is `GoodCfg`: the entries have distinct points and distinct shards, and each shard has
  an owner; a split gives the new half an id that no ring before it had.  Entries are never
  removed, and so the half that a splitter was told to be its own is still that
  entry in every ring that has its id (`StepsOK`).
* `ShardInv`: a replica's configs are the versions that the prefix of the log makes
  (`Versions`), and its table holds exactly the numbers in that prefix.  The group that
  a Move names was found in a config of some replica, so it has been a member in
  every log that the Move can be committed to (`MovesOK`).
* `ChangesBalance` and `ChangesMoveFewest` are about `rebalance` and need no history, only that
  configs are typed.  The targets of the members add up to the shards there are
  (`SumOf`, a sum over a set, with its lemmas in DataLemmas), the shards a group gives
  up number what it has beyond its target, and so the givers' surplus fills the
  takers' need exactly (`RebalanceBalances`).  No group keeps more than the lesser of what it
  had and its target in any assignment with these loads, and `rebalance` keeps just that
  (`UnmovedAtMost`, `MovedIs`).

Checked by TLC only:

* Everything under fairness, and `ENABLED`, which the prover has no rules for.
* `StateMachineSafety` and `SnapshotCoversLog`.  They are not invariants of `Spec`: with two
  different commands finding 1 violates them, and `raft_snapshot` leaves that interleaving
  out.  What the node itself owes its state machine is proved (`AgreedCommits`,
  `CompleteLeaders`).

## 5. Not modelled

* `NetTransport`, whose cached connection is not replaced after an error, and whose calls
  may hang: the Raft model follows `FakeTransport`.
* The sharing of one pooled client by goroutines: its `writeMu` makes it the clerk of
  `KVServer`; the shared `lastKnown` only says where a round begins.
* The handlers and `noopLoop` of the two controllers in detail: the same code as
  `KVServer`'s, of which `Commands` is the summary.
* The static sharded client: a router without state.
* `LoadTracker` and `MergeLoads`: sums under a lock.  `HashKey`, `Key2Shard`: keys are what
  they hash to.
* The linearizability checker and the test harness: tools of the tests.
* Encoding (gob), statistics, logging, wall-clock durations.
* In `ShardGroup`, a new leader of the middle group: its two replicas make that
  instance too large to finish.  Leader changes of the first and of the last group
  have been explored.  Shard groups take configs from a constant sequence, not from
  `Ctrler`, for the same reason.

## 6. Plan

The model covers what carries the protocol logic, and every safety property that holds of
`Spec` and that a run checks is proved.  What is left is what section 5 names.
