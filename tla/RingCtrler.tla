----------------------------- MODULE RingCtrler -----------------------------
(***************************************************************************)
(* Stage 6: the ring controller, its clerk and the auto-splitter           *)
(* (ring_ctrler.go, ring_clerk.go, detect.go, autosplit.go).  Each clerk   *)
(* belongs to an AutoSplitter, which makes one call at a time; one of them *)
(* also installs the first config.                                         *)
(***************************************************************************)
EXTENDS Commands, Ring

CONSTANTS
    Operator,    \* the clerk that calls Init
    InitRings,   \* the rings it may install
    Groups,      \* the groups
    FactorNum, FactorDen, MinLoad,   \* HotPolicy; its Factor is the quotient
    MaxShards,   \* AutoSplitter.MaxShards
    MaxLoad,     \* bound: the load of a shard in a window
    MaxSteps     \* bound: the Steps of an auto-splitter

ASSUME RingCtrlerAssumption ==
    /\ Operator \in Clerk /\ Groups \subseteq Nat \ {0} /\ Groups # {} /\ IsFiniteSet(Groups)
    /\ \A ring \in InitRings : IsFiniteSet(ring) /\ ring \subseteq [start : Point, shard : Nat]
    /\ FactorNum \in Nat /\ FactorDen \in Nat \ {0} /\ MinLoad \in Nat /\ MaxShards \in Nat
    /\ MaxLoad \in Nat /\ MaxSteps \in Nat

VARIABLES
    ringConfigs, dedup,   \* RingCtrler.configs, .duplicateTable, per replica
    step                  \* the AutoSplitter's Step: where it is, what it chose
ringVars == <<ringConfigs, dedup, step>>

NewRingCtrler == [configs |-> <<ZeroRingConfig>>,
                  dedup |-> [c \in Clerk |-> [seq |-> 0, err |-> Nil]]]

RingInit ==
    /\ ringConfigs = [s \in Server |-> NewRingCtrler.configs]
    /\ dedup = [s \in Server |-> NewRingCtrler.dedup]
    /\ step = [c \in Clerk |-> [pc |-> "idle", num |-> 0]]

latestRing(s) == ringConfigs[s][Len(ringConfigs[s])]

(***************************************************************************)
(* The state machine.  Requests are validated when they are applied.       *)
(***************************************************************************)
Valid(cfg, op) ==
    CASE op.type = "Init"  -> cfg.num = 0 /\ ValidRing(op.ring)
      [] op.type = "Split" -> op.shard \in DOMAIN cfg.owners /\ Splittable(cfg.ring, op.shard, op.point)
      [] op.type = "Move"  -> op.shard \in DOMAIN cfg.owners /\ op.gid \in cfg.groups

applyOp(cfg, op) ==
    CASE op.type = "Init"  -> NewRingConfig(op.ring, Groups)
      [] op.type = "Split" -> SplitConfig(cfg, op.shard, op.point)
      [] op.type = "Move"  -> MoveRingShard(cfg, op.shard, op.gid)

Verdict(s, op) == IF Valid(latestRing(s), op) THEN "OK" ELSE "InvalidArgs"

\* Mutant: a duplicate is judged again.
Answer_again(s, op) == Verdict(s, op)

\* A duplicate gets the verdict its clerk's last request got.
Answer(s, op) ==
    LET d == dedup[s][op.clerk] IN IF op.seq <= d.seq THEN d.err ELSE Verdict(s, op)

ringApplyLoop(s) ==
    LET op == log[applied[s] + 1]
    IN /\ Deliver(s, Answer(s, op))
       /\ IF op.seq <= dedup[s][op.clerk].seq
          THEN UNCHANGED <<ringConfigs, dedup>>
          ELSE /\ dedup' = [dedup EXCEPT ![s][op.clerk] = [seq |-> op.seq, err |-> Verdict(s, op)]]
               /\ IF Valid(latestRing(s), op)
                  THEN ringConfigs' = [ringConfigs EXCEPT ![s] = Append(@, applyOp(latestRing(s), op))]
                  ELSE UNCHANGED ringConfigs
       /\ UNCHANGED step

RestartRing(s) ==
    /\ Crash(s)
    /\ ringConfigs' = [ringConfigs EXCEPT ![s] = NewRingCtrler.configs]
    /\ dedup' = [dedup EXCEPT ![s] = NewRingCtrler.dedup]
    /\ UNCHANGED step

(***************************************************************************)
(* The clerks.  RingClerk gives up when its timeout has passed; what it    *)
(* has proposed may still be committed.                                    *)
(***************************************************************************)
InitCall ==
    /\ seq[Operator] = 0
    /\ \E ring \in InitRings :
          Issue(Operator, [clerk |-> Operator, seq |-> 1, type |-> "Init", ring |-> ring])
    /\ UNCHANGED ringVars

GiveUp(c) ==
    /\ call[c].pc = "wait" /\ faults < MaxFaults
    /\ call' = Return(c, "timeout")
    /\ faults' = faults + 1
    /\ UNCHANGED <<kind, log, applied, inFlight, seq, ringVars>>

(***************************************************************************)
(* Step.                                                                   *)
(***************************************************************************)

\* Hottest first, the lowest id on ties, among the shards above the threshold.
DetectHot(loads, shards) ==
    LET total == MapThenSumSet(LAMBDA x : loads[x], shards)
    IN {x \in shards : /\ loads[x] >= MinLoad /\ loads[x] > 0
                       /\ loads[x] * Cardinality(shards) * FactorDen > FactorNum * total}
Hottest(loads, hot) ==
    CHOOSE x \in hot : \A y \in hot : loads[x] > loads[y] \/ (loads[x] = loads[y] /\ x <= y)

coolestGroup(cfg, loads) ==
    LET load(g) == MapThenSumSet(LAMBDA x : loads[x], {x \in DOMAIN cfg.owners : cfg.owners[x] = g})
    IN CHOOSE g \in cfg.groups :
          \A h \in cfg.groups : load(g) < load(h) \/ (load(g) = load(h) /\ g <= h)

\* What Step may decide on, given a config and a window of loads.
Decision(cfg, loads) ==
    LET shards == Shards(cfg.ring)
        hot    == DetectHot(loads, shards)
        victim == Hottest(loads, hot)
    IN IF hot = {} \/ Cardinality(shards) >= MaxShards \/ ~Divisible(cfg.ring, victim) THEN {}
       ELSE {[victim |-> victim, point |-> Midpoint(cfg.ring, victim),
              newID |-> NextShardID(cfg.ring), owner |-> cfg.owners[victim],
              target |-> coolestGroup(cfg, loads)]}

\* Step queries, decides and calls Split.
decide(c) ==
    /\ step[c].pc = "idle" /\ step[c].num < MaxSteps
    /\ \E s \in Server :
          LET cfg == latestRing(s)
          IN \E d \in UNION {Decision(cfg, loads) : loads \in [Shards(cfg.ring) -> 0 .. MaxLoad]} :
                /\ Issue(c, [clerk |-> c, seq |-> seq[c] + 1, type |-> "Split",
                             shard |-> d.victim, point |-> d.point])
                /\ step' = [step EXCEPT ![c] =
                       [pc |-> "split", num |-> @.num + 1, point |-> d.point, newID |-> d.newID,
                        owner |-> d.owner, target |-> d.target]]
    /\ UNCHANGED <<ringConfigs, dedup>>

EndStep(c) == step' = [step EXCEPT ![c] = [pc |-> "idle", num |-> @.num]]

\* Mutant: the new half is taken for the splitter's own.
Confirmed_always(c, cfg) == TRUE

\* The second Query shows the half under the id that Step foresaw.
Confirmed(c, cfg) ==
    /\ step[c].newID \in DOMAIN cfg.owners
    /\ cfg.owners[step[c].newID] = step[c].owner
    /\ EntryOf(cfg.ring, step[c].newID).start = step[c].point

\* Split has returned: Step confirms and calls Move, or ends.  (It ends too
\* when its Query fails.)
confirm(c) ==
    /\ step[c].pc = "split" /\ Idle(c)
    /\ \/ /\ call[c].verdict = "OK" /\ step[c].target # step[c].owner
          /\ \E s \in Server : Confirmed(c, latestRing(s))
          /\ Issue(c, [clerk |-> c, seq |-> seq[c] + 1, type |-> "Move",
                       shard |-> step[c].newID, gid |-> step[c].target])
          /\ step' = [step EXCEPT ![c].pc = "move"]
       \/ EndStep(c) /\ UNCHANGED commandVars
    /\ UNCHANGED <<ringConfigs, dedup>>

moved(c) ==
    /\ step[c].pc = "move" /\ Idle(c)
    /\ EndStep(c)
    /\ UNCHANGED <<commandVars, ringConfigs, dedup>>

RingNext ==
    \/ \E s \in Server : ringApplyLoop(s) \/ RestartRing(s)
    \/ Commit /\ UNCHANGED ringVars
    \/ InitCall
    \/ \E c \in Clerk : \/ Retry(c) /\ UNCHANGED ringVars
                        \/ GiveUp(c) \/ decide(c) \/ confirm(c) \/ moved(c)

(***************************************************************************)
(* Properties.                                                             *)
(***************************************************************************)
\* Every version partitions the ring among shards with one owner each
\* (ring_config.go: Validate), whatever was split, moved and raced.
RingValid == \A s \in Server : latestRing(s).num > 0 => ValidConfig(latestRing(s))

\* A new version that splits a shard leaves every key with its group and the keys
\* of other shards with their shard; one that moves a shard changes the group of
\* no other shard's keys (ring.go: Split; ring_config.go: SplitConfig,
\* MoveRingShard).
OnlyThatShard ==
    [][\A s \in Server : Len(ringConfigs'[s]) > Len(ringConfigs[s]) /\ latestRing(s).num > 0 =>
         LET old == latestRing(s)
             new == latestRing(s)'
             fresh == Shards(new.ring) \ Shards(old.ring)
             left == {p \in Point : Lookup(old, p) # Lookup(new, p)}
             divided == {p \in Point : ringAssignPoint(new.ring, p) # ringAssignPoint(old.ring, p)}
             of(points) == {ringAssignPoint(old.ring, p) : p \in points}
         IN IF fresh = {} THEN divided = {} /\ Cardinality(of(left)) <= 1
            ELSE /\ left = {} /\ Cardinality(of(divided)) = 1
                 /\ \A p \in divided : ringAssignPoint(new.ring, p) \in fresh]_ringConfigs

\* Reference: the requests of a log that count, the first of its kind and not
\* overtaken by a later one of the clerk, and those that take effect.
Effective(l) ==
    LET counts(n) == \A m \in 1 .. n - 1 : l[m].clerk = l[n].clerk => l[m].seq < l[n].seq
        upTo[n \in 0 .. Len(l)] ==
            IF n = 0 THEN [cfg |-> ZeroRingConfig, ops |-> {}]
            ELSE LET r == upTo[n - 1]
                 IN IF counts(n) /\ Valid(r.cfg, l[n])
                    THEN [cfg |-> applyOp(r.cfg, l[n]), ops |-> r.ops \cup {l[n]}]
                    ELSE r
    IN upTo[Len(l)].ops

\* A call that was answered OK has taken effect, one that was rejected never
\* does, also when the answer is that to a retry (ring_ctrler.go: applyLoop).
VerdictTruthful ==
    \A c \in Clerk : kind = "ring" /\ call[c].verdict \in {"OK", "InvalidArgs"} =>
        (call[c].verdict = "OK" <=> call[c].op \in Effective(log))

\* A shard that a splitter moves is the half its own Split made, whoever else
\* changed the ring between its Query and its Move (autosplit.go: Step).
MovesOwnHalf ==
    \A c \in Clerk, s \in Server :
        step[c].pc = "move" /\ step[c].newID \in DOMAIN latestRing(s).owners =>
            EntryOf(latestRing(s).ring, step[c].newID).start = step[c].point
=============================================================================
