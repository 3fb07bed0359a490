-------------------------------- MODULE Ring --------------------------------
(***************************************************************************)
(* Stage 6: the hash ring and its configurations (ring.go, ring_config.go).*)
(* A ring is a set of entries; the code keeps it sorted by start.  Keys    *)
(* are the points they hash to.                                            *)
(***************************************************************************)
EXTENDS Integers, FiniteSets, FiniteSetsExt

CONSTANT RingSize   \* 2^32 in the code

ASSUME RingSizeAssumption == RingSize \in Nat \ {0}

Point == 0 .. RingSize - 1

Starts(ring) == {e.start : e \in ring}
Shards(ring) == {e.shard : e \in ring}
EntryOf(ring, shard) == CHOOSE e \in ring : e.shard = shard

\* n shards, evenly spaced; the last takes what the division leaves.
NewRing(n) == {[start |-> (i - 1) * (RingSize \div n), shard |-> i] : i \in 1 .. n}

NextShardID(ring) == Max(Shards(ring)) + 1

\* Mutant: a point below every start belongs to the lowest entry.
ringAssignPoint_line(ring, p) ==
    LET below == {x \in Starts(ring) : x <= p}
    IN (CHOOSE e \in ring : e.start = IF below = {} THEN Min(Starts(ring)) ELSE Max(below)).shard

\* The entry with the last start at or below the point, or the last of all.
ringAssignPoint(ring, p) ==
    LET below == {x \in Starts(ring) : x <= p}
    IN (CHOOSE e \in ring :
            e.start = Max(IF below = {} THEN Starts(ring) ELSE below)).shard

\* The next start in ring order, exclusive end of the entry's range.
rangeEnd(ring, e) ==
    LET above == {x \in Starts(ring) : x > e.start}
    IN Min(IF above = {} THEN Starts(ring) ELSE above)

\* Mutant: the end counts as inside.
inRangeExclusive_closed(start, end, p) ==
    IF start < end THEN p >= start /\ p <= end ELSE p >= start \/ p <= end

\* The range wraps past the top of the space when its end is not above its start.
inRangeExclusive(start, end, p) ==
    IF start < end THEN p >= start /\ p < end ELSE p >= start \/ p < end

\* The point is strictly inside the shard's range.
Splittable(ring, shard, p) ==
    /\ shard \in Shards(ring)
    /\ LET e == EntryOf(ring, shard)
       IN p # e.start /\ inRangeExclusive(e.start, rangeEnd(ring, e), p)

\* The upper half gets the new id.
Split(ring, p) == ring \cup {[start |-> p, shard |-> NextShardID(ring)]}

\* A one-shard ring's range is the whole space.
Width(ring, e) ==
    LET end == rangeEnd(ring, e)
    IN end - e.start + (IF end <= e.start THEN RingSize ELSE 0)

Divisible(ring, shard) == shard \in Shards(ring) /\ Width(ring, EntryOf(ring, shard)) >= 2
Midpoint(ring, shard) ==
    LET e == EntryOf(ring, shard) IN (e.start + Width(ring, e) \div 2) % RingSize

ValidRing(ring) ==
    /\ ring # {}
    /\ Cardinality(Shards(ring)) = Cardinality(ring)
    /\ Cardinality(Starts(ring)) = Cardinality(ring)

(***************************************************************************)
(* Configurations: a ring, the owner of each shard, and the groups.        *)
(***************************************************************************)
ZeroRingConfig == [num |-> 0, ring |-> {}, owners |-> <<>>, groups |-> {}]

\* Shards are dealt round robin in the order of their starts.
NewRingConfig(ring, groups) ==
    LET at(e) == Cardinality({x \in Starts(ring) : x < e.start}) % Cardinality(groups)
        dealt(shard) == CHOOSE g \in groups :
            Cardinality({h \in groups : h < g}) = at(EntryOf(ring, shard))
    IN [num |-> 1, ring |-> ring, groups |-> groups,
        owners |-> [shard \in Shards(ring) |-> dealt(shard)]]

\* Both halves stay with the group that has the shard.
SplitConfig(cfg, shard, p) ==
    LET new == NextShardID(cfg.ring)
    IN [cfg EXCEPT !.num = @ + 1, !.ring = Split(@, p),
                   !.owners = [s \in DOMAIN @ \cup {new} |-> IF s = new THEN @[shard] ELSE @[s]]]

MoveRingShard(cfg, shard, gid) == [cfg EXCEPT !.num = @ + 1, !.owners[shard] = gid]

ValidConfig(cfg) ==
    /\ ValidRing(cfg.ring)
    /\ DOMAIN cfg.owners = Shards(cfg.ring)
    /\ \A shard \in DOMAIN cfg.owners : cfg.owners[shard] \in cfg.groups

Lookup(cfg, p) == cfg.owners[ringAssignPoint(cfg.ring, p)]
=============================================================================
